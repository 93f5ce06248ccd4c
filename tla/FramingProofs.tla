---------------------------- MODULE FramingProofs ----------------------------
(* Theorems about the two ends of a framed connection.  Framing, for all     *)
(* sizes of frames, reads and the server's threshold: what is sent arrives,  *)
(* and neither read loop ever holds more than a fixed number of bytes.  FrameWriter, for any set of     *)
(* tasks: the drains of a shared writer never overlap.                       *)
EXTENDS Framing, SequenceTheorems, FiniteSetTheorems, TLAPS

USE DEF vars, receiver, HeaderSize, DATA, CLOSE, PONG

Bytes == Seq(Nat)

\* The bytes of the connection and what the receiver holds of them.
TypeInv ==
    /\ side \in {"client", "server"}
    /\ pending \in [Streams -> Seq(Bytes)]
    /\ wire \in Bytes /\ taken \in Nat
    /\ buf \in Bytes /\ pos \in Nat
    /\ given \in [Streams -> Bytes] /\ received \in [Streams -> Bytes]
    /\ ends \in Seq(Nat) /\ handled \in Nat

\* The size of the buffer from one read to the next.
BufferInv ==
    /\ pos <= Len(buf)
    /\ Len(buf) < MaxFrame + Threshold + ReadSize

\* A part of a sequence of bytes.
LEMMA PartFacts ==
    ASSUME NEW s \in Bytes, NEW m \in Nat, NEW n \in Nat, 1 <= m, m <= n + 1, n <= Len(s)
    PROVE  SubSeq(s, m, n) \in Bytes /\ Len(SubSeq(s, m, n)) = n - m + 1
  BY DEF Bytes

\* What unpack_frame finds: nothing when a header or the rest of a frame is missing, else a
\* frame that lies within the buffer.
LEMMA UnpackFacts ==
    ASSUME TypeInv, pos <= Len(buf)
    PROVE  /\ Idle => Len(buf) - pos < MaxFrame
           /\ ~Idle => /\ Unpack(buf, pos).payload \in Bytes
                       /\ pos + Consumed(Unpack(buf, pos)) \in Nat
                       /\ pos + Consumed(Unpack(buf, pos)) <= Len(buf)
<1> buf \in Bytes /\ pos \in Nat /\ Len(buf) \in Nat /\ MaxFrame \in Nat /\ MaxFrame > 3
  BY FramingAssumption DEF TypeInv, Bytes
<1> DEFINE rest == Len(buf) - pos
           total == buf[pos + 1]
<1>1. CASE rest < 3
  <2>1. Idle
    BY <1>1 DEF Idle, Unpack
  <2> QED
    BY <1>1, <2>1
<1>2. CASE rest >= 3 /\ BadLength(total)
  <2>1. Unpack(buf, pos) = [sid |-> buf[pos + 2], cmd |-> 10, payload |-> <<>>]
    BY <1>2 DEF Unpack
  <2>2. ~Idle
    BY <2>1 DEF Idle, None
  <2>3. Unpack(buf, pos).payload = <<>> /\ Len(<<>>) = 0 /\ <<>> \in Bytes
    BY <2>1 DEF Bytes
  <2> QED
    BY <1>2, <2>2, <2>3 DEF Consumed
<1>3. CASE rest >= 3 /\ ~BadLength(total) /\ rest < total
  <2>1. Idle
    BY <1>3 DEF Idle, Unpack
  <2>2. total \in Nat /\ total <= MaxFrame
    BY <1>3 DEF BadLength, Bytes
  <2> QED
    BY <1>3, <2>1, <2>2
<1>4. CASE rest >= 3 /\ ~BadLength(total) /\ ~(rest < total)
  <2>0. total \in Nat /\ total >= 3 /\ total <= rest
    BY <1>4 DEF BadLength, Bytes
  <2> DEFINE part == SubSeq(buf, pos + 3 + 1, pos + total)
             cmd == IF buf[pos + 3] \in Cmd THEN buf[pos + 3] ELSE 3
  <2>1. Unpack(buf, pos) = [sid |-> buf[pos + 2], cmd |-> cmd, payload |-> part]
    BY <1>4 DEF Unpack
  <2>2. Unpack(buf, pos).cmd # 0
    <3>1. cmd # 0
      BY DEF Cmd
    <3> HIDE DEF part, cmd
    <3> QED
      BY <2>1, <3>1
  <2>3. ~Idle
    BY <2>2 DEF Idle, None
  <2>4. part \in Bytes /\ Len(part) = total - 3
    <3> HIDE DEF total
    <3> QED
      BY <2>0, PartFacts, pos + 3 + 1 \in Nat, pos + total \in Nat, pos + total <= Len(buf)
  <2>5. Unpack(buf, pos).payload = part
    <3> HIDE DEF part, cmd
    <3> QED
      BY <2>1
  <2> QED
    BY <2>0, <2>3, <2>4, <2>5, SMTT(30) DEF Consumed
<1> QED
  BY <1>1, <1>2, <1>3, <1>4

\* What a read loop keeps of its buffer before it appends.
LEMMA RestFacts ==
    ASSUME TypeInv, BufferInv, Idle
    PROVE  /\ Rest.buf \in Bytes /\ Rest.pos \in Nat /\ Rest.pos <= Len(Rest.buf)
           /\ Len(Rest.buf) < MaxFrame + Threshold
<1> /\ buf \in Bytes /\ pos \in Nat /\ Len(buf) \in Nat /\ MaxFrame \in Nat
    /\ Threshold \in Nat /\ pos <= Len(buf) /\ side \in {"client", "server"}
  BY FramingAssumption DEF TypeInv, BufferInv, Bytes
<1>0. Len(buf) - pos < MaxFrame
  BY UnpackFacts
<1>1. CASE Compacts
  <2>1. Rest.buf = SubSeq(buf, pos + 1, Len(buf)) /\ Rest.pos = 0
    BY <1>1 DEF Rest
  <2>2. /\ SubSeq(buf, pos + 1, Len(buf)) \in Bytes
        /\ Len(SubSeq(buf, pos + 1, Len(buf))) = Len(buf) - pos
    BY DEF Bytes
  <2> QED
    BY <1>0, <2>1, <2>2
<1>2. CASE ~Compacts
  <2>1. Rest.buf = buf /\ Rest.pos = pos
    BY <1>2 DEF Rest
  <2>2. pos <= Threshold
    BY <1>2 DEF Compacts
  <2> QED
    BY <1>0, <2>1, <2>2
<1> QED
  BY <1>1, <1>2

\* The payloads of one send_data call.
LEMMA ChunksFacts ==
    ASSUME NEW data \in Bytes
    PROVE  Chunks(data) \in Seq(Bytes)
<1> MaxPayload \in Nat /\ MaxPayload > 0 /\ Len(data) \in Nat
  BY FramingAssumption DEF MaxPayload, Bytes
<1>1. CASE Len(data) <= MaxPayload
  BY <1>1 DEF Chunks
<1>2. CASE ~(Len(data) <= MaxPayload)
  <2> DEFINE k == (Len(data) + MaxPayload - 1) \div MaxPayload
             last(i) == IF i * MaxPayload < Len(data) THEN i * MaxPayload ELSE Len(data)
  <2>1. Chunks(data) = [i \in 1..k |-> SubSeq(data, (i - 1) * MaxPayload + 1, last(i))]
    BY <1>2 DEF Chunks
  <2>2. k \in Nat
    OBVIOUS
  <2>3. ASSUME NEW i \in 1..k PROVE SubSeq(data, (i - 1) * MaxPayload + 1, last(i)) \in Bytes
    <3>1. (i - 1) * MaxPayload \in Nat /\ i * MaxPayload \in Nat
      OBVIOUS
    <3>2. (i - 1) * MaxPayload + 1 >= 1 /\ last(i) <= Len(data) /\ last(i) \in Nat
      BY <3>1
    <3> QED
      BY <3>1, <3>2 DEF Bytes
  <2> QED
    BY <2>1, <2>2, <2>3
<1> QED
  BY <1>1, <1>2

\* Both read loops, in every state.
LEMMA InvariantHolds == Spec => [](TypeInv /\ BufferInv)
<1>1. Init => TypeInv /\ BufferInv
  <2> SUFFICES ASSUME Init PROVE TypeInv /\ BufferInv
    OBVIOUS
  <2>1. <<>> \in Bytes /\ Len(<<>>) = 0 /\ [s \in Streams |-> <<>>] \in [Streams -> Seq(Bytes)]
    BY DEF Bytes
  <2> QED
    BY <2>1, FramingAssumption DEF Init, TypeInv, BufferInv
<1>2. TypeInv /\ BufferInv /\ [Next]_vars => (TypeInv /\ BufferInv)'
  <2> SUFFICES ASSUME TypeInv, BufferInv, Next PROVE (TypeInv /\ BufferInv)'
    BY DEF TypeInv, BufferInv
  <2> Streams \subseteq Nat /\ MaxFrame \in Nat
    BY FramingAssumption
  <2>1. ASSUME NEW s \in Streams, SendData(s) PROVE (TypeInv /\ BufferInv)'
    <3>1. PICK n \in 0..MaxData : pending' = [pending EXCEPT ![s] = Chunks([i \in 1..n |-> 3 + (i % 2)])]
      BY <2>1 DEF SendData
    <3>2. [i \in 1..n |-> 3 + (i % 2)] \in Bytes
      BY FramingAssumption DEF Bytes
    <3>3. pending' \in [Streams -> Seq(Bytes)]
      BY <3>1, <3>2, ChunksFacts DEF TypeInv
    <3>4. given' \in [Streams -> Bytes]
      <4>1. PICK m \in 0..MaxData : given' = [given EXCEPT ![s] = @ \o [i \in 1..m |-> 3 + (i % 2)]]
        BY <2>1 DEF SendData
      <4>2. [i \in 1..m |-> 3 + (i % 2)] \in Bytes
        BY FramingAssumption DEF Bytes
      <4>3. given[s] \in Bytes
        BY DEF TypeInv
      <4>4. given[s] \o [i \in 1..m |-> 3 + (i % 2)] \in Bytes
        BY <4>2, <4>3, ConcatProperties DEF Bytes
      <4> QED
        BY <4>1, <4>4 DEF TypeInv
    <3> QED
      BY <2>1, <3>3, <3>4 DEF SendData, TypeInv, BufferInv
  <2>2. ASSUME NEW s \in Streams, SendFrame(s) PROVE (TypeInv /\ BufferInv)'
    <3>0. pending[s] \in Seq(Bytes) /\ pending[s] # <<>>
      BY <2>2 DEF SendFrame, TypeInv
    <3>1. Head(pending[s]) \in Bytes /\ Tail(pending[s]) \in Seq(Bytes)
      BY <3>0
    <3>2. Len(Head(pending[s])) \in Nat
      BY <3>1 DEF Bytes
    <3>3. Pack(s, 2, Head(pending[s])) \in Bytes
      BY <3>1, <3>2 DEF Pack, Bytes
    <3>4. wire' \in Bytes
      BY <2>2, <3>3 DEF SendFrame, Put, TypeInv, Bytes
    <3>5. ends' \in Seq(Nat)
      <4>1. ends' = Append(ends, Len(wire')) /\ Len(wire') \in Nat
        BY <2>2, <3>4 DEF SendFrame, Bytes
      <4> QED
        BY <4>1 DEF TypeInv
    <3> QED
      BY <2>2, <3>1, <3>4, <3>5 DEF SendFrame, TypeInv, BufferInv
  <2>3. ASSUME NEW bytes \in Bytes, Odd(bytes), ends' = ends \/ ends' = Append(ends, Len(wire'))
        PROVE  (TypeInv /\ BufferInv)'
    <3>1. wire' \in Bytes /\ Len(wire') \in Nat
      BY <2>3 DEF Odd, Put, TypeInv, Bytes
    <3>2. ends' \in Seq(Nat)
      BY <2>3, <3>1, AppendProperties, SMTT(30) DEF TypeInv
    <3> QED
      BY <2>3, <3>1, <3>2 DEF Odd, TypeInv, BufferInv
  <2>4. CASE SendUnknown
    <3>1. Pack(0, 10 + 1, <<>>) \in Bytes
      BY DEF Pack, Bytes
    <3> QED
      BY <2>3, <2>4, <3>1 DEF SendUnknown
  <2>5. CASE SendBadHeader
    <3>1. \A total \in {3 - 1, MaxFrame + 1} : <<total, 0, 2>> \in Bytes
      BY DEF Bytes
    <3> QED
      BY <2>3, <2>5, <3>1 DEF SendBadHeader
  <2>6. CASE SendNoise
    <3>1. \A b \in {3, MaxFrame + 1} : <<b>> \in Bytes
      BY DEF Bytes
    <3> QED
      BY <2>3, <2>6, <3>1 DEF SendNoise
  <2>7. CASE Read
    <3>1. PICK n \in 1..ReadSize :
             /\ taken + n <= Len(wire) /\ taken' = taken + n
             /\ buf' = Rest.buf \o SubSeq(wire, taken + 1, taken + n)
      BY <2>7 DEF Read
    <3>2. /\ Rest.buf \in Bytes /\ Rest.pos \in Nat /\ Rest.pos <= Len(Rest.buf)
          /\ Len(Rest.buf) < MaxFrame + Threshold
      BY <2>7, RestFacts DEF Read
    <3>3. /\ taken \in Nat /\ n \in Nat /\ n <= ReadSize /\ ReadSize \in Nat
          /\ Threshold \in Nat /\ wire \in Bytes
      BY FramingAssumption DEF TypeInv
    <3>4. /\ SubSeq(wire, taken + 1, taken + n) \in Bytes
          /\ Len(SubSeq(wire, taken + 1, taken + n)) = n
      BY <3>1, <3>3 DEF Bytes
    <3>5. buf' \in Bytes /\ Len(buf') = Len(Rest.buf) + n
      BY <3>1, <3>2, <3>4 DEF Bytes
    <3>6. Len(Rest.buf) \in Nat
      BY <3>2 DEF Bytes
    <3>7. pos' = Rest.pos /\ UNCHANGED <<side, pending, wire, given, received, ends, handled>>
      BY <2>7 DEF Read
    <3>8. TypeInv'
      BY <3>1, <3>2, <3>3, <3>5, <3>7 DEF TypeInv
    <3>9. BufferInv'
      BY <3>2, <3>3, <3>5, <3>6, <3>7, FramingAssumption DEF BufferInv
    <3> QED
      BY <3>8, <3>9
  <2>8. CASE Frame
    <3> DEFINE frame == Unpack(buf, pos)
    <3>1. /\ frame.payload \in Bytes /\ pos + Consumed(frame) \in Nat
          /\ pos + Consumed(frame) <= Len(buf)
      BY <2>8, UnpackFacts DEF Frame, BufferInv
    <3>2. Handle(frame) /\ pos' = pos + Consumed(frame)
      BY <2>8 DEF Frame
    <3> HIDE DEF frame
    <3>3. received' \in [Streams -> Bytes]
      <4>1. \A s \in Streams : received[s] \o frame.payload \in Bytes
        BY <3>1, ConcatProperties DEF Bytes, TypeInv
      <4> QED
        BY <3>2, <4>1 DEF Handle, TypeInv
    <3>4. handled' \in Nat
      BY <3>2 DEF Handle, TypeInv
    <3> QED
      BY <2>8, <3>1, <3>2, <3>3, <3>4 DEF Frame, TypeInv, BufferInv
  <2> QED
    BY <2>1, <2>2, <2>4, <2>5, <2>6, <2>7, <2>8 DEF Next
<1> QED
  BY <1>1, <1>2, PTL DEF Spec

\* Whatever bytes arrive and however they are split, neither read loop waits for a frame
\* larger than the largest, and its buffer stays below MaxFrame + Threshold + ReadSize bytes.
THEOREM BufferIsBounded == Spec => []BufferBounded
<1>1. TypeInv /\ BufferInv => BufferBounded
  BY UnpackFacts DEF BufferInv, BufferBounded
<1> QED
  BY <1>1, InvariantHolds, PTL
-----------------------------------------------------------------------------
\* What has been put on the wire up to some byte: frames, and bytes of each stream.
Segment == [end : Nat, frames : Nat, bytes : [Streams -> Nat]]
Start == [end |-> 0, frames |-> 0, bytes |-> [s \in Streams |-> 0]]

\* What lies between two marks: a header with an impossible length, a command that is not
\* known, or a DATA frame of the next bytes that its stream was given.
Skipped(a, z, w) ==
    /\ z.end = a.end + 3 /\ BadLength(w[a.end + 1])
    /\ z.frames = a.frames /\ z.bytes = a.bytes

Unknown(a, z, w) ==
    /\ z.end = a.end + 3 /\ w[a.end + 1] = 3 /\ w[a.end + 3] \notin Cmd
    /\ z.frames = a.frames + 1 /\ z.bytes = a.bytes

Carried(s, n, a, z, w, g) ==
    /\ 3 + n <= MaxFrame /\ z.end = a.end + 3 + n
    /\ w[a.end + 1] = 3 + n /\ w[a.end + 2] = s /\ w[a.end + 3] = 2
    /\ \A k \in 1..n : w[a.end + 3 + k] = g[s][a.bytes[s] + k]
    /\ z.frames = a.frames + 1
    /\ z.bytes = [a.bytes EXCEPT ![s] = @ + n]

Laid(a, z, w, g) ==
    \/ Skipped(a, z, w) \/ Unknown(a, z, w)
    \/ \E s \in Streams, n \in Nat : Carried(s, n, a, z, w, g)

\* The marks ms divide the wire w into such pieces, and e has the ends of the frames.
OnWire(ms, w, g, e) ==
    /\ ms \in Seq(Segment) /\ ms # <<>> /\ ms[1] = Start
    /\ ms[Len(ms)].end = Len(w) /\ ms[Len(ms)].frames = Len(e)
    /\ \A i \in 1..Len(ms) :
         /\ ms[i].end <= Len(w) /\ ms[i].frames <= Len(e)
         /\ \A s \in Streams : ms[i].bytes[s] <= Len(g[s])
         /\ \A f \in 1..Len(e) : e[f] <= ms[i].end <=> f <= ms[i].frames
    /\ \A i \in 1..Len(ms) - 1 :
         /\ Laid(ms[i], ms[i + 1], w, g)
         /\ \A f \in 1..Len(e) : e[f] < ms[i + 1].end <=> f <= ms[i].frames

\* The read loop has parsed the wire up to the mark m: its buffer holds what follows.
ReadTo(m) ==
    /\ m.end + (Len(buf) - pos) = taken
    /\ \A k \in 1..Len(buf) - pos : buf[pos + k] = wire[m.end + k]
    /\ handled = m.frames
    /\ \A s \in Streams : /\ Len(received[s]) = m.bytes[s]
                          /\ \A k \in 1..m.bytes[s] : received[s][k] = given[s][k]

\* The payloads p are what follows the first o bytes of g.
Pieces(p, o, g) ==
    \E st \in Seq(Nat) :
      /\ Len(st) = Len(p) + 1 /\ st[1] = o /\ st[Len(p) + 1] = Len(g)
      /\ \A i \in 1..Len(p) :
           /\ Len(p[i]) <= MaxPayload /\ st[i + 1] = st[i] + Len(p[i]) /\ st[i + 1] <= Len(g)
           /\ \A k \in 1..Len(p[i]) : p[i][k] = g[st[i] + k]

ArrivalInv ==
    /\ taken <= Len(wire)
    /\ clean => \E ms \in Seq(Segment) :
         /\ OnWire(ms, wire, given, ends)
         /\ \E j \in 1..Len(ms) : ReadTo(ms[j])
         /\ \A s \in Streams : Pieces(pending[s], ms[Len(ms)].bytes[s], given[s])

\* h has what g has, and perhaps more, for every stream.
Extends(h, g) ==
    \A s \in Streams : Len(g[s]) <= Len(h[s]) /\ \A k \in 1..Len(g[s]) : h[s][k] = g[s][k]

\* The fields of a mark.
LEMMA SegmentFields ==
    ASSUME NEW m \in Segment
    PROVE  /\ m.end \in Nat /\ m.frames \in Nat /\ m.bytes \in [Streams -> Nat]
           /\ \A s \in Streams : m.bytes[s] \in Nat
  BY DEF Segment

\* What was laid on the wire stays there.
LEMMA LaidStays ==
    ASSUME NEW a \in Segment, NEW z \in Segment, NEW w \in Bytes, NEW b \in Bytes,
           NEW g \in [Streams -> Bytes], NEW h \in [Streams -> Bytes], Extends(h, g),
           z.end <= Len(w), \A s \in Streams : z.bytes[s] <= Len(g[s]), Laid(a, z, w, g)
    PROVE  Laid(a, z, w \o b, h)
<1>1. /\ a.end \in Nat /\ z.end \in Nat /\ a.bytes \in [Streams -> Nat]
      /\ \A s \in Streams : a.bytes[s] \in Nat /\ z.bytes[s] \in Nat
  BY SegmentFields
<1>2. Len(w) \in Nat /\ \A i \in 1..Len(w) : (w \o b)[i] = w[i]
  BY DEF Bytes
<1>3. CASE Skipped(a, z, w)
  <2>1. a.end + 1 \in 1..Len(w)
    BY <1>1, <1>2, <1>3 DEF Skipped
  <2>2. Skipped(a, z, w \o b)
    BY <1>2, <1>3, <2>1 DEF Skipped
  <2> QED
    BY <2>2 DEF Laid
<1>4. CASE Unknown(a, z, w)
  <2>1. a.end + 1 \in 1..Len(w) /\ a.end + 3 \in 1..Len(w)
    BY <1>1, <1>2, <1>4 DEF Unknown
  <2>2. Unknown(a, z, w \o b)
    BY <1>2, <1>4, <2>1 DEF Unknown
  <2> QED
    BY <2>2 DEF Laid
<1>5. ASSUME NEW s \in Streams, NEW n \in Nat, Carried(s, n, a, z, w, g)
      PROVE  Carried(s, n, a, z, w \o b, h)
  <2>1. z.end = a.end + 3 + n /\ z.bytes[s] = a.bytes[s] + n
    BY <1>1, <1>5 DEF Carried
  <2>2. \A i \in 1..3 + n : a.end + i \in 1..Len(w)
    BY <1>1, <1>2, <2>1, SMTT(30)
  <2>3. \A i \in 1..3 + n : (w \o b)[a.end + i] = w[a.end + i]
    BY <1>2, <2>2
  <2>4. (w \o b)[a.end + 1] = w[a.end + 1] /\ (w \o b)[a.end + 2] = w[a.end + 2]
        /\ (w \o b)[a.end + 3] = w[a.end + 3]
    BY <2>3, 1 \in 1..3 + n, 2 \in 1..3 + n, 3 \in 1..3 + n
  <2>5. ASSUME NEW k \in 1..n
        PROVE  (w \o b)[a.end + 3 + k] = h[s][a.bytes[s] + k]
    <3>1. 3 + k \in 1..3 + n /\ a.end + 3 + k = a.end + (3 + k)
      <4> a.end \in Nat
        BY <1>1
      <4> QED
        OBVIOUS
    <3>2. (w \o b)[a.end + 3 + k] = w[a.end + 3 + k]
      BY <2>3, <3>1
    <3>3. w[a.end + 3 + k] = g[s][a.bytes[s] + k]
      BY <1>5 DEF Carried
    <3>4. Len(g[s]) \in Nat
      BY DEF Bytes
    <3>5. a.bytes[s] + k \in 1..Len(g[s])
      BY <1>1, <2>1, <3>4, SMTT(30)
    <3> QED
      BY <3>2, <3>3, <3>5 DEF Extends
  <2> QED
    BY <1>5, <2>4, <2>5 DEF Carried
<1> QED
  BY <1>3, <1>4, <1>5 DEF Laid

\* One piece more: what was laid so far stays, and the marks end with the wire again.
LEMMA WireGrows ==
    ASSUME NEW ms, NEW w \in Bytes, NEW b \in Bytes, NEW g \in [Streams -> Bytes],
           NEW e \in Seq(Nat), OnWire(ms, w, g, e),
           NEW z \in Segment, z.end = Len(w) + Len(b), Len(b) > 0,
           \A s \in Streams : z.bytes[s] <= Len(g[s]),
           Laid(ms[Len(ms)], z, w \o b, g),
           NEW d, \/ d = e /\ z.frames = Len(e)
                  \/ d = Append(e, z.end) /\ z.frames = Len(e) + 1
    PROVE  OnWire(Append(ms, z), w \o b, g, d)
<1> DEFINE ns == Append(ms, z)
           v == w \o b
<1>1. ms \in Seq(Segment) /\ Len(ms) \in Nat /\ Len(ms) > 0 /\ ms[1] = Start
  BY DEF OnWire
<1>2. /\ ns \in Seq(Segment) /\ ns # <<>> /\ Len(ns) = Len(ms) + 1 /\ ns[Len(ns)] = z
      /\ \A i \in 1..Len(ms) : ns[i] = ms[i]
  BY <1>1, AppendProperties
<1>3. /\ v \in Bytes /\ Len(v) = Len(w) + Len(b) /\ Len(w) \in Nat /\ Len(b) \in Nat
  BY DEF Bytes
<1>4. /\ d \in Seq(Nat) /\ Len(e) \in Nat /\ Len(d) = z.frames /\ Len(e) <= Len(d)
      /\ z.end \in Nat /\ z.frames \in Nat
  <2>1. z.end \in Nat /\ z.frames \in Nat /\ Len(e) \in Nat
    BY SegmentFields
  <2>2. CASE d = e /\ z.frames = Len(e)
    BY <2>1, <2>2
  <2>3. CASE d = Append(e, z.end) /\ z.frames = Len(e) + 1
    <3>1. d \in Seq(Nat) /\ Len(d) = Len(e) + 1
      BY <2>1, <2>3, AppendProperties
    <3> QED
      BY <2>1, <2>3, <3>1
  <2> QED
    BY <2>2, <2>3
<1>5. /\ \A f \in 1..Len(e) : f \in 1..Len(d) /\ d[f] = e[f]
      /\ \A f \in 1..Len(d) : f \in 1..Len(e) \/ (f = Len(e) + 1 /\ d[f] = z.end)
  <2>1. CASE d = e
    BY <2>1
  <2>2. CASE d = Append(e, z.end)
    <3>1. /\ Len(d) = Len(e) + 1 /\ d[Len(e) + 1] = z.end
          /\ \A f \in 1..Len(e) : d[f] = e[f]
      BY <1>4, <2>2, AppendProperties
    <3> QED
      BY <1>4, <3>1
  <2> QED
    BY <2>1, <2>2
<1>6. \A i \in 1..Len(ms) : /\ ms[i] \in Segment /\ ms[i].end \in Nat /\ ms[i].frames \in Nat
                            /\ ms[i].end <= Len(w) /\ ms[i].frames <= Len(e)
  BY <1>1, SegmentFields DEF OnWire
<1>7. \A f \in 1..Len(e) : e[f] \in Nat /\ e[f] <= Len(w)
  <2>1. Len(ms) \in 1..Len(ms) /\ ms[Len(ms)].end = Len(w) /\ ms[Len(ms)].frames = Len(e)
    BY <1>1 DEF OnWire
  <2>2. ASSUME NEW f \in 1..Len(e) PROVE e[f] \in Nat /\ e[f] <= Len(w)
    <3>1. e[f] <= Len(w) <=> f <= Len(e)
      BY <2>1 DEF OnWire
    <3>2. f <= Len(e)
      BY <1>4
    <3>3. e[f] \in Nat
      BY ElementOfSeq
    <3> QED
      BY <3>1, <3>2, <3>3
  <2> QED
    BY <2>2
<1> HIDE DEF ns, v
<1>8. \A f \in 1..Len(d) : d[f] \in Nat /\ d[f] <= z.end
  <2>1. ASSUME NEW f \in 1..Len(d) PROVE d[f] \in Nat /\ d[f] <= z.end
    <3>1. CASE f \in 1..Len(e)
      <4>1. d[f] = e[f] /\ e[f] \in Nat /\ e[f] <= Len(w)
        BY <1>5, <1>7, <3>1
      <4> QED
        BY <1>3, <1>4, <4>1
    <3>2. CASE d[f] = z.end
      BY <1>4, <3>2
    <3> QED
      BY <1>5, <3>1, <3>2
  <2> QED
    BY <2>1
<1>9. ASSUME NEW i \in 1..Len(ns)
      PROVE  /\ ns[i].end <= Len(v) /\ ns[i].frames <= Len(d)
             /\ \A s \in Streams : ns[i].bytes[s] <= Len(g[s])
             /\ \A f \in 1..Len(d) : d[f] <= ns[i].end <=> f <= ns[i].frames
  <2>1. CASE i = Len(ns)
    <3>1. ns[i] = z
      BY <1>2, <2>1
    <3> QED
      BY <1>3, <1>4, <1>8, <3>1
  <2>2. CASE i # Len(ns)
    <3>1. i \in 1..Len(ms) /\ ns[i] = ms[i]
      BY <1>1, <1>2, <2>2
    <3>2. ns[i].end <= Len(v) /\ ns[i].frames <= Len(d)
      BY <1>3, <1>4, <1>6, <3>1, SMTT(30)
    <3>3. \A s \in Streams : ns[i].bytes[s] <= Len(g[s])
      BY <3>1 DEF OnWire
    <3>4. ASSUME NEW f \in 1..Len(d) PROVE d[f] <= ns[i].end <=> f <= ns[i].frames
      <4>1. CASE f \in 1..Len(e)
        BY <1>5, <3>1, <4>1 DEF OnWire
      <4>2. CASE f = Len(e) + 1 /\ d[f] = z.end
        BY <1>3, <1>4, <1>6, <3>1, <4>2, SMTT(30)
      <4> QED
        BY <1>5, <4>1, <4>2
    <3> QED
      BY <3>2, <3>3, <3>4
  <2> QED
    BY <2>1, <2>2
<1>10. ASSUME NEW i \in 1..Len(ns) - 1
       PROVE  /\ Laid(ns[i], ns[i + 1], v, g)
              /\ \A f \in 1..Len(d) : d[f] < ns[i + 1].end <=> f <= ns[i].frames
  <2>0. i \in 1..Len(ms) /\ ns[i] = ms[i]
    BY <1>1, <1>2
  <2>1. CASE i = Len(ms)
    <3>1. ns[i + 1] = z /\ ms[i].frames = Len(e) /\ ms[i].end = Len(w)
      BY <1>2, <2>1 DEF OnWire
    <3>2. ASSUME NEW f \in 1..Len(d) PROVE d[f] < z.end <=> f <= Len(e)
      <4>1. CASE f \in 1..Len(e)
        <5>1. d[f] = e[f] /\ e[f] \in Nat /\ e[f] <= Len(w)
          BY <1>5, <1>7, <4>1
        <5> QED
          BY <1>3, <4>1, <5>1
      <4>2. CASE f = Len(e) + 1 /\ d[f] = z.end
        BY <1>4, <4>2
      <4> QED
        BY <1>5, <4>1, <4>2
    <3>3. Laid(ns[i], z, v, g)
      BY <2>0, <2>1 DEF v
    <3> QED
      BY <2>0, <3>1, <3>2, <3>3
  <2>2. CASE i # Len(ms)
    <3>1. i \in 1..Len(ms) - 1 /\ i + 1 \in 1..Len(ms) /\ ns[i + 1] = ms[i + 1]
      BY <1>1, <1>2, <2>0, <2>2, SMTT(30)
    <3>2. Laid(ms[i], ms[i + 1], w, g)
      BY <3>1 DEF OnWire
    <3>3. \A s \in Streams : ms[i + 1].bytes[s] <= Len(g[s])
      BY <3>1 DEF OnWire
    <3>4. Extends(g, g)
      BY DEF Extends, Bytes
    <3>5. Laid(ms[i], ms[i + 1], v, g)
      BY <1>6, <2>0, <3>1, <3>2, <3>3, <3>4, LaidStays DEF v
    <3>6. ASSUME NEW f \in 1..Len(d) PROVE d[f] < ms[i + 1].end <=> f <= ms[i].frames
      <4>1. CASE f \in 1..Len(e)
        BY <1>5, <3>1, <4>1 DEF OnWire
      <4>2. CASE f = Len(e) + 1 /\ d[f] = z.end
        <5>1. /\ ms[i + 1].end \in Nat /\ ms[i + 1].end <= Len(w)
              /\ ms[i].frames \in Nat /\ ms[i].frames <= Len(e)
          BY <1>6, <2>0, <3>1
        <5>2. ~(d[f] < ms[i + 1].end) /\ ~(f <= ms[i].frames)
          <6> DEFINE x == ms[i + 1].end
                     y == ms[i].frames
          <6>1. /\ x \in Nat /\ x <= Len(w) /\ y \in Nat /\ y <= Len(e)
                /\ d[f] = z.end /\ z.end = Len(w) + Len(b) /\ Len(b) > 0 /\ f = Len(e) + 1
                /\ Len(w) \in Nat /\ Len(b) \in Nat /\ Len(e) \in Nat
            BY <1>3, <1>4, <4>2, <5>1
          <6> HIDE DEF x, y
          <6>2. ~(d[f] < x) /\ ~(f <= y)
            BY <6>1
          <6> QED
            BY <6>2 DEF x, y
        <5> QED
          BY <5>2
      <4> QED
        BY <1>5, <4>1, <4>2
    <3> QED
      BY <2>0, <3>1, <3>5, <3>6
  <2> QED
    BY <2>1, <2>2
<1>11. ns[1] = Start /\ ns[Len(ns)].end = Len(v) /\ ns[Len(ns)].frames = Len(d)
  <2>1. 1 \in 1..Len(ms)
    BY <1>1
  <2> QED
    BY <1>1, <1>2, <1>3, <1>4, <2>1
<1>12. OnWire(ns, v, g, d)
  BY <1>2, <1>9, <1>10, <1>11 DEF OnWire
<1> QED
  BY <1>12 DEF ns, v

\* What streams are given later changes nothing on the wire.
LEMMA GivenGrows ==
    ASSUME NEW ms, NEW w \in Bytes, NEW g \in [Streams -> Bytes], NEW h \in [Streams -> Bytes],
           NEW e \in Seq(Nat), OnWire(ms, w, g, e), Extends(h, g)
    PROVE  OnWire(ms, w, h, e)
<1>1. ms \in Seq(Segment) /\ Len(ms) \in Nat
  BY DEF OnWire
<1>2. ASSUME NEW i \in 1..Len(ms), NEW s \in Streams PROVE ms[i].bytes[s] <= Len(h[s])
  <2>1. ms[i].bytes[s] \in Nat /\ Len(g[s]) \in Nat /\ Len(h[s]) \in Nat
    BY <1>1, SegmentFields DEF Bytes
  <2>2. ms[i].bytes[s] <= Len(g[s]) /\ Len(g[s]) <= Len(h[s])
    BY DEF OnWire, Extends
  <2> QED
    BY <2>1, <2>2
<1>3. ASSUME NEW i \in 1..Len(ms) - 1 PROVE Laid(ms[i], ms[i + 1], w, h)
  <2>1. i \in 1..Len(ms) /\ i + 1 \in 1..Len(ms)
    BY <1>1
  <2>2. /\ ms[i] \in Segment /\ ms[i + 1] \in Segment
        /\ Laid(ms[i], ms[i + 1], w, g) /\ ms[i + 1].end <= Len(w)
        /\ \A s \in Streams : ms[i + 1].bytes[s] <= Len(g[s])
    BY <1>1, <2>1 DEF OnWire
  <2>3. <<>> \in Bytes /\ w \o <<>> = w
    BY ConcatEmptySeq, EmptySeq DEF Bytes
  <2> QED
    BY <2>2, <2>3, LaidStays
<1> QED
  BY <1>2, <1>3 DEF OnWire

\* What unpack_frame makes of the bytes that follow a mark: nothing while the piece has not
\* arrived, then all of it, as it was laid.
LEMMA UnpackLaid ==
    ASSUME TypeInv, pos <= Len(buf), NEW a \in Segment, NEW z \in Segment,
           Laid(a, z, wire, given), a.end + (Len(buf) - pos) = taken,
           \A k \in 1..Len(buf) - pos : buf[pos + k] = wire[a.end + k]
    PROVE  LET frame == Unpack(buf, pos) IN
           /\ Idle <=> taken < z.end
           /\ ~Idle => /\ Consumed(frame) = z.end - a.end
                       /\ \/ Skipped(a, z, wire) /\ frame.cmd = 10
                          \/ Unknown(a, z, wire) /\ frame.cmd = 3
                          \/ \E s \in Streams, n \in Nat :
                               /\ Carried(s, n, a, z, wire, given)
                               /\ frame.cmd = 2 /\ frame.sid = s
                               /\ frame.payload \in Bytes /\ Len(frame.payload) = n
                               /\ \A k \in 1..n : frame.payload[k] = given[s][a.bytes[s] + k]
<1> DEFINE rest == Len(buf) - pos
           frame == Unpack(buf, pos)
<1>1. /\ a.end \in Nat /\ z.end \in Nat /\ Len(buf) \in Nat /\ pos \in Nat /\ rest \in Nat
      /\ taken \in Nat /\ a.end + rest = taken /\ buf \in Bytes
  BY SegmentFields DEF TypeInv, Bytes
<1>2. \A k \in 1..rest : buf[pos + k] = wire[a.end + k]
  OBVIOUS
<1>3. MaxFrame \in Nat /\ MaxFrame > 3
  BY FramingAssumption
<1>4. CASE rest < 3
  <2>1. Idle
    BY <1>4 DEF Idle, Unpack
  <2>2. z.end >= a.end + 3
    <3>1. ASSUME NEW s \in Streams, NEW n \in Nat, Carried(s, n, a, z, wire, given)
          PROVE  z.end >= a.end + 3
      <4>1. z.end = a.end + 3 + n /\ a.end \in Nat
        BY <1>1, <3>1 DEF Carried
      <4> QED
        BY <4>1
    <3>2. Skipped(a, z, wire) \/ Unknown(a, z, wire) => z.end >= a.end + 3
      BY <1>1 DEF Skipped, Unknown
    <3> QED
      BY <3>1, <3>2 DEF Laid
  <2> QED
    BY <1>1, <1>4, <2>1, <2>2
<1>5. CASE rest >= 3 /\ Skipped(a, z, wire)
  <2>1. buf[pos + 1] = wire[a.end + 1]
    BY <1>1, <1>2, <1>5
  <2>2. frame = [sid |-> buf[pos + 2], cmd |-> 10, payload |-> <<>>]
    BY <1>1, <1>5, <2>1 DEF Unpack, Skipped
  <2>3. ~Idle /\ frame.cmd = 10 /\ Consumed(frame) = 3
    BY <2>2 DEF Idle, None, Consumed
  <2> QED
    BY <1>1, <1>5, <2>3 DEF Skipped
<1>6. CASE rest >= 3 /\ Unknown(a, z, wire)
  <2>1. buf[pos + 1] = 3 /\ buf[pos + 3] \notin Cmd
    BY <1>1, <1>2, <1>6, SMTT(30) DEF Unknown
  <2>2. ~BadLength(3) /\ ~(rest < 3)
    BY <1>1, <1>3, <1>6 DEF BadLength
  <2>3. frame = [sid |-> buf[pos + 2], cmd |-> 3, payload |-> SubSeq(buf, pos + 3 + 1, pos + 3)]
    BY <2>1, <2>2 DEF Unpack
  <2>4. SubSeq(buf, pos + 3 + 1, pos + 3) = <<>>
    BY <1>1, SubSeqEmpty
  <2>5. ~Idle /\ frame.cmd = 3 /\ Consumed(frame) = 3
    <3>1. frame = [sid |-> buf[pos + 2], cmd |-> 3, payload |-> <<>>]
      BY <2>3, <2>4
    <3> HIDE DEF frame
    <3>2. frame.cmd = 3 /\ frame.payload = <<>> /\ frame # None
      BY <3>1 DEF None
    <3> QED
      BY <3>2 DEF Idle, Consumed, frame
  <2> QED
    BY <1>1, <1>6, <2>5 DEF Unknown
<1>7. ASSUME NEW s \in Streams, NEW n \in Nat, rest >= 3, Carried(s, n, a, z, wire, given)
      PROVE  /\ Idle <=> taken < z.end
             /\ ~Idle => /\ Consumed(frame) = z.end - a.end
                         /\ frame.cmd = 2 /\ frame.sid = s
                         /\ frame.payload \in Bytes /\ Len(frame.payload) = n
                         /\ \A k \in 1..n : frame.payload[k] = given[s][a.bytes[s] + k]
  <2>1. /\ 3 + n <= MaxFrame /\ z.end = a.end + 3 + n
        /\ wire[a.end + 1] = 3 + n /\ wire[a.end + 2] = s /\ wire[a.end + 3] = 2
        /\ \A k \in 1..n : wire[a.end + 3 + k] = given[s][a.bytes[s] + k]
    BY <1>7 DEF Carried
  <2>2. buf[pos + 1] = 3 + n /\ buf[pos + 2] = s /\ buf[pos + 3] = 2
    <3>1. 1 \in 1..rest /\ 2 \in 1..rest /\ 3 \in 1..rest
      BY <1>1, <1>7
    <3> HIDE DEF rest
    <3> QED
      BY <1>2, <2>1, <3>1
  <2>3. ~BadLength(3 + n) /\ ~(rest < 3)
    BY <1>1, <1>3, <1>7, <2>1 DEF BadLength
  <2>4. CASE rest < 3 + n
    <3>1. Idle
      BY <2>2, <2>3, <2>4 DEF Idle, Unpack
    <3> QED
      BY <1>1, <2>1, <2>4, <3>1
  <2>5. CASE ~(rest < 3 + n)
    <3> DEFINE part == SubSeq(buf, pos + 3 + 1, pos + (3 + n))
    <3>1. frame = [sid |-> s, cmd |-> 2, payload |-> part]
      BY <2>2, <2>3, <2>5 DEF Unpack, Cmd
    <3>2. \A i \in pos + 3 + 1 .. pos + (3 + n) : buf[i] \in Nat
      BY <1>1, <2>5 DEF Bytes
    <3>3. /\ part \in Bytes /\ Len(part) = n
          /\ \A k \in 1..n : part[k] = buf[pos + 3 + k]
      <4>1. pos + 3 + 1 \in Int /\ pos + (3 + n) \in Int
            /\ (pos + (3 + n)) - (pos + 3 + 1) + 1 = n
            /\ (pos + 3 + 1 <= pos + (3 + n) <=> n # 0)
        BY <1>1
      <4>2. /\ part \in Seq(Nat)
            /\ Len(part) = IF pos + 3 + 1 <= pos + (3 + n)
                           THEN (pos + (3 + n)) - (pos + 3 + 1) + 1 ELSE 0
            /\ \A k \in 1..(pos + (3 + n)) - (pos + 3 + 1) + 1 :
                 part[k] = buf[(pos + 3 + 1) + k - 1]
        BY <3>2, <4>1, SubSeqProperties
      <4>3. \A k \in 1..n : (pos + 3 + 1) + k - 1 = pos + 3 + k
        BY <1>1
      <4> HIDE DEF part
      <4> QED
        BY <4>1, <4>2, <4>3 DEF Bytes
    <3>4. ASSUME NEW k \in 1..n PROVE part[k] = given[s][a.bytes[s] + k]
      <4>1. 3 + k \in 1..rest /\ pos + 3 + k = pos + (3 + k) /\ a.end + 3 + k = a.end + (3 + k)
        <5> DEFINE o == a.end
        <5>1. rest \in Nat /\ rest >= 3 + n /\ pos \in Nat /\ o \in Nat
          BY <1>1, <2>5
        <5>2. k \in Nat /\ 1 <= k /\ k <= n
          OBVIOUS
        <5> HIDE DEF rest, o
        <5>3. 3 + k \in 1..rest
          BY <5>1, <5>2
        <5>4. pos + 3 + k = pos + (3 + k) /\ o + 3 + k = o + (3 + k)
          BY <5>1, <5>2
        <5> QED
          BY <5>3, <5>4 DEF o
      <4>2. buf[pos + 3 + k] = wire[a.end + 3 + k]
        BY <1>2, <4>1
      <4> QED
        BY <2>1, <3>3, <4>2
    <3> HIDE DEF part
    <3>5. /\ frame.cmd = 2 /\ frame.sid = s /\ frame.payload = part
          /\ ~Idle /\ Consumed(frame) = 3 + n
      BY <3>1, <3>3 DEF Idle, None, Consumed
    <3> QED
      BY <1>1, <2>1, <2>5, <3>3, <3>4, <3>5
  <2> QED
    BY <2>4, <2>5
<1> HIDE DEF frame, rest
<1>8. CASE ~(rest < 3)
  <2>0. rest >= 3
    BY <1>1, <1>8
  <2>1. CASE Skipped(a, z, wire) \/ Unknown(a, z, wire)
    BY <1>5, <1>6, <2>0, <2>1 DEF frame
  <2>2. CASE \E s \in Streams, n \in Nat : Carried(s, n, a, z, wire, given)
    <3>1. PICK s \in Streams, n \in Nat : Carried(s, n, a, z, wire, given)
      BY <2>2
    <3> QED
      BY <1>7, <2>0, <3>1 DEF frame
  <2> QED
    BY <2>1, <2>2 DEF Laid
<1> QED
  BY <1>4, <1>8 DEF frame

\* The payloads of one send_data call are its data, cut where MaxPayload bytes end.
LEMMA ChunksArePieces ==
    ASSUME NEW g \in Bytes, NEW data \in Bytes
    PROVE  Pieces(Chunks(data), Len(g), g \o data)
<1> DEFINE M == MaxPayload
           L == Len(data)
           h == g \o data
<1>1. M \in Nat /\ M > 0 /\ L \in Nat /\ Len(g) \in Nat
  BY FramingAssumption DEF MaxPayload, Bytes
<1>2. /\ Len(h) = Len(g) + L
      /\ \A k \in 1..L : h[Len(g) + k] = data[k]
  BY ConcatProperties DEF Bytes
<1> HIDE DEF h
<1>3. CASE L <= M
  <2> DEFINE st == <<Len(g), Len(g) + L>>
  <2>1. Chunks(data) = <<data>> /\ Len(<<data>>) = 1
    BY <1>3 DEF Chunks
  <2>2. st \in Seq(Nat) /\ Len(st) = 2 /\ st[1] = Len(g) /\ st[2] = Len(g) + L
    BY <1>1
  <2> HIDE DEF st, M, L
  <2>3. ASSUME NEW i \in 1..1
        PROVE  /\ Len(<<data>>[i]) <= MaxPayload /\ st[i + 1] = st[i] + Len(<<data>>[i])
               /\ st[i + 1] <= Len(h)
               /\ \A k \in 1..Len(<<data>>[i]) : <<data>>[i][k] = h[st[i] + k]
    <3>1. i = 1 /\ i + 1 = 2 /\ <<data>>[i] = data
      OBVIOUS
    <3>2. L <= MaxPayload /\ st[2] = st[1] + L /\ st[2] <= Len(h)
      BY <1>1, <1>2, <1>3, <2>2 DEF M
    <3>3. \A k \in 1..L : data[k] = h[st[1] + k]
      BY <1>2, <2>2
    <3> QED
      BY <3>1, <3>2, <3>3 DEF L
  <2>4. Pieces(<<data>>, Len(g), h)
    <3>1. st[Len(<<data>>) + 1] = Len(h)
      BY <1>2, <2>1, <2>2
    <3> QED
      BY <2>1, <2>2, <2>3, <3>1 DEF Pieces
  <2> QED
    BY <2>1, <2>4 DEF h
<1>4. CASE ~(L <= M)
  <2> DEFINE n == (L + M - 1) \div M
             upto(i) == IF i * M < L THEN i * M ELSE L
             part(i) == SubSeq(data, (i - 1) * M + 1, upto(i))
             p == [i \in 1..n |-> part(i)]
             st == [i \in 1..n + 1 |-> Len(g) + upto(i - 1)]
  <2>1. Chunks(data) = p
    BY <1>4 DEF Chunks
  <2>2. n \in Nat /\ n * M <= L + M - 1 /\ L + M - 1 < n * M + M
    BY <1>1
  <2>3. n > 0 /\ n * M >= L
    BY <1>1, <1>4, <2>2
  <2>4. ASSUME NEW i \in Nat
        PROVE  /\ i * M \in Nat /\ upto(i) \in Nat /\ upto(i) <= L
    BY <1>1
  <2>5. ASSUME NEW i \in 1..n
        PROVE  (i - 1) * M \in Nat /\ (i - 1) * M < L /\ i * M = (i - 1) * M + M
    <3>1. i - 1 \in Nat /\ i - 1 <= n - 1
      BY <2>2
    <3>2. (i - 1) * M \in Nat /\ i * M = (i - 1) * M + M
      BY <1>1, <3>1
    <3>3. (i - 1) * M <= (n - 1) * M
      BY <1>1, <2>2, <3>1
    <3>4. (n - 1) * M = n * M - M
      BY <1>1, <2>2
    <3> QED
      BY <1>1, <2>2, <3>2, <3>3, <3>4
  <2>6. /\ st \in Seq(Nat) /\ Len(st) = n + 1 /\ Len(p) = n
        /\ \A i \in 1..n + 1 : st[i] = Len(g) + upto(i - 1)
        /\ \A i \in 1..n : p[i] = part(i)
    <3>1. \A i \in 1..n + 1 : Len(g) + upto(i - 1) \in Nat
      <4>1. ASSUME NEW i \in 1..n + 1 PROVE Len(g) + upto(i - 1) \in Nat
        <5>1. i - 1 \in Nat
          BY <2>2
        <5>2. upto(i - 1) \in Nat
          BY <2>4, <5>1
        <5> HIDE DEF upto
        <5> QED
          BY <1>1, <5>2
      <4> QED
        BY <4>1
    <3> HIDE DEF upto, part, n
    <3> QED
      BY <2>2, <3>1
  <2>7. upto(0) = 0 /\ upto(n) = L
    BY <1>1, <1>4, <2>3
  <2>8. ASSUME NEW i \in 1..n
        PROVE  /\ Len(part(i)) <= M /\ upto(i) = upto(i - 1) + Len(part(i))
               /\ \A k \in 1..Len(part(i)) : part(i)[k] = data[upto(i - 1) + k]
    <3> DEFINE o == (i - 1) * M
               u == upto(i)
    <3>1. upto(i - 1) = o /\ o \in Nat /\ o < L
      BY <2>5
    <3>2. u \in Nat /\ u <= L /\ o < u /\ u - o <= M
      <4>1. i * M = o + M
        BY <2>5
      <4> HIDE DEF o
      <4> QED
        BY <1>1, <3>1, <4>1
    <3>3. part(i) = SubSeq(data, o + 1, u)
      OBVIOUS
    <3> HIDE DEF o, u, part, upto
    <3>4. \A k \in o + 1 .. u : data[k] \in Nat
      BY <1>1, <3>1, <3>2 DEF Bytes
    <3>5. /\ Len(SubSeq(data, o + 1, u)) = u - o
          /\ \A k \in 1..u - o : SubSeq(data, o + 1, u)[k] = data[o + k]
      <4>1. o + 1 \in Int /\ u \in Int /\ o + 1 <= u /\ u - (o + 1) + 1 = u - o
        BY <3>1, <3>2
      <4>2. /\ Len(SubSeq(data, o + 1, u)) = IF o + 1 <= u THEN u - (o + 1) + 1 ELSE 0
            /\ \A k \in 1..u - (o + 1) + 1 : SubSeq(data, o + 1, u)[k] = data[(o + 1) + k - 1]
        BY <3>4, <4>1, SubSeqProperties
      <4>3. \A k \in 1..u - o : (o + 1) + k - 1 = o + k
        BY <3>1, <3>2
      <4> QED
        BY <4>1, <4>2, <4>3
    <3>6. upto(i) = u
      BY DEF u
    <3> QED
      BY <3>1, <3>2, <3>3, <3>5, <3>6
  <2>9. ASSUME NEW i \in 1..n
        PROVE  /\ Len(p[i]) <= MaxPayload /\ st[i + 1] = st[i] + Len(p[i])
               /\ st[i + 1] <= Len(h)
               /\ \A k \in 1..Len(p[i]) : p[i][k] = h[st[i] + k]
    <3>1. i \in 1..n + 1 /\ i + 1 \in 1..n + 1 /\ i \in Nat /\ i - 1 \in Nat /\ i + 1 - 1 = i
      BY <2>2
    <3>2. p[i] = part(i) /\ st[i] = Len(g) + upto(i - 1) /\ st[i + 1] = Len(g) + upto(i)
      <4>1. upto(i + 1 - 1) = upto(i)
        BY <3>1
      <4> HIDE DEF p, st, part, upto, n
      <4> QED
        BY <2>6, <3>1, <4>1
    <3>3. upto(i) \in Nat /\ upto(i - 1) \in Nat /\ upto(i) <= L
      BY <2>4, <3>1
    <3>4. Len(part(i)) \in Nat
      <4>1. part(i) \in Bytes
        <5>1. (i - 1) * M \in Nat /\ upto(i) \in Nat /\ upto(i) <= Len(data)
          BY <2>5, <3>3
        <5>2. \A k \in (i - 1) * M + 1 .. upto(i) : data[k] \in Nat
          BY <5>1, SMTT(30) DEF Bytes
        <5> QED
          BY <5>1, <5>2, SubSeqProperties DEF part, Bytes
      <4> QED
        BY <4>1 DEF Bytes
    <3> HIDE DEF p, st, part, upto, L, n
    <3>5. ASSUME NEW k \in 1..Len(p[i]) PROVE p[i][k] = h[st[i] + k]
      <4>1. upto(i - 1) + k \in 1..L /\ st[i] + k = Len(g) + (upto(i - 1) + k)
        <5>1. upto(i) = upto(i - 1) + Len(p[i])
          BY <2>8, <3>2
        <5>2. k \in Nat /\ 1 <= k /\ k <= Len(p[i]) /\ Len(p[i]) \in Nat
          BY <3>2, <3>4
        <5>3. st[i] = Len(g) + upto(i - 1)
          BY <3>2
        <5> QED
          BY <1>1, <3>3, <5>1, <5>2, <5>3, SMTT(30)
      <4> QED
        BY <1>2, <2>8, <3>2, <4>1 DEF L
    <3> QED
      BY <1>1, <1>2, <2>8, <3>2, <3>3, <3>4, <3>5
  <2>10. st[1] = Len(g) /\ st[n + 1] = Len(h)
    <3>1. 1 \in 1..n + 1 /\ n + 1 \in 1..n + 1 /\ 1 - 1 = 0 /\ n + 1 - 1 = n
      BY <2>2
    <3>2. st[1] = Len(g) + upto(0) /\ st[n + 1] = Len(g) + upto(n)
      <4> HIDE DEF st, upto, n, p
      <4> QED
        BY <2>6, <3>1
    <3> QED
      BY <1>1, <1>2, <2>7, <3>2
  <2> HIDE DEF p, st, n, L
  <2>11. Pieces(p, Len(g), h)
    BY <2>6, <2>9, <2>10 DEF Pieces
  <2> QED
    BY <2>1, <2>11 DEF h
<1> QED
  BY <1>3, <1>4

\* The marks and the reader's place among them, from the invariant.
LEMMA PlaceFacts ==
    ASSUME TypeInv, BufferInv, ArrivalInv, NEW ms \in Seq(Segment),
           OnWire(ms, wire, given, ends), NEW j \in 1..Len(ms), ReadTo(ms[j])
    PROVE  /\ Len(wire) \in Nat /\ taken \in Nat /\ taken <= Len(wire)
           /\ Len(buf) \in Nat /\ pos \in Nat /\ pos <= Len(buf)
           /\ ms[j] \in Segment /\ ms[j].end \in Nat /\ ms[j].frames \in Nat
           /\ Len(ms) \in 1..Len(ms) /\ ms[Len(ms)] \in Segment
           /\ \A k \in 1..Len(buf) - pos : ms[j].end + k \in 1..Len(wire)
           /\ \A s \in Streams : ms[j].bytes[s] \in Nat /\ ms[j].bytes[s] <= Len(given[s])
<1>1. Len(wire) \in Nat /\ taken \in Nat /\ Len(buf) \in Nat /\ pos \in Nat
  BY DEF TypeInv, Bytes
<1>2. taken <= Len(wire) /\ pos <= Len(buf)
  BY DEF ArrivalInv, BufferInv
<1>3. ms[j] \in Segment /\ ms[j].end \in Nat /\ ms[j].frames \in Nat
      /\ \A s \in Streams : ms[j].bytes[s] \in Nat
  BY SegmentFields
<1>4. Len(ms) \in 1..Len(ms) /\ ms[Len(ms)] \in Segment
  OBVIOUS
<1>5. ASSUME NEW k \in 1..Len(buf) - pos PROVE ms[j].end + k \in 1..Len(wire)
  <2> DEFINE o == ms[j].end
  <2>1. o + (Len(buf) - pos) = taken /\ o \in Nat
    BY <1>3 DEF ReadTo
  <2> HIDE DEF o
  <2>2. o + k \in 1..Len(wire)
    BY <1>1, <1>2, <2>1
  <2> QED
    BY <2>2 DEF o
<1>6. \A s \in Streams : ms[j].bytes[s] <= Len(given[s])
  BY DEF OnWire
<1> QED
  BY <1>1, <1>2, <1>3, <1>4, <1>5, <1>6

\* What the connection carries later, and what streams are given later, leaves the reader
\* where it is.
LEMMA PlaceStays ==
    ASSUME TypeInv, BufferInv, ArrivalInv, NEW ms \in Seq(Segment),
           OnWire(ms, wire, given, ends), NEW j \in 1..Len(ms), ReadTo(ms[j]),
           NEW b \in Bytes, wire' = wire \o b, Extends(given', given),
           UNCHANGED <<taken, buf, pos, received, handled>>
    PROVE  ReadTo(ms[j])'
<1> DEFINE m == ms[j]
<1>1. /\ m.end + (Len(buf) - pos) = taken /\ handled = m.frames
      /\ \A k \in 1..Len(buf) - pos : buf[pos + k] = wire[m.end + k]
      /\ \A s \in Streams : /\ Len(received[s]) = m.bytes[s]
                            /\ \A k \in 1..m.bytes[s] : received[s][k] = given[s][k]
  BY DEF ReadTo
<1>2. \A i \in 1..Len(wire) : wire'[i] = wire[i]
  BY ConcatProperties DEF TypeInv, Bytes
<1>3. ASSUME NEW k \in 1..Len(buf) - pos PROVE buf[pos + k] = wire'[m.end + k]
  BY <1>1, <1>2, PlaceFacts
<1>4. ASSUME NEW s \in Streams, NEW k \in 1..m.bytes[s] PROVE received[s][k] = given'[s][k]
  <2>1. m.bytes[s] \in Nat /\ m.bytes[s] <= Len(given[s]) /\ Len(given[s]) \in Nat
    BY PlaceFacts DEF TypeInv, Bytes
  <2>2. k \in 1..Len(given[s])
    BY <2>1
  <2> QED
    BY <1>1, <2>2 DEF Extends
<1> HIDE DEF m
<1>5. ReadTo(m)'
  BY <1>1, <1>3, <1>4 DEF ReadTo
<1> QED
  BY <1>5 DEF m

\* A piece put on the wire: the marks get one more.
LEMMA PutKeeps ==
    ASSUME TypeInv, BufferInv, ArrivalInv, NEW ms \in Seq(Segment),
           OnWire(ms, wire, given, ends), NEW j \in 1..Len(ms), ReadTo(ms[j]),
           NEW b \in Bytes, Len(b) > 0, wire' = wire \o b,
           NEW z \in Segment, z.end = Len(wire) + Len(b),
           \A s \in Streams : z.bytes[s] <= Len(given[s]),
           Laid(ms[Len(ms)], z, wire \o b, given),
           \/ ends' = ends /\ z.frames = Len(ends)
           \/ ends' = Append(ends, z.end) /\ z.frames = Len(ends) + 1,
           \A s \in Streams : Pieces(pending'[s], z.bytes[s], given[s]),
           UNCHANGED <<given, receiver>>
    PROVE  ArrivalInv'
<1> DEFINE ns == Append(ms, z)
<1>1. /\ ns \in Seq(Segment) /\ Len(ns) = Len(ms) + 1 /\ Len(ms) \in Nat /\ ns[Len(ns)] = z
      /\ \A i \in 1..Len(ms) : ns[i] = ms[i]
  BY AppendProperties
<1> HIDE DEF ns
<1>2. OnWire(ns, wire', given', ends')
  BY WireGrows DEF TypeInv, ns
<1>3. Extends(given', given)
  BY DEF Extends, TypeInv, Bytes
<1>4. ReadTo(ms[j])'
  BY <1>3, PlaceStays
<1>5. j \in 1..Len(ns) /\ ns[j] = ms[j]
  BY <1>1
<1>6. ReadTo(ns[j])'
  BY <1>4, <1>5
<1>7. taken' <= Len(wire')
  <2>1. taken \in Nat /\ taken <= Len(wire) /\ Len(wire) \in Nat /\ Len(b) \in Nat
        /\ Len(wire') = Len(wire) + Len(b)
    BY DEF TypeInv, ArrivalInv, Bytes
  <2> QED
    BY <2>1
<1>8. \A s \in Streams : Pieces(pending'[s], ns[Len(ns)].bytes[s], given'[s])
  BY <1>1
<1> QED
  BY <1>1, <1>2, <1>5, <1>6, <1>7, <1>8 DEF ArrivalInv

\* send_data cuts what it is given into payloads.
LEMMA SendDataKeeps ==
    ASSUME TypeInv, BufferInv, ArrivalInv, NEW s \in Streams, SendData(s), TypeInv'
    PROVE  ArrivalInv'
<1>1. PICK n \in 0..MaxData :
         /\ pending' = [pending EXCEPT ![s] = Chunks([i \in 1..n |-> 3 + (i % 2)])]
         /\ given' = [given EXCEPT ![s] = @ \o [i \in 1..n |-> 3 + (i % 2)]]
  BY DEF SendData
<1> DEFINE data == [i \in 1..n |-> 3 + (i % 2)]
<1>2. data \in Bytes
  BY FramingAssumption DEF Bytes
<1> HIDE DEF data
<1>3. /\ pending[s] = <<>> /\ UNCHANGED <<wire, ends, clean, receiver>>
  BY DEF SendData
<1>4. /\ pending' = [pending EXCEPT ![s] = Chunks(data)]
      /\ given' = [given EXCEPT ![s] = @ \o data]
  BY <1>1 DEF data
<1>5. Extends(given', given)
  <2>1. ASSUME NEW r \in Streams
        PROVE  /\ Len(given[r]) <= Len(given'[r])
               /\ \A k \in 1..Len(given[r]) : given'[r][k] = given[r][k]
    <3>1. given[r] \in Seq(Nat) /\ Len(given[r]) \in Nat
      BY DEF TypeInv, Bytes
    <3>2. given'[r] = given[r] \/ given'[r] = given[r] \o data
      BY <1>4 DEF TypeInv
    <3>3. Len(data) \in Nat /\ data \in Seq(Nat)
      BY <1>2 DEF Bytes
    <3>4. /\ Len(given[r] \o data) = Len(given[r]) + Len(data)
          /\ \A k \in 1..Len(given[r]) : (given[r] \o data)[k] = given[r][k]
      BY <3>1, <3>3, ConcatProperties
    <3>5. CASE given'[r] = given[r]
      BY <3>1, <3>5
    <3>6. CASE given'[r] = given[r] \o data
      BY <3>1, <3>3, <3>4, <3>6
    <3> QED
      BY <3>2, <3>5, <3>6
  <2> QED
    BY <2>1 DEF Extends
<1>6. taken' <= Len(wire')
  BY <1>3 DEF ArrivalInv
<1>7. ASSUME NEW ms \in Seq(Segment), OnWire(ms, wire, given, ends),
             \A r \in Streams : Pieces(pending[r], ms[Len(ms)].bytes[r], given[r]),
             NEW j \in 1..Len(ms), ReadTo(ms[j])
      PROVE  /\ OnWire(ms, wire', given', ends') /\ ReadTo(ms[j])'
             /\ \A r \in Streams : Pieces(pending'[r], ms[Len(ms)].bytes[r], given'[r])
  <2>1. OnWire(ms, wire, given', ends)
    BY <1>5, <1>7, GivenGrows DEF TypeInv
  <2>2. ReadTo(ms[j])'
    <3>1. <<>> \in Bytes /\ wire' = wire \o <<>>
      BY <1>3, ConcatEmptySeq, EmptySeq DEF Bytes, TypeInv
    <3> QED
      BY <1>3, <1>5, <1>7, <3>1, PlaceStays
  <2>3. ms[Len(ms)].bytes[s] = Len(given[s])
    <3>1. Len(<<>>) = 0
      OBVIOUS
    <3> QED
      BY <1>3, <1>7, <3>1 DEF Pieces
  <2>4. pending'[s] = Chunks(data) /\ given'[s] = given[s] \o data
    BY <1>4 DEF TypeInv
  <2>5. Pieces(pending'[s], ms[Len(ms)].bytes[s], given'[s])
    BY <1>2, <2>3, <2>4, ChunksArePieces DEF TypeInv
  <2>6. ASSUME NEW r \in Streams, r # s
        PROVE  Pieces(pending'[r], ms[Len(ms)].bytes[r], given'[r])
    <3>1. pending'[r] = pending[r] /\ given'[r] = given[r]
      BY <1>4, <2>6 DEF TypeInv
    <3> QED
      BY <1>7, <3>1
  <2> QED
    BY <1>3, <2>1, <2>2, <2>5, <2>6
<1> QED
  BY <1>3, <1>6, <1>7 DEF ArrivalInv

\* A payload that was sent is the next piece no more.
LEMMA PiecesTail ==
    ASSUME NEW p \in Seq(Bytes), p # <<>>, NEW o \in Nat, NEW g \in Bytes, Pieces(p, o, g)
    PROVE  LET n == Len(Head(p)) IN
           /\ n \in Nat /\ n <= MaxPayload /\ o + n <= Len(g)
           /\ \A k \in 1..n : Head(p)[k] = g[o + k]
           /\ Pieces(Tail(p), o + n, g)
<1> DEFINE n == Len(Head(p))
           t == Tail(p)
<1>1. PICK st \in Seq(Nat) :
         /\ Len(st) = Len(p) + 1 /\ st[1] = o /\ st[Len(p) + 1] = Len(g)
         /\ \A i \in 1..Len(p) :
              /\ Len(p[i]) <= MaxPayload /\ st[i + 1] = st[i] + Len(p[i]) /\ st[i + 1] <= Len(g)
              /\ \A k \in 1..Len(p[i]) : p[i][k] = g[st[i] + k]
  BY DEF Pieces
<1>2. /\ Head(p) = p[1] /\ Head(p) \in Bytes /\ Len(p) \in Nat /\ 1 \in 1..Len(p)
      /\ t \in Seq(Bytes) /\ Len(t) = Len(p) - 1 /\ \A i \in 1..Len(t) : t[i] = p[i + 1]
  BY HeadTailProperties
<1>3. n \in Nat
  BY <1>2 DEF Bytes
<1>4. /\ n <= MaxPayload /\ st[2] = o + n /\ st[2] <= Len(g)
      /\ \A k \in 1..n : Head(p)[k] = g[o + k]
  <2>1. 1 + 1 = 2
    OBVIOUS
  <2> QED
    BY <1>1, <1>2, <2>1
<1> DEFINE su == Tail(st)
<1>5. st # <<>> /\ Len(st) \in Nat
  BY <1>1, <1>2
<1>6. /\ su \in Seq(Nat) /\ Len(su) = Len(t) + 1
      /\ \A i \in 1..Len(t) + 1 : su[i] = st[i + 1]
  BY <1>1, <1>2, <1>5, HeadTailProperties
<1> HIDE DEF su, t, n
<1>7. su[1] = o + n /\ su[Len(t) + 1] = Len(g)
  <2>1. 1 \in 1..Len(t) + 1 /\ Len(t) + 1 \in 1..Len(t) + 1 /\ 1 + 1 = 2
        /\ Len(t) + 1 + 1 = Len(p) + 1
    BY <1>2
  <2> QED
    BY <1>1, <1>4, <1>6, <2>1
<1>8. ASSUME NEW i \in 1..Len(t)
      PROVE  /\ Len(t[i]) <= MaxPayload /\ su[i + 1] = su[i] + Len(t[i]) /\ su[i + 1] <= Len(g)
             /\ \A k \in 1..Len(t[i]) : t[i][k] = g[su[i] + k]
  <2>1. i \in 1..Len(t) + 1 /\ i + 1 \in 1..Len(t) + 1 /\ i + 1 \in 1..Len(p)
    BY <1>2
  <2>2. t[i] = p[i + 1] /\ su[i] = st[i + 1] /\ su[i + 1] = st[i + 1 + 1]
    BY <1>2, <1>6, <2>1
  <2> QED
    BY <1>1, <2>1, <2>2
<1>9. Pieces(t, o + n, g)
  BY <1>6, <1>7, <1>8 DEF Pieces
<1> QED
  BY <1>3, <1>4, <1>9 DEF t, n

\* A DATA frame carries the next piece of what its stream was given.
LEMMA SendFrameKeeps ==
    ASSUME TypeInv, BufferInv, ArrivalInv, NEW s \in Streams, SendFrame(s), TypeInv'
    PROVE  ArrivalInv'
<1> DEFINE p == pending[s]
           n == Len(Head(p))
           b == Pack(s, 2, Head(p))
<1>1. /\ p # <<>> /\ wire' = wire \o b /\ pending' = [pending EXCEPT ![s] = Tail(@)]
      /\ ends' = Append(ends, Len(wire')) /\ UNCHANGED <<given, clean, receiver>>
  BY DEF SendFrame, Put
<1>2. p \in Seq(Bytes) /\ Head(p) \in Bytes /\ n \in Nat /\ s \in Nat
  <2>1. p \in Seq(Bytes)
    BY DEF TypeInv
  <2>2. Head(p) \in Bytes
    BY <1>1, <2>1, HeadTailProperties
  <2> HIDE DEF p
  <2> QED
    BY <2>1, <2>2, FramingAssumption DEF Bytes
<1>3. /\ b \in Bytes /\ Len(b) = 3 + n
      /\ b[1] = 3 + n /\ b[2] = s /\ b[3] = 2
      /\ \A k \in 1..n : b[3 + k] = Head(p)[k]
  <2> DEFINE hd == <<3 + n, s, 2>>
  <2>1. hd \in Seq(Nat) /\ Len(hd) = 3 /\ hd[1] = 3 + n /\ hd[2] = s /\ hd[3] = 2
    BY <1>2
  <2>2. b = hd \o Head(p)
    BY DEF Pack
  <2>3. Head(p) \in Seq(Nat)
    BY <1>2 DEF Bytes
  <2> HIDE DEF hd, b, p
  <2>4. /\ b \in Seq(Nat) /\ Len(b) = 3 + n
        /\ \A i \in 1..3 + n : b[i] = IF i <= 3 THEN hd[i] ELSE Head(p)[i - 3]
    <3>1. /\ hd \o Head(p) \in Seq(Nat) /\ Len(hd \o Head(p)) = Len(hd) + Len(Head(p))
          /\ \A i \in 1..Len(hd) + Len(Head(p)) :
               (hd \o Head(p))[i] = IF i <= Len(hd) THEN hd[i] ELSE Head(p)[i - Len(hd)]
      BY <2>1, <2>3, ConcatProperties
    <3> QED
      BY <2>1, <2>2, <3>1
  <2>5. b[1] = hd[1] /\ b[2] = hd[2] /\ b[3] = hd[3]
    <3>1. 1 \in 1..3 + n /\ 2 \in 1..3 + n /\ 3 \in 1..3 + n
      BY <1>2
    <3> QED
      BY <2>4, <3>1
  <2>6. ASSUME NEW k \in 1..n PROVE b[3 + k] = Head(p)[k]
    <3>1. 3 + k \in 1..3 + n /\ ~(3 + k <= 3) /\ 3 + k - 3 = k
      BY <1>2
    <3> QED
      BY <2>4, <3>1
  <2> QED
    BY <2>1, <2>4, <2>5, <2>6 DEF Bytes
<1> HIDE DEF b
<1>4. Len(wire) \in Nat /\ wire \in Bytes /\ Len(wire') = Len(wire) + (3 + n)
  <2>1. wire \in Seq(Nat) /\ b \in Seq(Nat) /\ Len(wire) \in Nat
    BY <1>1, <1>3 DEF TypeInv, Bytes
  <2>2. Len(wire \o b) = Len(wire) + Len(b)
    BY <2>1, ConcatProperties
  <2> QED
    BY <1>1, <1>3, <2>1, <2>2 DEF Bytes
<1>5. CASE ~clean
  <2>1. taken' <= Len(wire')
    <3>1. taken \in Nat /\ taken <= Len(wire) /\ taken' = taken
      BY <1>1 DEF TypeInv, ArrivalInv
    <3> QED
      BY <1>2, <1>4, <3>1
  <2> QED
    BY <1>1, <1>5, <2>1 DEF ArrivalInv
<1>6. CASE clean
  <2>1. PICK ms \in Seq(Segment) :
           /\ OnWire(ms, wire, given, ends)
           /\ \E j \in 1..Len(ms) : ReadTo(ms[j])
           /\ \A r \in Streams : Pieces(pending[r], ms[Len(ms)].bytes[r], given[r])
    BY <1>6 DEF ArrivalInv
  <2>2. PICK j \in 1..Len(ms) : ReadTo(ms[j])
    BY <2>1
  <2> DEFINE last == ms[Len(ms)]
             o == last.bytes[s]
             z == [end |-> Len(wire) + (3 + n), frames |-> Len(ends) + 1,
                   bytes |-> [last.bytes EXCEPT ![s] = @ + n]]
  <2>3. /\ last \in Segment /\ last.end = Len(wire) /\ last.frames = Len(ends)
        /\ Len(ends) \in Nat /\ last.bytes \in [Streams -> Nat] /\ o \in Nat
    <3>1. last \in Segment
      BY <2>1, <2>2, PlaceFacts
    <3> QED
      BY <2>1, <3>1, SegmentFields DEF OnWire, TypeInv
  <2> HIDE DEF last
  <2>4. /\ n <= MaxPayload /\ o + n <= Len(given[s])
        /\ \A k \in 1..n : Head(p)[k] = given[s][o + k]
        /\ Pieces(Tail(p), o + n, given[s])
    <3>1. given[s] \in Bytes /\ Pieces(p, o, given[s])
      BY <2>1 DEF TypeInv, last
    <3> HIDE DEF p, o
    <3> QED
      BY <1>1, <1>2, <2>3, <3>1, PiecesTail DEF p
  <2>5. /\ z \in Segment /\ z.end = Len(wire) + (3 + n) /\ z.frames = Len(ends) + 1
        /\ z.bytes = [last.bytes EXCEPT ![s] = @ + n]
        /\ z.bytes[s] = o + n
        /\ \A r \in Streams \ {s} : z.bytes[r] = last.bytes[r]
    <3>1. [last.bytes EXCEPT ![s] = @ + n] \in [Streams -> Nat]
      BY <1>2, <2>3, SMTT(30)
    <3>2. Len(wire) + (3 + n) \in Nat /\ Len(ends) + 1 \in Nat
      BY <1>2, <1>4, <2>3
    <3> HIDE DEF p, n
    <3>3. z \in Segment
      BY <3>1, <3>2 DEF Segment
    <3>4. z.end = Len(wire) + (3 + n) /\ z.frames = Len(ends) + 1
          /\ z.bytes = [last.bytes EXCEPT ![s] = @ + n]
      OBVIOUS
    <3> HIDE DEF z
    <3> QED
      BY <2>3, <3>3, <3>4
  <2> HIDE DEF z
  <2>6. Carried(s, n, last, z, wire \o b, given)
    <3>1. 3 + n <= MaxFrame
      BY <1>2, <2>4, FramingAssumption DEF MaxPayload
    <3>2. \A i \in 1..3 + n : (wire \o b)[last.end + i] = b[i]
      <4>1. ASSUME NEW i \in 1..3 + n PROVE (wire \o b)[last.end + i] = b[i]
        <5>1. /\ Len(wire) + i \in 1..Len(wire) + Len(b) /\ ~(Len(wire) + i <= Len(wire))
              /\ Len(wire) + i - Len(wire) = i
          BY <1>2, <1>3, <1>4
        <5>2. (wire \o b)[Len(wire) + i] = b[Len(wire) + i - Len(wire)]
          BY <1>3, <1>4, <5>1, ConcatProperties DEF Bytes
        <5> QED
          BY <2>3, <5>1, <5>2
      <4> QED
        BY <4>1
    <3>3. /\ (wire \o b)[last.end + 1] = 3 + n /\ (wire \o b)[last.end + 2] = s
          /\ (wire \o b)[last.end + 3] = 2
      <4>1. 1 \in 1..3 + n /\ 2 \in 1..3 + n /\ 3 \in 1..3 + n
        BY <1>2
      <4> QED
        BY <1>3, <3>2, <4>1
    <3>4. ASSUME NEW k \in 1..n PROVE (wire \o b)[last.end + 3 + k] = given[s][last.bytes[s] + k]
      <4>1. 3 + k \in 1..3 + n /\ last.end + 3 + k = last.end + (3 + k)
        <5>1. 3 + k \in 1..3 + n /\ Len(wire) + 3 + k = Len(wire) + (3 + k)
          <6> n \in Nat /\ Len(wire) \in Nat
            BY <1>2, <1>4
          <6> HIDE DEF n
          <6> QED
            OBVIOUS
        <5> QED
          BY <2>3, <5>1
      <4>2. (wire \o b)[last.end + 3 + k] = b[3 + k]
        BY <3>2, <4>1
      <4>3. b[3 + k] = Head(p)[k] /\ Head(p)[k] = given[s][o + k]
        BY <1>3, <2>4
      <4> QED
        BY <4>2, <4>3
    <3>5. z.end = last.end + 3 + n
      <4> DEFINE at == Len(wire)
      <4>1. at \in Nat /\ n \in Nat /\ z.end = at + (3 + n) /\ last.end = at
        BY <1>2, <1>4, <2>3, <2>5
      <4> HIDE DEF at, n
      <4> QED
        BY <4>1
    <3> HIDE DEF n
    <3> QED
      BY <2>3, <2>5, <3>1, <3>3, <3>4, <3>5 DEF Carried
  <2>7. Laid(last, z, wire \o b, given)
    BY <1>2, <2>6 DEF Laid
  <2>8. ASSUME NEW r \in Streams
        PROVE  z.bytes[r] <= Len(given[r]) /\ Pieces(pending'[r], z.bytes[r], given[r])
    <3>1. CASE r = s
      <4>1. pending'[s] = Tail(p)
        BY <1>1 DEF TypeInv
      <4> QED
        BY <2>4, <2>5, <3>1, <4>1
    <3>2. CASE r # s
      <4>1. pending'[r] = pending[r] /\ z.bytes[r] = last.bytes[r]
        BY <1>1, <2>5, <3>2 DEF TypeInv
      <4>2. last.bytes[r] <= Len(given[r])
        BY <2>1, <2>2, PlaceFacts DEF OnWire, last
      <4> QED
        BY <2>1, <4>1, <4>2 DEF last
    <3> QED
      BY <3>1, <3>2
  <2>9. Len(b) > 0 /\ z.end = Len(wire) + Len(b) /\ ends' = Append(ends, z.end)
    BY <1>1, <1>2, <1>3, <1>4, <2>5
  <2>10. Laid(ms[Len(ms)], z, wire \o b, given)
    BY <2>7 DEF last
  <2> QED
    BY <1>1, <1>3, <2>1, <2>2, <2>5, <2>8, <2>9, <2>10, PutKeeps
<1> QED
  BY <1>5, <1>6

\* An unknown command is a frame without data, and a bad header is no frame at all.
LEMMA OddKeeps ==
    ASSUME TypeInv, BufferInv, ArrivalInv, SendUnknown \/ SendBadHeader, TypeInv'
    PROVE  ArrivalInv'
<1> DEFINE BadHeader(t) == <<t, 0, 2>>
           Unnamed == <<3, 0, 11>>
<1>1. PICK b \in Bytes :
         /\ Len(b) = 3 /\ wire' = wire \o b /\ UNCHANGED <<pending, given, receiver, clean>>
         /\ \/ BadLength(b[1]) /\ ends' = ends
            \/ b[1] = 3 /\ b[3] \notin Cmd /\ ends' = Append(ends, Len(wire'))
  <2>1. CASE SendUnknown
    <3>1. Pack(0, 10 + 1, <<>>) = Unnamed
      <4>1. Unnamed \in Seq(Nat)
        OBVIOUS
      <4> QED
        BY <4>1, ConcatEmptySeq DEF Pack
    <3>2. Unnamed \in Bytes /\ Len(Unnamed) = 3 /\ Unnamed[1] = 3 /\ Unnamed[3] \notin Cmd
      BY DEF Bytes, Cmd
    <3>3. wire' = wire \o Unnamed /\ UNCHANGED <<pending, given, receiver, clean>>
          /\ ends' = Append(ends, Len(wire'))
      BY <2>1, <3>1 DEF SendUnknown, Odd, Put
    <3> QED
      BY <3>2, <3>3
  <2>2. CASE SendBadHeader
    <3>1. PICK t \in {2, MaxFrame + 1} : Odd(BadHeader(t)) /\ UNCHANGED <<ends, clean>>
      BY <2>2 DEF SendBadHeader
    <3>2. t \in Nat /\ BadLength(t)
      BY FramingAssumption DEF BadLength
    <3>3. BadHeader(t) \in Bytes /\ Len(BadHeader(t)) = 3 /\ BadHeader(t)[1] = t
      BY <3>2 DEF Bytes
    <3>4. wire' = wire \o BadHeader(t) /\ UNCHANGED <<pending, given, receiver>>
      BY <3>1 DEF Odd, Put
    <3> HIDE DEF BadHeader
    <3> QED
      BY <3>1, <3>2, <3>3, <3>4
  <2> QED
    BY <2>1, <2>2
<1>2. Len(wire) \in Nat /\ wire \in Bytes /\ Len(wire') = Len(wire) + 3
  <2>1. wire \in Seq(Nat) /\ b \in Seq(Nat) /\ Len(wire) \in Nat
    BY <1>1 DEF TypeInv, Bytes
  <2>2. Len(wire \o b) = Len(wire) + Len(b)
    BY <2>1, ConcatProperties
  <2> QED
    BY <1>1, <2>1, <2>2 DEF Bytes
<1>3. CASE ~clean
  <2>1. taken' <= Len(wire')
    <3>1. taken \in Nat /\ taken <= Len(wire) /\ taken' = taken
      BY <1>1 DEF TypeInv, ArrivalInv
    <3> QED
      BY <1>2, <3>1
  <2> QED
    BY <1>1, <1>3, <2>1 DEF ArrivalInv
<1>4. CASE clean
  <2>1. PICK ms \in Seq(Segment) :
           /\ OnWire(ms, wire, given, ends)
           /\ \E j \in 1..Len(ms) : ReadTo(ms[j])
           /\ \A r \in Streams : Pieces(pending[r], ms[Len(ms)].bytes[r], given[r])
    BY <1>4 DEF ArrivalInv
  <2>2. PICK j \in 1..Len(ms) : ReadTo(ms[j])
    BY <2>1
  <2> DEFINE last == ms[Len(ms)]
             z(f) == [end |-> Len(wire) + 3, frames |-> f, bytes |-> last.bytes]
  <2>3. /\ last \in Segment /\ last.end = Len(wire) /\ last.frames = Len(ends)
        /\ Len(ends) \in Nat /\ last.bytes \in [Streams -> Nat]
        /\ \A r \in Streams : last.bytes[r] <= Len(given[r])
    <3>1. last \in Segment /\ Len(ms) \in 1..Len(ms)
      BY <2>1, <2>2, PlaceFacts
    <3> QED
      BY <2>1, <3>1, SegmentFields DEF OnWire, TypeInv
  <2> HIDE DEF last
  <2>4. /\ (wire \o b)[last.end + 1] = b[1] /\ (wire \o b)[last.end + 3] = b[3]
    <3>1. \A i \in 1..Len(wire) + Len(b) :
             (wire \o b)[i] = IF i <= Len(wire) THEN wire[i] ELSE b[i - Len(wire)]
      BY <1>2, ConcatProperties DEF Bytes
    <3>2. /\ Len(wire) + 1 \in 1..Len(wire) + Len(b) /\ ~(Len(wire) + 1 <= Len(wire))
          /\ Len(wire) + 3 \in 1..Len(wire) + Len(b) /\ ~(Len(wire) + 3 <= Len(wire))
          /\ Len(wire) + 1 - Len(wire) = 1 /\ Len(wire) + 3 - Len(wire) = 3
      BY <1>1, <1>2
    <3> QED
      BY <2>3, <3>1, <3>2
  <2>5. ASSUME NEW f \in Nat,
               \/ ends' = ends /\ f = Len(ends) /\ BadLength(b[1])
               \/ ends' = Append(ends, Len(wire')) /\ f = Len(ends) + 1 /\ b[1] = 3 /\ b[3] \notin Cmd
        PROVE  ArrivalInv'
    <3>1. /\ z(f) \in Segment /\ z(f).end = Len(wire) + 3 /\ z(f).frames = f
          /\ z(f).bytes = last.bytes
      BY <1>2, <2>3 DEF Segment
    <3> HIDE DEF z
    <3>2. Skipped(last, z(f), wire \o b) \/ Unknown(last, z(f), wire \o b)
      BY <2>3, <2>4, <2>5, <3>1 DEF Skipped, Unknown
    <3>3. Laid(ms[Len(ms)], z(f), wire \o b, given)
      BY <3>2 DEF Laid, last
    <3>4. \A r \in Streams : /\ z(f).bytes[r] <= Len(given[r])
                             /\ Pieces(pending'[r], z(f).bytes[r], given[r])
      BY <1>1, <2>1, <2>3, <3>1 DEF last
    <3>5. /\ Len(b) > 0 /\ z(f).end = Len(wire) + Len(b)
          /\ \/ ends' = ends /\ z(f).frames = Len(ends)
             \/ ends' = Append(ends, z(f).end) /\ z(f).frames = Len(ends) + 1
      BY <1>1, <1>2, <2>5, <3>1
    <3> QED
      BY <1>1, <2>1, <2>2, <3>1, <3>3, <3>4, <3>5, PutKeeps
  <2> QED
    BY <1>1, <2>3, <2>5
<1> QED
  BY <1>3, <1>4

\* Compaction drops only what has been parsed.
LEMMA RestKeeps ==
    ASSUME TypeInv, BufferInv
    PROVE  /\ Rest.buf \in Bytes /\ Rest.pos \in Nat /\ Rest.pos <= Len(Rest.buf)
           /\ Len(Rest.buf) - Rest.pos = Len(buf) - pos
           /\ \A k \in 1..Len(buf) - pos : Rest.buf[Rest.pos + k] = buf[pos + k]
<1> buf \in Bytes /\ pos \in Nat /\ Len(buf) \in Nat /\ pos <= Len(buf)
  BY DEF TypeInv, BufferInv, Bytes
<1>1. CASE Compacts
  <2>1. Rest.buf = SubSeq(buf, pos + 1, Len(buf)) /\ Rest.pos = 0
    BY <1>1 DEF Rest
  <2> DEFINE part == SubSeq(buf, pos + 1, Len(buf))
  <2>2. \A i \in pos + 1 .. Len(buf) : buf[i] \in Nat
    BY DEF Bytes
  <2>3. /\ part \in Seq(Nat)
        /\ Len(part) = IF pos + 1 <= Len(buf) THEN Len(buf) - (pos + 1) + 1 ELSE 0
        /\ \A k \in 1..Len(buf) - (pos + 1) + 1 : part[k] = buf[pos + 1 + k - 1]
    BY <2>2, SubSeqProperties
  <2>4. Len(buf) - (pos + 1) + 1 = Len(buf) - pos
    OBVIOUS
  <2>5. \A k \in 1..Len(buf) - pos : pos + 1 + k - 1 = pos + k /\ 0 + k = k
    OBVIOUS
  <2> HIDE DEF part
  <2>6. Len(part) = Len(buf) - pos /\ \A k \in 1..Len(buf) - pos : part[0 + k] = buf[pos + k]
    <3>1. ASSUME NEW k \in 1..Len(buf) - pos PROVE part[0 + k] = buf[pos + k]
      <4>1. pos + 1 + k - 1 = pos + k /\ 0 + k = k
        BY <2>5
      <4>2. part[k] = buf[pos + 1 + k - 1]
        BY <2>3, <2>4
      <4> QED
        BY <4>1, <4>2
    <3>2. Len(part) = Len(buf) - pos
      <4> DEFINE L == Len(buf)
      <4>1. L \in Nat /\ pos \in Nat /\ pos <= L
        OBVIOUS
      <4>2. Len(part) = IF pos + 1 <= L THEN L - (pos + 1) + 1 ELSE 0
        BY <2>3
      <4> HIDE DEF L
      <4>3. Len(part) = L - pos
        BY <4>1, <4>2
      <4> QED
        BY <4>3 DEF L
    <3> QED
      BY <3>1, <3>2
  <2>7. Rest.buf = part /\ Rest.pos = 0
    BY <2>1 DEF part
  <2> QED
    BY <2>3, <2>6, <2>7 DEF Bytes
<1>2. CASE ~Compacts
  BY <1>2 DEF Rest
<1> QED
  BY <1>1, <1>2

\* A read appends what the connection carries next.
LEMMA ReadKeeps ==
    ASSUME TypeInv, BufferInv, ArrivalInv, Read, TypeInv'
    PROVE  ArrivalInv'
<1>1. PICK n \in 1..ReadSize :
         /\ taken + n <= Len(wire) /\ taken' = taken + n
         /\ buf' = Rest.buf \o SubSeq(wire, taken + 1, taken + n)
  BY DEF Read
<1>2. pos' = Rest.pos /\ UNCHANGED <<pending, wire, given, received, handled, ends, clean>>
  BY DEF Read
<1>3. n \in Nat /\ n > 0 /\ taken \in Nat /\ Len(wire) \in Nat /\ wire \in Seq(Nat)
  BY <1>1, FramingAssumption DEF TypeInv, Bytes
<1> DEFINE part == SubSeq(wire, taken + 1, taken + n)
<1>4. part \in Seq(Nat) /\ Len(part) = n /\ \A k \in 1..n : part[k] = wire[taken + k]
  <2>1. \A i \in taken + 1 .. taken + n : wire[i] \in Nat
    BY <1>1, <1>3
  <2>2. /\ taken + 1 \in Int /\ taken + n \in Int /\ taken + 1 <= taken + n
        /\ taken + n - (taken + 1) + 1 = n
        /\ \A k \in 1..n : taken + 1 + k - 1 = taken + k
    BY <1>3
  <2>3. /\ part \in Seq(Nat)
        /\ Len(part) = IF taken + 1 <= taken + n THEN taken + n - (taken + 1) + 1 ELSE 0
        /\ \A k \in 1..taken + n - (taken + 1) + 1 : part[k] = wire[taken + 1 + k - 1]
    BY <2>1, <2>2, SubSeqProperties
  <2> HIDE DEF part
  <2> QED
    BY <2>2, <2>3
<1> DEFINE old == Rest.buf
           left == Len(buf) - pos
           from == Rest.pos
<1>5. /\ old \in Seq(Nat) /\ Len(old) \in Nat /\ from \in Nat /\ from <= Len(old)
      /\ Len(old) - from = left /\ left \in Nat
      /\ \A k \in 1..left : old[from + k] = buf[pos + k]
  BY RestKeeps, SMTT(30) DEF TypeInv, BufferInv, Bytes
<1>6. buf' = old \o part /\ pos' = from
  BY <1>1, <1>2
<1> HIDE DEF part, old, left, from
<1>7. /\ Len(buf') = Len(old) + n
      /\ \A i \in 1..Len(old) + n : buf'[i] = IF i <= Len(old) THEN old[i] ELSE part[i - Len(old)]
  <2>1. /\ Len(old \o part) = Len(old) + Len(part)
        /\ \A i \in 1..Len(old) + Len(part) :
             (old \o part)[i] = IF i <= Len(old) THEN old[i] ELSE part[i - Len(old)]
    BY <1>4, <1>5, ConcatProperties
  <2> QED
    BY <1>4, <1>6, <2>1
<1> DEFINE kept == Len(old)
<1>8. /\ kept \in Nat /\ from \in Nat /\ from <= kept /\ kept - from = left /\ left \in Nat
      /\ Len(buf') = kept + n /\ pos' = from
      /\ \A i \in 1..kept + n : buf'[i] = IF i <= kept THEN old[i] ELSE part[i - kept]
  BY <1>5, <1>6, <1>7
<1> HIDE DEF kept
<1>9. Len(buf') - pos' = left + n
  BY <1>3, <1>8
<1>10. ASSUME NEW m \in Segment, ReadTo(m) PROVE ReadTo(m)'
  <2> DEFINE o == m.end
  <2>1. o \in Nat /\ o + left = taken /\ \A k \in 1..left : buf[pos + k] = wire[o + k]
    BY <1>10, SegmentFields DEF ReadTo, left
  <2> HIDE DEF o
  <2>2. ASSUME NEW k \in 1..left + n PROVE buf'[pos' + k] = wire'[o + k]
    <3>1. CASE k <= left
      <4>1. k \in 1..left /\ from + k \in 1..kept + n /\ from + k <= kept
        BY <1>3, <1>8, <3>1
      <4>2. buf'[from + k] = old[from + k]
        BY <1>8, <4>1
      <4> QED
        BY <1>2, <1>5, <1>8, <2>1, <4>1, <4>2
    <3>2. CASE ~(k <= left)
      <4>1. /\ k - left \in 1..n /\ from + k \in 1..kept + n
            /\ ~(from + k <= kept) /\ from + k - kept = k - left
            /\ taken + (k - left) = o + k
        <5> k \in Nat /\ k > left /\ k <= left + n
          BY <1>3, <1>8, <3>2
        <5> QED
          BY <1>3, <1>8, <2>1
      <4>2. buf'[from + k] = part[k - left]
        <5> DEFINE i == from + k
        <5>1. i \in 1..kept + n /\ ~(i <= kept) /\ i - kept = k - left
          BY <1>3, <1>8, <4>1
        <5> HIDE DEF i
        <5>2. buf'[i] = part[i - kept]
          BY <1>8, <5>1
        <5> QED
          BY <5>1, <5>2 DEF i
      <4> QED
        BY <1>2, <1>4, <1>6, <4>1, <4>2
    <3> QED
      BY <3>1, <3>2
  <2>3. o + (left + n) = taken'
    BY <1>1, <1>3, <1>8, <2>1
  <2> QED
    BY <1>2, <1>9, <1>10, <2>2, <2>3 DEF ReadTo, o
<1>11. taken' <= Len(wire')
  BY <1>1, <1>2
<1>12. ASSUME NEW ms \in Seq(Segment), NEW j \in 1..Len(ms), ReadTo(ms[j]) PROVE ReadTo(ms[j])'
  <2>1. ms[j] \in Segment
    OBVIOUS
  <2> QED
    BY <1>10, <1>12, <2>1
<1> QED
  BY <1>2, <1>11, <1>12 DEF ArrivalInv

\* A frame that is handled takes the read loop to the next mark.
LEMMA FrameKeeps ==
    ASSUME TypeInv, BufferInv, ArrivalInv, Frame, TypeInv'
    PROVE  ArrivalInv'
<1> DEFINE frame == Unpack(buf, pos)
<1>1. /\ ~Idle /\ Handle(frame) /\ pos' = pos + Consumed(frame)
      /\ UNCHANGED <<pending, wire, taken, buf, given, ends, clean>>
  BY DEF Frame
<1> HIDE DEF frame
<1>2. ASSUME NEW ms \in Seq(Segment), OnWire(ms, wire, given, ends),
             NEW j \in 1..Len(ms), ReadTo(ms[j])
      PROVE  \E i \in 1..Len(ms) : ReadTo(ms[i])'
  <2>0. /\ Len(wire) \in Nat /\ taken \in Nat /\ taken <= Len(wire)
        /\ Len(buf) \in Nat /\ pos \in Nat /\ pos <= Len(buf)
        /\ ms[j] \in Segment /\ Len(ms) \in 1..Len(ms)
    BY <1>2, PlaceFacts
  <2>1. j # Len(ms)
    <3> SUFFICES ASSUME j = Len(ms) PROVE FALSE
      OBVIOUS
    <3>1. Len(wire) + (Len(buf) - pos) = taken
      BY <1>2 DEF OnWire, ReadTo
    <3>2. Len(buf) - pos < 3
      BY <2>0, <3>1
    <3>3. Idle
      BY <3>2 DEF Idle, Unpack
    <3> QED
      BY <1>1, <3>3
  <2>2. j \in 1..Len(ms) - 1 /\ j + 1 \in 1..Len(ms)
    BY <2>0, <2>1
  <2> DEFINE a == ms[j]
             z == ms[j + 1]
  <2>3. a \in Segment /\ z \in Segment /\ Laid(a, z, wire, given)
    BY <1>2, <2>2 DEF OnWire
  <2>4. \A s \in Streams : a.bytes[s] \in Nat /\ z.bytes[s] \in Nat /\ z.bytes[s] <= Len(given[s])
    BY <1>2, <2>2, <2>3, SegmentFields DEF OnWire
  <2> HIDE DEF a, z
  <2>5. ReadTo(a)
    BY <1>2 DEF a
  <2>6. /\ taken >= z.end /\ Consumed(frame) = z.end - a.end
        /\ \/ Skipped(a, z, wire) /\ frame.cmd = 10
           \/ Unknown(a, z, wire) /\ frame.cmd = 3
           \/ \E s \in Streams, n \in Nat :
                /\ Carried(s, n, a, z, wire, given)
                /\ frame.cmd = 2 /\ frame.sid = s
                /\ frame.payload \in Bytes /\ Len(frame.payload) = n
                /\ \A k \in 1..n : frame.payload[k] = given[s][a.bytes[s] + k]
    <3>1. /\ a.end + (Len(buf) - pos) = taken
          /\ \A k \in 1..Len(buf) - pos : buf[pos + k] = wire[a.end + k]
      BY <2>5 DEF ReadTo
    <3>2. z.end \in Nat /\ ~(taken < z.end)
      BY <1>1, <2>0, <2>3, <3>1, UnpackLaid, SegmentFields
    <3> QED
      BY <1>1, <2>0, <2>3, <3>1, <3>2, UnpackLaid, SMTT(30) DEF frame
  <2> DEFINE o == a.end
             q == z.end
  <2>7. /\ o \in Nat /\ q \in Nat /\ o < q /\ q <= taken /\ o + (Len(buf) - pos) = taken
        /\ pos' = pos + (q - o) /\ \A k \in 1..Len(buf) - pos : buf[pos + k] = wire[o + k]
    <3>1. o \in Nat /\ q \in Nat
      BY <2>3, SegmentFields
    <3>2. o < q
      <4>1. ASSUME NEW n \in Nat, NEW s \in Streams, Carried(s, n, a, z, wire, given)
            PROVE  o < q
        <5>1. q = o + 3 + n
          BY <4>1 DEF Carried
        <5> HIDE DEF o, q
        <5> QED
          BY <3>1, <5>1
      <4>2. Skipped(a, z, wire) \/ Unknown(a, z, wire) => q = o + 3
        BY DEF Skipped, Unknown
      <4> HIDE DEF o, q
      <4> QED
        BY <2>6, <3>1, <4>1, <4>2
    <3> QED
      BY <1>1, <2>0, <2>5, <2>6, <3>1, <3>2 DEF ReadTo
  <2> HIDE DEF o, q
  <2>8. /\ q + (Len(buf') - pos') = taken'
        /\ \A k \in 1..Len(buf') - pos' : buf'[pos' + k] = wire'[q + k]
    <3>1. buf' = buf /\ wire' = wire /\ taken' = taken
      BY <1>1
    <3>2. q + (Len(buf) - pos') = taken
      BY <2>0, <2>7
    <3>3. ASSUME NEW k \in 1..Len(buf) - pos' PROVE buf[pos' + k] = wire[q + k]
      <4>1. /\ (q - o) + k \in 1..Len(buf) - pos
            /\ pos + ((q - o) + k) = pos' + k /\ o + ((q - o) + k) = q + k
        BY <2>0, <2>7
      <4> QED
        BY <2>7, <4>1
    <3> QED
      BY <3>1, <3>2, <3>3
  <2>9. /\ handled = a.frames /\ \A s \in Streams : received[s] \in Seq(Nat)
        /\ \A s \in Streams : /\ Len(received[s]) = a.bytes[s]
                              /\ \A k \in 1..a.bytes[s] : received[s][k] = given[s][k]
    BY <2>5 DEF ReadTo, TypeInv, Bytes
  <2>10. /\ handled' = z.frames
         /\ \A s \in Streams : /\ Len(received'[s]) = z.bytes[s]
                               /\ \A k \in 1..z.bytes[s] : received'[s][k] = given[s][k]
    <3>1. CASE Skipped(a, z, wire) /\ frame.cmd = 10
      <4>1. handled' = handled /\ received' = received
        BY <1>1, <3>1 DEF Handle
      <4> QED
        BY <2>9, <3>1, <4>1 DEF Skipped
    <3>2. CASE Unknown(a, z, wire) /\ frame.cmd = 3
      <4>1. handled' = handled + 1 /\ received' = received
        BY <1>1, <3>2 DEF Handle
      <4> QED
        BY <2>9, <3>2, <4>1 DEF Unknown
    <3>3. ASSUME NEW s \in Streams, NEW n \in Nat, Carried(s, n, a, z, wire, given),
                 frame.cmd = 2, frame.sid = s, frame.payload \in Bytes, Len(frame.payload) = n,
                 \A k \in 1..n : frame.payload[k] = given[s][a.bytes[s] + k]
          PROVE  /\ handled' = z.frames
                 /\ \A r \in Streams : /\ Len(received'[r]) = z.bytes[r]
                                       /\ \A k \in 1..z.bytes[r] : received'[r][k] = given[r][k]
      <4>1. /\ handled' = handled + 1
            /\ received' = [received EXCEPT ![s] = @ \o frame.payload]
        BY <1>1, <3>3 DEF Handle
      <4>2. handled' = z.frames
        BY <2>9, <3>3, <4>1 DEF Carried
      <4>3. ASSUME NEW r \in Streams, r # s
            PROVE  received'[r] = received[r] /\ z.bytes[r] = a.bytes[r]
        <5>1. a.bytes \in [Streams -> Nat]
          BY <2>3, SegmentFields
        <5> QED
          BY <3>3, <4>1, <4>3, <5>1 DEF Carried, TypeInv
      <4> DEFINE c == a.bytes[s]
                 load == frame.payload
      <4>4. z.bytes[s] = c + n /\ c \in Nat /\ received'[s] = received[s] \o load
        <5>1. a.bytes \in [Streams -> Nat]
          BY <2>3, SegmentFields
        <5> QED
          BY <3>3, <4>1, <5>1 DEF Carried, TypeInv
      <4>5. /\ load \in Seq(Nat) /\ Len(load) = n /\ Len(received[s]) = c
            /\ received[s] \in Seq(Nat) /\ \A k \in 1..c : received[s][k] = given[s][k]
            /\ \A k \in 1..n : load[k] = given[s][c + k]
        BY <2>9, <3>3 DEF Bytes
      <4> HIDE DEF c, load
      <4>6. /\ Len(received'[s]) = c + n
            /\ \A k \in 1..c + n :
                 received'[s][k] = IF k <= c THEN received[s][k] ELSE load[k - c]
        <5>1. /\ Len(received[s] \o load) = Len(received[s]) + Len(load)
              /\ \A k \in 1..Len(received[s]) + Len(load) :
                   (received[s] \o load)[k] =
                     IF k <= Len(received[s]) THEN received[s][k] ELSE load[k - Len(received[s])]
          BY <4>5, ConcatProperties, ZenonT(40)
        <5> QED
          BY <4>4, <4>5, <5>1
      <4>7. ASSUME NEW k \in 1..c + n PROVE received'[s][k] = given[s][k]
        <5>1. CASE k <= c
          BY <4>4, <4>5, <4>6, <5>1, SMTT(30)
        <5>2. CASE ~(k <= c)
          <6>1. k - c \in 1..n /\ c + (k - c) = k
            BY <4>4, <5>2
          <6> QED
            BY <4>5, <4>6, <5>2, <6>1
        <5> QED
          BY <5>1, <5>2
      <4>8. ASSUME NEW r \in Streams
            PROVE  /\ Len(received'[r]) = z.bytes[r]
                   /\ \A k \in 1..z.bytes[r] : received'[r][k] = given[r][k]
        <5>1. CASE r = s
          BY <4>4, <4>6, <4>7, <5>1
        <5>2. CASE r # s
          <6>1. received'[r] = received[r] /\ z.bytes[r] = a.bytes[r]
            BY <4>3, <5>2
          <6> QED
            BY <2>9, <6>1
        <5> QED
          BY <5>1, <5>2
      <4> QED
        BY <4>2, <4>8
    <3> QED
      BY <2>6, <3>1, <3>2, <3>3
  <2>11. ReadTo(z)'
    <3>1. given' = given
      BY <1>1
    <3> QED
      BY <2>8, <2>10, <3>1 DEF ReadTo, q
  <2> QED
    BY <2>2, <2>11 DEF z
<1>3. taken' <= Len(wire')
  BY <1>1 DEF ArrivalInv
<1> QED
  BY <1>1, <1>2, <1>3 DEF ArrivalInv

\* The wire, its marks and the read loop's place among them, in every state.
LEMMA ArrivalHolds == Spec => []ArrivalInv
<1>1. Init => ArrivalInv
  <2> SUFFICES ASSUME Init PROVE ArrivalInv
    OBVIOUS
  <2> DEFINE ms == <<Start>>
  <2>1. Start \in Segment /\ Start.end = 0 /\ Start.frames = 0 /\ \A s \in Streams : Start.bytes[s] = 0
    BY DEF Start, Segment
  <2>2. /\ ms \in Seq(Segment) /\ ms # <<>> /\ Len(ms) = 1 /\ ms[1] = Start
        /\ \A i \in 1..Len(ms) : ms[i] = Start
    BY <2>1
  <2> HIDE DEF ms
  <2>3. /\ wire = <<>> /\ ends = <<>> /\ buf = <<>> /\ pos = 0 /\ taken = 0 /\ handled = 0
        /\ Len(<<>>) = 0
        /\ \A s \in Streams : given[s] = <<>> /\ received[s] = <<>> /\ pending[s] = <<>>
    BY DEF Init
  <2>4. OnWire(ms, wire, given, ends)
    <3>1. \A i \in 1..Len(ms) - 1 : FALSE
      BY <2>2
    <3>2. \A i \in 1..Len(ms) : /\ ms[i].end <= Len(wire) /\ ms[i].frames <= Len(ends)
                                /\ \A s \in Streams : ms[i].bytes[s] <= Len(given[s])
                                /\ \A f \in 1..Len(ends) : FALSE
      BY <2>1, <2>2, <2>3
    <3>3. ms[Len(ms)].end = Len(wire) /\ ms[Len(ms)].frames = Len(ends)
      BY <2>1, <2>2, <2>3
    <3> QED
      BY <2>2, <3>1, <3>2, <3>3 DEF OnWire
  <2>5. ReadTo(Start)
    <3>1. Len(buf) - pos = 0 /\ \A k \in 1..0 : FALSE
      BY <2>3
    <3> QED
      BY <2>1, <2>3, <3>1 DEF ReadTo
  <2>6. ASSUME NEW s \in Streams PROVE Pieces(pending[s], Start.bytes[s], given[s])
    <3> DEFINE st == <<0>>
    <3>1. st \in Seq(Nat) /\ Len(st) = 1 /\ st[1] = 0
      OBVIOUS
    <3> HIDE DEF st
    <3>2. Len(<<>>) + 1 = 1 /\ \A i \in 1..Len(<<>>) : FALSE
      OBVIOUS
    <3> QED
      BY <2>1, <2>3, <3>1, <3>2 DEF Pieces
  <2> QED
    BY <2>2, <2>3, <2>4, <2>5, <2>6 DEF ArrivalInv
<1>2. TypeInv /\ BufferInv /\ ArrivalInv /\ [Next]_vars /\ TypeInv' => ArrivalInv'
  <2> SUFFICES ASSUME TypeInv, BufferInv, ArrivalInv, [Next]_vars, TypeInv' PROVE ArrivalInv'
    OBVIOUS
  <2>1. ASSUME NEW s \in Streams, SendData(s) PROVE ArrivalInv'
    BY <2>1, SendDataKeeps
  <2>2. ASSUME NEW s \in Streams, SendFrame(s) PROVE ArrivalInv'
    BY <2>2, SendFrameKeeps
  <2>3. CASE SendUnknown \/ SendBadHeader
    BY <2>3, OddKeeps
  <2>4. CASE SendNoise
    <3>1. PICK b \in {3, MaxFrame + 1} : wire' = wire \o <<b>> /\ taken' = taken /\ ~clean'
      BY <2>4 DEF SendNoise, Odd, Put
    <3>2. b \in Nat
      BY FramingAssumption
    <3>3. /\ <<b>> \in Seq(Nat) /\ Len(<<b>>) = 1 /\ wire \in Seq(Nat) /\ Len(wire) \in Nat
          /\ taken \in Nat /\ taken <= Len(wire)
      BY <3>2 DEF TypeInv, ArrivalInv, Bytes
    <3>4. Len(wire \o <<b>>) = Len(wire) + Len(<<b>>)
      BY <3>3, ConcatProperties
    <3>5. taken' <= Len(wire')
      BY <3>1, <3>3, <3>4
    <3> QED
      BY <3>1, <3>5 DEF ArrivalInv
  <2>5. CASE Read
    BY <2>5, ReadKeeps
  <2>6. CASE Frame
    BY <2>6, FrameKeeps
  <2>7. CASE UNCHANGED vars
    BY <2>7 DEF ArrivalInv, ReadTo
  <2> QED
    BY <2>1, <2>2, <2>3, <2>4, <2>5, <2>6, <2>7 DEF Next
<1> QED
  BY <1>1, <1>2, InvariantHolds, PTL DEF Spec

\* Whatever the sizes of frames and reads, and however the connection cuts what is sent: a
\* read loop that waits has handled exactly the frames that arrived whole, and each stream
\* has been fed, in order and without a gap, a prefix of what its send_data calls were given,
\* all of it once everything is sent and read.
THEOREM FramesDoArrive == Spec => []FramesArrive
<1>1. TypeInv /\ BufferInv /\ ArrivalInv => FramesArrive
  <2> SUFFICES ASSUME TypeInv, BufferInv, ArrivalInv, clean
               PROVE  /\ Idle => handled = Cardinality({f \in DOMAIN ends : ends[f] <= taken})
                      /\ \A s \in Streams :
                           /\ IsPrefix(received[s], given[s])
                           /\ Idle /\ pending[s] = <<>> /\ taken = Len(wire) => received[s] = given[s]
    BY DEF FramesArrive
  <2>1. PICK ms \in Seq(Segment) :
           /\ OnWire(ms, wire, given, ends)
           /\ \E j \in 1..Len(ms) : ReadTo(ms[j])
           /\ \A s \in Streams : Pieces(pending[s], ms[Len(ms)].bytes[s], given[s])
    BY DEF ArrivalInv
  <2>2. PICK j \in 1..Len(ms) : ReadTo(ms[j])
    BY <2>1
  <2>3. /\ Len(wire) \in Nat /\ taken \in Nat /\ taken <= Len(wire)
        /\ Len(buf) \in Nat /\ pos \in Nat /\ pos <= Len(buf)
        /\ ms[j] \in Segment /\ ms[j].end \in Nat /\ ms[j].frames \in Nat
        /\ Len(ms) \in 1..Len(ms) /\ ms[Len(ms)] \in Segment
        /\ \A s \in Streams : ms[j].bytes[s] \in Nat /\ ms[j].bytes[s] <= Len(given[s])
    BY <2>1, <2>2, PlaceFacts
  <2>4. ms[j].end <= taken /\ ms[j].end + (Len(buf) - pos) = taken
    <3>1. ms[j].end + (Len(buf) - pos) = taken
      BY <2>2 DEF ReadTo
    <3> QED
      BY <2>3, <3>1
  <2>5. j # Len(ms) => /\ j \in 1..Len(ms) - 1 /\ ms[j + 1] \in Segment /\ ms[j + 1].end \in Nat
                       /\ ms[j + 1].end <= Len(wire) /\ (Idle => taken < ms[j + 1].end)
    <3> SUFFICES ASSUME j # Len(ms)
                 PROVE  /\ j \in 1..Len(ms) - 1 /\ ms[j + 1] \in Segment /\ ms[j + 1].end \in Nat
                        /\ ms[j + 1].end <= Len(wire) /\ (Idle => taken < ms[j + 1].end)
      OBVIOUS
    <3>1. j \in 1..Len(ms) - 1 /\ j + 1 \in 1..Len(ms)
      BY <2>3
    <3>2. /\ ms[j + 1] \in Segment /\ Laid(ms[j], ms[j + 1], wire, given)
          /\ ms[j + 1].end <= Len(wire)
      BY <2>1, <3>1 DEF OnWire
    <3>3. \A k \in 1..Len(buf) - pos : buf[pos + k] = wire[ms[j].end + k]
      BY <2>2 DEF ReadTo
    <3>4. Idle => taken < ms[j + 1].end
      BY <2>3, <2>4, <3>2, <3>3, UnpackLaid
    <3> QED
      BY <3>1, <3>2, <3>4, SegmentFields
  <2>6. ASSUME Idle PROVE handled = Cardinality({f \in DOMAIN ends : ends[f] <= taken})
    <3>1. /\ ends \in Seq(Nat) /\ Len(ends) \in Nat /\ DOMAIN ends = 1..Len(ends)
          /\ \A f \in 1..Len(ends) : ends[f] \in Nat
      BY DEF TypeInv
    <3>2. handled = ms[j].frames /\ ms[j].frames <= Len(ends)
      BY <2>1, <2>2 DEF ReadTo, OnWire
    <3>3. ASSUME NEW f \in 1..Len(ends) PROVE ends[f] <= taken <=> f <= ms[j].frames
      <4>1. ends[f] <= ms[j].end <=> f <= ms[j].frames
        BY <2>1 DEF OnWire
      <4>2. CASE j = Len(ms)
        <5>1. ms[j].end = Len(wire)
          BY <2>1, <4>2 DEF OnWire
        <5>2. ms[j].end = taken
          BY <2>3, <2>4, <5>1
        <5> QED
          BY <4>1, <5>2
      <4>3. CASE j # Len(ms)
        <5>1. ends[f] < ms[j + 1].end <=> f <= ms[j].frames
          BY <2>1, <2>5, <4>3 DEF OnWire
        <5>2. taken < ms[j + 1].end /\ ms[j + 1].end \in Nat
          BY <2>5, <2>6, <4>3
        <5>3. ends[f] \in Nat
          BY <3>1
        <5> QED
          BY <2>3, <2>4, <4>1, <5>1, <5>2, <5>3, SMTT(30)
      <4> QED
        BY <4>2, <4>3
    <3>4. {f \in DOMAIN ends : ends[f] <= taken} = 1..ms[j].frames
      BY <2>3, <3>1, <3>2, <3>3, SMTT(30)
    <3>5. Cardinality(1..ms[j].frames) = ms[j].frames
      <4> DEFINE m == ms[j].frames
      <4>1. m \in Nat
        BY <2>3
      <4> HIDE DEF m
      <4>2. Cardinality(1..m) = IF 1 > m THEN 0 ELSE m - 1 + 1
        BY <4>1, FS_Interval
      <4>3. Cardinality(1..m) = m
        BY <4>1, <4>2
      <4> QED
        BY <4>3 DEF m
    <3> QED
      BY <3>2, <3>4, <3>5
  <2>7. ASSUME NEW s \in Streams PROVE IsPrefix(received[s], given[s])
    <3> DEFINE n == ms[j].bytes[s]
    <3>1. /\ received[s] \in Seq(Nat) /\ given[s] \in Seq(Nat)
          /\ Len(received[s]) = n /\ n \in Nat /\ n <= Len(given[s]) /\ Len(given[s]) \in Nat
          /\ \A k \in 1..n : received[s][k] = given[s][k]
      BY <2>2, <2>3, SMTT(30) DEF ReadTo, TypeInv, Bytes
    <3> HIDE DEF n
    <3>2. /\ SubSeq(given[s], 1, n) \in Seq(Nat) /\ Len(SubSeq(given[s], 1, n)) = n
          /\ \A k \in 1..n : SubSeq(given[s], 1, n)[k] = given[s][k]
      BY <3>1
    <3>3. SubSeq(received[s], 1, n) = received[s]
      BY <3>1, SubSeqFull
    <3>4. received[s] = SubSeq(given[s], 1, n)
      BY <3>1, <3>2, SeqEqual
    <3> QED
      BY <3>1, <3>3, <3>4 DEF IsPrefix
  <2>8. ASSUME NEW s \in Streams, Idle, pending[s] = <<>>, taken = Len(wire)
        PROVE  received[s] = given[s]
    <3>1. j = Len(ms)
      BY <2>3, <2>5, <2>8
    <3>2. ms[j].bytes[s] = Len(given[s])
      <4>1. Len(<<>>) = 0
        OBVIOUS
      <4> QED
        BY <2>1, <2>8, <3>1, <4>1 DEF Pieces
    <3>3. /\ received[s] \in Seq(Nat) /\ given[s] \in Seq(Nat)
          /\ Len(received[s]) = Len(given[s])
          /\ \A k \in 1..Len(given[s]) : received[s][k] = given[s][k]
      BY <2>2, <3>2 DEF ReadTo, TypeInv, Bytes
    <3> QED
      BY <3>3, SeqEqual
  <2> QED
    BY <2>6, <2>7, <2>8
<1> QED
  BY <1>1, InvariantHolds, ArrivalHolds, PTL
-----------------------------------------------------------------------------
\* The writer that tasks share at the sending end.
CONSTANTS Tasks, Nobody
VARIABLES sender, holder, conn, stalled

W == INSTANCE FrameWriter WITH Senders <- Tasks, None <- Nobody

\* Every variable keeps its type.
THEOREM WriterTypeCorrect == W!SafeSpec => []W!TypeOK
<1>1. W!Init => W!TypeOK
  BY DEF W!Init, W!TypeOK
<1>2. W!TypeOK /\ [W!Next]_(W!vars) => (W!TypeOK)'
  <2> SUFFICES ASSUME W!TypeOK, [W!Next]_(W!vars) PROVE (W!TypeOK)'
    OBVIOUS
  <2> USE DEF W!TypeOK
  <2>1. ASSUME NEW p \in Tasks, W!Request(p) PROVE (W!TypeOK)'
    BY <2>1 DEF W!Request
  <2>2. ASSUME NEW p \in Tasks, W!Acquire(p) PROVE (W!TypeOK)'
    BY <2>2 DEF W!Acquire
  <2>3. ASSUME NEW p \in Tasks, W!DrainEnds(p) PROVE (W!TypeOK)'
    BY <2>3 DEF W!DrainEnds, W!Drained, W!DrainTimeout, W!DrainError, W!Release
  <2>4. ASSUME NEW p \in Tasks, W!Cancel(p) PROVE (W!TypeOK)'
    BY <2>4 DEF W!Cancel
  <2>5. CASE W!CloseWriter \/ W!Lose \/ W!PeerStalls
    BY <2>5 DEF W!CloseWriter, W!Lose, W!PeerStalls
  <2>6. CASE UNCHANGED W!vars
    BY <2>6 DEF W!vars
  <2> QED
    BY <2>1, <2>2, <2>3, <2>4, <2>5, <2>6 DEF W!Next
<1> QED
  BY <1>1, <1>2, PTL DEF W!SafeSpec

\* At most one task drains, and it holds the lock: the drains of two tasks on the same
\* StreamWriter never overlap, whatever times out, fails or is cancelled.
THEOREM DrainsExclude ==
    ASSUME Nobody \notin Tasks PROVE W!SafeSpec => []W!DrainExclusive
<1>1. W!Init => W!DrainExclusive
  BY DEF W!Init, W!DrainExclusive
<1>2. W!TypeOK /\ W!DrainExclusive /\ [W!Next]_(W!vars) => (W!DrainExclusive)'
  <2> SUFFICES ASSUME W!TypeOK, W!DrainExclusive, [W!Next]_(W!vars) PROVE (W!DrainExclusive)'
    OBVIOUS
  <2> USE DEF W!TypeOK, W!DrainExclusive
  <2>1. ASSUME NEW p \in Tasks, W!Request(p) PROVE (W!DrainExclusive)'
    BY <2>1 DEF W!Request
  <2>2. ASSUME NEW p \in Tasks, W!Acquire(p) PROVE (W!DrainExclusive)'
    BY <2>2 DEF W!Acquire
  <2>3. ASSUME NEW p \in Tasks, W!DrainEnds(p) PROVE (W!DrainExclusive)'
    BY <2>3 DEF W!DrainEnds, W!Drained, W!DrainTimeout, W!DrainError, W!Release
  <2>4. ASSUME NEW p \in Tasks, W!Cancel(p) PROVE (W!DrainExclusive)'
    BY <2>4 DEF W!Cancel
  <2>5. CASE W!CloseWriter \/ W!Lose \/ W!PeerStalls
    BY <2>5 DEF W!CloseWriter, W!Lose, W!PeerStalls
  <2>6. CASE UNCHANGED W!vars
    BY <2>6 DEF W!vars
  <2> QED
    BY <2>1, <2>2, <2>3, <2>4, <2>5, <2>6 DEF W!Next
<1> QED
  BY <1>1, <1>2, WriterTypeCorrect, PTL DEF W!SafeSpec
=============================================================================
