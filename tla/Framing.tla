------------------------------ MODULE Framing ------------------------------
(***************************************************************************)
(* The wire protocol of one direction of a tunnel: pack_frame and          *)
(* unpack_frame (common/protocol.py), the sender's division of oversized   *)
(* payloads (client/core/tunnel.py) and the two read loops, the client's   *)
(* (client/core/tunnel.py) and the server's (server/tunnel_server.py),     *)
(* which differ in when they drop the parsed part of the buffer.           *)
(*                                                                         *)
(* A byte is a small number.  The length, the stream identifier and the    *)
(* command take one byte each, so a header is HeaderSize = 3 bytes (9 in   *)
(* the code).  TCP is the sequence of all bytes sent and how many of them  *)
(* the receiver has taken: a read returns any non-empty part of the rest.  *)
(***************************************************************************)
EXTENDS Naturals, Sequences, SequencesExt, FiniteSets

CONSTANTS Streams,   \* stream identifiers, a set of bytes
          MaxFrame,  \* MAX_FRAME_SIZE
          ReadSize,  \* the most one read returns: 256 KB, IO_CHUNK_SIZE
          Threshold, \* the server compacts past this position: 65536
          MaxData,   \* bound: length of the data of one send_data call
          MaxBytes,  \* bound: bytes put on the wire
          MaxOdd     \* bound: unknown commands, bad headers and noise among them

HeaderSize == 3
DATA == 2
CLOSE == 3
PONG == 10
Cmd == 1 .. PONG

ASSUME FramingAssumption ==
  /\ Streams \subseteq Nat
  /\ MaxFrame \in Nat /\ MaxFrame > HeaderSize
  /\ ReadSize \in Nat \ {0}
  /\ Threshold \in Nat /\ Threshold < MaxFrame
  /\ MaxData \in Nat /\ MaxBytes \in Nat /\ MaxOdd \in Nat

VARIABLES
  side,    \* whose read loop this is: "client" or "server"
  pending, \* stream -> payloads of send_data calls that are not sent yet
  wire,    \* every byte put on the connection
  taken,   \* how many of them the receiver has read
  buf,     \* buf of the read loop
  pos,     \* pos of the read loop
  received, \* stream -> the bytes its DATA frames have handed to it
  handled, \* how many frames the receiver has handled, but for PONGs, which change nothing
  given,   \* stream -> the bytes its send_data calls were given
  ends,    \* for each frame sent, how many bytes were sent up to its end
  odd,     \* how many unknown commands, bad headers and noise bytes were sent
  clean    \* FALSE once bytes were sent that do not begin with a header

vars == <<side, pending, wire, taken, buf, pos, received, handled, given, ends, odd, clean>>
receiver == <<taken, buf, pos, received, handled>>

None == [sid |-> 0, cmd |-> 0, payload |-> <<>>]

Init ==
  /\ side \in {"client", "server"}
  /\ pending = [s \in Streams |-> <<>>]
  /\ given = [s \in Streams |-> <<>>]
  /\ received = [s \in Streams |-> <<>>]
  /\ wire = <<>> /\ buf = <<>> /\ ends = <<>>
  /\ taken = 0 /\ pos = 0 /\ handled = 0
  /\ odd = 0
  /\ clean = TRUE

-----------------------------------------------------------------------------
(* The sender. *)

Pack(sid, cmd, payload) == <<HeaderSize + Len(payload), sid, cmd>> \o payload

MaxPayload == MaxFrame - HeaderSize

\* The payloads data is sent in: one, or pieces of MaxPayload bytes.
Chunks(data) ==
  IF Len(data) <= MaxPayload THEN <<data>>
  ELSE [i \in 1 .. ((Len(data) + MaxPayload - 1) \div MaxPayload) |->
          SubSeq(data, (i - 1) * MaxPayload + 1,
                 IF i * MaxPayload < Len(data) THEN i * MaxPayload
                                               ELSE Len(data))]

Put(bytes) ==
  /\ Len(wire) + Len(bytes) <= MaxBytes
  /\ wire' = wire \o bytes

\* send_data is called; it awaits the write lock for each frame in turn, so
\* the frames of other streams come between its own.
SendData(s) ==
  /\ pending[s] = <<>>
  /\ \E n \in 0 .. MaxData :
       LET data == [i \in 1 .. n |-> HeaderSize + (i % 2)] IN
       /\ pending' = [pending EXCEPT ![s] = Chunks(data)]
       /\ given' = [given EXCEPT ![s] = @ \o data]
  /\ UNCHANGED <<side, wire, ends, odd, clean, receiver>>

SendFrame(s) ==
  /\ pending[s] # <<>>
  /\ Put(Pack(s, DATA, Head(pending[s])))
  /\ pending' = [pending EXCEPT ![s] = Tail(@)]
  /\ ends' = Append(ends, Len(wire'))
  /\ UNCHANGED <<side, given, odd, clean, receiver>>

Odd(bytes) ==
  /\ odd < MaxOdd
  /\ odd' = odd + 1
  /\ Put(bytes)
  /\ UNCHANGED <<side, pending, given, receiver>>

\* A frame with a command this version does not know.
SendUnknown ==
  /\ Odd(Pack(0, PONG + 1, <<>>))
  /\ ends' = Append(ends, Len(wire'))
  /\ UNCHANGED clean

\* A header alone, with a length that no frame has.
SendBadHeader ==
  /\ \E total \in {HeaderSize - 1, MaxFrame + 1} : Odd(<<total, 0, DATA>>)
  /\ UNCHANGED <<ends, clean>>

\* Bytes that are not frames.
SendNoise ==
  /\ \E b \in {HeaderSize, MaxFrame + 1} : Odd(<<b>>)
  /\ clean' = FALSE
  /\ UNCHANGED ends

-----------------------------------------------------------------------------
(* The receiver. *)

\* Mutant of BadLength: an oversized length looks like a frame to wait for.
ShortLength(total) == total < HeaderSize

\* A length that no frame has: looked for before the bytes are counted.
BadLength(total) == total > MaxFrame \/ total < HeaderSize

\* unpack_frame: the frame at offset p of b, or None when bytes are missing.
\* A length out of range makes an empty PONG of the header.
Unpack(b, p) ==
  LET rest == Len(b) - p
      total == b[p + 1]
      sid == b[p + 2]
      cmd == b[p + 3]
  IN IF rest < HeaderSize THEN None
     ELSE IF BadLength(total)
     THEN [sid |-> sid, cmd |-> PONG, payload |-> <<>>]
     ELSE IF rest < total THEN None
     ELSE [sid |-> sid,
           cmd |-> IF cmd \in Cmd THEN cmd ELSE CLOSE,
           payload |-> SubSeq(b, p + HeaderSize + 1, p + total)]

Idle == Unpack(buf, pos) = None

\* When the parsed part is dropped before new bytes are appended.
Compacts ==
  IF side = "client" THEN pos > 0
  ELSE pos > Threshold \/ (pos > 0 /\ pos > Len(buf) \div 2)

Rest == IF Compacts THEN [buf |-> SubSeq(buf, pos + 1, Len(buf)), pos |-> 0]
                    ELSE [buf |-> buf, pos |-> pos]

Read ==
  /\ Idle
  /\ \E n \in 1 .. ReadSize :
       /\ taken + n <= Len(wire)
       /\ taken' = taken + n
       /\ buf' = Rest.buf \o SubSeq(wire, taken + 1, taken + n)
  /\ pos' = Rest.pos
  /\ UNCHANGED <<side, pending, wire, received, handled, given, ends, odd, clean>>

\* Mutant of Consumed: the position moves by the length the header claims.
ConsumedByLength(frame) == buf[pos + 1]

\* How far the position moves: the size of what was parsed.
Consumed(frame) == HeaderSize + Len(frame.payload)

\* A DATA frame feeds its stream, if there is one; a PONG does nothing.
Handle(frame) ==
  /\ received' = IF frame.cmd = DATA /\ frame.sid \in Streams
                 THEN [received EXCEPT ![frame.sid] = @ \o frame.payload]
                 ELSE received
  /\ handled' = IF frame.cmd = PONG THEN handled ELSE handled + 1

Frame ==
  /\ ~ Idle
  /\ Handle(Unpack(buf, pos))
  /\ pos' = pos + Consumed(Unpack(buf, pos))
  /\ UNCHANGED <<side, pending, wire, taken, buf, given, ends, odd, clean>>

Next ==
  \/ \E s \in Streams : SendData(s) \/ SendFrame(s)
  \/ SendUnknown \/ SendBadHeader \/ SendNoise
  \/ Read
  \/ Frame

Spec == Init /\ [][Next]_vars

-----------------------------------------------------------------------------
(* Properties. *)

\* However the connection splits the bytes, whatever the read loop's
\* compaction, and however often a header with an impossible length comes in
\* between: once the loop waits for more bytes it has handled exactly the
\* frames that have arrived whole, and each stream has received, in order
\* and without a gap, a prefix of what its send_data calls were given (all of
\* it once everything is sent and read).
FramesArrive ==
  clean =>
    /\ Idle => handled = Cardinality({f \in DOMAIN ends : ends[f] <= taken})
    /\ \A s \in Streams :
         /\ IsPrefix(received[s], given[s])
         /\ Idle /\ pending[s] = <<>> /\ taken = Len(wire) => received[s] = given[s]

\* Whatever bytes arrive, the buffer stays below a fixed size: a length that
\* no frame has is never waited for, and the parsed part of the buffer is
\* dropped in time.
BufferBounded ==
  /\ pos <= Len(buf)
  /\ Idle => Len(buf) - pos < MaxFrame
  /\ Len(buf) < MaxFrame + Threshold + ReadSize

=============================================================================
