---------------------------- MODULE TunnelStream ----------------------------
(* The receive side of one client stream: class TunnelStream in              *)
(* client/core/tunnel.py.  The tunnel's read loop feeds it the payloads of   *)
(* DATA frames and closes it on CLOSE; one consumer calls read.  The bytes   *)
(* of the stream are numbered 1, 2, ... in the order the frames arrive, and  *)
(* a chunk is an interval <<first, last>> of them.                           *)
EXTENDS Integers, Sequences

CONSTANTS MaxBuffer,  \* MAX_BUFFER_BYTES
          Sizes,      \* bound: the sizes of DATA payloads, and the n of read(n)
          MaxBytes    \* bound: bytes that arrive on the stream

ASSUME BufferAssumption == MaxBuffer \in Nat /\ MaxBytes \in Nat
ASSUME SizesAssumption == Sizes \subseteq Nat \ {0}

VARIABLES
    arrived,   \* bytes in the DATA frames fed so far, and not refused
    queue,     \* _buffer: chunks, and behind them the EOF that close puts there
    buffered,  \* _buffered_bytes
    leftover,  \* _leftover: no chunk or the rest of one
    closed,    \* _closed
    waiting,   \* read(n) awaits _buffer.get(): n, -1, or 0 when no read does
    got,       \* the chunks read has returned
    ended      \* read has returned b""

streamVars == <<arrived, queue, buffered, leftover, closed, waiting, got, ended>>

EOF == <<0, 0>>
Chunks == {c \in (1..MaxBytes) \X (1..MaxBytes) : c[1] <= c[2]}
Size(c) == c[2] - c[1] + 1
LastByte(s) == IF s = <<>> THEN 0 ELSE s[Len(s)][2]

\* The chunks of s, which may have an EOF behind them.
Data(s) == IF s # <<>> /\ s[Len(s)] = EOF THEN SubSeq(s, 1, Len(s) - 1) ELSE s

StreamTypeOK ==
    /\ arrived \in 0..MaxBytes
    /\ queue \in Seq(Chunks \cup {EOF})
    /\ buffered \in Int
    /\ leftover \in {<<>>} \cup {<<c>> : c \in Chunks}
    /\ closed \in BOOLEAN
    /\ waiting \in Sizes \cup {0, -1}
    /\ got \in Seq(Chunks)
    /\ ended \in BOOLEAN

StreamInit ==
    /\ arrived = 0 /\ queue = <<>> /\ buffered = 0 /\ leftover = <<>>
    /\ closed = FALSE /\ waiting = 0 /\ got = <<>> /\ ended = FALSE
----------------------------------------------------------------------------
(* The read loop of the tunnel.                                              *)

\* Mutant: no end is put behind the chunks, for which a suspended read waits.
CloseMute ==
    /\ ~closed /\ closed' = TRUE
    /\ UNCHANGED <<arrived, queue, buffered, leftover, waiting, got, ended>>

\* close: on CLOSE, CONNECT_FAIL, a lost tunnel, or by the local side.
Close ==
    /\ ~closed /\ closed' = TRUE
    /\ queue' = Append(queue, EOF)
    /\ UNCHANGED <<arrived, buffered, leftover, waiting, got, ended>>

\* feed_data: a payload that would exceed the buffer is refused and closes the stream.
FeedData(size) ==
    /\ ~closed /\ arrived + size <= MaxBytes
    /\ buffered + size <= MaxBuffer
    /\ arrived' = arrived + size
    /\ buffered' = buffered + size
    /\ queue' = Append(queue, <<arrived + 1, arrived + size>>)
    /\ UNCHANGED <<leftover, closed, waiting, got, ended>>

Overflow(size) == arrived + size <= MaxBytes /\ buffered + size > MaxBuffer /\ Close
----------------------------------------------------------------------------
(* read(n), by one consumer.                                                 *)

\* Mutant: the rest of a chunk is dropped.
ReturnDropsRest(c, n) ==
    LET last == IF n > 0 /\ n < Size(c) THEN c[1] + n - 1 ELSE c[2] IN
    /\ got' = Append(got, <<c[1], last>>)
    /\ leftover' = <<>>
    /\ buffered' = buffered - (last - c[1] + 1)

\* Mutant: the rest of a chunk no longer counts as buffered.
ReturnCountsChunk(c, n) ==
    LET rest == n > 0 /\ n < Size(c)
        last == IF rest THEN c[1] + n - 1 ELSE c[2] IN
    /\ got' = Append(got, <<c[1], last>>)
    /\ leftover' = IF rest THEN <<<<last + 1, c[2]>>>> ELSE <<>>
    /\ buffered' = buffered - Size(c)

\* Return the first n bytes of chunk c (all of it when n < 0) and keep the rest.
Return(c, n) ==
    LET rest == n > 0 /\ n < Size(c)
        last == IF rest THEN c[1] + n - 1 ELSE c[2] IN
    /\ got' = Append(got, <<c[1], last>>)
    /\ leftover' = IF rest THEN <<<<last + 1, c[2]>>>> ELSE <<>>
    /\ buffered' = buffered - (last - c[1] + 1)

ReturnEOF == ended' = TRUE /\ closed' = TRUE /\ UNCHANGED <<buffered, leftover, got>>

\* A leftover is served first.
ReadLeftover(n) ==
    /\ waiting = 0 /\ ~ended /\ leftover # <<>>
    /\ Return(leftover[1], n)
    /\ UNCHANGED <<arrived, queue, closed, waiting, ended>>

\* The head of the queue is returned, or the EOF found there.
TakeHead(n) ==
    /\ queue' = Tail(queue)
    /\ IF Head(queue) = EOF
       THEN ReturnEOF
       ELSE Return(Head(queue), n) /\ UNCHANGED <<closed, ended>>

Fresh == waiting = 0 /\ ~ended /\ leftover = <<>>

\* read() returns all queued chunks at once, up to an EOF, which it takes along.
ReadAll ==
    /\ Fresh /\ queue # <<>> /\ Head(queue) # EOF
    /\ got' = got \o Data(queue)
    /\ buffered' = buffered - (LastByte(got') - LastByte(got))
    /\ queue' = <<>>
    /\ closed' = (closed \/ queue[Len(queue)] = EOF)
    /\ UNCHANGED <<arrived, leftover, waiting, ended>>

\* read(n), and read() when an EOF is all there is.
ReadHead(n) ==
    /\ Fresh /\ queue # <<>>
    /\ n > 0 \/ Head(queue) = EOF
    /\ TakeHead(n)
    /\ UNCHANGED <<arrived, waiting>>

\* An empty closed stream is at its end; an empty open one makes the reader wait.
ReadEmpty(n) ==
    /\ Fresh /\ queue = <<>>
    /\ IF closed
       THEN ReturnEOF /\ UNCHANGED waiting
       ELSE waiting' = n /\ UNCHANGED <<buffered, leftover, closed, got, ended>>
    /\ UNCHANGED <<arrived, queue>>

\* The await on the queue returns its head.
ReadResumes ==
    /\ waiting # 0 /\ queue # <<>>
    /\ TakeHead(waiting)
    /\ waiting' = 0
    /\ UNCHANGED arrived

Read(n) == ReadLeftover(n) \/ ReadHead(n) \/ ReadEmpty(n) \/ (n = -1 /\ ReadAll)
----------------------------------------------------------------------------
Receive == Close \/ \E size \in Sizes : FeedData(size) \/ Overflow(size)

Reading == ReadResumes \/ \E n \in Sizes \cup {-1} : Read(n)
----------------------------------------------------------------------------
\* The chunks of s are consecutive from byte 1 on, and an EOF can only be last.
Consecutive(s) == \A i \in DOMAIN s :
    IF s[i] = EOF THEN i = Len(s)
    ELSE s[i][1] = IF i = 1 THEN 1 ELSE s[i-1][2] + 1

\* No byte is lost, repeated or reordered by partial reads, waits and the close: what was
\* returned, the leftover and the queue are the bytes accepted, in order, and the end is
\* reported only after the last of them was returned (tunnel.py:87-100).
NothingLost ==
    LET all == got \o leftover \o queue IN
    /\ Consecutive(all) /\ LastByte(Data(all)) = arrived
    /\ ended => LastByte(got) = arrived

\* _buffered_bytes is exactly what waits in the queue and the leftover, so the cap means
\* what it says and frees its room again when the consumer catches up.
BufferAccounting == buffered = arrived - LastByte(got) /\ buffered <= MaxBuffer
=============================================================================
