---------------------------- MODULE StreamFeeder ----------------------------
(* How a TunnelStream is consumed: by calls of read(n), or, in the proxy, by *)
(* the _feed task of _TunnelStreamReader (client/core/router.py), which moves*)
(* the bytes into an asyncio.StreamReader for the local application; that    *)
(* one has no transport to pause and takes all it is fed.  Receiving is      *)
(* TunnelStream's; the task runs without a pause until the queue is empty or *)
(* its loop test finds the stream closed.                                    *)
EXTENDS TunnelStream

CONSTANT IOChunk   \* IO_CHUNK_SIZE, the n of _feed's read(n)

ASSUME IOChunkAssumption == IOChunk \in Sizes

VARIABLE feeder    \* new: task created; loop: awaits the queue; done: feed_eof was called;
                   \* none: a stream without a feeder

fvars == <<streamVars, feeder>>

FTypeOK == StreamTypeOK /\ feeder \in {"none", "new", "loop", "done"}

FInit == StreamInit /\ feeder \in {"none", "new"}

\* The consumer calls read itself.
AppReads == feeder = "none" /\ Reading /\ UNCHANGED feeder

\* While the stream is open the loop moves all there is and waits for more.
MoveAll ==
    /\ got' = got \o leftover \o queue
    /\ queue' = <<>> /\ leftover' = <<>> /\ buffered' = 0
    /\ waiting' = IOChunk
    /\ UNCHANGED <<arrived, closed, ended>>

\* The first test of the loop condition, when the task starts to run.
FeedStarts ==
    /\ feeder = "new"
    /\ IF closed THEN feeder' = "done" /\ UNCHANGED streamVars
                 ELSE feeder' = "loop" /\ MoveAll

\* read(n) returns to the loop.  Of a stream that was closed in the meantime only that
\* one read is served: the loop condition then ends the task.
FeedRuns ==
    /\ feeder = "loop" /\ queue # <<>>
    /\ IF closed THEN feeder' = "done" /\ ReadResumes
                 ELSE feeder' = feeder /\ MoveAll

FNext == (Receive /\ UNCHANGED feeder) \/ AppReads \/ FeedStarts \/ FeedRuns

FSafeSpec == FInit /\ [][FNext]_fvars

\* A task that is ready runs, and a consumer goes on reading until it is told the end.
FSpec == FSafeSpec /\ WF_fvars(AppReads) /\ WF_fvars(FeedStarts) /\ WF_fvars(FeedRuns)
----------------------------------------------------------------------------
\* Whoever consumes a closed stream is told its end: read returns b"", the feeder passes
\* the EOF on.
EndIsReported == closed ~> ended \/ feeder = "done"

\* tunnel.py:97-99 and test_stream_close_drains_data_received_before_eof: "Drain those bytes
\* before reporting EOF": the application gets everything that arrived before the close.
TailDelivered == feeder = "done" => LastByte(got) = arrived
=============================================================================
