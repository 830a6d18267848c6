--------------------------- MODULE StreamTransfer ---------------------------
(***************************************************************************)
(* ReadableStreamSerializer of the crypto worker pool: a stream is read in *)
(* another thread, a chunk at a time, over a message channel.  serialize   *)
(* serves the source at port1; deserialize makes a stream of port2.        *)
(*                                                                         *)
(* A port delivers in order until it is closed; what was sent before the   *)
(* other port closed still arrives.  The source and the platform's streams *)
(* are external: the new stream keeps one chunk ahead of its reader, and   *)
(* pulls once at a time.  Chunks are numbered in the order of the source.  *)
(***************************************************************************)
EXTENDS Naturals, Sequences

CONSTANT MaxChunks \* bound: the chunks of the source

ASSUME ChunksAssumption == MaxChunks \in Nat

VARIABLES
    source,     \* the source: open, done, failed or cancelled
    given,      \* the chunks it gave
    reading,    \* how many handlers of READ await it
    port1, port2, \* whether the ports are open
    toSource,   \* the messages for port1
    toReader,   \* the messages for port2
    pull,       \* pull of the new stream: no, waiting for a message, or answered
    answer,     \* the message that has answered it
    stream,     \* the new stream: readable, closed or errored
    queue,      \* its queue of chunks
    wanted,     \* whether a read waits
    got,        \* the last chunk read
    told,       \* the end that the reader was told: none, done or error
    stopped     \* whether the reader has cancelled a readable stream

sourceVars == <<source, given, reading, port1>>
streamVars == <<pull, answer, stream, queue>>
readerVars == <<wanted, got, told, stopped>>
vars == <<sourceVars, port2, toSource, toReader, streamVars, readerVars>>

Chunk(n) == [type |-> "CHUNK", chunk |-> n]
Done == [type |-> "DONE", chunk |-> 0]    \* a CHUNK whose chunk is done
Error == [type |-> "ERROR", chunk |-> 0]
Message == [type : {"CHUNK"}, chunk : Nat] \cup {Done, Error}

Init ==
    /\ source = "open" /\ given = 0 /\ reading = 0
    /\ port1 = TRUE /\ port2 = TRUE /\ toSource = <<>> /\ toReader = <<>>
    /\ pull = "no" /\ answer = Done /\ stream = "readable" /\ queue = <<>>
    /\ wanted = FALSE /\ got = 0 /\ told = "none" /\ stopped = FALSE

-----------------------------------------------------------------------------
(* serialize: the handler of port1's messages.                             *)

Receive(type) ==
    /\ port1 /\ toSource # <<>> /\ Head(toSource) = type
    /\ toSource' = Tail(toSource)

HandleRead ==
    /\ Receive("READ") /\ reading' = reading + 1
    /\ UNCHANGED <<source, given, port1, port2, toReader, streamVars, readerVars>>

\* A closed port sends nothing.
Post(message) == toReader' = IF port1 THEN Append(toReader, message) ELSE toReader

GiveChunk ==
    /\ reading > 0 /\ source = "open" /\ given < MaxChunks
    /\ given' = given + 1 /\ reading' = reading - 1
    /\ Post(Chunk(given'))
    /\ UNCHANGED <<source, port1, port2, toSource, streamVars, readerVars>>

\* Variant: the port is closed before the last message is sent.
GiveEndClosed ==
    /\ reading > 0 /\ reading' = reading - 1
    /\ \/ source \in {"open", "done"} /\ source' = "done"
       \/ source = "cancelled" /\ source' = source
       \/ source \in {"open", "failed"} /\ source' = "failed"
    /\ port1' = FALSE
    /\ UNCHANGED <<given, port2, toSource, toReader, streamVars, readerVars>>

\* The source is done, or fails; a cancelled source answers that it is done.
GiveEnd ==
    /\ reading > 0 /\ reading' = reading - 1
    /\ \/ source \in {"open", "done"} /\ source' = "done" /\ Post(Done)
       \/ source = "cancelled" /\ source' = source /\ Post(Done)
       \/ source \in {"open", "failed"} /\ source' = "failed" /\ Post(Error)
    /\ port1' = FALSE
    /\ UNCHANGED <<given, port2, toSource, streamVars, readerVars>>

HandleCancel ==
    /\ Receive("CANCEL")
    /\ source' = IF source = "open" THEN "cancelled" ELSE source
    /\ port1' = FALSE
    /\ UNCHANGED <<given, reading, port2, toReader, streamVars, readerVars>>

-----------------------------------------------------------------------------
(* deserialize: the new stream.                                            *)

\* Variant: the stream pulls ahead without waiting for an answer.
PullAgain ==
    /\ stream = "readable" /\ queue = <<>> /\ pull \in {"no", "waiting"}
    /\ Len(toSource) < 2
    /\ pull' = "waiting" /\ toSource' = Append(toSource, "READ")
    /\ UNCHANGED <<sourceVars, port2, toReader, answer, stream, queue, readerVars>>

\* The platform pulls while nothing is queued, and never twice at once.
Pull ==
    /\ stream = "readable" /\ queue = <<>> /\ pull = "no"
    /\ pull' = "waiting" /\ toSource' = Append(toSource, "READ")
    /\ UNCHANGED <<sourceVars, port2, toReader, answer, stream, queue, readerVars>>

\* A message settles the promise of the last read; another finds it settled.
NextPortMessage ==
    /\ port2 /\ toReader # <<>> /\ toReader' = Tail(toReader)
    /\ IF pull = "waiting" THEN pull' = "answered" /\ answer' = Head(toReader)
                           ELSE UNCHANGED <<pull, answer>>
    /\ UNCHANGED <<sourceVars, port2, toSource, stream, queue, readerVars>>

\* pull goes on with a chunk: whoever waits for it gets it.  A stream that was
\* cancelled refuses it, which closes the port once more.
Enqueue ==
    /\ pull = "answered" /\ answer.type = "CHUNK" /\ pull' = "no"
    /\ \/ /\ stream = "readable" /\ wanted
          /\ got' = answer.chunk /\ wanted' = FALSE /\ UNCHANGED <<queue, port2>>
       \/ /\ stream = "readable" /\ ~wanted
          /\ queue' = Append(queue, answer.chunk) /\ UNCHANGED <<got, wanted, port2>>
       \/ /\ stream # "readable"
          /\ port2' = FALSE /\ UNCHANGED <<queue, got, wanted>>
    /\ UNCHANGED <<sourceVars, toSource, toReader, answer, stream, told, stopped>>

\* Whoever waits is told of the end.
Tell(end) == wanted' = FALSE /\ told' = IF wanted THEN end ELSE told

\* pull ends with the source: the stream closes or errors, unless cancelled.
Finish ==
    /\ pull = "answered" /\ answer.type # "CHUNK" /\ pull' = "no"
    /\ port2' = FALSE
    /\ IF stream # "readable" THEN UNCHANGED <<stream, wanted, told>>
       ELSE IF answer = Done THEN stream' = "closed" /\ Tell("done")
                             ELSE stream' = "errored" /\ Tell("error")
    /\ UNCHANGED <<sourceVars, toSource, toReader, answer, queue, got, stopped>>

-----------------------------------------------------------------------------
(* The reader of the new stream.                                           *)

Read ==
    /\ ~wanted /\ told = "none"
    /\ \/ queue # <<>> /\ got' = Head(queue) /\ queue' = Tail(queue)
          /\ UNCHANGED <<wanted, told>>
       \/ queue = <<>> /\ stream = "readable" /\ wanted' = TRUE
          /\ UNCHANGED <<got, queue, told>>
       \/ stream = "closed" /\ told' = "done" /\ UNCHANGED <<got, queue, wanted>>
       \/ stream = "errored" /\ told' = "error" /\ UNCHANGED <<got, queue, wanted>>
    /\ UNCHANGED <<sourceVars, port2, toSource, toReader, pull, answer, stream, stopped>>

\* Variant: nothing is sent before the port is closed.
CancelQuietly ==
    /\ stream = "readable" /\ stream' = "closed" /\ queue' = <<>>
    /\ stopped' = TRUE /\ Tell("done")
    /\ port2' = FALSE
    /\ UNCHANGED <<sourceVars, toSource, toReader, pull, answer, got>>

\* Cancelling drops what is queued, and tells the source.
Cancel ==
    /\ stream = "readable" /\ stream' = "closed" /\ queue' = <<>>
    /\ stopped' = TRUE /\ Tell("done")
    /\ toSource' = Append(toSource, "CANCEL") /\ port2' = FALSE
    /\ UNCHANGED <<sourceVars, toReader, pull, answer, got>>

Deliver == HandleRead \/ HandleCancel \/ NextPortMessage
Answer == GiveChunk \/ GiveEnd
GoOn == Pull \/ Enqueue \/ Finish

Next == Deliver \/ Answer \/ GoOn \/ Read \/ Cancel

Spec == Init /\ [][Next]_vars

(* Messages arrive, the source answers, and callbacks run; nobody has to   *)
(* read or to cancel.                                                      *)
Fairness ==
    /\ WF_vars(HandleRead) /\ WF_vars(HandleCancel) /\ WF_vars(NextPortMessage)
    /\ WF_vars(Answer)
    /\ WF_vars(Pull) /\ WF_vars(Enqueue) /\ WF_vars(Finish)

FairSpec == Spec /\ Fairness

-----------------------------------------------------------------------------
\* Every variable keeps its type, and its limit: the source is asked for one
\* chunk at a time, and one is kept ahead of the reader.
TypeOK ==
    /\ source \in {"open", "done", "failed", "cancelled"}
    /\ given \in Nat /\ reading \in 0 .. 1 /\ got \in Nat
    /\ port1 \in BOOLEAN /\ port2 \in BOOLEAN
    /\ toSource \in {<<>>, <<"READ">>, <<"CANCEL">>, <<"READ", "CANCEL">>}
    /\ toReader \in Seq(Message) /\ Len(toReader) <= 1
    /\ pull \in {"no", "waiting", "answered"} /\ answer \in Message
    /\ stream \in {"readable", "closed", "errored"}
    /\ queue \in Seq(Nat) /\ Len(queue) <= 1
    /\ wanted \in BOOLEAN /\ stopped \in BOOLEAN
    /\ told \in {"none", "done", "error"}

Abstract == INSTANCE ChunkStream WITH taken <- got

\* The reader gets the source's chunks once and in order, one at a time, and is
\* told its end after the last of them (ChunkStream).
ImplementsStream == Abstract!Init /\ [][Abstract!Next]_(Abstract!vars)

\* A read is answered, whatever becomes of the source.
ReadsAreAnswered == wanted ~> ~wanted

\* A stream that has ended leaves nothing open, on either side: a cancelled
\* one reaches its source, also while a chunk is under way.
EndsReleaseAll ==
    stream # "readable" ~> ~port1 /\ ~port2 /\ source # "open" /\ reading = 0
=============================================================================
