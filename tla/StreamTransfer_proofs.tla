----------------------- MODULE StreamTransfer_proofs -----------------------
(***************************************************************************)
(* The transferred stream implements ChunkStream, for any number of chunks.*)
(***************************************************************************)
EXTENDS StreamTransfer, SequenceTheorems, TLAPS

\* What a message under way says of the source.
Carries(m) ==
    \/ m = Chunk(given) /\ given = got + 1 /\ source = "open" /\ port1
    \/ m = Done /\ given = got /\ source = "done"
    \/ m = Error /\ given = got /\ source = "failed"

\* A chunk was asked for, or nothing that was not answered.
Asking ==
    \/ toSource = <<"READ">> /\ reading = 0
    \/ toSource = <<>> /\ reading = 1
Quiet == toSource = <<>> /\ reading = 0

\* While the stream is readable, either its queue has what the source gave last,
\* or exactly one request, or its answer, is under way.
Readable ==
    /\ port2 /\ told = "none" /\ ~stopped
    /\ pull = "no" => /\ Quiet /\ toReader = <<>> /\ source = "open" /\ port1
                      /\ \/ queue = <<>> /\ given = got
                         \/ queue = <<given>> /\ given = got + 1 /\ ~wanted
    /\ pull = "waiting" =>
         /\ queue = <<>>
         /\ \/ Asking /\ toReader = <<>> /\ given = got /\ source = "open" /\ port1
            \/ Quiet /\ Len(toReader) = 1 /\ Carries(Head(toReader))
    /\ pull = "answered" => queue = <<>> /\ Quiet /\ toReader = <<>> /\ Carries(answer)

\* After its end nothing reaches the reader.  A cancelled source may still give
\* the chunk it was asked for.
Ended ==
    /\ queue = <<>> /\ ~wanted
    /\ \/ ~stopped /\ Quiet /\ given = got /\ stream = "closed" /\ source = "done"
       \/ ~stopped /\ Quiet /\ given = got /\ stream = "errored" /\ source = "failed"
       \/ /\ stopped /\ stream = "closed" /\ ~port2
          /\ \/ /\ toSource \in {<<>>, <<"CANCEL">>}
                /\ reading = 1 => given = got /\ toReader = <<>>
             \/ /\ toSource = <<"READ", "CANCEL">> /\ reading = 0
                /\ given = got /\ toReader = <<>>

StreamInv == TypeOK /\ (IF stream = "readable" THEN Readable ELSE Ended)

\* What is sent over an empty channel, and taken from one with one message.
LEMMA OneMessage ==
    ASSUME NEW S, NEW x \in S
    PROVE  /\ Append(<<>>, x) = <<x>> /\ <<x>> \in Seq(S) /\ Len(<<x>>) = 1
           /\ Head(<<x>>) = x /\ Tail(<<x>>) = <<>>
OBVIOUS

\* A channel of at most one message is empty without it.
LEMMA LastMessage ==
    ASSUME NEW S, NEW s \in Seq(S), s # <<>>, Len(s) <= 1
    PROVE  s = <<Head(s)>> /\ Head(s) \in S /\ Tail(s) = <<>> /\ Len(s) = 1
<1>1. Len(s) = 1
  <2>1. Len(s) \in Nat \ {0}
    BY EmptySeq
  <2> QED
    BY <2>1
<1>2. /\ Head(s) \in S /\ Tail(s) \in Seq(S) /\ Len(Tail(s)) = 0
  BY <1>1, HeadTailProperties
<1>3. Tail(s) = <<>>
  BY <1>2, EmptySeq
<1>4. s = <<Head(s)>>
  <2>1. <<Head(s)>> \in Seq(S) /\ Len(<<Head(s)>>) = 1
    BY <1>2, OneMessage
  <2>2. \A i \in 1 .. Len(s) : s[i] = <<Head(s)>>[i]
    BY <1>1, Head(s) = s[1]
  <2> QED
    BY <1>1, <2>1, <2>2, SeqEqual
<1> QED
  BY <1>1, <1>2, <1>3, <1>4

\* What is sent behind one message.
LEMMA TwoMessages ==
    ASSUME NEW S, NEW x \in S, NEW y \in S
    PROVE  /\ Append(<<x>>, y) = <<x, y>>
           /\ Head(<<x, y>>) = x /\ Tail(<<x, y>>) = <<y>>
<1>1. <<x>> \in Seq(S) /\ Len(<<x>>) = 1
  OBVIOUS
<1>2. <<x, y>> \in Seq(S) /\ Len(<<x, y>>) = 2
  OBVIOUS
<1>3. /\ Append(<<x>>, y) \in Seq(S) /\ Len(Append(<<x>>, y)) = 2
      /\ Append(<<x>>, y)[1] = x /\ Append(<<x>>, y)[2] = y
  BY <1>1, AppendProperties
<1>4. \A i \in 1 .. 2 : Append(<<x>>, y)[i] = <<x, y>>[i]
  BY <1>3
<1>5. Append(<<x>>, y) = <<x, y>>
  BY <1>2, <1>3, <1>4, SeqEqual
<1>6. Head(<<x, y>>) = x /\ Tail(<<x, y>>) = <<y>>
  OBVIOUS
<1> QED
  BY <1>5, <1>6

\* The two requests, sent and taken.
LEMMA Requests ==
    /\ Append(<<>>, "READ") = <<"READ">> /\ Append(<<>>, "CANCEL") = <<"CANCEL">>
    /\ Append(<<"READ">>, "CANCEL") = <<"READ", "CANCEL">>
    /\ Head(<<"READ">>) = "READ" /\ Tail(<<"READ">>) = <<>>
    /\ Head(<<"CANCEL">>) = "CANCEL" /\ Tail(<<"CANCEL">>) = <<>>
    /\ Head(<<"READ", "CANCEL">>) = "READ"
    /\ Tail(<<"READ", "CANCEL">>) = <<"CANCEL">>
<1> DEFINE Request == {"READ", "CANCEL"}
<1>1. "READ" \in Request /\ "CANCEL" \in Request
  OBVIOUS
<1> HIDE DEF Request
<1> QED
  BY <1>1, OneMessage, TwoMessages

\* The answers are told apart.
LEMMA Messages ==
    /\ Done \in Message /\ Error \in Message /\ Done # Error
    /\ Done.type # "CHUNK" /\ Error.type # "CHUNK"
    /\ \A n \in Nat : /\ Chunk(n) \in Message /\ Chunk(n) # Done /\ Chunk(n) # Error
                       /\ Chunk(n).type = "CHUNK" /\ Chunk(n).chunk = n
BY DEF Done, Error, Chunk, Message

\* What the source may be asked is told apart by its first message.
LEMMA Asked ==
    ASSUME TypeOK
    PROVE  /\ toSource # <<>> /\ Head(toSource) = "READ" =>
                \/ toSource = <<"READ">> /\ Tail(toSource) = <<>>
                \/ toSource = <<"READ", "CANCEL">> /\ Tail(toSource) = <<"CANCEL">>
           /\ toSource # <<>> /\ Head(toSource) = "CANCEL" =>
                toSource = <<"CANCEL">> /\ Tail(toSource) = <<>>
<1>1. toSource \in {<<>>, <<"READ">>, <<"CANCEL">>, <<"READ", "CANCEL">>}
  BY DEF TypeOK
<1> QED
  BY <1>1, Requests

\* What the source may be asked is pairwise different.
LEMMA Distinct ==
    /\ <<"READ">> # <<>> /\ <<"CANCEL">> # <<>> /\ <<"READ", "CANCEL">> # <<>>
    /\ <<"READ">> # <<"CANCEL">> /\ <<"READ">> # <<"READ", "CANCEL">>
    /\ <<"CANCEL">> # <<"READ", "CANCEL">>
OBVIOUS

\* One lemma per action: it keeps the invariant.
LEMMA InvInit == Init => StreamInv
<1> SUFFICES ASSUME Init PROVE StreamInv
  OBVIOUS
<1>1. <<>> \in Seq(Message) /\ <<>> \in Seq(Nat) /\ Len(<<>>) = 0
  BY EmptySeq
<1>2. TypeOK
  <2>1. toSource \in {<<>>, <<"READ">>, <<"CANCEL">>, <<"READ", "CANCEL">>}
    BY DEF Init
  <2>2. given \in Nat /\ reading \in 0 .. 1 /\ got \in Nat
    BY DEF Init
  <2>3. toReader \in Seq(Message) /\ Len(toReader) <= 1
    BY <1>1 DEF Init
  <2>4. queue \in Seq(Nat) /\ Len(queue) <= 1
    BY <1>1 DEF Init
  <2> QED
    BY <2>1, <2>2, <2>3, <2>4, Messages DEF Init, TypeOK
<1>3. Readable
  BY DEF Init, Readable, Quiet
<1> QED
  BY <1>2, <1>3 DEF StreamInv, Init

LEMMA HandleReadInv == StreamInv /\ HandleRead => StreamInv'
<1> SUFFICES ASSUME StreamInv, HandleRead PROVE StreamInv'
  OBVIOUS
<1> USE DEF HandleRead, Receive, sourceVars, streamVars, readerVars
<1>1. TypeOK
  BY DEF StreamInv
<1>2. \/ toSource = <<"READ">> /\ toSource' = <<>>
      \/ toSource = <<"READ", "CANCEL">> /\ toSource' = <<"CANCEL">>
  BY <1>1, Asked
<1>3. reading = 0
  BY <1>1, <1>2, Distinct DEF StreamInv, Readable, Ended, Asking, Quiet, TypeOK
<1>4. TypeOK'
  <2>1. /\ UNCHANGED <<source, given, port1, port2, toReader, pull, answer, stream>>
        /\ UNCHANGED <<queue, wanted, got, told, stopped>>
    OBVIOUS
  <2>2. reading' \in 0 .. 1
    BY <1>3
  <2>3. toSource' \in {<<>>, <<"READ">>, <<"CANCEL">>, <<"READ", "CANCEL">>}
    BY <1>2
  <2> HIDE DEF HandleRead, Receive
  <2> QED
    BY <1>1, <2>1, <2>2, <2>3 DEF TypeOK
<1>5. ASSUME stream = "readable" PROVE Readable'
  <2>1. Readable
    BY <1>5 DEF StreamInv
  <2>2. pull = "waiting" /\ toSource = <<"READ">>
    BY <1>1, <1>2, <2>1, Distinct DEF Readable, Asking, Quiet, TypeOK
  <2> QED
    BY <1>2, <1>3, <2>1, <2>2, Distinct DEF Readable, Asking, Quiet, Carries
<1>6. ASSUME stream # "readable" PROVE Ended'
  BY <1>2, <1>3, <1>6, Distinct DEF StreamInv, Ended, Quiet
<1> QED
  BY <1>4, <1>5, <1>6 DEF StreamInv

LEMMA HandleCancelInv == StreamInv /\ HandleCancel => StreamInv'
<1> SUFFICES ASSUME StreamInv, HandleCancel PROVE StreamInv'
  OBVIOUS
<1> USE DEF HandleCancel, Receive, streamVars, readerVars
<1>1. TypeOK
  BY DEF StreamInv
<1>2. toSource = <<"CANCEL">> /\ toSource' = <<>>
  BY <1>1, Asked
<1>3. stream # "readable"
  BY <1>1, <1>2, Distinct DEF StreamInv, Readable, Asking, Quiet, TypeOK
<1>4. TypeOK'
  <2>1. /\ UNCHANGED <<given, reading, port2, toReader, pull, answer, stream>>
        /\ UNCHANGED <<queue, wanted, got, told, stopped>>
    OBVIOUS
  <2>2. source' \in {"open", "done", "failed", "cancelled"} /\ port1' \in BOOLEAN
    BY <1>1 DEF TypeOK
  <2> HIDE DEF HandleCancel, Receive
  <2> QED
    BY <1>1, <1>2, <2>1, <2>2 DEF TypeOK
<1>5. Ended'
  BY <1>2, <1>3, Distinct DEF StreamInv, Ended, Quiet
<1> QED
  BY <1>3, <1>4, <1>5 DEF StreamInv

LEMMA NextPortMessageInv == StreamInv /\ NextPortMessage => StreamInv'
<1> SUFFICES ASSUME StreamInv, NextPortMessage PROVE StreamInv'
  OBVIOUS
<1> USE DEF NextPortMessage, sourceVars, readerVars
<1>1. TypeOK
  BY DEF StreamInv
<1>2. toReader \in Seq(Message) /\ Len(toReader) <= 1 /\ toReader # <<>>
  BY <1>1 DEF TypeOK
<1>3. Head(toReader) \in Message /\ toReader' = <<>> /\ Len(toReader) = 1
  BY <1>2, LastMessage
<1>4. <<>> \in Seq(Message) /\ Len(<<>>) = 0
  BY EmptySeq
<1>5. TypeOK'
  <2>1. /\ UNCHANGED <<source, given, reading, port1, port2, toSource, stream, queue>>
        /\ UNCHANGED <<wanted, got, told, stopped>>
    OBVIOUS
  <2>2. answer' = answer \/ answer' = Head(toReader)
    OBVIOUS
  <2>3. pull' = pull \/ pull' = "answered"
    OBVIOUS
  <2> HIDE DEF NextPortMessage
  <2>4. toReader' \in Seq(Message) /\ Len(toReader') <= 1
    BY <1>3, <1>4
  <2>5. answer' \in Message /\ pull' \in {"no", "waiting", "answered"}
    BY <1>1, <1>3, <2>2, <2>3 DEF TypeOK
  <2> QED
    BY <1>1, <2>1, <2>4, <2>5 DEF TypeOK
<1>6. ASSUME stream = "readable" PROVE Readable'
  <2>1. Readable
    BY <1>6 DEF StreamInv
  <2>2. pull = "waiting"
    BY <1>1, <2>1 DEF Readable, TypeOK
  <2>3. queue = <<>> /\ Quiet /\ Carries(Head(toReader))
    BY <2>1, <2>2 DEF Readable
  <2> QED
    BY <1>3, <2>1, <2>2, <2>3 DEF Readable, Quiet, Carries
<1>7. ASSUME stream # "readable" PROVE Ended'
  BY <1>3, <1>7 DEF StreamInv, Ended, Quiet
<1> QED
  BY <1>5, <1>6, <1>7 DEF StreamInv

\* The source gives while it is asked, and then nothing is under way.
LEMMA Giving ==
    ASSUME StreamInv, reading > 0
    PROVE  /\ reading = 1 /\ toReader = <<>> /\ given = got
           /\ stream = "readable" => /\ pull = "waiting" /\ queue = <<>> /\ toSource = <<>>
                                     /\ source = "open" /\ port1
           /\ stream # "readable" => stopped /\ toSource \in {<<>>, <<"CANCEL">>}
<1>1. TypeOK /\ reading = 1
  BY DEF StreamInv, TypeOK
<1>2. CASE stream = "readable"
  <2>1. Readable /\ ~Quiet
    BY <1>1, <1>2 DEF StreamInv, Quiet
  <2>2. pull = "waiting"
    BY <1>1, <2>1 DEF Readable, TypeOK
  <2> QED
    BY <1>1, <1>2, <2>1, <2>2 DEF Readable, Asking
<1>3. CASE stream # "readable"
  BY <1>1, <1>3 DEF StreamInv, Ended, Quiet
<1> QED
  BY <1>1, <1>2, <1>3

LEMMA GiveChunkInv == StreamInv /\ GiveChunk => StreamInv'
<1> SUFFICES ASSUME StreamInv, GiveChunk PROVE StreamInv'
  OBVIOUS
<1> USE DEF GiveChunk, streamVars, readerVars
<1>1. TypeOK /\ given' \in Nat /\ given' = given + 1 /\ reading' = 0
  BY Giving DEF StreamInv, TypeOK
<1>2. /\ Chunk(given') \in Message
      /\ toReader' = IF port1 THEN <<Chunk(given')>> ELSE <<>>
  BY <1>1, Giving, Messages, OneMessage DEF Post
<1>3. /\ <<Chunk(given')>> \in Seq(Message) /\ Len(<<Chunk(given')>>) = 1
      /\ Head(<<Chunk(given')>>) = Chunk(given')
      /\ <<>> \in Seq(Message) /\ Len(<<>>) = 0
  BY <1>2, OneMessage, EmptySeq
<1>4. TypeOK'
  <2>1. /\ UNCHANGED <<source, port1, port2, toSource, pull, answer, stream, queue>>
        /\ UNCHANGED <<wanted, got, told, stopped>>
    OBVIOUS
  <2>2. toReader' \in Seq(Message) /\ Len(toReader') <= 1
    BY <1>2, <1>3
  <2> HIDE DEF GiveChunk
  <2> QED
    BY <1>1, <2>1, <2>2 DEF TypeOK
<1>5. ASSUME stream = "readable" PROVE Readable'
  <2>1. Readable /\ port1 /\ pull = "waiting" /\ queue = <<>>
    BY <1>5, Giving DEF StreamInv
  <2>2. Quiet' /\ Len(toReader') = 1
    BY <1>1, <1>2, <1>3, <1>5, <2>1, Giving DEF Quiet
  <2>3. Carries(Head(toReader))'
    BY <1>1, <1>2, <1>3, <1>5, <2>1, Giving DEF Carries
  <2> QED
    BY <2>1, <2>2, <2>3 DEF Readable
<1>6. ASSUME stream # "readable" PROVE Ended'
  BY <1>1, <1>6, Giving DEF StreamInv, Ended, Quiet
<1> QED
  BY <1>4, <1>5, <1>6 DEF StreamInv

LEMMA GiveEndInv == StreamInv /\ GiveEnd => StreamInv'
<1> SUFFICES ASSUME StreamInv, GiveEnd PROVE StreamInv'
  OBVIOUS
<1>1. /\ TypeOK /\ reading = 1 /\ reading' = 0 /\ port1' = FALSE /\ toReader = <<>>
      /\ UNCHANGED <<given, port2, toSource, pull, answer, stream, queue>>
      /\ UNCHANGED <<wanted, got, told, stopped>>
  BY Giving DEF StreamInv, GiveEnd, streamVars, readerVars
<1>2. PICK last \in {Done, Error} :
        /\ Post(last)
        /\ source' = "done" => last = Done
        /\ source' = "failed" => last = Error
        /\ source = "open" => source' \in {"done", "failed"}
        /\ source' \in {"done", "failed", "cancelled"}
  BY DEF GiveEnd
<1>3. last \in Message /\ toReader' = IF port1 THEN <<last>> ELSE <<>>
  <2>1. last \in Message
    BY <1>2, Messages
  <2>2. Append(<<>>, last) = <<last>>
    BY <2>1, OneMessage
  <2>3. toReader' = IF port1 THEN Append(<<>>, last) ELSE <<>>
    BY <1>1, <1>2, Zenon DEF Post
  <2> QED
    BY <2>1, <2>2, <2>3
<1>4. /\ <<last>> \in Seq(Message) /\ Len(<<last>>) = 1 /\ Head(<<last>>) = last
      /\ <<>> \in Seq(Message) /\ Len(<<>>) = 0
  BY <1>3, OneMessage, EmptySeq
<1>5. TypeOK'
  <2>1. toReader' \in Seq(Message) /\ Len(toReader') <= 1
    BY <1>3, <1>4
  <2>2. source' \in {"open", "done", "failed", "cancelled"} /\ reading' \in 0 .. 1
    BY <1>1, <1>2
  <2> QED
    BY <1>1, <2>1, <2>2 DEF TypeOK
<1>6. ASSUME stream = "readable" PROVE Readable'
  <2>1. /\ Readable /\ port1 /\ pull = "waiting" /\ queue = <<>>
        /\ source = "open" /\ toSource = <<>> /\ given = got
    BY <1>1, <1>6, Giving DEF StreamInv
  <2>2. Quiet' /\ Len(toReader') = 1
    BY <1>1, <1>3, <1>4, <2>1 DEF Quiet
  <2>3. Carries(Head(toReader))'
    BY <1>1, <1>2, <1>3, <1>4, <2>1 DEF Carries
  <2> QED
    BY <1>1, <2>1, <2>2, <2>3 DEF Readable
<1>7. ASSUME stream # "readable" PROVE Ended'
  BY <1>1, <1>7, Giving DEF StreamInv, Ended, Quiet
<1> QED
  BY <1>1, <1>5, <1>6, <1>7 DEF StreamInv

LEMMA PullInv == StreamInv /\ Pull => StreamInv'
<1> SUFFICES ASSUME StreamInv, Pull PROVE StreamInv'
  OBVIOUS
<1> USE DEF Pull, sourceVars, readerVars
<1>1. TypeOK /\ Readable
  BY DEF StreamInv
<1>2. /\ Quiet /\ toReader = <<>> /\ source = "open" /\ port1
      /\ given = got
  <2>1. <<given>> # <<>>
    OBVIOUS
  <2> QED
    BY <1>1, <2>1 DEF Readable
<1>3. toSource' = <<"READ">>
  BY <1>2, Requests DEF Quiet
<1>4. TypeOK'
  <2>1. /\ UNCHANGED <<source, given, reading, port1, port2, toReader, answer, stream>>
        /\ UNCHANGED <<queue, wanted, got, told, stopped>> /\ pull' = "waiting"
    OBVIOUS
  <2> HIDE DEF Pull
  <2> QED
    BY <1>1, <1>3, <2>1 DEF TypeOK
<1>5. Readable'
  BY <1>1, <1>2, <1>3 DEF Readable, Quiet, Asking
<1> QED
  BY <1>4, <1>5 DEF StreamInv

\* An answer carries the chunk that the reader lacks.
LEMMA Answered ==
    ASSUME StreamInv, pull = "answered", stream = "readable"
    PROVE  /\ queue = <<>> /\ Quiet /\ toReader = <<>> /\ port2 /\ told = "none" /\ ~stopped
           /\ answer.type = "CHUNK" =>
                /\ answer.chunk = given /\ given = got + 1
                /\ source = "open" /\ port1
           /\ answer.type # "CHUNK" =>
                /\ given = got
                /\ answer = Done => source = "done"
                /\ answer # Done => source = "failed"
<1>1. TypeOK /\ Readable /\ Carries(answer)
  BY DEF StreamInv, Readable
<1>2. given \in Nat
  BY <1>1 DEF TypeOK
<1> QED
  BY <1>1, <1>2, Messages DEF Readable, Carries

LEMMA EnqueueInv == StreamInv /\ Enqueue => StreamInv'
<1> SUFFICES ASSUME StreamInv, Enqueue PROVE StreamInv'
  OBVIOUS
<1> USE DEF Enqueue, sourceVars
<1>1. TypeOK
  BY DEF StreamInv
<1>2. CASE stream = "readable" /\ wanted
  <2>1. TypeOK'
    <3>1. /\ UNCHANGED <<source, given, reading, port1, port2, toSource, toReader>>
          /\ UNCHANGED <<answer, stream, queue, told, stopped>>
          /\ pull' = "no" /\ wanted' = FALSE
      BY <1>2
    <3>2. got' \in Nat
      BY <1>1, <1>2, Answered DEF TypeOK
    <3> HIDE DEF Enqueue
    <3> QED
      BY <1>1, <3>1, <3>2 DEF TypeOK
  <2>2. Readable'
    BY <1>1, <1>2, Answered DEF StreamInv, Readable, Quiet, TypeOK
  <2> QED
    BY <1>2, <2>1, <2>2 DEF StreamInv
<1>3. CASE stream = "readable" /\ ~wanted
  <2>1. queue' = <<given>>
    BY <1>1, <1>3, Answered, OneMessage DEF TypeOK
  <2>2. <<given>> \in Seq(Nat) /\ Len(<<given>>) = 1
    BY <1>1, OneMessage DEF TypeOK
  <2>3. TypeOK'
    <3>1. /\ UNCHANGED <<source, given, reading, port1, port2, toSource, toReader>>
          /\ UNCHANGED <<answer, stream, wanted, got, told, stopped>> /\ pull' = "no"
      BY <1>3
    <3>2. queue' \in Seq(Nat) /\ Len(queue') <= 1
      BY <2>1, <2>2
    <3> HIDE DEF Enqueue
    <3> QED
      BY <1>1, <3>1, <3>2 DEF TypeOK
  <2>4. Readable'
    <3>1. /\ pull' = "no" /\ ~wanted' /\ answer.type = "CHUNK"
          /\ UNCHANGED <<port2, told, stopped, toSource, reading, toReader>>
          /\ UNCHANGED <<source, given, port1, got>>
      BY <1>3
    <3>2. /\ Quiet /\ toReader = <<>> /\ source = "open" /\ port1 /\ given = got + 1
          /\ port2 /\ told = "none" /\ ~stopped
      BY <1>3, <3>1, Answered
    <3> QED
      BY <2>1, <3>1, <3>2 DEF Readable, Quiet
  <2> QED
    BY <1>3, <2>3, <2>4 DEF StreamInv
<1>4. CASE stream # "readable"
  <2>1. TypeOK'
    <3>1. /\ UNCHANGED <<source, given, reading, port1, toSource, toReader>>
          /\ UNCHANGED <<answer, stream, queue, wanted, got, told, stopped>>
          /\ pull' = "no" /\ port2' = FALSE
      BY <1>4
    <3> HIDE DEF Enqueue
    <3> QED
      BY <1>1, <3>1 DEF TypeOK
  <2>2. Ended'
    BY <1>4 DEF StreamInv, Ended, Quiet
  <2> QED
    BY <1>4, <2>1, <2>2 DEF StreamInv
<1> QED
  BY <1>2, <1>3, <1>4

LEMMA FinishInv == StreamInv /\ Finish => StreamInv'
<1> SUFFICES ASSUME StreamInv, Finish PROVE StreamInv'
  OBVIOUS
<1> USE DEF Finish, Tell, sourceVars
<1>1. TypeOK
  BY DEF StreamInv
<1>2. TypeOK'
  <2>1. /\ UNCHANGED <<source, given, reading, port1, toSource, toReader, answer, queue>>
        /\ UNCHANGED <<got, stopped>> /\ pull' = "no" /\ port2' = FALSE
    OBVIOUS
  <2>2. stream' \in {"readable", "closed", "errored"} /\ wanted' \in BOOLEAN
    BY <1>1 DEF TypeOK
  <2>3. told' \in {"none", "done", "error"}
    BY <1>1 DEF TypeOK
  <2> HIDE DEF Finish, Tell
  <2> QED
    BY <1>1, <2>1, <2>2, <2>3 DEF TypeOK
<1>3. stream' # "readable"
  OBVIOUS
<1>4. CASE stream = "readable"
  <2>1. Ended'
    BY <1>1, <1>4, Answered DEF Ended, Quiet
  <2> QED
    BY <1>2, <1>3, <2>1 DEF StreamInv
<1>5. CASE stream # "readable"
  <2>1. Ended'
    BY <1>5 DEF StreamInv, Ended, Quiet
  <2> QED
    BY <1>2, <1>3, <2>1 DEF StreamInv
<1> QED
  BY <1>4, <1>5

LEMMA ReadInv == StreamInv /\ Read => StreamInv'
<1> SUFFICES ASSUME StreamInv, Read PROVE StreamInv'
  OBVIOUS
<1>1. /\ TypeOK
      /\ UNCHANGED <<source, given, reading, port1, port2, toSource, toReader>>
      /\ UNCHANGED <<pull, answer, stream, stopped>>
  BY DEF Read, StreamInv, sourceVars
<1>2. CASE queue # <<>>
  <2>1. /\ Readable /\ stream = "readable" /\ pull = "no"
        /\ queue = <<given>> /\ given = got + 1 /\ ~wanted
    BY <1>1, <1>2 DEF StreamInv, Readable, Ended, TypeOK
  <2>2. Head(<<given>>) = given /\ Tail(<<given>>) = <<>>
    BY <1>1, OneMessage DEF TypeOK
  <2>3. got' = given /\ queue' = <<>> /\ UNCHANGED <<wanted, told>>
    <3>1. queue # <<>> /\ stream = "readable"
      BY <1>2, <2>1
    <3>2. got' = Head(queue) /\ queue' = Tail(queue) /\ UNCHANGED <<wanted, told>>
      BY <3>1, Zenon DEF Read
    <3> QED
      BY <2>1, <2>2, <3>2
  <2>4. TypeOK'
    <3>1. queue' \in Seq(Nat) /\ Len(queue') <= 1
      BY <2>3, EmptySeq
    <3>2. got' \in Nat
      BY <1>1, <2>3 DEF TypeOK
    <3> QED
      BY <1>1, <2>3, <3>1, <3>2 DEF TypeOK
  <2>5. Readable'
    BY <1>1, <2>1, <2>3 DEF Readable, Quiet
  <2> QED
    BY <1>1, <2>1, <2>4, <2>5 DEF StreamInv
<1>3. CASE queue = <<>>
  <2>1. UNCHANGED <<queue, got>> /\ wanted' \in BOOLEAN /\ told' \in {"none", "done", "error"}
    BY <1>1, <1>3 DEF Read, TypeOK
  <2>2. TypeOK'
    BY <1>1, <2>1 DEF TypeOK
  <2>3. ASSUME stream = "readable" PROVE Readable'
    <3>1. Readable /\ told' = told
      BY <1>3, <2>3 DEF StreamInv, Read
    <3>2. <<given>> # <<>>
      OBVIOUS
    <3> QED
      BY <1>1, <1>3, <2>1, <3>1, <3>2 DEF Readable, Quiet, Asking, Carries
  <2>4. ASSUME stream # "readable" PROVE Ended'
    <3>1. Ended /\ wanted' = wanted
      BY <1>3, <2>4 DEF StreamInv, Read
    <3> QED
      BY <1>1, <2>1, <3>1 DEF Ended, Quiet
  <2> QED
    BY <1>1, <2>2, <2>3, <2>4 DEF StreamInv
<1> QED
  BY <1>2, <1>3

LEMMA CancelInv == StreamInv /\ Cancel => StreamInv'
<1> SUFFICES ASSUME StreamInv, Cancel PROVE StreamInv'
  OBVIOUS
<1>1. /\ TypeOK /\ Readable /\ stream' = "closed" /\ queue' = <<>> /\ stopped' /\ ~wanted'
      /\ port2' = FALSE /\ toSource' = Append(toSource, "CANCEL")
      /\ UNCHANGED <<source, given, reading, port1, toReader, pull, answer, got>>
      /\ stopped' = TRUE /\ wanted' = FALSE /\ told' \in {"none", "done", "error"}
  BY DEF Cancel, StreamInv, sourceVars, Tell, TypeOK
<1>2. \/ toSource = <<>> /\ toSource' = <<"CANCEL">>
         /\ (reading = 1 => given = got /\ toReader = <<>>)
      \/ toSource = <<"READ">> /\ toSource' = <<"READ", "CANCEL">>
         /\ reading = 0 /\ given = got /\ toReader = <<>>
  <2>1. \/ toSource = <<>> /\ (reading = 1 => given = got /\ toReader = <<>>)
        \/ toSource = <<"READ">> /\ reading = 0 /\ given = got /\ toReader = <<>>
    BY <1>1 DEF Readable, Quiet, Asking, TypeOK
  <2> QED
    BY <1>1, <2>1, Requests
<1>3. TypeOK'
  <2>1. queue' \in Seq(Nat) /\ Len(queue') <= 1
    BY <1>1, EmptySeq
  <2>2. toSource' \in {<<>>, <<"READ">>, <<"CANCEL">>, <<"READ", "CANCEL">>}
    BY <1>2
  <2> QED
    BY <1>1, <2>1, <2>2 DEF TypeOK
<1>4. Ended'
  BY <1>1, <1>2 DEF Ended
<1> QED
  BY <1>1, <1>3, <1>4 DEF StreamInv

\* Every step keeps the invariant.
LEMMA StreamInvStep == StreamInv /\ [Next]_vars => StreamInv'
<1> SUFFICES ASSUME StreamInv, [Next]_vars PROVE StreamInv'
  OBVIOUS
<1>1. CASE Deliver
  BY <1>1, HandleReadInv, HandleCancelInv, NextPortMessageInv DEF Deliver
<1>2. CASE Answer
  BY <1>2, GiveChunkInv, GiveEndInv DEF Answer
<1>3. CASE GoOn
  BY <1>3, PullInv, EnqueueInv, FinishInv DEF GoOn
<1>4. CASE Read
  BY <1>4, ReadInv
<1>5. CASE Cancel
  BY <1>5, CancelInv
<1>6. CASE UNCHANGED vars
  BY <1>6 DEF vars, sourceVars, streamVars, readerVars, StreamInv, TypeOK, Readable,
              Ended, Quiet, Asking, Carries
<1> QED
  BY <1>1, <1>2, <1>3, <1>4, <1>5, <1>6 DEF Next

\* The inductive invariant: at most one request, or the answer to it, is under
\* way, and what each end of the channel may know of the other.
THEOREM Invariance == Spec => []StreamInv
  BY InvInit, StreamInvStep, PTL DEF Spec

\* Types and limits, for a source of any length: one chunk is asked for at a time
\* (READ, streamHandler.ts:104), and one is kept ahead.
THEOREM TypeCorrect == Spec => []TypeOK
<1>1. StreamInv => TypeOK
  BY DEF StreamInv
<1> QED
  BY <1>1, Invariance, PTL

-----------------------------------------------------------------------------
\* Refinement: the steps that a reader or the source notices are steps of
\* ChunkStream, all others are stutters.
USE DEF Abstract!vars

\* Both start with nothing given.
LEMMA RefinesInit == Init => Abstract!Init
BY DEF Init, Abstract!Init

\* The source gives a chunk, or its end, in both.
LEMMA GiveRefines ==
    StreamInv /\ (GiveChunk \/ GiveEnd) => Abstract!Next \/ UNCHANGED Abstract!vars
<1> SUFFICES ASSUME StreamInv, GiveChunk \/ GiveEnd
             PROVE  Abstract!Next \/ UNCHANGED Abstract!vars
  OBVIOUS
<1>1. UNCHANGED <<got, told, stopped>> /\ given = got
  BY Giving DEF GiveChunk, GiveEnd, readerVars, StreamInv, TypeOK
<1>2. CASE GiveChunk
  <2>1. Abstract!Give
    BY <1>1, <1>2 DEF GiveChunk, Abstract!Give
  <2> QED
    BY <2>1 DEF Abstract!Next
<1>3. CASE GiveEnd
  <2>1. /\ UNCHANGED given
        /\ source' = source \/ (source = "open" /\ source' \in {"done", "failed"})
    BY <1>3 DEF GiveEnd
  <2>2. CASE source' = source
    BY <1>1, <2>1, <2>2
  <2>3. CASE source = "open" /\ source' \in {"done", "failed"}
    BY <1>1, <2>1, <2>3 DEF Abstract!End, Abstract!Next
  <2> QED
    BY <2>1, <2>2, <2>3
<1> QED
  BY <1>2, <1>3

\* A cancel reaches only a source whose reader has stopped.
LEMMA HandleCancelRefines ==
    StreamInv /\ HandleCancel => Abstract!Next \/ UNCHANGED Abstract!vars
<1> SUFFICES ASSUME StreamInv, HandleCancel
             PROVE  Abstract!Next \/ UNCHANGED Abstract!vars
  OBVIOUS
<1>1. toSource = <<"CANCEL">> /\ TypeOK
  BY Asked DEF StreamInv, HandleCancel, Receive
<1>2. stopped
  BY <1>1, Distinct DEF StreamInv, Readable, Ended, Asking, Quiet, TypeOK
<1>3. UNCHANGED <<given, got, told, stopped>>
  BY DEF HandleCancel, readerVars
<1>4. CASE source = "open"
  <2>1. source' = "cancelled"
    BY <1>4 DEF HandleCancel
  <2> QED
    BY <1>2, <1>3, <1>4, <2>1 DEF Abstract!End, Abstract!Next
<1>5. CASE source # "open"
  BY <1>3, <1>5 DEF HandleCancel
<1> QED
  BY <1>4, <1>5

\* A chunk that a read waits for is taken; one that is queued is not seen yet.
LEMMA EnqueueRefines ==
    StreamInv /\ Enqueue => Abstract!Next \/ UNCHANGED Abstract!vars
<1> SUFFICES ASSUME StreamInv, Enqueue
             PROVE  Abstract!Next \/ UNCHANGED Abstract!vars
  OBVIOUS
<1>1. UNCHANGED <<given, source, told, stopped>> /\ TypeOK
  BY DEF Enqueue, sourceVars, StreamInv
<1>2. CASE stream = "readable" /\ wanted
  <2>1. pull = "answered" /\ answer.type = "CHUNK" /\ got' = answer.chunk
    BY <1>2 DEF Enqueue
  <2>2. got' = got + 1 /\ got < given /\ told = "none" /\ ~stopped
    BY <1>1, <1>2, <2>1, Answered DEF TypeOK
  <2> QED
    BY <1>1, <2>2 DEF Abstract!Take, Abstract!Next
<1>3. CASE ~(stream = "readable" /\ wanted)
  BY <1>1, <1>3 DEF Enqueue
<1> QED
  BY <1>2, <1>3

\* The end is told after the last chunk, or not seen yet.
LEMMA FinishRefines ==
    StreamInv /\ Finish => Abstract!Next \/ UNCHANGED Abstract!vars
<1> SUFFICES ASSUME StreamInv, Finish
             PROVE  Abstract!Next \/ UNCHANGED Abstract!vars
  OBVIOUS
<1>1. /\ UNCHANGED <<given, source, got, stopped>>
      /\ pull = "answered" /\ answer.type # "CHUNK"
  BY DEF Finish, sourceVars
<1>2. CASE stream = "readable"
  <2>1. /\ given = got /\ told = "none"
        /\ answer = Done => source = "done"
        /\ answer # Done => source = "failed"
    BY <1>1, <1>2, Answered
  <2>2. \/ UNCHANGED told
        \/ told' = "done" /\ answer = Done
        \/ told' = "error" /\ answer # Done
    BY <1>2 DEF Finish, Tell
  <2> QED
    BY <1>1, <2>1, <2>2 DEF Abstract!Tell, Abstract!Next
<1>3. CASE stream # "readable"
  BY <1>1, <1>3 DEF Finish
<1> QED
  BY <1>2, <1>3

\* A read takes a chunk, is told the end, or is not seen to wait.
LEMMA ReadRefines ==
    StreamInv /\ Read => Abstract!Next \/ UNCHANGED Abstract!vars
<1> SUFFICES ASSUME StreamInv, Read
             PROVE  Abstract!Next \/ UNCHANGED Abstract!vars
  OBVIOUS
<1>1. TypeOK /\ UNCHANGED <<given, source, stopped>> /\ told = "none"
  BY DEF Read, sourceVars, StreamInv
<1>2. CASE queue # <<>>
  <2>1. /\ stream = "readable" /\ queue = <<given>> /\ given = got + 1 /\ ~stopped
    BY <1>1, <1>2 DEF StreamInv, Readable, Ended, TypeOK
  <2>2. Head(<<given>>) = given
    BY <1>1, OneMessage DEF TypeOK
  <2>3. got' = Head(queue) /\ told' = told
    BY <1>2, <2>1, Zenon DEF Read
  <2>4. got' = got + 1 /\ got < given
    BY <1>1, <2>1, <2>2, <2>3 DEF TypeOK
  <2> QED
    BY <1>1, <2>1, <2>3, <2>4 DEF Abstract!Take, Abstract!Next
<1>3. CASE queue = <<>>
  <2>1. UNCHANGED got
    BY <1>3 DEF Read
  <2>2. \/ UNCHANGED told
        \/ told' = "done" /\ stream = "closed"
        \/ told' = "error" /\ stream = "errored"
    BY <1>3 DEF Read
  <2>3. ASSUME stream = "closed" PROVE stopped \/ (source = "done" /\ given = got)
    BY <2>3 DEF StreamInv, Ended
  <2>4. ASSUME stream = "errored" PROVE source = "failed" /\ given = got
    BY <2>4 DEF StreamInv, Ended
  <2> QED
    BY <1>1, <2>1, <2>2, <2>3, <2>4 DEF Abstract!Tell, Abstract!Next
<1> QED
  BY <1>2, <1>3

\* A reader that cancels is told nothing but the end.
LEMMA CancelRefines ==
    StreamInv /\ Cancel => Abstract!Next \/ UNCHANGED Abstract!vars
<1> SUFFICES ASSUME StreamInv, Cancel
             PROVE  Abstract!Next \/ UNCHANGED Abstract!vars
  OBVIOUS
<1>1. told = "none"
  BY DEF StreamInv, Cancel, Readable
<1>2. /\ UNCHANGED <<given, got, source>> /\ stopped' = TRUE
      /\ told' \in {"none", "done"}
  BY <1>1 DEF Cancel, Tell, sourceVars
<1> QED
  BY <1>1, <1>2 DEF Abstract!Stop, Abstract!Next

\* Every step of the transfer is a step of ChunkStream, or one it does not see.
LEMMA StepRefines ==
    StreamInv /\ [Next]_vars => Abstract!Next \/ UNCHANGED Abstract!vars
<1> SUFFICES ASSUME StreamInv, [Next]_vars
             PROVE  Abstract!Next \/ UNCHANGED Abstract!vars
  OBVIOUS
<1>1. CASE Deliver
  BY <1>1, HandleCancelRefines DEF Deliver, HandleRead, NextPortMessage, readerVars, sourceVars
<1>2. CASE Answer
  BY <1>2, GiveRefines DEF Answer
<1>3. CASE Pull
  BY <1>3 DEF Pull, sourceVars, readerVars
<1>4. CASE Enqueue \/ Finish
  BY <1>4, EnqueueRefines, FinishRefines
<1>5. CASE Read
  BY <1>5, ReadRefines
<1>6. CASE Cancel
  BY <1>6, CancelRefines
<1>7. CASE UNCHANGED vars
  BY <1>7 DEF vars, sourceVars, readerVars
<1> QED
  BY <1>1, <1>2, <1>3, <1>4, <1>5, <1>6, <1>7 DEF Next, GoOn

\* Whatever the order of messages, answers, reads and cancellation, the reader
\* gets the source's chunks once and in order, and its end after the last of them.
THEOREM StreamIsChunkStream == Spec => ImplementsStream
<1>1. StreamInv /\ [Next]_vars => [Abstract!Next]_(Abstract!vars)
  BY StepRefines
<1> QED
  BY <1>1, RefinesInit, Invariance, PTL DEF Spec, ImplementsStream
=============================================================================
