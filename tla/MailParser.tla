----------------------------- MODULE MailParser -----------------------------
(***************************************************************************)
(* A message on its way through jsmimeparser: its text arrives in packets  *)
(* (deliverData), MimeParser of RawMimeParser turns them into the events   *)
(* of its parts, and the emitter of mailParser.js builds the mail that     *)
(* parseMail returns.                                                      *)
(*                                                                         *)
(* The messages are trees, written by Render with one style of newline.    *)
(***************************************************************************)
EXTENDS RawMimeParser

CONSTANTS
    Messages,     \* the trees
    NewLines,     \* the styles of newline they are written in: sequences of CR and LF
    AllOptions,   \* the options of the parser: [bodyformat, pruneat]
    PacketSizes   \* the packets hold this many tokens, or all that is left

VARIABLES
    message,      \* the message: [tree, newline, options]
    at,           \* how many tokens of its text have been delivered
    hold,         \* _holdData
    parser,       \* the MimeParser
    mail,         \* what the emitter has built
    ended         \* whether deliverEOF was called

vars == <<message, at, hold, parser, mail, ended>>

-----------------------------------------------------------------------------
(* The messages.  In the body, prologue and epilogue of a tree "NL" is a   *)
(* newline.                                                                *)

Leaf(headers, body) == [kind |-> "leaf", headers |-> headers, body |-> body]
Multi(headers, prologue, parts, closed, epilogue) ==
    [kind |-> "multi", headers |-> headers, prologue |-> prologue, parts |-> parts,
     closed |-> closed, epilogue |-> epilogue]
Enclosed(headers, inner) == [kind |-> "message", headers |-> headers, parts |-> <<inner>>]

Type(tree, dflt) == Get(tree.headers, "content-type", DefaultType(dflt))

RECURSIVE Render(_)
Render(tree) ==
    LET header == FlattenSeq([i \in DOMAIN tree.headers |-> <<tree.headers[i], "NL">>])
        boundary == Type(tree, "text/plain").boundary
        Part(i) == <<Delimiter(boundary), "NL">> \o Render(tree.parts[i])
                       \o (IF i < Len(tree.parts) \/ tree.closed THEN <<"NL">> ELSE <<>>)
        end == IF tree.closed THEN <<Terminator(boundary)>> \o tree.epilogue ELSE <<>>
    IN  header \o <<"NL">> \o
          CASE tree.kind = "leaf" -> tree.body
            [] tree.kind = "message" -> Render(tree.parts[1])
            [] OTHER -> tree.prologue
                          \o FlattenSeq([i \in DOMAIN tree.parts |-> Part(i)]) \o end

WithNewLines(s, newline) ==
    FlattenSeq([i \in DOMAIN s |-> IF s[i] = "NL" THEN newline ELSE <<s[i]>>])

text == WithNewLines(Render(message.tree), message.newline)

-----------------------------------------------------------------------------
(* The emitter (ExtractMimeMsgEmitter).  The parts are kept in the order   *)
(* they start in; path holds the indices of the open ones.                 *)

NoMail == [parts |-> <<>>, path |-> <<>>, attachments |-> <<>>, text |-> <<>>, html |-> <<>>]

IsAttachment(content) ==
    /\ ~Multipart(content.type.type)
    /\ \/ content.disposition # None /\ content.disposition.attachment
       \/ content.type.type \notin {"text/plain", "text/html"}

AttachmentName(content) ==
    IF content.disposition # None /\ content.disposition.filename # None
    THEN content.disposition.filename ELSE content.type.name

OnStartPart(m, call) ==
    [m EXCEPT !.parts = Append(@, [part |-> call.part, content |-> call.content,
                                   body |-> <<>>, text |-> <<>>, delivered |-> FALSE]),
              !.path = Append(@, Len(m.parts) + 1)]

\* The data goes to the part that started last and is still open, whatever its number.
OnDeliverPartData(m, call) ==
    LET current == Last(m.path)
    IN  [m EXCEPT !.parts[current].body = @ \o call.data, !.parts[current].text = @ \o call.text,
                  !.parts[current].delivered = TRUE]

\* The part that ends goes to the attachments, or its text to the bodies.
Collected(m, current) ==
    LET part == m.parts[current]
        attachment == IsAttachment(part.content)
    IN  CASE attachment -> [m EXCEPT !.attachments = Append(@, current)]
          [] ~attachment /\ part.delivered /\ part.content.type.type = "text/html" ->
               [m EXCEPT !.html = Append(@, part.text)]
          [] ~attachment /\ part.delivered /\ part.content.type.type = "text/plain" ->
               [m EXCEPT !.text = Append(@, part.text)]
          [] OTHER -> m

\* Variant: a part without data stays open.
OnEndPartWithData(m, call) ==
    IF m.parts[Last(m.path)].delivered
    THEN [Collected(m, Last(m.path)) EXCEPT !.path = Front(@)] ELSE Collected(m, Last(m.path))

OnEndPart(m, call) == [Collected(m, Last(m.path)) EXCEPT !.path = Front(@)]

\* _callEmitter, for each call that is not about an ignored part.
EmitAll(m, calls, options) ==
    LET Emit(call, before) ==
          CASE WillIgnorePart(options, call.part) -> before
            [] call.on = "start" /\ ~WillIgnorePart(options, call.part) -> OnStartPart(before, call)
            [] call.on = "data" /\ ~WillIgnorePart(options, call.part) ->
                 OnDeliverPartData(before, call)
            [] OTHER -> OnEndPart(before, call)
    IN  FoldLeft(LAMBDA before, call : Emit(call, before), m, calls)

-----------------------------------------------------------------------------
(* The deliveries.                                                         *)

\* A parser and the mail its calls make of one.
Emitted(result, m, options) ==
    [parser |-> result.parser, mail |-> EmitAll(m, result.calls, options)]

\* Lines for the parser, if there are any.
Dispatch(st, s, options) ==
    IF s = <<>> THEN st
    ELSE Emitted(DispatchData(Result(st.parser, <<>>), <<>>, s, options), st.mail, options)

Ended(st, options) ==
    Emitted(DispatchEOF(Result(st.parser, <<>>), <<>>, options), st.mail, options).mail

\* What deliverEOF makes of a parser, a mail and the text held back.
Finish(st, held, options) == Ended(Dispatch(st, held, options), options)

TypeOfMain == "text/plain"
Fresh == [parser |-> NewParser(TypeOfMain), mail |-> NoMail]

Init ==
    /\ message \in [tree : Messages, newline : NewLines, options : AllOptions]
    /\ at = 0 /\ hold = <<>> /\ ended = FALSE
    /\ parser = Fresh.parser /\ mail = Fresh.mail

DeliverData(n) ==
    LET packet == SubSeq(text, at + 1, at + n)
        cut == ConditionToEndOnCRLF(hold \o packet)
    IN  /\ ~ended /\ at + n <= Len(text)
        \* A packet that is the CR of a CRLF and nothing else is not withheld.
        /\ ~(hold \o packet = <<"CR">> /\ at + n < Len(text) /\ text[at + n + 1] = "LF")
        /\ at' = at + n /\ hold' = cut.rest
        /\ \E st \in {Dispatch([parser |-> parser, mail |-> mail], cut.lines, message.options)} :
             parser' = st.parser /\ mail' = st.mail
        /\ UNCHANGED <<message, ended>>

DeliverEOF ==
    /\ ~ended /\ at = Len(text)
    /\ mail' = Finish([parser |-> parser, mail |-> mail], hold, message.options)
    /\ ended' = TRUE
    /\ UNCHANGED <<message, at, hold, parser>>

Next ==
    \/ \E n \in PacketSizes \cup {Len(text) - at} : n > 0 /\ DeliverData(n)
    \/ DeliverEOF

Spec == Init /\ [][Next]_vars

\* parseSync: all of a text in one packet.
ParseSync(s, options) ==
    LET cut == ConditionToEndOnCRLF(s)
    IN  Finish(Dispatch(Fresh, cut.lines, options), cut.rest, options)

-----------------------------------------------------------------------------
(* What should come of it.                                                 *)

\* The parts of a tree with their numbers: what their headers say, and their bodies.
RECURSIVE Written(_, _, _)
Written(tree, part, dflt) ==
    LET content == ParseHeaders([header |-> tree.headers, dflt |-> dflt])
        own == <<[part |-> part, content |-> content,
                  body |-> IF tree.kind = "leaf" THEN tree.body ELSE <<>>]>>
        inner == IF content.type.type = "multipart/digest" THEN "message/rfc822" ELSE "text/plain"
    IN  own \o CASE tree.kind = "leaf" -> <<>>
                 [] tree.kind = "message" -> Written(tree.parts[1], Append(part, 0), "text/plain")
                 [] OTHER -> FlattenSeq([i \in DOMAIN tree.parts |->
                                           Written(tree.parts[i], Append(part, i), inner)])

\* The body of a part as the options want it.
BodyOf(part) ==
    LET body == WithNewLines(part.body, message.newline)
        decode == message.options.bodyformat = "decode"
    IN  IF message.options.bodyformat = "none" \/ Multipart(part.content.type.type) THEN <<>>
        ELSE CASE decode /\ part.content.encoding = "base64" -> DecodeBase64(body, FALSE).data
               [] decode /\ part.content.encoding = "quoted-printable" -> DecodeQP(body).data
               [] OTHER -> body

TextOf(part, body) == IF part.content.type.type \in TextTypes THEN DecodeWhole(body) ELSE body

\* What a multipart that is never closed holds back at its end is lost, unless it
\* ends with a LF (_dispatchEOF).
RECURSIVE LosesALine(_)
LosesALine(tree) ==
    \/ /\ tree.kind = "multi" /\ ~tree.closed
       /\ Last(WithNewLines(Render(tree), message.newline)) # "LF"
    \/ tree.kind # "leaf" /\ \E i \in DOMAIN tree.parts : LosesALine(tree.parts[i])

\* At the end the mail has the parts that were written, in their order and under
\* their numbers, each with the body it was written with: none is lost, split or
\* merged, and no newline, delimiter, prologue or epilogue leaks into a body.
ReadsWhatWasWritten ==
    ended /\ ~LosesALine(message.tree) /\ message.options.bodyformat # "raw" =>
      LET written == SelectSeq(Written(message.tree, <<>>, TypeOfMain),
                               LAMBDA p : ~WillIgnorePart(message.options, p.part))
      IN  [i \in DOMAIN mail.parts |-> [part |-> mail.parts[i].part, content |-> mail.parts[i].content,
                                        body |-> mail.parts[i].body]]
            = [i \in DOMAIN written |-> [written[i] EXCEPT !.body = BodyOf(written[i])]]

\* The text of a text part is that of its whole body.  The options' documentation says
\* that data for text parts is converted to UTF-16 and that base64 is fully decoded.
TextIsDecodedWhole ==
    ended /\ message.options.bodyformat # "raw" =>
      \A i \in DOMAIN mail.parts : mail.parts[i].text = TextOf(mail.parts[i], mail.parts[i].body)

\* Wherever the packets end, the mail is the one parseSync makes of the text so far:
\* what a parser remembers of earlier packets is all that matters of them.
PacketsDontMatter ==
    ~ended => Finish([parser |-> parser, mail |-> mail], hold, message.options)
                = ParseSync(SubSeq(text, 1, at), message.options)

\* The part numbers the parsers are in.
RECURSIVE OpenParts(_, _)
OpenParts(p, part) ==
    CASE p.state = "headers" -> <<>>
      [] p.state = "sub" -> <<part>> \o OpenParts(p.sub, p.subPart)
      [] OTHER -> <<part>>

\* The emitter does not look at the part numbers of data and ends: the parts it
\* has open are those the parsers are in, so data goes to the part it is from.
PathFollowsParser ==
    ~ended => [i \in DOMAIN mail.path |-> mail.parts[mail.path[i]].part]
                = SelectSeq(OpenParts(parser, <<>>),
                            LAMBDA p : ~WillIgnorePart(message.options, p))

=============================================================================
