--------------------------- MODULE RawMimeParser ---------------------------
(***************************************************************************)
(* MimeParser of jsmimeparser/rawMimeParser.js: the streaming parser that  *)
(* turns the text of a message into the events of its parts.               *)
(*                                                                         *)
(* A text is a sequence of tokens: "CR", "LF", and words.  A word is a     *)
(* piece of a line that is only ever looked at as a whole: a header, a     *)
(* delimiter such as "--A", encoded text or other text.  A parser is a     *)
(* record with the fields of the object; the parser of its sub-part is in  *)
(* its field sub.  A part number is a sequence of numbers, 0 for "$".      *)
(* Every operation returns the parser and the calls made to the emitter.   *)
(***************************************************************************)
EXTENDS TextDecoder

CONSTANTS
    Field,      \* the header words: the name and value of the field each is
    Decoded,    \* pairs of words of a base64 text, and what each pair stands for
    SoftBreak,  \* the word at the end of a quoted-printable line that goes on
    None        \* undefined

-----------------------------------------------------------------------------
(* Lines.                                                                  *)

NewLine == {"CR", "LF"}

\* How many tokens the newline at i has, or 0.
NewLineAt(s, i) ==
    IF i > Len(s) \/ s[i] \notin NewLine THEN 0
    ELSE IF s[i] = "CR" /\ i < Len(s) /\ s[i + 1] = "LF" THEN 2 ELSE 1

From(s, i) == SubSeq(s, i, Len(s))

\* Variant: a last CR ends a line as well.
EndsAnywhere(s) ==
    LET end == Max({0} \cup {i \in DOMAIN s : s[i] \in NewLine})
    IN  [lines |-> SubSeq(s, 1, end), rest |-> From(s, end + 1)]

\* The whole lines of s, and the rest.  A last CR may be half a newline, unless it
\* is all there is: lastIndexOf takes the index -1 for 0.
ConditionToEndOnCRLF(s) ==
    LET lastCR == {i \in DOMAIN s : s[i] = "CR" /\ (i < Len(s) \/ i = 1)}
        lastLF == {i \in DOMAIN s : s[i] = "LF"}
        end == Max({0} \cup lastCR \cup lastLF)
    IN  [lines |-> SubSeq(s, 1, end), rest |-> From(s, end + 1)]

\* The first newline that is doubled, or at the start: where it is and its length.
HeaderEnd(s) ==
    LET Doubled(i) == LET n == NewLineAt(s, i)
                      IN  n > 0 /\ i + 2 * n - 1 <= Len(s)
                          /\ SubSeq(s, i, i + n - 1) = SubSeq(s, i + n, i + 2 * n - 1)
        ends == {i \in DOMAIN s : Doubled(i)}
    IN  IF NewLineAt(s, 1) > 0 THEN [at |-> 1, len |-> NewLineAt(s, 1)]
        ELSE IF ends = {} THEN None
        ELSE [at |-> Min(ends), len |-> 2 * NewLineAt(s, Min(ends))]

Delimiter(b) == "--" \o b
Terminator(b) == "--" \o b \o "--"

\* The first delimiter line, from the newline before it to the one after it.
SplitOf(s, b) ==
    LET Before(i) == NewLineAt(s, i)
        Word(i) == i + Before(i)
        Matches(i) == /\ i = 1 \/ Before(i) > 0
                      /\ Word(i) <= Len(s) /\ s[Word(i)] \in {Delimiter(b), Terminator(b)}
                      /\ Word(i) = Len(s) \/ NewLineAt(s, Word(i) + 1) > 0
        at == {i \in DOMAIN s : Matches(i)}
    IN  IF b = None \/ at = {} THEN None
        ELSE LET i == Min(at)
             IN  [at |-> i, newline |-> Before(i) > 0, last |-> s[Word(i)] = Terminator(b),
                  end |-> Word(i) + 1 + NewLineAt(s, Word(i) + 1)]

-----------------------------------------------------------------------------
(* The parser.                                                             *)

\* What resetParser leaves: dflt and count are kept.
Reset(dflt, count) ==
    [state |-> "headers", header |-> <<>>, split |-> None, sub |-> None,
     subPart |-> None, saved |-> <<>>, convert |-> "no", decoder |-> FALSE, dflt |-> dflt, count |-> count]

NewParser(dflt) == Reset(dflt, 0)

\* _coerceData: the data of a text part as text, each delivery on its own; that of
\* other parts as it is.
CoerceData(p, s) == IF p.decoder THEN DecodeWhole(s) ELSE s

\* The calls to the emitter.  Data comes raw, and as text.
StartPart(part, content) == [on |-> "start", part |-> part, content |-> content]
DeliverPartData(p, part, content, s) ==
    [on |-> "data", part |-> part, content |-> content, data |-> s, text |-> CoerceData(p, s)]
EndPart(part, content) == [on |-> "end", part |-> part, content |-> content]

\* A parser, and the calls to the emitter so far.
Result(p, calls) == [parser |-> p, calls |-> calls]

Called(r, call) == [r EXCEPT !.calls = Append(@, call)]

\* The emitter is not interested in parts above or beside pruneat.
WillIgnorePart(options, part) == ~IsPrefix(options.pruneat, part)

\* The value of the first field of this name in a header block, or the default.
Get(header, name, dflt) ==
    LET fields == SelectSeq(header, LAMBDA w : w \in DOMAIN Field /\ Field[w].name = name)
    IN  IF fields = <<>> THEN dflt ELSE Field[fields[1]].value

\* A default content type has no parameters.
DefaultType(type) == [type |-> type, boundary |-> None, name |-> None]

\* The content of a header block.
ParseHeaders(p) ==
    [type |-> Get(p.header, "content-type", DefaultType(p.dflt)),
     encoding |-> Get(p.header, "content-transfer-encoding", None),
     disposition |-> Get(p.header, "content-disposition", None)]

Multipart(type) == type \in {"multipart/mixed", "multipart/digest", "multipart/signed"}

TextTypes == {"text/plain", "text/html", "text/rfc822-headers"}

\* Without the newline at the end.
DropNewLine(s) ==
    LET n == Len(s)
    IN  IF n > 1 /\ s[n] = "LF" /\ s[n - 1] = "CR" THEN SubSeq(s, 1, n - 2)
        ELSE IF n > 0 /\ s[n] \in NewLine THEN SubSeq(s, 1, n - 1) ELSE s

\* What can be converted, and what has to wait for more: the last newline may
\* belong to the delimiter after it.
ConvertLines(s, more) ==
    LET end == IF more THEN Len(DropNewLine(s)) ELSE Len(s)
        cut == ConditionToEndOnCRLF(SubSeq(s, 1, end))
    IN  [data |-> cut.lines, wait |-> cut.rest \o From(s, end + 1)]

\* base64: the words of the text in pairs; an odd one waits for more, or is dropped.
DecodeBase64(s, more) ==
    LET words == SelectSeq(s, LAMBDA w : \E pair \in DOMAIN Decoded : w \in {pair[1], pair[2]})
        n == Len(words) \div 2
    IN  [data |-> [i \in 1..n |-> Decoded[<<words[2 * i - 1], words[2 * i]>>]],
         wait |-> IF more THEN From(words, 2 * n + 1) ELSE <<>>]

\* Quoted-printable: without the soft line breaks.
DecodeQP(s) ==
    LET Soft(i) == \/ s[i] = SoftBreak
                   \/ i > 1 /\ s[i - 1] = SoftBreak /\ s[i] \in NewLine
                   \/ i > 2 /\ s[i - 2] = SoftBreak /\ s[i - 1] = "CR" /\ s[i] = "LF"
        kept == Where(s, LAMBDA i : ~Soft(i))
    IN  [data |-> Picked(s, kept), wait |-> <<>>]

Convert(p, s, more) ==
    CASE p.convert = "lines" -> ConvertLines(p.saved \o s, more)
      [] p.convert = "base64" -> DecodeBase64(p.saved \o s, more)
      [] p.convert = "quoted-printable" -> DecodeQP(p.saved \o s)
      [] OTHER -> [data |-> s, wait |-> p.saved]

\* Sets the parser up for the body, by what the headers say.
StartBody(p, part, content, options) ==
    LET decode == IF content.encoding = None THEN "no" ELSE content.encoding
    IN  IF options.bodyformat = "raw" /\ part = options.pruneat
        THEN [p EXCEPT !.state = "emitter"]
        ELSE IF Multipart(content.type.type)
        THEN IF content.type.boundary = None THEN [p EXCEPT !.state = "hole"]
             ELSE [p EXCEPT !.state = "hole", !.split = content.type.boundary,
                            !.convert = "lines",
                            !.sub = NewParser(IF content.type.type = "multipart/digest"
                                              THEN "message/rfc822" ELSE "text/plain")]
        ELSE IF content.type.type = "message/rfc822"
        THEN [p EXCEPT !.state = "sub", !.subPart = Append(part, 0), !.convert = decode,
                       !.sub = NewParser("text/plain")]
        ELSE [p EXCEPT !.state = "emitter", !.decoder = content.type.type \in TextTypes,
                       !.convert = IF options.bodyformat = "decode" THEN decode ELSE "no"]

RECURSIVE DispatchData(_, _, _, _), DispatchEOF(_, _, _)

SubOf(r) == [r EXCEPT !.parser = r.parser.sub]
InSub(p, sub) == [sub EXCEPT !.parser = [p EXCEPT !.sub = sub.parser]]

\* Data for the part inside of this one, if there is any, and no more after it.
LastForSub(r, any, s, options) ==
    DispatchEOF(IF any THEN DispatchData(SubOf(r), r.parser.subPart, s, options) ELSE SubOf(r),
                r.parser.subPart, options)

\* No more data for a parser with this content, of which this is still held back.
EndWith(r, part, content, data, options) ==
    LET p == r.parser
        lingering == p.convert # "no" /\ p.saved # <<>>
        last ==
          CASE p.state = "headers" -> Called(r, StartPart(part, content))
            [] p.state = "sub" -> [r EXCEPT !.calls = LastForSub(r, lingering, data, options).calls]
            [] OTHER -> IF lingering /\ data # <<>>
                        THEN Called(r, DeliverPartData(p, part, content, data)) ELSE r
    IN  Called(last, EndPart(part, content))

DispatchEOF(r, part, options) ==
    EndWith(r, part, ParseHeaders(r.parser), Convert(r.parser, <<>>, FALSE).data, options)

\* At a delimiter another sub-part begins, unless it is the last.
NextSub(p, part, last, count) ==
    IF last THEN [p EXCEPT !.saved = <<>>, !.split = None, !.state = "hole"]
    ELSE [p EXCEPT !.saved = <<>>, !.state = "sub", !.count = count + 1,
                   !.sub = Reset(p.sub.dflt, p.sub.count), !.subPart = Append(part, count)]

EndSub(r, saved, options) ==
    IF r.parser.subPart = None THEN r.calls ELSE LastForSub(r, saved # <<>>, saved, options).calls

FromOne(p) == IF p.subPart = None THEN 1 ELSE p.count

\* Variant: a newline held back stays in the data of the part.
WhenMultipartKeeping(r, part, split, options) ==
    Result(NextSub(r.parser, part, split.last, FromOne(r.parser)),
           EndSub(r, r.parser.saved, options))

\* The sub-part before a delimiter ends, without the newline that was held back.
WhenMultipart(r, part, split, options) ==
    LET saved == IF split.newline THEN r.parser.saved ELSE DropNewLine(r.parser.saved)
    IN  Result(NextSub(r.parser, part, split.last, FromOne(r.parser)), EndSub(r, saved, options))

\* Where data goes, converted like this.
PassConverted(r, part, s, converted, options) ==
    LET waiting == [r.parser EXCEPT !.saved = converted.wait]
        state == r.parser.state
    IN  CASE state = "emitter" /\ options.bodyformat # "none" /\ ~WillIgnorePart(options, part) ->
               Called([r EXCEPT !.parser = waiting],
                      DeliverPartData(r.parser, part, ParseHeaders(r.parser), converted.data))
          [] state = "sub" /\ s # <<>> ->
               InSub(waiting, DispatchData(SubOf(r), r.parser.subPart, converted.data, options))
          [] OTHER -> r

PassOn(r, part, s, options) == PassConverted(r, part, s, Convert(r.parser, s, TRUE), options)

\* Data with a delimiter in it: what is before, the delimiter, what is after.
Before(r, part, s, split, options) ==
    IF split.at = 1 THEN r ELSE PassOn(r, part, SubSeq(s, 1, split.at - 1), options)
After(r, part, s, split, options) ==
    IF split.end > Len(s) THEN r ELSE DispatchData(r, part, From(s, split.end), options)

DispatchSplit(r, part, s, split, options) ==
    IF split = None THEN PassOn(r, part, s, options)
    ELSE After(WhenMultipart(Before(r, part, s, split, options), part, split, options),
               part, s, split, options)

DispatchBody(r, part, s, options) ==
    DispatchSplit(r, part, s, SplitOf(s, r.parser.split), options)

\* With the headers complete the part starts.
Begin(r, part, content, options) ==
    Called([r EXCEPT !.parser = StartBody(r.parser, part, content, options)], StartPart(part, content))
Begun(r, part, options) == Begin(r, part, ParseHeaders(r.parser), options)

\* A header block that ends here, or not at all.
DispatchHeader(r, part, header, end, options) ==
    IF end = None THEN [r EXCEPT !.parser.header = header]
    ELSE DispatchBody(Begun([r EXCEPT !.parser.header = SubSeq(header, 1, end.at - 1)], part, options),
                      part, From(header, end.at + end.len), options)

\* Data for the part of this parser, which starts on a new line.
DispatchData(r, part, s, options) ==
    LET header == r.parser.header \o s
    IN  IF r.parser.state = "headers" THEN DispatchHeader(r, part, header, HeaderEnd(header), options)
        ELSE DispatchBody(r, part, s, options)

=============================================================================
