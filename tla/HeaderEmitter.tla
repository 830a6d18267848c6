---------------------------- MODULE HeaderEmitter ----------------------------
(***************************************************************************)
(* jsmimeparser/headerEmitter.js: from structured values to header lines,  *)
(* which are broken to stay within a soft margin and never exceed a hard   *)
(* one.  An emitter is a record of the lines sent to its handler, the      *)
(* current line, the last position in it where a break is preferred, and   *)
(* the options; every operation returns the emitter.  failed stands for    *)
(* the exception that a text cannot be added.                              *)
(***************************************************************************)
EXTENDS HeaderParser

CONSTANT Width    \* the words of more than one character, and how many

Clamp(value, low, high) == IF value < low THEN low ELSE IF value > high THEN high ELSE value

NewEmitter(options) ==
    LET soft == Clamp(options.softMargin, 30, 900)
    IN  [out |-> <<>>, line |-> <<>>, break |-> 0, failed |-> FALSE, soft |-> soft,
         hard |-> Clamp(options.hardMargin, soft, 998), useASCII |-> options.useASCII,
         sanitizeDate |-> options.sanitizeDate]

-----------------------------------------------------------------------------
(* Lengths.                                                                *)

Forbidden == {"\"", "(", ")", ",", ".", ":", ";", "<", ">", "@", "[", "\\", "]", "=", "'"}

\* The width of a character of an encoded word in quoted-printable, and of any other.
QuotedWidth(c) == IF c \in Forbidden \cup AllOctets THEN 3 ELSE 1
WidthOf(c) ==
    CASE c \in DOMAIN Width -> Width[c]
      [] c \in EncodedStart -> 10
      [] c = "?=" -> 2
      [] OTHER -> 1

\* The number of characters a text is written with.
LengthOf(s) ==
    LET Add(st, c) ==
          CASE c = "=?B?" -> [st EXCEPT !.n = @ + 10, !.in = "B"]
            [] c = "=?Q?" -> [st EXCEPT !.n = @ + 10, !.in = "Q"]
            [] c = "?=" -> [n |-> st.n + 2 + 4 * ((st.octets + 2) \div 3), in |-> "no", octets |-> 0]
            [] OTHER -> CASE st.in = "B" -> [st EXCEPT !.octets = @ + 1]
                          [] st.in = "Q" -> [st EXCEPT !.n = @ + QuotedWidth(c)]
                          [] OTHER -> [st EXCEPT !.n = @ + WidthOf(c)]
    IN  FoldLeft(Add, [n |-> 0, in |-> "no", octets |-> 0], s).n

-----------------------------------------------------------------------------
(* Lines and tokens.                                                       *)

\* _commitLine: the line up to count is done, and the rest continues it.
CommitLine(e, count) ==
    [e EXCEPT !.out = Append(@, TrimRight(Slice(e.line, 1, count))),
              !.line = <<" ">> \o TrimLeft(Rest(e.line, count + 1)), !.break = 0]

\* ... without a count: the header is done.
EndHeader(e) == [e EXCEPT !.out = Append(@, TrimRight(e.line)), !.line = <<>>, !.break = 0]

\* Where a break is preferred.
Broken(e) == IF e.break > 0 THEN CommitLine(e, e.break) ELSE e

\* Variant: the soft margin is tried, the hard one taken for granted.
ReserveBrokenSoft(e, length) == [emitter |-> e, fits |-> TRUE]

\* At the end of a line that is still too long for the hard margin.
ReserveBroken(e, length) ==
    LET forced == IF e.line = <<>> THEN e ELSE CommitLine(e, Len(e.line))
    IN  IF LengthOf(e.line) + length <= e.hard THEN [emitter |-> e, fits |-> TRUE]
        ELSE [emitter |-> forced, fits |-> LengthOf(forced.line) + length <= e.hard]

\* Breaks the line where that is preferred if it would be too long for the soft
\* margin, and where it ends if it would still be too long for the hard one.
ReserveTokenSpace(e, length) ==
    IF LengthOf(e.line) + length <= e.soft THEN [emitter |-> e, fits |-> TRUE]
    ELSE ReserveBroken(Broken(e), length)

\* The text in the space that was reserved for it, if there is enough.
AddReserved(reserved, text, mayBreakAfter) ==
    LET line == reserved.emitter.line \o text
        space == IF text # <<>> /\ Last(text) = " " THEN <<>> ELSE <<" ">>
    IN  CASE ~reserved.fits -> [reserved.emitter EXCEPT !.failed = TRUE]
          [] reserved.fits /\ mayBreakAfter ->
               [reserved.emitter EXCEPT !.line = line \o space, !.break = Len(line)]
          [] OTHER -> [reserved.emitter EXCEPT !.line = line]

AddText(e, text, mayBreakAfter) ==
    IF e.failed THEN e ELSE AddReserved(ReserveTokenSpace(e, LengthOf(text)), text, mayBreakAfter)

\* In quotes if a character of qchars is in it, unless it is in quotes already.
AddQuotable(e, text, qchars, mayBreakAfter) ==
    LET quoted == text[1] = "\"" /\ Last(text) = "\""
        needsQuote == ~quoted /\ \E i \in DOMAIN text : text[i] \in qchars
    IN  IF text = <<>> THEN e
        ELSE AddText(e, IF needsQuote THEN <<"\"">> \o Escape(text) \o <<"\"">> ELSE text,
                     mayBreakAfter)

-----------------------------------------------------------------------------
(* Encoded words.                                                          *)

UTF8(text) ==
    FlattenSeq([i \in DOMAIN text |->
       CASE text[i] \in DOMAIN Octets -> Octets[text[i]] [] text[i] = " " -> <<"_">>
         [] OTHER -> <<text[i]>>])

AddRFC2047Word(e, octets, useQP, mayBreakAfter) ==
    AddText(e, <<IF useQP THEN "=?Q?" ELSE "=?B?">> \o octets \o <<"?=">>, mayBreakAfter)

Within(octet) == \E c \in DOMAIN Octets : octet = Octets[c][2]

\* As many octets in each word as fit, in the shorter of the two encodings, and
\* never a part of a character.
RECURSIVE EncodeFrom(_, _, _, _, _, _, _, _)
EncodeFrom(e, octets, start, i, b64Len, qpLen, maxChars, mayBreakAfter) ==
    LET b64 == b64Len + (IF (i - start) % 3 = 0 THEN 4 ELSE 0)
        qp == qpLen + QuotedWidth(octets[i])
        cut == Max({j \in 1..i : ~Within(octets[j])})
    IN  CASE i > Len(octets) ->
               AddRFC2047Word(e, Rest(octets, start), b64Len >= qpLen, mayBreakAfter)
          [] i <= Len(octets) /\ b64 > maxChars /\ qp > maxChars ->
               EncodeFrom(AddRFC2047Word(e, Slice(octets, start, cut - 1), b64Len >= qpLen, TRUE),
                          octets, cut, cut, 0, 0, e.soft - 13, mayBreakAfter)
          [] OTHER -> EncodeFrom(e, octets, start, i + 1, b64, qp, maxChars, mayBreakAfter)

\* Room for a word, on a new line if need be.
RoomForWord(reserved) ==
    IF reserved.fits THEN reserved.emitter
    ELSE CommitLine(reserved.emitter, Len(reserved.emitter.line))

EncodeFirst(e, octets, mayBreakAfter) ==
    EncodeFrom(e, octets, 1, 1, 0, 0, e.soft - LengthOf(e.line) - 12, mayBreakAfter)

EncodeRFC2047Phrase(e, text, mayBreakAfter) ==
    IF e.failed THEN e ELSE EncodeFirst(RoomForWord(ReserveTokenSpace(e, 20)), UTF8(text), mayBreakAfter)

-----------------------------------------------------------------------------
(* Phrases and headers.                                                    *)

Collapse(text) ==
    LET kept == Where(text, LAMBDA i : ~(i > 1 /\ text[i] \in Space /\ text[i - 1] \in Space))
    IN  [i \in DOMAIN kept |-> IF text[kept[i]] \in Space THEN " " ELSE text[kept[i]]]

\* The last space of a text becomes the place for a break, if there is none.
BreakAtSpace(e, text) ==
    IF /\ ~e.failed /\ e.break = 0 /\ \E i \in DOMAIN text : text[i] = " "
       /\ Last(e.line) # "\""
    THEN [e EXCEPT !.break = LastIndexOf(e.line, " ") - 1] ELSE e

\* Word by word.
AddWords(e, words, qchars, mayBreakAfter) ==
    FoldLeft(LAMBDA before, i : AddQuotable(before, words[i], qchars, mayBreakAfter \/ i < Len(words)),
             e, [i \in DOMAIN words |-> i])

\* A text in one piece if that fits, as it did in whole; or else word by word, and
\* also if there is no room for it.
AddPieces(e, whole, text, qchars, mayBreakAfter) ==
    LET short == LengthOf(e.line) + LengthOf(text) < e.soft
    IN  IF short /\ ~whole.failed THEN whole
        ELSE AddWords(IF short THEN [whole EXCEPT !.failed = FALSE] ELSE e,
                      PiecesBetween(text, LAMBDA c : c = " "), qchars, mayBreakAfter)

\* What is not ASCII in encoded words.
AddCollapsed(e, text, qchars, mayBreakAfter) ==
    IF e.useASCII /\ \E i \in DOMAIN text : text[i] \in DOMAIN Octets
    THEN EncodeRFC2047Phrase(e, text, mayBreakAfter)
    ELSE AddPieces(e, BreakAtSpace(AddQuotable(e, text, qchars, mayBreakAfter), text), text,
                   qchars, mayBreakAfter)

AddPhrase(e, phrase, qchars, mayBreakAfter) ==
    IF e.failed THEN e ELSE AddCollapsed(e, Collapse(phrase), qchars, mayBreakAfter)

PhraseQuoted == {",", "(", ")", "<", ">", "[", "]", ":", ";", "@", ".", "\""}

\* The name of an address, if possible on one line with its email.
AddName(e, addr) ==
    LET length == LengthOf(addr.name) + LengthOf(addr.email) + 3
    IN  IF e.failed \/ addr.name = <<>> THEN e
        ELSE AddPhrase(ReserveTokenSpace(e, length).emitter, addr.name, PhraseQuoted, TRUE)

\* Variant: the local part of an address is written as it is.
AddEmailUnquoted(e, addr) ==
    CASE addr.name = <<>> -> AddText(e, addr.email, FALSE)
      [] addr.name # <<>> /\ addr.email = <<>> -> e
      [] OTHER -> AddText(AddText(e, <<"<">>, FALSE), Append(addr.email, ">"), FALSE)

\* local@domain, after a name in angle brackets.
AddEmail(e, addr) ==
    LET at == LastIndexOf(addr.email, "@")
        local == IF at = 0 THEN addr.email ELSE Slice(addr.email, 1, at - 1)
        domain == IF at = 0 THEN <<>> ELSE Rest(addr.email, at)
        close == IF addr.name = <<>> THEN <<>> ELSE <<">">>
        open == IF addr.name = <<>> THEN e ELSE AddText(e, <<"<">>, FALSE)
    IN  IF addr.name # <<>> /\ addr.email = <<>> THEN e
        ELSE AddText(AddQuotable(open, local, MustQuote, FALSE), domain \o close, FALSE)

AddAddress(e, addr) == AddEmail(AddName(e, addr), addr)

RECURSIVE AddAddresses(_, _)
AddMember(e, addr) ==
    IF "email" \in DOMAIN addr THEN AddAddress(e, addr)
    ELSE AddText(AddAddresses(AddText(AddPhrase(e, addr.name, PhraseQuoted, FALSE), <<":">>, TRUE),
                              addr.group), <<";">>, TRUE)

AddAddresses(e, addresses) ==
    FoldLeft(LAMBDA before, i : AddMember(IF i = 1 THEN before ELSE AddText(before, <<",", " ">>, TRUE),
                                          addresses[i]),
             e, [i \in DOMAIN addresses |-> i])

AddUnstructured(e, text) == IF text = <<>> THEN e ELSE AddPhrase(e, text, {}, FALSE)

\* The fields of a date object as they are written: of its own zone, or of UTC and
\* without the seconds.
WrittenFields(date, sanitize) ==
    LET offset == IF date.offset < 0 THEN -date.offset ELSE date.offset
    IN  IF sanitize
        THEN [date.utc EXCEPT !.seconds = 0] @@ [zone |-> [sign |-> "+", hours |-> 0, minutes |-> 0]]
        ELSE date.local @@ [zone |-> [sign |-> IF date.offset > 0 THEN "-" ELSE "+",
                                      hours |-> offset \div 60, minutes |-> offset % 60]]

AddDate(e, date) ==
    LET fields == WrittenFields(date, e.sanitizeDate)
        word == CHOOSE w \in DOMAIN DateFields : DateFields[w] = fields
    IN  IF fields.year < 1900 \/ fields.year > 9999 THEN [e EXCEPT !.failed = TRUE]
        ELSE AddText(e, <<word>>, FALSE)

AddHeaderName(e, name) ==
    LET done == IF TrimRight(e.line) = <<>> THEN [e EXCEPT !.line = <<>>] ELSE EndHeader(e)
    IN  IF e.failed THEN e ELSE AddText(done, <<name, ":", " ">>, FALSE)

AddValue(e, name, value) ==
    CASE name \in Addressing -> AddAddresses(e, value)
      [] name \in Dates -> AddDate(e, value)
      [] OTHER -> AddUnstructured(e, value)

AddStructuredHeader(e, name, value) == AddValue(AddHeaderName(e, name), name, value)

=============================================================================
