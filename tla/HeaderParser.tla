---------------------------- MODULE HeaderParser ----------------------------
(***************************************************************************)
(* jsmimeparser/headerParser.js: from the text of a header field to its    *)
(* structured value.                                                       *)
(*                                                                         *)
(* A text is a sequence of characters: the special ones as they are, " "   *)
(* for a space, "CRLF" for a newline, and others that stand for a          *)
(* character or for a run of ordinary ones.  An encoded word starts with a *)
(* member of EncodedStart, ends with "?=", and holds the octets of its     *)
(* text between them, with "_" for a space.                                *)
(***************************************************************************)
EXTENDS TextDecoder, TLC

CONSTANTS
    Cleaned,      \* the characters that are not displayed, and what replaces each
    DateFields,   \* the words that are dates, and the fields written in each
    KnownZones,   \* the names of time zones, and their offset as [sign, hours, minutes]
    Undefined     \* undefined, or false

Space == {" ", "CRLF"}
EncodedStart == {"=?B?", "=?Q?"}    \* in UTF-8
ForeignStart == {"=?x?Q?"}          \* in a charset nobody knows

Slice(s, i, j) == SubSeq(s, i, j)
Rest(s, i) == SubSeq(s, i, Len(s))

TrimRight(s) == SubSeq(s, 1, Max({0} \cup {i \in DOMAIN s : s[i] \notin Space}))
TrimLeft(s) == Rest(s, Min({Len(s) + 1} \cup {i \in DOMAIN s : s[i] \notin Space}))

\* Each run of white space a single space, and none at the ends.
Squeeze(s) ==
    LET t == TrimLeft(TrimRight(s))
        kept == Where(t, LAMBDA i : ~(t[i] \in Space /\ t[i - 1] \in Space))
    IN  [i \in DOMAIN kept |-> IF t[kept[i]] \in Space THEN " " ELSE t[kept[i]]]

\* The pieces of s between the characters for which Is holds, at least one.
PiecesBetween(s, Is(_)) ==
    LET cuts == Where(s, LAMBDA i : Is(s[i]))
    IN  [k \in 1..(Len(cuts) + 1) |->
           SubSeq(s, IF k = 1 THEN 1 ELSE cuts[k - 1] + 1,
                     IF k > Len(cuts) THEN Len(s) ELSE cuts[k] - 1)]

IndexOf(s, c) == Min({Len(s) + 1} \cup {i \in DOMAIN s : s[i] = c})
LastIndexOf(s, c) == Max({0} \cup {i \in DOMAIN s : s[i] = c})

-----------------------------------------------------------------------------
(* Characters and encoded words.                                           *)

\* convert8BitHeader: octets outside of encoded words are read as UTF-8.
Convert8BitHeader(s) == DecodeWhole(s)

\* The end of the encoded word at i, or 0.
EncodedEnd(s, i) ==
    LET ends == {j \in i..Len(s) : s[j] = "?="}
    IN  IF i <= Len(s) /\ s[i] \in EncodedStart \cup ForeignStart /\ ends # {} THEN Min(ends) ELSE 0

\* The text of s up to the next encoded word.
PlainText(s) == SubSeq(s, 1, Min({Len(s)} \cup {i - 1 : i \in {j \in DOMAIN s : EncodedEnd(s, j) > 0}}))

\* The octets of the encoded word that ends there.
WordOctets(s, end) ==
    LET octets == Slice(s, 2, end - 1)
    IN  [i \in DOMAIN octets |-> IF octets[i] = "_" THEN " " ELSE octets[i]]

\* decodeRFC2047Words: the words of one charset share a decoder, so that a character
\* may be split between them.  White space between words is dropped.  A word in
\* an unknown charset stays as it is, and so does any other text.
RECURSIVE DecodeFrom(_, _)
DecodeFrom(s, pending) ==
    LET end == EncodedEnd(s, 1)
        last == \A i \in (end + 1)..Len(s) : EncodedEnd(s, i) = 0
        decoded == DecodeOctets(pending \o WordOctets(s, end))
        plain == PlainText(s)
        blank == Squeeze(plain) = <<>>
    IN  CASE s = <<>> -> <<>>
          [] s # <<>> /\ end > 0 /\ s[1] \in EncodedStart ->
               decoded.text \o (IF last THEN Flush(decoded.pending) ELSE <<>>)
                 \o DecodeFrom(Rest(s, end + 1), IF last THEN <<>> ELSE decoded.pending)
          [] s # <<>> /\ end > 0 /\ s[1] \notin EncodedStart ->
               Slice(s, 1, end) \o DecodeFrom(Rest(s, end + 1), <<>>)
          [] OTHER -> (IF blank THEN <<>> ELSE Flush(pending) \o plain)
                        \o DecodeFrom(Rest(s, Len(plain) + 1), IF blank THEN pending ELSE <<>>)

DecodeRFC2047Words(s) == DecodeFrom(s, <<>>)

\* Characters that are not displayed become spaces, or nothing.
CleanToken(s) ==
    FlattenSeq([i \in DOMAIN s |-> IF s[i] \in DOMAIN Cleaned THEN Cleaned[s[i]] ELSE <<s[i]>>])

-----------------------------------------------------------------------------
(* Tokens (getHeaderTokens).  st: the tokens so far, where the open one    *)
(* starts (or 0), the quote it ends with, and the depth of comments.       *)

Special(c) == [special |-> TRUE, text |-> <<c>>]
Text(s) == [special |-> FALSE, text |-> s]

\* Without the backslashes.
RECURSIVE Unescape(_)
Unescape(s) ==
    IF s = <<>> THEN <<>>
    ELSE IF s[1] = "\\" THEN Slice(s, 2, 2) \o Unescape(Rest(s, 3))
    ELSE <<s[1]>> \o Unescape(Tail(s))

\* The end of the encoded words at i, which white space may separate.
RECURSIVE EncodedWords(_, _)
EncodedWords(s, i) ==
    LET end == EncodedEnd(s, i)
        next == Min({Len(s) + 1} \cup {j \in (end + 1)..Len(s) : s[j] \notin Space})
    IN  IF end > 0 /\ EncodedEnd(s, next) > 0 THEN EncodedWords(s, next) ELSE end

\* The token that is open at i ends before it.
EndToken(st, s, i) ==
    IF st.start = 0 THEN st
    ELSE [st EXCEPT !.list = Append(@, Text(Unescape(Slice(s, st.start, i - 1)))), !.start = 0]

StartToken(st, i) == IF st.start = 0 THEN [st EXCEPT !.start = i] ELSE st

AddSpecial(st, c) == [st EXCEPT !.list = Append(@, Special(c))]

\* Inside a quoted string or a domain literal only its end counts.
QuotedCharacter(st, s, i, opts) ==
    LET text == Slice(s, st.start + 1, i - 1)
        token == IF st.quote = "]" THEN Slice(s, st.start, i)
                 ELSE IF opts.rfc2047 THEN DecodeRFC2047Words(text) ELSE text
    IN  IF s[i] # st.quote THEN st
        ELSE [st EXCEPT !.list = Append(@, Text(Unescape(token))), !.start = 0, !.quote = Undefined]

OpenComment(st, s, i) ==
    LET deeper == [st EXCEPT !.depth = @ + 1]
    IN  IF st.depth = 0 THEN AddSpecial(EndToken(deeper, s, i), "(") ELSE StartToken(deeper, i)

CloseComment(st, s, i) ==
    LET depth == IF st.depth > 0 THEN st.depth - 1 ELSE 0
        out == [st EXCEPT !.depth = depth]
    IN  IF depth = 0 THEN AddSpecial(EndToken(out, s, i), ")") ELSE StartToken(out, i)

OpenQuote(st, s, i, quote) == [EndToken(st, s, i) EXCEPT !.start = i, !.quote = quote]

Character(st, s, i, delimiters, opts) ==
    CASE s[i] \in Space -> EndToken(st, s, i)
      [] s[i] \in delimiters /\ st.depth = 0 -> AddSpecial(EndToken(st, s, i), s[i])
      [] s[i] = "\"" /\ opts.qstring -> OpenQuote(st, s, i, "\"")
      [] s[i] = "[" /\ opts.dliteral -> OpenQuote(st, s, i, "]")
      [] s[i] = "(" /\ opts.comments -> OpenComment(st, s, i)
      [] s[i] = ")" /\ opts.comments -> CloseComment(st, s, i)
      [] OTHER -> StartToken(st, i)

\* The end of the text ends the last token; a quoted one is taken to be complete.
LastToken(st, s) ==
    LET text == Rest(s, IF st.quote = "\"" THEN st.start + 1 ELSE st.start)
    IN  IF st.start = 0 THEN st.list ELSE Append(st.list, Text(Unescape(text)))

RECURSIVE TokensFrom(_, _, _, _, _)
TokensFrom(st, s, i, delimiters, opts) ==
    LET words == IF opts.rfc2047 THEN EncodedWords(s, i) ELSE 0
        decoded == Text(DecodeRFC2047Words(Slice(s, i, words)))
    IN  CASE i > Len(s) -> LastToken(st, s)
          [] i <= Len(s) /\ s[i] = "\\" -> TokensFrom(st, s, i + 2, delimiters, opts)
          [] i <= Len(s) /\ s[i] # "\\" /\ st.quote # Undefined ->
               TokensFrom(QuotedCharacter(st, s, i, opts), s, i + 1, delimiters, opts)
          [] i <= Len(s) /\ s[i] # "\\" /\ st.quote = Undefined /\ words > 0 ->
               TokensFrom([EndToken(st, s, i) EXCEPT !.list = Append(@, decoded)],
                          s, words + 1, delimiters, opts)
          [] OTHER -> TokensFrom(Character(st, s, i, delimiters, opts), s, i + 1, delimiters, opts)

GetHeaderTokens(s, delimiters, opts) ==
    TokensFrom([list |-> <<>>, start |-> 0, quote |-> Undefined, depth |-> 0], s, 1, delimiters, opts)

-----------------------------------------------------------------------------
(* Addresses (parseAddressingHeader).  A mailbox has a name and an email,  *)
(* a group a name and members.                                             *)

Mailbox(name, email) == [name |-> name, email |-> email]
Group(name, members) == [name |-> name, group |-> members]

MustQuote == {" ", "!", "(", ")", "<", ">", "[", "]", ":", ";", "@", "\\", ",", "\""}

Escape(s) ==
    FlattenSeq([i \in DOMAIN s |-> IF s[i] \in {"\\", "\""} THEN <<"\\", s[i]>> ELSE <<s[i]>>])

\* Before the first token, and after each address but for the lists and the group.
NoAddress ==
    [results |-> <<>>, addrlist |-> <<>>, groupName |-> <<>>, name |-> <<>>, localPart |-> <<>>,
     address |-> <<>>, comment |-> <<>>, lastComment |-> <<>>, inAngle |-> FALSE,
     inComment |-> FALSE, needsSpace |-> FALSE, preserveSpace |-> FALSE,
     afterAddress |-> FALSE, commentClosed |-> FALSE]

\* The mailbox that was read, with its local part in quotes if need be and the
\* last comment for a name if there is no other.
AddToAddrList(st) ==
    LET at == LastIndexOf(st.address, "@")
        local == Slice(st.address, 1, at - 1)
        email == IF \E i \in DOMAIN local : local[i] \in MustQuote
                 THEN <<"\"">> \o Escape(local) \o <<"\"">> \o Rest(st.address, at)
                 ELSE st.address
        offset == IF st.lastComment[1] = " " THEN 3 ELSE 2
        name == IF Squeeze(st.name) = <<>> /\ st.lastComment # <<>>
                THEN Slice(st.lastComment, offset, Len(st.lastComment) - 1)
                ELSE Squeeze(st.name)
    IN  [st EXCEPT !.addrlist = IF name = <<>> /\ email = <<>> THEN @
                                ELSE Append(@, Mailbox(name, email)),
                   !.name = <<>>, !.localPart = <<>>, !.address = <<>>, !.lastComment = <<>>,
                   !.inAngle = FALSE, !.inComment = FALSE, !.needsSpace = FALSE,
                   !.afterAddress = FALSE]

OnColon(st) ==
    [st EXCEPT !.groupName = st.name, !.name = <<>>, !.localPart = <<>>,
               !.results = @ \o st.addrlist, !.addrlist = <<>>, !.needsSpace = FALSE]

OnLess(st) ==
    IF st.inAngle
    THEN [st EXCEPT !.name = IF st.address = <<>> THEN @ ELSE st.address,
                    !.localPart = <<>>, !.address = <<>>, !.needsSpace = FALSE]
    ELSE [st EXCEPT !.inAngle = TRUE, !.needsSpace = FALSE]

OnGreater(st) ==
    [st EXCEPT !.inAngle = FALSE, !.lastComment = <<>>, !.afterAddress = TRUE, !.needsSpace = FALSE]

OnOpenComment(st) ==
    LET space == st.needsSpace \/ (st.name # <<>> /\ Last(st.name) # " ")
    IN  [st EXCEPT !.inComment = TRUE, !.preserveSpace = st.needsSpace,
                   !.comment = IF space THEN <<" ", "(">> ELSE <<"(">>,
                   !.commentClosed = FALSE, !.needsSpace = FALSE]

OnCloseComment(st) ==
    LET comment == Append(st.comment, ")")
    IN  [st EXCEPT !.inComment = FALSE, !.comment = comment, !.lastComment = comment,
                   !.needsSpace = IF st.inAngle THEN st.preserveSpace ELSE TRUE,
                   !.name = IF st.inAngle THEN @ ELSE @ \o comment, !.commentClosed = TRUE]

\* An @ outside of angle brackets: what was taken for a name is a local part.
OnAt(st) ==
    CASE st.afterAddress -> st
      [] ~st.afterAddress /\ st.inAngle ->
           [st EXCEPT !.address = Append(@, "@"), !.needsSpace = FALSE]
      [] OTHER -> [st EXCEPT !.address = Append(st.localPart, "@"), !.name = <<>>,
                             !.localPart = <<>>, !.inAngle = TRUE, !.needsSpace = FALSE]

OnComma(st) == AddToAddrList(st)

OnSemicolon(st) ==
    LET added == AddToAddrList(st)
    IN  [added EXCEPT !.results = IF st.groupName = <<>> THEN @ \o added.addrlist
                                  ELSE Append(@, Group(st.groupName, added.addrlist)),
                      !.addrlist = <<>>, !.groupName = <<>>]

\* Text: a comment, a part of an address, or as yet both a name and a local part.
OnText(st, token) ==
    LET text == CleanToken(token)
        tight == text = <<>> \/ text[1] = "."
        spaced == IF st.needsSpace /\ ~tight THEN <<" ">> \o text ELSE text
        next == [st EXCEPT !.needsSpace = ~tight]
    IN  CASE st.inComment -> [next EXCEPT !.comment = @ \o spaced]
          [] ~st.inComment /\ st.inAngle -> [next EXCEPT !.address = @ \o spaced]
          [] OTHER ->
               [next EXCEPT !.name = IF st.afterAddress THEN @ ELSE @ \o spaced,
                            !.localPart = @ \o (IF st.commentClosed THEN text ELSE spaced),
                            !.commentClosed = FALSE]

OnToken(st, token) ==
    LET Is(c) == token.special /\ token.text[1] = c
        delimiter == token.special /\ ~(token.text[1] \in {"<", ">"} /\ st.afterAddress)
    IN  CASE delimiter /\ Is(":") -> OnColon(st)
          [] delimiter /\ Is("<") -> OnLess(st)
          [] delimiter /\ Is(">") -> OnGreater(st)
          [] delimiter /\ Is("(") -> OnOpenComment(st)
          [] delimiter /\ Is(")") -> OnCloseComment(st)
          [] delimiter /\ Is("@") -> OnAt(st)
          [] delimiter /\ Is(",") -> OnComma(st)
          [] delimiter /\ Is(";") -> OnSemicolon(st)
          [] OTHER -> OnText(st, token.text)

\* All that was read, a group that was not ended included.
Addresses(end) ==
    IF end.groupName = <<>> THEN end.results \o end.addrlist
    ELSE Append(end.results, Group(end.groupName, end.addrlist))

ParseAddressingHeader(s) ==
    LET tokens == GetHeaderTokens(s, {":", ",", ";", "<", ">", "@"},
                    [qstring |-> TRUE, comments |-> TRUE, dliteral |-> TRUE, rfc2047 |-> TRUE])
    IN  Addresses(AddToAddrList(FoldLeft(OnToken, NoAddress, tokens)))

-----------------------------------------------------------------------------
(* Parameters (parseParameterHeader), with their values in pieces and in   *)
(* other charsets (RFC 2231).  The octets of an extended value are written *)
(* with a percent sign.                                                    *)

Percent(octet) == "%" \o octet
MayBePercent == AllOctets \cup {" ", "\"", "\\"}

PercentDecoded(s) ==
    [i \in DOMAIN s |-> IF \E o \in MayBePercent : s[i] = Percent(o)
                        THEN CHOOSE o \in MayBePercent : s[i] = Percent(o) ELSE s[i]]

\* The name being read, whether its = was not seen yet, and the pairs so far.
OnParameterToken(st, token) ==
    LET Is(c) == token.special /\ token.text[1] = c
        empty == IF st.name # <<>> /\ ~st.inName THEN <<[name |-> st.name, value |-> <<>>]>> ELSE <<>>
        value == IF st.name # <<>> /\ Last(st.name) = "*" THEN PercentDecoded(token.text) ELSE token.text
    IN  CASE Is(";") -> [pairs |-> st.pairs \o empty, name |-> <<>>, inName |-> TRUE]
          [] Is("=") -> [st EXCEPT !.inName = FALSE]
          [] ~token.special /\ st.inName ->
               [st EXCEPT !.name = IF st.name = <<>> THEN token.text ELSE <<>>]
          [] ~token.special /\ ~st.inName /\ st.name # <<>> ->
               [st EXCEPT !.pairs = Append(@, [name |-> st.name, value |-> value]), !.name = <<>>]
          [] OTHER -> st

\* A last name without a value has an empty one.
AllPairs(end) ==
    IF end.name # <<>> /\ ~end.inName
    THEN Append(end.pairs, [name |-> end.name, value |-> <<>>]) ELSE end.pairs

ParameterPairs(s) ==
    LET tokens == GetHeaderTokens(s, {";", "="},
                    [qstring |-> TRUE, comments |-> FALSE, dliteral |-> FALSE, rfc2047 |-> TRUE])
    IN  AllPairs(FoldLeft(OnParameterToken, [pairs |-> <<>>, name |-> <<>>, inName |-> TRUE], tokens))

\* The parts of a name: param, param* or param*n or param*n*.
Param(name) == Slice(name, 1, IndexOf(name, "*") - 1)
Simple(name) == IndexOf(name, "*") > Len(name)
Extended(name) == IndexOf(name, "*") = Len(name)
Digits == [d \in {"0", "1", "2", "3"} |->
             CASE d = "0" -> 0 [] d = "1" -> 1 [] d = "2" -> 2 [] OTHER -> 3]
NumberOf(name) ==
    LET number == SelectSeq(Rest(name, IndexOf(name, "*") + 1), LAMBDA c : c # "*")
    IN  IF Len(number) = 1 /\ number[1] \in DOMAIN Digits THEN Digits[number[1]] ELSE Undefined

\* Variant: the pieces in the order they come.
JoinedAsTheyCome(pieces) ==
    [charset |-> Last(pieces[1].name) = "*",
     value |-> FlattenSeq([i \in DOMAIN pieces |-> pieces[i].value])]

\* The pieces of a value in the order of their numbers, up to the first one missing.
\* After a number that is illegal or there twice the rest is ignored.
Joined2231(pieces) ==
    LET Bad(i) == \/ NumberOf(pieces[i].name) = Undefined
                  \/ \E j \in 1..(i - 1) : NumberOf(pieces[j].name) = NumberOf(pieces[i].name)
        end == Min({Len(pieces) + 1} \cup {i \in DOMAIN pieces : Bad(i)}) - 1
        At(n) == {i \in 1..end : NumberOf(pieces[i].name) = n}
        first == {i \in 1..Min({end + 1, Len(pieces)}) : NumberOf(pieces[i].name) = 0}
        count == Min({n \in 0..end : At(n) = {}})
        Piece(n) == pieces[CHOOSE i \in At(n) : TRUE]
    IN  IF first = {} THEN Undefined
        ELSE [charset |-> Last(pieces[Max(first)].name) = "*",
              value |-> FlattenSeq([n \in 1..count |-> Piece(n - 1).value])]

\* The value after charset'language', if the charset is known and the octets are
\* whole characters.
Decode2231Value(s) ==
    LET quotes == {i \in DOMAIN s : s[i] = "'"}
        second == quotes \ {IndexOf(s, "'")}
        charset == Slice(s, 1, IndexOf(s, "'") - 1)
        read == DecodeOctets(Rest(s, Min(IF second = {} THEN quotes ELSE second) + 1))
        bad == read.pending # <<>> \/ \E i \in DOMAIN read.text : read.text[i] = Unreadable
    IN  IF quotes = {} \/ charset # <<"UTF-8">> \/ bad THEN Undefined ELSE read.text

\* The first of several values that is there.
FirstOf(a, b) == IF a # Undefined THEN a ELSE b

ValueOfPieces(joined) ==
    IF joined = Undefined \/ ~joined.charset THEN FirstOf(joined, [value |-> Undefined]).value
    ELSE Decode2231Value(joined.value)

\* The value of a parameter: param* before param*n before param.
ValueOf(pairs, param) ==
    LET named == SelectSeq(pairs, LAMBDA p : Param(p.name) = param)
        simple == SelectSeq(named, LAMBDA p : Simple(p.name))
        extended == SelectSeq(named, LAMBDA p : ~Simple(p.name) /\ Extended(p.name))
        pieces == SelectSeq(named, LAMBDA p : ~Simple(p.name) /\ ~Extended(p.name))
        Value(list) == IF list = <<>> THEN Undefined ELSE list[1].value
    IN  FirstOf(IF extended = <<>> THEN Undefined ELSE Decode2231Value(Value(extended)),
                FirstOf(IF pieces = <<>> THEN Undefined ELSE ValueOfPieces(Joined2231(pieces)),
                        Value(simple)))

ParameterValue(s, param) == ValueOf(ParameterPairs(s), param)

\* getParameter of mailParser.js: a newline and the white space after it are dropped.
GetParameter(s, param) ==
    LET Folding(i) == \E j \in 1..i : s[j] = "CRLF" /\ \A k \in j..i : s[k] \in Space
        kept == Where(s, LAMBDA i : ~Folding(i))
    IN  ParameterValue(<<";">> \o Picked(s, kept), param)

-----------------------------------------------------------------------------
(* Dates (parseDateHeader).  A moment is in minutes and seconds.           *)

\* Date.UTC, with months of 31 days.
DateUTC(d) == [minutes |-> ((((d.year - 2000) * 12 + d.month) * 31 + d.day) * 24 + d.hours) * 60
                             + d.minutes,
               seconds |-> d.seconds]

\* The moment: the fields, less the offset of the zone; a year of two digits is
\* between 1950 and 2049, and a zone nobody knows is UTC.
ParseDateHeader(s) ==
    LET d == DateFields[s[1]]
        utc == [sign |-> "+", hours |-> 0, minutes |-> 0]
        zone == CASE "name" \notin DOMAIN d.zone -> d.zone
                  [] "name" \in DOMAIN d.zone /\ d.zone.name \in DOMAIN KnownZones ->
                       KnownZones[d.zone.name]
                  [] OTHER -> utc
        offset == zone.hours * 60 + zone.minutes
        year == CASE d.year >= 100 -> d.year [] d.year < 50 -> d.year + 2000 [] OTHER -> d.year + 1900
    IN  IF s = <<>> \/ s[1] \notin DOMAIN DateFields THEN Undefined
        ELSE [DateUTC([d EXCEPT !.year = year]) EXCEPT
                !.minutes = IF zone.sign = "-" THEN @ + offset ELSE @ - offset]

-----------------------------------------------------------------------------
(* Structured headers (structuredHeaders.js).                              *)

Addressing == {"From", "To", "Cc"}
Dates == {"Date"}

\* The values of a field that is there several times: addresses are put together,
\* of any other field the first counts.
ParseStructuredHeader(name, values) ==
    CASE name \in Addressing ->
           FlattenSeq([i \in DOMAIN values |-> ParseAddressingHeader(values[i])])
      [] name \in Dates -> ParseDateHeader(values[1])
      [] OTHER -> DecodeRFC2047Words(values[1])

=============================================================================
