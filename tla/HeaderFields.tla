---------------------------- MODULE HeaderFields ----------------------------
(***************************************************************************)
(* Header fields written and read back.  A sender adds structured fields   *)
(* to an emitter one by one and finishes (emitStructuredHeaders); or it    *)
(* sends one parameter in pieces (RFC 2231), each in its own encoding and  *)
(* in any order.  The reader is the constructor of StructuredHeaders       *)
(* (rawMimeParser.js) with the structured decoders.                        *)
(***************************************************************************)
EXTENDS HeaderEmitter

CONSTANTS
    AllMargins,      \* the options the emitter may be made with
    Fields,          \* the fields that may be added: [name, value]
    MaxFields,       \* bound: fields in one header block
    Values,          \* the values a parameter may have
    MaxPieces        \* bound: pieces of one value

VARIABLES
    emitter,     \* the header emitter, or Undefined
    fields,      \* the fields that were added
    finished,    \* was deliverEOF called?
    pieces       \* the pieces of the parameter that were written: [from, to, extended, value]

headerVars == <<emitter, fields, finished, pieces>>

InitHeaders == emitter = Undefined /\ fields = <<>> /\ finished = FALSE /\ pieces = <<>>

\* emitStructuredHeaders makes an emitter.
MakeEmitter ==
    /\ emitter = Undefined /\ pieces = <<>>
    /\ \E options \in AllMargins : emitter' = NewEmitter(options)
    /\ UNCHANGED <<fields, finished, pieces>>

\* One turn of the loops of emitStructuredHeaders.
AddField ==
    /\ emitter # Undefined /\ ~finished /\ ~emitter.failed /\ Len(fields) < MaxFields
    /\ \E field \in Fields :
         /\ emitter' = AddStructuredHeader(emitter, field.name, field.value)
         /\ fields' = Append(fields, field)
    /\ UNCHANGED <<finished, pieces>>

\* finish(true)
FinishHeaders ==
    /\ fields # <<>> /\ ~finished /\ ~emitter.failed
    /\ emitter' = EndHeader(emitter) /\ finished' = TRUE
    /\ UNCHANGED <<fields, pieces>>

\* The octets of a value.
OctetsOf(value) ==
    FlattenSeq([i \in DOMAIN value |->
                  IF value[i] \in DOMAIN Octets THEN Octets[value[i]] ELSE <<value[i]>>])
IsASCII(octets) == \A i \in DOMAIN octets : octets[i] \notin AllOctets

\* Another sender writes the octets from..to of a value, before or after others.  Octets
\* that are not ASCII go into an extended piece, and then the first is one as well; and
\* so do pieces of white space only, which the reader would drop (see the README).
WritePiece ==
    /\ emitter = Undefined /\ Len(pieces) < MaxPieces
    /\ \E value \in IF pieces = <<>> THEN Values ELSE {pieces[1].value}, extended \in BOOLEAN :
         LET octets == OctetsOf(value) IN
         \E from \in DOMAIN octets : \E to \in from..Len(octets) :
           /\ \A i \in DOMAIN pieces : to < pieces[i].from \/ pieces[i].to < from
           /\ extended \/ IsASCII(IF from = 1 THEN octets ELSE SubSeq(octets, from, to))
           /\ extended \/ \E i \in from..to : octets[i] # " "
           /\ pieces' = Append(pieces, [from |-> from, to |-> to, extended |-> extended, value |-> value])
    /\ UNCHANGED <<emitter, fields, finished>>

NextHeaders == MakeEmitter \/ AddField \/ FinishHeaders \/ WritePiece

-----------------------------------------------------------------------------
(* What the reader makes of the lines.                                     *)

\* A line that starts with a space continues the one before; a field is cut at its
\* first colon, and its value trimmed.
RawHeaders(lines) ==
    LET starts == Where(lines, LAMBDA i : lines[i] = <<>> \/ lines[i][1] # " ")
        Unfolded(k) ==
          FlattenSeq(SubSeq(lines, starts[k],
                            IF k = Len(starts) THEN Len(lines) ELSE starts[k + 1] - 1))
        Cut(line) ==
          LET colon == IndexOf(line, ":")
          IN  [name |-> Slice(line, 1, colon - 1), value |-> TrimLeft(TrimRight(Rest(line, colon + 1)))]
    IN  SelectSeq([k \in DOMAIN starts |-> Cut(Unfolded(k))], LAMBDA f : f.name # <<>>)

\* A value as it arrives: encoded words are ASCII, other characters come as octets.
Converted(value) ==
    IF \E i \in DOMAIN value : value[i] \in DOMAIN Octets THEN Convert8BitHeader(OctetsOf(value)) ELSE value

\* The structured value of the fields with a name.
Received(name) ==
    LET named == SelectSeq(RawHeaders(emitter.out), LAMBDA f : f.name = <<name>>)
    IN  IF named = <<>> THEN Undefined
        ELSE ParseStructuredHeader(name, [i \in DOMAIN named |-> Converted(named[i].value)])

Quoted(text) == <<"\"">> \o Escape(text) \o <<"\"">>

\* An address as a reader shows it: white space collapsed, a local part in quotes if it
\* needs them.
RECURSIVE Shown(_)
Shown(addr) ==
    LET at == LastIndexOf(addr.email, "@")
        local == Slice(addr.email, 1, at - 1)
        quoted == \E i \in DOMAIN local : local[i] \in MustQuote
    IN  IF "group" \in DOMAIN addr
        THEN Group(Squeeze(addr.name), [i \in DOMAIN addr.group |-> Shown(addr.group[i])])
        ELSE Mailbox(Squeeze(addr.name), IF quoted THEN Quoted(local) \o Rest(addr.email, at) ELSE addr.email)

\* What was sent in the fields with a name, as a reader should see it.
Sent(name) ==
    LET named == SelectSeq(fields, LAMBDA f : f.name = name)
        all == FlattenSeq([i \in DOMAIN named |-> named[i].value])
        moment == DateUTC(named[1].value.utc)
    IN  CASE named = <<>> -> Undefined
          [] named # <<>> /\ name \in Addressing -> [i \in DOMAIN all |-> Shown(all[i])]
          [] named # <<>> /\ name \in Dates ->
               IF emitter.sanitizeDate THEN [moment EXCEPT !.seconds = 0] ELSE moment
          [] OTHER -> Squeeze(named[1].value)

WrittenOctets == UNION {pieces[i].from..pieces[i].to : i \in DOMAIN pieces}

\* The number of a piece is that of the pieces before it in the value.
PieceName(i) ==
    LET before == Cardinality({j \in DOMAIN pieces : pieces[j].from < pieces[i].from})
        number == IF 1 \in WrittenOctets THEN before ELSE before + 1
        digit == CHOOSE d \in DOMAIN Digits : Digits[d] = number
    IN  <<"filename", "*", digit>> \o (IF pieces[i].extended THEN <<"*">> ELSE <<>>)

\* The charset of the value is given in its first piece.
PieceText(i) ==
    LET octets == SubSeq(OctetsOf(pieces[i].value), pieces[i].from, pieces[i].to)
        charset == IF pieces[i].from = 1 THEN <<"UTF-8", "'", "'">> ELSE <<>>
        coded == [k \in DOMAIN octets |->
                    IF octets[k] \in MayBePercent THEN Percent(octets[k]) ELSE octets[k]]
    IN  IF pieces[i].extended THEN charset \o coded ELSE Quoted(octets)

\* attachment; filename=old and the pieces, each on a line of its own.
Disposition ==
    <<"attachment", ";", " ", "filename", "=", "old">>
      \o FlattenSeq([i \in DOMAIN pieces |->
            <<";", "CRLF", " ">> \o PieceName(i) \o <<"=">> \o PieceText(i)])

-----------------------------------------------------------------------------
(* Properties.                                                             *)

\* An address that no line can hold, and that is not the first of its field.
Oversized ==
    \E k \in DOMAIN fields : fields[k].name \in Addressing /\
      \E i \in 2..Len(fields[k].value) :
        LET addr == fields[k].value[i]
        IN  "email" \in DOMAIN addr /\ LengthOf(addr.name) + LengthOf(addr.email) + 4 > emitter.hard

\* What is written is read back: every address with its name and every group, however
\* the lines were broken, every text in whichever encoded words, the moment of a date.
\* (EncodeFrom, AddAddress, ReserveTokenSpace against DecodeRFC2047Words,
\* ParseAddressingHeader, ParseDateHeader.)
HeadersComeBack ==
    finished /\ ~Oversized => \A name \in {f.name : f \in Fields} : Received(name) = Sent(name)

\* No line is longer than the hard margin, whichever breaks were preferred, and no line
\* is blank, which would end the headers.  (ReserveTokenSpace, CommitLine; a long address
\* that is not the first of its field is excepted, see the README.)
LinesFit ==
    emitter # Undefined => \A i \in DOMAIN emitter.out :
      /\ LengthOf(emitter.out[i]) <= emitter.hard
      /\ emitter.out[i] # <<>> \/ Oversized

\* A value in pieces is the same value whatever the order of the pieces, their encodings
\* and where it was cut, inside of a character too; while a piece at the start is
\* missing, the plain parameter counts.  (ParameterValue, Joined2231, Decode2231Value.)
PiecesComeTogether ==
    pieces # <<>> =>
      \A value \in {GetParameter(Disposition, <<"filename">>)} :
        /\ WrittenOctets = 1..Len(OctetsOf(pieces[1].value)) => value = pieces[1].value
        /\ 1 \notin WrittenOctets => value = <<"old">>

=============================================================================
