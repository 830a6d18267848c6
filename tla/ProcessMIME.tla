----------------------------- MODULE ProcessMIME -----------------------------
(***************************************************************************)
(* processMIME of pmcrypto/message/processMIME.ts: it takes a message      *)
(* apart on its own to verify its signature (verifySignature), and has     *)
(* what was signed, or else the whole message, parsed (parse).             *)
(***************************************************************************)
EXTENDS MailParser, TLC

CONSTANTS
    Signed,       \* the words that are signatures, and the text each is over
    Extension,    \* the types with a file extension, and the extension
    Sender        \* the address of the sender

DecodeAll == [bodyformat |-> "decode", pruneat |-> <<>>]

-----------------------------------------------------------------------------
(* Names of attachments.                                                   *)

GenerateFileName(content) ==
    CASE AttachmentName(content) # None -> AttachmentName(content)
      [] AttachmentName(content) = None /\ content.type.type \in DOMAIN Extension ->
           "attachment." \o Extension[content.type.type]
      [] OTHER -> "attachment"

\* Variant: the first copy of a name is not counted.
RenamedFromZero(names) ==
    [i \in DOMAIN names |->
       LET copies == Cardinality({j \in 1..(i - 1) : names[j] = names[i]})
       IN  IF copies < 2 THEN names[i] ELSE names[i] \o " (" \o ToString(copies) \o ")"]

\* A name that was there before gets its count.
Renamed(names) ==
    [i \in DOMAIN names |->
       LET copies == Cardinality({j \in 1..(i - 1) : names[j] = names[i]})
       IN  IF copies = 0 THEN names[i] ELSE names[i] \o " (" \o ToString(copies) \o ")"]

\* The encrypted headers of a message (memoryhole): small, nameless and typed so.
EncryptedHeaders(part) ==
    AttachmentName(part.content) = None /\ part.content.type.type = "text/rfc822-headers"

-----------------------------------------------------------------------------
(* Reading.                                                                *)

\* The bodies with a separator between them, and with LF for CRLF; or none.
Joined(bodies, separator) ==
    LET all == FlattenSeq([i \in DOMAIN bodies |->
                             (IF i = 1 THEN <<>> ELSE separator) \o bodies[i]])
        kept == Where(all, LAMBDA i : ~(all[i] = "CR" /\ i < Len(all) /\ all[i + 1] = "LF"))
    IN  IF bodies = <<>> THEN None ELSE Picked(all, kept)

HeaderOf(s) == IF HeaderEnd(s) = None THEN s ELSE SubSeq(s, 1, HeaderEnd(s).at - 1)

\* The subject in encrypted headers, if they are from the sender.
SubjectIn(s) ==
    IF Get(HeaderOf(s), "from", None) = Sender THEN Get(HeaderOf(s), "subject", None) ELSE None

Presented(m, s, status) ==
    LET attached == [i \in DOMAIN m.attachments |-> m.parts[m.attachments[i]]]
        names == Renamed([i \in DOMAIN attached |-> GenerateFileName(attached[i].content)])
        subjects == SelectSeq([i \in DOMAIN attached |-> IF EncryptedHeaders(attached[i])
                                                       THEN SubjectIn(attached[i].body) ELSE None],
                              LAMBDA x : x # None)
        html == Joined(m.html, <<"<br>", "LF">>)
        plain == Joined(m.text, <<"LF">>)
        result ==
          [status |-> status,
           body |-> CASE html # None -> html [] html = None /\ plain # None -> plain
                      [] OTHER -> <<>>,
           mimeType |-> CASE html # None -> "text/html"
                          [] html = None /\ plain # None -> "text/plain" [] OTHER -> None,
           attachments |-> [i \in DOMAIN attached |->
              [name |-> IF EncryptedHeaders(attached[i]) THEN "Encrypted Headers.txt.txt" ELSE names[i],
               type |-> attached[i].content.type.type, content |-> attached[i].body]],
           subject |-> IF subjects # <<>> THEN subjects[1]
                       ELSE Get(HeaderOf(s), "subject", None)]
    IN  IF html = None /\ plain = None /\ attached = <<>> THEN [status |-> "throws"] ELSE result

Parse(s, status) == Presented(ParseSync(s, DecodeAll), s, status)

-----------------------------------------------------------------------------
(* Verification.                                                           *)

\* The pieces of s between the copies of sep (String.split).
RECURSIVE Split(_, _)
Split(s, sep) ==
    LET seps == {i \in DOMAIN s : IsPrefix(sep, From(s, i))}
    IN  IF seps = {} THEN <<s>>
        ELSE <<SubSeq(s, 1, Min(seps) - 1)>> \o Split(From(s, Min(seps) + Len(sep)), sep)

RECURSIVE Trim(_)
Trim(s) ==
    CASE s # <<>> /\ s[1] \in NewLine -> Trim(Tail(s))
      [] s # <<>> /\ Last(s) \in NewLine -> Trim(Front(s))
      [] OTHER -> s

\* removeTrailingSpaces, and CRLF for each LF.
Canonical(s) ==
    LET lines == Split(s, <<"LF">>)
        Stripped(line) == SubSeq(line, 1, Max({0} \cup {i \in DOMAIN line : line[i] # "CR"}))
    IN  FlattenSeq([i \in DOMAIN lines |->
                      (IF i = 1 THEN <<>> ELSE <<"CR", "LF">>) \o Stripped(lines[i])])

\* Whether the signature in a mail is over this text, if there is one in its first
\* attachment.
StatusOf(m, signed) ==
    LET first == m.parts[m.attachments[1]]
        armored == SelectSeq(first.body, LAMBDA w : w \in DOMAIN Signed)
    IN  CASE \/ m.attachments = <<>>
             \/ first.content.type.type # "application/pgp-signature" \/ armored = <<>> -> "NOT_SIGNED"
          [] OTHER -> IF Signed[armored[1]] = signed THEN "SIGNED_AND_VALID" ELSE "SIGNED_AND_INVALID"

Verified(s, status, signed) ==
    [data |-> IF status = "NOT_SIGNED" THEN s ELSE signed, status |-> status]

\* Variant: the newline before a delimiter counts as part of the text.
PartsBetweenKeeping(s, boundary) ==
    Split(Split(s, <<"LF", Terminator(boundary), "LF">>)[1], <<Delimiter(boundary), "LF">>)

\* What is between the delimiters.
PartsBetween(s, boundary) ==
    Split(Split(s, <<"LF", Terminator(boundary), "LF">>)[1], <<"LF", Delimiter(boundary), "LF">>)

\* The first part is the text, the second one has the signature.
VerifySignature(s) ==
    LET type == Get(HeaderOf(s), "content-type", DefaultType("text/plain"))
        parts == PartsBetween(s, type.boundary)
        signed == Canonical(parts[2])
    IN  IF type.type # "multipart/signed" \/ type.boundary = None \/ Len(parts) < 3
        THEN Verified(s, "NOT_SIGNED", <<>>)
        ELSE Verified(s, StatusOf(ParseSync(Trim(parts[3]), DecodeAll), signed), signed)

ParseVerified(verified) == Parse(verified.data, verified.status)
Process(s) == ParseVerified(VerifySignature(s))

-----------------------------------------------------------------------------

\* A message written as multipart/signed with newlines of LF.
IsSigned(m) ==
    /\ m.newline = <<"LF">> /\ m.tree.kind = "multi"
    /\ Type(m.tree, "text/plain").type = "multipart/signed"
    /\ Len(m.tree.parts) = 2
    /\ Type(m.tree.parts[2], "text/plain").type = "application/pgp-signature"
    /\ m.tree.parts[2].body[1] \in DOMAIN Signed

\* What is verified is what is shown.  A message that was written as multipart/signed
\* and signed by its sender is found to be valid, a changed one invalid, and in both
\* cases what is shown is the first part, as the mail parser delimits it and not only
\* as verifySignature does: nothing from outside of the signed text, and all of it.
VerifiedIsShown ==
    at = 0 =>
      LET part == WithNewLines(Render(message.tree.parts[1]), <<"CR", "LF">>)
          status == IF Signed[message.tree.parts[2].body[1]] = part
                    THEN "SIGNED_AND_VALID" ELSE "SIGNED_AND_INVALID"
      IN  Process(text) = Parse(IF IsSigned(message) THEN part ELSE text,
                                IF IsSigned(message) THEN status ELSE "NOT_SIGNED")

\* Attachments of the same name are told apart by the names they get, as long as
\* nobody names one the way the code would.
NamesAreDistinct ==
    at = 0 => \E result \in {Process(text)} :
                result.status # "throws" =>
                  \A i, j \in DOMAIN result.attachments :
                    i # j => result.attachments[i].name # result.attachments[j].name

=============================================================================
