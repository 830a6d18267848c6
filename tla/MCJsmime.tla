------------------------------ MODULE MCJsmime ------------------------------
EXTENDS Jsmime

-----------------------------------------------------------------------------
(* Messages.                                                               *)

ContentType(type, boundary, name) ==
    [name |-> "content-type", value |-> [type |-> type, boundary |-> boundary, name |-> name]]
Disposed(attachment, filename) ==
    [name |-> "content-disposition", value |-> [attachment |-> attachment, filename |-> filename]]

MCField ==
  [w \in {"mixedA", "mixedB", "signedA", "digestB", "mixed", "html", "plain", "app", "sig",
          "rfc822", "headers", "from", "subject", "subject2", "base64", "qp", "attached", "inline"} |->
     CASE w = "mixedA" -> ContentType("multipart/mixed", "A", None)
       [] w = "mixedB" -> ContentType("multipart/mixed", "B", None)
       [] w = "signedA" -> ContentType("multipart/signed", "A", None)
       [] w = "digestB" -> ContentType("multipart/digest", "B", None)
       [] w = "mixed" -> ContentType("multipart/mixed", None, None)
       [] w = "html" -> ContentType("text/html", None, None)
       [] w = "plain" -> ContentType("text/plain", None, None)
       [] w = "app" -> ContentType("application/pdf", None, "a")
       [] w = "sig" -> ContentType("application/pgp-signature", None, None)
       [] w = "rfc822" -> ContentType("message/rfc822", None, None)
       [] w = "headers" -> ContentType("text/rfc822-headers", None, None)
       [] w = "from" -> [name |-> "from", value |-> "alice"]
       [] w \in {"subject", "subject2"} -> [name |-> "subject", value |-> w]
       [] w = "base64" -> [name |-> "content-transfer-encoding", value |-> "base64"]
       [] w = "qp" -> [name |-> "content-transfer-encoding", value |-> "quoted-printable"]
       [] w = "attached" -> Disposed(TRUE, "a")
       [] w = "inline" -> Disposed(FALSE, None)]

\* Two pairs are the octets of one character, and one pair is ASCII.
MCDecoded ==
  LET words == {"x1", "x2", "y1", "y2", "z1", "z2"}
  IN  [p \in words \X words |->
         CASE p = <<"x1", "x2">> -> "c3" [] p = <<"y1", "y2">> -> "a9"
           [] p = <<"z1", "z2">> -> "z" [] OTHER -> "?"]

T == Leaf(<<>>, <<"t">>)
Plain == {Leaf(<<>>, b) : b \in {<<>>, <<"t">>, <<"NL">>, <<"t", "NL">>, <<"NL", "t">>,
                                 <<"t", "NL", "NL", "u">>, <<"c3", "a9", "NL", "c3">>, <<"--B", "NL">>, <<"t", "--A">>}}
Coded == {Leaf(<<"app", "base64", "attached">>, <<"x1", "NL", "x2", "y1", "y2">>),
          Leaf(<<"html", "qp">>, <<"t", "=", "NL", "u", "NL">>), Leaf(<<"html", "base64">>, <<"z1", "NL", "z2">>)}
Some == {Leaf(<<>>, <<"t", "NL">>), Leaf(<<"html">>, <<>>)} \cup Coded
Inner ==
    {Multi(<<"mixedB">>, <<>>, <<l>>, closed, <<>>) : l \in Some, closed \in BOOLEAN}
      \cup {Multi(<<"digestB">>, <<"p", "NL">>,
                  <<Enclosed(<<>>, Leaf(<<"s">>, <<"t">>)), Leaf(<<"html">>, <<"t">>)>>,
                  TRUE, <<"NL", "e">>)}
      \cup {Enclosed(<<"rfc822">>, l) : l \in Some}
Outer ==
    {Multi(<<"s", "mixedA">>, pre, <<p>>, closed, <<>>) :
       pre \in {<<>>, <<"p", "NL">>}, p \in Plain, closed \in BOOLEAN}
      \cup {Multi(<<"mixedA">>, <<>>, <<p, Leaf(<<"inline">>, <<"u">>)>>, closed,
                  IF closed THEN <<"NL", "--A", "NL">> ELSE <<>>) :
              p \in Coded \cup Inner, closed \in BOOLEAN}
      \cup {Enclosed(<<"rfc822">>, Multi(<<"mixedA">>, <<>>, <<T>>, TRUE, <<>>))}

Two == Multi(<<"mixedB">>, <<>>, <<T, Leaf(<<"app">>, <<"t">>)>>, TRUE, <<>>)
SignedMessages ==
    {Multi(<<"subject", "signedA">>, pre, <<p, Leaf(<<"sig">>, <<s>>)>>, closed, e) :
       pre \in {<<>>, <<"p", "NL">>}, p \in {T, Two}, s \in {"sigT", "sigTwo", "no"},
       closed \in BOOLEAN, e \in {<<>>, <<"NL">>, <<"NL", "--A", "NL">>}}
Attached ==
    {Multi(<<"subject", "mixedA">>, <<>>,
           <<Leaf(<<"headers">>, <<"from", "NL", "subject2", "NL">>), a, a, b, Leaf(<<"app">>, <<"t">>)>>,
           TRUE, <<>>) :
       a \in {Leaf(<<"app">>, <<"t">>), Leaf(<<"sig">>, <<"sigT">>)},
       b \in {Leaf(<<"plain", "html">>, <<"t">>), Leaf(<<"mixed">>, <<"t">>)}}

\* A base64 text with its second line in the middle of a character.
SplitCharacter ==
    {Multi(<<"mixedA">>, <<>>, <<Leaf(<<"html", "base64">>, <<"x1", "x2", "NL", "y1", "y2">>)>>, TRUE, <<>>)}

MCMessages == Plain \cup Coded \cup Inner \cup Outer \cup SignedMessages \cup Attached
MCBeside == T

\* The texts that were signed, as they are with newlines of CRLF.
MCSigned == [s \in {"sigT", "sigTwo"} |->
               WithNewLines(Render(IF s = "sigT" THEN T ELSE Two), <<"CR", "LF">>)]
MCExtension == [t \in {"application/pgp-signature"} |-> "asc"]
MCNewLines == {<<"CR", "LF">>, <<"LF">>, <<"CR">>}
MCOptions ==
    {[bodyformat |-> "decode", pruneat |-> <<>>], [bodyformat |-> "raw", pruneat |-> <<>>],
     [bodyformat |-> "none", pruneat |-> <<>>], [bodyformat |-> "nodecode", pruneat |-> <<1>>]}

-----------------------------------------------------------------------------
(* Header fields.  w10 is a word of ten characters.                        *)

MCOctets == [c \in {"e'", "o"} |-> IF c = "e'" THEN <<"c3", "a9">> ELSE <<"c3", "b6">>]
MCCleaned == [c \in {"NUL"} |-> <<>>]
MCWidth == [w \in {"Subject", "Date", "w10", "w14", "h12", "h25", "east", "west", "utc", "utc0"} |->
              CASE w = "Subject" -> 7 [] w = "Date" -> 4 [] w = "w10" -> 10 [] w = "w14" -> 14
                [] w = "h12" -> 12 [] w = "h25" -> 25 [] OTHER -> 26]

\* One moment in three zones, and without its seconds.
Zone(sign, hours, minutes) == [sign |-> sign, hours |-> hours, minutes |-> minutes]
Day(hours, minutes, seconds) ==
    [year |-> 2024, month |-> 1, day |-> 2, hours |-> hours, minutes |-> minutes, seconds |-> seconds]
East == Day(12, 0, 5)
West == Day(2, 45, 5)
MCDateFields ==
  [w \in {"east", "west", "utc", "utc0"} |->
     CASE w = "east" -> East @@ [zone |-> Zone("+", 5, 30)]
       [] w = "west" -> West @@ [zone |-> Zone("-", 3, 45)]
       [] w = "utc" -> Day(6, 30, 5) @@ [zone |-> Zone("+", 0, 0)]
       [] w = "utc0" -> Day(6, 30, 0) @@ [zone |-> Zone("+", 0, 0)]]
MCDates == {[local |-> East, utc |-> Day(6, 30, 5), offset |-> -330],
            [local |-> West, utc |-> Day(6, 30, 5), offset |-> 225]}
MCKnownZones == [z \in {"GMT"} |-> Zone("+", 0, 0)]

MCAllMargins ==
    [softMargin : {10, 30, 38}, hardMargin : {20, 45, 998}, useASCII : {TRUE}, sanitizeDate : {TRUE}]
      \cup [softMargin : {30}, hardMargin : {45}, useASCII : {FALSE}, sanitizeDate : {FALSE}]

Box(name, local, host) == Mailbox(name, local \o <<"@", host>>)
LongName == <<"w14", " ", "w14", " ", "w14">>
Names == {<<>>, <<"A">>, <<"A", " ", "w10">>, <<"A", ",", " ", "B">>, <<"A", "\"", "B">>,
          <<"A", " ", "(", "B", ")">>, <<"e'", " ", "o">>,
          <<"e'", "o", "e'", "o", "e'", "a", " ", " ", "o", "o", "e'", "e'", "e'">>}
Lists ==
    {<<Box(n, l, "h12")>> : n \in Names \cup {LongName}, l \in {<<"a">>, <<"a", " ", "b">>, <<"a", "@", "\\">>}}
      \cup {<<Box(n, <<"a">>, "h25")>> : n \in {<<>>, <<"A">>}}
      \cup {<<Box(<<"A", " ", "w10">>, <<"b">>, "h12"), Box(n, <<"a">>, h)>> : n \in Names, h \in {"h12", "x"}}
      \cup {<<Group(g, l)>> : g \in {<<"G">>, <<"e'", " ", "G">>},
              l \in {<<>>, <<Box(<<>>, <<"a">>, "h12")>>,
                     <<Box(<<"B">>, <<"a">>, "x"), Box(<<"A", ".">>, <<"b">>, "h12")>>}}
      \cup {<<Box(<<>>, <<"a">>, "x"), Group(<<"G">>, <<Box(<<>>, <<"b">>, "x")>>), Box(<<"A">>, <<"b">>, "x")>>,
            <<Mailbox(<<"A", " ", "B">>, <<>>)>>}
Texts == {<<>>, <<"w10">>, <<"A", " ", " ", "w10", " ", "w14", " ", "B">>, <<"a", ",", "\"">>, <<"w14", "w14", "w14">>,
          <<"e'">>, <<"e'", "o", " ", "a", "e'", "o", "e'", "o", "e'", "o", "e'", "o", "=", "a", "e'">>,
          <<"o", "a", "a", "a", "a", "a", "a", "a", "a", "a", "a", "a", "e'", "e'">>}
MCFields == [name : {"To"}, value : Lists] \cup [name : {"Subject"}, value : Texts]
              \cup [name : {"Date"}, value : MCDates]
MCValues == {<<"a", " ", "b">>, <<"e'", "a", " ">>, <<"a", "\"", "o">>}

=============================================================================
