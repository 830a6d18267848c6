---------------------------- MODULE TextDecoder ----------------------------
(* Octets to text, as jsmimeparser has it done by a TextDecoder for UTF-8: *)
(* characters that are not ASCII have two octets each.                     *)
EXTENDS Positions, FiniteSetsExt, SequencesExt

CONSTANT Octets       \* the characters that are not ASCII, and the octets of each

Unreadable == "<?>"

AllOctets == {Octets[c][k] : c \in DOMAIN Octets, k \in {1, 2}}

\* The character whose octets are at i, if there is one: a set of one or none.
CharactersAt(s, i) == {c \in DOMAIN Octets : i < Len(s) /\ SubSeq(s, i, i + 1) = Octets[c]}

\* What a streaming decoder makes of octets: the characters, and the octet of one
\* that is not complete yet.
DecodeOctets(s) ==
    LET end == IF s # <<>> /\ \E c \in DOMAIN Octets : Last(s) = Octets[c][1]
               THEN Len(s) - 1 ELSE Len(s)
        first == Where(SubSeq(s, 1, end), LAMBDA i : i = 1 \/ CharactersAt(s, i - 1) = {})
        Character(i) == CASE s[i] \notin AllOctets -> s[i]
                          [] s[i] \in AllOctets /\ CharactersAt(s, i) = {} -> Unreadable
                          [] OTHER -> CHOOSE c \in CharactersAt(s, i) : TRUE
    IN  [text |-> [k \in DOMAIN first |-> Character(first[k])], pending |-> SubSeq(s, end + 1, Len(s))]

Flush(pending) == IF pending = <<>> THEN <<>> ELSE <<Unreadable>>

\* All of it at once.
DecodeWhole(s) ==
    LET read == DecodeOctets(s) IN read.text \o Flush(read.pending)

=============================================================================
