----------------------------- MODULE Positions -----------------------------
(* The positions in a sequence, in their order, and the sequences they cut out. *)
EXTENDS Integers, Sequences

\* The positions of s at which P holds.
Where(s, P(_)) == SelectSeq([i \in DOMAIN s |-> i], P)

\* The elements of s at these positions.
Picked(s, positions) == [k \in DOMAIN positions |-> s[positions[k]]]

=============================================================================
