---------------------------- MODULE LossyRegister ----------------------------
(***************************************************************************)
(* What a tab's secure session storage promises for one item: a register   *)
(* that may lose its value at any time but never mixes two, whose value    *)
(* comes from a write that is under way, and where a write that was        *)
(* overtaken by a clear does not bring its value back.                     *)
(***************************************************************************)
CONSTANTS Writers, None

VARIABLES
    value,     \* the write whose data a read returns, or None
    writing,   \* the writes under way
    dead       \* the writes that can no longer take effect

vars == <<value, writing, dead>>

Init == value = None /\ writing = {} /\ dead = {}

Begin(w) ==
    /\ w \notin writing \cup dead /\ w # value
    /\ writing' = writing \cup {w}
    /\ UNCHANGED <<value, dead>>

\* The write takes effect, or finds that its turn has passed.
End(w) ==
    /\ w \in writing
    /\ writing' = writing \ {w}
    /\ \/ w \notin dead /\ value' = w
       \/ value' = None
    /\ dead' = dead \cup {w}

\* A clear, another write or a reload overtakes writes under way, and may
\* lose the value.
Overtake ==
    /\ value' \in {value, None}
    /\ writing' \subseteq writing
    /\ dead \subseteq dead' /\ dead' \subseteq dead \cup writing \cup {value}

Next == Overtake \/ \E w \in Writers : Begin(w) \/ End(w)

Spec == Init /\ [][Next]_vars
=============================================================================
