------------------------------- MODULE Jsmime -------------------------------
(***************************************************************************)
(* The jsmimeparser package as its callers use it: one reads a message,    *)
(* another writes header fields or reads a parameter.  The two share the   *)
(* decoders and no state, so every step is a step of one of them.          *)
(***************************************************************************)
EXTENDS ProcessMIME, HeaderFields

CONSTANT Beside    \* bound: the tree of the messages beside which fields are written

AtRest == emitter = Undefined /\ pieces = <<>>
Unread == message.tree = Beside /\ message.newline = <<"LF">> /\ at = 0 /\ ~ended
            /\ message.options = DecodeAll

InitJsmime == Init /\ InitHeaders

NextJsmime ==
    \/ AtRest /\ Next /\ UNCHANGED headerVars
    \/ Unread /\ NextHeaders /\ UNCHANGED vars

SpecJsmime == InitJsmime /\ [][NextJsmime]_<<vars, headerVars>>

=============================================================================
