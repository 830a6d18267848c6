---------------------------- MODULE SessionToken ----------------------------
(***************************************************************************)
(* What the token refresh of proton-fetch promises for one session: its    *)
(* rotating cookies are exchanged one exchange at a time, so that the jar  *)
(* follows the server, and the session is given up only after it ended on  *)
(* the server or an exchange was cut short.                                *)
(***************************************************************************)
EXTENDS Naturals

VARIABLES
    gen,        \* the token the server accepts
    jar,        \* the token in the cookie jar
    busy,       \* an exchange is under way
    lost,       \* an exchange was cut short
    revoked,    \* the server ended the session
    loggedOut   \* the application was told that the session is over

vars == <<gen, jar, busy, lost, revoked, loggedOut>>

Init ==
    /\ gen = 0 /\ jar = 0
    /\ ~busy /\ ~lost /\ ~revoked /\ ~loggedOut

Start ==
    /\ ~busy /\ busy'
    /\ UNCHANGED <<gen, jar, lost, revoked, loggedOut>>

\* The server rotates the token it was shown; after a cut exchange it may do
\* so at any time, for a request that was still under way.
Rotate ==
    /\ (busy /\ jar = gen) \/ lost
    /\ gen' = gen + 1
    /\ UNCHANGED <<jar, busy, lost, revoked, loggedOut>>

Store ==
    /\ busy /\ jar < gen
    /\ jar' = jar + 1
    /\ UNCHANGED <<gen, busy, lost, revoked, loggedOut>>

\* The exchange ends; it counts as cut short unless the jar caught up.
End ==
    /\ busy /\ ~busy'
    /\ lost => lost'
    /\ jar # gen => lost'
    /\ loggedOut => loggedOut'
    /\ loggedOut' /\ ~loggedOut => revoked \/ lost
    /\ lost' \in BOOLEAN /\ loggedOut' \in BOOLEAN
    /\ UNCHANGED <<gen, jar, revoked>>

Revoke ==
    /\ ~revoked /\ revoked'
    /\ UNCHANGED <<gen, jar, busy, lost, loggedOut>>

Next == Start \/ Rotate \/ Store \/ End \/ Revoke

Spec == Init /\ [][Next]_vars
=============================================================================
