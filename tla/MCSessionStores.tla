-------------------------- MODULE MCSessionStores --------------------------
(* Instances of SessionStores for TLC: two tabs, a session saved before,   *)
(* and calls that overlap in and across tabs; calls of setItem that        *)
(* overlap, most of them for one item as the session is stored.            *)
EXTENDS SessionStores, TLC

CONSTANTS o1, s1, s2, s3, s4, session, other

MCOldLocalId == [u \in OldUids |-> IF u = o1 THEN 1 ELSE 2]
MCKeyOf == [c \in Saves |-> IF c = s1 THEN other ELSE session]

\* Calls, and tabs, are told apart by nothing but their names.
Symmetric == Permutations(Calls) \cup Permutations(Tabs)
=============================================================================
