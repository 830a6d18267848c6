--------------------------- MODULE MCSessionsList ---------------------------
(* Instances of SessionsList for TLC: two sessions of one local id.        *)
EXTENDS SessionsList

CONSTANTS l1, l2, u1, u2, u3
MCLocalIdOf(u) == IF u = u3 THEN l2 ELSE l1
=============================================================================
