--------------------------- MODULE MCRefreshFlow ---------------------------
(* Instances of RefreshFlow for TLC.  Two calls share tab t1, so that one  *)
(* can join or be held by the refresh of the other; the third is made in   *)
(* t2, so that two refreshes of a uid can compete for the web lock.        *)
EXTENDS RefreshFlow

CONSTANTS t1, t2, c1, c2, c3, u1, u2

MCTabOf == [c \in Calls |-> IF c = c3 THEN t2 ELSE t1]

\* Bound: the second call of t1 is made only where nothing has happened to u2 and
\* no tab is configured for it, and from then on this stays so.
OneSession ==
    /\ \A t \in Tabs : configUid[t] = u1 /\ task[t][u2] = NoTask
    /\ \A c \in Calls : call[c].uid # u2
    /\ gen[u2] = 0 /\ ~expired[u2] /\ ~revoked[u2]
Within == call[c2].pc # "idle" => OneSession

MCNext == Next /\ Within'
MCSpec == Init /\ [][MCNext]_vars /\ Fairness

\* Calls that are done: what they were answered matters to nobody.
MCView ==
    <<[c \in Calls |-> IF call[c].pc = "done" THEN [pc |-> "done"] ELSE call[c]],
      task, holder, configUid, open, session, jar, orphan, lost, notified>>
=============================================================================
