---------------------------- MODULE ChunkStream ----------------------------
(***************************************************************************)
(* What a stream promises that is read in another thread: the reader gets  *)
(* the source's chunks once and in order, the source gives a chunk only    *)
(* when the one before was taken, and the reader is told how it ended.     *)
(* Chunks are numbered in the order in which they are given.               *)
(***************************************************************************)
EXTENDS Naturals

VARIABLES
    given,   \* how many chunks the source gave
    taken,   \* the last chunk that the reader got
    source,  \* how the source goes on: open, done, failed or cancelled
    told,    \* what the reader is told of the end: none, done or error
    stopped  \* whether the reader has cancelled the stream

vars == <<given, taken, source, told, stopped>>

Init ==
    given = 0 /\ taken = 0 /\ source = "open" /\ told = "none" /\ stopped = FALSE

Give ==
    /\ source = "open" /\ given = taken
    /\ given' = given + 1
    /\ UNCHANGED <<taken, source, told, stopped>>

Take ==
    /\ taken < given /\ told = "none" /\ ~stopped
    /\ taken' = taken + 1
    /\ UNCHANGED <<given, source, told, stopped>>

\* The source ends by itself, or because the reader has cancelled.
End ==
    /\ source = "open"
    /\ \/ source' \in {"done", "failed"}
       \/ stopped /\ source' = "cancelled"
    /\ UNCHANGED <<given, taken, told, stopped>>

\* The end is told after the last chunk.
Tell ==
    /\ told = "none"
    /\ \/ told' = "done" /\ (stopped \/ (source = "done" /\ taken = given))
       \/ told' = "error" /\ source = "failed" /\ taken = given
    /\ UNCHANGED <<given, taken, source, stopped>>

Stop ==
    /\ told = "none" /\ stopped' = TRUE
    /\ told' \in {"none", "done"}
    /\ UNCHANGED <<given, taken, source>>

Next == Give \/ Take \/ End \/ Tell \/ Stop

Spec == Init /\ [][Next]_vars
=============================================================================
