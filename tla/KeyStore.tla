------------------------------ MODULE KeyStore ------------------------------
(***************************************************************************)
(* What the pool of getWorkerPool.ts promises, with however many workers:  *)
(* one key store (KeyStore in api.ts), which takes its calls one at a      *)
(* time.  Which keys a call finds is settled when the call is taken,       *)
(* however late and in whatever order the calls are then answered.         *)
(*                                                                         *)
(* Only a key that was still being added when the store was cleared may be *)
(* there or not, and each call that refers to it may find it or not.       *)
(***************************************************************************)
CONSTANTS Calls,  \* the calls of the store, each made once
          None

VARIABLES
    state,     \* "shut", "open", or "closing" while it is being destroyed
    keys,      \* the keys that are there for certain
    doubtful,  \* the keys that were being added when the store was cleared
    call       \* each call's progress

vars == <<state, keys, doubtful, call>>

Adding == {"import", "generate", "derive"}
Clearing == {"clearKey", "clearKeyStore", "destroy"}
Using == {"use", "useAll"}
Referring == Using \cup {"derive", "clearKey"}

Idle == [kind |-> "none", ref |-> None, stage |-> "idle", fate |-> "none", result |-> "none"]

HandedOut(c) == call[c].kind \in Adding /\ call[c].result = "ok"
Asked(c) == call[c].stage = "asked" /\ call[c].result = "none"
UnderWay(c) == call[c].stage = "taken" /\ call[c].result = "none"
BeingAdded(c) == UnderWay(c) /\ call[c].kind \in Adding /\ call[c].fate # "barred"

Init ==
    /\ state = "shut" /\ keys = {} /\ doubtful = {}
    /\ call = [c \in Calls |-> Idle]

Open ==
    /\ state = "shut"
    /\ state' = "open"
    /\ UNCHANGED <<keys, doubtful, call>>

\* Calls refer to keys that were handed out. Where no store was ever opened, a
\* call may fail at once, and there is nothing to destroy.
Ask(c, kind, ref) ==
    /\ call[c].stage = "idle"
    /\ IF kind \in Referring THEN ref # None /\ HandedOut(ref) ELSE ref = None
    /\ \E result \in IF state = "shut"
                     THEN {"none", IF kind = "destroy" THEN "ok" ELSE "fail"}
                     ELSE {"none"} :
          call' = [call EXCEPT ![c] =
                     [Idle EXCEPT !.kind = kind, !.ref = ref, !.stage = "asked",
                                  !.result = result]]
    /\ UNCHANGED <<state, keys, doubtful>>

\* What a call that is taken now may find.
Fate(r) ==
    IF state # "open" THEN "barred"
    ELSE IF r.kind \notin Referring \/ r.ref \in keys THEN "sure"
    ELSE IF r.ref \in doubtful THEN "unsure" ELSE "barred"

\* The call takes its place among the calls, and clears what it clears.
Take(c) ==
    LET r == call[c]
    IN  /\ Asked(c)
        /\ \E result \in CASE state = "open" -> {"none"}
                           [] state = "closing" -> {"none", "fail"}
                           [] state = "shut" -> {"fail"} :
              call' = [call EXCEPT ![c] = [r EXCEPT !.stage = "taken", !.fate = Fate(r),
                                                    !.result = result]]
        /\ IF state # "open" THEN UNCHANGED <<state, keys, doubtful>>
           ELSE /\ state' = IF r.kind = "destroy" THEN "closing" ELSE state
                /\ keys' = CASE r.kind = "clearKey" -> keys \ {r.ref}
                             [] r.kind \in {"clearKeyStore", "destroy"} -> {}
                             [] OTHER -> keys
                /\ doubtful' = CASE r.kind = "clearKey" -> doubtful \ {r.ref}
                                 [] r.kind = "clearKeyStore" -> {d \in Calls : BeingAdded(d)}
                                 [] r.kind = "destroy" -> {}
                                 [] OTHER -> doubtful

\* A call succeeds if it may, and fails if it may: only the material of a key
\* can make a call fail that is sure of what it finds.
Answer(c) ==
    /\ UnderWay(c) /\ call[c].kind # "destroy"
    /\ \/ /\ call[c].fate # "barred"
          /\ call' = [call EXCEPT ![c].result = "ok"]
          /\ keys' = IF call[c].kind \in Adding /\ state = "open" /\ c \notin doubtful
                     THEN keys \cup {c} ELSE keys
          /\ UNCHANGED <<state, doubtful>>
       \/ /\ call[c].fate # "sure" \/ call[c].kind \in Adding
          /\ call' = [call EXCEPT ![c].result = "fail"]
          /\ doubtful' = doubtful \ {c}
          /\ UNCHANGED <<state, keys>>

\* The call that destroys the store, while it is at it.
Closes(c) == UnderWay(c) /\ call[c].kind = "destroy" /\ call[c].fate = "sure"

\* Calls are lost while the store is being destroyed.
Lose ==
    /\ state = "closing"
    /\ \E lost \in SUBSET {c \in Calls : UnderWay(c) /\ ~Closes(c)} :
          call' = [c \in Calls |-> IF c \in lost THEN [call[c] EXCEPT !.result = "lost"]
                                   ELSE call[c]]
    /\ UNCHANGED <<state, keys, doubtful>>

\* The store is gone: no call is still under way.
Close(c) ==
    /\ state = "closing" /\ Closes(c)
    /\ state' = "shut"
    /\ call' = [d \in Calls |->
          IF d = c THEN [call[d] EXCEPT !.result = "ok"]
          ELSE IF UnderWay(d) THEN [call[d] EXCEPT !.result = "lost"]
          ELSE IF Asked(d) THEN [call[d] EXCEPT !.result = "fail"]
          ELSE call[d]]
    /\ UNCHANGED <<keys, doubtful>>

Next ==
    \/ Open \/ Lose
    \/ \E c \in Calls :
        \/ \E kind \in Adding \cup Clearing \cup Using, ref \in Calls \cup {None} :
              Ask(c, kind, ref)
        \/ Take(c) \/ Answer(c) \/ Close(c)

Spec == Init /\ [][Next]_vars
=============================================================================
