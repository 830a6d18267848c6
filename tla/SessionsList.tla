---------------------------- MODULE SessionsList ----------------------------
(***************************************************************************)
(* SessionsClient of @proton/account: the sessions that a tab can switch   *)
(* to.  It joins what the browser knows (the IndexedDB entries of all tabs *)
(* and the cookie of SessionsStorage) with the API's list, caches the      *)
(* result under the local ids, and afterwards drops entries whose session  *)
(* the API refuses.                                                        *)
(*                                                                         *)
(* A uid stands for a session and its entry.  Logins and sign-outs, here   *)
(* and in other tabs, the account application that writes the cookie, and  *)
(* the API are external; a local id has one active session at a time.      *)
(***************************************************************************)
EXTENDS FiniteSets

CONSTANTS LocalIds, Uids, LocalIdOf(_), \* the local id of a session
          Calls, None

ASSUME UidAssumption == None \notin Uids /\ \A u \in Uids : LocalIdOf(u) \in LocalIds

VARIABLES
    db,         \* the stored session of every local id
    cookie,     \* the local ids in the cookie
    active,     \* the sessions that the API accepts
    cached,     \* the last list, as pairs of a listed and a stored session
    call,       \* the calls of getSessions
    cleanup,    \* the clean-up that every call has left running
    known       \* the sessions that were ever set up

vars == <<db, cookie, active, cached, call, cleanup, known>>

Entry == Uids \cup {None}
Item == [listed : Uids, stored : Entry]
Ids(items) == {LocalIdOf(i.listed) : i \in items}
Call == [step : {"none", "database", "network", "done"},
         cookie : SUBSET LocalIds, db : [LocalIds -> Entry], result : SUBSET Item]
Cleanup == [step : {"idle", "check", "delete", "pause"},
            uid : Entry, todo : SUBSET Uids]

Nobody == [l \in LocalIds |-> None]
NoCleanup == [step |-> "idle", uid |-> None, todo |-> {}]
Init ==
    /\ db = Nobody /\ cookie = {} /\ active = {} /\ cached = {} /\ known = {}
    /\ call = [c \in Calls |-> [step |-> "none", cookie |-> {}, db |-> Nobody,
                                result |-> {}]]
    /\ cleanup = [c \in Calls |-> NoCleanup]

-----------------------------------------------------------------------------
(* getSessions.                                                            *)

GetSessions(c) ==
    /\ call[c].step = "none"
    /\ call' = [call EXCEPT ![c].step = "database", ![c].cookie = cookie]
    /\ UNCHANGED <<db, cookie, active, cached, cleanup, known>>

LocalOf(r) == r.cookie \cup {l \in LocalIds : r.db[l] # None}

\* Variant: any list that was cached is returned.
ReadDatabaseOnce(c) ==
    /\ call[c].step = "database"
    /\ LET r == [call[c] EXCEPT !.db = db]
       IN  call' = [call EXCEPT ![c] =
             IF cached # {} THEN [r EXCEPT !.step = "done", !.result = cached]
             ELSE [r EXCEPT !.step = "network"]]
    /\ UNCHANGED <<db, cookie, active, cached, cleanup, known>>

\* With the local ids of the cached list, that list is returned.
ReadDatabase(c) ==
    /\ call[c].step = "database"
    /\ LET r == [call[c] EXCEPT !.db = db]
       IN  call' = [call EXCEPT ![c] =
             IF LocalOf(r) = Ids(cached)
             THEN [r EXCEPT !.step = "done", !.result = cached]
             ELSE [r EXCEPT !.step = "network"]]
    /\ UNCHANGED <<db, cookie, active, cached, cleanup, known>>

\* A list that cannot be fetched is empty.  The stored sessions that are not in
\* the list, by their local ids, are checked afterwards.
Network(c) ==
    /\ call[c].step = "network"
    /\ \E sessions \in {active, {}} :
         LET r == call[c]
             items == {[listed |-> u, stored |-> r.db[LocalIdOf(u)]] :
                         u \in {u \in sessions : LocalIdOf(u) \in LocalOf(r)}}
             missing == {r.db[l] : l \in LocalIds \ Ids(items)} \ {None}
         IN  /\ call' = [call EXCEPT ![c].step = "done", ![c].result = items]
             /\ cached' = items
             /\ cleanup' = [cleanup EXCEPT ![c] =
                  [@ EXCEPT !.step = IF missing = {} THEN "idle" ELSE "check",
                            !.todo = missing]]
    /\ UNCHANGED <<db, cookie, active, known>>

\* Variant: an answer that is not 200 counts as a refusal.
CheckAny(c) ==
    /\ cleanup[c].step = "check"
    /\ \E u \in cleanup[c].todo, fails \in BOOLEAN :
         cleanup' = [cleanup EXCEPT ![c] =
           [step |-> IF u \notin active \/ fails THEN "delete" ELSE "pause",
            uid |-> u, todo |-> @.todo \ {u}]]
    /\ UNCHANGED <<db, cookie, active, cached, call, known>>

\* Only a 401 counts; without an answer the clean-up ends.
Check(c) ==
    /\ cleanup[c].step = "check"
    /\ \/ \E u \in cleanup[c].todo, fails \in BOOLEAN :
            cleanup' = [cleanup EXCEPT ![c] =
              [step |-> IF u \notin active /\ ~fails THEN "delete" ELSE "pause",
               uid |-> u, todo |-> @.todo \ {u}]]
       \/ cleanup' = [cleanup EXCEPT ![c] = NoCleanup]
    /\ UNCHANGED <<db, cookie, active, cached, call, known>>

\* Entries are deleted by their local id; a deletion may fail.
DeleteEntry(c) ==
    /\ cleanup[c].step = "delete"
    /\ db' \in {db, [db EXCEPT ![LocalIdOf(cleanup[c].uid)] = None]}
    /\ cleanup' = [cleanup EXCEPT ![c].step = "pause"]
    /\ UNCHANGED <<cookie, active, cached, call, known>>

Pause(c) ==
    /\ cleanup[c].step = "pause"
    /\ cleanup' = [cleanup EXCEPT ![c] =
          IF @.todo = {} THEN NoCleanup ELSE [@ EXCEPT !.step = "check"]]
    /\ UNCHANGED <<db, cookie, active, cached, call, known>>

-----------------------------------------------------------------------------
(* Other tabs, the account application and the API.                        *)

\* A session replaces the one that its local id had.
Login(u) ==
    /\ u \notin known /\ known' = known \cup {u}
    /\ active' = {v \in active : LocalIdOf(v) # LocalIdOf(u)} \cup {u}
    /\ \E stored \in BOOLEAN : \* in this application, or only at account
         db' = IF stored THEN [db EXCEPT ![LocalIdOf(u)] = u] ELSE db
    /\ cookie' = cookie \cup {LocalIdOf(u)}
    /\ UNCHANGED <<cached, call, cleanup>>

SignOut(l) ==
    /\ db[l] # None
    /\ db' = [db EXCEPT ![l] = None] /\ active' = active \ {db[l]}
    /\ cookie' = cookie \ {l}
    /\ UNCHANGED <<cached, call, cleanup, known>>

Revoke(u) ==
    /\ u \in active /\ active' = active \ {u}
    /\ UNCHANGED <<db, cookie, cached, call, cleanup, known>>

Step(c) ==
    \/ ReadDatabase(c) \/ Network(c)
    \/ Check(c) \/ DeleteEntry(c) \/ Pause(c)

Next ==
    \/ \E c \in Calls : GetSessions(c) \/ Step(c)
    \/ \E u \in Uids : Login(u) \/ Revoke(u)
    \/ \E l \in LocalIds : SignOut(l)

Spec == Init /\ [][Next]_vars

-----------------------------------------------------------------------------
\* Every variable keeps its type, and entries are stored under their local id.
TypeOK ==
    /\ db \in [LocalIds -> Entry]
    /\ \A l \in LocalIds : db[l] # None => LocalIdOf(db[l]) = l
    /\ cookie \subseteq LocalIds /\ active \subseteq Uids
    /\ cached \subseteq Item  /\ known \subseteq Uids
    /\ call \in [Calls -> Call] /\ cleanup \in [Calls -> Cleanup]

\* Nobody is offered a session whose local id was unknown to the browser when
\* the list was asked for, even from a cache that another call has filled.
ListsWhatIsLocal ==
    /\ TypeOK
    /\ \A c \in Calls : call[c].step = "done" =>
         Ids(call[c].result) \subseteq LocalOf(call[c])

\* An active session that was stored when the list was asked for is not deleted
\* by its clean-up.
KeepsWhatWasRead ==
    [][\A c \in Calls :
         cleanup[c].step = "delete" /\ cleanup'[c].step # "delete"
           => \A l \in LocalIds :
                db[l] \in active /\ db[l] = call[c].db[l] => db'[l] = db[l]]_vars
=============================================================================
