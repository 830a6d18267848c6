------------------------ MODULE SessionsList_proofs ------------------------
(***************************************************************************)
(* That the list offers only what the browser knows, and that its clean-up *)
(* deletes no active session it was started with: for any local ids, any   *)
(* sessions and any number of overlapping calls, logins and sign-outs.     *)
(***************************************************************************)
EXTENDS SessionsList, TLAPS

-----------------------------------------------------------------------------
(* The inductive invariant.                                                *)

\* Sessions are stored under their local id, and were set up before.
StoredAreKnown(d) ==
    \A l \in LocalIds : d[l] # None => d[l] \in known /\ LocalIdOf(d[l]) = l

\* What the calls have read, and the sessions the API accepts, were set up.
ReadAreKnown ==
    /\ active \subseteq known
    /\ StoredAreKnown(db)
    /\ \A c \in Calls : StoredAreKnown(call[c].db)

\* A clean-up follows its call, and checks the sessions that the call has read.
ChecksWhatWasRead ==
    \A c \in Calls :
      /\ cleanup[c].step # "idle" => call[c].step = "done"
      /\ cleanup[c].step = "idle" => cleanup[c] = NoCleanup
      /\ \A u \in cleanup[c].todo : call[c].db[LocalIdOf(u)] = u

\* A session that was refused stays refused until its entry is deleted: a
\* session that ended does not begin again.
DeletesRefused ==
    \A c \in Calls : cleanup[c].step = "delete" =>
      /\ cleanup[c].uid \in known \ active
      /\ call[c].db[LocalIdOf(cleanup[c].uid)] = cleanup[c].uid

\* Together they are kept by every step.
ListInv ==
    /\ ListsWhatIsLocal
    /\ ReadAreKnown /\ ChecksWhatWasRead /\ DeletesRefused

-----------------------------------------------------------------------------
(* The initial states.                                                     *)

\* Nothing is stored, read or checked at first.
LEMMA ListInvInit == ASSUME Init PROVE ListInv
<1>1. TypeOK
  BY UidAssumption DEF Init, TypeOK, Call, Cleanup, Entry, Nobody, NoCleanup
<1>2. ListsWhatIsLocal
  BY <1>1 DEF ListsWhatIsLocal, Init
<1>3. ReadAreKnown
  BY DEF Init, ReadAreKnown, StoredAreKnown, Nobody
<1>4. ChecksWhatWasRead /\ DeletesRefused
  BY DEF Init, ChecksWhatWasRead, DeletesRefused, NoCleanup
<1> QED BY <1>2, <1>3, <1>4 DEF ListInv

-----------------------------------------------------------------------------
(* The steps of getSessions.                                               *)

\* A new call has read nothing yet.
LEMMA GetSessionsKeeps ==
    ASSUME ListInv, NEW c \in Calls, GetSessions(c) PROVE ListInv'
<1>1. TypeOK
  BY DEF ListInv, ListsWhatIsLocal
<1> DEFINE r == [call[c] EXCEPT !.step = "database", !.cookie = cookie]
<1>2. call' = [call EXCEPT ![c] = r] /\ call[c] \in Call /\ call[c].step = "none"
  BY <1>1 DEF GetSessions, TypeOK
<1>3. r \in Call /\ r.step = "database" /\ r.db = call[c].db
  BY <1>1, <1>2 DEF TypeOK, Call
<1> HIDE DEF r
<1>4. UNCHANGED <<db, cookie, active, cached, cleanup, known>>
  BY DEF GetSessions
<1>5. \A k \in Calls : call'[k] = IF k = c THEN r ELSE call[k]
  BY <1>1, <1>2 DEF TypeOK
<1>6. TypeOK'
  BY <1>1, <1>2, <1>3, <1>4 DEF TypeOK
<1>7. ListsWhatIsLocal'
  BY <1>3, <1>5, <1>6 DEF ListInv, ListsWhatIsLocal, LocalOf, Ids
<1>8. ReadAreKnown'
  BY <1>3, <1>4, <1>5 DEF ListInv, ReadAreKnown, StoredAreKnown
<1>9. ChecksWhatWasRead' /\ DeletesRefused'
  BY <1>2, <1>3, <1>4, <1>5 DEF ListInv, ChecksWhatWasRead, DeletesRefused
<1> QED BY <1>7, <1>8, <1>9 DEF ListInv

\* A call that reads the database has no clean-up; a cached list that it returns
\* is one for the local ids it has read.
LEMMA ReadDatabaseKeeps ==
    ASSUME ListInv, NEW c \in Calls, ReadDatabase(c) PROVE ListInv'
<1>1. TypeOK
  BY DEF ListInv, ListsWhatIsLocal
<1> DEFINE read == [call[c] EXCEPT !.db = db]
           r == IF LocalOf(read) = Ids(cached)
                THEN [read EXCEPT !.step = "done", !.result = cached]
                ELSE [read EXCEPT !.step = "network"]
<1>2. call' = [call EXCEPT ![c] = r] /\ call[c] \in Call /\ call[c].step = "database"
  BY <1>1 DEF ReadDatabase, TypeOK
<1>3. /\ r \in Call /\ r.db = db /\ r.cookie = read.cookie /\ read.db = db
      /\ r.step = "done" => r.result = cached /\ LocalOf(read) = Ids(cached)
  BY <1>1, <1>2 DEF TypeOK, Call
<1>4. r.step = "done" => Ids(r.result) \subseteq LocalOf(r)
  BY <1>3 DEF LocalOf
<1> HIDE DEF r
<1>5. UNCHANGED <<db, cookie, active, cached, cleanup, known>>
  BY DEF ReadDatabase
<1>6. \A k \in Calls : call'[k] = IF k = c THEN r ELSE call[k]
  BY <1>1, <1>2 DEF TypeOK
<1>7. TypeOK'
  BY <1>1, <1>2, <1>3, <1>5 DEF TypeOK
<1>8. ListsWhatIsLocal'
  <2>1. SUFFICES ASSUME NEW k \in Calls, call'[k].step = "done"
                 PROVE  Ids(call'[k].result) \subseteq LocalOf(call'[k])
    BY <1>7 DEF ListsWhatIsLocal, Ids, LocalOf
  <2>2. CASE k = c
    BY <1>4, <1>6, <2>1, <2>2
  <2>3. CASE k # c
    BY <1>6, <2>1, <2>3 DEF ListInv, ListsWhatIsLocal
  <2> QED BY <2>2, <2>3
<1>9. ReadAreKnown'
  BY <1>3, <1>5, <1>6 DEF ListInv, ReadAreKnown, StoredAreKnown
<1>10. cleanup[c] = NoCleanup
  BY <1>2 DEF ListInv, ChecksWhatWasRead
<1>11. ChecksWhatWasRead' /\ DeletesRefused'
  BY <1>5, <1>6, <1>10
     DEF ListInv, ChecksWhatWasRead, DeletesRefused, NoCleanup
<1> QED BY <1>8, <1>9, <1>11 DEF ListInv

\* The list is cut to the local ids, and what is missing from it comes from what
\* the call has read.
LEMMA NetworkKeeps ==
    ASSUME ListInv, NEW c \in Calls, Network(c) PROVE ListInv'
<1>1. TypeOK
  BY DEF ListInv, ListsWhatIsLocal
<1>0. PICK sessions \in {active, {}} :
      LET r == call[c]
          items == {[listed |-> u, stored |-> r.db[LocalIdOf(u)]] :
                      u \in {u \in sessions : LocalIdOf(u) \in LocalOf(r)}}
          missing == {r.db[l] : l \in LocalIds \ Ids(items)} \ {None}
      IN  /\ call' = [call EXCEPT ![c].step = "done", ![c].result = items]
          /\ cached' = items
          /\ cleanup' = [cleanup EXCEPT ![c] =
               [@ EXCEPT !.step = IF missing = {} THEN "idle" ELSE "check",
                         !.todo = missing]]
  BY DEF Network
<1> DEFINE items == {[listed |-> u, stored |-> call[c].db[LocalIdOf(u)]] :
                       u \in {u \in sessions : LocalIdOf(u) \in LocalOf(call[c])}}
           missing == {call[c].db[l] : l \in LocalIds \ Ids(items)} \ {None}
           r == [call[c] EXCEPT !.step = "done", !.result = items]
           k == [cleanup[c] EXCEPT !.step = IF missing = {} THEN "idle" ELSE "check",
                                   !.todo = missing]
<1>2. /\ call[c] \in Call /\ call[c].step = "network"
      /\ call' = [call EXCEPT ![c] = r] /\ cached' = items
      /\ cleanup' = [cleanup EXCEPT ![c] = k]
      /\ cleanup[c] \in Cleanup
  <2>1. call[c] \in Call /\ call[c].step = "network" /\ cleanup[c] \in Cleanup
    BY <1>1 DEF Network, TypeOK
  <2>2. call' = [call EXCEPT ![c] = r]
    BY <1>0, <1>1, <2>1 DEF TypeOK, Call
  <2> QED BY <1>0, <2>1, <2>2
<1>3. items \subseteq Item /\ missing \subseteq Uids
  <2>1. call[c].db \in [LocalIds -> Entry] /\ sessions \subseteq Uids
    BY <1>1, <1>2 DEF TypeOK, Call
  <2>2. items \subseteq Item
    <3>1. SUFFICES ASSUME NEW u \in sessions
                   PROVE  [listed |-> u, stored |-> call[c].db[LocalIdOf(u)]] \in Item
      OBVIOUS
    <3>2. u \in Uids /\ call[c].db[LocalIdOf(u)] \in Entry
      BY <2>1, UidAssumption
    <3> QED BY <3>2 DEF Item
  <2>3. missing \subseteq Uids
    BY <2>1 DEF Entry
  <2> QED BY <2>2, <2>3
<1>4. Ids(items) \subseteq LocalOf(call[c])
  BY DEF Ids
<1>5. \A u \in missing : call[c].db[LocalIdOf(u)] = u
  <2>1. StoredAreKnown(call[c].db)
    BY DEF ListInv, ReadAreKnown
  <2> QED BY <2>1 DEF StoredAreKnown
<1> HIDE DEF items, missing
<1>6. /\ r \in Call /\ r.step = "done" /\ r.result = items
      /\ r.db = call[c].db /\ r.cookie = call[c].cookie
  BY <1>2, <1>3 DEF Call
<1>7. LocalOf(r) = LocalOf(call[c])
  BY <1>6 DEF LocalOf
<1>8. cleanup[c] = NoCleanup
  BY <1>2 DEF ListInv, ChecksWhatWasRead
<1>9. /\ k \in Cleanup /\ k.step \in {"idle", "check"} /\ k.todo = missing
      /\ k.step = "idle" => missing = {}
      /\ k.uid = cleanup[c].uid
  BY <1>2, <1>3 DEF Cleanup
<1>10. k.step = "idle" => k = NoCleanup
  <2> HIDE DEF k
  <2>1. k = [step |-> k.step, uid |-> k.uid, todo |-> k.todo]
    BY <1>9 DEF Cleanup
  <2> QED BY <1>8, <1>9, <2>1 DEF NoCleanup
<1> HIDE DEF r, k
<1>11. UNCHANGED <<db, cookie, active, known>>
  BY DEF Network
<1>12. \A j \in Calls : /\ call'[j] = IF j = c THEN r ELSE call[j]
                        /\ cleanup'[j] = IF j = c THEN k ELSE cleanup[j]
  BY <1>1, <1>2 DEF TypeOK
<1>13. TypeOK'
  BY <1>1, <1>2, <1>3, <1>6, <1>9, <1>11 DEF TypeOK
<1>14. ListsWhatIsLocal'
  <2>1. SUFFICES ASSUME NEW j \in Calls, call'[j].step = "done"
                 PROVE  Ids(call'[j].result) \subseteq LocalOf(call'[j])
    BY <1>13 DEF ListsWhatIsLocal, Ids, LocalOf
  <2>2. CASE j = c
    BY <1>4, <1>6, <1>7, <1>12, <2>2
  <2>3. CASE j # c
    BY <1>12, <2>1, <2>3 DEF ListInv, ListsWhatIsLocal
  <2> QED BY <2>2, <2>3
<1>15. ReadAreKnown'
  <2>1. \A j \in Calls : call'[j].db = call[j].db
    BY <1>6, <1>12
  <2> QED BY <1>11, <2>1 DEF ListInv, ReadAreKnown, StoredAreKnown
<1>16. ChecksWhatWasRead'
  <2>1. SUFFICES ASSUME NEW j \in Calls
                 PROVE  /\ cleanup'[j].step # "idle" => call'[j].step = "done"
                        /\ cleanup'[j].step = "idle" => cleanup'[j] = NoCleanup
                        /\ \A u \in cleanup'[j].todo : call'[j].db[LocalIdOf(u)] = u
    BY DEF ChecksWhatWasRead, NoCleanup
  <2>2. CASE j = c
    BY <1>5, <1>6, <1>9, <1>10, <1>12, <2>2
  <2>3. CASE j # c
    BY <1>12, <2>3 DEF ListInv, ChecksWhatWasRead
  <2> QED BY <2>2, <2>3
<1>17. DeletesRefused'
  BY <1>9, <1>11, <1>12 DEF ListInv, DeletesRefused
<1> QED BY <1>14, <1>15, <1>16, <1>17 DEF ListInv

-----------------------------------------------------------------------------
(* The clean-up.                                                           *)

\* The API refuses a session that ended, which no login begins again.
LEMMA CheckKeeps ==
    ASSUME ListInv, NEW c \in Calls, Check(c) PROVE ListInv'
<1>1. TypeOK
  BY DEF ListInv, ListsWhatIsLocal
<1>2. /\ UNCHANGED <<db, cookie, active, cached, call, known>>
      /\ cleanup[c].step = "check" /\ cleanup[c] \in Cleanup
  BY <1>1 DEF Check, TypeOK
<1>3. call[c].step = "done" /\ call[c] \in Call
  BY <1>1, <1>2 DEF ListInv, ChecksWhatWasRead, TypeOK
<1>4. PICK k : cleanup' = [cleanup EXCEPT ![c] = k] /\
        \/ k = NoCleanup
        \/ \E u \in cleanup[c].todo, fails \in BOOLEAN :
             k = [step |-> IF u \notin active /\ ~fails THEN "delete" ELSE "pause",
                  uid |-> u, todo |-> cleanup[c].todo \ {u}]
  BY <1>1 DEF Check, TypeOK
<1>5. \A u \in cleanup[c].todo : u \in Uids /\ u \in known /\ u # None
                                 /\ call[c].db[LocalIdOf(u)] = u
  <2>1. SUFFICES ASSUME NEW u \in cleanup[c].todo
                 PROVE  u \in Uids /\ u \in known /\ u # None
                        /\ call[c].db[LocalIdOf(u)] = u
    OBVIOUS
  <2>2. u \in Uids
    BY <1>2 DEF Cleanup
  <2>3. call[c].db[LocalIdOf(u)] = u
    BY DEF ListInv, ChecksWhatWasRead
  <2>4. StoredAreKnown(call[c].db)
    BY DEF ListInv, ReadAreKnown
  <2> QED BY <2>2, <2>3, <2>4, UidAssumption DEF StoredAreKnown
<1>6. /\ k \in Cleanup /\ k.todo \subseteq cleanup[c].todo
      /\ k.step = "idle" => k = NoCleanup
      /\ k.step = "delete" => k.uid \in cleanup[c].todo \ active
  BY <1>2, <1>4, <1>5 DEF Cleanup, NoCleanup, Entry
<1>7. \A j \in Calls : cleanup'[j] = IF j = c THEN k ELSE cleanup[j]
  BY <1>1, <1>4 DEF TypeOK
<1>8. TypeOK'
  BY <1>1, <1>2, <1>4, <1>6 DEF TypeOK
<1>9. ListsWhatIsLocal' /\ ReadAreKnown'
  BY <1>2, <1>8
     DEF ListInv, ListsWhatIsLocal, ReadAreKnown, StoredAreKnown, Ids, LocalOf
<1>10. ChecksWhatWasRead'
  BY <1>2, <1>3, <1>5, <1>6, <1>7 DEF ListInv, ChecksWhatWasRead, NoCleanup
<1>11. DeletesRefused'
  BY <1>2, <1>5, <1>6, <1>7 DEF ListInv, DeletesRefused
<1> QED BY <1>9, <1>10, <1>11 DEF ListInv

\* A deletion touches one entry, and leaves the others as they were.
LEMMA DeleteEntryKeeps ==
    ASSUME ListInv, NEW c \in Calls, DeleteEntry(c) PROVE ListInv'
<1>1. TypeOK
  BY DEF ListInv, ListsWhatIsLocal
<1> DEFINE k == [cleanup[c] EXCEPT !.step = "pause"]
<1>2. /\ UNCHANGED <<cookie, active, cached, call, known>>
      /\ cleanup[c].step = "delete" /\ cleanup[c] \in Cleanup
      /\ cleanup' = [cleanup EXCEPT ![c] = k]
  BY <1>1 DEF DeleteEntry, TypeOK
<1>3. k \in Cleanup /\ k.step = "pause" /\ k.todo = cleanup[c].todo
  BY <1>2 DEF Cleanup
<1> HIDE DEF k
<1>4. \A j \in Calls : cleanup'[j] = IF j = c THEN k ELSE cleanup[j]
  BY <1>1, <1>2 DEF TypeOK
<1>5. db' \in [LocalIds -> Entry] /\ \A l \in LocalIds : db'[l] \in {db[l], None}
  BY <1>1 DEF DeleteEntry, TypeOK, Entry
<1>6. TypeOK'
  BY <1>1, <1>2, <1>3, <1>5 DEF TypeOK
<1>7. ListsWhatIsLocal'
  BY <1>2, <1>6 DEF ListInv, ListsWhatIsLocal, Ids, LocalOf
<1>8. ReadAreKnown'
  BY <1>2, <1>5 DEF ListInv, ReadAreKnown, StoredAreKnown
<1>9. ChecksWhatWasRead' /\ DeletesRefused'
  BY <1>2, <1>3, <1>4 DEF ListInv, ChecksWhatWasRead, DeletesRefused
<1> QED BY <1>7, <1>8, <1>9 DEF ListInv

\* The next check concerns what is left.
LEMMA PauseKeeps ==
    ASSUME ListInv, NEW c \in Calls, Pause(c) PROVE ListInv'
<1>1. TypeOK
  BY DEF ListInv, ListsWhatIsLocal
<1> DEFINE k == IF cleanup[c].todo = {} THEN NoCleanup
                ELSE [cleanup[c] EXCEPT !.step = "check"]
<1>2. /\ UNCHANGED <<db, cookie, active, cached, call, known>>
      /\ cleanup[c].step = "pause" /\ cleanup[c] \in Cleanup
      /\ cleanup' = [cleanup EXCEPT ![c] = k]
  BY <1>1 DEF Pause, TypeOK
<1>3. call[c].step = "done"
  BY <1>2 DEF ListInv, ChecksWhatWasRead
<1>4. /\ k \in Cleanup /\ k.step \in {"idle", "check"}
      /\ k.step = "idle" => k = NoCleanup
      /\ k.todo = cleanup[c].todo
  BY <1>2 DEF Cleanup, NoCleanup, Entry
<1> HIDE DEF k
<1>5. \A j \in Calls : cleanup'[j] = IF j = c THEN k ELSE cleanup[j]
  BY <1>1, <1>2 DEF TypeOK
<1>6. TypeOK'
  BY <1>1, <1>2, <1>4 DEF TypeOK
<1>7. ListsWhatIsLocal' /\ ReadAreKnown'
  BY <1>2, <1>6
     DEF ListInv, ListsWhatIsLocal, ReadAreKnown, StoredAreKnown, Ids, LocalOf
<1>8. ChecksWhatWasRead' /\ DeletesRefused'
  BY <1>2, <1>3, <1>4, <1>5 DEF ListInv, ChecksWhatWasRead, DeletesRefused
<1> QED BY <1>7, <1>8 DEF ListInv

-----------------------------------------------------------------------------
(* Other tabs and the API.                                                 *)

\* A login makes a session that was not known: none that was refused.
LEMMA OthersKeep ==
    ASSUME ListInv,
           \/ \E u \in Uids : Login(u) \/ Revoke(u)
           \/ \E l \in LocalIds : SignOut(l)
    PROVE  ListInv'
<1>1. TypeOK
  BY DEF ListInv, ListsWhatIsLocal
<1>2. UNCHANGED <<call, cleanup, cached>>
  BY DEF Login, Revoke, SignOut
<1>3. /\ known \subseteq known' /\ active' \subseteq known'
      /\ (active' \cap known) \subseteq active /\ known' \subseteq Uids
  BY <1>1 DEF Login, Revoke, SignOut, TypeOK, ListInv, ReadAreKnown
<1>4. /\ db' \in [LocalIds -> Entry] /\ cookie' \subseteq LocalIds
      /\ \A l \in LocalIds : \/ db'[l] \in {db[l], None}
                             \/ db'[l] \in known' /\ LocalIdOf(db'[l]) = l
  BY <1>1, UidAssumption DEF Login, Revoke, SignOut, TypeOK, Entry
<1>5. TypeOK'
  BY <1>1, <1>2, <1>3, <1>4 DEF TypeOK
<1>6. ListsWhatIsLocal'
  BY <1>2, <1>5 DEF ListInv, ListsWhatIsLocal, Ids, LocalOf
<1>7. ReadAreKnown'
  BY <1>2, <1>3, <1>4 DEF ListInv, ReadAreKnown, StoredAreKnown
<1>8. ChecksWhatWasRead' /\ DeletesRefused'
  BY <1>2, <1>3 DEF ListInv, ChecksWhatWasRead, DeletesRefused
<1> QED BY <1>6, <1>7, <1>8 DEF ListInv

-----------------------------------------------------------------------------
(* The theorems.                                                           *)

\* Every step keeps the invariant.
LEMMA ListInvStep == ASSUME ListInv, [Next]_vars PROVE ListInv'
<1>1. ASSUME UNCHANGED vars PROVE ListInv'
  BY <1>1 DEF vars, ListInv, ListsWhatIsLocal, TypeOK, ReadAreKnown, StoredAreKnown,
              ChecksWhatWasRead, DeletesRefused, Ids, LocalOf
<1>2. ASSUME NEW c \in Calls, GetSessions(c) \/ Step(c) PROVE ListInv'
  BY <1>2, GetSessionsKeeps, ReadDatabaseKeeps, NetworkKeeps, CheckKeeps,
     DeleteEntryKeeps, PauseKeeps DEF Step
<1>3. ASSUME Next PROVE ListInv'
  BY <1>2, <1>3, OthersKeep DEF Next
<1> QED BY <1>1, <1>3

\* The inductive invariant: what was read and refused stays so until its entry is
\* deleted.
THEOREM Invariance == Spec => []ListInv
BY ListInvInit, ListInvStep, PTL DEF Spec

\* Nobody is offered a session whose local id was unknown to the browser when
\* the list was asked for, for any number of calls that share the cache.
THEOREM ListIsLocal == Spec => []ListsWhatIsLocal
<1>1. ListInv => ListsWhatIsLocal
  BY DEF ListInv
<1> QED BY <1>1, Invariance, PTL

\* A step that ends a deletion spares the active sessions its call had read.
LEMMA DeletionSparesActive ==
    ASSUME ListInv, [Next]_vars
    PROVE  \A c \in Calls :
             cleanup[c].step = "delete" /\ cleanup'[c].step # "delete"
               => \A l \in LocalIds :
                    db[l] \in active /\ db[l] = call[c].db[l] => db'[l] = db[l]
<1> SUFFICES ASSUME NEW c \in Calls,
                    cleanup[c].step = "delete", cleanup'[c].step # "delete",
                    NEW l \in LocalIds, db[l] \in active, db[l] = call[c].db[l]
             PROVE  db'[l] = db[l]
  OBVIOUS
<1>1. TypeOK
  BY DEF ListInv, ListsWhatIsLocal
<1>2. ASSUME NEW d \in Calls, GetSessions(d) \/ Step(d) PROVE d = c /\ DeleteEntry(c)
  <2>1. cleanup \in [Calls -> Cleanup] /\ cleanup'[c] # cleanup[c]
    BY <1>1 DEF TypeOK
  <2>2. CASE GetSessions(d) \/ ReadDatabase(d)
    BY <2>1, <2>2 DEF GetSessions, ReadDatabase
  <2>3. CASE Network(d)
    <3>1. d = c /\ call[d].step = "network"
      BY <2>1, <2>3 DEF Network
    <3> QED BY <3>1 DEF ListInv, ChecksWhatWasRead
  <2>4. CASE Check(d)
    BY <2>1, <2>4 DEF Check
  <2>5. CASE DeleteEntry(d)
    BY <2>1, <2>5 DEF DeleteEntry
  <2>6. CASE Pause(d)
    BY <2>1, <2>6 DEF Pause
  <2> QED BY <1>2, <2>2, <2>3, <2>4, <2>5, <2>6 DEF Step
<1>3. DeleteEntry(c)
  <2>1. cleanup' # cleanup
    OBVIOUS
  <2> QED BY <1>2, <2>1 DEF Next, vars, Login, Revoke, SignOut
<1>4. /\ cleanup[c].uid \notin active
      /\ call[c].db[LocalIdOf(cleanup[c].uid)] = cleanup[c].uid
  BY DEF ListInv, DeletesRefused
<1>5. l # LocalIdOf(cleanup[c].uid)
  BY <1>4
<1> QED BY <1>1, <1>3, <1>5 DEF DeleteEntry, TypeOK

\* The clean-up of a list deletes no active session that was stored when the list
\* was asked for, however long its checks take and whoever logs in meanwhile.
THEOREM CleanupSparesActive == Spec => KeepsWhatWasRead
<1>1. ListInv /\ [Next]_vars =>
        [\A c \in Calls :
           cleanup[c].step = "delete" /\ cleanup'[c].step # "delete"
             => \A l \in LocalIds :
                  db[l] \in active /\ db[l] = call[c].db[l] => db'[l] = db[l]]_vars
  BY DeletionSparesActive
<1> QED BY <1>1, Invariance, PTL DEF Spec, KeepsWhatWasRead
=============================================================================
