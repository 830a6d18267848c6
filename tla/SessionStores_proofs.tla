------------------------ MODULE SessionStores_proofs ------------------------
(***************************************************************************)
(* Of an app's sessions: that one which nobody held when it was signed out *)
(* stays gone, that no account gets another one's secrets, and that        *)
(* entries are deleted for a cause only; for any tabs, calls and local     *)
(* ids, whatever the server answers, whatever memory is lost and whenever  *)
(* tabs reload.  Of a tab's memory: that every item of the secure session  *)
(* storage is a lossy register, for any calls of setItem and any keys.     *)
(***************************************************************************)
EXTENDS SessionStores, TLAPS

-----------------------------------------------------------------------------
(* The inductive invariant.                                                *)

\* The local id under which a session was saved, by an earlier visit or by a call.
IsHome(f, u, l) ==
    /\ u \in OldUids => OldLocalId[u] = l
    /\ u \in Calls => f[u].kind = "save" /\ f[u].localId = l

Deals == {"key", "answered", "save", "use", "evict", "delete", "revoke"}

\* What a call deals with, at each of its awaits.
Progress(r) ==
    /\ r.pc = "idle" <=> r.kind = "none"
    /\ r.pc = "idle" => r.tab = None
    /\ r.pc = "database" => r.kind = "get" /\ r.dto = None /\ r.secret = None
    /\ r.pc = "memory" => r.dto # None /\ r.kind \notin {"none", "save"}
    /\ r.pc = "memory" /\ r.kind = "get" => r.secret # None
    /\ r.pc \in Deals => r.dto # None
    /\ r.pc = "key" => r.kind = "get"
    /\ r.pc \in {"answered", "save", "use"} => r.kind \in {"get", "save"}
    /\ r.pc = "answered" => r.answer # "none"
    /\ r.pc = "save" => r.kind = "save"
    /\ r.pc \in {"answered", "save"} /\ r.kind = "save" => r.secret # None
    /\ r.pc = "use" => r.secret # None
    /\ r.pc \in {"evict", "delete", "revoke"} => r.kind \in {"signOut", "unauthorized"}
    /\ r.pc # "done" => r.result = "none"
    /\ r.kind = "get" /\ r.result = "ok" => r.dto # None /\ r.secret # None

\* Entry and secrets belong to one local id, which is the one that was asked for.
Matches(f, r) ==
    /\ r.dto # None => /\ IsHome(f, r.dto.uid, r.dto.localId)
                       /\ r.localId \in {None, r.dto.localId}
    /\ r.secret # None => r.dto # None /\ IsHome(f, r.secret, r.dto.localId)

\* Whatever is stored or remembered, is so under its local id.
AllAtHome ==
    /\ \A c \in Calls : Progress(call[c]) /\ Matches(call, call[c])
    /\ \A l \in LocalIds : db[l] # None => IsHome(call, db[l], l)
    /\ \A t \in Tabs : mem[t] # None => IsHome(call, mem[t].uid, mem[t].localId)

\* A call is about to store, or to use, the entry of uid u.
Holds(r, u) ==
    /\ r.kind \in {"get", "save"} /\ r.pc \in {"key", "answered", "save", "use"}
    /\ r.dto # None /\ r.dto.uid = u

\* The entry of u was deleted by a sign-out.
Gone(f, s, u) == u \in s \/ \E c \in Calls : /\ f[c].pc = "revoke"
                                             /\ f[c].dto # None /\ f[c].dto.uid = u

\* A session whose entry was deleted while no call held it is nowhere, and so no
\* call gets hold of it again.
GoneIsGone ==
    \A u \in Uids : Gone(call, signedOut, u) /\ u \notin overlapped =>
      /\ \A l \in LocalIds : db[l] # u
      /\ \A c \in Calls : ~Holds(call[c], u)

\* Only what was saved is signed out.
SignedWasSaved == \A u \in signedOut \cap Calls : call[u].kind = "save"

\* Together they are kept by every step.
PersistInv == TypeOK /\ AllAtHome /\ GoneIsGone /\ SignedWasSaved

-----------------------------------------------------------------------------
(* What steps have in common.                                              *)

\* Null is none of the things that are stored.
LEMMA NoneFacts ==
    None \notin Uids /\ None \notin LocalIds /\ None \notin Tabs /\ None \notin Entry
BY NoneAssumption DEF Uids, Entry

\* A call saves under one local id for good: what is at home stays there.
LEMMA HomeStays ==
    ASSUME \A k \in Calls : \/ call[k].kind = "none"
                            \/ /\ call'[k].kind = call[k].kind
                               /\ call'[k].localId = call[k].localId
    PROVE  \A u, l : IsHome(call, u, l) => IsHome(call', u, l)
BY DEF IsHome

\* The entries that calls still hold are at home when those of all others are.
LEMMA MatchesStays ==
    ASSUME NEW r, Matches(call, r), \A u, l : IsHome(call, u, l) => IsHome(call', u, l)
    PROVE  Matches(call', r)
BY DEF Matches

\* A step of one call, which keeps what is stored and remembered at home.
LEMMA CallHome ==
    ASSUME TypeOK, AllAtHome, NEW c \in Calls, NEW r \in CallRecord,
           call' = [call EXCEPT ![c] = r],
           \/ call[c].kind = "none"
           \/ r.kind = call[c].kind /\ r.localId = call[c].localId,
           Progress(r), Matches(call, r) \/ Matches(call', r),
           db' \in [LocalIds -> Uids \cup {None}],
           mem' \in [Tabs -> Entry \cup {None}],
           signedOut' \subseteq Uids, overlapped' \subseteq Uids,
           \A l \in LocalIds : db'[l] \in {None, db[l]} \/ IsHome(call, db'[l], l),
           \A t \in Tabs : \/ mem'[t] \in {None, mem[t]}
                           \/ IsHome(call, mem'[t].uid, mem'[t].localId)
    PROVE  /\ TypeOK' /\ AllAtHome'
           /\ \A k \in Calls : call'[k] = IF k = c THEN r ELSE call[k]
<1>1. \A k \in Calls : call'[k] = IF k = c THEN r ELSE call[k]
  BY DEF TypeOK
<1>2. \A u, l : IsHome(call, u, l) => IsHome(call', u, l)
  BY <1>1, HomeStays
<1>3. \A k \in Calls : Progress(call'[k]) /\ Matches(call', call'[k])
  <2>1. Matches(call', r)
    BY <1>2, MatchesStays
  <2>2. \A k \in Calls : Progress(call[k]) /\ Matches(call', call[k])
    BY <1>2, MatchesStays DEF AllAtHome
  <2> QED BY <1>1, <2>1, <2>2
<1>4. \A l \in LocalIds : db'[l] # None => IsHome(call', db'[l], l)
  BY <1>2 DEF AllAtHome
<1>5. \A t \in Tabs : mem'[t] # None => IsHome(call', mem'[t].uid, mem'[t].localId)
  BY <1>2 DEF AllAtHome
<1>6. AllAtHome'
  BY <1>3, <1>4, <1>5 DEF AllAtHome
<1>7. TypeOK'
  <2>1. r.pc \in Deals => r.dto # None
    BY DEF Progress
  <2>2. call' \in [Calls -> CallRecord]
    BY DEF TypeOK
  <2>3. \A k \in Calls : call'[k].pc \in Deals => call'[k].dto # None
    BY <1>3 DEF Progress
  <2> QED BY <2>2, <2>3 DEF TypeOK, Deals
<1> QED BY <1>1, <1>6, <1>7

\* Such a step that deletes nothing for a sign-out, and stores or takes hold of
\* only what it held, what is stored, or a session of its own.
LEMMA CallKeeps ==
    ASSUME PersistInv, NEW c \in Calls, NEW r \in CallRecord,
           call' = [call EXCEPT ![c] = r],
           \/ call[c].kind = "none"
           \/ r.kind = call[c].kind /\ r.localId = call[c].localId,
           Progress(r), Matches(call, r) \/ Matches(call', r), r.pc # "revoke",
           db' \in [LocalIds -> Uids \cup {None}],
           mem' \in [Tabs -> Entry \cup {None}],
           signedOut' \subseteq Uids, UNCHANGED overlapped,
           \A u \in signedOut' : Gone(call, signedOut, u),
           \A l \in LocalIds : \/ db'[l] \in {None, db[l]}
                               \/ IsHome(call, db'[l], l) /\ Holds(call[c], db'[l]),
           \A t \in Tabs : \/ mem'[t] \in {None, mem[t]}
                           \/ IsHome(call, mem'[t].uid, mem'[t].localId),
           \A u \in Uids : Holds(r, u) => \/ Holds(call[c], u)
                                          \/ \E l \in LocalIds : db[l] = u
                                          \/ u = c /\ call[c].kind = "none"
    PROVE  PersistInv'
<1>1. TypeOK /\ AllAtHome /\ overlapped' \subseteq Uids
  BY DEF PersistInv, TypeOK
<1>2. /\ TypeOK' /\ AllAtHome'
      /\ \A k \in Calls : call'[k] = IF k = c THEN r ELSE call[k]
  BY <1>1, CallHome
<1>3. \A u : Gone(call', signedOut', u) => Gone(call, signedOut, u)
  BY <1>2 DEF Gone
<1>4. \A u \in Calls : Gone(call, signedOut, u) => call[u].kind = "save"
  <2>1. SUFFICES ASSUME NEW u \in Calls, Gone(call, signedOut, u), u \notin signedOut
                 PROVE  call[u].kind = "save"
    BY DEF PersistInv, SignedWasSaved
  <2>2. PICK k \in Calls : call[k].dto # None /\ call[k].dto.uid = u
    BY <2>1 DEF Gone
  <2> QED BY <1>1, <2>2 DEF AllAtHome, Matches, IsHome
<1>5. GoneIsGone'
  <2>1. SUFFICES ASSUME NEW u \in Uids, Gone(call', signedOut', u), u \notin overlapped
                 PROVE  /\ \A l \in LocalIds : db'[l] # u
                        /\ \A k \in Calls : ~Holds(call'[k], u)
    BY DEF GoneIsGone, Gone, Holds
  <2>2. /\ \A l \in LocalIds : db[l] # u
        /\ \A k \in Calls : ~Holds(call[k], u)
    BY <1>3, <2>1 DEF PersistInv, GoneIsGone
  <2>3. \A l \in LocalIds : db'[l] # u
    BY <2>2, NoneFacts
  <2>4. u = c => call[c].kind # "none"
    BY <1>3, <1>4, <2>1
  <2> QED BY <1>2, <2>2, <2>3, <2>4
<1>6. SignedWasSaved'
  <2>1. \A u \in Calls : call[u].kind = "save" => call'[u].kind = "save"
    BY <1>2
  <2> QED BY <1>4, <2>1 DEF SignedWasSaved
<1> QED BY <1>2, <1>5, <1>6 DEF PersistInv

\* ... and one that touches no store, and holds nothing that it did not hold.
LEMMA QuietKeeps ==
    ASSUME PersistInv, NEW c \in Calls, NEW r \in CallRecord,
           call' = [call EXCEPT ![c] = r],
           r.kind = call[c].kind, r.localId = call[c].localId,
           Progress(r), Matches(call, r), r.pc # "revoke",
           UNCHANGED <<db, mem, signedOut, overlapped>>,
           \A u \in Uids : Holds(r, u) => \/ Holds(call[c], u)
                                          \/ \E l \in LocalIds : db[l] = u
    PROVE  PersistInv'
<1>1. /\ db' \in [LocalIds -> Uids \cup {None}] /\ mem' \in [Tabs -> Entry \cup {None}]
      /\ signedOut' \subseteq Uids
  BY DEF PersistInv, TypeOK
<1>2. \A u \in signedOut' : Gone(call, signedOut, u)
  BY DEF Gone
<1> QED BY <1>1, <1>2, CallKeeps

\* What is known of a call.
LEMMA CallFacts ==
    ASSUME PersistInv, NEW c \in Calls
    PROVE  /\ call[c] \in CallRecord /\ Progress(call[c]) /\ Matches(call, call[c])
           /\ call \in [Calls -> CallRecord]
BY DEF PersistInv, TypeOK, AllAtHome

-----------------------------------------------------------------------------
(* Records of calls.                                                       *)

Finished(r, result) ==
    [r EXCEPT !.pc = "done", !.result = result, !.tab = None, !.answer = "none",
              !.dto = None, !.secret = None]

Using(r, dto, secret) ==
    [r EXCEPT !.pc = "use", !.dto = dto, !.secret = secret, !.left = {"db", "mem"}]

\* A call that is done holds nothing.
LEMMA FinishedFacts ==
    ASSUME NEW r \in CallRecord, NEW result \in Outcome, r.kind # "none",
           result = "ok" => r.kind # "get"
    PROVE  /\ Finished(r, result) \in CallRecord
           /\ Finished(r, result).pc = "done"
           /\ Finished(r, result).kind = r.kind
           /\ Finished(r, result).localId = r.localId
           /\ Progress(Finished(r, result)) /\ Matches(call, Finished(r, result))
           /\ \A u : ~Holds(Finished(r, result), u)
<1> DEFINE s == Finished(r, result)
<1>1. /\ s \in CallRecord /\ s.pc = "done" /\ s.kind = r.kind /\ s.result = result
      /\ s.localId = r.localId /\ s.dto = None /\ s.secret = None
  BY DEF Finished, CallRecord
<1> HIDE DEF s
<1>2. Progress(s) /\ Matches(call, s) /\ \A u : ~Holds(s, u)
  BY <1>1 DEF Progress, Matches, Holds, Deals
<1> QED BY <1>1, <1>2 DEF s

\* A call that uses an entry has both the entry and secrets of its local id.
LEMMA UsingFacts ==
    ASSUME NEW r \in CallRecord, NEW dto \in Entry, NEW secret \in Uids,
           r.kind \in {"get", "save"}, r.result = "none",
           r.localId \in {None, dto.localId},
           IsHome(call, dto.uid, dto.localId), IsHome(call, secret, dto.localId)
    PROVE  /\ Using(r, dto, secret) \in CallRecord
           /\ Using(r, dto, secret).pc = "use"
           /\ Using(r, dto, secret).kind = r.kind
           /\ Using(r, dto, secret).localId = r.localId
           /\ Progress(Using(r, dto, secret)) /\ Matches(call, Using(r, dto, secret))
           /\ \A u : Holds(Using(r, dto, secret), u) => u = dto.uid
<1> DEFINE s == Using(r, dto, secret)
<1>1. /\ s \in CallRecord /\ s.pc = "use" /\ s.kind = r.kind /\ s.result = r.result
      /\ s.localId = r.localId /\ s.dto = dto /\ s.secret = secret
  BY DEF Using, CallRecord
<1>2. dto # None /\ secret # None
  BY NoneFacts
<1> HIDE DEF s
<1>3. Progress(s) /\ Matches(call, s) /\ \A u : Holds(s, u) => u = dto.uid
  BY <1>1, <1>2 DEF Progress, Matches, Holds, Deals
<1> QED BY <1>1, <1>3 DEF s

\* A call that was not made holds nothing.
LEMMA IdleFacts ==
    /\ Idle \in CallRecord /\ Idle.pc = "idle" /\ Idle.kind = "none"
    /\ Idle.tab = None /\ Idle.localId = None /\ Idle.dto = None /\ Idle.secret = None
    /\ Idle.answer = "none" /\ Idle.result = "none"
BY DEF Idle, CallRecord

-----------------------------------------------------------------------------
(* getSession.                                                             *)

\* What is stored under a local id is an entry at home.
LEMMA StoredFacts ==
    ASSUME PersistInv, NEW l \in LocalIds, Stored(l) # None
    PROVE  /\ Stored(l) \in Entry /\ Stored(l).localId = l /\ Stored(l).uid = db[l]
           /\ db[l] \in Uids /\ IsHome(call, db[l], l)
BY DEF PersistInv, TypeOK, AllAtHome, Stored, Entry

\* A call begins with what the memory holds for it.
LEMMA GetSessionKeeps ==
    ASSUME PersistInv, NEW c \in Calls, NEW t \in Tabs, NEW l \in LocalIds \cup {None},
           GetSession(c, t, l)
    PROVE  PersistInv'
<1> DEFINE m == Remembered(t, l)
           r == IF m = None
                THEN [Idle EXCEPT !.kind = "get", !.tab = t, !.localId = l,
                                  !.pc = "database"]
                ELSE [Idle EXCEPT !.kind = "get", !.tab = t, !.localId = l,
                                  !.pc = "memory", !.dto = m, !.secret = m.uid]
<1>1. /\ call' = [call EXCEPT ![c] = r] /\ call[c].pc = "idle"
      /\ UNCHANGED <<db, mem, signedOut, overlapped>>
  BY DEF GetSession, Go, At, Local, History, Idle
<1>2. call[c].kind = "none"
  BY <1>1, CallFacts DEF Progress
<1>3. m # None => /\ m \in Entry /\ IsHome(call, m.uid, m.localId)
                  /\ l \in {None, m.localId} /\ m.uid \in Uids
  BY DEF Remembered, PersistInv, TypeOK, AllAtHome, Entry
<1> HIDE DEF m
<1>4. /\ r \in CallRecord /\ r.kind = "get" /\ r.localId = l /\ r.result = "none"
      /\ m = None => r.pc = "database" /\ r.dto = None /\ r.secret = None
      /\ m # None => r.pc = "memory" /\ r.dto = m /\ r.secret = m.uid
  BY <1>3 DEF Idle, CallRecord
<1> HIDE DEF r
<1>5. Progress(r) /\ Matches(call, r) /\ r.pc # "revoke" /\ \A u : ~Holds(r, u)
  BY <1>3, <1>4, NoneFacts DEF Progress, Matches, Holds, Deals
<1>6. /\ db' \in [LocalIds -> Uids \cup {None}] /\ mem' \in [Tabs -> Entry \cup {None}]
      /\ signedOut' \subseteq Uids
  BY <1>1 DEF PersistInv, TypeOK
<1>7. \A u \in signedOut' : Gone(call, signedOut, u)
  BY <1>1 DEF Gone
<1> QED BY <1>1, <1>2, <1>4, <1>5, <1>6, <1>7, CallKeeps

\* The entry that goes with the secrets in memory is the one of their local id.
LEMMA GetFromMemoryKeeps ==
    ASSUME PersistInv, NEW c \in Calls, GetFromMemory(c) PROVE PersistInv'
<1>1. /\ call[c].pc = "memory" /\ call[c].kind = "get"
      /\ UNCHANGED <<db, mem, signedOut, overlapped>>
  BY DEF GetFromMemory, At, Local, History
<1>2. /\ call[c] \in CallRecord /\ call[c].dto \in Entry /\ call[c].secret \in Uids
      /\ call[c].result = "none" /\ call[c].localId \in {None, call[c].dto.localId}
      /\ IsHome(call, call[c].secret, call[c].dto.localId)
  BY <1>1, CallFacts DEF CallRecord, Progress, Matches
<1> DEFINE l == call[c].dto.localId
<1>3. l \in LocalIds
  BY <1>2 DEF Entry
<1>4. CASE Stored(l) = None
  <2> DEFINE r == [call[c] EXCEPT !.pc = "database", !.dto = None, !.secret = None]
  <2>1. call' = [call EXCEPT ![c] = r]
    BY <1>4 DEF GetFromMemory, Go
  <2>2. /\ r \in CallRecord /\ r.kind = "get" /\ r.localId = call[c].localId
        /\ r.result = "none" /\ r.pc = "database" /\ r.dto = None /\ r.secret = None
    BY <1>1, <1>2 DEF CallRecord
  <2> HIDE DEF r
  <2>3. Progress(r) /\ Matches(call, r) /\ \A u : ~Holds(r, u)
    BY <2>2 DEF Progress, Matches, Holds, Deals
  <2> QED BY <1>1, <2>1, <2>2, <2>3, QuietKeeps
<1>5. CASE Stored(l) # None
  <2> DEFINE r == Using(call[c], Stored(l), call[c].secret)
  <2>1. call' = [call EXCEPT ![c] = r]
    BY <1>5 DEF GetFromMemory, Use, Go, Using
  <2>2. /\ Stored(l) \in Entry /\ Stored(l).localId = l /\ Stored(l).uid = db[l]
        /\ IsHome(call, db[l], l)
    BY <1>3, <1>5, StoredFacts
  <2>3. /\ r \in CallRecord /\ r.pc = "use" /\ r.kind = call[c].kind
        /\ r.localId = call[c].localId /\ Progress(r) /\ Matches(call, r)
        /\ \A u : Holds(r, u) => u = db[l]
    BY <1>1, <1>2, <2>2, UsingFacts
  <2> HIDE DEF r
  <2> QED BY <1>1, <1>3, <2>1, <2>3, QuietKeeps
<1> QED BY <1>4, <1>5

\* The entry that is read from the database is at home there.
LEMMA GetFromDatabaseKeeps ==
    ASSUME PersistInv, NEW c \in Calls, GetFromDatabase(c) PROVE PersistInv'
<1>1. call[c].pc = "database" /\ UNCHANGED <<db, mem, signedOut, overlapped>>
  BY DEF GetFromDatabase, At, Local, History
<1>2. /\ call[c] \in CallRecord /\ call[c].kind = "get" /\ call[c].dto = None
      /\ call[c].secret = None /\ call[c].result = "none"
  BY <1>1, CallFacts DEF Progress
<1>3. PICK l \in IF call[c].localId = None THEN LocalIds ELSE {call[c].localId} :
        IF Stored(l) = None THEN Done(c, "notFound")
        ELSE Go(c, [call[c] EXCEPT !.pc = "key", !.dto = Stored(l)])
  BY Zenon DEF GetFromDatabase
<1>4. l \in LocalIds /\ call[c].localId \in {None, l}
  BY <1>2 DEF CallRecord
<1>5. CASE Stored(l) = None
  <2>1. call' = [call EXCEPT ![c] = Finished(call[c], "notFound")]
    BY <1>3, <1>5 DEF Done, Go, Finished
  <2>2. "notFound" \in Outcome
    BY DEF Outcome
  <2> QED BY <1>1, <1>2, <2>1, <2>2, FinishedFacts, QuietKeeps
<1>6. CASE Stored(l) # None
  <2> DEFINE r == [call[c] EXCEPT !.pc = "key", !.dto = Stored(l)]
  <2>1. call' = [call EXCEPT ![c] = r]
    BY <1>3, <1>6 DEF Go
  <2>2. /\ Stored(l) \in Entry /\ Stored(l).localId = l /\ Stored(l).uid = db[l]
        /\ IsHome(call, db[l], l)
    BY <1>4, <1>6, StoredFacts
  <2>3. /\ r \in CallRecord /\ r.kind = "get" /\ r.localId = call[c].localId
        /\ r.result = "none" /\ r.pc = "key" /\ r.dto = Stored(l) /\ r.secret = None
    BY <1>2, <2>2 DEF CallRecord
  <2> HIDE DEF r
  <2>4. Progress(r) /\ Matches(call, r) /\ \A u : Holds(r, u) => u = db[l]
    BY <1>4, <1>6, <2>2, <2>3 DEF Progress, Matches, Holds, Deals
  <2> QED BY <1>1, <1>2, <1>4, <2>1, <2>3, <2>4, QuietKeeps
<1> QED BY <1>5, <1>6

\* The server's answer changes nothing yet.
LEMMA GetClientKeyKeeps ==
    ASSUME PersistInv, NEW c \in Calls, GetClientKey(c) PROVE PersistInv'
<1>1. call[c].pc = "key" /\ UNCHANGED <<db, mem, signedOut, overlapped>>
  BY DEF GetClientKey, At, Local, History
<1>2. PICK answer \in {"200", "corrupt", "401", "other"} :
        call' = [call EXCEPT ![c] = [call[c] EXCEPT !.pc = "answered", !.answer = answer]]
  BY DEF GetClientKey, Go
<1> DEFINE r == [call[c] EXCEPT !.pc = "answered", !.answer = answer]
<1>3. /\ call[c] \in CallRecord /\ Progress(call[c]) /\ Matches(call, call[c])
      /\ call[c].kind = "get" /\ call[c].dto # None
  BY <1>1, CallFacts DEF Progress, Deals
<1>4. /\ r \in CallRecord /\ r.kind = "get" /\ r.localId = call[c].localId
      /\ r.result = call[c].result /\ r.pc = "answered" /\ r.dto = call[c].dto
      /\ r.secret = call[c].secret /\ r.answer # "none"
  BY <1>3 DEF CallRecord
<1> HIDE DEF r
<1>5. Progress(r) /\ Matches(call, r) /\ \A u : Holds(r, u) => Holds(call[c], u)
  BY <1>1, <1>3, <1>4 DEF Progress, Matches, Holds, Deals
<1> QED BY <1>1, <1>2, <1>3, <1>4, <1>5, QuietKeeps DEF r

\* An entry that is refused is deleted; one that is used was held.
LEMMA UseStoredSessionKeeps ==
    ASSUME PersistInv, NEW c \in Calls, UseStoredSession(c) PROVE PersistInv'
<1>1. /\ call[c].pc = "answered" /\ call[c].kind = "get"
      /\ UNCHANGED <<mem, signedOut, overlapped>>
  BY DEF UseStoredSession, At, History
<1>2. /\ call[c] \in CallRecord /\ call[c].dto \in Entry /\ call[c].result = "none"
      /\ call[c].localId \in {None, call[c].dto.localId}
      /\ IsHome(call, call[c].dto.uid, call[c].dto.localId)
      /\ call[c].dto.uid \in Uids /\ call[c].dto.localId \in LocalIds
      /\ call[c].dto # None
  BY <1>1, CallFacts DEF CallRecord, Progress, Matches, Deals, Entry
<1>3. CASE call[c].answer = "200"
  <2> DEFINE r == Using(call[c], call[c].dto, call[c].dto.uid)
  <2>1. call' = [call EXCEPT ![c] = r] /\ UNCHANGED db
    BY <1>3 DEF UseStoredSession, Use, Go, Using
  <2>2. /\ r \in CallRecord /\ r.pc = "use" /\ r.kind = call[c].kind
        /\ r.localId = call[c].localId /\ Progress(r) /\ Matches(call, r)
        /\ \A u : Holds(r, u) => u = call[c].dto.uid
    BY <1>1, <1>2, UsingFacts
  <2> HIDE DEF r
  <2>3. Holds(call[c], call[c].dto.uid)
    BY <1>1, <1>2 DEF Holds
  <2> QED BY <1>1, <2>1, <2>2, <2>3, QuietKeeps
<1>4. CASE call[c].answer # "200"
  <2>1. PICK result \in Outcome \ {"ok"} : Done(c, result)
    BY <1>4 DEF UseStoredSession, Outcome
  <2> DEFINE r == Finished(call[c], result)
  <2>2. call' = [call EXCEPT ![c] = r]
    BY <2>1 DEF Done, Go, Finished
  <2>3. /\ r \in CallRecord /\ r.pc = "done" /\ r.kind = call[c].kind
        /\ r.localId = call[c].localId /\ Progress(r) /\ Matches(call, r)
        /\ \A u : ~Holds(r, u)
    BY <1>1, <1>2, FinishedFacts
  <2> HIDE DEF r
  <2>4. /\ db' \in [LocalIds -> Uids \cup {None}]
        /\ \A l \in LocalIds : db'[l] \in {None, db[l]}
    BY <1>4 DEF UseStoredSession, PersistInv, TypeOK
  <2>5. mem' \in [Tabs -> Entry \cup {None}] /\ signedOut' \subseteq Uids
    BY <1>1 DEF PersistInv, TypeOK
  <2>6. \A u \in signedOut' : Gone(call, signedOut, u)
    BY <1>1 DEF Gone
  <2> QED BY <1>1, <2>2, <2>3, <2>4, <2>5, <2>6, CallKeeps
<1> QED BY <1>3, <1>4

-----------------------------------------------------------------------------
(* saveSession.                                                            *)

\* A call saves a session that nobody else knows of.
LEMMA SaveSessionKeeps ==
    ASSUME PersistInv, NEW c \in Calls, NEW t \in Tabs, NEW l \in LocalIds,
           SaveSession(c, t, l)
    PROVE  PersistInv'
<1>1. call[c].pc = "idle" /\ UNCHANGED <<db, mem, signedOut, overlapped>>
  BY DEF SaveSession, At, Local, History
<1>2. PICK answer \in {"200", "401", "other"} :
        call' = [call EXCEPT ![c] =
          [Idle EXCEPT !.kind = "save", !.tab = t, !.localId = l, !.pc = "answered",
                       !.answer = answer, !.secret = c,
                       !.dto = [localId |-> l, uid |-> c]]]
  BY DEF SaveSession, Go
<1> DEFINE dto == [localId |-> l, uid |-> c]
           r == [Idle EXCEPT !.kind = "save", !.tab = t, !.localId = l,
                             !.pc = "answered", !.answer = answer, !.secret = c,
                             !.dto = dto]
<1>3. call[c].kind = "none" /\ call \in [Calls -> CallRecord] /\ c \in Uids /\ c \notin OldUids
  BY <1>1, CallFacts, UidAssumption DEF Progress, Uids
<1>4. dto \in Entry /\ dto.uid = c /\ dto.localId = l /\ dto # None /\ c # None
  BY <1>3, NoneFacts DEF Entry
<1>5. call' = [call EXCEPT ![c] = r]
  BY <1>2
<1> HIDE DEF dto
<1>6. /\ r \in CallRecord /\ r.kind = "save" /\ r.localId = l /\ r.result = "none"
      /\ r.pc = "answered" /\ r.dto = dto /\ r.secret = c /\ r.answer # "none"
  BY <1>3, <1>4, IdleFacts DEF CallRecord
<1> HIDE DEF r
<1>7. IsHome(call', c, l)
  BY <1>3, <1>5, <1>6 DEF IsHome
<1>8. Progress(r) /\ Matches(call', r) /\ \A u : Holds(r, u) => u = c
  BY <1>4, <1>6, <1>7 DEF Progress, Matches, Holds, Deals
<1>9. /\ db' \in [LocalIds -> Uids \cup {None}] /\ mem' \in [Tabs -> Entry \cup {None}]
      /\ signedOut' \subseteq Uids
  BY <1>1 DEF PersistInv, TypeOK
<1>10. \A u \in signedOut' : Gone(call, signedOut, u)
  BY <1>1 DEF Gone
<1> QED BY <1>1, <1>3, <1>5, <1>6, <1>8, <1>9, <1>10, CallKeeps

\* The server accepts the session's key, or the call is over.
LEMMA EncryptPayloadKeeps ==
    ASSUME PersistInv, NEW c \in Calls, EncryptPayload(c) PROVE PersistInv'
<1>1. /\ call[c].pc = "answered" /\ call[c].kind = "save"
      /\ UNCHANGED <<db, mem, signedOut, overlapped>>
  BY DEF EncryptPayload, At, Local, History
<1>2. call[c] \in CallRecord /\ Progress(call[c]) /\ Matches(call, call[c])
  BY CallFacts
<1>3. CASE call[c].answer = "200"
  <2> DEFINE r == [call[c] EXCEPT !.pc = "save"]
  <2>1. call' = [call EXCEPT ![c] = r]
    BY <1>3 DEF EncryptPayload, Go
  <2>2. /\ r \in CallRecord /\ r.kind = "save" /\ r.localId = call[c].localId
        /\ r.result = call[c].result /\ r.pc = "save" /\ r.dto = call[c].dto
        /\ r.secret = call[c].secret
    BY <1>1, <1>2 DEF CallRecord
  <2> HIDE DEF r
  <2>3. Progress(r) /\ Matches(call, r) /\ \A u : Holds(r, u) => Holds(call[c], u)
    BY <1>1, <1>2, <2>2 DEF Progress, Matches, Holds, Deals
  <2> QED BY <1>1, <2>1, <2>2, <2>3, QuietKeeps
<1>4. CASE call[c].answer # "200"
  <2>1. PICK result \in Outcome \ {"ok"} : Done(c, result)
    BY <1>4 DEF EncryptPayload, Outcome
  <2>2. call' = [call EXCEPT ![c] = Finished(call[c], result)]
    BY <2>1 DEF Done, Go, Finished
  <2> QED BY <1>1, <1>2, <2>2, FinishedFacts, QuietKeeps
<1> QED BY <1>3, <1>4

\* The new entry is stored under its own local id.
LEMMA StoreSessionKeeps ==
    ASSUME PersistInv, NEW c \in Calls, StoreSession(c) PROVE PersistInv'
<1>1. /\ call[c].pc = "save" /\ UNCHANGED <<mem, signedOut, overlapped>>
      /\ db' = [db EXCEPT ![call[c].dto.localId] = call[c].dto.uid]
      /\ call' = [call EXCEPT ![c] = Using(call[c], call[c].dto, call[c].secret)]
  BY DEF StoreSession, At, History, Use, Go, Using
<1>2. /\ call[c] \in CallRecord /\ call[c].dto \in Entry /\ call[c].secret \in Uids
      /\ call[c].kind = "save" /\ call[c].result = "none" /\ call[c].dto # None
      /\ call[c].localId \in {None, call[c].dto.localId}
      /\ IsHome(call, call[c].dto.uid, call[c].dto.localId)
      /\ IsHome(call, call[c].secret, call[c].dto.localId)
      /\ call[c].dto.uid \in Uids /\ call[c].dto.localId \in LocalIds
  BY <1>1, CallFacts DEF CallRecord, Progress, Matches, Deals, Entry
<1> DEFINE r == Using(call[c], call[c].dto, call[c].secret)
<1>3. /\ r \in CallRecord /\ r.pc = "use" /\ r.kind = call[c].kind
      /\ r.localId = call[c].localId /\ Progress(r) /\ Matches(call, r)
      /\ \A u : Holds(r, u) => u = call[c].dto.uid
  BY <1>2, UsingFacts
<1>4. call' = [call EXCEPT ![c] = r]
  BY <1>1
<1> HIDE DEF r
<1>5. Holds(call[c], call[c].dto.uid)
  BY <1>1, <1>2 DEF Holds
<1>6. /\ db' \in [LocalIds -> Uids \cup {None}]
      /\ \A l \in LocalIds : \/ db'[l] = db[l]
                             \/ l = call[c].dto.localId /\ db'[l] = call[c].dto.uid
  BY <1>1, <1>2 DEF PersistInv, TypeOK
<1>7. mem' \in [Tabs -> Entry \cup {None}] /\ signedOut' \subseteq Uids
  BY <1>1 DEF PersistInv, TypeOK
<1>8. \A u \in signedOut' : Gone(call, signedOut, u)
  BY <1>1 DEF Gone
<1>9. \A l \in LocalIds : \/ db'[l] \in {None, db[l]}
                          \/ IsHome(call, db'[l], l) /\ Holds(call[c], db'[l])
  BY <1>2, <1>5, <1>6
<1> QED BY <1>1, <1>3, <1>4, <1>5, <1>6, <1>7, <1>8, <1>9, CallKeeps

\* #useSession writes back what the call holds, and remembers its secrets.
LEMMA UseStepKeeps ==
    ASSUME PersistInv, NEW c \in Calls, UseStep(c) PROVE PersistInv'
<1>1. call[c].pc = "use" /\ UNCHANGED <<signedOut, overlapped>>
  BY DEF UseStep, At, History
<1>2. PICK store \in call[c].left :
        /\ Go(c, LET r == [call[c] EXCEPT !.left = @ \ {store}]
                 IN  IF r.left # {} THEN r
                     ELSE [r EXCEPT !.pc = "done", !.result = "ok", !.tab = None,
                                    !.answer = "none"])
        /\ db' = IF store = "db"
                 THEN [db EXCEPT ![call[c].dto.localId] = call[c].dto.uid] ELSE db
        /\ mem' = IF store = "mem"
                  THEN [mem EXCEPT ![call[c].tab] =
                          [localId |-> call[c].dto.localId, uid |-> call[c].secret]]
                  ELSE mem
  BY Zenon DEF UseStep
<1>3. /\ call[c] \in CallRecord /\ call[c].dto \in Entry /\ call[c].secret \in Uids
      /\ call[c].kind \in {"get", "save"} /\ call[c].result = "none" /\ call[c].dto # None
      /\ call[c].localId \in {None, call[c].dto.localId} /\ call[c].secret # None
      /\ IsHome(call, call[c].dto.uid, call[c].dto.localId)
      /\ IsHome(call, call[c].secret, call[c].dto.localId)
      /\ call[c].dto.uid \in Uids /\ call[c].dto.localId \in LocalIds
  BY <1>1, CallFacts DEF CallRecord, Progress, Matches, Deals, Entry
<1> DEFINE s == [call[c] EXCEPT !.left = @ \ {store}]
           r == IF s.left # {} THEN s
                ELSE [s EXCEPT !.pc = "done", !.result = "ok", !.tab = None,
                               !.answer = "none"]
<1>4. call' = [call EXCEPT ![c] = r]
  BY <1>2 DEF Go
<1>5. /\ r \in CallRecord /\ r.kind = call[c].kind /\ r.localId = call[c].localId
      /\ r.dto = call[c].dto /\ r.secret = call[c].secret
      /\ \/ r.pc = "use" /\ r.result = "none"
         \/ r.pc = "done" /\ r.result = "ok"
  <2>1. /\ s \in CallRecord /\ s.kind = call[c].kind /\ s.localId = call[c].localId
        /\ s.dto = call[c].dto /\ s.secret = call[c].secret /\ s.pc = "use"
        /\ s.result = "none"
    BY <1>1, <1>3 DEF CallRecord
  <2> HIDE DEF s
  <2> QED BY <2>1 DEF CallRecord, Outcome
<1> HIDE DEF r
<1>6. Progress(r) /\ Matches(call, r) /\ \A u : Holds(r, u) => Holds(call[c], u)
  BY <1>1, <1>3, <1>5 DEF Progress, Matches, Holds, Deals
<1>7. Holds(call[c], call[c].dto.uid)
  BY <1>1, <1>3 DEF Holds
<1>8. /\ db' \in [LocalIds -> Uids \cup {None}]
      /\ \A l \in LocalIds : \/ db'[l] = db[l]
                             \/ l = call[c].dto.localId /\ db'[l] = call[c].dto.uid
  BY <1>2, <1>3 DEF PersistInv, TypeOK
<1> DEFINE m == [localId |-> call[c].dto.localId, uid |-> call[c].secret]
<1>9. m \in Entry /\ IsHome(call, m.uid, m.localId)
  BY <1>3 DEF Entry
<1>10. mem' = mem \/ mem' = [mem EXCEPT ![call[c].tab] = m]
  BY <1>2
<1> HIDE DEF m
<1>11. /\ mem' \in [Tabs -> Entry \cup {None}]
       /\ \A t \in Tabs : mem'[t] \in {mem[t], m}
  BY <1>9, <1>10 DEF PersistInv, TypeOK
<1>12. \A t \in Tabs : \/ mem'[t] \in {None, mem[t]}
                       \/ IsHome(call, mem'[t].uid, mem'[t].localId)
  BY <1>9, <1>11
<1>13. signedOut' \subseteq Uids /\ \A u \in signedOut' : Gone(call, signedOut, u)
  BY <1>1 DEF PersistInv, TypeOK, Gone
<1>14. \A l \in LocalIds : \/ db'[l] \in {None, db[l]}
                           \/ IsHome(call, db'[l], l) /\ Holds(call[c], db'[l])
  BY <1>3, <1>7, <1>8
<1> QED BY <1>1, <1>4, <1>5, <1>6, <1>8, <1>11, <1>12, <1>13, <1>14, CallKeeps

-----------------------------------------------------------------------------
(* signOutSession.                                                         *)

\* A sign-out holds the entry it is to delete, but stores it nowhere.
LEMMA SignOutSessionKeeps ==
    ASSUME PersistInv, NEW c \in Calls, NEW t \in Tabs, NEW l \in LocalIds,
           NEW type \in {"signOut", "unauthorized"}, SignOutSession(c, t, l, type)
    PROVE  PersistInv'
<1> DEFINE dto == Stored(l)
           r == IF dto = None
                THEN [Idle EXCEPT !.kind = type, !.tab = t, !.localId = l,
                                  !.pc = "done", !.result = "fail"]
                ELSE [Idle EXCEPT !.kind = type, !.tab = t, !.localId = l,
                                  !.pc = "memory", !.dto = dto]
<1>1. /\ call' = [call EXCEPT ![c] = r] /\ call[c].pc = "idle"
      /\ UNCHANGED <<db, mem, signedOut, overlapped>>
  BY DEF SignOutSession, Go, At, Local, History, Idle
<1>2. call[c].kind = "none"
  BY <1>1, CallFacts DEF Progress
<1>3. dto # None => /\ dto \in Entry /\ IsHome(call, dto.uid, dto.localId)
                    /\ dto.localId = l
  BY StoredFacts
<1> HIDE DEF dto
<1>4. /\ r \in CallRecord /\ r.kind = type /\ r.localId = l /\ r.secret = None
      /\ r.dto = dto
      /\ dto = None => r.pc = "done" /\ r.result = "fail"
      /\ dto # None => r.pc = "memory" /\ r.result = "none"
  BY <1>3 DEF Idle, CallRecord, Outcome
<1> HIDE DEF r
<1>5. Progress(r) /\ Matches(call, r) /\ r.pc # "revoke" /\ \A u : ~Holds(r, u)
  BY <1>3, <1>4, NoneFacts DEF Progress, Matches, Holds, Deals
<1>6. /\ db' \in [LocalIds -> Uids \cup {None}] /\ mem' \in [Tabs -> Entry \cup {None}]
      /\ signedOut' \subseteq Uids
  BY <1>1 DEF PersistInv, TypeOK
<1>7. \A u \in signedOut' : Gone(call, signedOut, u)
  BY <1>1 DEF Gone
<1> QED BY <1>1, <1>2, <1>4, <1>5, <1>6, <1>7, CallKeeps

\* Looking at the memory changes nothing.
LEMMA LookUpMemoryKeeps ==
    ASSUME PersistInv, NEW c \in Calls, LookUpMemory(c) PROVE PersistInv'
<1>1. /\ call[c].pc = "memory" /\ call[c].kind \in {"signOut", "unauthorized"}
      /\ UNCHANGED <<db, mem, signedOut, overlapped>>
  BY DEF LookUpMemory, At, SigningOut, Local, History
<1>2. PICK next \in {"delete", "evict"} :
        call' = [call EXCEPT ![c] = [call[c] EXCEPT !.pc = next]]
  BY DEF LookUpMemory, Go
<1> DEFINE r == [call[c] EXCEPT !.pc = next]
<1>3. call[c] \in CallRecord /\ Progress(call[c]) /\ Matches(call, call[c])
  BY CallFacts
<1>4. /\ r \in CallRecord /\ r.kind = call[c].kind /\ r.localId = call[c].localId
      /\ r.result = call[c].result /\ r.pc = next /\ r.dto = call[c].dto
      /\ r.secret = call[c].secret
  BY <1>3 DEF CallRecord
<1>5. call' = [call EXCEPT ![c] = r]
  BY <1>2
<1> HIDE DEF r
<1>6. Progress(r) /\ Matches(call, r) /\ \A u : ~Holds(r, u)
  BY <1>1, <1>3, <1>4 DEF Progress, Matches, Holds, Deals
<1> QED BY <1>1, <1>4, <1>5, <1>6, QuietKeeps

\* Nor does clearing it, to what is stored.
LEMMA EvictMemoryKeeps ==
    ASSUME PersistInv, NEW c \in Calls, EvictMemory(c) PROVE PersistInv'
<1>1. /\ call[c].pc = "evict" /\ UNCHANGED <<db, signedOut, overlapped>>
      /\ mem' = [mem EXCEPT ![call[c].tab] = None]
  BY DEF EvictMemory, At, History
<1> DEFINE r == [call[c] EXCEPT !.pc = "delete"]
<1>2. call' = [call EXCEPT ![c] = r]
  BY DEF EvictMemory, Go
<1>3. call[c] \in CallRecord /\ Progress(call[c]) /\ Matches(call, call[c])
  BY CallFacts
<1>4. /\ r \in CallRecord /\ r.kind = call[c].kind /\ r.localId = call[c].localId
      /\ r.result = call[c].result /\ r.pc = "delete" /\ r.dto = call[c].dto
      /\ r.secret = call[c].secret
  BY <1>3 DEF CallRecord
<1> HIDE DEF r
<1>5. Progress(r) /\ Matches(call, r) /\ \A u : ~Holds(r, u)
  BY <1>1, <1>3, <1>4 DEF Progress, Matches, Holds, Deals
<1>6. /\ db' \in [LocalIds -> Uids \cup {None}] /\ mem' \in [Tabs -> Entry \cup {None}]
      /\ signedOut' \subseteq Uids
      /\ \A t \in Tabs : mem'[t] \in {None, mem[t]}
  BY <1>1 DEF PersistInv, TypeOK
<1>7. \A u \in signedOut' : Gone(call, signedOut, u)
  BY <1>1 DEF Gone
<1> QED BY <1>1, <1>2, <1>4, <1>5, <1>6, <1>7, CallKeeps

\* A deleted entry is nowhere else: it had one local id, and who held it counts
\* as an overlapping call.
LEMMA DeleteSessionKeeps ==
    ASSUME PersistInv, NEW c \in Calls, DeleteSession(c) PROVE PersistInv'
<1> DEFINE dto == call[c].dto
<1>1. /\ call[c].pc = "delete" /\ UNCHANGED mem
      /\ db' = [db EXCEPT ![dto.localId] = None]
      /\ overlapped' = IF HeldByAnother(dto.uid, c)
                       THEN overlapped \cup {dto.uid} ELSE overlapped
  BY DEF DeleteSession, At
<1>2. /\ call[c] \in CallRecord /\ dto \in Entry /\ dto # None
      /\ call[c].kind \in {"signOut", "unauthorized"} /\ call[c].result = "none"
      /\ IsHome(call, dto.uid, dto.localId) /\ Matches(call, call[c]) /\ Progress(call[c])
      /\ dto.uid \in Uids /\ dto.localId \in LocalIds
  BY <1>1, CallFacts DEF CallRecord, Progress, Matches, Deals, Entry
<1>3. PICK r \in CallRecord :
        /\ call' = [call EXCEPT ![c] = r]
        /\ r.kind = call[c].kind /\ r.localId = call[c].localId
        /\ Progress(r) /\ Matches(call, r) /\ \A u : ~Holds(r, u)
        /\ r.pc = "revoke" => r.dto = dto
        /\ signedOut' = signedOut \cup {dto.uid} \/ signedOut' = signedOut
  <2>1. CASE call[c].kind = "unauthorized"
    <3>1. /\ call' = [call EXCEPT ![c] = Finished(call[c], "ok")]
          /\ signedOut' = signedOut \cup {dto.uid}
      BY <2>1 DEF DeleteSession, Done, Go, Finished
    <3>2. "ok" \in Outcome
      BY DEF Outcome
    <3> QED BY <1>2, <2>1, <3>1, <3>2, FinishedFacts
  <2>2. CASE call[c].kind # "unauthorized"
    <3> DEFINE s == [call[c] EXCEPT !.pc = "revoke"]
    <3>1. call' = [call EXCEPT ![c] = s] /\ signedOut' = signedOut
      BY <2>2 DEF DeleteSession, Go
    <3>2. /\ s \in CallRecord /\ s.kind = call[c].kind /\ s.localId = call[c].localId
          /\ s.result = "none" /\ s.pc = "revoke" /\ s.dto = dto
          /\ s.secret = call[c].secret
      BY <1>2 DEF CallRecord
    <3> HIDE DEF s
    <3>3. Progress(s) /\ Matches(call, s) /\ \A u : ~Holds(s, u)
      BY <1>2, <3>2 DEF Progress, Matches, Holds, Deals
    <3> QED BY <3>1, <3>2, <3>3
  <2> QED BY <2>1, <2>2
<1>4. TypeOK /\ AllAtHome
  BY DEF PersistInv
<1>5. /\ db' \in [LocalIds -> Uids \cup {None}] /\ mem' \in [Tabs -> Entry \cup {None}]
      /\ signedOut' \subseteq Uids /\ overlapped' \subseteq Uids
      /\ \A l \in LocalIds : db'[l] = IF l = dto.localId THEN None ELSE db[l]
  BY <1>1, <1>2, <1>3, <1>4 DEF TypeOK
<1>6. /\ TypeOK' /\ AllAtHome'
      /\ \A k \in Calls : call'[k] = IF k = c THEN r ELSE call[k]
  BY <1>1, <1>2, <1>3, <1>4, <1>5, CallHome
<1>7. \A u : Gone(call', signedOut', u) => Gone(call, signedOut, u) \/ u = dto.uid
  BY <1>3, <1>6 DEF Gone
<1>8. GoneIsGone'
  <2>1. SUFFICES ASSUME NEW u \in Uids, Gone(call', signedOut', u), u \notin overlapped'
                 PROVE  /\ \A l \in LocalIds : db'[l] # u
                        /\ \A k \in Calls : ~Holds(call'[k], u)
    BY DEF GoneIsGone, Gone, Holds
  <2>2. u \notin overlapped
    BY <1>1, <2>1
  <2>3. CASE Gone(call, signedOut, u)
    <3>1. /\ \A l \in LocalIds : db[l] # u
          /\ \A k \in Calls : ~Holds(call[k], u)
      BY <2>2, <2>3 DEF PersistInv, GoneIsGone
    <3> QED BY <1>3, <1>5, <1>6, <3>1, NoneFacts
  <2>4. CASE u = dto.uid
    <3>1. \A k \in Calls \ {c} : ~Holds(call[k], u)
      BY <1>1, <2>1, <2>4 DEF HeldByAnother, Holds
    <3>2. \A l \in LocalIds : db[l] = u => l = dto.localId
      <4>1. SUFFICES ASSUME NEW l \in LocalIds, db[l] = u PROVE l = dto.localId
        OBVIOUS
      <4>2. IsHome(call, u, l) /\ IsHome(call, u, dto.localId)
        BY <1>2, <1>4, <2>4, <4>1, NoneFacts DEF AllAtHome
      <4> QED BY <4>2 DEF IsHome, Uids
    <3> QED BY <1>3, <1>5, <1>6, <3>1, <3>2, NoneFacts
  <2> QED BY <1>7, <2>1, <2>3, <2>4
<1>9. SignedWasSaved'
  <2>1. dto.uid \in Calls => call[dto.uid].kind = "save"
    BY <1>2 DEF IsHome
  <2>2. \A u \in signedOut' \cap Calls : call[u].kind = "save"
    BY <1>3, <2>1 DEF PersistInv, SignedWasSaved
  <2> QED BY <1>3, <1>6, <2>2 DEF SignedWasSaved
<1> QED BY <1>6, <1>8, <1>9 DEF PersistInv

\* Whatever the server says, the session was gone before.
LEMMA RevokeSessionKeeps ==
    ASSUME PersistInv, NEW c \in Calls, RevokeSession(c) PROVE PersistInv'
<1>1. /\ call[c].pc = "revoke" /\ UNCHANGED <<db, mem, overlapped>>
      /\ signedOut' = signedOut \cup {call[c].dto.uid}
      /\ call' = [call EXCEPT ![c] = Finished(call[c], "ok")]
  BY DEF RevokeSession, At, Local, Done, Go, Finished
<1>2. /\ call[c] \in CallRecord /\ call[c].dto \in Entry /\ call[c].dto # None
      /\ call[c].kind \in {"signOut", "unauthorized"} /\ call[c].dto.uid \in Uids
  BY <1>1, CallFacts DEF CallRecord, Progress, Deals, Entry
<1> DEFINE r == Finished(call[c], "ok")
<1>3. /\ r \in CallRecord /\ r.pc = "done" /\ r.kind = call[c].kind
      /\ r.localId = call[c].localId /\ Progress(r) /\ Matches(call, r)
      /\ \A u : ~Holds(r, u)
  <2>1. "ok" \in Outcome
    BY DEF Outcome
  <2> QED BY <1>2, <2>1, FinishedFacts
<1>4. call' = [call EXCEPT ![c] = r]
  BY <1>1
<1> HIDE DEF r
<1>5. /\ db' \in [LocalIds -> Uids \cup {None}] /\ mem' \in [Tabs -> Entry \cup {None}]
      /\ signedOut' \subseteq Uids
  BY <1>1, <1>2 DEF PersistInv, TypeOK
<1>6. \A u \in signedOut' : Gone(call, signedOut, u)
  BY <1>1, <1>2 DEF Gone
<1> QED BY <1>1, <1>3, <1>4, <1>5, <1>6, CallKeeps

-----------------------------------------------------------------------------
(* The tab.                                                                *)

\* Memory that is lost was at home, and nothing else changes.
LEMMA LoseMemoryKeeps ==
    ASSUME PersistInv, NEW t \in Tabs, LoseMemory(t) PROVE PersistInv'
<1>1. /\ UNCHANGED <<call, db, signedOut, overlapped>>
      /\ mem' = [mem EXCEPT ![t] = None]
  BY DEF LoseMemory, History
<1>2. /\ mem' \in [Tabs -> Entry \cup {None}]
      /\ \A k \in Tabs : mem'[k] \in {None, mem[k]}
  BY <1>1 DEF PersistInv, TypeOK
<1>3. TypeOK'
  BY <1>1, <1>2 DEF PersistInv, TypeOK
<1>4. AllAtHome'
  BY <1>1, <1>2 DEF PersistInv, AllAtHome
<1>5. GoneIsGone' /\ SignedWasSaved'
  BY <1>1 DEF PersistInv, GoneIsGone, SignedWasSaved, Gone
<1> QED BY <1>3, <1>4, <1>5 DEF PersistInv

\* The calls that a reload ends hold nothing any more.
LEMMA ReloadKeeps ==
    ASSUME PersistInv, NEW t \in Tabs, Reload(t) PROVE PersistInv'
<1> DEFINE killed(c) == [Idle EXCEPT !.kind = call[c].kind, !.pc = "done",
                                     !.localId = call[c].localId, !.result = "killed"]
<1>1. /\ UNCHANGED <<db, mem, signedOut, overlapped>>
      /\ call' = [c \in Calls |-> IF call[c].tab = t /\ call[c].pc # "done"
                                  THEN killed(c) ELSE call[c]]
  BY Zenon DEF Reload, Local, History, At
<1>2. TypeOK /\ AllAtHome
  BY DEF PersistInv
<1>3. \A c \in Calls : call[c].tab = t =>
        /\ killed(c) \in CallRecord /\ killed(c).kind = call[c].kind
        /\ killed(c).localId = call[c].localId /\ killed(c).pc = "done"
        /\ killed(c).dto = None /\ killed(c).secret = None
        /\ killed(c).result = "killed" /\ call[c].kind # "none"
  <2>1. SUFFICES ASSUME NEW c \in Calls, call[c].tab = t
                 PROVE  /\ killed(c) \in CallRecord /\ killed(c).kind = call[c].kind
                        /\ killed(c).localId = call[c].localId /\ killed(c).pc = "done"
                        /\ killed(c).dto = None /\ killed(c).secret = None
                        /\ killed(c).result = "killed" /\ call[c].kind # "none"
    BY Zenon
  <2>2. call[c] \in CallRecord /\ call[c].kind # "none"
    BY <2>1, CallFacts, NoneFacts DEF Progress
  <2>3. call[c].kind \in {"none", "get", "save", "signOut", "unauthorized"}
        /\ call[c].localId \in LocalIds \cup {None}
    BY <2>2 DEF CallRecord
  <2> DEFINE r == [Idle EXCEPT !.kind = call[c].kind, !.pc = "done",
                               !.localId = call[c].localId, !.result = "killed"]
  <2>4. /\ r.kind = call[c].kind /\ r.localId = call[c].localId /\ r.pc = "done"
        /\ r.dto = None /\ r.secret = None /\ r.result = "killed"
    BY IdleFacts DEF CallRecord
  <2>5. r \in CallRecord
    BY <2>3, IdleFacts DEF CallRecord, Outcome
  <2>6. killed(c) = r
    OBVIOUS
  <2> HIDE DEF r, killed
  <2> QED BY <2>2, <2>4, <2>5, <2>6
<1> HIDE DEF killed
<1>4. \A c \in Calls : /\ call'[c].kind = call[c].kind
                       /\ call'[c].localId = call[c].localId
                       /\ call'[c] = call[c] \/ (call'[c] = killed(c) /\ call[c].tab = t)
  BY <1>1, <1>3
<1>5. \A u, l : IsHome(call, u, l) => IsHome(call', u, l)
  BY <1>4, HomeStays
<1>6. \A c \in Calls : /\ call'[c] \in CallRecord
                       /\ Progress(call'[c]) /\ Matches(call', call'[c])
  <2>1. SUFFICES ASSUME NEW c \in Calls
                 PROVE  /\ call'[c] \in CallRecord
                        /\ Progress(call'[c]) /\ Matches(call', call'[c])
    OBVIOUS
  <2>2. CASE call'[c] = call[c]
    BY <1>2, <1>5, <2>2, MatchesStays DEF TypeOK, AllAtHome
  <2>3. CASE call'[c] = killed(c) /\ call[c].tab = t
    BY <1>3, <2>3 DEF Progress, Matches, Deals
  <2> QED BY <1>4, <2>2, <2>3
<1>7. AllAtHome'
  BY <1>1, <1>2, <1>5, <1>6 DEF AllAtHome
<1>8. TypeOK'
  <2>1. call' \in [Calls -> CallRecord]
    BY <1>1, <1>6
  <2>2. \A c \in Calls : call'[c].pc \in Deals => call'[c].dto # None
    BY <1>6 DEF Progress
  <2> QED BY <1>1, <1>2, <2>1, <2>2 DEF TypeOK, Deals
<1>9. /\ \A u : Gone(call', signedOut', u) => Gone(call, signedOut, u)
      /\ \A u : \A c \in Calls : Holds(call'[c], u) => Holds(call[c], u)
  BY <1>1, <1>3, <1>4 DEF Gone, Holds
<1>10. GoneIsGone'
  <2>1. SUFFICES ASSUME NEW u \in Uids, Gone(call', signedOut', u), u \notin overlapped
                 PROVE  /\ \A l \in LocalIds : db[l] # u
                        /\ \A k \in Calls : ~Holds(call'[k], u)
    BY <1>1 DEF GoneIsGone, Gone, Holds
  <2> QED BY <1>9, <2>1 DEF PersistInv, GoneIsGone
<1>11. SignedWasSaved'
  BY <1>1, <1>4 DEF PersistInv, SignedWasSaved
<1> QED BY <1>7, <1>8, <1>10, <1>11 DEF PersistInv

-----------------------------------------------------------------------------
(* The theorems about the sessions.                                        *)

\* At first there are sessions of earlier visits, at home, and no calls.
LEMMA PersistInvInit == ASSUME Init PROVE PersistInv
<1>1. PICK kept \in SUBSET OldUids :
        /\ db = [l \in LocalIds |->
                    IF \E u \in kept : OldLocalId[u] = l
                    THEN CHOOSE u \in kept : OldLocalId[u] = l ELSE None]
        /\ mem \in [Tabs -> {None} \cup
                    {[localId |-> OldLocalId[u], uid |-> u] : u \in kept}]
        /\ signedOut = {}
        /\ overlapped = {}
  BY DEF Init
<1>2. \A c \in Calls : call[c] = Idle
  BY DEF Init
<1>3. /\ Idle \in CallRecord /\ Idle.pc = "idle" /\ Idle.kind = "none"
      /\ Idle.dto = None /\ Idle.secret = None /\ Idle.result = "none" /\ Idle.tab = None
  BY DEF Idle, CallRecord
<1>4. \A l \in LocalIds : db[l] # None => db[l] \in OldUids /\ OldLocalId[db[l]] = l
  BY <1>1
<1>5. \A t \in Tabs : mem[t] # None =>
        mem[t] \in Entry /\ mem[t].uid \in OldUids /\ mem[t].localId = OldLocalId[mem[t].uid]
  BY <1>1, OldLocalIdAssumption DEF Entry, Uids
<1>6. TypeOK
  <2>1. call \in [Calls -> CallRecord]
    BY <1>3 DEF Init
  <2>2. db \in [LocalIds -> Uids \cup {None}]
    BY <1>1, <1>4 DEF Uids
  <2>3. mem \in [Tabs -> Entry \cup {None}]
    BY <1>1, <1>5
  <2> QED BY <1>1, <1>2, <1>3, <2>1, <2>2, <2>3 DEF TypeOK
<1>7. \A u \in OldUids : \A l : OldLocalId[u] = l => IsHome(call, u, l)
  BY UidAssumption DEF IsHome
<1>8. AllAtHome
  BY <1>2, <1>3, <1>4, <1>5, <1>7 DEF AllAtHome, Progress, Matches, Deals
<1>9. GoneIsGone /\ SignedWasSaved
  BY <1>1, <1>2, <1>3 DEF GoneIsGone, SignedWasSaved, Gone
<1> QED BY <1>6, <1>8, <1>9 DEF PersistInv

\* Every step keeps the invariant.
LEMMA PersistInvStep == ASSUME PersistInv, [Next]_vars PROVE PersistInv'
<1>1. ASSUME UNCHANGED vars PROVE PersistInv'
  BY <1>1 DEF vars, PersistInv, TypeOK, AllAtHome, GoneIsGone, SignedWasSaved, Gone
<1>2. ASSUME NEW c \in Calls, Continue(c) PROVE PersistInv'
  BY <1>2, GetFromMemoryKeeps, GetFromDatabaseKeeps, GetClientKeyKeeps,
     UseStoredSessionKeeps, EncryptPayloadKeeps, StoreSessionKeeps, UseStepKeeps,
     LookUpMemoryKeeps, EvictMemoryKeeps, DeleteSessionKeeps, RevokeSessionKeeps
     DEF Continue
<1>3. ASSUME NEW c \in Calls, NEW t \in Tabs, Start(c, t) PROVE PersistInv'
  BY <1>3, GetSessionKeeps, SaveSessionKeeps, SignOutSessionKeeps DEF Start
<1> QED BY <1>1, <1>2, <1>3, LoseMemoryKeeps, ReloadKeeps DEF Next

\* The inductive invariant: what is stored and remembered is at home, and what was
\* signed out without another call holding it is nowhere.
THEOREM Invariance == Spec => []PersistInv
BY PersistInvInit, PersistInvStep, PTL DEF Spec

\* A signed out session is not stored again by a call that begins afterwards, for
\* any tabs and calls, whatever they have in memory.
THEOREM SignedOutStaysGone == Spec => []NoResurrection
<1>1. PersistInv => NoResurrection
  <2>1. SUFFICES ASSUME PersistInv, NEW l \in LocalIds, db[l] \in signedOut,
                        db[l] \notin overlapped
                 PROVE  FALSE
    BY DEF NoResurrection, PersistInv
  <2>2. db[l] \in Uids /\ Gone(call, signedOut, db[l])
    BY <2>1 DEF PersistInv, TypeOK, Gone
  <2> QED BY <2>1, <2>2 DEF PersistInv, GoneIsGone
<1> QED BY <1>1, Invariance, PTL

\* No account is returned with another one's secrets, nor in place of another.
THEOREM RightAccounts == Spec => []GetsTheRightAccount
<1>1. PersistInv => GetsTheRightAccount
  <2>1. SUFFICES ASSUME PersistInv, NEW c \in Calls,
                        call[c].kind = "get", call[c].result = "ok"
                 PROVE  /\ LocalIdOf(call[c].secret) = call[c].dto.localId
                        /\ LocalIdOf(call[c].dto.uid) = call[c].dto.localId
                        /\ call[c].localId \in {None, call[c].dto.localId}
    BY DEF GetsTheRightAccount
  <2>2. /\ call[c].dto \in Entry /\ call[c].secret \in Uids
        /\ call[c].localId \in {None, call[c].dto.localId}
        /\ IsHome(call, call[c].dto.uid, call[c].dto.localId)
        /\ IsHome(call, call[c].secret, call[c].dto.localId)
    BY <2>1, CallFacts DEF CallRecord, Progress, Matches
  <2>3. call[c].dto.uid \in Uids
    BY <2>2 DEF Entry
  <2> QED BY <2>2, <2>3 DEF IsHome, LocalIdOf, Uids
<1> QED BY <1>1, Invariance, PTL

\* What deletes an entry is a sign-out of its local id or a refusal.
LEMMA DeletionHasCause ==
    ASSUME PersistInv, [Next]_vars, NEW l \in LocalIds, db[l] # None, db'[l] = None
    PROVE  \E c \in Calls :
             /\ call[c] # call'[c] /\ call[c].dto # None /\ call[c].dto.localId = l
             /\ SigningOut(c) \/ call[c].answer \in {"401", "corrupt"}
<1>1. db \in [LocalIds -> Uids \cup {None}] /\ db' # db
  BY DEF PersistInv, TypeOK
<1>2. PICK c \in Calls : \/ UseStoredSession(c) \/ StoreSession(c)
                         \/ UseStep(c) \/ DeleteSession(c)
  <2>1. ASSUME NEW c \in Calls, Continue(c)
        PROVE  \/ UseStoredSession(c) \/ StoreSession(c)
               \/ UseStep(c) \/ DeleteSession(c) \/ UNCHANGED db
    BY Zenon, <2>1 DEF Continue, GetFromMemory, GetFromDatabase, GetClientKey,
       EncryptPayload, LookUpMemory, EvictMemory, RevokeSession, Local
  <2>2. ASSUME NEW c \in Calls, NEW t \in Tabs, Start(c, t) PROVE UNCHANGED db
    BY Zenon, <2>2 DEF Start, GetSession, SaveSession, SignOutSession, Local
  <2>3. ASSUME NEW t \in Tabs, LoseMemory(t) \/ Reload(t) PROVE UNCHANGED db
    BY Zenon, <2>3 DEF LoseMemory, Reload, Local
  <2> QED BY <1>1, <2>1, <2>2, <2>3 DEF Next, vars
<1>3. call[c] \in CallRecord /\ Progress(call[c]) /\ call \in [Calls -> CallRecord]
  BY CallFacts
<1>4. CASE UseStoredSession(c)
  <2>1. /\ call[c].pc = "answered" /\ call[c].dto # None /\ call[c].dto \in Entry
        /\ call[c].dto.localId \in LocalIds
    BY <1>3, <1>4 DEF UseStoredSession, At, Progress, Deals, CallRecord, Entry
  <2>2. /\ call[c].answer \notin {"200", "other"}
        /\ db' = [db EXCEPT ![call[c].dto.localId] = None]
        /\ \E result : Done(c, result)
    BY <1>1, <1>4 DEF UseStoredSession
  <2>3. call'[c].pc = "done"
    BY <1>3, <2>2 DEF Done, Go, CallRecord
  <2>4. call[c].answer \in {"401", "corrupt"}
    <3>1. call[c].answer # "none"
      BY <1>3, <2>1 DEF Progress
    <3> QED BY <1>3, <2>2, <3>1 DEF CallRecord
  <2> QED BY <1>1, <2>1, <2>2, <2>3, <2>4
<1>5. CASE StoreSession(c)
  <2>1. call[c].dto \in Entry
    BY <1>3, <1>5 DEF StoreSession, At, Progress, Deals, CallRecord
  <2>2. call[c].dto.uid # None
    BY <2>1, NoneFacts DEF Entry
  <2> QED BY <1>1, <1>5, <2>2 DEF StoreSession
<1>6. CASE UseStep(c)
  <2>1. call[c].dto \in Entry
    BY <1>3, <1>6 DEF UseStep, At, Progress, Deals, CallRecord
  <2>2. call[c].dto.uid # None
    BY <2>1, NoneFacts DEF Entry
  <2>3. db' = db \/ db' = [db EXCEPT ![call[c].dto.localId] = call[c].dto.uid]
    BY <1>6 DEF UseStep
  <2> QED BY <1>1, <2>2, <2>3
<1>7. CASE DeleteSession(c)
  <2>1. /\ call[c].pc = "delete" /\ call[c].dto # None /\ SigningOut(c)
        /\ db' = [db EXCEPT ![call[c].dto.localId] = None]
    BY <1>3, <1>7 DEF DeleteSession, At, Progress, Deals, SigningOut
  <2>2. call'[c].pc \in {"done", "revoke"}
    <3>1. CASE call[c].kind = "unauthorized"
      <4>1. call' = [call EXCEPT ![c] = Finished(call[c], "ok")]
        BY <1>7, <3>1 DEF DeleteSession, Done, Go, Finished
      <4> QED BY <1>3, <4>1 DEF Finished, CallRecord
    <3>2. CASE call[c].kind # "unauthorized"
      <4>1. call' = [call EXCEPT ![c] = [call[c] EXCEPT !.pc = "revoke"]]
        BY <1>7, <3>2 DEF DeleteSession, Go
      <4> QED BY <1>3, <4>1 DEF CallRecord
    <3> QED BY <3>1, <3>2
  <2> QED BY <1>1, <2>1, <2>2
<1> QED BY <1>2, <1>4, <1>5, <1>6, <1>7

\* No failure, crash or interleaving loses a session: an entry is deleted for a
\* cause only, by a call about its own local id.
THEOREM DeletionsHaveCause == Spec => DeletedForCause
<1>1. PersistInv /\ [Next]_vars =>
        [\A l \in LocalIds : db[l] # None /\ db'[l] = None =>
           \E c \in Calls :
             /\ call[c] # call'[c] /\ call[c].dto # None /\ call[c].dto.localId = l
             /\ SigningOut(c) \/ call[c].answer \in {"401", "corrupt"}]_vars
  BY DeletionHasCause
<1> QED BY <1>1, Invariance, PTL DEF Spec, DeletedForCause

-----------------------------------------------------------------------------
(* A tab's memory.                                                         *)

StorageInv == StorageTypeOK /\ StoredIsDone

\* Types, and what the stores may hold, are preserved by every step.
LEMMA StorageInvStep == ASSUME StorageInv, [StorageNext]_storageVars PROVE StorageInv'
<1> USE DEF StorageInv, StorageTypeOK, StoredIsDone
<1>1. ASSUME NEW c \in Saves, SetItem(c) PROVE StorageInv'
  BY <1>1, NoSaveAssumption DEF SetItem
<1>2. ASSUME NEW c \in Saves, KeepKey(c) PROVE StorageInv'
  BY <1>2, NoSaveAssumption DEF KeepKey
<1>3. ASSUME NEW c \in Saves, KeepItem(c) PROVE StorageInv'
  BY <1>3, NoSaveAssumption, KeyOfAssumption DEF KeepItem
<1>4. ASSUME NEW k \in StorageKeys, ClearItem(k) PROVE StorageInv'
  BY <1>4 DEF ClearItem
<1>5. CASE ReloadStorage
  BY <1>5, NoSaveAssumption DEF ReloadStorage
<1>6. CASE UNCHANGED storageVars
  BY <1>6 DEF storageVars
<1> QED BY <1>1, <1>2, <1>3, <1>4, <1>5, <1>6 DEF StorageNext

\* What can be stored and read comes from calls that got that far.
THEOREM StoredWasWritten == StorageSpec => []StorageInv
<1>1. StorageInit => StorageInv
  BY DEF StorageInit, StorageInv, StorageTypeOK, StoredIsDone
<1> QED BY <1>1, StorageInvStep, PTL DEF StorageSpec

\* The register an item stands for starts empty.
LEMMA RegisterInit == ASSUME StorageInit, NEW k \in StorageKeys PROVE Register(k)!Init
BY NoSaveAssumption DEF StorageInit, Register!Init, GetItem, Writing, Dead, Writes

\* A step that begins no write and ends none, and after which every item reads
\* as before or as nothing, at most overtakes writes.
LEMMA OvertakeStep ==
    ASSUME NEW k \in StorageKeys,
           GetItem(k)' \in {GetItem(k), NoSave},
           Writing(k)' \subseteq Writing(k),
           Dead(k) \subseteq Dead(k)',
           Dead(k)' \subseteq Dead(k) \cup Writing(k) \cup {GetItem(k)}
    PROVE  Register(k)!Overtake
BY DEF Register!Overtake

LEMMA RegisterStep ==
    ASSUME StorageInv, StorageInv', [StorageNext]_storageVars, NEW k \in StorageKeys
    PROVE  [Register(k)!Next]_(Register(k)!vars)
<1> USE DEF StorageInv, StorageTypeOK, StoredIsDone
<1>1. ASSUME NEW c \in Saves, SetItem(c) PROVE Register(k)!Next \/ UNCHANGED Register(k)!vars
  <2>1. CASE KeyOf[c] = k
    <3>1. Register(k)!Begin(c)
      BY <1>1, <2>1, NoSaveAssumption DEF SetItem, Register!Begin, GetItem, Writing, Dead, Writes
    <3> QED BY <3>1, <2>1 DEF Register!Next, Writes
  <2>2. CASE KeyOf[c] # k
    BY <1>1, <2>2 DEF SetItem, Register!vars, GetItem, Writing, Dead, Writes
  <2> QED BY <2>1, <2>2
<1>2. ASSUME NEW c \in Saves, KeepKey(c) PROVE Register(k)!Next
  <2>1. GetItem(k)' \in {GetItem(k), NoSave}
    BY <1>2, NoSaveAssumption DEF KeepKey, GetItem
  <2>2. Writing(k)' \subseteq Writing(k)
    BY <1>2 DEF KeepKey, Writing, Writes
  <2>3. Dead(k) \subseteq Dead(k)'
    BY <1>2 DEF KeepKey, Dead, Writes
  <2>4. Dead(k)' \subseteq Dead(k) \cup Writing(k) \cup {GetItem(k)}
    BY <1>2 DEF KeepKey, Dead, Writing, Writes
  <2> QED BY <2>1, <2>2, <2>3, <2>4, OvertakeStep DEF Register!Next, Writes
<1>3. ASSUME NEW c \in Saves, KeepItem(c) PROVE Register(k)!Next \/ UNCHANGED Register(k)!vars
  <2>1. CASE KeyOf[c] = k
    <3>1. GetItem(k)' = IF name = c THEN c ELSE NoSave
      BY <1>3, <2>1, NoSaveAssumption DEF KeepItem, GetItem
    <3>2. Writing(k)' = Writing(k) \ {c} /\ Dead(k)' = Dead(k) \cup {c}
      BY <1>3, <2>1 DEF KeepItem, Writing, Dead, Writes
    <3>3. c \in Writing(k) /\ (name = c => c \notin Dead(k))
      BY <1>3, <2>1 DEF KeepItem, Writing, Dead, Writes
    <3>4. Register(k)!End(c)
      BY <3>1, <3>2, <3>3 DEF Register!End
    <3> QED BY <3>4, <2>1 DEF Register!Next, Writes
  <2>2. CASE KeyOf[c] # k
    BY <1>3, <2>2, KeyOfAssumption DEF KeepItem, Register!vars, GetItem, Writing, Dead, Writes
  <2> QED BY <2>1, <2>2
<1>4. ASSUME NEW j \in StorageKeys, ClearItem(j) PROVE Register(k)!Next
  <2>1. GetItem(k)' \in {GetItem(k), NoSave}
    BY <1>4, NoSaveAssumption DEF ClearItem, GetItem
  <2>2. Writing(k)' \subseteq Writing(k) /\ Dead(k) \subseteq Dead(k)'
    BY <1>4, NoSaveAssumption DEF ClearItem, Writing, Dead, Writes
  <2>3. Dead(k)' \subseteq Dead(k) \cup Writing(k) \cup {GetItem(k)}
    BY <1>4 DEF ClearItem, Dead, Writing, Writes
  <2> QED BY <2>1, <2>2, <2>3, OvertakeStep DEF Register!Next, Writes
<1>5. ASSUME ReloadStorage PROVE Register(k)!Next
  <2>1. GetItem(k)' \in {GetItem(k), NoSave}
    BY <1>5, NoSaveAssumption DEF ReloadStorage, GetItem
  <2>2. Writing(k)' \subseteq Writing(k) /\ Dead(k) \subseteq Dead(k)'
    BY <1>5 DEF ReloadStorage, Writing, Dead, Writes
  <2>3. Dead(k)' \subseteq Dead(k) \cup Writing(k) \cup {GetItem(k)}
    BY <1>5 DEF ReloadStorage, Dead, Writing, Writes
  <2> QED BY <2>1, <2>2, <2>3, OvertakeStep DEF Register!Next, Writes
<1>6. ASSUME UNCHANGED storageVars PROVE UNCHANGED Register(k)!vars
  BY <1>6 DEF storageVars, Register!vars, GetItem, Writing, Dead, Writes
<1> QED BY <1>1, <1>2, <1>3, <1>4, <1>5, <1>6 DEF StorageNext

\* Overlapping calls, clears and reloads may lose an item, but never bring back
\* one that was cleared or replaced, nor mix two.
THEOREM StorageIsLossyRegister == StorageSpec => ImplementsRegister
<1>1. StorageInit => \A k \in StorageKeys : Register(k)!Init
  BY RegisterInit
<1>2. StorageInv /\ StorageInv' /\ [StorageNext]_storageVars
        => \A k \in StorageKeys : [Register(k)!Next]_(Register(k)!vars)
  BY RegisterStep
<1> QED BY <1>1, <1>2, StoredWasWritten, PTL DEF StorageSpec, ImplementsRegister

-----------------------------------------------------------------------------
(* Both.                                                                   *)

\* While one of the two takes a step, the other rests: what holds of each by
\* itself holds of an app that has both.
THEOREM StoresAreBoth == SpecStores => Spec /\ StorageSpec
<1>1. InitStores => Init /\ StorageInit
  BY DEF InitStores
<1>2. [NextStores]_<<vars, storageVars>> => [Next]_vars /\ [StorageNext]_storageVars
  BY DEF NextStores
<1> QED BY <1>1, <1>2, PTL DEF SpecStores, Spec, StorageSpec

\* What the runs check of both.
THEOREM StoresAreSafe ==
    SpecStores => /\ [](NoResurrection /\ GetsTheRightAccount)
                  /\ DeletedForCause /\ ImplementsRegister
BY StoresAreBoth, SignedOutStaysGone, RightAccounts, DeletionsHaveCause,
   StorageIsLossyRegister, PTL
=============================================================================
