------------------------- MODULE SessionPersistence -------------------------
(***************************************************************************)
(* session-persistence.ts: the sessions an app keeps in the browser.  All  *)
(* tabs share one IndexedDB, where a session is stored under its local id; *)
(* each tab keeps one session's secrets in its memory, which is the lossy  *)
(* register SecureStorage implements.  The calls of all tabs interleave at *)
(* every await: saveSession, getSession and signOutSession.                *)
(*                                                                         *)
(* Each session saved has a uid of its own, and the uid stands for all its *)
(* secrets: payload, key password and client key.  The server is external: *)
(* any of its answers may come at any time, the code depends on no other.  *)
(***************************************************************************)
EXTENDS Naturals, FiniteSets

CONSTANTS Tabs, Calls,
          LocalIds,   \* the local ids of sessions
          OldUids,    \* sessions saved before, one per local id at most
          OldLocalId, \* ... and the local id of each
          None

ASSUME OldLocalIdAssumption == OldLocalId \in [OldUids -> LocalIds]
ASSUME UidAssumption == Calls \cap OldUids = {}
ASSUME NoneAssumption ==
    /\ None \notin Calls \cup OldUids \cup LocalIds \cup Tabs
    /\ None \notin [localId : LocalIds, uid : Calls \cup OldUids]

\* saveSession stores a session of its own: the call stands for its uid.
Uids == Calls \cup OldUids

VARIABLES
    call,       \* each call's progress
    db,         \* IndexedDB: the uid stored under each local id
    mem,        \* each tab's memory: the secrets of one session
    signedOut,  \* history: the sessions signOutSession reported "ok" for
    overlapped  \* history: those another call held at that time, or since

vars == <<call, db, mem, signedOut, overlapped>>

Entry == [localId : LocalIds, uid : Uids]
Outcome == {"ok", "fail", "network", "expired", "decryption", "notFound", "killed"}
CallRecord ==
    [kind    : {"none", "get", "save", "signOut", "unauthorized"},
     pc      : {"idle", "memory", "database", "key", "answered", "save", "use",
                "evict", "delete", "revoke", "done"},
     tab     : Tabs \cup {None},
     localId : LocalIds \cup {None},   \* the argument, None for the last used
     dto     : Entry \cup {None},      \* sessionDbDto, as it was read
     secret  : Uids \cup {None},       \* keyPassword and clientKey
     answer  : {"none", "200", "corrupt", "401", "other"},
     left    : SUBSET {"db", "mem"},   \* what #useSession still has to write
     result  : Outcome \cup {"none"}]

Idle == [kind |-> "none", pc |-> "idle", tab |-> None, localId |-> None,
         dto |-> None, secret |-> None, answer |-> "none", left |-> {},
         result |-> "none"]

Stored(l) == IF db[l] = None THEN None ELSE [localId |-> l, uid |-> db[l]]

Init ==
    /\ call = [c \in Calls |-> Idle]
    /\ \E kept \in SUBSET OldUids :
        /\ \A u, v \in kept : OldLocalId[u] = OldLocalId[v] => u = v
        /\ db = [l \in LocalIds |->
                    IF \E u \in kept : OldLocalId[u] = l
                    THEN CHOOSE u \in kept : OldLocalId[u] = l ELSE None]
        /\ mem \in [Tabs -> {None} \cup
                    {[localId |-> OldLocalId[u], uid |-> u] : u \in kept}]
    /\ signedOut = {}
    /\ overlapped = {}

-----------------------------------------------------------------------------
At(c, pc) == call[c].pc = pc

\* The call goes on: f gives the fields that change.
Go(c, r) == call' = [call EXCEPT ![c] = r]
Done(c, result) ==
    Go(c, [call[c] EXCEPT !.pc = "done", !.result = result, !.tab = None,
                          !.answer = "none", !.dto = None, !.secret = None])

Local == <<db, mem>>
History == <<signedOut, overlapped>>

\* Variant: the session in memory is taken for any local id.
RememberedAny(t, l) == mem[t]

\* The session in memory, if the caller asked for that one or for any.
Remembered(t, l) ==
    IF mem[t] # None /\ (l = None \/ mem[t].localId = l) THEN mem[t] ELSE None

\* #useSession: setLastUsed writes back the whole entry as it was read, and the
\* secrets go to memory; neither waits for the other.
Use(c, dto, secret) ==
    Go(c, [call[c] EXCEPT !.pc = "use", !.dto = dto, !.secret = secret,
                          !.left = {"db", "mem"}])

UseStep(c) ==
    \E store \in call[c].left :
        /\ At(c, "use")
        /\ Go(c, LET r == [call[c] EXCEPT !.left = @ \ {store}]
                 IN  IF r.left # {} THEN r
                     ELSE [r EXCEPT !.pc = "done", !.result = "ok", !.tab = None,
                                    !.answer = "none"])
        /\ db' = IF store = "db"
                 THEN [db EXCEPT ![call[c].dto.localId] = call[c].dto.uid] ELSE db
        /\ mem' = IF store = "mem"
                  THEN [mem EXCEPT ![call[c].tab] =
                          [localId |-> call[c].dto.localId, uid |-> call[c].secret]]
                  ELSE mem
        /\ UNCHANGED History

-----------------------------------------------------------------------------
(* getSession                                                              *)

\* The memory is read first.
GetSession(c, t, l) ==
    /\ At(c, "idle")
    /\ LET m == Remembered(t, l)
           r == [Idle EXCEPT !.kind = "get", !.tab = t, !.localId = l]
       IN  Go(c, IF m = None THEN [r EXCEPT !.pc = "database"]
                 ELSE [r EXCEPT !.pc = "memory", !.dto = m, !.secret = m.uid])
    /\ UNCHANGED <<Local, History>>

\* The secrets in memory go with whatever is stored under their local id.
GetFromMemory(c) ==
    /\ At(c, "memory") /\ call[c].kind = "get"
    /\ LET dto == Stored(call[c].dto.localId)
       IN  IF dto = None
           THEN Go(c, [call[c] EXCEPT !.pc = "database", !.dto = None,
                                      !.secret = None])
           ELSE Use(c, dto, call[c].secret)
    /\ UNCHANGED <<Local, History>>

\* Otherwise the entry of the local id, or the last used one (any, here).
GetFromDatabase(c) ==
    /\ At(c, "database")
    /\ \E l \in IF call[c].localId = None THEN LocalIds ELSE {call[c].localId} :
        /\ call[c].localId = None /\ Stored(l) = None
                => \A k \in LocalIds : Stored(k) = None
        /\ IF Stored(l) = None THEN Done(c, "notFound")
           ELSE Go(c, [call[c] EXCEPT !.pc = "key", !.dto = Stored(l)])
    /\ UNCHANGED <<Local, History>>

\* The client key is asked of the server for the entry's uid; it may not
\* decrypt the entry's payload.
GetClientKey(c) ==
    /\ At(c, "key")
    /\ \E answer \in {"200", "corrupt", "401", "other"} :
        Go(c, [call[c] EXCEPT !.pc = "answered", !.answer = answer])
    /\ UNCHANGED <<Local, History>>

\* Variant: the entry is deleted whatever the server's answer was.
DeleteOnAnyFailure(c) ==
    /\ At(c, "answered") /\ call[c].kind = "get"
    /\ IF call[c].answer = "200"
       THEN Use(c, call[c].dto, call[c].dto.uid) /\ UNCHANGED db
       ELSE /\ Done(c, IF call[c].answer = "other" THEN "network" ELSE "expired")
            /\ db' = [db EXCEPT ![call[c].dto.localId] = None]
    /\ UNCHANGED <<mem, History>>

\* An entry that was revoked, or cannot be decrypted, is deleted: under its
\* local id, whatever is stored there by now.
UseStoredSession(c) ==
    /\ At(c, "answered") /\ call[c].kind = "get"
    /\ CASE call[c].answer = "200" ->
              Use(c, call[c].dto, call[c].dto.uid) /\ UNCHANGED db
         [] call[c].answer = "other" ->
              Done(c, "network") /\ UNCHANGED db
         [] OTHER ->
              /\ Done(c, IF call[c].answer = "401" THEN "expired" ELSE "decryption")
              /\ db' = [db EXCEPT ![call[c].dto.localId] = None]
    /\ UNCHANGED <<mem, History>>

-----------------------------------------------------------------------------
(* saveSession                                                             *)

\* The new client key is put on the server, which may refuse it or fail.
SaveSession(c, t, l) ==
    /\ At(c, "idle")
    /\ \E answer \in {"200", "401", "other"} :
        Go(c, [Idle EXCEPT !.kind = "save", !.tab = t, !.localId = l,
                 !.pc = "answered", !.answer = answer, !.secret = c,
                 !.dto = [localId |-> l, uid |-> c]])
    /\ UNCHANGED <<Local, History>>

\* Once accepted, the payload is encrypted with it.
EncryptPayload(c) ==
    /\ At(c, "answered") /\ call[c].kind = "save"
    /\ CASE call[c].answer = "200" -> Go(c, [call[c] EXCEPT !.pc = "save"])
         [] call[c].answer = "401" -> Done(c, "expired")
         [] OTHER                  -> Done(c, "network")
    /\ UNCHANGED <<Local, History>>

StoreSession(c) ==
    /\ At(c, "save")
    /\ db' = [db EXCEPT ![call[c].dto.localId] = call[c].dto.uid]
    /\ Use(c, call[c].dto, call[c].secret)
    /\ UNCHANGED <<mem, History>>

-----------------------------------------------------------------------------
(* signOutSession                                                          *)

SignOutSession(c, t, l, type) ==
    /\ At(c, "idle")
    /\ LET r == [Idle EXCEPT !.kind = type, !.tab = t, !.localId = l]
       IN  Go(c, IF Stored(l) = None
                 THEN [r EXCEPT !.pc = "done", !.result = "fail"]
                 ELSE [r EXCEPT !.pc = "memory", !.dto = Stored(l)])
    /\ UNCHANGED <<Local, History>>

SigningOut(c) == call[c].kind \in {"signOut", "unauthorized"}

\* The tab's memory is looked at, to see whose session it holds...
LookUpMemory(c) ==
    /\ At(c, "memory") /\ SigningOut(c)
    /\ Go(c, [call[c] EXCEPT !.pc =
                IF Remembered(call[c].tab, call[c].localId) = None
                THEN "delete" ELSE "evict"])
    /\ UNCHANGED <<Local, History>>

\* ... and cleared, once the look-up is decrypted.
EvictMemory(c) ==
    /\ At(c, "evict")
    /\ mem' = [mem EXCEPT ![call[c].tab] = None]
    /\ Go(c, [call[c] EXCEPT !.pc = "delete"])
    /\ UNCHANGED <<db, History>>

\* Another call is about to use the entry of uid u.
HeldByAnother(u, c) ==
    \E d \in Calls \ {c} :
        /\ call[d].kind \in {"get", "save"}
        /\ call[d].pc \in {"key", "answered", "save", "use"}
        /\ call[d].dto.uid = u

\* Variant: the entry stays if the server is to revoke the session.
DeleteUnauthorizedOnly(c) ==
    LET dto == call[c].dto
    IN  /\ At(c, "delete")
        /\ overlapped' = IF HeldByAnother(dto.uid, c)
                         THEN overlapped \cup {dto.uid} ELSE overlapped
        /\ IF call[c].kind = "unauthorized"
           THEN Done(c, "ok") /\ signedOut' = signedOut \cup {dto.uid}
                /\ db' = [db EXCEPT ![dto.localId] = None]
           ELSE /\ Go(c, [call[c] EXCEPT !.pc = "revoke"])
                /\ UNCHANGED <<signedOut, db>>
        /\ UNCHANGED mem

\* The entry of the local id is deleted; unauthorized calls are done then.
DeleteSession(c) ==
    LET dto == call[c].dto
    IN  /\ At(c, "delete")
        /\ db' = [db EXCEPT ![dto.localId] = None]
        /\ overlapped' = IF HeldByAnother(dto.uid, c)
                         THEN overlapped \cup {dto.uid} ELSE overlapped
        /\ IF call[c].kind = "unauthorized"
           THEN Done(c, "ok") /\ signedOut' = signedOut \cup {dto.uid}
           ELSE Go(c, [call[c] EXCEPT !.pc = "revoke"]) /\ UNCHANGED signedOut
        /\ UNCHANGED mem

\* The answer of the server, or its failure, makes no difference.
RevokeSession(c) ==
    /\ At(c, "revoke")
    /\ signedOut' = signedOut \cup {call[c].dto.uid}
    /\ Done(c, "ok")
    /\ UNCHANGED <<Local, overlapped>>

-----------------------------------------------------------------------------
(* The tab.                                                                *)

\* The memory is a lossy register: overlapping writes, or window.name, lose it.
LoseMemory(t) ==
    /\ mem[t] # None
    /\ mem' = [mem EXCEPT ![t] = None]
    /\ UNCHANGED <<call, db, History>>

\* A reload ends the calls of the tab wherever they are.
Reload(t) ==
    /\ \E c \in Calls : call[c].tab = t /\ ~At(c, "done")
    /\ call' = [c \in Calls |->
                   IF call[c].tab = t /\ ~At(c, "done")
                   THEN [Idle EXCEPT !.kind = call[c].kind, !.pc = "done",
                           !.localId = call[c].localId, !.result = "killed"]
                   ELSE call[c]]
    /\ UNCHANGED <<Local, History>>

Start(c, t) ==
    \/ \E l \in LocalIds \cup {None} : GetSession(c, t, l)
    \/ \E l \in LocalIds :
        \/ SaveSession(c, t, l)
        \/ \E type \in {"signOut", "unauthorized"} : SignOutSession(c, t, l, type)

Continue(c) ==
    \/ GetFromMemory(c) \/ GetFromDatabase(c) \/ GetClientKey(c)
    \/ UseStoredSession(c) \/ EncryptPayload(c) \/ StoreSession(c)
    \/ UseStep(c) \/ LookUpMemory(c) \/ EvictMemory(c) \/ DeleteSession(c)
    \/ RevokeSession(c)

Next ==
    \/ \E c \in Calls : Continue(c) \/ \E t \in Tabs : Start(c, t)
    \/ \E t \in Tabs : LoseMemory(t) \/ Reload(t)

Spec == Init /\ [][Next]_vars

-----------------------------------------------------------------------------
\* Every variable keeps its type, and a call that deals with an entry has one.
TypeOK ==
    /\ call \in [Calls -> CallRecord]
    /\ \A c \in Calls :
        call[c].pc \in {"key", "answered", "save", "use", "evict", "delete", "revoke"}
            => call[c].dto # None
    /\ db \in [LocalIds -> Uids \cup {None}]
    /\ mem \in [Tabs -> Entry \cup {None}]
    /\ signedOut \subseteq Uids
    /\ overlapped \subseteq Uids

\* A session that was signed out is not stored again, unless a getSession or
\* saveSession of any tab already held it when its entry was deleted.
NoResurrection ==
    /\ TypeOK
    /\ \A l \in LocalIds : db[l] \in signedOut => db[l] \in overlapped

\* The local id a session was saved under.
LocalIdOf(u) == IF u \in OldUids THEN OldLocalId[u] ELSE call[u].localId

\* getSession never pairs one account's entry with another's secrets, nor
\* returns another account than the one asked for.
GetsTheRightAccount ==
    \A c \in Calls :
        call[c].kind = "get" /\ call[c].result = "ok" =>
            /\ LocalIdOf(call[c].secret) = call[c].dto.localId
            /\ LocalIdOf(call[c].dto.uid) = call[c].dto.localId
            /\ call[c].localId \in {None, call[c].dto.localId}

\* An entry is deleted only by a sign-out of its local id, or because the
\* server refused, or could not decrypt, an entry of that local id: no other
\* failure, crash or interleaving loses a session.
DeletedForCause ==
    [][\A l \in LocalIds : db[l] # None /\ db'[l] = None =>
        \E c \in Calls :
            /\ call[c] # call'[c] /\ call[c].dto # None /\ call[c].dto.localId = l
            /\ SigningOut(c) \/ call[c].answer \in {"401", "corrupt"}]_vars

\* What session-persistence.ts says of "ok": the session is torn down locally.
SignedOutIsGone ==
    \A l \in LocalIds : db[l] \notin signedOut
=============================================================================
