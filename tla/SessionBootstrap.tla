-------------------------- MODULE SessionBootstrap --------------------------
(***************************************************************************)
(* How tabs of an application get their session: SessionBootstrapClient,   *)
(* AuthorizeClient and AuthorizeState of @proton/account, with             *)
(* AccountClient's signOut and authorize.                                  *)
(*                                                                         *)
(* An application without a session sends its tab to account, which forks  *)
(* a session and sends the tab back with the fork's selector in the URL.   *)
(* The fork is pulled once, by whoever knows the fork secret if it is      *)
(* bound to one.  The secret, and data of the application, wait in the     *)
(* tab's sessionStorage under the fork's state.                            *)
(*                                                                         *)
(* The number of a request for a fork stands for its state's random key    *)
(* and for its secret.  SessionPersistence is kept as what its calls may   *)
(* return and leave stored.  Account, its API and the user are external.   *)
(***************************************************************************)
EXTENDS Naturals, Sequences, Functions

CONSTANTS Tabs, LocalIds, Data,
          MaxRequests, MaxForks, MaxLoads, \* bounds
          None

ASSUME NoneAssumption == None \notin LocalIds \cup Data /\ None \notin Nat
ASSUME BoundAssumption == {MaxRequests, MaxForks, MaxLoads} \subseteq Nat

VARIABLES
    page,       \* the URL of every tab: the application, account or its callback
    kept,       \* the states that every tab keeps, by number
    requests,   \* the requests made so far
    forks,      \* account's forks
    stored,     \* the local ids whose session is stored, for all tabs
    load,       \* what every tab's page is doing
    loads       \* how often pages were loaded

vars == <<page, kept, requests, forks, stored, load, loads>>

Id == LocalIds \cup {None}
Number == 1 .. MaxRequests
State == [data : Data \cup {None}, secret : Number \cup {None}]
Intent ==
    [type : {"switch", "add-account", "reauthorize"}]
      \cup [type : {"sign-out"}, user : Id]
      \cup [type : {"resume"}, localId : Id,
            reason : {"expired", "not-found", "corrupted", "none"}]
Request == [intent : Intent, state : BOOLEAN, bound : BOOLEAN,
            asked : Data \cup {None}] \* history: the data to be returned, if known
Fork == [id : LocalIds, secret : Number \cup {None}, pulled : BOOLEAN,
         refused : BOOLEAN]  \* history: a pull was answered with a 4xx
Page == [at : {"app"}] \cup [at : {"account"}, request : Number \cup {None}]
            \cup [at : {"callback"}, state : Number \cup {None}, fork : 1 .. MaxForks]
Ended == {"none", "authenticated", "unauthorized", "error"}
Load == [step : Ended \cup {"lookup", "pull", "cookies", "save", "authorize",
                            "user", "signOut"},
         id : Id,                       \* the session asked for
         intent : Intent,               \* what to send the user to account for
         state : Number \cup {None},    \* of the callback
         secret : Number \cup {None}, data : Data \cup {None},
         request : Number \cup {None},  \* the one the user is sent off with
         asked : Data \cup {None},      \* history, as above
         lost : BOOLEAN]                \* history: no data was kept

Switch == [type |-> "switch"]
NewLoad == [step |-> "none", id |-> None, intent |-> Switch, state |-> None,
            secret |-> None, data |-> None, request |-> None, asked |-> None,
            lost |-> FALSE]

Init ==
    /\ page = [t \in Tabs |-> [at |-> "app"]]
    /\ kept = [t \in Tabs |-> <<>>]
    /\ requests = <<>> /\ forks = <<>> /\ stored = {} /\ loads = 0
    /\ load = [t \in Tabs |-> NewLoad]

-----------------------------------------------------------------------------
(* The state of a fork, in sessionStorage.                                 *)

\* A state that is missing or unreadable is empty.
FromKey(t, n) ==
    IF n \in DOMAIN kept[t] THEN kept[t][n] ELSE [data |-> None, secret |-> None]

Forget(t, n) == Restrict(kept[t], DOMAIN kept[t] \ {n})
Write(states, n, s) ==
    [m \in DOMAIN states \cup {n} |-> IF m = n THEN s ELSE states[m]]

To(t, r) == load' = [load EXCEPT ![t] = r]
Step(t, step) == load' = [load EXCEPT ![t].step = step]
At(t, step) == load[t].step = step
Resume(t, id, reason) ==
    [load[t] EXCEPT !.step = "authorize",
                    !.intent = [type |-> "resume", localId |-> id, reason |-> reason]]

-----------------------------------------------------------------------------
(* getSession.                                                             *)

\* Variant: the state is forgotten as soon as it is read.
GetSessionOnce(t, id, data) ==
    /\ At(t, "none") /\ loads < MaxLoads /\ loads' = loads + 1
    /\ \/ /\ page[t].at = "app" /\ UNCHANGED kept
          /\ To(t, [NewLoad EXCEPT !.step = "lookup", !.id = id, !.data = data,
                                   !.asked = data])
       \/ /\ page[t].at = "callback"
          /\ LET n == page[t].state
                 s == FromKey(t, n)
             IN  /\ To(t, [NewLoad EXCEPT
                      !.step = "pull", !.id = id, !.state = n, !.secret = s.secret,
                      !.data = s.data, !.lost = n \notin DOMAIN kept[t],
                      !.asked = IF n = None THEN None ELSE requests[n].asked])
                 /\ kept' = [kept EXCEPT ![t] = Forget(t, n)]
    /\ UNCHANGED <<page, requests, forks, stored>>

\* The page's URL says where the session comes from.
GetSession(t, id, data) ==
    /\ At(t, "none") /\ loads < MaxLoads /\ loads' = loads + 1
    /\ \/ /\ page[t].at = "app"
          /\ To(t, [NewLoad EXCEPT !.step = "lookup", !.id = id, !.data = data,
                                   !.asked = data])
       \/ /\ page[t].at = "callback"
          /\ LET n == page[t].state
                 s == FromKey(t, n)
             IN  To(t, [NewLoad EXCEPT
                      !.step = "pull", !.id = id, !.state = n, !.secret = s.secret,
                      !.data = s.data, !.lost = n \notin DOMAIN kept[t],
                      !.asked = IF n = None THEN None ELSE requests[n].asked])
    /\ UNCHANGED <<page, kept, requests, forks, stored>>

\* What SessionPersistence's getSession may find; a refused session is dropped.
Lookup(t) ==
    /\ At(t, "lookup")
    /\ LET id == load[t].id IN
         \/ /\ \E l \in stored : id \in {l, None}
            /\ To(t, [load[t] EXCEPT !.step = "authenticated", !.data = None])
            /\ UNCHANGED stored
         \/ \E l \in stored, reason \in {"expired", "corrupted"} :
              /\ id \in {l, None}
              /\ stored' = stored \ {l}
              /\ To(t, Resume(t, l, reason))
         \/ /\ ~\E l \in stored : id \in {l, None}
            /\ To(t, Resume(t, id, "not-found")) /\ UNCHANGED stored
         \/ Step(t, "error") /\ UNCHANGED stored
    /\ UNCHANGED <<page, kept, requests, forks, loads>>

\* The fork is pulled unless it was, or its secret is not known; the answer may
\* be lost, or its payload unreadable.  Any 4xx gives the fork up.
Pull(t) ==
    /\ At(t, "pull")
    /\ LET f == page[t].fork
           granted == /\ ~forks[f].pulled
                      /\ forks[f].secret \in {None, load[t].secret}
       IN  \/ /\ granted /\ forks' = [forks EXCEPT ![f].pulled = TRUE]
              /\ \/ Step(t, "cookies") \/ Step(t, "error")
                 \/ To(t, Resume(t, load[t].id, "none"))
           \/ /\ forks' = [forks EXCEPT ![f].refused = TRUE]
              /\ To(t, Resume(t, load[t].id, "none"))
           \/ Step(t, "error") /\ UNCHANGED forks
    /\ UNCHANGED <<page, kept, requests, stored, loads>>

Cookies(t) ==
    /\ At(t, "cookies")
    /\ \/ Step(t, "save") \/ Step(t, "error")
       \/ To(t, Resume(t, load[t].id, "none"))
    /\ UNCHANGED <<page, kept, requests, forks, stored, loads>>

\* Variant: the state stays.
SaveOnly(t) ==
    /\ At(t, "save")
    /\ \/ /\ stored' = stored \cup {forks[page[t].fork].id}
          /\ UNCHANGED kept
          /\ Step(t, "authenticated")
       \/ /\ To(t, Resume(t, load[t].id, "none")) /\ UNCHANGED <<stored, kept>>
       \/ Step(t, "error") /\ UNCHANGED <<stored, kept>>
    /\ UNCHANGED <<page, requests, forks, loads>>

\* The state goes once the session is saved.
Save(t) ==
    /\ At(t, "save")
    /\ \/ /\ stored' = stored \cup {forks[page[t].fork].id}
          /\ kept' = [kept EXCEPT ![t] = Forget(t, load[t].state)]
          /\ Step(t, "authenticated")
       \/ /\ To(t, Resume(t, load[t].id, "none")) /\ UNCHANGED <<stored, kept>>
       \/ Step(t, "error") /\ UNCHANGED <<stored, kept>>
    /\ UNCHANGED <<page, requests, forks, loads>>

\* Variant: the data of a fork that could not be used is not carried over.
AuthorizeBare(t) ==
    /\ At(t, "authorize") /\ Len(requests) < MaxRequests
    /\ LET n == Len(requests) + 1
           r == load[t]
       IN  \E secret \in {n, None}, writable \in BOOLEAN :
             /\ kept' = [kept EXCEPT ![t] = IF writable
                  THEN Write(Forget(t, r.state), n,
                             [data |-> IF r.state = None THEN r.data ELSE None,
                              secret |-> secret])
                  ELSE Forget(t, r.state)]
             /\ requests' = Append(requests,
                  [intent |-> r.intent, state |-> writable,
                   bound |-> writable /\ secret # None,
                   asked |-> IF r.lost THEN r.data ELSE r.asked])
             /\ To(t, [r EXCEPT !.step = "unauthorized", !.request = n])
    /\ UNCHANGED <<page, forks, stored, loads>>

\* A secret that cannot be created leaves the fork unbound, and so does a state
\* that cannot be written; then the callback's state is forgotten.
Authorize(t) ==
    /\ At(t, "authorize") /\ Len(requests) < MaxRequests
    /\ LET n == Len(requests) + 1
           r == load[t]
       IN  \E secret \in {n, None}, writable \in BOOLEAN :
             /\ kept' = [kept EXCEPT ![t] = IF writable
                  THEN Write(Forget(t, r.state), n,
                             [data |-> r.data, secret |-> secret])
                  ELSE Forget(t, r.state)]
             /\ requests' = Append(requests,
                  [intent |-> r.intent, state |-> writable,
                   bound |-> writable /\ secret # None,
                   asked |-> IF r.lost THEN r.data ELSE r.asked])
             /\ To(t, [r EXCEPT !.step = "unauthorized", !.request = n])
    /\ UNCHANGED <<page, forks, stored, loads>>

-----------------------------------------------------------------------------
(* What an application with a session does.                                *)

Ask(t, type, data) ==
    /\ At(t, "authenticated") /\ page[t].at = "app"
    /\ To(t, [NewLoad EXCEPT !.step = "authorize", !.intent = [type |-> type],
                             !.data = data, !.asked = data])
    /\ UNCHANGED <<page, kept, requests, forks, stored, loads>>

\* A link opens account in another tab; its fork is not bound.
AuthorizeLink(t, u) ==
    /\ At(t, "authenticated") /\ page[t].at = "app" /\ At(u, "none")
    /\ page' = [page EXCEPT ![u] = [at |-> "account", request |-> None]]
    /\ UNCHANGED <<kept, requests, forks, stored, load, loads>>

\* A sign-out looks up its user first; a session that is gone is dropped.
SignOut(t, id, type) ==
    /\ At(t, "authenticated") /\ page[t].at = "app"
    /\ To(t, IF type = "signOut"
             THEN [NewLoad EXCEPT !.step = "user", !.id = id]
             ELSE [NewLoad EXCEPT !.step = "signOut", !.id = id,
                                  !.intent = [type |-> "reauthorize"]])
    /\ UNCHANGED <<page, kept, requests, forks, stored, loads>>

FindUser(t) ==
    /\ At(t, "user")
    /\ \E user \in {None} \cup (stored \cap {load[t].id}) :
         To(t, [load[t] EXCEPT !.step = "signOut",
                               !.intent = [type |-> "sign-out", user |-> user]])
    /\ UNCHANGED <<page, kept, requests, forks, stored, loads>>

SignOutSession(t) ==
    /\ At(t, "signOut") /\ Step(t, "authorize")
    /\ stored' \in {stored, stored \ {load[t].id}}
    /\ UNCHANGED <<page, kept, requests, forks, loads>>

-----------------------------------------------------------------------------
(* The user, the browser and account.                                      *)

\* The page is reloaded, whatever it was doing.
Reload(t) ==
    /\ ~At(t, "none") /\ To(t, NewLoad)
    /\ UNCHANGED <<page, kept, requests, forks, stored, loads>>

\* The application goes on at its own URL.
Enter(t) ==
    /\ At(t, "authenticated") /\ page[t].at = "callback"
    /\ page' = [page EXCEPT ![t] = [at |-> "app"]]
    /\ UNCHANGED <<kept, requests, forks, stored, load, loads>>

Leave(t) ==
    /\ At(t, "unauthorized")
    /\ page' = [page EXCEPT ![t] = [at |-> "account", request |-> load[t].request]]
    /\ To(t, NewLoad)
    /\ UNCHANGED <<kept, requests, forks, stored, loads>>

\* The user comes back without a session.
Abandon(t) ==
    /\ page[t].at # "app" /\ At(t, "none")
    /\ page' = [page EXCEPT ![t] = [at |-> "app"]]
    /\ UNCHANGED <<kept, requests, forks, stored, load, loads>>

\* Account forks a session of the user's choice, and sends the tab back.
AccountForks(t, id) ==
    /\ page[t].at = "account" /\ Len(forks) < MaxForks
    /\ LET n == page[t].request
           r == requests[n]
       IN  /\ forks' = Append(forks, [id |-> id, pulled |-> FALSE, refused |-> FALSE,
                 secret |-> IF n # None /\ r.bound THEN n ELSE None])
           /\ page' = [page EXCEPT ![t] =
                 [at |-> "callback", fork |-> Len(forks'),
                  state |-> IF n # None /\ r.state THEN n ELSE None]]
    /\ UNCHANGED <<kept, requests, stored, load, loads>>

Client(t) ==
    \/ Lookup(t) \/ Pull(t) \/ Cookies(t) \/ Save(t) \/ Authorize(t)
    \/ FindUser(t) \/ SignOutSession(t)

Next == \E t \in Tabs :
    \/ Client(t) \/ Reload(t) \/ Enter(t) \/ Leave(t) \/ Abandon(t)
    \/ \E id \in Id, data \in Data : GetSession(t, id, data)
    \/ \E type \in {"switch", "add-account", "reauthorize"}, data \in Data \cup {None} :
         Ask(t, type, data)
    \/ \E u \in Tabs \ {t} : AuthorizeLink(t, u)
    \/ \E id \in LocalIds, type \in {"signOut", "unauthorized"} : SignOut(t, id, type)
    \/ \E id \in LocalIds : AccountForks(t, id)

Spec == Init /\ [][Next]_vars

-----------------------------------------------------------------------------
\* Every variable keeps its type.
TypeOK ==
    /\ page \in [Tabs -> Page]
    /\ \A t \in Tabs : /\ DOMAIN kept[t] \subseteq Number
                       /\ \A n \in DOMAIN kept[t] : kept[t][n] \in State
    /\ requests \in Seq(Request) /\ Len(requests) <= MaxRequests
    /\ forks \in Seq(Fork) /\ Len(forks) <= MaxForks
    /\ stored \subseteq LocalIds
    /\ load \in [Tabs -> Load] /\ loads \in 0 .. MaxLoads

\* A tab that is sent back with a fork that can still be pulled has its secret,
\* however often its page was loaded, unless it has given the fork up.
OwnForksCanBePulled ==
    /\ TypeOK
    /\ \A t \in Tabs : page[t].at = "callback" =>
         LET f == forks[page[t].fork] IN
           ~f.pulled /\ ~f.refused =>
             /\ At(t, "none") => FromKey(t, page[t].state).secret = f.secret
             /\ At(t, "pull") => load[t].secret = f.secret

\* The data an application asked a fork with comes back with the session, also
\* by way of forks that failed, as long as the tab could keep it.
DataComesBack ==
    \A t \in Tabs : At(t, "authenticated") /\ page[t].at = "callback"
        => load[t].data = load[t].asked \/ load[t].lost

\* A fork whose session is set up, or given up, leaves nothing behind in the tab.
SpentStatesAreForgotten ==
    \A t \in Tabs : At(t, "authenticated") \/ At(t, "unauthorized")
        => load[t].state \notin DOMAIN kept[t]
=============================================================================
