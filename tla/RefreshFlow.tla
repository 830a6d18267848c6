---------------------------- MODULE RefreshFlow ----------------------------
(***************************************************************************)
(* The token refresh of @proton/proton-fetch: every tab runs calls through *)
(* the refresh middleware, a 401 starts (or joins) the one refresh its tab *)
(* runs for that uid, the refreshes of all tabs wait for the web lock     *)
(* "refresh-<uid>", and the result settles every call waiting for it.      *)
(*                                                                         *)
(* The API server and the cookie jar all tabs share are external: a token  *)
(* is the number of rotations of the session's cookies, a refresh presents *)
(* the token in the jar and is refused unless the server holds the same    *)
(* one, and a refresh that succeeds rotates it.  Set-Cookie reaches the    *)
(* jar some time after the answer; the 50 ms pause of handleRefresh is     *)
(* taken to be long enough for it.                                         *)
(***************************************************************************)
EXTENDS Naturals

CONSTANTS Tabs,      \* the browser tabs of one origin
          Calls,     \* the fetch() calls made, each once
          TabOf,     \* the tab a call is made in
          Uids,      \* the uids of the sessions
          NoUid,     \* a request without an x-pm-uid header
          NoTab      \* nobody

ASSUME TabOfAssumption == TabOf \in [Calls -> Tabs]
ASSUME NoneAssumption == NoUid \notin Uids /\ NoTab \notin Tabs

VARIABLES
    call,       \* each call's progress through the refresh middleware
    task,       \* KeyedSingleRunner.running of each tab, per uid
    holder,     \* the tab that holds the web lock of a uid
    configUid,  \* config.uid of each tab's ProtonFetch
    open,       \* whether the tab is still there
    gen,        \* server: the token it accepts, per uid
    expired,    \* server: the access part of the token ran out
    revoked,    \* server: the session was terminated
    jar,        \* the token in the cookie jar, per uid
    orphan,     \* refresh requests on the wire that nobody waits for
    lost,       \* history: a refresh of uid was abandoned before its cookie came
    notified    \* history: config.uid at the onUnauthorized calls of each tab

vars == <<call, task, holder, configUid, open, gen, expired, revoked, jar,
          orphan, lost, notified>>

session == <<gen, expired, revoked>>

Statuses == {"none", "200", "401", "other", "error", "refreshResponse"}
CallRecord == [pc    : {"idle", "held", "sent", "awaiting", "retried", "done"},
               uid   : Uids \cup {NoUid},
               token : Nat,
               reply : Statuses]

TaskRecord == [phase  : {"none", "queued", "posted", "served", "settling"},
               token  : Nat,
               answer : {"none", "ok", "fail", "other"},
               cookie : BOOLEAN]

NoTask == [phase |-> "none", token |-> 0, answer |-> "none", cookie |-> FALSE]

Init ==
    /\ call = [c \in Calls |-> [pc |-> "idle", uid |-> NoUid, token |-> 0,
                                reply |-> "none"]]
    /\ task = [t \in Tabs |-> [u \in Uids |-> NoTask]]
    /\ holder = [u \in Uids |-> NoTab]
    /\ configUid \in [Tabs -> Uids]
    /\ open = [t \in Tabs |-> TRUE]
    /\ gen = [u \in Uids |-> 0]
    /\ expired \in [Uids -> BOOLEAN]
    /\ revoked = [u \in Uids |-> FALSE]
    /\ jar = [u \in Uids |-> 0]
    /\ orphan = [u \in Uids |-> {}]
    /\ lost = [u \in Uids |-> FALSE]
    /\ notified = [t \in Tabs |-> {}]

-----------------------------------------------------------------------------
(* The calls.  From getRefresh to fetch the middleware does not yield, so  *)
(* a call is held or on the wire at the end of its first step.             *)

Token(u) == IF u = NoUid THEN 0 ELSE jar[u]

Pending(t, u) == u # NoUid /\ task[t][u].phase # "none"

OnWire(c) == call[c].pc \in {"sent", "retried"}

\* next(request): the cookies of the jar go with it.
Sent(pc, u) == [pc |-> pc, uid |-> u, token |-> Token(u), reply |-> "none"]

\* A request enters the middleware, its uid from its own header or the config.
Begin(c, u) ==
    /\ call[c].pc = "idle" /\ open[TabOf[c]]
    /\ call' = [call EXCEPT ![c] =
                    IF Pending(TabOf[c], u)
                    THEN [@ EXCEPT !.pc = "held", !.uid = u]
                    ELSE Sent("sent", u)]
    /\ UNCHANGED <<task, holder, configUid, open, session, jar, orphan, lost,
                   notified>>

\* The server answers a request on its way; it may also fail (5xx, 429).
Serve(c) ==
    /\ OnWire(c) /\ call[c].reply = "none"
    /\ \E status \in {"200", "401", "other"} :
        /\ LET u == call[c].uid
               authorized == /\ ~revoked[u] /\ ~expired[u]
                             /\ call[c].token = gen[u]
           IN  u # NoUid => /\ status = "200" => authorized
                            /\ status = "401" => ~authorized
        /\ call' = [call EXCEPT ![c].reply = status]
    /\ UNCHANGED <<task, holder, configUid, open, session, jar, orphan, lost,
                   notified>>

\* The answer comes back.  The 401 of a first attempt starts the tab's
\* refresh of the uid, or joins the one that runs; anything else, the 401 of
\* the retry included, is handed to the consumer.
Receive(c) ==
    LET t == TabOf[c]
        u == call[c].uid
    IN  /\ OnWire(c) /\ call[c].reply # "none"
        /\ IF call[c].pc = "sent" /\ call[c].reply = "401" /\ u # NoUid
           THEN /\ call' = [call EXCEPT ![c].pc = "awaiting"]
                /\ task' = IF Pending(t, u) THEN task
                           ELSE [task EXCEPT ![t][u].phase = "queued"]
           ELSE /\ call' = [call EXCEPT ![c].pc = "done"]
                /\ UNCHANGED task
        /\ UNCHANGED <<holder, configUid, open, session, jar, orphan, lost,
                       notified>>

\* The network fails, or the timeout middleware gives up after 30 s.
Timeout(c) ==
    /\ OnWire(c)
    /\ call' = [call EXCEPT ![c] = [@ EXCEPT !.pc = "done", !.reply = "error"]]
    /\ UNCHANGED <<task, holder, configUid, open, session, jar, orphan, lost,
                   notified>>

-----------------------------------------------------------------------------
(* The refresh a tab runs for a uid: handleRefresh under the web lock.     *)

\* Variant: the refreshes of the tabs do not exclude each other.
GrantUnlocked(t, u) ==
    /\ task[t][u].phase = "queued"
    /\ holder' = [holder EXCEPT ![u] = t]
    /\ task' = [task EXCEPT ![t][u] =
                    [@ EXCEPT !.phase = "posted", !.token = jar[u]]]
    /\ UNCHANGED <<call, configUid, open, session, jar, orphan, lost, notified>>

\* The lock is granted and POST /auth/refresh leaves with the jar's cookies.
Grant(t, u) ==
    /\ task[t][u].phase = "queued" /\ holder[u] = NoTab
    /\ holder' = [holder EXCEPT ![u] = t]
    /\ task' = [task EXCEPT ![t][u] =
                    [@ EXCEPT !.phase = "posted", !.token = jar[u]]]
    /\ UNCHANGED <<call, configUid, open, session, jar, orphan, lost, notified>>

\* The server accepts the token it holds, and only that one, and rotates it.
Accepts(u, token) == ~revoked[u] /\ token = gen[u]

Rotate(u) ==
    /\ gen' = [gen EXCEPT ![u] = @ + 1]
    /\ expired' = [expired EXCEPT ![u] = FALSE]
    /\ UNCHANGED revoked

\* The server handles the POST: 200, a refusal (400, 401, 422) or something
\* else (429, 5xx), which leaves the session as it was.
ServeRefresh(t, u) ==
    \E answer \in {"ok", "fail", "other"} :
        /\ task[t][u].phase = "posted"
        /\ answer = "ok" => Accepts(u, task[t][u].token)
        /\ answer = "fail" => ~Accepts(u, task[t][u].token)
        /\ task' = [task EXCEPT ![t][u] =
                       [@ EXCEPT !.phase = "served", !.answer = answer,
                                 !.cookie = (answer = "ok")]]
        /\ IF answer = "ok" THEN Rotate(u) ELSE UNCHANGED session
        /\ UNCHANGED <<call, holder, configUid, open, jar, orphan, lost, notified>>

\* Variant: the jar gets the token before the one presented.
StoreOldCookie(t, u) ==
    /\ task[t][u].cookie
    /\ jar' = [jar EXCEPT ![u] = task[t][u].token - 1]
    /\ task' = [task EXCEPT ![t][u].cookie = FALSE]
    /\ UNCHANGED <<call, holder, configUid, open, session, orphan, lost, notified>>

\* The Set-Cookie of a successful refresh lands in the jar.
StoreCookie(t, u) ==
    /\ task[t][u].cookie
    /\ jar' = [jar EXCEPT ![u] = task[t][u].token + 1]
    /\ task' = [task EXCEPT ![t][u].cookie = FALSE]
    /\ UNCHANGED <<call, holder, configUid, open, session, orphan, lost, notified>>

\* The answer reaches the tab, which then pauses for 50 ms.
ReceiveRefresh(t, u) ==
    /\ task[t][u].phase = "served"
    /\ task' = [task EXCEPT ![t][u].phase = "settling"]
    /\ UNCHANGED <<call, holder, configUid, open, session, jar, orphan, lost,
                   notified>>

\* What the refresh's outcome makes of a call that waited for it.
Resumed(r, outcome) ==
    IF r.pc = "held" THEN Sent("sent", r.uid)
    ELSE CASE outcome = "ok"    -> Sent("retried", r.uid)
           [] outcome = "fail"  -> [r EXCEPT !.pc = "done"]
           [] outcome = "other" -> [r EXCEPT !.pc = "done",
                                             !.reply = "refreshResponse"]
           [] OTHER             -> [r EXCEPT !.pc = "done", !.reply = "error"]

\* Variant: the calls held are forgotten.
MetA401(c, t, u) ==
    TabOf[c] = t /\ call[c].uid = u /\ call[c].pc = "awaiting"

WaitsFor(c, t, u) ==
    TabOf[c] = t /\ call[c].uid = u /\ call[c].pc \in {"held", "awaiting"}

\* Variant: a refusal is reported whatever uid is configured by then.
SettleForAnyUid(t, u, outcome) ==
    /\ task' = [task EXCEPT ![t][u] = NoTask]
    /\ holder' = [holder EXCEPT ![u] = NoTab]
    /\ call' = [c \in Calls |-> IF WaitsFor(c, t, u)
                                THEN Resumed(call[c], outcome) ELSE call[c]]
    /\ notified' = IF outcome = "fail"
                   THEN [notified EXCEPT ![t] = @ \cup {configUid[t]}]
                   ELSE notified

\* The promise of the refresh settles: the runner forgets it, the lock is
\* released, the calls held send their request, the calls that met a 401 retry
\* or return, and a refusal is reported for each of them if the uid is still
\* the configured one.  All of it runs before the tab's next task.
Settle(t, u, outcome) ==
    /\ task' = [task EXCEPT ![t][u] = NoTask]
    /\ holder' = [holder EXCEPT ![u] = NoTab]
    /\ call' = [c \in Calls |-> IF WaitsFor(c, t, u)
                                THEN Resumed(call[c], outcome) ELSE call[c]]
    /\ notified' =
         IF /\ outcome = "fail" /\ configUid[t] = u
            /\ \E c \in Calls : WaitsFor(c, t, u) /\ call[c].pc = "awaiting"
         THEN [notified EXCEPT ![t] = @ \cup {configUid[t]}] ELSE notified

\* Variant: no pause, the refresh settles as soon as it is answered.
EndWithoutPause(t, u) ==
    /\ task[t][u].phase = "settling"
    /\ Settle(t, u, task[t][u].answer)
    /\ UNCHANGED <<configUid, open, session, jar, orphan, lost>>

\* The pause is over; by then the jar has the cookie.
EndPause(t, u) ==
    /\ task[t][u].phase = "settling" /\ ~task[t][u].cookie
    /\ Settle(t, u, task[t][u].answer)
    /\ UNCHANGED <<configUid, open, session, jar, orphan, lost>>

\* Refreshes nobody waits for any more: their request may still reach the
\* server, its cookie may never reach the jar.
Abandon(t, us) ==
    /\ orphan' = [u \in Uids |->
                    IF u \in us /\ task[t][u].phase = "posted"
                    THEN orphan[u] \cup {task[t][u].token} ELSE orphan[u]]
    /\ lost' = [u \in Uids |-> lost[u] \/
            (u \in us /\ (task[t][u].phase = "posted" \/ task[t][u].cookie))]

\* Variant: a refresh that fails keeps the lock.
FailKeepingLock(t, u) ==
    /\ task[t][u].phase \in {"posted", "served"}
    /\ Abandon(t, {u})
    /\ task' = [task EXCEPT ![t][u] = NoTask]
    /\ call' = [c \in Calls |-> IF WaitsFor(c, t, u)
                                THEN Resumed(call[c], "error") ELSE call[c]]
    /\ UNCHANGED <<holder, notified, configUid, open, session, jar>>

\* The POST fails or times out: the refresh rejects, and so do the calls that
\* met a 401; the calls held swallow the rejection.
FailRefresh(t, u) ==
    /\ task[t][u].phase \in {"posted", "served"}
    /\ Abandon(t, {u})
    /\ Settle(t, u, "error")
    /\ UNCHANGED <<configUid, open, session, jar>>

-----------------------------------------------------------------------------
(* The tab, the server and the application around them.                    *)

\* A tab goes away, with its calls and its refreshes; its locks are released.
CloseTab(t) ==
    /\ open[t]
    /\ open' = [open EXCEPT ![t] = FALSE]
    /\ call' = [c \in Calls |-> IF TabOf[c] = t /\ call[c].pc # "done"
                    THEN [call[c] EXCEPT !.pc = "done", !.reply = "error"]
                    ELSE call[c]]
    /\ Abandon(t, Uids)
    /\ task' = [task EXCEPT ![t] = [u \in Uids |-> NoTask]]
    /\ holder' = [u \in Uids |-> IF holder[u] = t THEN NoTab ELSE holder[u]]
    /\ UNCHANGED <<configUid, session, jar, notified>>

\* An abandoned POST reaches the server after all.
ServeOrphan(u) ==
    \E token \in orphan[u] :
        /\ orphan' = [orphan EXCEPT ![u] = @ \ {token}]
        /\ IF Accepts(u, token) THEN Rotate(u) ELSE UNCHANGED session
        /\ UNCHANGED <<call, task, holder, configUid, open, jar, lost, notified>>

\* The access token runs out.
Expire(u) ==
    /\ ~expired[u]
    /\ expired' = [expired EXCEPT ![u] = TRUE]
    /\ UNCHANGED <<call, task, holder, configUid, open, gen, revoked, jar, orphan,
                   lost, notified>>

\* The session is ended elsewhere.
Revoke(u) ==
    /\ ~revoked[u]
    /\ revoked' = [revoked EXCEPT ![u] = TRUE]
    /\ UNCHANGED <<call, task, holder, configUid, open, gen, expired, jar, orphan,
                   lost, notified>>

\* setUid: the application switches sessions, calls in flight or not.
SetUid(t, u) ==
    /\ open[t] /\ configUid[t] # u
    /\ configUid' = [configUid EXCEPT ![t] = u]
    /\ UNCHANGED <<call, task, holder, open, session, jar, orphan, lost, notified>>

CallStep(c) == Serve(c) \/ Receive(c) \/ Timeout(c)

RefreshStep(t, u) ==
    \/ Grant(t, u) \/ ServeRefresh(t, u) \/ StoreCookie(t, u)
    \/ ReceiveRefresh(t, u) \/ EndPause(t, u) \/ FailRefresh(t, u)

Next ==
    \/ \E c \in Calls : CallStep(c) \/ \E u \in Uids \cup {NoUid} : Begin(c, u)
    \/ \E t \in Tabs, u \in Uids : RefreshStep(t, u) \/ SetUid(t, u)
    \/ \E t \in Tabs : CloseTab(t)
    \/ \E u \in Uids : ServeOrphan(u) \/ Expire(u) \/ Revoke(u)

Spec == Init /\ [][Next]_vars

(* Every request is answered or given up after 30 s, the lock manager grants *)
(* a free lock, and the browser stores cookies and fires timers: each step of *)
(* a call or a refresh that stays possible is taken.  Nothing obliges a call  *)
(* to start, a tab to close or the server to change a session.                *)
Fairness ==
    /\ \A c \in Calls : WF_vars(Receive(c)) /\ WF_vars(Timeout(c))
    /\ \A t \in Tabs, u \in Uids :
        /\ WF_vars(Grant(t, u)) /\ WF_vars(StoreCookie(t, u))
        /\ WF_vars(EndPause(t, u)) /\ WF_vars(FailRefresh(t, u))

FairSpec == Spec /\ Fairness

-----------------------------------------------------------------------------
(* Properties.                                                             *)

\* Every variable keeps its type.
TypeOK ==
    /\ call \in [Calls -> CallRecord]
    /\ task \in [Tabs -> [Uids -> TaskRecord]]
    /\ holder \in [Uids -> Tabs \cup {NoTab}]
    /\ configUid \in [Tabs -> Uids]
    /\ open \in [Tabs -> BOOLEAN]
    /\ gen \in [Uids -> Nat]
    /\ expired \in [Uids -> BOOLEAN]
    /\ revoked \in [Uids -> BOOLEAN]
    /\ jar \in [Uids -> Nat]
    /\ orphan \in [Uids -> SUBSET Nat]
    /\ lost \in [Uids -> BOOLEAN]
    /\ notified \in [Tabs -> SUBSET Uids]

Refreshing(t, u) == task[t][u].phase \in {"posted", "served", "settling"}

\* "Ensures no race conditions between tabs": two tabs never have a refresh of
\* one uid under way at the same time (refreshManager.ts, handleRefresh).
OneRefreshPerUid ==
    \A u \in Uids, t1, t2 \in Tabs :
        Refreshing(t1, u) /\ Refreshing(t2, u) => t1 = t2

\* Unless a refresh of the session was lost: a POST carries the token the
\* server holds, so that it is refused only once the session ended; the cookie
\* on its way is the server's; and with none on its way the jar is up to date.
TokensInStep ==
    \A u \in Uids : ~lost[u] =>
        /\ orphan[u] = {}
        /\ \A t \in Tabs :
            /\ task[t][u].phase = "posted" => task[t][u].token = gen[u]
            /\ task[t][u].cookie => gen[u] = task[t][u].token + 1
            /\ task[t][u].answer = "fail" => revoked[u]
        /\ (\A t \in Tabs : ~task[t][u].cookie) => jar[u] = gen[u]

\* However the calls and the refreshes of the tabs interleave, a tab is told it
\* is unauthorized only for a session that was ended, or whose rotated cookies
\* were lost with a refresh that timed out or whose tab was closed.
NoSpuriousLogout ==
    \A t \in Tabs : \A u \in notified[t] : revoked[u] \/ lost[u]

\* A tab works on a refresh only while it holds the lock, and a cookie or a
\* verdict belongs to a refresh that was answered.
LockHeld ==
    \A t \in Tabs, u \in Uids :
        /\ Refreshing(t, u) => holder[u] = t
        /\ task[t][u].cookie \/ task[t][u].answer # "none"
                => task[t][u].phase \in {"served", "settling"}

\* The inductive invariant behind OneRefreshPerUid and NoSpuriousLogout.
RefreshInv == TypeOK /\ LockHeld /\ TokensInStep /\ NoSpuriousLogout

\* A call that waits for a refresh of its tab has one to wake it up.
WaitersHaveRefresh ==
    \A c \in Calls : call[c].pc \in {"held", "awaiting"}
                        => Pending(TabOf[c], call[c].uid)

\* A retry never repeats the token that was answered with a 401.
RetryHasNewToken ==
    [][\A c \in Calls : call[c].pc = "awaiting" /\ call'[c].pc = "retried"
                            => call'[c].token > call[c].token]_vars

\* Every call that was made is answered, whatever happens to its refresh.
CallsSettle ==
    \A c \in Calls : call[c].pc # "idle" ~> call[c].pc = "done"

Exchange(u) == INSTANCE SessionToken WITH
    gen       <- gen[u],
    jar       <- jar[u],
    busy      <- \E t \in Tabs : Refreshing(t, u),
    lost      <- lost[u],
    revoked   <- revoked[u],
    loggedOut <- \E t \in Tabs : u \in notified[t]

\* For each session the tabs together exchange the token as one client that
\* does it one exchange at a time (SessionToken).
ImplementsExchange ==
    /\ \A u \in Uids : Exchange(u)!Init
    /\ [][\A u \in Uids : [Exchange(u)!Next]_(Exchange(u)!vars)]_vars
=============================================================================
