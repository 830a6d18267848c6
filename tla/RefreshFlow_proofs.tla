------------------------- MODULE RefreshFlow_proofs -------------------------
(***************************************************************************)
(* Theorems of RefreshFlow, for every set of tabs, calls and sessions:     *)
(* type correctness, exclusion of the refreshes of one session across      *)
(* tabs, and that nobody is logged out without cause.                      *)
(***************************************************************************)
EXTENDS RefreshFlow, TLAPS

-----------------------------------------------------------------------------
(* Type correctness.                                                       *)

\* What Sent puts on the wire is a call record.
LEMMA SentType ==
    ASSUME TypeOK, NEW u \in Uids \cup {NoUid}, NEW pc \in {"sent", "retried"}
    PROVE  Sent(pc, u) \in CallRecord
BY DEF TypeOK, Sent, Token, CallRecord, Statuses

\* A resumed call is a call record, whatever the outcome of the refresh.
LEMMA ResumedType ==
    ASSUME TypeOK, NEW r \in CallRecord, NEW outcome
    PROVE  Resumed(r, outcome) \in CallRecord
<1> USE DEF CallRecord
<1>1. CASE r.pc = "held"
  BY <1>1, SentType DEF Resumed
<1>2. CASE r.pc # "held"
  BY <1>2, SentType DEF Resumed, Statuses
<1> QED BY <1>1, <1>2

\* NoTask is a task.
LEMMA NoTaskType == NoTask \in TaskRecord
BY DEF NoTask, TaskRecord

\* Settling a refresh keeps the types of what it changes.
LEMMA SettleType ==
    ASSUME TypeOK, NEW t \in Tabs, NEW u \in Uids, NEW outcome,
           Settle(t, u, outcome)
    PROVE  /\ call' \in [Calls -> CallRecord]
           /\ task' \in [Tabs -> [Uids -> TaskRecord]]
           /\ holder' \in [Uids -> Tabs \cup {NoTab}]
           /\ notified' \in [Tabs -> SUBSET Uids]
<1>1. call' \in [Calls -> CallRecord]
  BY ResumedType DEF Settle, TypeOK
<1>2. task' \in [Tabs -> [Uids -> TaskRecord]]
  BY NoTaskType DEF Settle, TypeOK
<1>3. holder' \in [Uids -> Tabs \cup {NoTab}]
  BY DEF Settle, TypeOK
<1>4. notified' \in [Tabs -> SUBSET Uids]
  BY DEF Settle, TypeOK
<1> QED BY <1>1, <1>2, <1>3, <1>4

\* Abandoning tasks keeps the types of what it changes.
LEMMA AbandonType ==
    ASSUME TypeOK, NEW t \in Tabs, NEW us \in SUBSET Uids, Abandon(t, us)
    PROVE  /\ orphan' \in [Uids -> SUBSET Nat]
           /\ lost' \in [Uids -> BOOLEAN]
<1>1. \A u \in Uids : task[t][u].token \in Nat
  BY DEF TypeOK, TaskRecord
<1>2. orphan' \in [Uids -> SUBSET Nat]
  BY <1>1 DEF Abandon, TypeOK
<1>3. lost' \in [Uids -> BOOLEAN]
  BY DEF Abandon, TypeOK
<1> QED BY <1>2, <1>3

\* So does a rotation, of the server's session.
SessionType == /\ gen \in [Uids -> Nat]
               /\ expired \in [Uids -> BOOLEAN]
               /\ revoked \in [Uids -> BOOLEAN]

\* New tokens keep the types of the session's part of the state.
LEMMA RotateType ==
    ASSUME TypeOK, NEW u \in Uids, Rotate(u) PROVE SessionType'
<1>1. gen' \in [Uids -> Nat]
  BY DEF Rotate, TypeOK
<1>2. expired' \in [Uids -> BOOLEAN]
  BY DEF Rotate, TypeOK
<1> QED BY <1>1, <1>2 DEF Rotate, TypeOK, SessionType

\* What the types say of one call and of one task.
LEMMA CallType == ASSUME TypeOK, NEW c \in Calls PROVE call[c] \in CallRecord
BY DEF TypeOK

\* What is known of a tab's refresh.
LEMMA TaskType ==
    ASSUME TypeOK, NEW t \in Tabs, NEW u \in Uids
    PROVE  task[t][u] \in TaskRecord
BY DEF TypeOK

\* The steps of a call and of a refresh keep the types.
LEMMA CallStepType ==
    ASSUME TypeOK, NEW c \in Calls,
           CallStep(c) \/ \E u \in Uids \cup {NoUid} : Begin(c, u)
    PROVE  TypeOK'
<1>1. CASE \E u \in Uids \cup {NoUid} : Begin(c, u)
  <2>1. PICK u \in Uids \cup {NoUid} : Begin(c, u)
    BY <1>1
  <2>2. Sent("sent", u) \in CallRecord
    BY SentType
  <2>3. [call[c] EXCEPT !.pc = "held", !.uid = u] \in CallRecord
    BY CallType DEF CallRecord
  <2>4. call' \in [Calls -> CallRecord]
    BY <2>1, <2>2, <2>3 DEF Begin, TypeOK
  <2> QED BY <2>1, <2>4 DEF Begin, TypeOK, session
<1>2. CASE Serve(c)
  <2>1. \A status \in {"200", "401", "other"} :
            [call[c] EXCEPT !.reply = status] \in CallRecord
    BY CallType DEF CallRecord, Statuses
  <2>2. call' \in [Calls -> CallRecord]
    BY <1>2, <2>1 DEF Serve, TypeOK
  <2> QED BY <1>2, <2>2 DEF Serve, TypeOK, session
<1>3. CASE Receive(c)
  <2>1. \A pc \in {"awaiting", "done"} :
            [call[c] EXCEPT !.pc = pc] \in CallRecord
    BY CallType DEF CallRecord
  <2>2. call' \in [Calls -> CallRecord]
    BY <1>3, <2>1 DEF Receive, TypeOK
  <2>3. TabOf[c] \in Tabs /\ call[c].uid \in Uids \cup {NoUid}
    BY CallType, TabOfAssumption DEF CallRecord
  <2>4. \A t \in Tabs, u \in Uids :
            [task[t][u] EXCEPT !.phase = "queued"] \in TaskRecord
    BY TaskType DEF TaskRecord
  <2>5. task' \in [Tabs -> [Uids -> TaskRecord]]
    <3>1. CASE task' = task
      BY <3>1 DEF TypeOK
    <3>2. CASE task' # task
      <4>1. /\ call[c].uid \in Uids
            /\ task' = [task EXCEPT ![TabOf[c]][call[c].uid].phase = "queued"]
        BY <1>3, <2>3, <3>2 DEF Receive
      <4> QED BY <4>1, <2>3, <2>4 DEF TypeOK
    <3> QED BY <3>1, <3>2
  <2> QED BY <1>3, <2>2, <2>5 DEF Receive, TypeOK, session
<1>4. CASE Timeout(c)
  <2>1. [call[c] EXCEPT !.pc = "done", !.reply = "error"] \in CallRecord
    BY CallType DEF CallRecord, Statuses
  <2>2. call' \in [Calls -> CallRecord]
    BY <1>4, <2>1 DEF Timeout, TypeOK
  <2> QED BY <1>4, <2>2 DEF Timeout, TypeOK, session
<1> QED BY <1>1, <1>2, <1>3, <1>4 DEF CallStep

\* The steps of a refresh keep the types.
LEMMA RefreshStepType ==
    ASSUME TypeOK, NEW t \in Tabs, NEW u \in Uids, RefreshStep(t, u)
    PROVE  TypeOK'
<1>1. task[t][u] \in TaskRecord
  BY TaskType
<1>2. CASE Grant(t, u)
  <2>1. [task[t][u] EXCEPT !.phase = "posted", !.token = jar[u]] \in TaskRecord
    BY <1>1 DEF TaskRecord, TypeOK
  <2>2. task' \in [Tabs -> [Uids -> TaskRecord]]
    BY <1>2, <2>1 DEF Grant, TypeOK
  <2> QED BY <1>2, <2>2 DEF Grant, TypeOK, session
<1>3. CASE ServeRefresh(t, u)
  <2>1. \A a \in {"ok", "fail", "other"} :
            [task[t][u] EXCEPT !.phase = "served", !.answer = a,
                               !.cookie = (a = "ok")] \in TaskRecord
    BY <1>1 DEF TaskRecord
  <2>2. task' \in [Tabs -> [Uids -> TaskRecord]]
    <3>1. PICK a \in {"ok", "fail", "other"} :
             task' = [task EXCEPT ![t][u] =
                        [task[t][u] EXCEPT !.phase = "served", !.answer = a,
                                           !.cookie = (a = "ok")]]
      BY <1>3 DEF ServeRefresh
    <3> DEFINE served == [task[t][u] EXCEPT !.phase = "served", !.answer = a,
                                            !.cookie = (a = "ok")]
    <3>2. served \in TaskRecord
      BY <2>1
    <3>3. task' = [task EXCEPT ![t][u] = served]
      BY <3>1
    <3> HIDE DEF served
    <3> QED BY <3>2, <3>3 DEF TypeOK
  <2>3. SessionType'
    <3>1. Rotate(u) \/ UNCHANGED session
      BY <1>3 DEF ServeRefresh
    <3>2. CASE UNCHANGED session
      BY <3>2 DEF session, TypeOK, SessionType
    <3> QED BY <3>1, <3>2, RotateType
  <2> QED BY <1>3, <2>2, <2>3 DEF ServeRefresh, TypeOK, SessionType
<1>4. CASE StoreCookie(t, u)
  <2>1. [task[t][u] EXCEPT !.cookie = FALSE] \in TaskRecord
    BY <1>1 DEF TaskRecord
  <2>2. task' \in [Tabs -> [Uids -> TaskRecord]]
    BY <1>4, <2>1 DEF StoreCookie, TypeOK
  <2>3. task[t][u].token \in Nat
    BY <1>1 DEF TaskRecord
  <2>4. jar' \in [Uids -> Nat]
    BY <1>4, <2>3 DEF StoreCookie, TypeOK
  <2> QED BY <1>4, <2>2, <2>4 DEF StoreCookie, TypeOK, session
<1>5. CASE ReceiveRefresh(t, u)
  <2>1. [task[t][u] EXCEPT !.phase = "settling"] \in TaskRecord
    BY <1>1 DEF TaskRecord
  <2>2. task' \in [Tabs -> [Uids -> TaskRecord]]
    BY <1>5, <2>1 DEF ReceiveRefresh, TypeOK
  <2> QED BY <1>5, <2>2 DEF ReceiveRefresh, TypeOK, session
<1>6. CASE EndPause(t, u)
  BY <1>6, SettleType DEF EndPause, TypeOK, session
<1>7. CASE FailRefresh(t, u)
  <2>1. /\ orphan' \in [Uids -> SUBSET Nat]
        /\ lost' \in [Uids -> BOOLEAN]
    BY <1>7, AbandonType DEF FailRefresh
  <2> QED BY <1>7, <2>1, SettleType DEF FailRefresh, TypeOK, session
<1> QED BY <1>2, <1>3, <1>4, <1>5, <1>6, <1>7, <1>1 DEF RefreshStep

\* Every step keeps the types.
LEMMA TypeStep == ASSUME TypeOK, [Next]_vars PROVE TypeOK'
<1>1. ASSUME NEW t \in Tabs, CloseTab(t) PROVE TypeOK'
  <2>1. \A c \in Calls :
          [call[c] EXCEPT !.pc = "done", !.reply = "error"] \in CallRecord
    BY CallType DEF CallRecord, Statuses
  <2>2. call' \in [Calls -> CallRecord]
    BY <1>1, <2>1 DEF CloseTab, TypeOK
  <2>3. task' \in [Tabs -> [Uids -> TaskRecord]]
    BY <1>1, NoTaskType DEF CloseTab, TypeOK
  <2>4. /\ orphan' \in [Uids -> SUBSET Nat]
        /\ lost' \in [Uids -> BOOLEAN]
    BY <1>1, AbandonType DEF CloseTab
  <2> QED BY <1>1, <2>2, <2>3, <2>4 DEF CloseTab, TypeOK, session
<1>2. ASSUME NEW u \in Uids, ServeOrphan(u) PROVE TypeOK'
  <2>1. SessionType'
    BY <1>2, RotateType DEF ServeOrphan, TypeOK, session, SessionType
  <2>2. orphan' \in [Uids -> SUBSET Nat]
    BY <1>2 DEF ServeOrphan, TypeOK
  <2> QED BY <1>2, <2>1, <2>2 DEF ServeOrphan, TypeOK, SessionType
<1>3. ASSUME NEW u \in Uids, Expire(u) PROVE TypeOK'
  BY <1>3 DEF Expire, TypeOK
<1>4. ASSUME NEW u \in Uids, Revoke(u) PROVE TypeOK'
  BY <1>4 DEF Revoke, TypeOK
<1>5. ASSUME NEW t \in Tabs, NEW u \in Uids, SetUid(t, u) PROVE TypeOK'
  BY <1>5 DEF SetUid, TypeOK, session
<1>6. CASE UNCHANGED vars
  BY <1>6 DEF vars, TypeOK
<1> QED
  BY <1>1, <1>2, <1>3, <1>4, <1>5, <1>6, CallStepType, RefreshStepType DEF Next

\* The types hold in the initial states.
LEMMA TypeInit == ASSUME Init PROVE TypeOK
BY NoTaskType DEF Init, TypeOK, CallRecord, Statuses

\* The types hold in every reachable state.
THEOREM TypeCorrect == Spec => []TypeOK
<1>1. Init => TypeOK
  BY TypeInit
<1>2. TypeOK /\ [Next]_vars => TypeOK'
  BY TypeStep
<1> QED BY <1>1, <1>2, PTL DEF Spec

-----------------------------------------------------------------------------
(* The inductive invariant.  Each step changes one task, or one tab's; the *)
(* lock says that no other tab has a refresh of the session under way.     *)

SafeInv == LockHeld /\ TokensInStep /\ NoSpuriousLogout

USE DEF Refreshing

\* While a tab refreshes a session, or could start to, the others do not.
LEMMA OthersIdle ==
    ASSUME LockHeld, NEW t \in Tabs, NEW u \in Uids, NoTab \notin Tabs,
           holder[u] \in {t, NoTab}
    PROVE  \A t2 \in Tabs : t2 # t =>
              /\ ~Refreshing(t2, u)
              /\ ~task[t2][u].cookie
              /\ task[t2][u].answer = "none"
BY DEF LockHeld

\* A refresh that gets the lock posts the token in the jar, and is the only one.
LEMMA GrantSafe ==
    ASSUME RefreshInv, NEW t \in Tabs, NEW u \in Uids, Grant(t, u)
    PROVE  SafeInv'
<1> DEFINE r == [task[t][u] EXCEPT !.phase = "posted", !.token = jar[u]]
<1>1. /\ r.phase = "posted" /\ r.token = jar[u]
      /\ r.cookie = task[t][u].cookie /\ r.answer = task[t][u].answer
  BY TaskType DEF RefreshInv, TaskRecord
<1>2. task' = [task EXCEPT ![t][u] = r]
  BY DEF Grant
<1> HIDE DEF r
<1>3. \A t2 \in Tabs, u2 \in Uids :
         task'[t2][u2] = IF t2 = t /\ u2 = u THEN r ELSE task[t2][u2]
  BY <1>2 DEF RefreshInv, TypeOK
<1>4. /\ ~task[t][u].cookie /\ task[t][u].answer = "none"
      /\ \A t2 \in Tabs : t2 # t =>
            ~Refreshing(t2, u) /\ ~task[t2][u].cookie
  BY OthersIdle, NoneAssumption DEF Grant, RefreshInv, LockHeld
<1>5. \A u2 \in Uids : holder'[u2] = IF u2 = u THEN t ELSE holder[u2]
  BY DEF Grant, RefreshInv, TypeOK
<1>6. LockHeld'
  BY <1>1, <1>3, <1>4, <1>5 DEF RefreshInv, LockHeld
<1>7. TokensInStep'
  BY <1>1, <1>3, <1>4 DEF Grant, RefreshInv, TokensInStep, session
<1>8. NoSpuriousLogout'
  BY DEF Grant, RefreshInv, NoSpuriousLogout, session
<1> QED BY <1>6, <1>7, <1>8 DEF SafeInv

\* The server takes only its own token, and then a new one is on its way.
LEMMA ServeRefreshSafe ==
    ASSUME RefreshInv, NEW t \in Tabs, NEW u \in Uids, ServeRefresh(t, u)
    PROVE  SafeInv'
<1>1. PICK answer \in {"ok", "fail", "other"} :
        /\ task[t][u].phase = "posted"
        /\ answer = "ok" => Accepts(u, task[t][u].token)
        /\ answer = "fail" => ~Accepts(u, task[t][u].token)
        /\ task' = [task EXCEPT ![t][u] =
                       [task[t][u] EXCEPT !.phase = "served", !.answer = answer,
                                          !.cookie = (answer = "ok")]]
        /\ IF answer = "ok" THEN Rotate(u) ELSE UNCHANGED session
  BY DEF ServeRefresh
<1> DEFINE r == [task[t][u] EXCEPT !.phase = "served", !.answer = answer,
                                   !.cookie = (answer = "ok")]
<1>2. /\ r.phase = "served" /\ r.token = task[t][u].token
      /\ r.cookie = (answer = "ok") /\ r.answer = answer
  BY TaskType DEF RefreshInv, TaskRecord
<1>3. task' = [task EXCEPT ![t][u] = r]
  BY <1>1
<1> HIDE DEF r
<1>4. \A t2 \in Tabs, u2 \in Uids :
         task'[t2][u2] = IF t2 = t /\ u2 = u THEN r ELSE task[t2][u2]
  BY <1>3 DEF RefreshInv, TypeOK
<1>5. holder[u] = t
  BY <1>1 DEF RefreshInv, LockHeld
<1>6. \A t2 \in Tabs : t2 # t =>
            ~Refreshing(t2, u) /\ ~task[t2][u].cookie
  BY <1>5, OthersIdle, NoneAssumption DEF RefreshInv
<1>7. /\ revoked' = revoked
      /\ \A u2 \in Uids :
            gen'[u2] = IF u2 = u /\ answer = "ok" THEN gen[u] + 1 ELSE gen[u2]
  BY <1>1 DEF Rotate, session, RefreshInv, TypeOK
<1>8. LockHeld'
  BY <1>2, <1>4, <1>5 DEF ServeRefresh, RefreshInv, LockHeld
<1>9. ~lost[u] /\ answer = "fail" => revoked[u]
  BY <1>1 DEF Accepts, RefreshInv, TokensInStep
<1>10. TokensInStep'
  <2>1. UNCHANGED <<jar, orphan, lost>>
    BY DEF ServeRefresh
  <2> SUFFICES ASSUME NEW v \in Uids, ~lost[v]
               PROVE  /\ orphan[v] = {}
                      /\ \A s \in Tabs :
                          /\ task'[s][v].phase = "posted" => task'[s][v].token = gen'[v]
                          /\ task'[s][v].cookie => gen'[v] = task'[s][v].token + 1
                          /\ task'[s][v].answer = "fail" => revoked'[v]
                      /\ (\A s \in Tabs : ~task'[s][v].cookie) => jar[v] = gen'[v]
    BY <2>1 DEF TokensInStep
  <2>2. CASE v # u
    BY <2>2, <1>4, <1>7 DEF RefreshInv, TokensInStep
  <2>3. CASE v = u
    <3>1. task[t][u].token = gen[u] /\ ~task[t][u].cookie
      BY <1>1, <2>3 DEF RefreshInv, TokensInStep, LockHeld
    <3>2. (\A s \in Tabs : ~task'[s][v].cookie) => jar[v] = gen'[v]
      BY <3>1, <2>3, <1>2, <1>4, <1>6, <1>7 DEF RefreshInv, TokensInStep
    <3>3. \A s \in Tabs \ {t} : task[s][u].answer = "none"
      BY <1>6 DEF RefreshInv, LockHeld
    <3>4. orphan[v] = {}
      BY <2>3 DEF RefreshInv, TokensInStep
    <3>5. ASSUME NEW s \in Tabs
          PROVE  /\ task'[s][v].phase = "posted" => task'[s][v].token = gen'[v]
                 /\ task'[s][v].cookie => gen'[v] = task'[s][v].token + 1
                 /\ task'[s][v].answer = "fail" => revoked'[v]
      <4>1. CASE s = t
        <5>1. task'[s][v] = r
          BY <4>1, <2>3, <1>4
        <5>2. r.cookie => gen'[v] = r.token + 1
          BY <2>3, <3>1, <1>2, <1>7
        <5>3. r.answer = "fail" => revoked'[v]
          BY <2>3, <1>2, <1>7, <1>9
        <5> QED BY <5>1, <5>2, <5>3, <1>2
      <4>2. CASE s # t
        BY <4>2, <2>3, <3>3, <1>4, <1>6
      <4> QED BY <4>1, <4>2
    <3> QED BY <3>2, <3>4, <3>5
  <2> QED BY <2>2, <2>3
<1>11. NoSpuriousLogout'
  BY <1>7 DEF ServeRefresh, RefreshInv, NoSpuriousLogout
<1> QED BY <1>8, <1>10, <1>11 DEF SafeInv

\* The cookie that arrives is the token the server holds.
LEMMA StoreCookieSafe ==
    ASSUME RefreshInv, NEW t \in Tabs, NEW u \in Uids, StoreCookie(t, u)
    PROVE  SafeInv'
<1> DEFINE r == [task[t][u] EXCEPT !.cookie = FALSE]
<1>1. /\ r.phase = task[t][u].phase /\ r.token = task[t][u].token
      /\ ~r.cookie /\ r.answer = task[t][u].answer
  BY TaskType DEF RefreshInv, TaskRecord
<1>2. task' = [task EXCEPT ![t][u] = r]
  BY DEF StoreCookie
<1> HIDE DEF r
<1>3. \A t2 \in Tabs, u2 \in Uids :
         task'[t2][u2] = IF t2 = t /\ u2 = u THEN r ELSE task[t2][u2]
  BY <1>2 DEF RefreshInv, TypeOK
<1>4. \A u2 \in Uids :
         jar'[u2] = IF u2 = u THEN task[t][u].token + 1 ELSE jar[u2]
  BY DEF StoreCookie, RefreshInv, TypeOK
<1>5. LockHeld'
  BY <1>1, <1>3 DEF StoreCookie, RefreshInv, LockHeld
<1>6. TokensInStep'
  BY <1>1, <1>3, <1>4 DEF StoreCookie, RefreshInv, TokensInStep, session
<1>7. NoSpuriousLogout'
  BY DEF StoreCookie, RefreshInv, NoSpuriousLogout, session
<1> QED BY <1>5, <1>6, <1>7 DEF SafeInv

\* An answer that is read changes neither the token nor the answer.
LEMMA ReceiveRefreshSafe ==
    ASSUME RefreshInv, NEW t \in Tabs, NEW u \in Uids, ReceiveRefresh(t, u)
    PROVE  SafeInv'
<1> DEFINE r == [task[t][u] EXCEPT !.phase = "settling"]
<1>1. /\ r.phase = "settling" /\ r.token = task[t][u].token
      /\ r.cookie = task[t][u].cookie /\ r.answer = task[t][u].answer
  BY TaskType DEF RefreshInv, TaskRecord
<1>2. task' = [task EXCEPT ![t][u] = r]
  BY DEF ReceiveRefresh
<1> HIDE DEF r
<1>3. \A t2 \in Tabs, u2 \in Uids :
         task'[t2][u2] = IF t2 = t /\ u2 = u THEN r ELSE task[t2][u2]
  BY <1>2 DEF RefreshInv, TypeOK
<1>4. LockHeld'
  BY <1>1, <1>3 DEF ReceiveRefresh, RefreshInv, LockHeld
<1>5. TokensInStep'
  BY <1>1, <1>3 DEF ReceiveRefresh, RefreshInv, TokensInStep, session
<1>6. NoSpuriousLogout'
  BY DEF ReceiveRefresh, RefreshInv, NoSpuriousLogout, session
<1> QED BY <1>4, <1>5, <1>6 DEF SafeInv

\* The settled refresh is forgotten, and a refusal is reported only to the tab
\* that configured its session.
LEMMA SettleUpdate ==
    ASSUME TypeOK, NEW t \in Tabs, NEW u \in Uids, NEW outcome,
           Settle(t, u, outcome)
    PROVE  /\ \A t2 \in Tabs, u2 \in Uids :
                 task'[t2][u2] = IF t2 = t /\ u2 = u THEN NoTask ELSE task[t2][u2]
           /\ \A u2 \in Uids : holder'[u2] = IF u2 = u THEN NoTab ELSE holder[u2]
           /\ \A t2 \in Tabs : \A u2 \in notified'[t2] :
                 \/ u2 \in notified[t2]
                 \/ u2 = u /\ outcome = "fail"
<1>1. \A t2 \in Tabs, u2 \in Uids :
         task'[t2][u2] = IF t2 = t /\ u2 = u THEN NoTask ELSE task[t2][u2]
  BY DEF Settle, TypeOK
<1>2. \A u2 \in Uids : holder'[u2] = IF u2 = u THEN NoTab ELSE holder[u2]
  BY DEF Settle, TypeOK
<1>3. \A t2 \in Tabs : \A u2 \in notified'[t2] :
         u2 \in notified[t2] \/ (u2 = u /\ outcome = "fail")
  BY DEF Settle, TypeOK
<1> QED BY <1>1, <1>2, <1>3

\* A refresh settles after its cookie came, and notifies only of a refusal.
LEMMA EndPauseSafe ==
    ASSUME RefreshInv, NEW t \in Tabs, NEW u \in Uids, EndPause(t, u)
    PROVE  SafeInv'
<1> DEFINE outcome == task[t][u].answer
<1>1. Settle(t, u, outcome) /\ Refreshing(t, u) /\ ~task[t][u].cookie
  BY DEF EndPause
<1>2. UNCHANGED <<gen, revoked, jar, orphan, lost>>
  BY DEF EndPause, session
<1> HIDE DEF outcome
<1>3. /\ \A t2 \in Tabs, u2 \in Uids :
            task'[t2][u2] = IF t2 = t /\ u2 = u THEN NoTask ELSE task[t2][u2]
      /\ \A u2 \in Uids : holder'[u2] = IF u2 = u THEN NoTab ELSE holder[u2]
      /\ \A t2 \in Tabs : \A u2 \in notified'[t2] :
            \/ u2 \in notified[t2]
            \/ u2 = u /\ outcome = "fail"
  BY <1>1, SettleUpdate DEF RefreshInv
<1>4. LockHeld'
  BY <1>1, <1>3 DEF RefreshInv, LockHeld, NoTask
<1>5. TokensInStep'
  BY <1>1, <1>2, <1>3 DEF RefreshInv, TokensInStep, NoTask
<1>6. outcome = "fail" => revoked[u] \/ lost[u]
  BY DEF outcome, RefreshInv, TokensInStep
<1>7. NoSpuriousLogout'
  BY <1>2, <1>3, <1>6 DEF RefreshInv, NoSpuriousLogout
<1> QED BY <1>4, <1>5, <1>7 DEF SafeInv

\* A refresh that fails with its request or cookie under way counts as lost.
LEMMA FailRefreshSafe ==
    ASSUME RefreshInv, NEW t \in Tabs, NEW u \in Uids, FailRefresh(t, u)
    PROVE  SafeInv'
<1>1. Settle(t, u, "error") /\ Refreshing(t, u)
  BY DEF FailRefresh
<1>2. UNCHANGED <<gen, revoked, jar>>
  BY DEF FailRefresh, session
<1>3. /\ \A t2 \in Tabs, u2 \in Uids :
            task'[t2][u2] = IF t2 = t /\ u2 = u THEN NoTask ELSE task[t2][u2]
      /\ \A u2 \in Uids : holder'[u2] = IF u2 = u THEN NoTab ELSE holder[u2]
      /\ \A t2 \in Tabs : \A u2 \in notified'[t2] : u2 \in notified[t2]
  BY <1>1, SettleUpdate DEF RefreshInv
<1>4. \A v \in Uids :
        /\ lost[v] => lost'[v]
        /\ ~lost'[v] => orphan'[v] = orphan[v]
        /\ ~lost'[u] => ~task[t][u].cookie
  BY DEF FailRefresh, Abandon
<1>5. LockHeld'
  BY <1>1, <1>3 DEF RefreshInv, LockHeld, NoTask
<1>6. TokensInStep'
  BY <1>2, <1>3, <1>4 DEF RefreshInv, TokensInStep, NoTask
<1>7. NoSpuriousLogout'
  BY <1>2, <1>3, <1>4 DEF RefreshInv, NoSpuriousLogout, TypeOK
<1> QED BY <1>5, <1>6, <1>7 DEF SafeInv

\* A tab that closes lets go of its locks; what it had under way counts as lost.
LEMMA CloseTabSafe ==
    ASSUME RefreshInv, NEW t \in Tabs, CloseTab(t)
    PROVE  SafeInv'
<1>1. UNCHANGED <<gen, revoked, jar, notified>>
  BY DEF CloseTab, session
<1>2. \A t2 \in Tabs, u2 \in Uids :
        task'[t2][u2] = IF t2 = t THEN NoTask ELSE task[t2][u2]
  BY DEF CloseTab, RefreshInv, TypeOK
<1>3. \A v \in Uids : holder'[v] = IF holder[v] = t THEN NoTab ELSE holder[v]
  BY DEF CloseTab
<1>4. \A v \in Uids :
        /\ lost[v] => lost'[v]
        /\ ~lost'[v] => orphan'[v] = orphan[v] /\ ~task[t][v].cookie
  BY DEF CloseTab, Abandon
<1>5. LockHeld'
  BY <1>2, <1>3 DEF RefreshInv, LockHeld, NoTask
<1>6. TokensInStep'
  BY <1>1, <1>2, <1>4 DEF RefreshInv, TokensInStep, NoTask
<1>7. NoSpuriousLogout'
  BY <1>1, <1>4 DEF RefreshInv, NoSpuriousLogout, TypeOK
<1> QED BY <1>5, <1>6, <1>7 DEF SafeInv

\* A request left behind belongs to a session that counts as lost.
LEMMA ServeOrphanSafe ==
    ASSUME RefreshInv, NEW u \in Uids, ServeOrphan(u)
    PROVE  SafeInv'
<1>1. UNCHANGED <<task, holder, jar, lost, revoked, notified>>
  BY DEF ServeOrphan, Rotate, session
<1>2. lost[u]
  BY DEF ServeOrphan, RefreshInv, TokensInStep
<1>3. \A v \in Uids : v # u => gen'[v] = gen[v] /\ orphan'[v] = orphan[v]
  BY DEF ServeOrphan, Rotate, session, RefreshInv, TypeOK
<1>4. LockHeld'
  BY <1>1 DEF RefreshInv, LockHeld
<1>5. TokensInStep'
  BY <1>1, <1>2, <1>3 DEF RefreshInv, TokensInStep
<1>6. NoSpuriousLogout'
  BY <1>1 DEF RefreshInv, NoSpuriousLogout
<1> QED BY <1>4, <1>5, <1>6 DEF SafeInv

\* Every step keeps the invariant.
LEMMA InvStep == ASSUME RefreshInv, [Next]_vars PROVE RefreshInv'
<1>1. TypeOK'
  BY TypeStep DEF RefreshInv
<1>2. SafeInv'
  <2>1. ASSUME NEW c \in Calls,
               CallStep(c) \/ \E u \in Uids \cup {NoUid} : Begin(c, u)
        PROVE  SafeInv'
    <3>1. UNCHANGED <<holder, gen, revoked, jar, orphan, lost, notified>>
      BY <2>1 DEF CallStep, Begin, Serve, Receive, Timeout, session
    <3>2. CASE task' = task
      BY <3>1, <3>2 DEF SafeInv, RefreshInv, LockHeld, TokensInStep,
                        NoSpuriousLogout
    <3>3. CASE task' # task
      <4>1. PICK t \in Tabs, u \in Uids :
                /\ task[t][u].phase = "none"
                /\ task' = [task EXCEPT ![t][u].phase = "queued"]
        <5>1. TabOf[c] \in Tabs /\ call[c].uid \in Uids \cup {NoUid}
          BY CallType, TabOfAssumption DEF CallRecord, RefreshInv
        <5>2. /\ call[c].uid # NoUid
              /\ ~Pending(TabOf[c], call[c].uid)
              /\ task' = [task EXCEPT ![TabOf[c]][call[c].uid].phase = "queued"]
          BY <2>1, <3>3 DEF CallStep, Begin, Serve, Receive, Timeout
        <5> QED BY <5>1, <5>2 DEF Pending
      <4> DEFINE r == [task[t][u] EXCEPT !.phase = "queued"]
      <4>2. /\ r.phase = "queued" /\ r.token = task[t][u].token
            /\ r.cookie = task[t][u].cookie /\ r.answer = task[t][u].answer
        BY TaskType DEF RefreshInv, TaskRecord
      <4>3. task' = [task EXCEPT ![t][u] = r]
        BY <4>1
      <4> HIDE DEF r
      <4>4. \A t2 \in Tabs, u2 \in Uids :
               task'[t2][u2] = IF t2 = t /\ u2 = u THEN r ELSE task[t2][u2]
        BY <4>3 DEF RefreshInv, TypeOK
      <4>5. LockHeld'
        BY <3>1, <4>1, <4>2, <4>4 DEF RefreshInv, LockHeld
      <4>6. TokensInStep'
        BY <3>1, <4>1, <4>2, <4>4 DEF RefreshInv, TokensInStep
      <4>7. NoSpuriousLogout'
        BY <3>1 DEF RefreshInv, NoSpuriousLogout
      <4> QED BY <4>5, <4>6, <4>7 DEF SafeInv
    <3> QED BY <3>2, <3>3
  <2>2. ASSUME NEW t \in Tabs, NEW u \in Uids, RefreshStep(t, u)
        PROVE  SafeInv'
    BY <2>2, GrantSafe, ServeRefreshSafe, StoreCookieSafe, ReceiveRefreshSafe,
       EndPauseSafe, FailRefreshSafe DEF RefreshStep
  <2>3. ASSUME NEW t \in Tabs, CloseTab(t) PROVE SafeInv'
    BY <2>3, CloseTabSafe
  <2>4. ASSUME NEW u \in Uids, ServeOrphan(u) PROVE SafeInv'
    BY <2>4, ServeOrphanSafe
  <2>5. ASSUME NEW u \in Uids, Expire(u) PROVE SafeInv'
    BY <2>5 DEF Expire, SafeInv, RefreshInv, LockHeld, TokensInStep,
                NoSpuriousLogout
  <2>6. ASSUME NEW u \in Uids, Revoke(u) PROVE SafeInv'
    <3>1. \A v \in Uids : revoked[v] => revoked'[v]
      BY <2>6 DEF Revoke, RefreshInv, TypeOK
    <3>2. UNCHANGED <<task, holder, gen, jar, orphan, lost, notified>>
      BY <2>6 DEF Revoke
    <3> QED BY <3>1, <3>2 DEF SafeInv, RefreshInv, LockHeld, TokensInStep,
                              NoSpuriousLogout, TypeOK
  <2>7. ASSUME NEW t \in Tabs, NEW u \in Uids, SetUid(t, u) PROVE SafeInv'
    BY <2>7 DEF SetUid, session, SafeInv, RefreshInv, LockHeld, TokensInStep,
                NoSpuriousLogout
  <2>8. CASE UNCHANGED vars
    BY <2>8 DEF vars, SafeInv, RefreshInv, LockHeld, TokensInStep,
                NoSpuriousLogout
  <2> QED BY <2>1, <2>2, <2>3, <2>4, <2>5, <2>6, <2>7, <2>8 DEF Next
<1> QED BY <1>1, <1>2 DEF RefreshInv, SafeInv

\* The invariant holds in the initial states.
LEMMA InvInit == ASSUME Init PROVE RefreshInv
<1>1. TypeOK
  BY TypeInit
<1>2. \A t \in Tabs, u \in Uids : task[t][u] = NoTask
  BY DEF Init
<1>3. LockHeld
  BY <1>2 DEF LockHeld, NoTask
<1>4. TokensInStep
  BY <1>2 DEF TokensInStep, NoTask, Init
<1>5. NoSpuriousLogout
  BY DEF NoSpuriousLogout, Init
<1> QED BY <1>1, <1>3, <1>4, <1>5 DEF RefreshInv

\* The inductive invariant: the lock is held by the tab that refreshes, and the
\* tokens of a session whose refreshes were all answered are in step.
THEOREM Invariance == Spec => []RefreshInv
BY InvInit, InvStep, PTL DEF Spec

\* No two tabs refresh one session at the same time, however many tabs and
\* calls there are.
THEOREM RefreshesExclusive == Spec => []OneRefreshPerUid
<1>1. RefreshInv => OneRefreshPerUid
  BY DEF RefreshInv, LockHeld, OneRefreshPerUid
<1> QED BY <1>1, Invariance, PTL

\* The tokens of a session stay in step unless a refresh of it was lost.
THEOREM TokensStayInStep == Spec => []TokensInStep
<1>1. RefreshInv => TokensInStep
  BY DEF RefreshInv
<1> QED BY <1>1, Invariance, PTL

\* onUnauthorized is called only for a session that ended on the server, or
\* whose rotated cookies were lost with an abandoned refresh.
THEOREM LogoutsJustified == Spec => []NoSpuriousLogout
<1>1. RefreshInv => NoSpuriousLogout
  BY DEF RefreshInv
<1> QED BY <1>1, Invariance, PTL
-----------------------------------------------------------------------------
(* Waiting calls.  A step either leaves the pending refreshes of a tab or  *)
(* wakes every call that waits for the one it ends.                        *)

WaitInv == TypeOK /\ WaitersHaveRefresh

\* A call wakes when the refresh it waits for settles, whatever the outcome.
LEMMA ResumedWakes ==
    ASSUME NEW r, NEW outcome, r.pc \in {"held", "awaiting"}, r \in CallRecord
    PROVE  Resumed(r, outcome).pc \notin {"held", "awaiting"}
BY DEF Resumed, Sent, CallRecord

\* Settling a refresh leaves no call that waits for it.
LEMMA SettleWakes ==
    ASSUME WaitInv, NEW t \in Tabs, NEW u \in Uids, NEW outcome,
           Settle(t, u, outcome)
    PROVE  WaitersHaveRefresh'
<1>1. \A t2 \in Tabs, u2 \in Uids :
         task'[t2][u2] = IF t2 = t /\ u2 = u THEN NoTask ELSE task[t2][u2]
  BY SettleUpdate DEF WaitInv
<1> SUFFICES ASSUME NEW c \in Calls, call'[c].pc \in {"held", "awaiting"}
             PROVE  Pending(TabOf[c], call[c].uid)'
  BY DEF WaitersHaveRefresh
<1>2. call[c] \in CallRecord /\ TabOf[c] \in Tabs
  BY CallType, TabOfAssumption DEF WaitInv
<1>3. call'[c] = IF WaitsFor(c, t, u) THEN Resumed(call[c], outcome) ELSE call[c]
  BY DEF Settle
<1>4. ~WaitsFor(c, t, u) /\ call'[c] = call[c]
  BY <1>2, <1>3, ResumedWakes DEF WaitsFor
<1>5. Pending(TabOf[c], call[c].uid)
  BY <1>4 DEF WaitInv, WaitersHaveRefresh
<1>6. ~(TabOf[c] = t /\ call[c].uid = u)
  BY <1>4 DEF WaitsFor
<1>7. call[c].uid \in Uids
  BY <1>2, <1>5 DEF Pending, CallRecord
<1>8. task'[TabOf[c]][call[c].uid] = task[TabOf[c]][call[c].uid]
  BY <1>1, <1>2, <1>6, <1>7
<1> QED BY <1>4, <1>5, <1>8 DEF Pending

\* A refresh that stays pending keeps its callers waiting.
LEMMA KeepsWaiting ==
    ASSUME WaitInv, UNCHANGED call,
           \A t \in Tabs, u \in Uids :
                task[t][u].phase # "none" => task'[t][u].phase # "none"
    PROVE  WaitersHaveRefresh'
<1> SUFFICES ASSUME NEW c \in Calls, call[c].pc \in {"held", "awaiting"}
             PROVE  Pending(TabOf[c], call[c].uid)'
  BY DEF WaitersHaveRefresh
<1>1. call[c].uid \in Uids \cup {NoUid} /\ TabOf[c] \in Tabs
  BY CallType, TabOfAssumption DEF WaitInv, CallRecord
<1>2. Pending(TabOf[c], call[c].uid)
  BY DEF WaitInv, WaitersHaveRefresh
<1> QED BY <1>1, <1>2 DEF Pending

\* The steps of a call: it waits only for a refresh that is pending.
LEMMA CallWaits ==
    ASSUME WaitInv, NEW c \in Calls,
           CallStep(c) \/ \E u \in Uids \cup {NoUid} : Begin(c, u)
    PROVE  WaitersHaveRefresh'
<1>1. /\ TabOf[c] \in Tabs /\ call[c] \in CallRecord
      /\ \A d \in Calls : TabOf[d] \in Tabs /\ call[d] \in CallRecord
  BY CallType, TabOfAssumption DEF WaitInv
<1>2. \A d \in Calls : d # c => call'[d] = call[d]
  <2>1. CASE \E u \in Uids \cup {NoUid} : Begin(c, u)
    <3>1. \E r : call' = [call EXCEPT ![c] = r]
      BY <2>1, Zenon DEF Begin
    <3> QED BY <3>1 DEF WaitInv, TypeOK
  <2>2. CASE Serve(c)
    BY <2>2 DEF Serve, WaitInv, TypeOK
  <2>3. CASE Receive(c)
    BY <2>3 DEF Receive, WaitInv, TypeOK
  <2>4. CASE Timeout(c)
    BY <2>4 DEF Timeout, WaitInv, TypeOK
  <2> QED BY <2>1, <2>2, <2>3, <2>4 DEF CallStep
<1>3. \A t \in Tabs, u \in Uids :
        task[t][u].phase # "none" => task'[t][u] = task[t][u]
  <2>1. CASE task' = task
    BY <2>1
  <2>2. CASE task' # task
    <3>1. /\ ~Pending(TabOf[c], call[c].uid)
          /\ task' = [task EXCEPT ![TabOf[c]][call[c].uid].phase = "queued"]
          /\ call[c].uid # NoUid
      <4>1. Receive(c)
        BY <2>2, Zenon DEF CallStep, Begin, Serve, Timeout
      <4> QED BY <2>2, <4>1 DEF Receive
    <3>2. call[c].uid \in Uids /\ task[TabOf[c]][call[c].uid].phase = "none"
      BY <3>1, <1>1 DEF Pending, CallRecord
    <3> QED BY <3>1, <3>2, <1>1 DEF WaitInv, TypeOK
  <2> QED BY <2>1, <2>2
<1>4. call'[c].pc \in {"held", "awaiting"} => Pending(TabOf[c], call[c].uid)'
  <2>1. ASSUME NEW u \in Uids \cup {NoUid}, Begin(c, u),
               call'[c].pc \in {"held", "awaiting"}
        PROVE  Pending(TabOf[c], call[c].uid)'
    <3>1. Pending(TabOf[c], u) /\ call'[c].uid = u /\ UNCHANGED task
      <4> DEFINE held == [call[c] EXCEPT !.pc = "held", !.uid = u]
      <4>1. /\ held.uid = u /\ Sent("sent", u).pc = "sent"
            /\ UNCHANGED task
            /\ call' = [call EXCEPT ![c] = IF Pending(TabOf[c], u) THEN held
                                           ELSE Sent("sent", u)]
        <5>1. held.uid = u /\ Sent("sent", u).pc = "sent"
          BY <1>1 DEF CallRecord, Sent
        <5> QED BY <5>1, <2>1, Zenon DEF Begin
      <4> HIDE DEF held
      <4>2. call'[c] = IF Pending(TabOf[c], u) THEN held ELSE Sent("sent", u)
        BY <4>1 DEF WaitInv, TypeOK
      <4> QED BY <2>1, <4>1, <4>2
    <3> QED BY <3>1 DEF Pending
  <2>2. CASE Serve(c)
    <3>1. /\ call'[c].pc = call[c].pc /\ call[c].pc \in {"sent", "retried"}
      BY <2>2, <1>1 DEF Serve, OnWire, WaitInv, TypeOK, CallRecord
    <3> QED BY <3>1
  <2>3. CASE Receive(c) /\ call'[c].pc \in {"held", "awaiting"}
    <3>1. /\ call[c].uid # NoUid /\ call'[c].uid = call[c].uid
          /\ task' = IF Pending(TabOf[c], call[c].uid) THEN task
                     ELSE [task EXCEPT ![TabOf[c]][call[c].uid].phase = "queued"]
      BY <2>3, <1>1 DEF Receive, WaitInv, TypeOK, CallRecord
    <3>2. call[c].uid \in Uids
      BY <3>1, <1>1 DEF CallRecord
    <3>3. CASE Pending(TabOf[c], call[c].uid)
      BY <3>1, <3>3 DEF Pending
    <3>4. CASE ~Pending(TabOf[c], call[c].uid)
      <4>1. task'[TabOf[c]][call[c].uid].phase = "queued"
        BY <3>1, <3>2, <3>4, <1>1, TaskType DEF WaitInv, TypeOK, TaskRecord
      <4> QED BY <3>1, <4>1 DEF Pending
    <3> QED BY <3>3, <3>4
  <2>4. CASE Timeout(c)
    <3>1. call'[c].pc = "done"
      BY <2>4, <1>1 DEF Timeout, WaitInv, TypeOK, CallRecord
    <3> QED BY <3>1
  <2> QED BY <2>1, <2>2, <2>3, <2>4 DEF CallStep
<1> SUFFICES ASSUME NEW d \in Calls, d # c, call[d].pc \in {"held", "awaiting"}
             PROVE  Pending(TabOf[d], call[d].uid)'
  BY <1>2, <1>4 DEF WaitersHaveRefresh
<1>5. Pending(TabOf[d], call[d].uid)
  BY DEF WaitInv, WaitersHaveRefresh
<1>6. call[d].uid \in Uids
  BY <1>1, <1>5 DEF Pending, CallRecord
<1>7. call'[d] = call[d]
  BY <1>2
<1>8. task'[TabOf[d]][call[d].uid] = task[TabOf[d]][call[d].uid]
  BY <1>1, <1>3, <1>5, <1>6 DEF Pending
<1> QED BY <1>5, <1>7, <1>8 DEF Pending

\* The steps of a refresh: one that ends wakes its callers.
LEMMA RefreshWaits ==
    ASSUME WaitInv, NEW t \in Tabs, NEW u \in Uids, RefreshStep(t, u)
    PROVE  WaitersHaveRefresh'
<1>1. task[t][u] \in TaskRecord
  BY TaskType DEF WaitInv
<1>2. CASE Grant(t, u)
  BY <1>1, <1>2, KeepsWaiting DEF Grant, WaitInv, TypeOK, TaskRecord
<1>3. CASE ServeRefresh(t, u)
  <2>1. PICK a \in {"ok", "fail", "other"} :
           task' = [task EXCEPT ![t][u] =
                      [task[t][u] EXCEPT !.phase = "served", !.answer = a,
                                         !.cookie = (a = "ok")]]
    BY <1>3 DEF ServeRefresh
  <2> DEFINE r == [task[t][u] EXCEPT !.phase = "served", !.answer = a,
                                     !.cookie = (a = "ok")]
  <2>2. r.phase = "served" /\ task' = [task EXCEPT ![t][u] = r]
    BY <1>1, <2>1 DEF TaskRecord
  <2> HIDE DEF r
  <2>3. \A t2 \in Tabs, u2 \in Uids :
           task[t2][u2].phase # "none" => task'[t2][u2].phase # "none"
    BY <2>2 DEF WaitInv, TypeOK
  <2> QED BY <1>3, <2>3, KeepsWaiting DEF ServeRefresh
<1>4. CASE StoreCookie(t, u)
  BY <1>1, <1>4, KeepsWaiting DEF StoreCookie, WaitInv, TypeOK, TaskRecord
<1>5. CASE ReceiveRefresh(t, u)
  BY <1>1, <1>5, KeepsWaiting DEF ReceiveRefresh, WaitInv, TypeOK, TaskRecord
<1>6. CASE EndPause(t, u)
  BY <1>6, SettleWakes DEF EndPause
<1>7. CASE FailRefresh(t, u)
  BY <1>7, SettleWakes DEF FailRefresh
<1> QED BY <1>2, <1>3, <1>4, <1>5, <1>6, <1>7 DEF RefreshStep

\* A tab that closes ends its calls with its refreshes.
LEMMA CloseTabWaits ==
    ASSUME WaitInv, NEW t \in Tabs, CloseTab(t)
    PROVE  WaitersHaveRefresh'
<1> DEFINE Ended(c) == [call[c] EXCEPT !.pc = "done", !.reply = "error"]
<1>1. \A c \in Calls : /\ TabOf[c] \in Tabs /\ Ended(c).pc = "done"
                      /\ call'[c] = IF TabOf[c] = t /\ call[c].pc # "done"
                                    THEN Ended(c) ELSE call[c]
  <2>1. \A c \in Calls : TabOf[c] \in Tabs /\ Ended(c).pc = "done"
    BY CallType, TabOfAssumption DEF WaitInv, CallRecord
  <2>2. call' = [c \in Calls |-> IF TabOf[c] = t /\ call[c].pc # "done"
                                THEN Ended(c) ELSE call[c]]
    BY Zenon DEF CloseTab
  <2> HIDE DEF Ended
  <2> QED BY <2>1, <2>2
<1>2. \A t2 \in Tabs \ {t} : task'[t2] = task[t2]
  <2>1. task' = [task EXCEPT ![t] = [u \in Uids |-> NoTask]]
    BY Zenon DEF CloseTab
  <2> QED BY <2>1 DEF WaitInv, TypeOK
<1> HIDE DEF Ended
<1> SUFFICES ASSUME NEW c \in Calls, call'[c].pc \in {"held", "awaiting"}
             PROVE  Pending(TabOf[c], call[c].uid)'
  BY DEF WaitersHaveRefresh
<1>3. TabOf[c] # t /\ call'[c] = call[c]
  BY <1>1
<1>4. task'[TabOf[c]] = task[TabOf[c]]
  BY <1>1, <1>2, <1>3
<1> QED BY <1>3, <1>4 DEF WaitInv, WaitersHaveRefresh, Pending

\* Every step keeps the waiting calls with the refresh they wait for.
LEMMA WaitStep == ASSUME WaitInv, [Next]_vars PROVE WaitInv'
<1>1. TypeOK'
  BY TypeStep DEF WaitInv
<1>2. WaitersHaveRefresh'
  <2>1. ASSUME NEW c \in Calls,
               CallStep(c) \/ \E u \in Uids \cup {NoUid} : Begin(c, u)
        PROVE  WaitersHaveRefresh'
    BY <2>1, CallWaits
  <2>2. ASSUME NEW t \in Tabs, NEW u \in Uids, RefreshStep(t, u)
        PROVE  WaitersHaveRefresh'
    BY <2>2, RefreshWaits
  <2>3. ASSUME NEW t \in Tabs, CloseTab(t) PROVE WaitersHaveRefresh'
    BY <2>3, CloseTabWaits
  <2>4. CASE UNCHANGED <<call, task>>
    BY <2>4, KeepsWaiting
  <2>5. \/ \E u \in Uids : ServeOrphan(u) \/ Expire(u) \/ Revoke(u)
        \/ \E t \in Tabs, u \in Uids : SetUid(t, u)
        \/ UNCHANGED vars
        => UNCHANGED <<call, task>>
    BY DEF ServeOrphan, Expire, Revoke, SetUid, vars
  <2> QED BY <2>1, <2>2, <2>3, <2>4, <2>5 DEF Next
<1> QED BY <1>1, <1>2 DEF WaitInv

\* A call that waits, held or after its 401, always has a refresh of its tab
\* under way or queued that will wake it: none is forgotten by the runner.
THEOREM WaitersAreWoken == Spec => []WaitersHaveRefresh
<1>1. Init => WaitInv
  BY TypeInit DEF WaitInv, WaitersHaveRefresh, Init
<1>2. WaitInv /\ [Next]_vars => WaitInv'
  BY WaitStep
<1>3. WaitInv => WaitersHaveRefresh
  BY DEF WaitInv
<1> QED BY <1>1, <1>2, <1>3, PTL DEF Spec
-----------------------------------------------------------------------------
(* Retries.  The tokens calls have used are no newer than the one their    *)
(* tab's refresh presents, and the jar is one ahead of that one once the   *)
(* refresh succeeded and its cookie arrived.                               *)

UsesToken(c, u) ==
    call[c].uid = u /\ call[c].pc \in {"sent", "awaiting", "retried"}

Fresh(t, u) == task[t][u].answer = "ok" /\ ~task[t][u].cookie

TokensGrow ==
    /\ \A c \in Calls, u \in Uids : UsesToken(c, u) => call[c].token <= jar[u]
    /\ \A t \in Tabs, u \in Uids : Refreshing(t, u) =>
        /\ jar[u] = IF Fresh(t, u) THEN task[t][u].token + 1
                    ELSE task[t][u].token
        /\ \A c \in Calls : TabOf[c] = t /\ UsesToken(c, u)
                                => call[c].token <= task[t][u].token

CookieMeansOk ==
    \A t \in Tabs, u \in Uids : task[t][u].cookie => task[t][u].answer = "ok"

RetryInv == RefreshInv /\ TokensGrow /\ CookieMeansOk

\* A call keeps its token, or takes the jar's while its tab has no refresh.
Learns ==
    \A c \in Calls, u \in Uids : UsesToken(c, u)' =>
        \/ UsesToken(c, u) /\ call'[c].token = call[c].token
        \/ call'[c].token = jar[u] /\ ~Refreshing(TabOf[c], u)'

\* Refreshes start with no token used by their tab's calls newer than the jar's.
Keeps ==
    \A t \in Tabs, u \in Uids : Refreshing(t, u)' =>
        /\ Refreshing(t, u)
        /\ task'[t][u].token = task[t][u].token
        /\ Fresh(t, u)' <=> Fresh(t, u)

\* While no cookie arrives and no refresh starts, the tokens stay in order.
LEMMA TokensKept ==
    ASSUME RetryInv, Learns, Keeps, UNCHANGED jar
    PROVE  TokensGrow'
<1>1. \A c \in Calls : TabOf[c] \in Tabs
  BY TabOfAssumption
<1>2. \A u \in Uids : jar[u] \in Nat
  BY DEF RetryInv, RefreshInv, TypeOK
<1>3. ASSUME NEW c \in Calls, NEW u \in Uids, UsesToken(c, u)'
      PROVE  call'[c].token <= jar'[u]
  <2>1. CASE UsesToken(c, u) /\ call'[c].token = call[c].token
    BY <2>1 DEF RetryInv, TokensGrow
  <2>2. CASE call'[c].token = jar[u]
    BY <2>2, <1>2
  <2> QED BY <1>3, <2>1, <2>2 DEF Learns
<1>4. ASSUME NEW t \in Tabs, NEW u \in Uids, Refreshing(t, u)'
      PROVE  /\ jar'[u] = IF Fresh(t, u)' THEN task'[t][u].token + 1
                         ELSE task'[t][u].token
             /\ \A c \in Calls : TabOf[c] = t /\ UsesToken(c, u)'
                                     => call'[c].token <= task'[t][u].token
  <2>1. /\ Refreshing(t, u) /\ task'[t][u].token = task[t][u].token
        /\ Fresh(t, u)' <=> Fresh(t, u)
    BY <1>4 DEF Keeps
  <2>2. jar'[u] = IF Fresh(t, u)' THEN task'[t][u].token + 1
                  ELSE task'[t][u].token
    BY <2>1 DEF RetryInv, TokensGrow
  <2>3. ASSUME NEW c \in Calls, TabOf[c] = t, UsesToken(c, u)'
        PROVE  call'[c].token <= task'[t][u].token
    <3>1. UsesToken(c, u) /\ call'[c].token = call[c].token
      BY <1>4, <2>3 DEF Learns
    <3> QED BY <2>1, <2>3, <3>1 DEF RetryInv, TokensGrow
  <2> QED BY <2>2, <2>3
<1> QED BY <1>3, <1>4 DEF TokensGrow

\* The steps of a call: it starts with the jar's token, and only where no
\* refresh is pending.
LEMMA CallLearns ==
    ASSUME TypeOK, NEW c \in Calls,
           CallStep(c) \/ \E u \in Uids \cup {NoUid} : Begin(c, u)
    PROVE  Learns
<1>1. call[c] \in CallRecord /\ TabOf[c] \in Tabs
  BY CallType, TabOfAssumption
<1>2. CASE \E u \in Uids \cup {NoUid} : Begin(c, u)
  <2>1. PICK u \in Uids \cup {NoUid} : Begin(c, u)
    BY <1>2
  <2> DEFINE held == [call[c] EXCEPT !.pc = "held", !.uid = u]
  <2> DEFINE sent == Sent("sent", u)
  <2>2. /\ held.pc = "held" /\ sent.uid = u
        /\ u # NoUid => sent.token = jar[u]
    BY <1>1 DEF CallRecord, Sent, Token
  <2>3. /\ call' = [call EXCEPT ![c] = IF Pending(TabOf[c], u) THEN held
                                      ELSE sent]
        /\ UNCHANGED task
    BY <2>1, Zenon DEF Begin
  <2> HIDE DEF held, sent
  <2>4. /\ \A d \in Calls : d # c => call'[d] = call[d]
        /\ call'[c] = IF Pending(TabOf[c], u) THEN held ELSE sent
    BY <2>3 DEF TypeOK
  <2> SUFFICES ASSUME NEW v \in Uids, UsesToken(c, v)'
               PROVE  call'[c].token = jar[v] /\ ~Refreshing(TabOf[c], v)'
    BY <2>4 DEF Learns, UsesToken
  <2>5. call'[c] = sent /\ ~Pending(TabOf[c], u)
    BY <2>2, <2>4 DEF UsesToken
  <2>6. u = v /\ u # NoUid
    BY <2>2, <2>5, NoneAssumption DEF UsesToken
  <2> QED BY <2>2, <2>3, <2>5, <2>6 DEF Pending
<1>3. CASE CallStep(c)
  <2> SUFFICES \A d \in Calls, u \in Uids : UsesToken(d, u)' =>
                  UsesToken(d, u) /\ call'[d].token = call[d].token
    BY DEF Learns
  <2>1. CASE Serve(c)
    BY <1>1, <2>1 DEF Serve, TypeOK, CallRecord, UsesToken
  <2>2. CASE Receive(c)
    <3>1. PICK pc \in {"awaiting", "done"} :
             call' = [call EXCEPT ![c].pc = pc]
      BY <2>2, Zenon DEF Receive
    <3>2. call[c].pc \in {"sent", "retried"}
      BY <2>2 DEF Receive, OnWire
    <3> QED BY <1>1, <3>1, <3>2 DEF TypeOK, CallRecord, UsesToken
  <2>3. CASE Timeout(c)
    BY <1>1, <2>3 DEF Timeout, TypeOK, CallRecord, UsesToken
  <2> QED BY <1>3, <2>1, <2>2, <2>3 DEF CallStep
<1> QED BY <1>2, <1>3

\* A refresh that settles sends its calls with the jar's token.
LEMMA SettleLearns ==
    ASSUME TypeOK, NEW t \in Tabs, NEW u \in Uids, NEW outcome,
           Settle(t, u, outcome)
    PROVE  Learns
<1>1. task'[t][u].phase = "none"
  BY SettleUpdate DEF NoTask
<1>2. \A c \in Calls :
        call'[c] = IF WaitsFor(c, t, u) THEN Resumed(call[c], outcome)
                   ELSE call[c]
  BY DEF Settle
<1> SUFFICES ASSUME NEW c \in Calls, NEW v \in Uids, UsesToken(c, v)',
                    WaitsFor(c, t, u)
             PROVE  call'[c].token = jar[v] /\ ~Refreshing(TabOf[c], v)'
  BY <1>2 DEF Learns, UsesToken
<1>3. call'[c] = Resumed(call[c], outcome) /\ call[c] \in CallRecord
  BY <1>2, CallType
<1>4. call'[c] \in {Sent("sent", u), Sent("retried", u)}
  BY <1>3 DEF Resumed, UsesToken, CallRecord, WaitsFor
<1>5. u = v /\ call'[c].token = jar[v]
  BY <1>4, NoneAssumption DEF Sent, Token, UsesToken
<1> QED BY <1>1, <1>5 DEF WaitsFor

\* A step that changes no call learns nothing.
LEMMA QuietLearns ==
    ASSUME UNCHANGED call PROVE Learns
BY DEF Learns, UsesToken

\* A refresh starts with the jar's token, which no call has overtaken.
LEMMA GrantRetry ==
    ASSUME RetryInv, NEW t \in Tabs, NEW u \in Uids, Grant(t, u)
    PROVE  TokensGrow' /\ CookieMeansOk'
<1> DEFINE r == [task[t][u] EXCEPT !.phase = "posted", !.token = jar[u]]
<1>1. /\ r.token = jar[u] /\ r.cookie = task[t][u].cookie
      /\ r.answer = task[t][u].answer
  BY TaskType DEF RetryInv, RefreshInv, TaskRecord
<1>2. task' = [task EXCEPT ![t][u] = r] /\ UNCHANGED <<call, jar>>
  BY DEF Grant
<1> HIDE DEF r
<1>3. \A t2 \in Tabs, u2 \in Uids :
         task'[t2][u2] = IF t2 = t /\ u2 = u THEN r ELSE task[t2][u2]
  BY <1>2 DEF RetryInv, RefreshInv, TypeOK
<1>4. task[t][u].answer = "none"
  BY DEF Grant, RetryInv, RefreshInv, LockHeld
<1>5. TokensGrow'
  BY <1>1, <1>2, <1>3, <1>4 DEF RetryInv, TokensGrow, Fresh, UsesToken
<1>6. CookieMeansOk'
  BY <1>1, <1>3 DEF RetryInv, CookieMeansOk
<1> QED BY <1>5, <1>6

\* The cookie of a refresh that succeeded puts the jar one ahead.
LEMMA StoreCookieRetry ==
    ASSUME RetryInv, NEW t \in Tabs, NEW u \in Uids, StoreCookie(t, u)
    PROVE  TokensGrow' /\ CookieMeansOk'
<1> DEFINE r == [task[t][u] EXCEPT !.cookie = FALSE]
<1>1. /\ r.phase = task[t][u].phase /\ r.token = task[t][u].token
      /\ ~r.cookie /\ r.answer = task[t][u].answer
  BY TaskType DEF RetryInv, RefreshInv, TaskRecord
<1>2. task' = [task EXCEPT ![t][u] = r] /\ UNCHANGED call
  BY DEF StoreCookie
<1> HIDE DEF r
<1>3. \A t2 \in Tabs, u2 \in Uids :
         task'[t2][u2] = IF t2 = t /\ u2 = u THEN r ELSE task[t2][u2]
  BY <1>2 DEF RetryInv, RefreshInv, TypeOK
<1>4. \A u2 \in Uids :
         jar'[u2] = IF u2 = u THEN task[t][u].token + 1 ELSE jar[u2]
  BY DEF StoreCookie, RetryInv, RefreshInv, TypeOK
<1>5. /\ task[t][u].answer = "ok" /\ task[t][u].cookie
      /\ Refreshing(t, u) /\ ~Fresh(t, u)
      /\ \A t2 \in Tabs : t2 # t => ~Refreshing(t2, u)
  BY DEF StoreCookie, RetryInv, RefreshInv, LockHeld, CookieMeansOk, Fresh
<1>6. jar[u] = task[t][u].token /\ jar[u] \in Nat
  BY <1>5 DEF RetryInv, TokensGrow, RefreshInv, TypeOK
<1>7. \A c \in Calls : UsesToken(c, u) =>
         call[c].token \in Nat /\ call[c].token <= jar[u]
  BY CallType DEF RetryInv, TokensGrow, RefreshInv, CallRecord
<1>8. TokensGrow'
  <2>1. ASSUME NEW c \in Calls, NEW v \in Uids, UsesToken(c, v)'
        PROVE  call'[c].token <= jar'[v]
    <3>1. UsesToken(c, v) /\ call'[c] = call[c]
      BY <1>2, <2>1 DEF UsesToken
    <3>2. CASE v = u
      BY <1>4, <1>6, <1>7, <3>1, <3>2
    <3>3. CASE v # u
      BY <1>4, <3>1, <3>3 DEF RetryInv, TokensGrow
    <3> QED BY <3>2, <3>3
  <2>2. ASSUME NEW s \in Tabs, NEW v \in Uids, Refreshing(s, v)'
        PROVE  /\ jar'[v] = IF Fresh(s, v)' THEN task'[s][v].token + 1
                           ELSE task'[s][v].token
               /\ \A c \in Calls : TabOf[c] = s /\ UsesToken(c, v)'
                                       => call'[c].token <= task'[s][v].token
    <3>1. CASE s = t /\ v = u
      BY <1>1, <1>2, <1>3, <1>4, <1>5, <1>6, <1>7, <3>1 DEF Fresh, UsesToken
    <3>2. CASE v # u
      BY <1>2, <1>3, <1>4, <2>2, <3>2
         DEF RetryInv, TokensGrow, Fresh, UsesToken
    <3>3. s = t \/ v # u
      BY <1>3, <1>5, <2>2
    <3> QED BY <3>1, <3>2, <3>3
  <2> QED BY <2>1, <2>2 DEF TokensGrow
<1>9. CookieMeansOk'
  BY <1>1, <1>3 DEF RetryInv, CookieMeansOk
<1> QED BY <1>8, <1>9

\* The other steps of a refresh leave the jar alone.
LEMMA RefreshRetry ==
    ASSUME RetryInv, NEW t \in Tabs, NEW u \in Uids,
           ServeRefresh(t, u) \/ ReceiveRefresh(t, u)
    PROVE  TokensGrow' /\ CookieMeansOk'
<1>1. PICK r : /\ task' = [task EXCEPT ![t][u] = r]
               /\ r.token = task[t][u].token
               /\ r.cookie => r.answer = "ok"
               /\ Refreshing(t, u)
               /\ r.answer = "ok" /\ ~r.cookie <=> Fresh(t, u)
  <2>1. CASE ServeRefresh(t, u)
    <3>1. PICK a \in {"ok", "fail", "other"} :
             task' = [task EXCEPT ![t][u] =
                        [task[t][u] EXCEPT !.phase = "served", !.answer = a,
                                           !.cookie = (a = "ok")]]
      BY <2>1 DEF ServeRefresh
    <3> DEFINE r == [task[t][u] EXCEPT !.phase = "served", !.answer = a,
                                       !.cookie = (a = "ok")]
    <3>2. r.token = task[t][u].token /\ r.cookie = (a = "ok") /\ r.answer = a
      BY TaskType DEF RetryInv, RefreshInv, TaskRecord
    <3>3. task' = [task EXCEPT ![t][u] = r]
      BY <3>1
    <3>4. Refreshing(t, u) /\ ~Fresh(t, u)
      BY <2>1 DEF ServeRefresh, RetryInv, RefreshInv, LockHeld, Fresh
    <3> HIDE DEF r
    <3> QED BY <3>2, <3>3, <3>4
  <2>2. CASE ReceiveRefresh(t, u)
    <3> DEFINE r == [task[t][u] EXCEPT !.phase = "settling"]
    <3>1. /\ r.token = task[t][u].token /\ r.cookie = task[t][u].cookie
          /\ r.answer = task[t][u].answer
      BY TaskType DEF RetryInv, RefreshInv, TaskRecord
    <3>2. task' = [task EXCEPT ![t][u] = r] /\ Refreshing(t, u)
      BY <2>2 DEF ReceiveRefresh
    <3> HIDE DEF r
    <3> QED BY <3>1, <3>2 DEF Fresh, RetryInv, CookieMeansOk
  <2> QED BY <2>1, <2>2
<1>2. UNCHANGED <<call, jar>>
  BY DEF ServeRefresh, ReceiveRefresh
<1>3. \A t2 \in Tabs, u2 \in Uids :
         task'[t2][u2] = IF t2 = t /\ u2 = u THEN r ELSE task[t2][u2]
  BY <1>1 DEF RetryInv, RefreshInv, TypeOK
<1>4. Keeps
  BY <1>1, <1>3 DEF Keeps, Fresh
<1>5. TokensGrow'
  BY <1>2, <1>4, QuietLearns, TokensKept
<1>6. CookieMeansOk'
  BY <1>1, <1>3 DEF RetryInv, CookieMeansOk
<1> QED BY <1>5, <1>6

\* So do steps that end refreshes, or start none of them.
LEMMA EndRetry ==
    ASSUME RetryInv, Learns, UNCHANGED jar,
           \A t \in Tabs, u \in Uids :
              \/ task'[t][u] = task[t][u]
              \/ ~Refreshing(t, u)' /\ ~task'[t][u].cookie
    PROVE  TokensGrow' /\ CookieMeansOk'
<1>1. Keeps
  BY DEF Keeps, Fresh
<1>2. TokensGrow'
  BY <1>1, TokensKept
<1>3. CookieMeansOk'
  BY DEF RetryInv, CookieMeansOk
<1> QED BY <1>2, <1>3

\* Every step keeps the tokens in order.
LEMMA RetryStep == ASSUME RetryInv, [Next]_vars PROVE RetryInv'
<1>1. RefreshInv' /\ TypeOK
  BY InvStep DEF RetryInv, RefreshInv
<1>2. ASSUME NEW c \in Calls,
             CallStep(c) \/ \E u \in Uids \cup {NoUid} : Begin(c, u)
      PROVE  TokensGrow' /\ CookieMeansOk'
  <2>1. Learns
    BY <1>1, <1>2, CallLearns
  <2>2. UNCHANGED jar
    BY <1>2, Zenon DEF CallStep, Begin, Serve, Receive, Timeout
  <2>3. ASSUME NEW t \in Tabs, NEW u \in Uids
        PROVE  \/ task'[t][u] = task[t][u]
               \/ ~Refreshing(t, u)' /\ ~task'[t][u].cookie
    <3>1. CASE task' = task
      BY <3>1
    <3>2. CASE task' # task
      <4>1. Receive(c)
        BY <1>2, <3>2, Zenon DEF CallStep, Begin, Serve, Timeout
      <4>2. /\ task' = [task EXCEPT ![TabOf[c]][call[c].uid].phase = "queued"]
            /\ ~Pending(TabOf[c], call[c].uid) /\ call[c].uid # NoUid
        BY <3>2, <4>1 DEF Receive
      <4>3. call[c].uid \in Uids /\ TabOf[c] \in Tabs
        BY <1>1, <4>2, CallType, TabOfAssumption DEF CallRecord
      <4> DEFINE r == [task[TabOf[c]][call[c].uid] EXCEPT !.phase = "queued"]
      <4>4. r.phase = "queued" /\ r.cookie = task[TabOf[c]][call[c].uid].cookie
        BY <1>1, <4>3, TaskType DEF TaskRecord
      <4>5. ~task[TabOf[c]][call[c].uid].cookie
        BY <4>2, <4>3 DEF Pending, RetryInv, RefreshInv, LockHeld
      <4>6. task' = [task EXCEPT ![TabOf[c]][call[c].uid] = r]
        BY <4>2
      <4> HIDE DEF r
      <4>7. task'[t][u] = IF t = TabOf[c] /\ u = call[c].uid THEN r
                          ELSE task[t][u]
        BY <1>1, <4>3, <4>6 DEF TypeOK
      <4> QED BY <4>4, <4>5, <4>7
    <3> QED BY <3>1, <3>2
  <2> QED BY <2>1, <2>2, <2>3, EndRetry
<1>3. ASSUME NEW t \in Tabs, NEW u \in Uids, RefreshStep(t, u)
      PROVE  TokensGrow' /\ CookieMeansOk'
  <2>1. CASE EndPause(t, u) \/ FailRefresh(t, u)
    <3>1. PICK outcome : Settle(t, u, outcome)
      BY <2>1 DEF EndPause, FailRefresh
    <3>2. Learns /\ UNCHANGED jar
      BY <1>1, <2>1, <3>1, SettleLearns DEF EndPause, FailRefresh
    <3>3. \A t2 \in Tabs, u2 \in Uids :
             task'[t2][u2] = IF t2 = t /\ u2 = u THEN NoTask ELSE task[t2][u2]
      BY <1>1, <3>1, SettleUpdate
    <3> QED BY <3>2, <3>3, EndRetry DEF NoTask
  <2> QED BY <1>3, <2>1, GrantRetry, StoreCookieRetry, RefreshRetry
          DEF RefreshStep
<1>4. ASSUME NEW t \in Tabs, CloseTab(t)
      PROVE  TokensGrow' /\ CookieMeansOk'
  <2>1. \A s \in Tabs, u \in Uids :
           task'[s][u] = IF s = t THEN NoTask ELSE task[s][u]
    <3>1. task' = [task EXCEPT ![t] = [u \in Uids |-> NoTask]]
      BY <1>4, Zenon DEF CloseTab
    <3> QED BY <1>1, <3>1 DEF TypeOK
  <2>2. Learns
    <3> DEFINE Ended(c) == [call[c] EXCEPT !.pc = "done", !.reply = "error"]
    <3>1. \A c \in Calls : Ended(c).pc = "done"
      BY <1>1, CallType DEF CallRecord
    <3>2. call' = [c \in Calls |-> IF TabOf[c] = t /\ call[c].pc # "done"
                                  THEN Ended(c) ELSE call[c]]
      BY <1>4, Zenon DEF CloseTab
    <3> HIDE DEF Ended
    <3> QED BY <3>1, <3>2 DEF Learns, UsesToken
  <2>3. UNCHANGED jar
    BY <1>4, Zenon DEF CloseTab
  <2> QED BY <2>1, <2>2, <2>3, EndRetry DEF NoTask
<1>5. ASSUME UNCHANGED <<call, task, jar>>
      PROVE  TokensGrow' /\ CookieMeansOk'
  BY <1>5, QuietLearns, EndRetry
<1>6. \/ \E u \in Uids : ServeOrphan(u) \/ Expire(u) \/ Revoke(u)
      \/ \E t \in Tabs, u \in Uids : SetUid(t, u)
      \/ UNCHANGED vars
      => UNCHANGED <<call, task, jar>>
  BY DEF ServeOrphan, Expire, Revoke, SetUid, vars
<1> QED BY <1>1, <1>2, <1>3, <1>4, <1>5, <1>6 DEF Next, RetryInv

\* The tokens are in order in the initial states.
LEMMA RetryInit == ASSUME Init PROVE RetryInv
<1>1. \A t \in Tabs, u \in Uids : task[t][u] = NoTask
  BY DEF Init
<1>2. \A c \in Calls, u \in Uids : ~UsesToken(c, u)
  BY DEF Init, UsesToken
<1>3. TokensGrow /\ CookieMeansOk
  BY <1>1, <1>2 DEF TokensGrow, CookieMeansOk, NoTask
<1> QED BY <1>3, InvInit DEF RetryInv

\* A retry goes out only after a refresh that succeeded, whose cookie puts the
\* jar ahead of every token its tab's calls have used.
LEMMA RetryIsNewer ==
    ASSUME RetryInv, [Next]_vars, NEW c \in Calls,
           call[c].pc = "awaiting", call'[c].pc = "retried"
    PROVE  call'[c].token > call[c].token
<1>1. call[c] \in CallRecord /\ TabOf[c] \in Tabs /\ TypeOK
  BY CallType, TabOfAssumption DEF RetryInv, RefreshInv
<1>2. PICK t \in Tabs, u \in Uids :
         \E outcome :
           /\ Settle(t, u, outcome)
           /\ outcome = "error" \/ (EndPause(t, u) /\ outcome = task[t][u].answer)
  <2>1. ASSUME NEW d \in Calls,
               CallStep(d) \/ \E u \in Uids \cup {NoUid} : Begin(d, u)
        PROVE  FALSE
    <3>1. PICK r : call' = [call EXCEPT ![d] = r]
      <4>1. CASE \E u \in Uids \cup {NoUid} : Begin(d, u)
        BY <4>1, Zenon DEF Begin
      <4>2. CASE Serve(d)
        BY <4>2, Zenon DEF Serve
      <4>3. CASE Receive(d)
        BY <4>3, Zenon DEF Receive
      <4>4. CASE Timeout(d)
        BY <4>4, Zenon DEF Timeout
      <4> QED BY <2>1, <4>1, <4>2, <4>3, <4>4 DEF CallStep
    <3>2. d = c
      BY <1>1, <3>1 DEF TypeOK
    <3>3. call[c].pc # "idle" /\ ~OnWire(c)
      BY DEF OnWire
    <3> QED BY <2>1, <3>2, <3>3, Zenon DEF CallStep, Begin, Serve, Receive,
                                          Timeout
  <2>2. ASSUME NEW t \in Tabs, CloseTab(t) PROVE FALSE
    <3> DEFINE Ended(d) == [call[d] EXCEPT !.pc = "done", !.reply = "error"]
    <3>1. Ended(c).pc = "done"
      BY <1>1 DEF CallRecord
    <3>2. call' = [d \in Calls |-> IF TabOf[d] = t /\ call[d].pc # "done"
                                  THEN Ended(d) ELSE call[d]]
      BY <2>2, Zenon DEF CloseTab
    <3> HIDE DEF Ended
    <3> QED BY <3>1, <3>2
  <2>3. ~UNCHANGED call
    OBVIOUS
  <2>4. PICK t \in Tabs, u \in Uids : RefreshStep(t, u)
    BY <2>1, <2>2, <2>3, Zenon
       DEF Next, vars, SetUid, ServeOrphan, Expire, Revoke
  <2>5. EndPause(t, u) \/ FailRefresh(t, u)
    BY <2>3, <2>4, Zenon
       DEF RefreshStep, Grant, ServeRefresh, StoreCookie, ReceiveRefresh
  <2> QED BY <2>5 DEF EndPause, FailRefresh
<1>3. PICK outcome :
         /\ Settle(t, u, outcome)
         /\ outcome = "error" \/ (EndPause(t, u) /\ outcome = task[t][u].answer)
  BY <1>2
<1>4. call'[c] = Resumed(call[c], outcome) /\ WaitsFor(c, t, u)
  <2>1. call'[c] = IF WaitsFor(c, t, u) THEN Resumed(call[c], outcome)
                   ELSE call[c]
    BY <1>3 DEF Settle
  <2> QED BY <2>1
<1>5. outcome = "ok" /\ call'[c] = Sent("retried", u)
  BY <1>1, <1>4 DEF Resumed, WaitsFor, CallRecord
<1>6. Fresh(t, u) /\ Refreshing(t, u)
  BY <1>3, <1>5 DEF EndPause, Fresh
<1>7. /\ jar[u] = task[t][u].token + 1 /\ call[c].token <= task[t][u].token
      /\ call'[c].token = jar[u]
  BY <1>4, <1>5, <1>6, NoneAssumption
     DEF RetryInv, TokensGrow, WaitsFor, UsesToken, Sent, Token
<1>8. call[c].token \in Nat /\ task[t][u].token \in Nat
  BY <1>1, TaskType DEF CallRecord, TaskRecord
<1> QED BY <1>7, <1>8

\* A call never retries with the token that was answered with a 401, however
\* the refreshes of all tabs interleave with it.
THEOREM RetriesAreNewer == Spec => RetryHasNewToken
<1>1. RetryInv /\ [Next]_vars =>
        [\A c \in Calls : call[c].pc = "awaiting" /\ call'[c].pc = "retried"
                            => call'[c].token > call[c].token]_vars
  BY RetryIsNewer
<1>2. Init => RetryInv
  BY RetryInit
<1>3. RetryInv /\ [Next]_vars => RetryInv'
  BY RetryStep
<1> QED BY <1>1, <1>2, <1>3, PTL DEF Spec, RetryHasNewToken
-----------------------------------------------------------------------------
(* Refinement.  Seen from one session, the tabs, their calls and refreshes *)
(* are a client that exchanges the token one exchange at a time: only the  *)
(* tab that holds the lock is seen.                                        *)

Busy(u) == \E t \in Tabs : Refreshing(t, u)
LoggedOut(u) == \E t \in Tabs : u \in notified[t]

\* The server's token is newer than one that was exchanged.
CookieBehind ==
    \A t \in Tabs, u \in Uids : task[t][u].cookie => task[t][u].token < gen[u]

ExchangeInv == RetryInv /\ CookieBehind

\* What a session sees of a step that does not concern it.
Unseen(u) ==
    /\ gen'[u] = gen[u] /\ jar'[u] = jar[u] /\ lost'[u] = lost[u]
    /\ revoked'[u] = revoked[u]
    /\ Busy(u)' <=> Busy(u)
    /\ LoggedOut(u)' <=> LoggedOut(u)

\* What an exchange does not see is no step of it.
LEMMA UnseenStutters ==
    ASSUME NEW u \in Uids, Unseen(u) PROVE UNCHANGED Exchange(u)!vars
<1>1. (\E t \in Tabs : Refreshing(t, u))' = (\E t \in Tabs : Refreshing(t, u))
  BY DEF Unseen, Busy
<1>2. (\E t \in Tabs : u \in notified[t])' = (\E t \in Tabs : u \in notified[t])
  BY DEF Unseen, LoggedOut
<1> QED BY <1>1, <1>2 DEF Unseen, Exchange!vars

Maps(u) == [Exchange(u)!Next]_(Exchange(u)!vars)

\* A refresh that gets the lock starts the session's exchange.
LEMMA GrantMaps ==
    ASSUME ExchangeInv, NEW t \in Tabs, NEW u \in Uids, Grant(t, u),
           NEW v \in Uids
    PROVE  Maps(v)
<1> DEFINE r == [task[t][u] EXCEPT !.phase = "posted", !.token = jar[u]]
<1>1. TypeOK /\ r.phase = "posted"
  BY TaskType DEF ExchangeInv, RetryInv, RefreshInv, TaskRecord
<1>2. task' = [task EXCEPT ![t][u] = r]
  BY DEF Grant
<1> HIDE DEF r
<1>3. \A t2 \in Tabs, u2 \in Uids :
         task'[t2][u2] = IF t2 = t /\ u2 = u THEN r ELSE task[t2][u2]
  BY <1>1, <1>2 DEF TypeOK
<1>4. UNCHANGED <<gen, jar, lost, revoked, notified>>
  BY DEF Grant, session
<1>5. CASE v = u
  <2>1. ~Busy(u) /\ Busy(u)'
    BY <1>1, <1>3, NoneAssumption
       DEF Grant, Busy, ExchangeInv, RetryInv, RefreshInv, LockHeld
  <2>2. Exchange(u)!Start
    BY <2>1, <1>4 DEF Busy, Exchange!Start
  <2> QED BY <1>5, <2>2 DEF Maps, Exchange!Next
<1>6. CASE v # u
  <2>1. Unseen(v)
    BY <1>3, <1>4, <1>6 DEF Unseen, Busy, LoggedOut
  <2> QED BY <2>1, UnseenStutters DEF Maps
<1> QED BY <1>5, <1>6

\* The server rotates the token that the jar holds.
LEMMA ServeRefreshMaps ==
    ASSUME ExchangeInv, NEW t \in Tabs, NEW u \in Uids, ServeRefresh(t, u),
           NEW v \in Uids
    PROVE  Maps(v) /\ CookieBehind'
<1>1. PICK answer \in {"ok", "fail", "other"} :
        /\ task[t][u].phase = "posted"
        /\ answer = "ok" => Accepts(u, task[t][u].token)
        /\ task' = [task EXCEPT ![t][u] =
                       [task[t][u] EXCEPT !.phase = "served", !.answer = answer,
                                          !.cookie = (answer = "ok")]]
        /\ IF answer = "ok" THEN Rotate(u) ELSE UNCHANGED session
  BY DEF ServeRefresh
<1> DEFINE r == [task[t][u] EXCEPT !.phase = "served", !.answer = answer,
                                   !.cookie = (answer = "ok")]
<1>2. /\ TypeOK /\ task[t][u].token \in Nat
      /\ r.phase = "served" /\ r.token = task[t][u].token
      /\ r.cookie = (answer = "ok")
  BY TaskType DEF ExchangeInv, RetryInv, RefreshInv, TaskRecord
<1>3. task' = [task EXCEPT ![t][u] = r]
  BY <1>1
<1> HIDE DEF r
<1>4. \A t2 \in Tabs, u2 \in Uids :
         task'[t2][u2] = IF t2 = t /\ u2 = u THEN r ELSE task[t2][u2]
  BY <1>2, <1>3 DEF TypeOK
<1>5. /\ revoked' = revoked
      /\ \A u2 \in Uids : /\ gen[u2] \in Nat
            /\ gen'[u2] = IF u2 = u /\ answer = "ok" THEN gen[u] + 1 ELSE gen[u2]
  BY <1>1, <1>2 DEF Rotate, session, TypeOK
<1>6. UNCHANGED <<jar, lost, notified>>
  BY DEF ServeRefresh
<1>7. Busy(v)' <=> Busy(v)
  BY <1>1, <1>2, <1>4 DEF Busy
<1>8. jar[u] = task[t][u].token
  <2>1. ~Fresh(t, u) /\ Refreshing(t, u)
    BY <1>1 DEF Fresh, ExchangeInv, RetryInv, RefreshInv, LockHeld
  <2> QED BY <2>1 DEF ExchangeInv, RetryInv, TokensGrow
<1>9. Maps(v)
  <2>1. CASE v = u /\ answer = "ok"
    <3>1. jar[u] = gen[u] /\ Busy(u)
      BY <1>1, <1>8, <2>1 DEF Accepts, Busy
    <3>2. (\E s \in Tabs : Refreshing(s, u))' = (\E s \in Tabs : Refreshing(s, u))
      BY <1>7, <2>1 DEF Busy
    <3>3. Exchange(u)!Rotate
      BY <1>5, <1>6, <2>1, <3>1, <3>2 DEF Busy, Exchange!Rotate
    <3> QED BY <2>1, <3>3 DEF Maps, Exchange!Next
  <2>2. CASE ~(v = u /\ answer = "ok")
    <3>1. Unseen(v)
      BY <1>5, <1>6, <1>7, <2>2 DEF Unseen, LoggedOut
    <3> QED BY <3>1, UnseenStutters DEF Maps
  <2> QED BY <2>1, <2>2
<1>10. CookieBehind'
  <2> SUFFICES ASSUME NEW s \in Tabs, NEW w \in Uids, task'[s][w].cookie
               PROVE  task'[s][w].token < gen'[w]
    BY DEF CookieBehind
  <2>1. CASE s = t /\ w = u
    <3>1. task'[s][w] = r /\ answer = "ok"
      BY <1>2, <1>4, <2>1
    <3>2. task[t][u].token = gen[u]
      BY <1>1, <3>1 DEF Accepts
    <3> QED BY <1>2, <1>5, <2>1, <3>1, <3>2
  <2>2. CASE ~(s = t /\ w = u)
    <3>1. task[s][w].token < gen[w] /\ task'[s][w] = task[s][w]
      BY <1>4, <2>2 DEF ExchangeInv, CookieBehind
    <3>2. task[s][w].token \in Nat
      BY <1>2, TaskType DEF TaskRecord
    <3> QED BY <1>5, <3>1, <3>2
  <2> QED BY <2>1, <2>2
<1> QED BY <1>9, <1>10

\* The jar follows the server.
LEMMA StoreCookieMaps ==
    ASSUME ExchangeInv, NEW t \in Tabs, NEW u \in Uids, StoreCookie(t, u),
           NEW v \in Uids
    PROVE  Maps(v) /\ CookieBehind'
<1> DEFINE r == [task[t][u] EXCEPT !.cookie = FALSE]
<1>1. /\ TypeOK /\ r.phase = task[t][u].phase /\ ~r.cookie
  BY TaskType DEF ExchangeInv, RetryInv, RefreshInv, TaskRecord
<1>2. task' = [task EXCEPT ![t][u] = r]
  BY DEF StoreCookie
<1> HIDE DEF r
<1>3. \A t2 \in Tabs, u2 \in Uids :
         task'[t2][u2] = IF t2 = t /\ u2 = u THEN r ELSE task[t2][u2]
  BY <1>1, <1>2 DEF TypeOK
<1>4. /\ UNCHANGED <<gen, lost, revoked, notified>>
      /\ \A u2 \in Uids :
           jar'[u2] = IF u2 = u THEN task[t][u].token + 1 ELSE jar[u2]
  BY <1>1 DEF StoreCookie, session, TypeOK
<1>5. Busy(v)' <=> Busy(v)
  BY <1>1, <1>3 DEF Busy
<1>6. /\ jar[u] = task[t][u].token /\ jar[u] < gen[u] /\ Refreshing(t, u)
  <2>1. task[t][u].cookie /\ Refreshing(t, u) /\ ~Fresh(t, u)
    BY DEF StoreCookie, Fresh, ExchangeInv, RetryInv, RefreshInv, LockHeld
  <2> QED BY <2>1 DEF ExchangeInv, RetryInv, TokensGrow, CookieBehind
<1>7. Maps(v)
  <2>1. CASE v = u
    <3>1. (\E s \in Tabs : Refreshing(s, u))' = (\E s \in Tabs : Refreshing(s, u))
      BY <1>5, <2>1 DEF Busy
    <3>2. Exchange(u)!Store
      BY <1>4, <1>6, <3>1 DEF Exchange!Store
    <3> QED BY <2>1, <3>2 DEF Maps, Exchange!Next
  <2>2. CASE v # u
    <3>1. Unseen(v)
      BY <1>4, <1>5, <2>2 DEF Unseen, LoggedOut
    <3> QED BY <3>1, UnseenStutters DEF Maps
  <2> QED BY <2>1, <2>2
<1>8. CookieBehind'
  BY <1>1, <1>3, <1>4 DEF ExchangeInv, CookieBehind
<1> QED BY <1>7, <1>8

\* With the refresh that held its lock an exchange ends; others go on.
LEMMA EndMaps ==
    ASSUME ExchangeInv, NoSpuriousLogout', NEW t \in Tabs, NEW us \in SUBSET Uids,
           \A s \in Tabs, u \in Uids :
              task'[s][u] = IF s = t /\ u \in us THEN NoTask ELSE task[s][u],
           UNCHANGED <<gen, jar, revoked>>,
           \A u \in Uids :
              /\ lost'[u] \in BOOLEAN
              /\ lost[u] => lost'[u]
              /\ u \notin us \/ ~Refreshing(t, u) => lost'[u] = lost[u]
              /\ u \in us /\ task[t][u].cookie => lost'[u],
           \A u \in Uids : LoggedOut(u) => LoggedOut(u)',
           \A u \in Uids : ~LoggedOut(u) /\ LoggedOut(u)' =>
              /\ u \in us /\ Refreshing(t, u)
              /\ lost'[u] = lost[u],
           NEW v \in Uids
    PROVE  Maps(v)
<1>1. CASE v \in us /\ Refreshing(t, v)
  <2>1. holder[v] = t
    BY <1>1 DEF ExchangeInv, RetryInv, RefreshInv, LockHeld
  <2>2. \A s \in Tabs : s # t => ~Refreshing(s, v) /\ ~task[s][v].cookie
    BY <2>1, NoneAssumption
       DEF ExchangeInv, RetryInv, RefreshInv, LockHeld
  <2>3. Busy(v) /\ ~Busy(v)'
    BY <1>1, <2>2 DEF Busy, NoTask
  <2>4. jar[v] # gen[v] => lost'[v]
    <3>1. CASE task[t][v].cookie
      BY <1>1, <3>1
    <3>2. CASE ~task[t][v].cookie
      <4>1. \A s \in Tabs : ~task[s][v].cookie
        BY <2>2, <3>2
      <4>2. ~lost[v] => jar[v] = gen[v]
        <5>1. TokensInStep
          BY DEF ExchangeInv, RetryInv, RefreshInv
        <5> QED BY <4>1, <5>1, Zenon DEF TokensInStep
      <4> QED BY <4>2
    <3> QED BY <3>1, <3>2
  <2>5. ~LoggedOut(v) /\ LoggedOut(v)' => revoked[v] \/ lost[v]
    BY DEF LoggedOut, NoSpuriousLogout
  <2>6. /\ LoggedOut(v)' \in BOOLEAN /\ gen'[v] = gen[v] /\ jar'[v] = jar[v]
        /\ revoked'[v] = revoked[v]
    BY DEF LoggedOut
  <2>7. Exchange(v)!End
    <3> DEFINE b == \E s \in Tabs : Refreshing(s, v)
               o == \E s \in Tabs : v \in notified[s]
    <3>1. b /\ ~b'
      BY <2>3 DEF Busy
    <3>2. /\ o => o'
          /\ o' /\ ~o => revoked[v] \/ lost[v]
          /\ o' \in BOOLEAN
      BY <2>5 DEF LoggedOut
    <3> HIDE DEF b, o
    <3>3. /\ b /\ ~b'
          /\ lost[v] => lost'[v]
          /\ jar[v] # gen[v] => lost'[v]
          /\ o => o'
          /\ o' /\ ~o => revoked[v] \/ lost[v]
          /\ lost'[v] \in BOOLEAN /\ o' \in BOOLEAN
          /\ UNCHANGED <<gen[v], jar[v], revoked[v]>>
      <4>1. lost'[v] \in BOOLEAN /\ (lost[v] => lost'[v])
        OBVIOUS
      <4>2. UNCHANGED <<gen[v], jar[v], revoked[v]>>
        BY <2>6
      <4> QED BY <2>4, <3>1, <3>2, <4>1, <4>2, Zenon
    <3> QED BY <3>3, Zenon DEF Exchange!End, b, o
  <2> QED BY <2>7 DEF Maps, Exchange!Next
<1>2. CASE ~(v \in us /\ Refreshing(t, v))
  <2>1. Busy(v)' <=> Busy(v)
    BY <1>2 DEF Busy, NoTask
  <2>2. Unseen(v)
    BY <1>2, <2>1 DEF Unseen
  <2> QED BY <2>2, UnseenStutters DEF Maps
<1> QED BY <1>1, <1>2

\* Whatever leaves the refreshes and the server alone.
LEMMA QuietMaps ==
    ASSUME UNCHANGED <<gen, jar, lost, revoked, notified>>, NEW v \in Uids,
           \A t \in Tabs, u \in Uids : Refreshing(t, u)' <=> Refreshing(t, u)
    PROVE  Maps(v)
<1>1. Unseen(v)
  BY DEF Unseen, Busy, LoggedOut
<1> QED BY <1>1, UnseenStutters DEF Maps

\* The refresh of one tab ends, by its answer or without one.
LEMMA SettleMaps ==
    ASSUME ExchangeInv, ExchangeInv', NEW t \in Tabs, NEW u \in Uids,
           EndPause(t, u) \/ FailRefresh(t, u), NEW v \in Uids
    PROVE  Maps(v)
<1>1. TypeOK /\ NoSpuriousLogout'
  BY DEF ExchangeInv, RetryInv, RefreshInv
<1>2. PICK outcome : /\ Settle(t, u, outcome)
                     /\ outcome = "error" \/ EndPause(t, u)
  BY DEF EndPause, FailRefresh
<1>3. /\ \A s \in Tabs, w \in Uids :
            task'[s][w] = IF s = t /\ w = u THEN NoTask ELSE task[s][w]
      /\ \A s \in Tabs : \A w \in notified'[s] :
            w \in notified[s] \/ (w = u /\ outcome = "fail")
  BY <1>1, <1>2, SettleUpdate
<1>4. \A s \in Tabs : notified[s] \subseteq notified'[s]
  BY <1>1, <1>2 DEF Settle, TypeOK
<1>5. UNCHANGED <<gen, jar, revoked>>
  BY DEF EndPause, FailRefresh, session
<1>6. Refreshing(t, u)
  BY DEF EndPause, FailRefresh
<1>7. \A w \in Uids :
        /\ lost'[w] \in BOOLEAN
        /\ lost[w] => lost'[w]
        /\ w \notin {u} \/ ~Refreshing(t, w) => lost'[w] = lost[w]
        /\ w \in {u} /\ task[t][w].cookie => lost'[w]
        /\ EndPause(t, u) => lost'[w] = lost[w]
  <2>1. CASE EndPause(t, u)
    BY <1>1, <2>1 DEF EndPause, TypeOK
  <2>2. CASE FailRefresh(t, u)
    <3>1. /\ lost' = [w \in Uids |-> lost[w] \/
               (w \in {u} /\ (task[t][w].phase = "posted" \/ task[t][w].cookie))]
          /\ task[t][u].phase \in {"posted", "served"}
      BY <2>2, Zenon DEF FailRefresh, Abandon
    <3>2. ~EndPause(t, u)
      BY <3>1 DEF EndPause
    <3> QED BY <1>1, <1>6, <3>1, <3>2 DEF TypeOK
  <2> QED BY <2>1, <2>2
<1>8. \A w \in Uids : LoggedOut(w) => LoggedOut(w)'
  BY <1>4 DEF LoggedOut
<1>9. \A w \in Uids : ~LoggedOut(w) /\ LoggedOut(w)' =>
        w \in {u} /\ Refreshing(t, w) /\ lost'[w] = lost[w]
  BY <1>2, <1>3, <1>6, <1>7 DEF LoggedOut
<1>10. \A s \in Tabs, w \in Uids :
          task'[s][w] = IF s = t /\ w \in {u} THEN NoTask ELSE task[s][w]
  BY <1>3
<1>11. /\ {u} \in SUBSET Uids
       /\ \A w \in Uids :
            /\ lost'[w] \in BOOLEAN
            /\ lost[w] => lost'[w]
            /\ w \notin {u} \/ ~Refreshing(t, w) => lost'[w] = lost[w]
            /\ w \in {u} /\ task[t][w].cookie => lost'[w]
  BY <1>7
<1> QED BY <1>1, <1>5, <1>8, <1>9, <1>10, <1>11, EndMaps

\* A tab that closes cuts its exchanges short.
LEMMA CloseTabMaps ==
    ASSUME ExchangeInv, ExchangeInv', NEW t \in Tabs, CloseTab(t),
           NEW v \in Uids
    PROVE  Maps(v)
<1>1. TypeOK /\ NoSpuriousLogout' /\ LockHeld
  BY DEF ExchangeInv, RetryInv, RefreshInv
<1>2. /\ task' = [task EXCEPT ![t] = [u \in Uids |-> NoTask]]
      /\ UNCHANGED <<gen, jar, revoked, notified>>
      /\ lost' = [u \in Uids |-> lost[u] \/
            (u \in Uids /\ (task[t][u].phase = "posted" \/ task[t][u].cookie))]
  BY Zenon DEF CloseTab, Abandon, session
<1>3. \A s \in Tabs, w \in Uids :
         task'[s][w] = IF s = t /\ w \in Uids THEN NoTask ELSE task[s][w]
  BY <1>1, <1>2 DEF TypeOK
<1>4. \A w \in Uids :
        /\ lost'[w] \in BOOLEAN
        /\ lost[w] => lost'[w]
        /\ w \notin Uids \/ ~Refreshing(t, w) => lost'[w] = lost[w]
        /\ w \in Uids /\ task[t][w].cookie => lost'[w]
  BY <1>1, <1>2 DEF TypeOK, LockHeld
<1>5. \A w \in Uids : LoggedOut(w)' <=> LoggedOut(w)
  BY <1>2 DEF LoggedOut
<1> QED BY <1>1, <1>2, <1>3, <1>4, <1>5, EndMaps

\* An abandoned request may still rotate the token of a session that lost one.
LEMMA ServeOrphanMaps ==
    ASSUME ExchangeInv, NEW u \in Uids, ServeOrphan(u), NEW v \in Uids
    PROVE  Maps(v) /\ CookieBehind'
<1>1. TypeOK /\ lost[u]
  BY DEF ServeOrphan, ExchangeInv, RetryInv, RefreshInv, TokensInStep
<1>2. UNCHANGED <<task, jar, lost, revoked, notified>>
  BY DEF ServeOrphan, Rotate, session
<1>3. \/ UNCHANGED gen
      \/ gen' = [gen EXCEPT ![u] = @ + 1]
  BY DEF ServeOrphan, Rotate, session
<1>4. /\ \A w \in Uids \ {u} : gen'[w] = gen[w]
      /\ gen'[u] = gen[u] \/ gen'[u] = gen[u] + 1
      /\ \A w \in Uids : gen[w] \in Nat
  BY <1>1, <1>3 DEF TypeOK
<1>5. ASSUME v = u, gen'[u] = gen[u] + 1 PROVE Maps(v)
  <2>1. (\E s \in Tabs : Refreshing(s, u))' = (\E s \in Tabs : Refreshing(s, u))
    BY <1>2
  <2>2. Exchange(u)!Rotate
    BY <1>1, <1>2, <1>5, <2>1 DEF Exchange!Rotate
  <2> QED BY <1>5, <2>2 DEF Maps, Exchange!Next
<1>6. ASSUME v # u \/ gen'[u] = gen[u] PROVE Maps(v)
  <2>1. Unseen(v)
    BY <1>2, <1>4, <1>6 DEF Unseen, Busy, LoggedOut
  <2> QED BY <2>1, UnseenStutters DEF Maps
<1>7. CookieBehind'
  <2> SUFFICES ASSUME NEW s \in Tabs, NEW w \in Uids, task[s][w].cookie
               PROVE  task[s][w].token < gen'[w]
    BY <1>2 DEF CookieBehind
  <2>1. task[s][w].token < gen[w] /\ task[s][w].token \in Nat
    BY <1>1, TaskType DEF ExchangeInv, CookieBehind, TaskRecord
  <2> QED BY <1>4, <2>1
<1> QED BY <1>4, <1>5, <1>6, <1>7

\* The end of a session on the server.
LEMMA RevokeMaps ==
    ASSUME ExchangeInv, NEW u \in Uids, Revoke(u), NEW v \in Uids
    PROVE  Maps(v)
<1>1. TypeOK
  BY DEF ExchangeInv, RetryInv, RefreshInv
<1>2. /\ UNCHANGED <<task, gen, jar, lost, notified>>
      /\ ~revoked[u] /\ revoked' = [revoked EXCEPT ![u] = TRUE]
  BY DEF Revoke
<1>3. \A w \in Uids : revoked'[w] = IF w = u THEN TRUE ELSE revoked[w]
  BY <1>1, <1>2 DEF TypeOK
<1>4. CASE v = u
  <2>1. (\E s \in Tabs : Refreshing(s, u))' = (\E s \in Tabs : Refreshing(s, u))
    BY <1>2
  <2>2. (\E s \in Tabs : u \in notified[s])' = (\E s \in Tabs : u \in notified[s])
    BY <1>2
  <2>3. Exchange(u)!Revoke
    BY <1>2, <1>3, <2>1, <2>2 DEF Exchange!Revoke
  <2> QED BY <1>4, <2>3 DEF Maps, Exchange!Next
<1>5. CASE v # u
  <2>1. Unseen(v)
    BY <1>2, <1>3, <1>5 DEF Unseen, Busy, LoggedOut
  <2> QED BY <2>1, UnseenStutters DEF Maps
<1> QED BY <1>4, <1>5

\* The steps of a call do not concern any exchange.
LEMMA CallMaps ==
    ASSUME ExchangeInv, NEW c \in Calls,
           CallStep(c) \/ \E u \in Uids \cup {NoUid} : Begin(c, u)
    PROVE  CookieBehind' /\ \A v \in Uids : Maps(v)
<1>1. TypeOK
  BY DEF ExchangeInv, RetryInv, RefreshInv
<1>2. UNCHANGED <<gen, jar, lost, revoked, notified>>
  BY Zenon DEF CallStep, Begin, Serve, Receive, Timeout, session
<1>3. \A t \in Tabs, u \in Uids :
         /\ Refreshing(t, u)' <=> Refreshing(t, u)
         /\ task'[t][u].token = task[t][u].token
         /\ task'[t][u].cookie = task[t][u].cookie
  <2>1. CASE task' = task
    BY <2>1
  <2>2. CASE task' # task
    <3>1. Receive(c)
      BY <2>2, Zenon DEF CallStep, Begin, Serve, Timeout
    <3>2. /\ task' = [task EXCEPT ![TabOf[c]][call[c].uid].phase = "queued"]
          /\ ~Pending(TabOf[c], call[c].uid) /\ call[c].uid # NoUid
      BY <2>2, <3>1 DEF Receive
    <3>3. call[c].uid \in Uids /\ TabOf[c] \in Tabs
      BY <1>1, <3>2, CallType, TabOfAssumption DEF CallRecord
    <3> DEFINE q == task[TabOf[c]][call[c].uid]
               r == [q EXCEPT !.phase = "queued"]
    <3>4. r.phase = "queued" /\ r.token = q.token /\ r.cookie = q.cookie
      BY <1>1, <3>3, TaskType DEF TaskRecord
    <3>5. q.phase = "none" /\ task' = [task EXCEPT ![TabOf[c]][call[c].uid] = r]
      BY <3>2 DEF Pending
    <3> HIDE DEF r
    <3>6. \A t \in Tabs, u \in Uids :
             task'[t][u] = IF t = TabOf[c] /\ u = call[c].uid THEN r
                           ELSE task[t][u]
      BY <1>1, <3>3, <3>5 DEF TypeOK
    <3> QED BY <3>4, <3>5, <3>6
  <2> QED BY <2>1, <2>2
<1>4. CookieBehind'
  BY <1>2, <1>3 DEF ExchangeInv, CookieBehind
<1> QED BY <1>2, <1>3, <1>4, QuietMaps

\* Every step is a step of the exchange of each session, or none.
LEMMA ExchangeStep ==
    ASSUME ExchangeInv, [Next]_vars
    PROVE  ExchangeInv' /\ \A v \in Uids : Maps(v)
<1>1. RetryInv' /\ TypeOK
  BY RetryStep DEF ExchangeInv, RetryInv, RefreshInv
<1>2. ASSUME NEW c \in Calls,
             CallStep(c) \/ \E u \in Uids \cup {NoUid} : Begin(c, u)
      PROVE  CookieBehind' /\ \A v \in Uids : Maps(v)
  BY <1>2, CallMaps
<1>3. ASSUME NEW t \in Tabs, NEW u \in Uids, RefreshStep(t, u)
      PROVE  CookieBehind' /\ \A v \in Uids : Maps(v)
  <2>1. CASE Grant(t, u)
    <3> DEFINE r == [task[t][u] EXCEPT !.phase = "posted", !.token = jar[u]]
    <3>1. r.cookie = task[t][u].cookie /\ UNCHANGED gen
      BY <1>1, <2>1, TaskType DEF Grant, TaskRecord, session
    <3>2. ~task[t][u].cookie
      BY <2>1 DEF Grant, ExchangeInv, RetryInv, RefreshInv, LockHeld
    <3>3. task' = [task EXCEPT ![t][u] = r]
      BY <2>1 DEF Grant
    <3> HIDE DEF r
    <3>4. \A t2 \in Tabs, u2 \in Uids :
             task'[t2][u2] = IF t2 = t /\ u2 = u THEN r ELSE task[t2][u2]
      BY <1>1, <3>3 DEF TypeOK
    <3>5. CookieBehind'
      BY <3>1, <3>2, <3>4 DEF ExchangeInv, CookieBehind
    <3> QED BY <2>1, <3>5, GrantMaps
  <2>2. CASE ServeRefresh(t, u)
    BY <2>2, ServeRefreshMaps
  <2>3. CASE StoreCookie(t, u)
    BY <2>3, StoreCookieMaps
  <2>4. CASE ReceiveRefresh(t, u)
    <3> DEFINE r == [task[t][u] EXCEPT !.phase = "settling"]
    <3>1. /\ r.cookie = task[t][u].cookie /\ r.token = task[t][u].token
          /\ r.phase = "settling" /\ task[t][u].phase = "served"
      BY <1>1, <2>4, TaskType DEF ReceiveRefresh, TaskRecord
    <3>2. UNCHANGED <<gen, jar, lost, revoked, notified>>
      BY <2>4 DEF ReceiveRefresh, session
    <3>3. task' = [task EXCEPT ![t][u] = r]
      BY <2>4 DEF ReceiveRefresh
    <3> HIDE DEF r
    <3>4. \A t2 \in Tabs, u2 \in Uids :
             task'[t2][u2] = IF t2 = t /\ u2 = u THEN r ELSE task[t2][u2]
      BY <1>1, <3>3 DEF TypeOK
    <3>5. CookieBehind'
      BY <3>1, <3>2, <3>4 DEF ExchangeInv, CookieBehind
    <3>6. \A t2 \in Tabs, u2 \in Uids :
             Refreshing(t2, u2)' <=> Refreshing(t2, u2)
      BY <3>1, <3>4
    <3> QED BY <3>2, <3>5, <3>6, QuietMaps
  <2>5. CASE EndPause(t, u) \/ FailRefresh(t, u)
    <3>1. \A t2 \in Tabs, u2 \in Uids :
             task'[t2][u2] = IF t2 = t /\ u2 = u THEN NoTask ELSE task[t2][u2]
      BY <1>1, <2>5, SettleUpdate DEF EndPause, FailRefresh
    <3>2. UNCHANGED gen
      BY <2>5, Zenon DEF EndPause, FailRefresh, session
    <3>3. CookieBehind'
      BY <3>1, <3>2 DEF ExchangeInv, CookieBehind, NoTask
    <3> QED BY <1>1, <2>5, <3>3, SettleMaps DEF ExchangeInv
  <2> QED BY <1>3, <2>1, <2>2, <2>3, <2>4, <2>5 DEF RefreshStep
<1>4. ASSUME NEW t \in Tabs, CloseTab(t)
      PROVE  CookieBehind' /\ \A v \in Uids : Maps(v)
  <2>1. /\ task' = [task EXCEPT ![t] = [u \in Uids |-> NoTask]]
        /\ UNCHANGED gen
    BY <1>4, Zenon DEF CloseTab, session
  <2>2. \A s \in Tabs, u \in Uids :
           task'[s][u] = IF s = t THEN NoTask ELSE task[s][u]
    BY <1>1, <2>1 DEF TypeOK
  <2>3. CookieBehind'
    BY <2>1, <2>2 DEF ExchangeInv, CookieBehind, NoTask
  <2> QED BY <1>1, <1>4, <2>3, CloseTabMaps DEF ExchangeInv
<1>5. ASSUME NEW u \in Uids, ServeOrphan(u)
      PROVE  CookieBehind' /\ \A v \in Uids : Maps(v)
  BY <1>5, ServeOrphanMaps
<1>6. ASSUME NEW u \in Uids, Revoke(u)
      PROVE  CookieBehind' /\ \A v \in Uids : Maps(v)
  <2>1. CookieBehind'
    BY <1>6 DEF Revoke, ExchangeInv, CookieBehind
  <2> QED BY <1>6, <2>1, RevokeMaps
<1>7. CASE UNCHANGED <<task, gen, jar, lost, revoked, notified>>
  <2>1. CookieBehind'
    BY <1>7 DEF ExchangeInv, CookieBehind
  <2> QED BY <1>1, <1>7, <2>1, QuietMaps DEF ExchangeInv
<1>8. \/ \E u \in Uids : Expire(u)
      \/ \E t \in Tabs, u \in Uids : SetUid(t, u)
      \/ UNCHANGED vars
      => UNCHANGED <<task, gen, jar, lost, revoked, notified>>
  BY DEF Expire, SetUid, vars, session
<1> QED BY <1>1, <1>2, <1>3, <1>4, <1>5, <1>6, <1>7, <1>8
        DEF Next, ExchangeInv

\* The exchange of each session starts with the tokens in step.
LEMMA ExchangeInit ==
    ASSUME Init PROVE ExchangeInv /\ \A u \in Uids : Exchange(u)!Init
<1>1. \A t \in Tabs, u \in Uids : task[t][u] = NoTask
  BY DEF Init
<1>2. CookieBehind
  BY <1>1 DEF CookieBehind, NoTask
<1>3. ASSUME NEW u \in Uids PROVE Exchange(u)!Init
  <2>1. \A t \in Tabs : ~Refreshing(t, u) /\ u \notin notified[t]
    <3>1. \A t \in Tabs : notified[t] = {}
      BY DEF Init
    <3>2. NoTask.phase = "none"
      BY DEF NoTask
    <3> QED BY <1>1, <3>1, <3>2
  <2>2. gen[u] = 0 /\ jar[u] = 0 /\ ~lost[u] /\ ~revoked[u]
    BY DEF Init
  <2> QED BY <2>1, <2>2 DEF Exchange!Init
<1> QED BY <1>2, <1>3, RetryInit DEF ExchangeInv

\* For any number of tabs and calls, the refreshes of a session are together the
\* exchange SessionToken promises: one at a time, the jar behind the server by
\* at most one, and given up only with cause.
THEOREM TabsExchangeAsOne == Spec => ImplementsExchange
<1>1. Init => ExchangeInv /\ \A u \in Uids : Exchange(u)!Init
  BY ExchangeInit
<1>2. ExchangeInv /\ [Next]_vars => ExchangeInv'
  BY ExchangeStep
<1>3. ExchangeInv /\ [Next]_vars
        => \A u \in Uids : [Exchange(u)!Next]_(Exchange(u)!vars)
  BY ExchangeStep DEF Maps
<1> QED BY <1>1, <1>2, <1>3, PTL DEF Spec, ImplementsExchange
=============================================================================
