--------------------------- MODULE OnlineObserver ---------------------------
(***************************************************************************)
(* OnlineObserver.ts of @proton/react-utils: browser events, pings and     *)
(* three timers decide what its listeners are shown.                       *)
(*                                                                         *)
(* Its callbacks run one at a time, each to its end: the operators on      *)
(* observer records are its methods, and an action is a callback.  Time is *)
(* counted in ticks, and a timer holds the ticks it has left.  The browser *)
(* and the pinged server are external.                                     *)
(***************************************************************************)
EXTENDS Naturals

CONSTANTS MaxListeners,
          OfflineDelay, RetryInterval, BackOnlineDuration, \* ticks
          Off             \* a timer that is not running

ASSUME DelayAssumption ==
    /\ MaxListeners \in Nat \ {0}
    /\ {OfflineDelay, RetryInterval, BackOnlineDuration} \subseteq Nat \ {0}
ASSUME OffAssumption == Off \notin Nat

VARIABLES
    o,          \* the observer's fields
    listeners,  \* how many there are
    browser,    \* navigator.onLine
    event,      \* whether an online or offline event is on its way
    reachable,  \* whether the pinged server can be reached
    unsafe      \* history: the ticks for which the connection was seen as lost

vars == <<o, listeners, browser, event, reachable, unsafe>>

Max2(m, n) == IF m > n THEN m ELSE n
Min2(m, n) == IF m < n THEN m ELSE n
Longest == Max2(OfflineDelay, Max2(RetryInterval, BackOnlineDuration))
Timer == {Off} \cup 0 .. Longest
Status == [isOnline : BOOLEAN, isBackOnline : BOOLEAN]
Observer ==
    [navigatorOnline : BOOLEAN, pingOffline : BOOLEAN, lastSafe : BOOLEAN,
     isOnline : BOOLEAN, isBackOnline : BOOLEAN, snapshot : Status,
     debounce : Timer, retry : Timer, backOnline : Timer,
     isPinging : BOOLEAN,
     known    : Status]  \* what the listeners last read

Init ==
    /\ browser \in BOOLEAN /\ reachable \in BOOLEAN
    /\ event = FALSE /\ listeners = 0 /\ unsafe = 0
    /\ o = LET s == [isOnline |-> browser, isBackOnline |-> FALSE]
           IN  [navigatorOnline |-> browser, pingOffline |-> FALSE,
                lastSafe |-> browser, isOnline |-> browser, isBackOnline |-> FALSE,
                snapshot |-> s, debounce |-> Off, retry |-> Off,
                backOnline |-> Off, isPinging |-> FALSE, known |-> s]

-----------------------------------------------------------------------------
(* The observer's methods.                                                 *)

StatusOf(r) == [isOnline |-> r.isOnline, isBackOnline |-> r.isBackOnline]

\* Variant: listeners are told only whether they are online.
PublishOnline(r, notify) ==
    [r EXCEPT !.snapshot = StatusOf(r),
              !.known = IF notify /\ r.isOnline # r.snapshot.isOnline
                        THEN StatusOf(r) ELSE @]

\* Listeners read the new snapshot when they are notified of a change.
Publish(r, notify) ==
    [r EXCEPT !.snapshot = StatusOf(r),
              !.known = IF notify THEN StatusOf(r) ELSE @]

ClearTransition(r) == [r EXCEPT !.retry = Off, !.backOnline = Off]

\* Variant: pings are not repeated.
SetOnlineNoRetry(r, isOnline) ==
    IF isOnline = r.isOnline THEN r
    ELSE LET s == [ClearTransition(r) EXCEPT !.isOnline = isOnline]
         IN  Publish(IF isOnline THEN [s EXCEPT !.isBackOnline = TRUE,
                                                !.backOnline = BackOnlineDuration]
                     ELSE s, TRUE)

SetOnline(r, isOnline) ==
    IF isOnline = r.isOnline THEN r
    ELSE LET s == [ClearTransition(r) EXCEPT !.isOnline = isOnline]
         IN  Publish(IF isOnline THEN [s EXCEPT !.isBackOnline = TRUE,
                                                !.backOnline = BackOnlineDuration]
                     ELSE [s EXCEPT !.retry = RetryInterval], TRUE)

\* Variant: a pending change to offline is not cancelled.
ApplySafeOnlineUncancelled(r) ==
    LET safe == r.navigatorOnline /\ ~r.pingOffline
        s == [r EXCEPT !.lastSafe = safe]
    IN  IF safe = r.lastSafe THEN r
        ELSE IF safe THEN SetOnline(s, TRUE) ELSE [s EXCEPT !.debounce = OfflineDelay]

\* Going online is immediate, going offline waits for OfflineDelay.
ApplySafeOnline(r) ==
    LET safe == r.navigatorOnline /\ ~r.pingOffline
        s == [r EXCEPT !.lastSafe = safe, !.debounce = Off]
    IN  IF safe = r.lastSafe THEN r
        ELSE IF safe THEN SetOnline(s, TRUE) ELSE [s EXCEPT !.debounce = OfflineDelay]

SetPingOffline(r, pingOffline) ==
    IF listeners = 0 \/ pingOffline = r.pingOffline THEN r
    ELSE ApplySafeOnline([r EXCEPT !.pingOffline = pingOffline])

\* A ping that was not answered yet is not repeated.
HandlePing(r) == [r EXCEPT !.isPinging = TRUE]

\* The observer starts from what the browser says; nobody is notified.
Start(r) ==
    Publish([r EXCEPT !.pingOffline = FALSE, !.navigatorOnline = browser,
                      !.lastSafe = browser, !.isOnline = browser,
                      !.isBackOnline = FALSE,
                      !.retry = IF browser THEN @ ELSE RetryInterval], FALSE)

\* A ping that is under way goes on: its verdict is for whoever listens then.
Stop(r) == [ClearTransition(r) EXCEPT !.debounce = Off]

-----------------------------------------------------------------------------
(* Its callbacks.                                                          *)

\* History: a connection that is seen as working was not lost any longer.
Watch == unsafe' = IF o'.lastSafe \/ listeners' = 0 THEN 0 ELSE unsafe

\* A listener reads the snapshot as it subscribes.
Subscribe ==
    /\ listeners < MaxListeners
    /\ listeners' = listeners + 1
    /\ LET r == IF listeners = 0 THEN Start(o) ELSE o
       IN  o' = [r EXCEPT !.known = IF listeners = 0 THEN r.snapshot ELSE @]
    /\ UNCHANGED <<browser, event, reachable>> /\ Watch

Unsubscribe ==
    /\ listeners > 0
    /\ listeners' = listeners - 1
    /\ o' = IF listeners = 1 THEN Stop(o) ELSE o
    /\ UNCHANGED <<browser, event, reachable>> /\ Watch

HandleBrowserEvent ==
    /\ event /\ event' = FALSE
    /\ o' = IF listeners = 0 THEN o
            ELSE ApplySafeOnline([o EXCEPT !.navigatorOnline = browser])
    /\ UNCHANGED <<listeners, browser, reachable>> /\ Watch

\* A ping is answered, or fails.
PingAnswered ==
    /\ o.isPinging
    /\ o' = [SetPingOffline(o, ~reachable) EXCEPT !.isPinging = FALSE]
    /\ UNCHANGED <<listeners, browser, event, reachable>> /\ Watch

DebounceFires ==
    /\ o.debounce = 0
    /\ o' = SetOnline([o EXCEPT !.debounce = Off], FALSE)
    /\ UNCHANGED <<listeners, browser, event, reachable>> /\ Watch

RetryFires ==
    /\ o.retry = 0
    /\ o' = HandlePing([o EXCEPT !.retry = RetryInterval])
    /\ UNCHANGED <<listeners, browser, event, reachable>> /\ Watch

\* The banner goes, and a ping confirms that the connection works.
BackOnlineFires ==
    /\ o.backOnline = 0
    /\ o' = Publish(HandlePing([o EXCEPT !.backOnline = Off,
                                         !.isBackOnline = FALSE]), TRUE)
    /\ UNCHANGED <<listeners, browser, event, reachable>> /\ Watch

Due == 0 \in {o.debounce, o.retry, o.backOnline}

\* A tick passes once the timers that are due have fired.
Later(t) == IF t = Off THEN Off ELSE t - 1
Tick ==
    /\ ~Due /\ listeners > 0
    /\ o' = [o EXCEPT !.debounce = Later(@), !.retry = Later(@),
                      !.backOnline = Later(@)]
    /\ unsafe' = IF o.lastSafe THEN 0 ELSE Min2(unsafe + 1, OfflineDelay)
    /\ UNCHANGED <<listeners, browser, event, reachable>>

\* The browser changes its mind, and tells so later.
BrowserChanges ==
    /\ browser' = ~browser /\ event' = TRUE
    /\ UNCHANGED <<o, listeners, reachable>> /\ Watch

ServerChanges ==
    /\ reachable' = ~reachable
    /\ UNCHANGED <<o, listeners, browser, event>> /\ Watch

Next ==
    \/ Subscribe \/ Unsubscribe \/ HandleBrowserEvent \/ PingAnswered
    \/ DebounceFires \/ RetryFires \/ BackOnlineFires
    \/ BrowserChanges \/ ServerChanges \/ Tick

Spec == Init /\ [][Next]_vars

(* Timers fire, events are delivered and pings are answered or fail; nobody *)
(* has to subscribe, and the network never has to change.                   *)
Fairness ==
    /\ WF_vars(Tick) /\ WF_vars(HandleBrowserEvent)
    /\ WF_vars(PingAnswered) /\ WF_vars(DebounceFires)
    /\ WF_vars(RetryFires) /\ WF_vars(BackOnlineFires)

FairSpec == Spec /\ Fairness

-----------------------------------------------------------------------------
\* Every variable keeps its type.
TypeOK ==
    /\ o \in Observer
    /\ listeners \in 0 .. MaxListeners
    /\ browser \in BOOLEAN /\ event \in BOOLEAN /\ reachable \in BOOLEAN
    /\ unsafe \in 0 .. OfflineDelay

\* A change is never forgotten: while there are listeners, an observer that is
\* not yet offline has its timer running, one that is offline keeps pinging, the
\* banner is shown only while the timer that ends it runs ("True for
\* backOnlineDuration"), and without listeners no timer runs.
TimersMatchStatus ==
    /\ TypeOK
    /\ IF listeners = 0 THEN {o.debounce, o.retry, o.backOnline} = {Off}
       ELSE /\ o.isOnline /\ ~o.lastSafe <=> o.debounce # Off
            /\ o.lastSafe => o.isOnline
            /\ ~o.isOnline <=> o.retry # Off
            /\ o.isBackOnline => o.backOnline # Off

\* Offline is reported only after the connection was lost for OfflineDelay.
OfflineIsDebounced ==
    [][o.isOnline /\ ~o'.isOnline /\ listeners > 0 => unsafe = OfflineDelay]_vars

\* Listeners always know the snapshot: no change goes without a notification.
ListenersKnow == listeners > 0 => o.known = o.snapshot

\* A connection that works again for good is reported, and its banner ends.
Works == browser /\ reachable /\ listeners > 0
BackOnline == <>[]Works => <>[](o.snapshot.isOnline /\ ~o.snapshot.isBackOnline)
=============================================================================
