----------------------- MODULE OnlineObserver_proofs -----------------------
(***************************************************************************)
(* That the observer's timers follow its status, that offline is reported  *)
(* only after the whole delay, and that listeners know what is reported:   *)
(* for any delays and any number of listeners.                             *)
(***************************************************************************)
EXTENDS OnlineObserver, TLAPS

\* The constructor's defaults are 2 s and 5 s.  With a longer banner a loss can be
\* reported while the banner shows, and its timer is cleared without hiding it.
BannerIsShorter == BackOnlineDuration < OfflineDelay

-----------------------------------------------------------------------------
(* The inductive invariant.                                                *)

\* The timers of an observer that has listeners.
TimersFollow(r) ==
    /\ r.isOnline /\ ~r.lastSafe <=> r.debounce # Off
    /\ r.lastSafe => r.isOnline
    /\ ~r.isOnline <=> r.retry # Off
    /\ r.backOnline # Off => r.backOnline =< BackOnlineDuration

\* The banner has its timer, and is gone before a loss is reported.
BannerHasTimer(r) ==
    /\ r.isBackOnline => r.backOnline # Off
    /\ r.isBackOnline /\ r.debounce # Off => r.backOnline < r.debounce

\* The snapshot is what the fields say, and the listeners have read it.
Told(r) == r.snapshot = StatusOf(r) /\ r.known = r.snapshot

\* What holds of the fields while somebody listens.
Listening(r) ==
    /\ r \in Observer
    /\ TimersFollow(r) /\ Told(r)
    /\ BannerIsShorter => BannerHasTimer(r)

\* A loss has been watched for as long as its timer has run.
Watched(r, ticks) == r.debounce # Off => r.debounce + ticks >= OfflineDelay

AllOff(r) == r.debounce = Off /\ r.retry = Off /\ r.backOnline = Off

\* Together they are kept by every step.
ObserverInv ==
    /\ TypeOK
    /\ IF listeners = 0 THEN AllOff(o) ELSE Listening(o) /\ Watched(o, unsafe)

-----------------------------------------------------------------------------
(* The methods.                                                            *)

\* The delays are values of a timer, and so are the ticks that are left of one.
LEMMA TimerFacts ==
    /\ Timer \subseteq {Off} \cup Nat /\ Off \in Timer /\ Off \notin Nat
    /\ {OfflineDelay, RetryInterval, BackOnlineDuration} \subseteq Timer \ {0, Off}
    /\ {OfflineDelay, RetryInterval, BackOnlineDuration} \subseteq Nat \ {0}
    /\ \A t \in Timer \ {Off, 0} : t - 1 \in Timer /\ t - 1 # Off /\ t - 1 < t
BY DelayAssumption, OffAssumption DEF Timer, Longest, Max2

\* A status that changes is reported, and the timers change with it.
LEMMA SetOnlineKeeps ==
    ASSUME NEW r \in Observer, NEW isOnline \in BOOLEAN,
           r.debounce = Off, Told(r),
           ~r.isOnline <=> r.retry # Off,
           r.backOnline # Off => r.backOnline =< BackOnlineDuration,
           BannerIsShorter => (r.isBackOnline => r.backOnline # Off),
           BannerIsShorter => (isOnline \/ ~r.isBackOnline),
           isOnline = r.lastSafe
    PROVE  LET s == SetOnline(r, isOnline)
           IN  /\ Listening(s) /\ s.isOnline = isOnline
               /\ s.lastSafe = r.lastSafe /\ s.debounce = Off
<1> DEFINE s == SetOnline(r, isOnline)
<1>1. CASE isOnline = r.isOnline
  <2>1. s = r
    BY <1>1 DEF SetOnline
  <2>2. Listening(r)
    BY <1>1 DEF Listening, TimersFollow, BannerHasTimer
  <2> QED BY <1>1, <2>1, <2>2
<1>2. CASE isOnline # r.isOnline
  <2> DEFINE banner == isOnline \/ r.isBackOnline
             status == [isOnline |-> isOnline, isBackOnline |-> banner]
             q == [r EXCEPT !.isOnline = isOnline, !.isBackOnline = banner,
                            !.retry = IF isOnline THEN Off ELSE RetryInterval,
                            !.backOnline = IF isOnline THEN BackOnlineDuration ELSE Off,
                            !.snapshot = status, !.known = status]
  <2>1. s = q
    BY <1>2 DEF SetOnline, Publish, ClearTransition, StatusOf, Observer
  <2>2. /\ q \in Observer /\ q.isOnline = isOnline /\ q.lastSafe = r.lastSafe
        /\ q.debounce = Off /\ q.isBackOnline = banner
        /\ q.retry = IF isOnline THEN Off ELSE RetryInterval
        /\ q.backOnline = IF isOnline THEN BackOnlineDuration ELSE Off
        /\ q.snapshot = StatusOf(q) /\ q.known = q.snapshot
    <3>1. banner \in BOOLEAN
      BY DEF Observer
    <3>2. status \in Status
      BY <3>1 DEF Status
    <3>3. q \in Observer
      BY <3>1, <3>2, TimerFacts DEF Observer
    <3>4. /\ q.isOnline = isOnline /\ q.lastSafe = r.lastSafe
          /\ q.debounce = Off /\ q.isBackOnline = banner
          /\ q.retry = IF isOnline THEN Off ELSE RetryInterval
          /\ q.backOnline = IF isOnline THEN BackOnlineDuration ELSE Off
          /\ q.snapshot = status /\ q.known = status
      BY DEF Observer
    <3> QED BY <3>3, <3>4 DEF StatusOf
  <2> HIDE DEF q
  <2>3. Listening(q)
    BY <2>2, TimerFacts DEF Listening, TimersFollow, BannerHasTimer, Told
  <2> QED BY <2>1, <2>2, <2>3
<1> QED BY <1>1, <1>2

\* What the browser and the pings say starts, cancels or leaves a change; only
\* the timer of a loss reports it.
LEMMA ApplySafeOnlineKeeps ==
    ASSUME NEW r, Listening(r), NEW ticks \in Nat, Watched(r, ticks)
    PROVE  LET s == ApplySafeOnline(r)
           IN  /\ Listening(s)
               /\ Watched(s, IF s.lastSafe THEN 0 ELSE ticks)
               /\ r.isOnline => s.isOnline
<1> DEFINE s == ApplySafeOnline(r)
           safe == r.navigatorOnline /\ ~r.pingOffline
<1>1. r \in Observer /\ safe \in BOOLEAN
  BY DEF Listening, Observer
<1>2. CASE safe = r.lastSafe
  <2>1. s = r
    BY <1>2 DEF ApplySafeOnline
  <2>2. r.lastSafe => r.debounce = Off
    BY <1>1 DEF Listening, TimersFollow, Observer
  <2> QED BY <2>1, <2>2 DEF Watched
<1>3. CASE safe # r.lastSafe /\ safe
  <2> DEFINE q == [r EXCEPT !.lastSafe = safe, !.debounce = Off]
  <2>1. s = SetOnline(q, TRUE)
    BY <1>3 DEF ApplySafeOnline
  <2>2. /\ q \in Observer /\ q.lastSafe = TRUE /\ q.debounce = Off
        /\ q.isOnline = r.isOnline /\ q.isBackOnline = r.isBackOnline
        /\ q.retry = r.retry /\ q.backOnline = r.backOnline
        /\ q.snapshot = r.snapshot /\ q.known = r.known
    BY <1>1, <1>3, TimerFacts DEF Observer
  <2> HIDE DEF q
  <2>3. Told(q)
    BY <2>2 DEF Listening, Told, StatusOf
  <2>4. /\ ~q.isOnline <=> q.retry # Off
        /\ q.backOnline # Off => q.backOnline =< BackOnlineDuration
        /\ BannerIsShorter => (q.isBackOnline => q.backOnline # Off)
    BY <2>2 DEF Listening, TimersFollow, BannerHasTimer
  <2>5. /\ Listening(SetOnline(q, TRUE)) /\ SetOnline(q, TRUE).isOnline
        /\ SetOnline(q, TRUE).debounce = Off
    BY <2>2, <2>3, <2>4, SetOnlineKeeps
  <2> QED BY <2>1, <2>5 DEF Watched
<1>4. CASE safe # r.lastSafe /\ ~safe
  <2> DEFINE q == [r EXCEPT !.lastSafe = FALSE, !.debounce = OfflineDelay]
  <2>1. s = q
    BY <1>1, <1>4 DEF ApplySafeOnline, Observer
  <2>2. /\ q \in Observer /\ q.lastSafe = FALSE /\ q.debounce = OfflineDelay
        /\ q.isOnline = r.isOnline /\ q.isBackOnline = r.isBackOnline
        /\ q.retry = r.retry /\ q.backOnline = r.backOnline
        /\ q.snapshot = r.snapshot /\ q.known = r.known
    BY <1>1, TimerFacts DEF Observer
  <2>3. r.lastSafe /\ r.isOnline
    BY <1>1, <1>4 DEF Listening, TimersFollow, Observer
  <2>4. r.backOnline \in {Off} \cup Nat
    BY <1>1, TimerFacts DEF Observer
  <2> HIDE DEF q
  <2>5. Told(q)
    BY <2>2 DEF Listening, Told, StatusOf
  <2>6. TimersFollow(q)
    BY <2>2, <2>3, TimerFacts DEF Listening, TimersFollow
  <2>7. BannerIsShorter => BannerHasTimer(q)
    BY <2>2, <2>4, TimerFacts
       DEF Listening, TimersFollow, BannerHasTimer, BannerIsShorter
  <2>8. Watched(q, ticks)
    BY <2>2, TimerFacts DEF Watched
  <2> QED BY <2>1, <2>2, <2>5, <2>6, <2>7, <2>8 DEF Listening
<1> QED BY <1>1, <1>2, <1>3, <1>4

\* Fields that the timers and the reports do not concern may change freely.
Same(r, s) ==
    /\ s \in Observer /\ s.lastSafe = r.lastSafe /\ s.debounce = r.debounce
    /\ s.isOnline = r.isOnline /\ s.isBackOnline = r.isBackOnline
    /\ s.retry = r.retry /\ s.backOnline = r.backOnline
    /\ s.snapshot = r.snapshot /\ s.known = r.known

\* They leave the invariant alone.
LEMMA OtherFields ==
    ASSUME NEW r, NEW s, Listening(r), Same(r, s)
    PROVE  Listening(s) /\ \A ticks : Watched(s, ticks) <=> Watched(r, ticks)
BY DEF Same, Listening, TimersFollow, BannerHasTimer, Told, StatusOf, Watched

-----------------------------------------------------------------------------
(* The callbacks.                                                          *)

\* The history that Watch keeps is one of the loss that is seen.
LEMMA WatchKeeps ==
    ASSUME TypeOK, Watch, listeners' # 0, Listening(o'),
           Watched(o', IF o'.lastSafe THEN 0 ELSE unsafe)
    PROVE  Watched(o', unsafe')
BY DEF Watch

\* The types of the variables besides the observer.
LEMMA WatchType ==
    ASSUME TypeOK, Watch, o' \in Observer, listeners' \in 0 .. MaxListeners,
           browser' \in BOOLEAN, event' \in BOOLEAN, reachable' \in BOOLEAN
    PROVE  TypeOK'
BY DelayAssumption DEF TypeOK, Watch

\* The first listener starts the observer from the browser's hint.
LEMMA SubscribeKeeps == ASSUME ObserverInv, Subscribe PROVE ObserverInv'
<1>1. TypeOK /\ o \in Observer /\ browser \in BOOLEAN
  BY DEF ObserverInv, TypeOK
<1>2. /\ listeners' = listeners + 1 /\ listeners' \in 1 .. MaxListeners
      /\ UNCHANGED <<browser, event, reachable>> /\ Watch
  BY <1>1, DelayAssumption DEF Subscribe, TypeOK
<1>3. Listening(o') /\ Watched(o', IF o'.lastSafe THEN 0 ELSE unsafe)
  <2>1. CASE listeners = 0
    <3> DEFINE status == [isOnline |-> browser, isBackOnline |-> FALSE]
               q == [o EXCEPT !.pingOffline = FALSE, !.navigatorOnline = browser,
                              !.lastSafe = browser, !.isOnline = browser,
                              !.isBackOnline = FALSE,
                              !.retry = IF browser THEN @ ELSE RetryInterval,
                              !.snapshot = status, !.known = status]
    <3>1. o' = q
      BY <1>1, <2>1 DEF Subscribe, Start, Publish, StatusOf, Observer
    <3>2. AllOff(o)
      BY <2>1 DEF ObserverInv
    <3>3. /\ q \in Observer /\ q.lastSafe = browser /\ q.isOnline = browser
          /\ q.isBackOnline = FALSE /\ q.debounce = Off /\ q.backOnline = Off
          /\ q.retry = IF browser THEN Off ELSE RetryInterval
          /\ q.snapshot = StatusOf(q) /\ q.known = q.snapshot
      <4>1. status \in Status
        BY <1>1 DEF Status
      <4>2. q \in Observer
        BY <1>1, <4>1, TimerFacts DEF Observer
      <4>3. /\ q.lastSafe = browser /\ q.isOnline = browser
            /\ q.isBackOnline = FALSE /\ q.debounce = Off /\ q.backOnline = Off
            /\ q.retry = IF browser THEN Off ELSE RetryInterval
            /\ q.snapshot = status /\ q.known = status
        BY <1>1, <3>2 DEF AllOff, Observer
      <4> QED BY <4>2, <4>3 DEF StatusOf
    <3> HIDE DEF q
    <3>4. Listening(q)
      BY <3>3, TimerFacts DEF Listening, TimersFollow, BannerHasTimer, Told
    <3> QED BY <3>1, <3>3, <3>4 DEF Watched
  <2>2. CASE listeners # 0
    <3>1. o' = o
      BY <1>1, <2>2 DEF Subscribe, Observer
    <3>2. o.lastSafe => o.debounce = Off
      BY <1>1, <2>2 DEF ObserverInv, Listening, TimersFollow, Observer
    <3> QED BY <2>2, <3>1, <3>2 DEF ObserverInv, Watched
  <2> QED BY <2>1, <2>2
<1>4. listeners' # 0
  BY <1>2
<1>5. TypeOK'
  BY <1>1, <1>2, <1>3, WatchType DEF Listening, TypeOK
<1> QED BY <1>1, <1>2, <1>3, <1>4, <1>5, WatchKeeps DEF ObserverInv

\* The last listener takes all timers with it.
LEMMA UnsubscribeKeeps == ASSUME ObserverInv, Unsubscribe PROVE ObserverInv'
<1>1. TypeOK /\ o \in Observer
  BY DEF ObserverInv, TypeOK
<1>2. /\ listeners > 0 /\ listeners' = listeners - 1 /\ listeners' \in 0 .. MaxListeners
      /\ UNCHANGED <<browser, event, reachable>> /\ Watch
  BY <1>1, DelayAssumption DEF Unsubscribe, TypeOK
<1>3. CASE listeners = 1
  <2> DEFINE q == [o EXCEPT !.debounce = Off, !.retry = Off, !.backOnline = Off]
  <2>1. o' = q
    BY <1>1, <1>3 DEF Unsubscribe, Stop, ClearTransition, Observer
  <2>2. q \in Observer /\ AllOff(q)
    BY <1>1, TimerFacts DEF Observer, AllOff
  <2> HIDE DEF q
  <2>3. TypeOK'
    BY <1>1, <1>2, <2>1, <2>2, WatchType DEF TypeOK
  <2>4. listeners' = 0
    BY <1>2, <1>3
  <2> QED BY <2>1, <2>2, <2>3, <2>4 DEF ObserverInv
<1>4. CASE listeners # 1
  <2>1. o' = o /\ listeners # 0 /\ listeners' # 0
    BY <1>1, <1>2, <1>4 DEF Unsubscribe, TypeOK
  <2>2. o.lastSafe => o.debounce = Off
    BY <1>1, <2>1 DEF ObserverInv, Listening, TimersFollow, Observer
  <2>3. TypeOK'
    BY <1>1, <1>2, <2>1, WatchType DEF TypeOK
  <2>4. Watched(o', IF o'.lastSafe THEN 0 ELSE unsafe)
    BY <2>1, <2>2 DEF ObserverInv, Watched
  <2> QED BY <1>1, <1>2, <2>1, <2>3, <2>4, WatchKeeps DEF ObserverInv
<1> QED BY <1>3, <1>4

\* A callback that leaves the listeners alone keeps the invariant if the fields
\* it leaves are right.
LEMMA CallbackKeeps ==
    ASSUME ObserverInv, Watch, UNCHANGED listeners,
           browser' \in BOOLEAN, event' \in BOOLEAN, reachable' \in BOOLEAN,
           IF listeners = 0 THEN o' \in Observer /\ AllOff(o')
           ELSE Listening(o') /\ Watched(o', IF o'.lastSafe THEN 0 ELSE unsafe)
    PROVE  ObserverInv'
<1>1. o' \in Observer /\ TypeOK
  BY DEF ObserverInv, Listening
<1>2. TypeOK'
  BY <1>1, WatchType DEF TypeOK
<1>3. CASE listeners = 0
  BY <1>2, <1>3 DEF ObserverInv
<1>4. CASE listeners # 0
  BY <1>1, <1>2, <1>4, WatchKeeps DEF ObserverInv
<1> QED BY <1>3, <1>4

\* The browser's hint, or the verdict of a ping, reaches an observer.
LEMMA HintKeeps ==
    ASSUME ObserverInv, listeners # 0, NEW r, Same(o, r)
    PROVE  LET s == ApplySafeOnline(r)
           IN  /\ Listening(s) /\ Watched(s, IF s.lastSafe THEN 0 ELSE unsafe)
               /\ o.isOnline => s.isOnline
<1>1. Listening(o) /\ Watched(o, unsafe) /\ unsafe \in Nat
  BY DelayAssumption DEF ObserverInv, TypeOK
<1>2. Listening(r) /\ Watched(r, unsafe) /\ r.isOnline = o.isOnline
  BY <1>1, OtherFields DEF Same
<1> QED BY <1>1, <1>2, ApplySafeOnlineKeeps

\* An event is ignored when nobody listens.
LEMMA HandleBrowserEventKeeps ==
    ASSUME ObserverInv, HandleBrowserEvent
    PROVE  ObserverInv' /\ (listeners # 0 /\ o.isOnline => o'.isOnline)
<1>1. o \in Observer /\ browser \in BOOLEAN /\ reachable \in BOOLEAN
  BY DEF ObserverInv, TypeOK
<1>2. event' = FALSE /\ UNCHANGED <<listeners, browser, reachable>> /\ Watch
  BY DEF HandleBrowserEvent
<1>3. CASE listeners = 0
  <2>1. o' = o
    BY <1>3 DEF HandleBrowserEvent
  <2> QED BY <1>1, <1>2, <1>3, <2>1, CallbackKeeps DEF ObserverInv
<1>4. CASE listeners # 0
  <2> DEFINE r == [o EXCEPT !.navigatorOnline = browser]
  <2>1. o' = ApplySafeOnline(r)
    BY <1>4 DEF HandleBrowserEvent
  <2>2. Same(o, r)
    BY <1>1 DEF Same, Observer
  <2> HIDE DEF r
  <2>3. /\ Listening(o') /\ Watched(o', IF o'.lastSafe THEN 0 ELSE unsafe)
        /\ o.isOnline => o'.isOnline
    BY <1>4, <2>1, <2>2, HintKeeps
  <2> QED BY <1>1, <1>2, <1>4, <2>3, CallbackKeeps
<1> QED BY <1>3, <1>4

\* So is the verdict of a ping; one that says nothing new changes nothing.
LEMMA PingAnsweredKeeps ==
    ASSUME ObserverInv, PingAnswered
    PROVE  ObserverInv' /\ (listeners # 0 /\ o.isOnline => o'.isOnline)
<1>1. /\ o \in Observer /\ browser \in BOOLEAN /\ event \in BOOLEAN
      /\ reachable \in BOOLEAN /\ unsafe \in Nat
  BY DelayAssumption DEF ObserverInv, TypeOK
<1>2. UNCHANGED <<listeners, browser, event, reachable>> /\ Watch
  BY DEF PingAnswered
<1> DEFINE s == SetPingOffline(o, ~reachable)
<1>3. o' = [s EXCEPT !.isPinging = FALSE]
  BY DEF PingAnswered
<1>4. CASE listeners = 0
  <2>1. s = o
    BY <1>4 DEF SetPingOffline
  <2>2. o' \in Observer /\ AllOff(o')
    BY <1>1, <1>3, <1>4, <2>1 DEF ObserverInv, AllOff, Observer
  <2> QED BY <1>1, <1>2, <1>4, <2>2, CallbackKeeps
<1>5. CASE listeners # 0
  <2>1. /\ Listening(s) /\ Watched(s, IF s.lastSafe THEN 0 ELSE unsafe)
        /\ o.isOnline => s.isOnline
    <3>1. CASE o.pingOffline = ~reachable
      <4>1. s = o
        BY <3>1 DEF SetPingOffline
      <4>2. o.lastSafe => o.debounce = Off
        BY <1>1, <1>5 DEF ObserverInv, Listening, TimersFollow, Observer
      <4> QED BY <1>5, <4>1, <4>2 DEF ObserverInv, Watched
    <3>2. CASE o.pingOffline # ~reachable
      <4> DEFINE r == [o EXCEPT !.pingOffline = ~reachable]
      <4>1. s = ApplySafeOnline(r)
        BY <1>5, <3>2 DEF SetPingOffline
      <4>2. Same(o, r)
        BY <1>1 DEF Same, Observer
      <4> HIDE DEF r
      <4> QED BY <1>5, <4>1, <4>2, HintKeeps
    <3> QED BY <3>1, <3>2
  <2>2. s \in Observer
    BY <2>1 DEF Listening
  <2> HIDE DEF s
  <2>3. Same(s, o')
    BY <1>3, <2>2 DEF Same, Observer
  <2>4. /\ Listening(o') /\ o'.isOnline = s.isOnline
        /\ Watched(o', IF o'.lastSafe THEN 0 ELSE unsafe)
    BY <2>1, <2>3, OtherFields DEF Same
  <2> QED BY <1>1, <1>2, <1>5, <2>1, <2>4, CallbackKeeps
<1> QED BY <1>4, <1>5

\* A loss is reported when its timer fires: the banner is gone by then.
LEMMA DebounceFiresKeeps == ASSUME ObserverInv, DebounceFires PROVE ObserverInv'
<1>1. /\ o \in Observer /\ browser \in BOOLEAN /\ event \in BOOLEAN
      /\ reachable \in BOOLEAN /\ o.debounce = 0
  BY DEF ObserverInv, TypeOK, DebounceFires
<1>2. UNCHANGED <<listeners, browser, event, reachable>> /\ Watch
  BY DEF DebounceFires
<1>3. listeners # 0 /\ Listening(o)
  BY <1>1, TimerFacts DEF ObserverInv, AllOff
<1> DEFINE r == [o EXCEPT !.debounce = Off]
<1>4. /\ r \in Observer /\ r.lastSafe = o.lastSafe /\ r.debounce = Off
      /\ r.isOnline = o.isOnline /\ r.isBackOnline = o.isBackOnline
      /\ r.retry = o.retry /\ r.backOnline = o.backOnline
      /\ r.snapshot = o.snapshot /\ r.known = o.known
  BY <1>1, TimerFacts DEF Observer
<1>5. o' = SetOnline(r, FALSE)
  BY DEF DebounceFires
<1>6. o.lastSafe = FALSE
  BY <1>1, <1>3, TimerFacts DEF Listening, TimersFollow, Observer
<1>7. BannerIsShorter => ~o.isBackOnline
  <2>1. o.backOnline \in {Off} \cup Nat /\ o.debounce # Off
    BY <1>1, TimerFacts DEF Observer
  <2> QED BY <1>1, <1>3, <2>1 DEF Listening, BannerHasTimer
<1> HIDE DEF r
<1>8. Told(r)
  BY <1>3, <1>4 DEF Listening, Told, StatusOf
<1>9. /\ ~r.isOnline <=> r.retry # Off
      /\ r.backOnline # Off => r.backOnline =< BackOnlineDuration
      /\ BannerIsShorter => (r.isBackOnline => r.backOnline # Off)
      /\ BannerIsShorter => (FALSE \/ ~r.isBackOnline)
  BY <1>3, <1>4, <1>7 DEF Listening, TimersFollow
<1>10. Listening(o') /\ o'.debounce = Off
  BY <1>4, <1>5, <1>6, <1>8, <1>9, SetOnlineKeeps
<1>11. Watched(o', IF o'.lastSafe THEN 0 ELSE unsafe)
  BY <1>10 DEF Watched
<1> QED BY <1>1, <1>2, <1>3, <1>10, <1>11, CallbackKeeps

\* An offline observer goes on pinging.
LEMMA RetryFiresKeeps ==
    ASSUME ObserverInv, RetryFires PROVE ObserverInv' /\ o'.isOnline = o.isOnline
<1>1. /\ o \in Observer /\ browser \in BOOLEAN /\ event \in BOOLEAN
      /\ reachable \in BOOLEAN /\ o.retry = 0
  BY DEF ObserverInv, TypeOK, RetryFires
<1>2. UNCHANGED <<listeners, browser, event, reachable>> /\ Watch
  BY DEF RetryFires
<1>3. listeners # 0 /\ Listening(o) /\ Watched(o, unsafe)
  BY <1>1, TimerFacts DEF ObserverInv, AllOff
<1> DEFINE q == [o EXCEPT !.retry = RetryInterval, !.isPinging = TRUE]
<1>4. o' = q
  BY <1>1 DEF RetryFires, HandlePing, Observer
<1>5. /\ q \in Observer /\ q.lastSafe = o.lastSafe /\ q.debounce = o.debounce
      /\ q.isOnline = o.isOnline /\ q.isBackOnline = o.isBackOnline
      /\ q.retry = RetryInterval /\ q.backOnline = o.backOnline
      /\ q.snapshot = o.snapshot /\ q.known = o.known
  BY <1>1, TimerFacts DEF Observer
<1> HIDE DEF q
<1>6. Listening(q)
  BY <1>1, <1>3, <1>5, TimerFacts
     DEF Listening, TimersFollow, BannerHasTimer, Told, StatusOf
<1>7. o.lastSafe => o.debounce = Off
  BY <1>1, <1>3 DEF Listening, TimersFollow, Observer
<1>8. Watched(q, IF q.lastSafe THEN 0 ELSE unsafe)
  BY <1>3, <1>5, <1>7 DEF Watched
<1> QED BY <1>1, <1>2, <1>3, <1>4, <1>5, <1>6, <1>8, CallbackKeeps

\* The banner ends with its timer, and the listeners are told.
LEMMA BackOnlineFiresKeeps ==
    ASSUME ObserverInv, BackOnlineFires PROVE ObserverInv' /\ o'.isOnline = o.isOnline
<1>1. /\ o \in Observer /\ browser \in BOOLEAN /\ event \in BOOLEAN
      /\ reachable \in BOOLEAN /\ o.backOnline = 0
  BY DEF ObserverInv, TypeOK, BackOnlineFires
<1>2. UNCHANGED <<listeners, browser, event, reachable>> /\ Watch
  BY DEF BackOnlineFires
<1>3. listeners # 0 /\ Listening(o) /\ Watched(o, unsafe)
  BY <1>1, TimerFacts DEF ObserverInv, AllOff
<1> DEFINE status == [isOnline |-> o.isOnline, isBackOnline |-> FALSE]
           q == [o EXCEPT !.backOnline = Off, !.isBackOnline = FALSE,
                          !.isPinging = TRUE, !.snapshot = status, !.known = status]
<1>4. o' = q
  BY <1>1 DEF BackOnlineFires, HandlePing, Publish, StatusOf, Observer
<1>5. /\ q \in Observer /\ q.lastSafe = o.lastSafe /\ q.debounce = o.debounce
      /\ q.isOnline = o.isOnline /\ q.isBackOnline = FALSE
      /\ q.retry = o.retry /\ q.backOnline = Off
      /\ q.snapshot = StatusOf(q) /\ q.known = q.snapshot
  <2>1. status \in Status
    BY <1>1 DEF Observer, Status
  <2>2. q \in Observer
    BY <1>1, <2>1, TimerFacts DEF Observer
  <2>3. /\ q.lastSafe = o.lastSafe /\ q.debounce = o.debounce
        /\ q.isOnline = o.isOnline /\ q.isBackOnline = FALSE
        /\ q.retry = o.retry /\ q.backOnline = Off
        /\ q.snapshot = status /\ q.known = status
    BY <1>1 DEF Observer
  <2> QED BY <2>2, <2>3 DEF StatusOf
<1> HIDE DEF q
<1>6. Listening(q)
  BY <1>1, <1>3, <1>5 DEF Listening, TimersFollow, BannerHasTimer, Told
<1>7. o.lastSafe => o.debounce = Off
  BY <1>1, <1>3 DEF Listening, TimersFollow, Observer
<1>8. Watched(q, IF q.lastSafe THEN 0 ELSE unsafe)
  BY <1>3, <1>5, <1>7 DEF Watched
<1> QED BY <1>1, <1>2, <1>3, <1>4, <1>5, <1>6, <1>8, CallbackKeeps

\* All timers lose a tick, and what is lost is lost for one more.
LEMMA TickKeeps ==
    ASSUME ObserverInv, Tick PROVE ObserverInv' /\ o'.isOnline = o.isOnline
<1>1. /\ o \in Observer /\ browser \in BOOLEAN /\ event \in BOOLEAN
      /\ reachable \in BOOLEAN /\ unsafe \in 0 .. OfflineDelay
      /\ listeners \in 0 .. MaxListeners
  BY DEF ObserverInv, TypeOK
<1>2. /\ listeners # 0 /\ Listening(o) /\ Watched(o, unsafe)
      /\ UNCHANGED <<listeners, browser, event, reachable>>
      /\ unsafe' = IF o.lastSafe THEN 0 ELSE Min2(unsafe + 1, OfflineDelay)
  BY <1>1 DEF ObserverInv, Tick
<1> DEFINE q == [o EXCEPT !.debounce = Later(@), !.retry = Later(@),
                          !.backOnline = Later(@)]
<1>3. o' = q
  BY DEF Tick
<1>4. o.debounce # 0 /\ o.retry # 0 /\ o.backOnline # 0
  BY DEF Tick, Due
<1>5. \A t \in Timer \ {0} : /\ Later(t) \in Timer
                             /\ Later(t) # Off <=> t # Off
                             /\ t # Off => Later(t) = t - 1 /\ t \in Nat
  BY TimerFacts DEF Later
<1>6. {o.debounce, o.retry, o.backOnline} \subseteq Timer \ {0}
  BY <1>1, <1>4 DEF Observer
<1>7. /\ q \in Observer /\ q.lastSafe = o.lastSafe
      /\ q.isOnline = o.isOnline /\ q.isBackOnline = o.isBackOnline
      /\ q.debounce = Later(o.debounce) /\ q.retry = Later(o.retry)
      /\ q.backOnline = Later(o.backOnline)
      /\ q.snapshot = o.snapshot /\ q.known = o.known
  BY <1>1, <1>5, <1>6 DEF Observer
<1> HIDE DEF q
<1>8. Told(q)
  BY <1>2, <1>7 DEF Listening, Told, StatusOf
<1>9. TimersFollow(q)
  BY <1>2, <1>5, <1>6, <1>7, DelayAssumption DEF Listening, TimersFollow
<1>10. BannerIsShorter => BannerHasTimer(q)
  BY <1>2, <1>5, <1>6, <1>7 DEF Listening, BannerHasTimer
<1>11. Watched(q, unsafe')
  <2>1. CASE o.debounce = Off
    BY <1>5, <1>6, <1>7, <2>1 DEF Watched
  <2>2. CASE o.debounce # Off
    <3>1. ~o.lastSafe
      BY <1>1, <1>2, <2>2 DEF Listening, TimersFollow, Observer
    <3>2. /\ q.debounce = o.debounce - 1 /\ o.debounce \in Nat \ {0}
          /\ o.debounce + unsafe >= OfflineDelay
          /\ unsafe' = Min2(unsafe + 1, OfflineDelay)
      BY <1>2, <1>4, <1>5, <1>6, <1>7, <2>2, <3>1 DEF Watched
    <3> QED BY <1>1, <3>2, DelayAssumption DEF Watched, Min2
  <2> QED BY <2>1, <2>2
<1>12. TypeOK'
  <2>1. unsafe' \in 0 .. OfflineDelay
    BY <1>1, <1>2, DelayAssumption DEF Min2
  <2> QED BY <1>1, <1>2, <1>3, <1>7, <2>1 DEF TypeOK
<1> QED BY <1>2, <1>3, <1>7, <1>8, <1>9, <1>10, <1>11, <1>12 DEF ObserverInv, Listening

\* The world changes behind the observer's back.
LEMMA WorldKeeps ==
    ASSUME ObserverInv, BrowserChanges \/ ServerChanges
    PROVE  ObserverInv' /\ o' = o
<1>1. /\ o \in Observer /\ browser \in BOOLEAN /\ event \in BOOLEAN
      /\ reachable \in BOOLEAN
  BY DEF ObserverInv, TypeOK
<1>2. /\ UNCHANGED <<o, listeners>> /\ Watch
      /\ browser' \in BOOLEAN /\ event' \in BOOLEAN /\ reachable' \in BOOLEAN
  BY <1>1 DEF BrowserChanges, ServerChanges
<1>3. listeners # 0 => Watched(o', IF o'.lastSafe THEN 0 ELSE unsafe)
  <2>1. listeners # 0 /\ o.lastSafe => o.debounce = Off
    BY <1>1 DEF ObserverInv, Listening, TimersFollow, Observer
  <2> QED BY <1>2, <2>1 DEF ObserverInv, Watched
<1> QED BY <1>1, <1>2, <1>3, CallbackKeeps DEF ObserverInv

-----------------------------------------------------------------------------
(* The theorems.                                                           *)

\* An observer that was just made has no timers.
LEMMA ObserverInvInit == ASSUME Init PROVE ObserverInv
<1> DEFINE status == [isOnline |-> browser, isBackOnline |-> FALSE]
<1>1. browser \in BOOLEAN /\ status \in Status
  BY DEF Init, Status
<1>2. o = [navigatorOnline |-> browser, pingOffline |-> FALSE,
           lastSafe |-> browser, isOnline |-> browser, isBackOnline |-> FALSE,
           snapshot |-> status, debounce |-> Off, retry |-> Off,
           backOnline |-> Off, isPinging |-> FALSE, known |-> status]
  BY DEF Init
<1> HIDE DEF status
<1>3. o \in Observer
  <2>1. Off \in Timer
    BY TimerFacts
  <2> QED BY <1>1, <1>2, <2>1 DEF Observer
<1>4. AllOff(o)
  BY <1>2 DEF AllOff
<1>5. TypeOK
  <2>1. event \in BOOLEAN /\ reachable \in BOOLEAN /\ listeners = 0 /\ unsafe = 0
    BY DEF Init
  <2>2. listeners \in 0 .. MaxListeners /\ unsafe \in 0 .. OfflineDelay
    BY <2>1, DelayAssumption
  <2> QED BY <1>1, <1>3, <2>1, <2>2 DEF TypeOK
<1> QED BY <1>4, <1>5 DEF Init, ObserverInv

\* Every step keeps the invariant.
LEMMA ObserverInvStep == ASSUME ObserverInv, [Next]_vars PROVE ObserverInv'
<1>1. ASSUME UNCHANGED vars PROVE ObserverInv'
  BY <1>1 DEF vars, ObserverInv, TypeOK, Listening, TimersFollow, BannerHasTimer,
              Told, StatusOf, Watched, AllOff
<1> QED BY <1>1, SubscribeKeeps, UnsubscribeKeeps, HandleBrowserEventKeeps,
           PingAnsweredKeeps, DebounceFiresKeeps, RetryFiresKeeps,
           BackOnlineFiresKeeps, TickKeeps, WorldKeeps DEF Next

\* The inductive invariant: each timer runs exactly while the change it makes is
\* to come, and a loss has been watched for as long as its timer has run.
THEOREM Invariance == Spec => []ObserverInv
BY ObserverInvInit, ObserverInvStep, PTL DEF Spec

\* A change is never forgotten, and no timer outlives the listeners, for any delays
\* whose banner is shorter than the debounce, as the defaults are.
THEOREM TimersAreRight == ASSUME BannerIsShorter PROVE Spec => []TimersMatchStatus
<1>1. ObserverInv => TimersMatchStatus
  BY BannerIsShorter
     DEF ObserverInv, TimersMatchStatus, AllOff, Listening, TimersFollow, BannerHasTimer
<1> QED BY <1>1, Invariance, PTL

\* Every change of the snapshot is notified, for any delays and listeners.
THEOREM ListenersAreTold == Spec => []ListenersKnow
<1>1. ObserverInv => ListenersKnow
  BY DEF ObserverInv, ListenersKnow, Listening, Told
<1> QED BY <1>1, Invariance, PTL

\* Only the timer of a loss takes an observer offline, after the whole delay.
LEMMA OnlyDebounceReports ==
    ASSUME ObserverInv, [Next]_vars, o.isOnline, ~o'.isOnline, listeners > 0
    PROVE  unsafe = OfflineDelay
<1>1. /\ TypeOK /\ o \in Observer /\ unsafe \in 0 .. OfflineDelay
      /\ listeners # 0 /\ Watched(o, unsafe)
  BY DEF ObserverInv, TypeOK
<1>2. CASE Subscribe
  <2>1. o'.isOnline = o.isOnline
    BY <1>1, <1>2 DEF Subscribe, Observer
  <2> QED BY <2>1
<1>3. CASE Unsubscribe
  <2>1. o'.isOnline = o.isOnline
    BY <1>1, <1>3 DEF Unsubscribe, Stop, ClearTransition, Observer
  <2> QED BY <2>1
<1>4. CASE DebounceFires
  BY <1>1, <1>4, OffAssumption, DelayAssumption DEF DebounceFires, Watched
<1>5. CASE UNCHANGED vars
  BY <1>5 DEF vars
<1> QED BY <1>1, <1>2, <1>3, <1>4, <1>5, HandleBrowserEventKeeps, PingAnsweredKeeps,
           RetryFiresKeeps, BackOnlineFiresKeeps, TickKeeps, WorldKeeps DEF Next

\* Offline is never reported for a loss shorter than the delay, whatever events,
\* pings, banners and subscriptions fall into it.
THEOREM OfflineTakesTheDelay == Spec => OfflineIsDebounced
<1>1. ObserverInv /\ [Next]_vars
        => [o.isOnline /\ ~o'.isOnline /\ listeners > 0 => unsafe = OfflineDelay]_vars
  BY OnlyDebounceReports
<1> QED BY <1>1, Invariance, PTL DEF Spec, OfflineIsDebounced
=============================================================================
