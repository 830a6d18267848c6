---------------------- MODULE SessionBootstrap_proofs ----------------------
(***************************************************************************)
(* That tabs keep the secrets of their forks, get back the data they asked *)
(* with, and forget what is spent: for any tabs and local ids, and however *)
(* many requests, forks and loads there are.                               *)
(*                                                                         *)
(* What is known of a tab is said of its page p, its load l and its states *)
(* k, given the requests rq and the forks fk made so far; steps of other   *)
(* tabs only add to the last two.                                          *)
(***************************************************************************)
EXTENDS SessionBootstrap, TLAPS

-----------------------------------------------------------------------------
(* The inductive invariant.                                                *)

Made(s) == 1 .. Len(s)
Secret(k, n) == IF n \in DOMAIN k THEN k[n].secret ELSE None
Spent(f) == f.pulled \/ f.refused

\* What the tab keeps is of requests, with the data they asked with.
KeptFits(k, rq) ==
    /\ DOMAIN k \subseteq Made(rq)
    /\ \A n \in DOMAIN k : k[n].data = rq[n].asked

\* Whoever is sent off with a request keeps its secret.
RequestKept(n, k, rq) ==
    n # None =>
      /\ n \in Made(rq)
      /\ rq[n].bound => rq[n].state
      /\ rq[n].state => /\ n \in DOMAIN k
                        /\ k[n].secret = IF rq[n].bound THEN n ELSE None

\* The page's URL; a fork that can be pulled has the secret that is kept.
PageFits(p, l, k, rq, fk) ==
    /\ p.at = "account" => l.step = "none" /\ RequestKept(p.request, k, rq)
    /\ p.at = "callback" =>
         /\ p.fork \in Made(fk) /\ p.state \in Made(rq) \cup {None}
         /\ Spent(fk[p.fork]) \/ Secret(k, p.state) = fk[p.fork].secret

\* What the page is doing, and at which URL it does it.
StepFits(p, l, k, rq, fk) ==
    /\ l.state \in Made(rq) \cup {None}
    /\ l.step \in {"lookup", "user", "signOut"} => p.at = "app" /\ l.state = None
    /\ l.step \in {"pull", "cookies", "save"} =>
         p.at = "callback" /\ l.state = p.state
    /\ l.step = "pull" => Spent(fk[p.fork]) \/ l.secret = fk[p.fork].secret
    /\ l.step \in {"cookies", "save"} => fk[p.fork].pulled
    /\ l.step = "authorize" =>
         \/ p.at = "app" /\ l.state = None
         \/ p.at = "callback" /\ l.state = p.state /\ Spent(fk[p.fork])
    /\ l.step = "unauthorized" => RequestKept(l.request, k, rq)
    /\ l.step \in {"authenticated", "unauthorized"} => l.state \notin DOMAIN k

\* The data asked with is carried along, unless the session is set up already.
DataFits(p, l) ==
    \/ l.data = l.asked \/ l.lost
    \/ l.step = "authenticated" /\ p.at # "callback"

TabFits(p, l, k, rq, fk) ==
    /\ KeptFits(k, rq) /\ PageFits(p, l, k, rq, fk)
    /\ StepFits(p, l, k, rq, fk) /\ DataFits(p, l)

AllTabsFit == \A t \in Tabs : TabFits(page[t], load[t], kept[t], requests, forks)

BootInv == TypeOK /\ kept = [t \in Tabs |-> kept[t]] /\ AllTabsFit

-----------------------------------------------------------------------------
(* What the tab keeps.                                                     *)

\* A state that is forgotten is the only one to go.
LEMMA ForgetFacts ==
    ASSUME NEW t \in Tabs, NEW n
    PROVE  /\ DOMAIN Forget(t, n) = DOMAIN kept[t] \ {n}
           /\ \A m \in DOMAIN kept[t] \ {n} : Forget(t, n)[m] = kept[t][m]
BY DEF Forget, Restrict

-----------------------------------------------------------------------------
(* What steps have in common.                                              *)

\* Requests are added, and forks are added, pulled and refused.
MoreRequests(rq, rq2) ==
    Made(rq) \subseteq Made(rq2) /\ \A n \in Made(rq) : rq2[n] = rq[n]
MoreForks(fk, fk2) ==
    /\ Made(fk) \subseteq Made(fk2)
    /\ \A f \in Made(fk) :
         /\ fk2[f].secret = fk[f].secret
         /\ fk[f].pulled => fk2[f].pulled
         /\ fk[f].refused => fk2[f].refused

\* More requests and forks leave a tab as it was.
LEMMA TabStays ==
    ASSUME NEW p, NEW l, NEW k, NEW rq, NEW fk, NEW rq2, NEW fk2,
           TabFits(p, l, k, rq, fk), MoreRequests(rq, rq2), MoreForks(fk, fk2)
    PROVE  TabFits(p, l, k, rq2, fk2)
<1>1. KeptFits(k, rq2)
  BY DEF TabFits, KeptFits, MoreRequests
<1>2. ASSUME NEW n, RequestKept(n, k, rq) PROVE RequestKept(n, k, rq2)
  BY <1>2 DEF RequestKept, MoreRequests
<1>3. p.at = "callback" => /\ p.fork \in Made(fk) /\ p.fork \in Made(fk2)
                           /\ Spent(fk[p.fork]) => Spent(fk2[p.fork])
                           /\ fk[p.fork].pulled => fk2[p.fork].pulled
                           /\ fk2[p.fork].secret = fk[p.fork].secret
  BY DEF TabFits, PageFits, MoreForks, Spent
<1>4. PageFits(p, l, k, rq2, fk2)
  BY <1>2, <1>3 DEF TabFits, PageFits, MoreRequests
<1>5. StepFits(p, l, k, rq2, fk2)
  BY <1>2, <1>3 DEF TabFits, StepFits, MoreRequests
<1> QED BY <1>1, <1>4, <1>5 DEF TabFits

\* Nothing is added.
LEMMA NoMore == MoreRequests(requests, requests) /\ MoreForks(forks, forks)
BY DEF MoreRequests, MoreForks

\* What is known of a tab.
LEMMA TabFacts ==
    ASSUME BootInv, NEW t \in Tabs
    PROVE  /\ page[t] \in Page /\ load[t] \in Load
           /\ TabFits(page[t], load[t], kept[t], requests, forks)
           /\ None \notin DOMAIN kept[t] /\ None \notin Made(requests)
           /\ NewLoad \in Load
           /\ DOMAIN kept[t] \subseteq Number
           /\ \A n \in DOMAIN kept[t] : kept[t][n] \in State
           /\ Len(requests) \in Nat /\ Len(forks) \in Nat
           /\ Made(requests) \subseteq Number
           /\ \A n \in Made(requests) : requests[n] \in Request
           /\ \A f \in Made(forks) : forks[f] \in Fork
<1>1. NewLoad \in Load
  BY DEF NewLoad, Load, Ended, Id, Switch, Intent
<1>2. page[t] \in Page /\ load[t] \in Load /\ requests \in Seq(Request)
      /\ forks \in Seq(Fork)
  BY DEF BootInv, TypeOK
<1>3. DOMAIN kept[t] \subseteq Number /\ None \notin Number
      /\ \A n \in DOMAIN kept[t] : kept[t][n] \in State
  BY NoneAssumption, BoundAssumption DEF BootInv, TypeOK, Number
<1>4. None \notin Made(requests) /\ Made(requests) \subseteq Number
  BY <1>2, NoneAssumption, BoundAssumption DEF Made, BootInv, TypeOK, Number
<1>5. /\ \A n \in Made(requests) : requests[n] \in Request
      /\ \A f \in Made(forks) : forks[f] \in Fork
  BY <1>2 DEF Made
<1> QED BY <1>1, <1>2, <1>3, <1>4, <1>5 DEF BootInv, AllTabsFit

\* A step of a tab's page alone.
LEMMA LoadSteps ==
    ASSUME BootInv, NEW t \in Tabs, NEW r \in Load, load' = [load EXCEPT ![t] = r],
           UNCHANGED <<page, kept, requests>>,
           stored' \subseteq LocalIds, loads' \in 0 .. MaxLoads,
           forks' \in Seq(Fork), Len(forks') <= MaxForks, MoreForks(forks, forks'),
           TabFits(page[t], r, kept[t], requests, forks')
    PROVE  BootInv'
<1>1. TypeOK'
  BY DEF BootInv, TypeOK
<1>2. ASSUME NEW u \in Tabs
      PROVE  TabFits(page[u], load'[u], kept[u], requests, forks')
  <2>1. CASE u = t
    BY <2>1 DEF BootInv, TypeOK
  <2>2. CASE u # t
    <3>1. TabFits(page[u], load[u], kept[u], requests, forks)
      BY TabFacts
    <3>2. TabFits(page[u], load[u], kept[u], requests, forks')
      BY <3>1, TabStays, NoMore
    <3>3. load'[u] = load[u]
      BY <2>2 DEF BootInv, TypeOK
    <3> QED BY <3>2, <3>3
  <2> QED BY <2>1, <2>2
<1>3. AllTabsFit'
  BY <1>2 DEF AllTabsFit
<1> QED BY <1>1, <1>3 DEF BootInv

\* The same, when nothing happens to the forks and no page is loaded.
LEMMA PlainSteps ==
    ASSUME BootInv, NEW t \in Tabs, NEW r \in Load, load' = [load EXCEPT ![t] = r],
           UNCHANGED <<page, kept, requests, forks, loads>>,
           stored' \subseteq LocalIds,
           TabFits(page[t], r, kept[t], requests, forks)
    PROVE  BootInv'
<1>1. loads' \in 0 .. MaxLoads /\ forks' \in Seq(Fork) /\ Len(forks') <= MaxForks
  BY DEF BootInv, TypeOK
<1>2. MoreForks(forks, forks') /\ TabFits(page[t], r, kept[t], requests, forks')
  BY NoMore
<1> QED BY <1>1, <1>2, LoadSteps

-----------------------------------------------------------------------------
(* The steps of a page that only change what it is doing.                  *)

\* An unstarted load fits every page.
LEMMA NewLoadFits ==
    ASSUME BootInv, NEW t \in Tabs
    PROVE  TabFits(page[t], NewLoad, kept[t], requests, forks)
<1>1. TabFits(page[t], load[t], kept[t], requests, forks)
  BY TabFacts
<1>2. KeptFits(kept[t], requests) /\ DataFits(page[t], NewLoad)
  BY <1>1 DEF TabFits, DataFits, NewLoad
<1>3. PageFits(page[t], NewLoad, kept[t], requests, forks)
  BY <1>1 DEF TabFits, PageFits, NewLoad
<1>4. StepFits(page[t], NewLoad, kept[t], requests, forks)
  BY DEF StepFits, NewLoad
<1> QED BY <1>2, <1>3, <1>4 DEF TabFits

\* A callback's load knows the secret that was kept, and the data.
LEMMA GetSessionKeeps ==
    ASSUME BootInv, NEW t \in Tabs, NEW id \in Id, NEW data \in Data,
           GetSession(t, id, data)
    PROVE  BootInv'
<1>1. /\ TabFits(page[t], load[t], kept[t], requests, forks)
      /\ page[t] \in Page /\ NewLoad \in Load /\ None \notin DOMAIN kept[t]
      /\ None \notin Made(requests) /\ DOMAIN kept[t] \subseteq Number
      /\ \A n \in DOMAIN kept[t] : kept[t][n] \in State
      /\ Made(requests) \subseteq Number
      /\ \A n \in Made(requests) : requests[n] \in Request
  BY TabFacts
<1>2. /\ stored' \subseteq LocalIds /\ loads' \in 0 .. MaxLoads
      /\ forks' \in Seq(Fork) /\ Len(forks') <= MaxForks
      /\ MoreForks(forks, forks') /\ UNCHANGED <<page, kept, requests, forks>>
  BY NoMore, BoundAssumption DEF GetSession, BootInv, TypeOK
<1>3. KeptFits(kept[t], requests)
  BY <1>1 DEF TabFits
<1>4. CASE page[t].at = "app"
  <2> DEFINE r == [NewLoad EXCEPT !.step = "lookup", !.id = id, !.data = data,
                                  !.asked = data]
  <2>1. r \in Load /\ r.step = "lookup" /\ r.state = None /\ r.data = r.asked
    BY <1>1 DEF Load, NewLoad
  <2>2. load' = [load EXCEPT ![t] = r]
    BY <1>4 DEF GetSession, To
  <2> HIDE DEF r
  <2>3. TabFits(page[t], r, kept[t], requests, forks)
    BY <1>3, <1>4, <2>1 DEF TabFits, PageFits, StepFits, DataFits
  <2> QED BY <1>2, <2>1, <2>2, <2>3, LoadSteps
<1>5. CASE page[t].at = "callback"
  <2> DEFINE n == page[t].state
             s == FromKey(t, n)
             asked == IF n = None THEN None ELSE requests[n].asked
             lost == n \notin DOMAIN kept[t]
             r == [NewLoad EXCEPT
                      !.step = "pull", !.id = id, !.state = n, !.secret = s.secret,
                      !.data = s.data, !.lost = lost, !.asked = asked]
  <2>1. n \in Made(requests) \cup {None}
    BY <1>1, <1>5 DEF TabFits, PageFits
  <2>2. /\ s \in State /\ s.secret = Secret(kept[t], n)
        /\ n \in DOMAIN kept[t] => s.data = requests[n].asked
    BY <1>1, <1>3 DEF FromKey, State, Secret, KeptFits
  <2>3. asked \in Data \cup {None}
    BY <1>1, <2>1 DEF Request
  <2>4. lost \in BOOLEAN /\ (s.data = asked \/ lost)
    BY <1>1, <2>2
  <2>5. r.step = "pull" /\ r.state = n /\ r.secret = s.secret /\ r.data = s.data
         /\ r.asked = asked /\ r.lost = lost
    BY DEF NewLoad
  <2>6. /\ r \in Load /\ r.step = "pull" /\ r.state = n /\ r.secret = s.secret
        /\ r.data = r.asked \/ r.lost
    <3> HIDE DEF s, n, lost, asked
    <3>1. n \in Number \cup {None} /\ s.secret \in Number \cup {None}
          /\ s.data \in Data \cup {None}
      BY <1>1, <2>1, <2>2 DEF State
    <3>2. NewLoad \in Load
      BY <1>1
    <3>3. r \in Load
      BY <2>3, <2>4, <3>1, <3>2 DEF Load
    <3> QED BY <2>4, <2>5, <3>3
  <2>7. load' = [load EXCEPT ![t] = r]
    BY <1>5 DEF GetSession, To
  <2> HIDE DEF r
  <2>8. PageFits(page[t], r, kept[t], requests, forks)
    BY <1>1, <1>5 DEF TabFits, PageFits
  <2>9. StepFits(page[t], r, kept[t], requests, forks)
    BY <1>1, <1>5, <2>1, <2>2, <2>6 DEF TabFits, PageFits, StepFits
  <2>10. TabFits(page[t], r, kept[t], requests, forks)
    BY <1>3, <2>6, <2>8, <2>9 DEF TabFits, DataFits
  <2> QED BY <1>2, <2>6, <2>7, <2>10, LoadSteps
<1> QED BY <1>4, <1>5 DEF GetSession

\* A lookup keeps the data for a fork, and has no state to forget.
LEMMA LookupKeeps ==
    ASSUME BootInv, NEW t \in Tabs, Lookup(t) PROVE BootInv'
<1>1. /\ TabFits(page[t], load[t], kept[t], requests, forks)
      /\ load[t] \in Load /\ None \notin DOMAIN kept[t]
  BY TabFacts
<1>2. /\ page[t].at = "app" /\ load[t].state = None
      /\ load[t].data = load[t].asked \/ load[t].lost
      /\ KeptFits(kept[t], requests)
  BY <1>1 DEF TabFits, StepFits, DataFits, Lookup, At
<1>3. PICK r : /\ To(t, r)
               /\ \/ r = [load[t] EXCEPT !.step = "authenticated", !.data = None]
                  \/ \E l \in Id, reason \in {"expired", "corrupted", "not-found"} :
                       r = Resume(t, l, reason)
                  \/ r = [load[t] EXCEPT !.step = "error"]
  <2>1. load[t].id \in Id /\ stored \subseteq Id
    BY <1>1 DEF Load, Id, BootInv, TypeOK
  <2>2. CASE To(t, [load[t] EXCEPT !.step = "authenticated", !.data = None])
    BY <2>2
  <2>3. CASE \E l \in stored, reason \in {"expired", "corrupted"} :
               To(t, Resume(t, l, reason))
    BY <2>1, <2>3
  <2>4. CASE To(t, Resume(t, load[t].id, "not-found"))
    BY <2>1, <2>4
  <2>5. CASE Step(t, "error")
    BY <2>5 DEF Step, To
  <2> QED BY <2>2, <2>3, <2>4, <2>5 DEF Lookup
<1>4. /\ r \in Load /\ r.state = None
      /\ r.step \in {"authenticated", "authorize", "error"}
      /\ r.step # "authenticated" => r.data = r.asked \/ r.lost
  <2>1. CASE r = [load[t] EXCEPT !.step = "authenticated", !.data = None]
    BY <1>1, <1>2, <2>1 DEF Load, Ended
  <2>2. CASE \E l \in Id, reason \in {"expired", "corrupted", "not-found"} :
               r = Resume(t, l, reason)
    <3>1. PICK l \in Id, reason \in {"expired", "corrupted", "not-found"} :
                 r = Resume(t, l, reason)
      BY <2>2
    <3>2. [type |-> "resume", localId |-> l, reason |-> reason] \in Intent
      BY DEF Intent
    <3> QED BY <1>1, <1>2, <3>1, <3>2 DEF Load, Resume
  <2>3. CASE r = [load[t] EXCEPT !.step = "error"]
    BY <1>1, <1>2, <2>3 DEF Load, Ended
  <2> QED BY <1>3, <2>1, <2>2, <2>3
<1>5. TabFits(page[t], r, kept[t], requests, forks)
  BY <1>1, <1>2, <1>4 DEF TabFits, PageFits, StepFits, DataFits
<1>6. stored' \subseteq LocalIds /\ UNCHANGED <<page, kept, requests, forks, loads>>
  BY DEF Lookup, BootInv, TypeOK
<1> QED BY <1>3, <1>4, <1>5, <1>6, PlainSteps DEF To

\* A load that resumes is one that authorizes.
LEMMA ResumeFacts ==
    ASSUME BootInv, NEW t \in Tabs, NEW reason \in {"expired", "corrupted", "not-found", "none"}
    PROVE  LET r == Resume(t, load[t].id, reason)
           IN  /\ r \in Load /\ r.step = "authorize" /\ r.state = load[t].state
               /\ r.data = load[t].data /\ r.asked = load[t].asked
               /\ r.lost = load[t].lost
<1>1. load[t] \in Load
  BY TabFacts
<1>2. [type |-> "resume", localId |-> load[t].id, reason |-> reason] \in Intent
  BY <1>1 DEF Intent, Load
<1> QED BY <1>1, <1>2 DEF Resume, Load

\* Forks that are pulled or refused are more than they were.
LEMMA ForkMarked ==
    ASSUME NEW s \in Seq(Fork), NEW f \in Made(s), NEW s2,
           \/ s2 = [s EXCEPT ![f].pulled = TRUE]
           \/ s2 = [s EXCEPT ![f].refused = TRUE]
    PROVE  /\ s2 \in Seq(Fork) /\ Len(s2) = Len(s) /\ MoreForks(s, s2) /\ Spent(s2[f])
           /\ s2 = [s EXCEPT ![f].pulled = TRUE] => s2[f].pulled
<1>1. s[f] \in Fork
  BY DEF Made
<1>2. ASSUME NEW g \in Fork, s2 = [s EXCEPT ![f] = g],
             g.secret = s[f].secret, g.pulled \/ g.refused,
             s[f].pulled => g.pulled, s[f].refused => g.refused
      PROVE  /\ s2 \in Seq(Fork) /\ Len(s2) = Len(s) /\ MoreForks(s, s2)
             /\ Spent(s2[f]) /\ s2[f] = g
  <2>1. /\ s2 \in Seq(Fork) /\ Len(s2) = Len(s) /\ s2[f] = g
        /\ \A h \in Made(s) : h # f => s2[h] = s[h]
    BY <1>2 DEF Made
  <2> QED BY <1>2, <2>1 DEF Made, MoreForks, Spent
<1>3. CASE s2 = [s EXCEPT ![f].pulled = TRUE]
  <2> DEFINE g == [s[f] EXCEPT !.pulled = TRUE]
  <2>1. /\ g \in Fork /\ g.pulled /\ g.secret = s[f].secret
        /\ s[f].refused => g.refused
    BY <1>1 DEF Fork
  <2>2. s2 = [s EXCEPT ![f] = g]
    BY <1>3
  <2> HIDE DEF g
  <2> QED BY <1>2, <2>1, <2>2
<1>4. CASE s2 = [s EXCEPT ![f].refused = TRUE]
  <2> DEFINE g == [s[f] EXCEPT !.refused = TRUE]
  <2>1. /\ g \in Fork /\ g.refused /\ g.secret = s[f].secret
        /\ s[f].pulled => g.pulled
    BY <1>1 DEF Fork
  <2>2. s2 = [s EXCEPT ![f] = g]
    BY <1>4
  <2>3. /\ s2 \in Seq(Fork) /\ Len(s2) = Len(s) /\ MoreForks(s, s2)
        /\ Spent(s2[f])
    <3> HIDE DEF g
    <3> QED BY <1>2, <2>1, <2>2
  <2>4. s2 = [s EXCEPT ![f].pulled = TRUE] => s2[f].pulled
    BY DEF Made
  <2> QED BY <2>3, <2>4
<1> QED BY <1>3, <1>4

\* A fork that was pulled can be used, and one that is given up is spent.
LEMMA PullKeeps ==
    ASSUME BootInv, NEW t \in Tabs, Pull(t) PROVE BootInv'
<1> DEFINE f == page[t].fork
<1>1. /\ TabFits(page[t], load[t], kept[t], requests, forks)
      /\ load[t] \in Load
  BY TabFacts
<1>2. /\ page[t].at = "callback" /\ load[t].state = page[t].state
      /\ load[t].state \in Made(requests) \cup {None}
      /\ load[t].data = load[t].asked \/ load[t].lost
      /\ f \in Made(forks)
  BY <1>1 DEF TabFits, PageFits, StepFits, DataFits, Pull, At
<1>3. PICK r \in Load :
        /\ To(t, r) /\ r.step \in {"cookies", "error", "authorize"}
        /\ r.state = load[t].state
        /\ r.data = r.asked \/ r.lost
        /\ \/ /\ forks' = [forks EXCEPT ![f].pulled = TRUE]
           \/ /\ forks' = [forks EXCEPT ![f].refused = TRUE]
              /\ r.step = "authorize"
           \/ /\ forks' = forks
              /\ r.step = "error"
  <2>1. \A step \in {"cookies", "error"} :
          LET r == [load[t] EXCEPT !.step = step]
          IN  /\ r \in Load /\ r.step = step
              /\ r.state = load[t].state
              /\ r.data = r.asked \/ r.lost
    BY <1>1, <1>2 DEF Load, Ended
  <2>2. LET r == Resume(t, load[t].id, "none")
        IN  /\ r \in Load /\ r.step = "authorize"
            /\ r.state = load[t].state
            /\ r.data = r.asked \/ r.lost
    BY <1>2, ResumeFacts
  <2> DEFINE go(step) == [load[t] EXCEPT !.step = step]
             resumed == Resume(t, load[t].id, "none")
  <2>3. \/ /\ forks' = [forks EXCEPT ![f].pulled = TRUE]
           /\ To(t, go("cookies")) \/ To(t, go("error")) \/ To(t, resumed)
        \/ forks' = [forks EXCEPT ![f].refused = TRUE] /\ To(t, resumed)
        \/ forks' = forks /\ To(t, go("error"))
    BY DEF Pull, Step, To
  <2>4. /\ \A step \in {"cookies", "error"} :
               /\ go(step) \in Load /\ go(step).step = step
               /\ go(step).state = load[t].state
               /\ go(step).data = go(step).asked \/ go(step).lost
        /\ resumed \in Load /\ resumed.step = "authorize"
        /\ resumed.state = load[t].state
        /\ resumed.data = resumed.asked \/ resumed.lost
    BY <2>1, <2>2
  <2> HIDE DEF go, resumed
  <2> QED BY <2>3, <2>4
<1>4. /\ forks' \in Seq(Fork) /\ Len(forks') <= MaxForks /\ MoreForks(forks, forks')
      /\ r.step = "authorize" => Spent(forks'[f])
      /\ r.step = "cookies" => forks'[f].pulled
  <2>1. forks \in Seq(Fork) /\ Len(forks) <= MaxForks
    BY DEF BootInv, TypeOK
  <2>2. CASE forks' = [forks EXCEPT ![f].pulled = TRUE]
    BY <1>2, <2>1, <2>2, ForkMarked
  <2>3. CASE forks' = [forks EXCEPT ![f].refused = TRUE] /\ r.step = "authorize"
    BY <1>2, <2>1, <2>3, ForkMarked
  <2>4. CASE forks' = forks /\ r.step = "error"
    BY <2>4, NoMore DEF BootInv, TypeOK
  <2> QED BY <1>3, <2>2, <2>3, <2>4
<1>5. TabFits(page[t], r, kept[t], requests, forks')
  <2>1. TabFits(page[t], load[t], kept[t], requests, forks')
    BY <1>1, <1>4, TabStays, NoMore
  <2>2. PageFits(page[t], r, kept[t], requests, forks')
    BY <1>2, <2>1 DEF TabFits, PageFits
  <2>3. StepFits(page[t], r, kept[t], requests, forks')
    BY <1>2, <1>3, <1>4 DEF StepFits
  <2> QED BY <1>3, <2>1, <2>2, <2>3 DEF TabFits, DataFits
<1>6. /\ UNCHANGED <<page, kept, requests>>
      /\ stored' \subseteq LocalIds /\ loads' \in 0 .. MaxLoads
  BY DEF Pull, BootInv, TypeOK
<1> QED BY <1>3, <1>4, <1>5, <1>6, LoadSteps DEF To

\* What a tab with a pulled fork does next.
LEMMA CookiesKeeps ==
    ASSUME BootInv, NEW t \in Tabs, Cookies(t) PROVE BootInv'
<1>1. /\ TabFits(page[t], load[t], kept[t], requests, forks)
      /\ load[t] \in Load
  BY TabFacts
<1>2. /\ page[t].at = "callback" /\ load[t].state = page[t].state
      /\ load[t].state \in Made(requests) \cup {None}
      /\ load[t].data = load[t].asked \/ load[t].lost
      /\ forks[page[t].fork].pulled
  BY <1>1 DEF TabFits, StepFits, DataFits, Cookies, At
<1>3. PICK r \in Load :
        /\ To(t, r) /\ r.step \in {"save", "error", "authorize"}
        /\ r.state = load[t].state
        /\ r.data = r.asked \/ r.lost
  <2> DEFINE go(step) == [load[t] EXCEPT !.step = step]
             resumed == Resume(t, load[t].id, "none")
  <2>1. To(t, go("save")) \/ To(t, go("error")) \/ To(t, resumed)
    BY DEF Cookies, Step, To
  <2>2. \A step \in {"save", "error"} :
               /\ go(step) \in Load /\ go(step).step = step
               /\ go(step).state = load[t].state
               /\ go(step).data = go(step).asked \/ go(step).lost
    BY <1>1, <1>2 DEF Load, Ended
  <2>3. /\ resumed \in Load /\ resumed.step = "authorize"
        /\ resumed.state = load[t].state
        /\ resumed.data = resumed.asked \/ resumed.lost
    BY <1>2, ResumeFacts
  <2> HIDE DEF go, resumed
  <2> QED BY <2>1, <2>2, <2>3
<1>4. TabFits(page[t], r, kept[t], requests, forks)
  <2>1. PageFits(page[t], r, kept[t], requests, forks)
    BY <1>1, <1>2 DEF TabFits, PageFits
  <2>2. StepFits(page[t], r, kept[t], requests, forks)
    BY <1>2, <1>3 DEF StepFits, Spent
  <2> QED BY <1>1, <1>3, <2>1, <2>2 DEF TabFits, DataFits
<1>5. UNCHANGED <<page, kept, requests, forks, loads>> /\ stored' \subseteq LocalIds
  BY DEF Cookies, BootInv, TypeOK
<1> QED BY <1>3, <1>4, <1>5, PlainSteps DEF To

\* An application asks for a fork with its data, and with no state to forget.
LEMMA AskKeeps ==
    ASSUME BootInv, NEW t \in Tabs, NEW type \in {"switch", "add-account", "reauthorize"},
           NEW data \in Data \cup {None}, Ask(t, type, data)
    PROVE  BootInv'
<1> DEFINE r == [NewLoad EXCEPT !.step = "authorize", !.intent = [type |-> type],
                                !.data = data, !.asked = data]
<1>1. /\ TabFits(page[t], load[t], kept[t], requests, forks) /\ NewLoad \in Load
      /\ page[t].at = "app" /\ To(t, r)
  BY TabFacts DEF Ask
<1>2. [type |-> type] \in Intent
  BY DEF Intent
<1>3. r \in Load
  BY <1>1, <1>2 DEF Load
<1>4. r.step = "authorize" /\ r.state = None /\ r.data = r.asked
  BY DEF NewLoad
<1> HIDE DEF r
<1>5. TabFits(page[t], r, kept[t], requests, forks)
  <2>1. PageFits(page[t], r, kept[t], requests, forks)
    BY <1>1 DEF TabFits, PageFits
  <2>2. StepFits(page[t], r, kept[t], requests, forks)
    BY <1>1, <1>4 DEF StepFits
  <2> QED BY <1>1, <1>4, <2>1, <2>2 DEF TabFits, DataFits
<1>6. UNCHANGED <<page, kept, requests, forks, loads>> /\ stored' \subseteq LocalIds
  BY DEF Ask, BootInv, TypeOK
<1> QED BY <1>1, <1>3, <1>5, <1>6, PlainSteps DEF To

\* A sign-out has no state and no data.
LEMMA SignOutKeeps ==
    ASSUME BootInv, NEW t \in Tabs, NEW id \in LocalIds,
           NEW type \in {"signOut", "unauthorized"}, SignOut(t, id, type)
    PROVE  BootInv'
<1>1. /\ TabFits(page[t], load[t], kept[t], requests, forks) /\ NewLoad \in Load
      /\ page[t].at = "app"
  BY TabFacts DEF SignOut
<1>2. PICK r : /\ To(t, r) /\ r \in Load
               /\ r.step \in {"user", "signOut"} /\ r.state = None /\ r.data = r.asked
  <2> DEFINE user == [NewLoad EXCEPT !.step = "user", !.id = id]
             gone == [NewLoad EXCEPT !.step = "signOut", !.id = id,
                                     !.intent = [type |-> "reauthorize"]]
  <2>1. [type |-> "reauthorize"] \in Intent /\ id \in Id
    BY DEF Intent, Id
  <2>2. user \in Load /\ gone \in Load
    BY <1>1, <2>1 DEF Load
  <2>3. /\ user.step = "user" /\ user.state = None /\ user.data = user.asked
        /\ gone.step = "signOut" /\ gone.state = None /\ gone.data = gone.asked
    BY DEF NewLoad
  <2>4. To(t, user) \/ To(t, gone)
    BY DEF SignOut
  <2> HIDE DEF user, gone
  <2> QED BY <2>2, <2>3, <2>4
<1>3. TabFits(page[t], r, kept[t], requests, forks)
  <2>1. PageFits(page[t], r, kept[t], requests, forks)
    BY <1>1 DEF TabFits, PageFits
  <2>2. StepFits(page[t], r, kept[t], requests, forks)
    BY <1>1, <1>2 DEF StepFits
  <2> QED BY <1>1, <1>2, <2>1, <2>2 DEF TabFits, DataFits
<1>4. UNCHANGED <<page, kept, requests, forks, loads>> /\ stored' \subseteq LocalIds
  BY DEF SignOut, BootInv, TypeOK
<1> QED BY <1>1, <1>2, <1>3, <1>4, PlainSteps DEF To

\* The rest of a sign-out stays where it is.
LEMMA SigningOutKeeps ==
    ASSUME BootInv, NEW t \in Tabs, FindUser(t) \/ SignOutSession(t)
    PROVE  BootInv'
<1>1. /\ TabFits(page[t], load[t], kept[t], requests, forks) /\ load[t] \in Load
      /\ stored \subseteq LocalIds
  BY TabFacts DEF BootInv, TypeOK
<1>2. /\ page[t].at = "app" /\ load[t].state = None
      /\ load[t].data = load[t].asked \/ load[t].lost
  <2>1. load[t].step \in {"user", "signOut"}
    BY Zenon DEF FindUser, SignOutSession, At
  <2> QED BY <1>1, <2>1 DEF TabFits, StepFits, DataFits
<1>3. PICK r : /\ To(t, r) /\ r \in Load
               /\ r.step \in {"signOut", "authorize"} /\ r.state = None
               /\ r.data = r.asked \/ r.lost
  <2>1. CASE FindUser(t)
    <3>1. PICK user \in Id :
            To(t, [load[t] EXCEPT !.step = "signOut",
                                  !.intent = [type |-> "sign-out", user |-> user]])
      <4>1. \E user \in {None} \cup (stored \cap {load[t].id}) :
              To(t, [load[t] EXCEPT !.step = "signOut",
                                    !.intent = [type |-> "sign-out", user |-> user]])
        BY <2>1, Zenon DEF FindUser
      <4>2. {None} \cup (stored \cap {load[t].id}) \subseteq Id
        BY <1>1 DEF Id
      <4> QED BY <4>1, <4>2, Zenon
    <3>2. [type |-> "sign-out", user |-> user] \in Intent
      BY DEF Intent
    <3> DEFINE s == [load[t] EXCEPT !.step = "signOut",
                                    !.intent = [type |-> "sign-out", user |-> user]]
    <3>3. /\ s \in Load /\ s.step = "signOut" /\ s.state = None
          /\ s.data = s.asked \/ s.lost
      BY <1>1, <1>2, <3>2 DEF Load
    <3> HIDE DEF s
    <3> QED BY <3>1, <3>3 DEF s
  <2>2. CASE SignOutSession(t)
    <3> DEFINE s == [load[t] EXCEPT !.step = "authorize"]
    <3>1. To(t, s)
      BY <2>2 DEF SignOutSession, Step, To
    <3>2. /\ s \in Load /\ s.step = "authorize" /\ s.state = None
          /\ s.data = s.asked \/ s.lost
      BY <1>1, <1>2 DEF Load
    <3> HIDE DEF s
    <3> QED BY <3>1, <3>2
  <2> QED BY <2>1, <2>2
<1>4. TabFits(page[t], r, kept[t], requests, forks)
  <2>1. PageFits(page[t], r, kept[t], requests, forks)
    BY <1>1, <1>2 DEF TabFits, PageFits
  <2>2. StepFits(page[t], r, kept[t], requests, forks)
    BY <1>2, <1>3 DEF StepFits
  <2> QED BY <1>1, <1>3, <2>1, <2>2 DEF TabFits, DataFits
<1>5. UNCHANGED <<page, kept, requests, forks, loads>> /\ stored' \subseteq LocalIds
  <2>1. CASE FindUser(t)
    <3>1. UNCHANGED <<page, kept, requests, forks, stored, loads>>
      BY <2>1, Zenon DEF FindUser
    <3> QED BY <1>1, <3>1
  <2>2. CASE SignOutSession(t)
    BY <1>1, <2>2 DEF SignOutSession
  <2> QED BY <2>1, <2>2
<1> QED BY <1>3, <1>4, <1>5, PlainSteps DEF To

\* A reload forgets what the page was doing.
LEMMA ReloadKeeps ==
    ASSUME BootInv, NEW t \in Tabs, Reload(t) PROVE BootInv'
<1>1. /\ load' = [load EXCEPT ![t] = NewLoad] /\ stored' \subseteq LocalIds
      /\ UNCHANGED <<page, kept, requests, forks, loads>>
  BY DEF Reload, To, BootInv, TypeOK
<1> QED BY <1>1, TabFacts, NewLoadFits, PlainSteps

-----------------------------------------------------------------------------
(* The steps that change what a tab keeps.                                 *)

\* Other tabs keep what they have.
LEMMA KeptSteps ==
    ASSUME BootInv, NEW t \in Tabs, NEW r \in Load, load' = [load EXCEPT ![t] = r],
           NEW k, kept' = [kept EXCEPT ![t] = k],
           DOMAIN k \subseteq Number, \A n \in DOMAIN k : k[n] \in State,
           requests' \in Seq(Request), Len(requests') <= MaxRequests,
           MoreRequests(requests, requests'),
           UNCHANGED <<page, forks, loads>>, stored' \subseteq LocalIds,
           TabFits(page[t], r, k, requests', forks)
    PROVE  BootInv'
<1>1. /\ kept'[t] = k /\ load'[t] = r
      /\ \A u \in Tabs : u # t => kept'[u] = kept[u] /\ load'[u] = load[u]
  BY DEF BootInv, TypeOK
<1>2. TypeOK'
  <2>1. \A u \in Tabs : /\ DOMAIN kept'[u] \subseteq Number
                        /\ \A n \in DOMAIN kept'[u] : kept'[u][n] \in State
    BY <1>1 DEF BootInv, TypeOK
  <2> QED BY <2>1 DEF BootInv, TypeOK
<1>3. ASSUME NEW u \in Tabs
      PROVE  TabFits(page[u], load'[u], kept'[u], requests', forks)
  <2>1. CASE u = t
    BY <1>1, <2>1
  <2>2. CASE u # t
    <3>1. TabFits(page[u], load[u], kept[u], requests, forks)
      BY TabFacts
    <3>2. TabFits(page[u], load[u], kept[u], requests', forks)
      BY <3>1, TabStays, NoMore
    <3> QED BY <1>1, <2>2, <3>2
  <2> QED BY <2>1, <2>2
<1>4. AllTabsFit'
  BY <1>3 DEF AllTabsFit
<1>5. kept' = [u \in Tabs |-> kept'[u]]
  BY DEF BootInv
<1> QED BY <1>2, <1>4, <1>5 DEF BootInv

\* What remains when a state is forgotten.
LEMMA Forgotten ==
    ASSUME BootInv, NEW t \in Tabs, NEW n
    PROVE  LET k == Forget(t, n)
           IN  /\ DOMAIN k \subseteq Number /\ \A m \in DOMAIN k : k[m] \in State
               /\ KeptFits(k, requests) /\ n \notin DOMAIN k
<1>1. /\ KeptFits(kept[t], requests) /\ DOMAIN kept[t] \subseteq Number
      /\ \A m \in DOMAIN kept[t] : kept[t][m] \in State
  BY TabFacts DEF TabFits
<1>2. /\ DOMAIN Forget(t, n) = DOMAIN kept[t] \ {n}
      /\ \A m \in DOMAIN kept[t] \ {n} : Forget(t, n)[m] = kept[t][m]
  BY ForgetFacts
<1> QED BY <1>1, <1>2 DEF KeptFits

\* A session that is saved needs its fork's state no longer.
LEMMA SaveKeeps ==
    ASSUME BootInv, NEW t \in Tabs, Save(t) PROVE BootInv'
<1>1. /\ TabFits(page[t], load[t], kept[t], requests, forks)
      /\ load[t] \in Load /\ stored \subseteq LocalIds
      /\ \A f \in Made(forks) : forks[f] \in Fork
      /\ requests \in Seq(Request) /\ Len(requests) <= MaxRequests
  BY TabFacts DEF BootInv, TypeOK
<1>2. load[t].step = "save" /\ UNCHANGED <<page, requests, forks, loads>>
  BY DEF Save, At
<1>3. /\ page[t].at = "callback" /\ load[t].state = page[t].state
      /\ load[t].state \in Made(requests) \cup {None}
      /\ load[t].data = load[t].asked \/ load[t].lost
      /\ forks[page[t].fork].pulled /\ page[t].fork \in Made(forks)
      /\ page[t].state \in Made(requests) \cup {None}
  BY <1>1, <1>2 DEF TabFits, PageFits, StepFits, DataFits
<1> DEFINE go(step) == [load[t] EXCEPT !.step = step]
           resumed == Resume(t, load[t].id, "none")
           rest == Forget(t, load[t].state)
<1>4. \A step \in {"authenticated", "error"} :
        /\ go(step) \in Load /\ go(step).step = step
        /\ go(step).state = load[t].state
        /\ go(step).data = go(step).asked \/ go(step).lost
  BY <1>1, <1>3 DEF Load, Ended
<1>5. /\ resumed \in Load /\ resumed.step = "authorize"
      /\ resumed.state = load[t].state
      /\ resumed.data = resumed.asked \/ resumed.lost
  BY <1>3, ResumeFacts
<1>6. \/ /\ stored' = stored \cup {forks[page[t].fork].id}
         /\ kept' = [kept EXCEPT ![t] = rest] /\ To(t, go("authenticated"))
      \/ /\ To(t, resumed) \/ To(t, go("error"))
         /\ UNCHANGED <<stored, kept>>
  BY DEF Save, Step, To
<1>7. /\ DOMAIN rest \subseteq Number /\ \A m \in DOMAIN rest : rest[m] \in State
      /\ KeptFits(rest, requests) /\ load[t].state \notin DOMAIN rest
  BY Forgotten
<1>8. stored \cup {forks[page[t].fork].id} \subseteq LocalIds
  BY <1>1, <1>3 DEF Fork
<1> HIDE DEF go, resumed, rest
<1>9. CASE /\ stored' = stored \cup {forks[page[t].fork].id}
           /\ kept' = [kept EXCEPT ![t] = rest] /\ To(t, go("authenticated"))
  <2> DEFINE r == go("authenticated")
  <2>1. /\ r \in Load /\ r.step = "authenticated" /\ r.state = load[t].state
        /\ r.data = r.asked \/ r.lost
    BY <1>4
  <2> HIDE DEF r
  <2>2. PageFits(page[t], r, rest, requests, forks)
    BY <1>3 DEF PageFits, Spent
  <2>3. StepFits(page[t], r, rest, requests, forks)
    BY <1>3, <1>7, <2>1 DEF StepFits
  <2>4. TabFits(page[t], r, rest, requests, forks)
    BY <1>7, <2>1, <2>2, <2>3 DEF TabFits, DataFits
  <2>5. load' = [load EXCEPT ![t] = r]
    BY <1>9 DEF r, To
  <2>6. /\ requests' \in Seq(Request) /\ Len(requests') <= MaxRequests
        /\ MoreRequests(requests, requests') /\ stored' \subseteq LocalIds
        /\ TabFits(page[t], r, rest, requests', forks)
    BY <1>1, <1>2, <1>8, <1>9, <2>4, NoMore
  <2> QED BY <1>2, <1>7, <1>9, <2>1, <2>5, <2>6, KeptSteps
<1>10. CASE /\ To(t, resumed) \/ To(t, go("error"))
            /\ UNCHANGED <<stored, kept>>
  <2>1. PICK r \in Load :
          /\ To(t, r) /\ r.step \in {"error", "authorize"}
          /\ r.state = load[t].state
          /\ r.data = r.asked \/ r.lost
    BY <1>4, <1>5, <1>10
  <2>2. PageFits(page[t], r, kept[t], requests, forks)
    BY <1>1, <1>3 DEF TabFits, PageFits
  <2>3. StepFits(page[t], r, kept[t], requests, forks)
    BY <1>3, <2>1 DEF StepFits, Spent
  <2>4. TabFits(page[t], r, kept[t], requests, forks)
    BY <1>1, <2>1, <2>2, <2>3 DEF TabFits, DataFits
  <2> QED BY <1>1, <1>2, <1>10, <2>1, <2>4, PlainSteps DEF To
<1> QED BY <1>6, <1>9, <1>10

\* The request that is made has what the tab keeps for it.
LEMMA AuthorizeKeeps ==
    ASSUME BootInv, NEW t \in Tabs, Authorize(t) PROVE BootInv'
<1> DEFINE n == Len(requests) + 1
<1>1. /\ TabFits(page[t], load[t], kept[t], requests, forks)
      /\ load[t] \in Load /\ stored \subseteq LocalIds
      /\ None \notin Made(requests) /\ None \notin DOMAIN kept[t]
      /\ Len(requests) \in Nat
      /\ requests \in Seq(Request) /\ Len(requests) <= MaxRequests
  BY TabFacts DEF BootInv, TypeOK
<1>2. /\ load[t].step = "authorize" /\ Len(requests) < MaxRequests
      /\ UNCHANGED <<page, forks, stored, loads>>
  BY DEF Authorize, At
<1>3. /\ n \in Number /\ n # None /\ n \notin Made(requests) /\ Len(requests) \in Nat
  BY <1>1, <1>2, NoneAssumption, BoundAssumption DEF Number, Made
<1>4. /\ page[t].at # "account"
      /\ page[t].at = "callback" => /\ Spent(forks[page[t].fork])
                                   /\ page[t].fork \in Made(forks)
                                   /\ page[t].state \in Made(requests) \cup {None}
      /\ load[t].state \in Made(requests) \cup {None}
      /\ load[t].data = load[t].asked \/ load[t].lost
  BY <1>1, <1>2 DEF TabFits, PageFits, StepFits, DataFits
<1> DEFINE rest == Forget(t, load[t].state)
           r == [load[t] EXCEPT !.step = "unauthorized", !.request = n]
           s(secret) == [data |-> load[t].data, secret |-> secret]
           k(secret, writable) ==
             IF writable THEN Write(rest, n, s(secret)) ELSE rest
           q(secret, writable) ==
             [intent |-> load[t].intent, state |-> writable,
              bound |-> writable /\ secret # None,
              asked |-> IF load[t].lost THEN load[t].data ELSE load[t].asked]
<1>5. PICK secret \in {n, None}, writable \in BOOLEAN :
        /\ kept' = [kept EXCEPT ![t] = k(secret, writable)]
        /\ requests' = Append(requests, q(secret, writable))
        /\ load' = [load EXCEPT ![t] = r]
  BY DEF Authorize, To
<1>6. /\ DOMAIN rest \subseteq Number /\ \A m \in DOMAIN rest : rest[m] \in State
      /\ KeptFits(rest, requests) /\ load[t].state \notin DOMAIN rest
      /\ n \notin DOMAIN rest
  BY <1>3, Forgotten DEF KeptFits
<1>7. /\ r \in Load /\ r.step = "unauthorized" /\ r.request = n
      /\ r.state = load[t].state
      /\ r.data = r.asked \/ r.lost
  BY <1>1, <1>3, <1>4 DEF Load, Ended
<1> DEFINE rq == Append(requests, q(secret, writable))
<1>8. /\ q(secret, writable) \in Request
      /\ q(secret, writable).asked = load[t].data
      /\ q(secret, writable).state <=> writable
      /\ q(secret, writable).bound <=> writable /\ secret # None
  BY <1>1, <1>4 DEF Request, Load
<1>9. /\ s(secret) \in State /\ s(secret).data = load[t].data
      /\ s(secret).secret = secret
  BY <1>1, <1>3 DEF State, Load
<1> DEFINE kk == k(secret, writable)
           qq == q(secret, writable)
<1>10. /\ writable => /\ DOMAIN kk = DOMAIN rest \cup {n} /\ kk[n] = s(secret)
                      /\ \A m \in DOMAIN rest : kk[m] = rest[m]
       /\ ~writable => kk = rest
  <2> HIDE DEF rest, s, n
  <2>1. CASE writable
    <3>1. kk = Write(rest, n, s(secret))
      BY <2>1
    <3> HIDE DEF kk
    <3> QED BY <1>6, <2>1, <3>1 DEF Write
  <2>2. CASE ~writable
    BY <2>2
  <2> QED BY <2>1, <2>2
<1> HIDE DEF rest, r, s, k, q
<1>11. /\ rq \in Seq(Request) /\ Len(rq) = n /\ rq[n] = qq
       /\ \A m \in Made(requests) : rq[m] = requests[m]
       /\ Made(rq) = Made(requests) \cup {n}
  BY <1>1, <1>8 DEF Made
<1> HIDE DEF n, kk, qq, rq
<1>12. MoreRequests(requests, rq) /\ Len(rq) <= MaxRequests
  <2>1. MoreRequests(requests, rq)
    BY <1>11 DEF MoreRequests
  <2>2. Len(rq) <= MaxRequests
    BY <1>1, <1>2, <1>11, BoundAssumption DEF n
  <2> QED BY <2>1, <2>2
<1>13. /\ DOMAIN kk \subseteq Number /\ \A m \in DOMAIN kk : kk[m] \in State
  BY <1>3, <1>6, <1>9, <1>10
<1>14. KeptFits(kk, rq)
  BY <1>6, <1>8, <1>9, <1>10, <1>11 DEF KeptFits, qq
<1>15. RequestKept(n, kk, rq)
  BY <1>3, <1>8, <1>9, <1>10, <1>11 DEF RequestKept, qq
<1>16. load[t].state \notin DOMAIN kk
  BY <1>3, <1>4, <1>6, <1>10
<1>17. PageFits(page[t], r, kk, rq, forks)
  BY <1>4, <1>11 DEF PageFits
<1>18. StepFits(page[t], r, kk, rq, forks)
  BY <1>4, <1>7, <1>11, <1>15, <1>16 DEF StepFits
<1>19. TabFits(page[t], r, kk, rq, forks)
  BY <1>7, <1>14, <1>17, <1>18 DEF TabFits, DataFits
<1>20. requests' = rq /\ kept' = [kept EXCEPT ![t] = kk] /\ load' = [load EXCEPT ![t] = r]
  BY <1>5 DEF rq, kk
<1> QED BY <1>1, <1>2, <1>7, <1>11, <1>12, <1>13, <1>19, <1>20, KeptSteps

-----------------------------------------------------------------------------
(* The steps of the user, the browser and account, which change the page.  *)

\* Other tabs stay where they are.
LEMMA PageSteps ==
    ASSUME BootInv, NEW t \in Tabs, NEW p \in Page, page' = [page EXCEPT ![t] = p],
           NEW r \in Load, load' = [load EXCEPT ![t] = r],
           UNCHANGED <<kept, requests, stored, loads>>,
           forks' \in Seq(Fork), Len(forks') <= MaxForks, MoreForks(forks, forks'),
           TabFits(p, r, kept[t], requests, forks')
    PROVE  BootInv'
<1>1. TypeOK'
  BY DEF BootInv, TypeOK
<1>2. /\ page'[t] = p /\ load'[t] = r
      /\ \A u \in Tabs : u # t => page'[u] = page[u] /\ load'[u] = load[u]
  BY DEF BootInv, TypeOK
<1>3. ASSUME NEW u \in Tabs
      PROVE  TabFits(page'[u], load'[u], kept[u], requests, forks')
  <2>1. CASE u = t
    BY <1>2, <2>1
  <2>2. CASE u # t
    <3>1. TabFits(page[u], load[u], kept[u], requests, forks)
      BY TabFacts
    <3>2. TabFits(page[u], load[u], kept[u], requests, forks')
      BY <3>1, TabStays, NoMore
    <3> QED BY <1>2, <2>2, <3>2
  <2> QED BY <2>1, <2>2
<1>4. AllTabsFit'
  BY <1>3 DEF AllTabsFit
<1> QED BY <1>1, <1>4 DEF BootInv

\* The same, when nothing happens to the forks or the page's load.
LEMMA PageMoves ==
    ASSUME BootInv, NEW t \in Tabs, NEW p \in Page, page' = [page EXCEPT ![t] = p],
           UNCHANGED <<kept, requests, forks, stored, load, loads>>,
           TabFits(p, load[t], kept[t], requests, forks)
    PROVE  BootInv'
<1>1. /\ load[t] \in Load /\ load' = [load EXCEPT ![t] = load[t]]
      /\ forks' \in Seq(Fork) /\ Len(forks') <= MaxForks
  BY DEF BootInv, TypeOK
<1>2. MoreForks(forks, forks') /\ TabFits(p, load[t], kept[t], requests, forks')
  BY NoMore
<1> QED BY <1>1, <1>2, PageSteps

\* The application's own URL needs nothing.
LEMMA EnterKeeps ==
    ASSUME BootInv, NEW t \in Tabs, Enter(t) \/ Abandon(t) PROVE BootInv'
<1> DEFINE p == [at |-> "app"]
<1>1. TabFits(page[t], load[t], kept[t], requests, forks)
  BY TabFacts
<1>2. p \in Page /\ p.at = "app"
  BY DEF Page
<1>3. /\ load[t].step \in {"authenticated", "none"}
      /\ page' = [page EXCEPT ![t] = p]
      /\ UNCHANGED <<kept, requests, forks, stored, load, loads>>
  BY Zenon DEF Enter, Abandon, At
<1> HIDE DEF p
<1>4. PageFits(p, load[t], kept[t], requests, forks)
  BY <1>2 DEF PageFits
<1>5. StepFits(p, load[t], kept[t], requests, forks)
  BY <1>1, <1>3 DEF TabFits, StepFits
<1>6. TabFits(p, load[t], kept[t], requests, forks)
  BY <1>1, <1>2, <1>3, <1>4, <1>5 DEF TabFits, DataFits
<1> QED BY <1>2, <1>3, <1>6, PageMoves

\* Nor does account, for a link.
LEMMA AuthorizeLinkKeeps ==
    ASSUME BootInv, NEW t \in Tabs, NEW u \in Tabs \ {t}, AuthorizeLink(t, u)
    PROVE  BootInv'
<1> DEFINE p == [at |-> "account", request |-> None]
<1>1. TabFits(page[u], load[u], kept[u], requests, forks)
  BY TabFacts
<1>2. p \in Page /\ p.at = "account" /\ p.request = None
  BY DEF Page
<1>3. /\ load[u].step = "none" /\ page' = [page EXCEPT ![u] = p]
      /\ UNCHANGED <<kept, requests, forks, stored, load, loads>>
  BY DEF AuthorizeLink, At
<1> HIDE DEF p
<1>4. PageFits(p, load[u], kept[u], requests, forks)
  BY <1>2, <1>3 DEF PageFits, RequestKept
<1>5. StepFits(p, load[u], kept[u], requests, forks)
  BY <1>1, <1>3 DEF TabFits, StepFits
<1>6. TabFits(p, load[u], kept[u], requests, forks)
  BY <1>1, <1>3, <1>4, <1>5 DEF TabFits, DataFits
<1> QED BY <1>2, <1>3, <1>6, PageMoves

\* A tab leaves with a request it keeps the state of.
LEMMA LeaveKeeps ==
    ASSUME BootInv, NEW t \in Tabs, Leave(t) PROVE BootInv'
<1> DEFINE p == [at |-> "account", request |-> load[t].request]
<1>1. /\ TabFits(page[t], load[t], kept[t], requests, forks) /\ load[t] \in Load
      /\ NewLoad \in Load /\ forks \in Seq(Fork) /\ Len(forks) <= MaxForks
  BY TabFacts DEF BootInv, TypeOK
<1>2. p \in Page /\ p.at = "account" /\ p.request = load[t].request
  BY <1>1 DEF Page, Load
<1>3. /\ load[t].step = "unauthorized" /\ page' = [page EXCEPT ![t] = p]
      /\ load' = [load EXCEPT ![t] = NewLoad]
      /\ UNCHANGED <<kept, requests, forks, stored, loads>>
  BY DEF Leave, At, To
<1> HIDE DEF p
<1>4. RequestKept(p.request, kept[t], requests)
  BY <1>1, <1>2, <1>3 DEF TabFits, StepFits
<1>5. PageFits(p, NewLoad, kept[t], requests, forks)
  BY <1>2, <1>4 DEF PageFits, NewLoad
<1>6. StepFits(p, NewLoad, kept[t], requests, forks)
  BY DEF StepFits, NewLoad
<1>7. DataFits(p, NewLoad)
  BY DEF DataFits, NewLoad
<1>8. TabFits(p, NewLoad, kept[t], requests, forks')
  BY <1>1, <1>3, <1>5, <1>6, <1>7 DEF TabFits
<1>9. forks' \in Seq(Fork) /\ Len(forks') <= MaxForks /\ MoreForks(forks, forks')
  BY <1>1, <1>3, NoMore
<1> QED BY <1>1, <1>2, <1>3, <1>8, <1>9, PageSteps

\* Account binds a fork to the secret of its request, and the tab has that secret.
LEMMA AccountForksKeeps ==
    ASSUME BootInv, NEW t \in Tabs, NEW id \in LocalIds, AccountForks(t, id)
    PROVE  BootInv'
<1> DEFINE n == page[t].request
           bound == n # None /\ requests[n].bound
           known == n # None /\ requests[n].state
           g == [id |-> id, pulled |-> FALSE, refused |-> FALSE,
                 secret |-> IF bound THEN n ELSE None]
           p == [at |-> "callback", fork |-> Len(forks) + 1,
                 state |-> IF known THEN n ELSE None]
<1>1. /\ TabFits(page[t], load[t], kept[t], requests, forks)
      /\ page[t] \in Page /\ load[t] \in Load /\ None \notin DOMAIN kept[t]
      /\ forks \in Seq(Fork) /\ Len(forks) \in Nat
      /\ load = [load EXCEPT ![t] = load[t]]
  BY TabFacts DEF BootInv, TypeOK
<1>2. /\ page[t].at = "account" /\ Len(forks) < MaxForks
      /\ forks' = Append(forks, g) /\ UNCHANGED <<kept, requests, stored, load, loads>>
  BY DEF AccountForks
<1>3. n \in Number \cup {None}
  BY <1>1, <1>2 DEF Page
<1>4. load[t].step = "none" /\ RequestKept(n, kept[t], requests)
  BY <1>1, <1>2 DEF TabFits, PageFits
<1>5. /\ g \in Fork
      /\ g.secret = IF bound THEN n ELSE None
  BY <1>3 DEF Fork
<1>6. /\ forks' \in Seq(Fork) /\ Len(forks') = Len(forks) + 1
      /\ forks'[Len(forks) + 1] = g
      /\ \A f \in Made(forks) : forks'[f] = forks[f]
  <2> HIDE DEF g
  <2> QED BY <1>1, <1>2, <1>5 DEF Made
<1>7. page' = [page EXCEPT ![t] = p]
  <2>1. Len(forks') = Len(forks) + 1
    BY <1>6
  <2> QED BY <2>1 DEF AccountForks
<1>8. p \in Page /\ p.at = "callback" /\ p.fork = Len(forks) + 1
      /\ p.state = IF known THEN n ELSE None
  BY <1>1, <1>2, <1>3, BoundAssumption DEF Page
<1> HIDE DEF g, p
<1>9. /\ MoreForks(forks, forks') /\ Len(forks') <= MaxForks
      /\ p.fork \in Made(forks') /\ forks'[p.fork] = g
  BY <1>1, <1>2, <1>6, <1>8, BoundAssumption DEF MoreForks, Made
<1>10. p.state \in Made(requests) \cup {None}
  BY <1>4, <1>8 DEF RequestKept
<1>11. Secret(kept[t], p.state) = g.secret
  BY <1>1, <1>4, <1>5, <1>8 DEF Secret, RequestKept
<1>12. PageFits(p, load[t], kept[t], requests, forks')
  BY <1>8, <1>9, <1>10, <1>11 DEF PageFits
<1>13. StepFits(p, load[t], kept[t], requests, forks')
  BY <1>1, <1>4 DEF TabFits, StepFits
<1>14. TabFits(p, load[t], kept[t], requests, forks')
  BY <1>1, <1>4, <1>12, <1>13 DEF TabFits, DataFits
<1>15. load' = [load EXCEPT ![t] = load[t]]
  BY <1>1, <1>2
<1> QED BY <1>1, <1>2, <1>6, <1>7, <1>8, <1>9, <1>14, <1>15, PageSteps

-----------------------------------------------------------------------------
(* The theorems.                                                           *)

\* At first no tab has anything.
LEMMA BootInvInit == ASSUME Init PROVE BootInv
<1>1. NewLoad \in Load
  BY DEF NewLoad, Load, Ended, Id, Switch, Intent
<1>2. [at |-> "app"] \in Page
  BY DEF Page
<1>3. TypeOK
  BY <1>1, <1>2, BoundAssumption DEF Init, TypeOK
<1>4. ASSUME NEW t \in Tabs
      PROVE  TabFits([at |-> "app"], NewLoad, <<>>, <<>>, <<>>)
  BY DEF TabFits, KeptFits, PageFits, StepFits, DataFits, NewLoad, Made
<1>5. AllTabsFit
  BY <1>4 DEF Init, AllTabsFit
<1>6. kept = [t \in Tabs |-> kept[t]]
  BY DEF Init
<1> QED BY <1>3, <1>5, <1>6 DEF BootInv

\* Every step keeps the invariant.
LEMMA BootInvStep == ASSUME BootInv, [Next]_vars PROVE BootInv'
<1>1. ASSUME UNCHANGED vars PROVE BootInv'
  BY <1>1 DEF vars, BootInv, TypeOK, AllTabsFit
<1>2. ASSUME NEW t \in Tabs, Client(t) PROVE BootInv'
  BY <1>2, LookupKeeps, PullKeeps, CookiesKeeps, SaveKeeps, AuthorizeKeeps,
     SigningOutKeeps DEF Client
<1> QED BY <1>1, <1>2, ReloadKeeps, EnterKeeps, LeaveKeeps, GetSessionKeeps, AskKeeps,
           AuthorizeLinkKeeps, SignOutKeeps, AccountForksKeeps DEF Next

\* The inductive invariant: which secret and which data a tab has in every step
\* of its page, and when the state of its fork is forgotten.
THEOREM Invariance == Spec => []BootInv
<1>1. Init => BootInv
  BY BootInvInit
<1>2. BootInv /\ [Next]_vars => BootInv'
  BY BootInvStep
<1> QED BY <1>1, <1>2, PTL DEF Spec

\* A fork that can still be pulled finds its secret in the tab it came back to,
\* through reloads and transient errors, whatever other tabs do.
THEOREM OwnForksWork == Spec => []OwnForksCanBePulled
<1>1. ASSUME BootInv PROVE OwnForksCanBePulled
  <2>1. ASSUME NEW t \in Tabs, page[t].at = "callback",
               ~forks[page[t].fork].pulled, ~forks[page[t].fork].refused
        PROVE  /\ FromKey(t, page[t].state).secret = forks[page[t].fork].secret
               /\ At(t, "pull") => load[t].secret = forks[page[t].fork].secret
    <3>1. TabFits(page[t], load[t], kept[t], requests, forks)
      BY <1>1, TabFacts
    <3>2. ~Spent(forks[page[t].fork])
      BY <2>1 DEF Spent
    <3>3. FromKey(t, page[t].state).secret = Secret(kept[t], page[t].state)
      BY DEF FromKey, Secret
    <3> QED BY <2>1, <3>1, <3>2, <3>3 DEF TabFits, PageFits, StepFits, At
  <2> QED BY <1>1, <2>1 DEF OwnForksCanBePulled, BootInv
<1> QED BY <1>1, Invariance, PTL

\* The data an application asked with comes back with its session, through any
\* number of forks that failed, unless a reload lost it before.
THEOREM DataIsReturned == Spec => []DataComesBack
<1>1. ASSUME BootInv PROVE DataComesBack
  BY <1>1, TabFacts DEF DataComesBack, TabFits, DataFits, At
<1> QED BY <1>1, Invariance, PTL

\* A tab whose session is set up, or that is sent off again, has forgotten the
\* state it came back with.
THEOREM SpentStatesGo == Spec => []SpentStatesAreForgotten
<1>1. ASSUME BootInv PROVE SpentStatesAreForgotten
  BY <1>1, TabFacts DEF SpentStatesAreForgotten, TabFits, StepFits, At
<1> QED BY <1>1, Invariance, PTL
=============================================================================
