-------------------------- MODULE WorkerPool_proofs --------------------------
(***************************************************************************)
(* Theorems of WorkerPool, for any pool and any finite number of calls: an *)
(* index belongs to one key, in all workers and across restarts; a use     *)
(* finds its key unless that was cleared before the use was posted; a key  *)
(* that was cleared is in no worker once the clearing call is answered;    *)
(* and the workers together are one KeyStore, which takes the calls in the *)
(* order in which they are posted.                                         *)
(***************************************************************************)
EXTENDS WorkerPool, FiniteSetTheorems, SequenceTheorems, TLAPS

-----------------------------------------------------------------------------
(* What becomes of one call.                                               *)

\* A call has an index from the time the first worker added its key, and
\* refers to a key if its kind does.
SoundCall == {r \in CallRecord :
                 /\ r.idx \in Nat <=> r.stage \in {"export", "rest"}
                 /\ r.kind \in Referring => r.ref \in Calls}

\* A call that fails keeps its index.
LEMMA FailRecord ==
    ASSUME NEW r \in SoundCall
    PROVE  Fail(r) \in SoundCall /\ Fail(r).idx = r.idx
BY DEF Fail, SoundCall, CallRecord

\* So does one that is answered.
LEMMA AnsweredRecord ==
    ASSUME NEW r \in SoundCall, NEW w \in Workers
    PROVE  Answered(r, w) \in SoundCall /\ Answered(r, w).idx = r.idx
<1> DEFINE todo == r.todo \ {w}
           result == IF todo = {} /\ r.result = "none" THEN "ok" ELSE r.result
<1>1. todo \in SUBSET Workers /\ result \in {"none", "ok", "fail", "lost"}
  BY DEF SoundCall, CallRecord
<1>2. Answered(r, w) = [r EXCEPT !.todo = todo, !.result = result]
  BY DEF Answered, SoundCall, CallRecord
<1> HIDE DEF todo, result
<1> QED BY <1>1, <1>2 DEF SoundCall, CallRecord

\* There is a first worker.
LEMMA FirstIsWorker == First \in Workers
BY PoolSizeAssumption DEF First, Workers

\* A key that was added has the index it was given.
LEMMA AddedRecord ==
    ASSUME NEW r \in SoundCall, NEW n \in Nat
    PROVE  Added(r, n) \in SoundCall /\ Added(r, n).idx = n
<1> DEFINE stage == IF r.kind = "import" THEN "rest" ELSE "export"
           todo == IF r.kind = "import" THEN Workers \ {First} ELSE {First}
<1>1. stage \in {"rest", "export"} /\ todo \in SUBSET Workers
  BY FirstIsWorker
<1>2. Added(r, n) = [r EXCEPT !.idx = n, !.stage = stage, !.todo = todo]
  BY Zenon DEF Added
<1> HIDE DEF stage, todo
<1> QED BY <1>1, <1>2 DEF SoundCall, CallRecord

\* An export changes no index.
LEMMA ExportedRecord ==
    ASSUME NEW r \in SoundCall, r.stage = "export"
    PROVE  Exported(r) \in SoundCall /\ Exported(r).idx = r.idx
BY DEF Exported, SoundCall, CallRecord

-----------------------------------------------------------------------------
(* What becomes of all calls and messages when one changes.                *)

Typed == TypeOK /\ call \in [Calls -> SoundCall]

\* A call that changes leaves the others alone.
LEMMA OneCall ==
    ASSUME Typed, NEW c \in Calls, NEW r \in SoundCall,
           call' = [call EXCEPT ![c] = r]
    PROVE  /\ call' \in [Calls -> SoundCall]
           /\ \A d \in Calls : call'[d] = IF d = c THEN r ELSE call[d]
BY DEF Typed

\* Posting keeps the inboxes' type.
LEMMA PostedType ==
    ASSUME NEW box \in [Workers -> Seq(Calls)], NEW c \in Calls, NEW ws
    PROVE  Posted(box, c, ws) \in [Workers -> Seq(Calls)]
BY DEF Posted

\* So does taking a message.
LEMMA RestType ==
    ASSUME TypeOK, NEW w \in Workers, NEW c \in Calls, AtHead(w, c)
    PROVE  Rest(w) \in [Workers -> Seq(Calls)]
BY DEF TypeOK, AtHead, Rest

\* The call goes on with r or fails, and keeps r's index.
LEMMA ContinueRecord ==
    ASSUME NEW c \in Calls, NEW r \in SoundCall,
           NEW box \in [Workers -> Seq(Calls)], Continue(c, r, box)
    PROVE  /\ inbox' \in [Workers -> Seq(Calls)]
           /\ \E q \in SoundCall : /\ call' = [call EXCEPT ![c] = q]
                                   /\ q.idx = r.idx
<1>1. inbox' \in [Workers -> Seq(Calls)]
  BY PostedType DEF Continue
<1> DEFINE ok == [r EXCEPT !.result = "ok"]
           q == IF r.todo = {} THEN ok
                ELSE IF r.todo \cap released # {} THEN Fail(r) ELSE r
<1>2. ok \in SoundCall /\ ok.idx = r.idx
  BY DEF SoundCall, CallRecord
<1>3. q \in SoundCall /\ q.idx = r.idx
  BY <1>2, FailRecord
<1>4. call' = [call EXCEPT ![c] = q]
  BY Zenon DEF Continue
<1> HIDE DEF q
<1> QED BY <1>1, <1>3, <1>4

-----------------------------------------------------------------------------
(* The steps that neither load a pool nor hand out an index.               *)

Settled ==
    /\ Typed'
    /\ UNCHANGED <<nextIdx, drawn>>
    /\ \A d \in Calls : call'[d].idx = call[d].idx
    /\ \A w \in Workers : \A e \in store'[w] :
          e \in store[w] \/ e.idx = call[e.key].idx
    /\ pool' = "ready" => pool = "ready"

\* One lemma per action, unless it loads a pool or gives an index.
LEMMA PoolStep ==
    ASSUME Typed, InitPool \/ FailLoad PROVE Settled
BY DEF InitPool, FailLoad, workers, Typed, TypeOK, Settled

LEMMA CallStep ==
    ASSUME Typed, NEW c \in Calls,
           NEW kind \in Adding \cup Clearing \cup Using,
           NEW ref \in Calls \cup {None}, Call(c, kind, ref)
    PROVE  Settled
<1> DEFINE r == [Idle EXCEPT !.kind = kind, !.ref = ref, !.stage = "called"]
           result == IF kind = "destroy" THEN "ok" ELSE "fail"
           failed == [r EXCEPT !.late = TRUE, !.result = result]
           q == IF pool # "null" THEN r ELSE failed
<1>1. kind \in Referring => ref \in Calls
  BY DEF Call
<1>2. r \in SoundCall /\ r.idx = None
  BY <1>1, NoneAssumption DEF Idle, SoundCall, CallRecord
<1>3. result \in {"ok", "fail"}
  OBVIOUS
<1>4. call' = [call EXCEPT ![c] = q]
  BY Zenon DEF Call
<1>5. call[c].idx = None
  BY DEF Call, Typed, SoundCall, CallRecord
<1> HIDE DEF r, result
<1>6. failed \in SoundCall /\ failed.idx = None
  BY <1>2, <1>3 DEF SoundCall, CallRecord
<1>7. q \in SoundCall /\ q.idx = None
  BY <1>2, <1>6
<1> HIDE DEF failed, q
<1>8. /\ call' \in [Calls -> SoundCall]
      /\ \A d \in Calls : call'[d].idx = call[d].idx
  BY <1>4, <1>5, <1>7, OneCall
<1>9. UNCHANGED <<pool, i, inbox, running, store, nextIdx, drawn, released,
                  cleared, gone>>
  BY Zenon DEF Call, workers
<1> QED BY <1>8, <1>9 DEF Typed, TypeOK, Settled, SoundCall

LEMMA PostStep ==
    ASSUME Typed, NEW c \in Calls, Post(c) PROVE Settled
<1> DEFINE r  == call[c]
           ws == Targets(r.kind)
           refused == pool = "failed" \/ ws \cap released # {}
           stage == IF r.kind \in Adding THEN "first" ELSE "once"
           todo == IF refused THEN {} ELSE ws
           late == refused \/ r.ref \in cleared
           barred == refused \/ Closing \/ r.ref \in gone
           seen == CASE r.kind = "clearKey" -> {r.ref}
                     [] r.kind = "clearKeyStore" -> {d \in Calls : HandedOut(d)}
                     [] OTHER -> {}
           result == IF refused THEN "fail" ELSE "none"
           q == [r EXCEPT !.stage = stage, !.todo = todo, !.late = late,
                          !.barred = barred, !.seen = seen, !.result = result]
<1>1. TypeOK /\ r \in SoundCall
  BY DEF Typed
<1>2. NextWorker \in Workers
  BY <1>1, PoolSizeAssumption DEF TypeOK, NextWorker, Workers
<1>3. ws \in SUBSET Workers
  BY <1>2, FirstIsWorker DEF Targets
<1>4. call' = [call EXCEPT ![c] = q]
  BY Zenon DEF Post
<1>5. r.kind = "clearKey" => r.ref \in Calls
  BY <1>1 DEF SoundCall, Referring
<1>6. /\ stage \in {"first", "once"} /\ todo \in SUBSET Workers
      /\ late \in BOOLEAN /\ barred \in BOOLEAN /\ seen \in SUBSET Calls
      /\ result \in {"fail", "none"}
  BY <1>3, <1>5
<1>7. r.idx = None /\ r.stage = "called"
  BY <1>1 DEF Post, SoundCall, CallRecord
<1> HIDE DEF refused, stage, todo, late, barred, seen, result, ws
<1>8. q \in SoundCall /\ q.idx = r.idx
  BY <1>1, <1>6, <1>7, NoneAssumption DEF SoundCall, CallRecord
<1>9. /\ call' \in [Calls -> SoundCall]
      /\ \A d \in Calls : call'[d].idx = call[d].idx
  BY <1>4, <1>8, OneCall
<1>10. UNCHANGED <<pool, running, store, nextIdx, drawn, released>>
  BY Zenon DEF Post
<1>11. inbox' \in [Workers -> Seq(Calls)]
  BY <1>1, PostedType DEF Post, TypeOK
<1>12. i' \in Workers
  BY <1>1, <1>2 DEF Post, TypeOK
<1>13. cleared' \subseteq Calls /\ gone' \subseteq Calls
  BY <1>1, <1>5 DEF Post, TypeOK
<1> QED BY <1>1, <1>9, <1>10, <1>11, <1>12, <1>13
        DEF Typed, TypeOK, Settled, SoundCall

\* A worker's step that leaves its store and the counter alone.
LEMMA QuietStep ==
    ASSUME Typed, NEW c \in Calls, NEW r \in SoundCall,
           call' = [call EXCEPT ![c] = r], r.idx = call[c].idx,
           inbox' \in [Workers -> Seq(Calls)],
           running' \in [Workers -> SUBSET Calls],
           \A w \in Workers : \A e \in store'[w] :
              e \in store[w] \/ e.idx = call[e.key].idx,
           store' \in [Workers -> SUBSET [idx : Nat, key : Calls]],
           UNCHANGED <<pool, i, nextIdx, drawn, released, cleared, gone>>
    PROVE  Settled
<1>1. /\ call' \in [Calls -> SoundCall]
      /\ \A d \in Calls : call'[d].idx = call[d].idx
  BY OneCall
<1> QED BY <1>1 DEF Typed, TypeOK, Settled, SoundCall

LEMMA BeginStep ==
    ASSUME Typed, NEW w \in Workers, NEW c \in Calls, Begin(w, c)
    PROVE  Settled
<1>1. TypeOK /\ call[c] \in SoundCall /\ inbox' \in [Workers -> Seq(Calls)]
  BY RestType DEF Begin, Typed
<1>2. UNCHANGED <<pool, i, store, nextIdx, drawn, released, cleared, gone>>
  BY Zenon DEF Begin
<1>3. CASE call' = [call EXCEPT ![c] = Fail(call[c])] /\ UNCHANGED running
  BY <1>1, <1>2, <1>3, FailRecord, QuietStep DEF TypeOK
<1>4. CASE running' = [running EXCEPT ![w] = @ \cup {c}] /\ UNCHANGED call
  <2>1. running' \in [Workers -> SUBSET Calls]
    BY <1>1, <1>4 DEF TypeOK
  <2>2. call' = [call EXCEPT ![c] = call[c]]
    BY <1>4 DEF Typed
  <2> QED BY <1>1, <1>2, <2>1, <2>2, QuietStep DEF TypeOK
<1> QED BY <1>3, <1>4, Zenon DEF Begin

LEMMA AddToStep ==
    ASSUME Typed, NEW w \in Workers, NEW c \in Calls, AddTo(w, c)
    PROVE  Settled
<1>1. TypeOK /\ call[c] \in SoundCall
  BY DEF Typed
<1>2. UNCHANGED <<pool, i, inbox, nextIdx, drawn, released, cleared, gone>>
  BY Zenon DEF AddTo
<1>3. running' \in [Workers -> SUBSET Calls]
  BY <1>1 DEF AddTo, TypeOK
<1>4. call[c].idx \in Nat
  BY <1>1 DEF AddTo, SoundCall
<1>5. CASE call' = [call EXCEPT ![c] = Fail(call[c])] /\ UNCHANGED store
  BY <1>1, <1>2, <1>3, <1>5, FailRecord, QuietStep DEF TypeOK
<1>6. CASE /\ store' = [store EXCEPT ![w] = @ \cup {[idx |-> call[c].idx, key |-> c]}]
           /\ call' = [call EXCEPT ![c] = Answered(call[c], w)]
  <2> DEFINE e == [idx |-> call[c].idx, key |-> c]
  <2>1. e \in [idx : Nat, key : Calls] /\ e.idx = call[e.key].idx
    BY <1>4
  <2>2. store' = [store EXCEPT ![w] = store[w] \cup {e}]
    BY <1>6
  <2> HIDE DEF e
  <2>3. /\ store' \in [Workers -> SUBSET [idx : Nat, key : Calls]]
        /\ \A v \in Workers : \A x \in store'[v] :
              x \in store[v] \/ x.idx = call[x.key].idx
    BY <1>1, <2>1, <2>2 DEF TypeOK
  <2> QED BY <1>1, <1>2, <1>3, <1>6, <2>3, AnsweredRecord, QuietStep DEF TypeOK
<1> QED BY <1>5, <1>6, Zenon DEF AddTo

LEMMA FailToAddStep ==
    ASSUME Typed, NEW w \in Workers, NEW c \in Calls, FailToAdd(w, c)
    PROVE  Settled
<1>1. TypeOK /\ call[c] \in SoundCall
  BY DEF Typed
<1>2. running' \in [Workers -> SUBSET Calls]
  BY <1>1 DEF FailToAdd, TypeOK
<1>3. /\ UNCHANGED <<pool, i, inbox, store, nextIdx, drawn, released, cleared, gone>>
      /\ call' = [call EXCEPT ![c] = Fail(call[c])]
  BY Zenon DEF FailToAdd
<1> QED BY <1>1, <1>2, <1>3, FailRecord, QuietStep DEF TypeOK

LEMMA ExportStep ==
    ASSUME Typed, NEW c \in Calls, Export(c) PROVE Settled
<1>1. /\ TypeOK /\ call[c] \in SoundCall /\ call[c].stage = "export"
      /\ Rest(First) \in [Workers -> Seq(Calls)]
  BY RestType, FirstIsWorker DEF Export, Typed
<1>2. UNCHANGED <<pool, i, running, store, nextIdx, drawn, released, cleared, gone>>
  BY Zenon DEF Export
<1>3. CASE Continue(c, Exported(call[c]), Rest(First))
  <2>1. Exported(call[c]) \in SoundCall /\ Exported(call[c]).idx = call[c].idx
    BY <1>1, ExportedRecord
  <2>2. /\ inbox' \in [Workers -> Seq(Calls)]
        /\ \E q \in SoundCall : call' = [call EXCEPT ![c] = q] /\ q.idx = call[c].idx
    BY <1>1, <1>3, <2>1, ContinueRecord
  <2> QED BY <1>1, <1>2, <2>2, QuietStep DEF TypeOK
<1>4. CASE /\ call' = [call EXCEPT ![c] = Fail(call[c])]
           /\ inbox' = Rest(First)
  BY <1>1, <1>2, <1>4, FailRecord, QuietStep DEF TypeOK
<1> QED BY <1>3, <1>4, Zenon DEF Export

\* Calls that are answered from the inbox, and only take keys from a store.
LEMMA AnswerStep ==
    ASSUME Typed, NEW w \in Workers, NEW c \in Calls,
           Use(w, c) \/ ClearKey(w, c) \/ ClearAll(w, c)
    PROVE  Settled
<1>1. /\ TypeOK /\ call[c] \in SoundCall /\ inbox' \in [Workers -> Seq(Calls)]
  BY RestType DEF Use, ClearKey, ClearAll, Typed
<1>2. UNCHANGED <<pool, i, running, nextIdx, drawn, released, cleared, gone>>
  BY Zenon DEF Use, ClearKey, ClearAll
<1>3. \E r \in {Fail(call[c]), Answered(call[c], w)} :
         call' = [call EXCEPT ![c] = r]
  BY Zenon DEF Use, ClearKey, ClearAll
<1>4. \E keys \in SUBSET store[w] : store' = [store EXCEPT ![w] = keys]
  <2>1. CASE Use(w, c)
    <3>1. store' = [store EXCEPT ![w] = store[w]]
      BY <1>1, <2>1 DEF Use, TypeOK
    <3> QED BY <3>1
  <2>2. CASE ClearKey(w, c)
    <3>1. store' = [store EXCEPT ![w] =
                      {e \in store[w] : e.idx # call[call[c].ref].idx}]
      BY <2>2, Zenon DEF ClearKey
    <3> QED BY <3>1
  <2>3. CASE ClearAll(w, c)
    <3>1. store' = [store EXCEPT ![w] = {}]
      BY <2>3, Zenon DEF ClearAll
    <3> QED BY <3>1
  <2> QED BY <2>1, <2>2, <2>3
<1>5. /\ store' \in [Workers -> SUBSET [idx : Nat, key : Calls]]
      /\ \A v \in Workers : store'[v] \subseteq store[v]
  BY <1>1, <1>4 DEF TypeOK
<1> QED BY <1>1, <1>2, <1>3, <1>5, FailRecord, AnsweredRecord, QuietStep DEF TypeOK

\* A released worker leaves the calls that wait for it, but not their indices.
LEMMA ReleaseStep ==
    ASSUME Typed, NEW w \in Workers, NEW c \in Calls, Release(w, c)
    PROVE  Settled
<1> DEFINE r == Answered(call[c], w)
           last == r.result = "ok"
           lost(d) == [call[d] EXCEPT !.result = "lost"]
           late(d) == [call[d] EXCEPT !.result = "fail", !.late = TRUE]
           after(d) == IF d = c THEN r
              ELSE IF Pending(d) /\ w \in call[d].todo THEN lost(d)
              ELSE IF last /\ Pending(d) /\ call[d].stage = "called" THEN late(d)
              ELSE call[d]
<1>1. /\ TypeOK /\ \A d \in Calls : call[d] \in SoundCall
  BY DEF Typed
<1>2. call' = [d \in Calls |-> after(d)]
  BY Zenon DEF Release
<1>3. ASSUME NEW d \in Calls PROVE after(d) \in SoundCall /\ after(d).idx = call[d].idx
  <2>1. call[d] \in SoundCall
    BY <1>1
  <2>2. lost(d) \in SoundCall /\ lost(d).idx = call[d].idx
    BY <2>1 DEF SoundCall, CallRecord
  <2>3. late(d) \in SoundCall /\ late(d).idx = call[d].idx
    BY <2>1 DEF SoundCall, CallRecord
  <2>4. d = c => r \in SoundCall /\ r.idx = call[d].idx
    BY <2>1, AnsweredRecord
  <2> HIDE DEF r, lost, late
  <2> QED BY <2>1, <2>2, <2>3, <2>4
<1> HIDE DEF after
<1>4. /\ call' \in [Calls -> SoundCall]
      /\ \A d \in Calls : call'[d].idx = call[d].idx
  BY <1>2, <1>3
<1> HIDE DEF r
<1>5. /\ pool' = IF last THEN "null" ELSE pool
      /\ released' = IF last THEN {} ELSE released \cup {w}
      /\ inbox' = [v \in Workers |-> IF last \/ v = w THEN <<>> ELSE inbox[v]]
      /\ running' = [v \in Workers |-> IF last \/ v = w THEN {} ELSE running[v]]
      /\ store' = [store EXCEPT ![w] = {}]
      /\ UNCHANGED <<i, nextIdx, drawn, cleared, gone>>
  BY Zenon DEF Release, r
<1>6. /\ pool' \in {"null", "loading", "ready", "failed"}
      /\ pool' = "ready" => pool = "ready"
  BY <1>1, <1>5 DEF TypeOK
<1>7. /\ inbox' \in [Workers -> Seq(Calls)]
      /\ running' \in [Workers -> SUBSET Calls]
      /\ released' \subseteq Workers
  BY <1>1, <1>5 DEF TypeOK
<1>8. /\ store' \in [Workers -> SUBSET [idx : Nat, key : Calls]]
      /\ \A v \in Workers : store'[v] \subseteq store[v]
  BY <1>1, <1>5 DEF TypeOK
<1> QED BY <1>1, <1>4, <1>5, <1>6, <1>7, <1>8 DEF Typed, TypeOK, Settled, SoundCall
-----------------------------------------------------------------------------
(* Indices.  Each pool counts on from a start of its own, no further than  *)
(* there are calls, so it never meets what another pool has handed out.    *)

Numbered == {c \in Calls : call[c].idx # None}

\* An index that was handed out by the pool that started from r, at any time.
CountedFrom(r, n) == r <= n /\ n < r + Cardinality(Calls)

\* The counter started from s, and the indices of earlier pools elsewhere.
InUse(s) ==
    /\ s <= nextIdx
    /\ nextIdx <= s + Cardinality(Numbered)
    /\ \A c \in Numbered :
          \/ s <= call[c].idx /\ call[c].idx < nextIdx
          \/ \E r \in drawn \ {s} : CountedFrom(r, call[c].idx)

CountersApart == drawn # {} => \E s \in drawn : InUse(s)

NothingBeforeLoad ==
    /\ pool = "ready" => drawn # {}
    /\ drawn = {} => /\ Numbered = {}
                     /\ \A w \in Workers : inbox[w] = <<>> /\ running[w] = {}

StoresMatch == \A w \in Workers : \A e \in store[w] : e.idx = call[e.key].idx

IndicesDiffer ==
    \A c, d \in Calls : call[c].idx # None /\ call[c].idx = call[d].idx => c = d

PoolInv == /\ Typed /\ StoresMatch /\ IndicesDiffer /\ CountersApart
           /\ NothingBeforeLoad

\* No more calls have an index than there are calls.
LEMMA NumberedSize ==
    /\ IsFiniteSet(Numbered) /\ Cardinality(Numbered) \in Nat
    /\ Cardinality(Calls) \in Nat
    /\ Cardinality(Numbered) <= Cardinality(Calls)
    /\ \A c \in Calls \ Numbered : Cardinality(Numbered) < Cardinality(Calls)
<1>1. Numbered \subseteq Calls
  BY DEF Numbered
<1>2. /\ IsFiniteSet(Numbered) /\ Cardinality(Numbered) \in Nat
      /\ Cardinality(Calls) \in Nat
      /\ Cardinality(Numbered) <= Cardinality(Calls)
  BY <1>1, CallsAssumption, FS_Subset, FS_CardinalityType
<1>3. ASSUME NEW c \in Calls \ Numbered
      PROVE  Cardinality(Numbered) < Cardinality(Calls)
  <2>1. Cardinality(Numbered \cup {c}) = Cardinality(Numbered) + 1
    BY <1>2, FS_AddElement
  <2>2. Cardinality(Numbered \cup {c}) <= Cardinality(Calls)
    BY <1>1, CallsAssumption, FS_Subset
  <2> QED BY <1>2, <2>1, <2>2
<1> QED BY <1>2, <1>3

\* What is known of the numbers.
LEMMA NumberTypes ==
    ASSUME Typed
    PROVE  /\ nextIdx \in Nat /\ drawn \subseteq Nat
           /\ \A c \in Numbered : call[c].idx \in Nat
BY StartsAssumption DEF Typed, TypeOK, Numbered, CallRecord

\* What such a step keeps of the invariant.
LEMMA SettledKeeps ==
    ASSUME PoolInv, Settled
    PROVE  /\ Typed' /\ StoresMatch' /\ IndicesDiffer' /\ CountersApart'
           /\ Numbered' = Numbered
           /\ pool' = "ready" => drawn' # {}
<1>1. Typed' /\ UNCHANGED <<nextIdx, drawn>>
  BY DEF Settled
<1>2. \A d \in Calls : call'[d].idx = call[d].idx
  BY DEF Settled
<1>3. Numbered' = Numbered
  BY <1>2 DEF Numbered
<1>4. CountersApart'
  <2>1. ASSUME NEW s \in drawn, InUse(s) PROVE InUse(s)'
    <3>1. \A c \in Numbered : call'[c].idx = call[c].idx
      BY <1>2 DEF Numbered
    <3> QED BY <1>1, <1>3, <2>1, <3>1 DEF InUse
  <2> QED BY <1>1, <2>1 DEF PoolInv, CountersApart
<1>5. StoresMatch'
  <2> SUFFICES ASSUME NEW w \in Workers, NEW e \in store'[w]
               PROVE  e.idx = call'[e.key].idx
    BY DEF StoresMatch
  <2>1. e \in [idx : Nat, key : Calls]
    BY <1>1 DEF Typed, TypeOK
  <2>2. e.idx = call[e.key].idx
    BY DEF Settled, PoolInv, StoresMatch
  <2> QED BY <1>2, <2>1, <2>2
<1>6. IndicesDiffer'
  BY <1>2 DEF PoolInv, IndicesDiffer
<1>7. pool' = "ready" => drawn' # {}
  BY <1>1 DEF Settled, PoolInv, NothingBeforeLoad
<1> QED BY <1>1, <1>3, <1>4, <1>5, <1>6, <1>7

\* A new pool starts apart from all indices there are.
LEMMA LoadKeeps == ASSUME PoolInv, Load PROVE PoolInv'
<1>1. PICK s \in Starts \ drawn : nextIdx' = s /\ drawn' = drawn \cup {s}
  BY DEF Load
<1>2. /\ UNCHANGED <<i, call, inbox, running, released, cleared, gone>>
      /\ pool' = "ready" /\ store' = [w \in Workers |-> {}]
  BY DEF Load
<1>3. Typed'
  BY <1>1, <1>2, StartsAssumption DEF PoolInv, Typed, TypeOK
<1>4. StoresMatch' /\ IndicesDiffer' /\ NothingBeforeLoad'
  BY <1>1, <1>2
     DEF PoolInv, StoresMatch, IndicesDiffer, NothingBeforeLoad
<1>5. Numbered' = Numbered
  BY <1>2 DEF Numbered
<1>6. \A c \in Numbered : \E r \in drawn : CountedFrom(r, call[c].idx)
  <2> SUFFICES ASSUME NEW c \in Numbered
               PROVE  \E r \in drawn : CountedFrom(r, call[c].idx)
    OBVIOUS
  <2>1. PICK r \in drawn : InUse(r)
    BY DEF PoolInv, NothingBeforeLoad, CountersApart
  <2>2. CASE r <= call[c].idx /\ call[c].idx < nextIdx
    <3>1. call[c].idx < r + Cardinality(Calls)
      BY <2>1, <2>2, NumberedSize, NumberTypes DEF InUse, PoolInv
    <3> QED BY <2>2, <3>1 DEF CountedFrom
  <2> QED BY <2>1, <2>2 DEF InUse
<1>7. InUse(s)'
  <2>1. s <= nextIdx' /\ nextIdx' <= s + Cardinality(Numbered)
    BY <1>1, NumberedSize, StartsAssumption
  <2>2. \A c \in Numbered : \E r \in drawn' \ {s} : CountedFrom(r, call[c].idx)
    BY <1>1, <1>6
  <2> QED BY <1>2, <1>5, <2>1, <2>2 DEF InUse, CountedFrom
<1>8. CountersApart'
  BY <1>1, <1>7 DEF CountersApart
<1> QED BY <1>3, <1>4, <1>8 DEF PoolInv

\* The counter names a key that no other index has ever named.
LEMMA AddKeeps == ASSUME PoolInv, NEW c \in Calls, Add(c) PROVE PoolInv'
<1> DEFINE n == nextIdx
<1>1. /\ Typed /\ TypeOK /\ call[c] \in SoundCall /\ First \in Workers
      /\ n \in Nat /\ call[c].idx = None
  BY FirstIsWorker DEF Add, PoolInv, Typed, TypeOK, SoundCall, CallRecord
<1>2. drawn # {}
  BY <1>1 DEF Add, PoolInv, NothingBeforeLoad
<1>3. PICK s \in drawn : InUse(s)
  BY <1>2 DEF PoolInv, CountersApart
<1>4. \A d \in Numbered : call[d].idx # n
  <2> SUFFICES ASSUME NEW d \in Numbered, call[d].idx = n PROVE FALSE
    OBVIOUS
  <2>1. PICK r \in drawn \ {s} : CountedFrom(r, n)
    BY <1>3, NumberTypes, <1>1 DEF InUse
  <2>2. n <= s + Cardinality(Calls) /\ s <= n
    BY <1>1, <1>3, NumberedSize, NumberTypes DEF InUse
  <2>3. r \in Starts /\ s \in Starts /\ r \in Nat /\ s \in Nat
    BY <1>1, StartsAssumption DEF TypeOK
  <2>4. r < s => r + Cardinality(Calls) < s
    BY <2>3, StartsAssumption
  <2>5. s < r => s + Cardinality(Calls) < r
    BY <2>3, StartsAssumption
  <2> QED BY <1>1, <2>1, <2>2, <2>3, <2>4, <2>5, NumberedSize DEF CountedFrom
<1>5. /\ Continue(c, Added(call[c], n), inbox)
      /\ Added(call[c], n) \in SoundCall /\ Added(call[c], n).idx = n
      /\ inbox \in [Workers -> Seq(Calls)]
  BY <1>1, AddedRecord, Zenon DEF Add, TypeOK
<1>6. PICK q \in SoundCall : /\ inbox' \in [Workers -> Seq(Calls)]
                             /\ call' = [call EXCEPT ![c] = q] /\ q.idx = n
  BY <1>5, ContinueRecord
<1>7. /\ call' \in [Calls -> SoundCall]
      /\ \A d \in Calls : call'[d] = IF d = c THEN q ELSE call[d]
  BY <1>1, <1>6, OneCall
<1> DEFINE e == [idx |-> n, key |-> c]
<1>8. /\ store' = [store EXCEPT ![First] = store[First] \cup {e}]
      /\ running' = [running EXCEPT ![First] = running[First] \ {c}]
      /\ nextIdx' = n + 1
      /\ UNCHANGED <<pool, i, drawn, released, cleared, gone>>
  BY Zenon DEF Add
<1>9. e \in [idx : Nat, key : Calls] /\ e.idx = n /\ e.key = c
  BY <1>1
<1> HIDE DEF e
<1>10. /\ store' \in [Workers -> SUBSET [idx : Nat, key : Calls]]
       /\ \A w \in Workers : \A x \in store'[w] : x \in store[w] \/ x = e
  BY <1>1, <1>8, <1>9 DEF TypeOK
<1>11. Typed'
  <2>1. running' \in [Workers -> SUBSET Calls] /\ nextIdx' \in Nat
    BY <1>1, <1>8 DEF TypeOK
  <2> QED BY <1>1, <1>6, <1>7, <1>8, <1>10, <2>1 DEF Typed, TypeOK, SoundCall
<1>12. StoresMatch'
  <2> SUFFICES ASSUME NEW w \in Workers, NEW x \in store'[w]
               PROVE  x.idx = call'[x.key].idx
    BY DEF StoresMatch
  <2>1. CASE x = e
    BY <1>6, <1>7, <1>9, <2>1
  <2>2. CASE x \in store[w]
    <3>1. x.idx = call[x.key].idx /\ x.idx \in Nat /\ x.key \in Calls
      BY <1>1, <2>2 DEF PoolInv, StoresMatch, TypeOK
    <3>2. x.key # c
      BY <1>1, <3>1, NoneAssumption
    <3> QED BY <1>7, <3>1, <3>2
  <2> QED BY <1>10, <2>1, <2>2
<1>13. IndicesDiffer'
  BY <1>4, <1>6, <1>7 DEF PoolInv, IndicesDiffer, Numbered
<1>14. c \notin Numbered /\ Numbered' = Numbered \cup {c}
  BY <1>1, <1>6, <1>7, NoneAssumption DEF Numbered
<1>15. Cardinality(Numbered') = Cardinality(Numbered) + 1
  BY <1>14, NumberedSize, FS_AddElement
<1>16. InUse(s)'
  <2>1. s \in Nat /\ s <= nextIdx'
    BY <1>1, <1>3, <1>8, NumberTypes DEF InUse
  <2>2. nextIdx' <= s + Cardinality(Numbered')
    BY <1>1, <1>3, <1>8, <1>15, <2>1, NumberedSize DEF InUse
  <2>3. ASSUME NEW d \in Numbered'
        PROVE  \/ s <= call'[d].idx /\ call'[d].idx < nextIdx'
               \/ \E r \in drawn' \ {s} : CountedFrom(r, call'[d].idx)
    <3>1. CASE d = c
      BY <1>1, <1>3, <1>6, <1>7, <1>8, <3>1 DEF InUse
    <3>2. CASE d \in Numbered /\ d # c
      <4>1. call'[d].idx = call[d].idx /\ call[d].idx \in Nat
        BY <1>1, <1>7, <3>2, NumberTypes DEF Numbered
      <4> QED BY <1>1, <1>3, <1>8, <3>2, <4>1 DEF InUse
    <3> QED BY <1>14, <3>1, <3>2
  <2> QED BY <2>1, <2>2, <2>3 DEF InUse, CountedFrom
<1>17. CountersApart' /\ NothingBeforeLoad'
  BY <1>2, <1>8, <1>16 DEF CountersApart, NothingBeforeLoad
<1> QED BY <1>11, <1>12, <1>13, <1>17 DEF PoolInv
\* Before the first pool is loaded no message is on its way.
LEMMA NothingStep ==
    ASSUME PoolInv, Settled, Next, ~Load, drawn = {}
    PROVE  \A w \in Workers : inbox'[w] = <<>> /\ running'[w] = {}
<1>1. /\ \A w \in Workers : inbox[w] = <<>> /\ running[w] = {}
      /\ pool # "ready"
  BY DEF PoolInv, NothingBeforeLoad
<1>2. SUFFICES UNCHANGED <<inbox, running>>
  BY <1>1
<1>3. CASE InitPool \/ FailLoad
  BY <1>3, Zenon DEF InitPool, FailLoad, workers
<1>4. ASSUME NEW c \in Calls,
             NEW kind \in Adding \cup Clearing \cup Using,
             NEW ref \in Calls \cup {None}, Call(c, kind, ref)
      PROVE  UNCHANGED <<inbox, running>>
  BY <1>4, Zenon DEF Call, workers
<1>5. ASSUME NEW c \in Calls, Post(c) PROVE UNCHANGED <<inbox, running>>
  BY <1>1, <1>5 DEF Post
<1>6. ASSUME NEW c \in Calls, Add(c) \/ Export(c) PROVE FALSE
  BY <1>1, <1>6, FirstIsWorker DEF Add, Export, AtHead
<1>7. ASSUME NEW w \in Workers, NEW c \in Calls,
             \/ Begin(w, c) \/ AddTo(w, c) \/ FailToAdd(w, c) \/ Use(w, c)
             \/ ClearKey(w, c) \/ ClearAll(w, c) \/ Release(w, c)
      PROVE  FALSE
  <2>1. ~AtHead(w, c) /\ c \notin running[w]
    BY <1>1 DEF AtHead
  <2> QED BY <1>7, <2>1, Zenon
          DEF Begin, AddTo, FailToAdd, Use, ClearKey, ClearAll, Release
<1> QED BY <1>3, <1>4, <1>5, <1>6, <1>7, Zenon DEF Next

\* Every step keeps the invariant.
LEMMA PoolInvStep == ASSUME PoolInv, [Next]_vars PROVE PoolInv'
<1>1. Typed
  BY DEF PoolInv
<1>2. CASE Load
  BY <1>2, LoadKeeps
<1>3. ASSUME NEW c \in Calls, Add(c) PROVE PoolInv'
  BY <1>3, AddKeeps
<1>4. CASE Settled /\ Next /\ ~Load
  <2>1. NothingBeforeLoad'
    BY <1>4, SettledKeeps, NothingStep DEF Settled, PoolInv, NothingBeforeLoad
  <2> QED BY <1>4, <2>1, SettledKeeps DEF PoolInv
<1>5. CASE Next /\ ~Load /\ ~\E c \in Calls : Add(c)
  <2>1. Settled
    <3>1. CASE InitPool \/ FailLoad
      BY <1>1, <3>1, PoolStep
    <3>2. ASSUME NEW c \in Calls,
                 NEW kind \in Adding \cup Clearing \cup Using,
                 NEW ref \in Calls \cup {None}, Call(c, kind, ref)
          PROVE  Settled
      BY <1>1, <3>2, CallStep
    <3>3. ASSUME NEW c \in Calls, Post(c) \/ Export(c) PROVE Settled
      BY <1>1, <3>3, PostStep, ExportStep
    <3>4. ASSUME NEW w \in Workers, NEW c \in Calls,
                 \/ Begin(w, c) \/ AddTo(w, c) \/ FailToAdd(w, c) \/ Use(w, c)
                 \/ ClearKey(w, c) \/ ClearAll(w, c) \/ Release(w, c)
          PROVE  Settled
      BY <1>1, <3>4, BeginStep, AddToStep, FailToAddStep, AnswerStep, ReleaseStep
    <3> QED BY <1>5, <3>1, <3>2, <3>3, <3>4, Zenon DEF Next
  <2> QED BY <1>4, <1>5, <2>1
<1>6. CASE UNCHANGED vars
  <2>1. UNCHANGED <<pool, i, call, inbox, running, store, nextIdx, drawn,
                    released, cleared, gone>>
    BY <1>6 DEF vars
  <2>2. Settled
    BY <1>1, <2>1 DEF Settled, Typed, TypeOK, SoundCall
  <2>3. NothingBeforeLoad'
    BY <2>1, <2>2, SettledKeeps DEF PoolInv, NothingBeforeLoad
  <2> QED BY <2>2, <2>3, SettledKeeps DEF PoolInv
<1> QED BY <1>2, <1>3, <1>5, <1>6

\* The invariant holds at first.
LEMMA PoolInvInit == ASSUME Init PROVE PoolInv
<1>1. Idle \in SoundCall /\ Idle.idx = None
  BY NoneAssumption DEF Idle, SoundCall, CallRecord, Referring, Using
<1>2. call \in [Calls -> SoundCall] /\ Numbered = {}
  BY <1>1 DEF Init, Numbered
<1>3. PoolSize \in Workers
  BY PoolSizeAssumption DEF Workers
<1>4. Typed
  BY <1>2, <1>3 DEF Init, Typed, TypeOK, SoundCall
<1>5. StoresMatch /\ CountersApart /\ NothingBeforeLoad
  BY <1>2 DEF Init, StoresMatch, CountersApart, NothingBeforeLoad
<1>6. IndicesDiffer
  BY <1>2 DEF IndicesDiffer, Numbered
<1> QED BY <1>4, <1>5, <1>6 DEF PoolInv

\* The inductive invariant: besides the types, the indices of a pool lie between
\* its start and its counter, which stays within reach of the number of calls.
THEOREM Invariance == Spec => []PoolInv
BY PoolInvInit, PoolInvStep, PTL DEF Spec

\* An index belongs to one key, in all workers and at all times, for any number
\* of workers, calls and restarts: a reference never leads to another key.
THEOREM IndicesNameOneKey == Spec => []IndexNamesOneKey
<1>1. PoolInv => IndexNamesOneKey
  BY DEF PoolInv, Typed, StoresMatch, IndicesDiffer, IndexNamesOneKey
<1> QED BY <1>1, Invariance, PTL

-----------------------------------------------------------------------------
(* What a sequence holds, and in which order, whatever the positions.      *)

In(s, x) == \E n \in 1 .. Len(s) : s[n] = x
Precedes(s, x, y) ==
    \E n \in 1 .. Len(s) : \E m \in 1 .. Len(s) : n < m /\ s[n] = x /\ s[m] = y

\* What comes before something is in the sequence, and so is what comes after.
LEMMA PrecedesIn ==
    ASSUME NEW s, NEW x, NEW y, Precedes(s, x, y) PROVE In(s, x) /\ In(s, y)
BY DEF In, Precedes

\* The empty sequence.
LEMMA EmptyFacts ==
    /\ \A x : ~In(<<>>, x)
    /\ \A x, y : ~Precedes(<<>>, x, y)
BY DEF In, Precedes

\* A sequence without its head.
LEMMA PopFacts ==
    ASSUME NEW S, NEW s \in Seq(S), s # <<>>
    PROVE  /\ In(s, Head(s))
           /\ \A x : In(Tail(s), x) => In(s, x) /\ Precedes(s, Head(s), x)
           /\ \A x, y : Precedes(Tail(s), x, y) => Precedes(s, x, y)
           /\ \A x : In(s, x) /\ x # Head(s) => In(Tail(s), x)
           /\ \A x, y : Precedes(s, x, y) /\ x # Head(s) => Precedes(Tail(s), x, y)
           /\ \A x : Precedes(s, x, Head(s)) => Precedes(s, Head(s), Head(s))
<1>1. /\ Len(Tail(s)) = Len(s) - 1
      /\ Len(s) \in Nat \ {0} /\ Head(s) = s[1]
      /\ \A n \in 1 .. Len(Tail(s)) : Tail(s)[n] = s[n + 1]
  BY HeadTailProperties, EmptySeq
<1>2. \A n \in 1 .. Len(s) - 1 : Tail(s)[n] = s[n + 1] /\ n + 1 \in 1 .. Len(s)
  BY <1>1
<1>3. ASSUME NEW x, In(Tail(s), x) PROVE In(s, x) /\ Precedes(s, Head(s), x)
  <2>1. PICK n \in 1 .. Len(s) - 1 : Tail(s)[n] = x
    BY <1>1, <1>3 DEF In
  <2>2. s[n + 1] = x /\ n + 1 \in 1 .. Len(s) /\ 1 \in 1 .. Len(s) /\ 1 < n + 1
    BY <1>1, <1>2, <2>1
  <2> QED BY <1>1, <2>2 DEF In, Precedes
<1>4. ASSUME NEW x, NEW y, Precedes(Tail(s), x, y) PROVE Precedes(s, x, y)
  <2>1. PICK n \in 1 .. Len(s) - 1, m \in 1 .. Len(s) - 1 :
           n < m /\ Tail(s)[n] = x /\ Tail(s)[m] = y
    BY <1>1, <1>4 DEF Precedes
  <2>2. /\ n + 1 \in 1 .. Len(s) /\ m + 1 \in 1 .. Len(s) /\ n + 1 < m + 1
        /\ s[n + 1] = x /\ s[m + 1] = y
    BY <1>1, <1>2, <2>1
  <2> QED BY <2>2 DEF Precedes
<1>5. In(s, Head(s))
  BY <1>1 DEF In
<1>6. ASSUME NEW n \in 1 .. Len(s), s[n] # Head(s)
      PROVE  n - 1 \in 1 .. Len(Tail(s)) /\ Tail(s)[n - 1] = s[n]
  <2>1. n # 1 /\ n - 1 \in 1 .. Len(s) - 1
    BY <1>1, <1>6
  <2> QED BY <1>1, <2>1
<1>7. ASSUME NEW x, In(s, x), x # Head(s) PROVE In(Tail(s), x)
  BY <1>6, <1>7 DEF In
<1>8. ASSUME NEW x, NEW y, Precedes(s, x, y), x # Head(s)
      PROVE  Precedes(Tail(s), x, y)
  <2>1. PICK n \in 1 .. Len(s), m \in 1 .. Len(s) : n < m /\ s[n] = x /\ s[m] = y
    BY <1>8 DEF Precedes
  <2>2. n - 1 \in 1 .. Len(Tail(s)) /\ Tail(s)[n - 1] = x
    BY <1>6, <1>8, <2>1
  <2>3. m - 1 \in 1 .. Len(s) - 1 /\ n - 1 < m - 1
    BY <1>1, <2>1, <2>2
  <2>4. m - 1 \in 1 .. Len(Tail(s)) /\ Tail(s)[m - 1] = y
    BY <1>1, <2>1, <2>3
  <2> QED BY <2>2, <2>3, <2>4 DEF Precedes
<1>9. ASSUME NEW x, Precedes(s, x, Head(s)) PROVE Precedes(s, Head(s), Head(s))
  <2>1. PICK n \in 1 .. Len(s), m \in 1 .. Len(s) : n < m /\ s[m] = Head(s)
    BY <1>9 DEF Precedes
  <2>2. 1 \in 1 .. Len(s) /\ 1 < m /\ s[1] = Head(s)
    BY <1>1, <2>1
  <2> QED BY <2>1, <2>2 DEF Precedes
<1> QED BY <1>3, <1>4, <1>5, <1>7, <1>8, <1>9

\* A sequence with one more.
LEMMA PushFacts ==
    ASSUME NEW S, NEW s \in Seq(S), NEW z \in S
    PROVE  /\ \A x : In(Append(s, z), x) => In(s, x) \/ x = z
           /\ \A x, y : Precedes(Append(s, z), x, y) =>
                 Precedes(s, x, y) \/ (y = z /\ In(s, x))
           /\ \A x : In(s, x) => In(Append(s, z), x) /\ Precedes(Append(s, z), x, z)
           /\ In(Append(s, z), z)
           /\ \A x, y : Precedes(s, x, y) => Precedes(Append(s, z), x, y)
<1> DEFINE a == Append(s, z)
<1>1. /\ Len(a) = Len(s) + 1 /\ Len(s) \in Nat
      /\ \A n \in 1 .. Len(s) : a[n] = s[n]
      /\ a[Len(s) + 1] = z
  BY AppendProperties, LenProperties
<1> HIDE DEF a
<1>2. ASSUME NEW x, In(a, x) PROVE In(s, x) \/ x = z
  BY <1>1, <1>2 DEF In
<1>3. ASSUME NEW x, NEW y, Precedes(a, x, y)
      PROVE  Precedes(s, x, y) \/ (y = z /\ In(s, x))
  <2>1. PICK n \in 1 .. Len(a), m \in 1 .. Len(a) : n < m /\ a[n] = x /\ a[m] = y
    BY <1>3 DEF Precedes
  <2>2. n \in 1 .. Len(s) /\ s[n] = x
    BY <1>1, <2>1
  <2>3. CASE m = Len(s) + 1
    BY <1>1, <2>1, <2>2, <2>3 DEF In
  <2>4. CASE m # Len(s) + 1
    <3>1. m \in 1 .. Len(s) /\ s[m] = y
      BY <1>1, <2>1, <2>4
    <3> QED BY <2>1, <2>2, <3>1 DEF Precedes
  <2> QED BY <2>3, <2>4
<1>4. 1 .. Len(s) \subseteq 1 .. Len(a) /\ Len(s) + 1 \in 1 .. Len(a)
  BY <1>1
<1>5. In(a, z)
  BY <1>1, <1>4 DEF In
<1>6. ASSUME NEW x, In(s, x) PROVE In(a, x) /\ Precedes(a, x, z)
  <2>1. PICK n \in 1 .. Len(s) : s[n] = x
    BY <1>6 DEF In
  <2>2. a[n] = x /\ n \in 1 .. Len(a) /\ n < Len(s) + 1
    BY <1>1, <1>4, <2>1
  <2> QED BY <1>1, <1>4, <2>2 DEF In, Precedes
<1>7. ASSUME NEW x, NEW y, Precedes(s, x, y) PROVE Precedes(a, x, y)
  <2>1. PICK n \in 1 .. Len(s), m \in 1 .. Len(s) : n < m /\ s[n] = x /\ s[m] = y
    BY <1>7 DEF Precedes
  <2>2. a[n] = x /\ a[m] = y /\ n \in 1 .. Len(a) /\ m \in 1 .. Len(a)
    BY <1>1, <1>4, <2>1
  <2> QED BY <2>1, <2>2 DEF Precedes
<1> QED BY <1>2, <1>3, <1>5, <1>6, <1>7, Zenon DEF a

-----------------------------------------------------------------------------
(* The invariant of calls and keys.  A key's messages are where its call   *)
(* says; a store loses a key only to a message posted after the key's own. *)

At(w, c) == In(inbox[w], c)
Before(w, c, d) == Precedes(inbox[w], c, d)
There(w, c) == At(w, c) \/ c \in running[w]
Stored(w, k) == \E e \in store[w] : e.key = k
Empty(w) == \A c \in Calls : ~There(w, c) /\ ~Stored(w, c)

ClearsAll(d) == call[d].kind \in {"clearKeyStore", "destroy"}
Clears(d, k) == ClearsAll(d) \/ (call[d].kind = "clearKey" /\ call[d].ref = k)

\* A call is done when nothing is awaited, and takes the stages of its kind.
RecordFits(r) ==
    /\ r.result = "ok" => r.todo = {}
    /\ r.result = "ok" /\ r.kind \in Adding => r.stage = "rest"
    /\ r.stage \in {"first", "export", "rest"} => r.kind \in Adding
    /\ r.stage = "once" => r.kind \notin Adding
    /\ r.stage \in {"first", "export"} => r.todo \subseteq {First}

\* The keys a call knows of were handed out.
CallFits(c) ==
    /\ RecordFits(call[c])
    /\ call[c].kind \in Referring => HandedOut(call[c].ref)
    /\ \A k \in call[c].seen : HandedOut(k)
    /\ call[c].kind = "clearKey" => call[c].seen \subseteq {call[c].ref}

\* A worker is awaited by the calls it still has to do with; messages that went
\* out although another worker refused them are not.
Awaited(w, r) ==
    /\ r.stage \notin {"idle", "called"}
    /\ r.stage \in {"first", "export"} => w = First
    /\ r.stage = "rest" => w # First
    /\ w \in r.todo \/ (r.stage = "once" /\ r.result = "fail")

\* A call is at a worker once, and a key that is stored was begun.
PlaceFits(w, c) ==
    /\ There(w, c) => /\ Awaited(w, call[c])
                      /\ call[c].stage \in {"first", "export"} => call[c].result = "none"
    /\ c \in running[w] => call[c].kind \in Adding /\ ~At(w, c)
    /\ ~Before(w, c, c)
    /\ Stored(w, c) => Begun(c)

\* Released workers hold nothing, nor do any when there is no pool, and the
\* destroy under way waits for all the others.
RestFits ==
    /\ \A w \in released : Empty(w)
    /\ pool # "ready" => \A w \in Workers : Empty(w)
    /\ \A c \in Calls :
          call[c].kind = "destroy" /\ call[c].stage = "once"
             /\ call[c].result = "none" => call[c].todo = Workers \ released

\* A key nothing clears is stored by all workers that are done with it.
KeyFits(k) ==
    call[k].kind \in Adding /\ call[k].result \in {"none", "ok"} /\ k \notin cleared
        => \A w \in Workers :
              \/ call[k].stage = "export" /\ w = First
              \/ call[k].stage = "rest" /\ w \notin call[k].todo
              => Stored(w, k)

\* Whatever clears a key, in an inbox, was posted after the key was begun.
OrderFits(w, d) ==
    /\ At(w, d) /\ ClearsAll(d) => \A k \in Calls :
          \/ k \in running[w] \/ Stored(w, k)
          \/ call[k].kind \in Adding /\ Before(w, k, d)
          => k \in cleared
    /\ At(w, d) /\ call[d].kind = "clearKey" => call[d].ref \in cleared

\* A use that is not late has its key, until it is through.
UseFits(w, u) ==
    At(w, u) /\ call[u].kind \in Using \cup {"clearKey"} /\ ~call[u].late =>
        /\ Stored(w, call[u].ref)
        /\ \A d \in Calls : Before(w, d, u) => ~Clears(d, call[u].ref)

Succeeds(c) == call[c].kind \notin Adding /\ call[c].result = "fail" => call[c].late

\* What a clearing call met is gone where it is done.
GoneFits(c) ==
    call[c].kind \in Clearing /\ call[c].result \in {"none", "ok"} =>
        \A k \in call[c].seen : \A w \in Workers \ call[c].todo : ~Stored(w, k)

UseInv ==
    /\ \A c \in Calls : CallFits(c)
    /\ \A w \in Workers, c \in Calls : PlaceFits(w, c)
    /\ RestFits
    /\ \A k \in Calls : KeyFits(k)
    /\ \A w \in Workers, d \in Calls : OrderFits(w, d)
    /\ \A w \in Workers, u \in Calls : UseFits(w, u)
    /\ \A c \in Calls : Succeeds(c)
    /\ \A c \in Calls : GoneFits(c)

-----------------------------------------------------------------------------
(* A worker's step: c, at worker w, goes on as q.                          *)

SameCall(r, q) ==
    /\ q.kind = r.kind /\ q.ref = r.ref /\ q.late = r.late /\ q.seen = r.seen
    /\ q.barred = r.barred

\* Messages arrive where c goes on to add a key, and only behind what is there;
\* if c was in the inbox, what is left there was behind it. All others stay.
Flows(w, c, q) ==
    \A v \in Workers, x \in Calls :
        /\ At(v, x)' => \/ At(v, x) /\ (v = w /\ At(w, c) => Before(w, c, x))
                        \/ x = c /\ q.kind \in Adding /\ v \in q.todo \ released
        /\ \A y \in Calls :
              Before(v, x, y)' => Before(v, x, y) \/ (y = c /\ q.kind \in Adding)
        /\ x \in running'[v] => x \in running[v] \/ (x = c /\ v = w /\ At(w, c))
        /\ x # c \/ v # w => /\ At(v, x) => At(v, x)'
                             /\ \A y \in Calls : Before(v, x, y) => Before(v, x, y)'

\* A store gains the key of c only, and loses what c clears.
Stores(w, c) ==
    \A v \in Workers, x \in Calls :
        /\ Stored(v, x)' => Stored(v, x) \/ (x = c /\ v = w /\ c \in running[w])
        /\ Stored(v, x) => Stored(v, x)' \/ (v = w /\ At(w, c) /\ Clears(c, x))
        /\ v = w /\ At(w, c) /\ Clears(c, x) => ~Stored(v, x)'

\* Where c is now.
Lands(w, c, q) ==
    \A v \in Workers :
        /\ There(v, c)' => /\ Awaited(v, q)
                           /\ q.stage \in {"first", "export"} => q.result = "none"
        /\ c \in running'[v] => q.kind \in Adding /\ ~At(v, c)'
        /\ ~Before(v, c, c)'

\* What becomes of c's record: it is answered once, and fails without the key
\* it refers to.
Heeds(w, c, q) ==
    /\ AtHead(w, c) \/ c \in running[w]
    /\ q.result # call[c].result => call[c].result = "none" /\ q.result \in {"ok", "fail"}
    /\ q.result = "none" => /\ q.todo = {} => call[c].todo = {}
                            /\ q.todo \cap released \subseteq call[c].todo
    /\ q.stage = call[c].stage \/ c \in running[w] \/ call[c].stage = "export"
    /\ AtHead(w, c) /\ call[c].stage \in {"first", "once"} /\ call[c].kind \in Referring
          /\ ~Stored(w, call[c].ref)
          => q.result \notin {"none", "ok"} /\ UNCHANGED running

Works(w, c, q) ==
    /\ There(w, c) /\ call[c].kind # "destroy" /\ Heeds(w, c, q)
    /\ SameCall(call[c], q) /\ RecordFits(q)
    /\ q.stage \notin {"idle", "called"}
    /\ call[c].result = "ok" => q.result = "ok"
    /\ UNCHANGED <<pool, released, cleared, gone>>
    /\ Flows(w, c, q) /\ Stores(w, c) /\ Lands(w, c, q)

\* No call's record changes but that of c.
OnlyCall(c, q) == \A d \in Calls : call'[d] = IF d = c THEN q ELSE call[d]

WorkStep(w, c) == \E q \in SoundCall : Works(w, c, q) /\ OnlyCall(c, q)

\* There is no more to a worker's step, as far as the invariant goes, than that
\* it does c justice.
LEMMA WorksKeeps ==
    ASSUME PoolInv, UseInv, NEW w \in Workers, NEW c \in Calls, NEW q, Works(w, c, q),
           OnlyCall(c, q), KeyFits(c)', Succeeds(c)', GoneFits(c)'
    PROVE  UseInv'
<1>1. /\ There(w, c) /\ call[c].kind # "destroy" /\ RecordFits(q)
      /\ q.stage \notin {"idle", "called"}
      /\ call[c].result = "ok" => q.result = "ok"
      /\ pool' = pool /\ released' = released /\ cleared' = cleared /\ gone' = gone
  BY DEF Works
<1>2. SameCall(call[c], q) /\ Flows(w, c, q) /\ Stores(w, c) /\ Lands(w, c, q)
  BY DEF Works
<1>3. call'[c] = q /\ \A d \in Calls \ {c} : call'[d] = call[d]
  BY DEF OnlyCall
<1>4. \A d \in Calls : /\ SameCall(call[d], call'[d])
                       /\ call[d].result = "ok" => call'[d].result = "ok"
  BY <1>1, <1>2, <1>3 DEF SameCall
<1>5. \A d \in Calls : /\ call'[d].kind = call[d].kind /\ call'[d].ref = call[d].ref
                       /\ call'[d].late = call[d].late
                       /\ call'[d].seen = call[d].seen
                       /\ ClearsAll(d)' <=> ClearsAll(d)
  BY <1>4 DEF SameCall, ClearsAll
<1>6. Awaited(w, call[c]) /\ pool = "ready" /\ w \notin released
  BY <1>1 DEF UseInv, PlaceFits, RestFits, Empty
<1>7. \A d \in Calls : /\ call[d].kind \in Referring => call[d].ref \in Calls
                       /\ call[d].seen \subseteq Calls
  BY DEF PoolInv, Typed, SoundCall, CallRecord
<1>8. ASSUME NEW d \in Calls PROVE CallFits(d)'
  <2>1. RecordFits(call'[d])
    BY <1>1, <1>3 DEF UseInv, CallFits
  <2>2. CallFits(d)
    BY DEF UseInv
  <2> QED BY <1>4, <1>5, <1>7, <2>1, <2>2 DEF CallFits, HandedOut
<1>9. ASSUME NEW v \in Workers, NEW x \in Calls PROVE PlaceFits(v, x)'
  <2>1. PlaceFits(v, x)
    BY DEF UseInv
  <2>2. Stored(v, x)' => Begun(x)'
    <3>1. Begun(x) => Begun(x)'
      BY <1>1, <1>3, <1>5 DEF Begun
    <3>2. CASE Stored(v, x)
      BY <2>1, <3>1, <3>2 DEF PlaceFits
    <3>3. CASE x = c /\ c \in running[w]
      <4>1. call[c].kind \in Adding
        BY <3>3 DEF UseInv, PlaceFits
      <4> QED BY <1>1, <1>3, <1>5, <3>3, <4>1 DEF Begun
    <3> QED BY <1>2, <3>2, <3>3 DEF Stores
  <2>3. CASE x = c
    BY <1>2, <1>3, <2>2, <2>3 DEF Lands, PlaceFits, Awaited
  <2>4. CASE x # c
    <3>1. /\ At(v, x)' => At(v, x)
          /\ Before(v, x, x)' => Before(v, x, x)
          /\ x \in running'[v] => x \in running[v]
      BY <1>2, <2>4 DEF Flows
    <3>2. call'[x] = call[x]
      BY <1>3, <2>4
    <3> QED BY <2>1, <2>2, <3>1, <3>2 DEF PlaceFits, There, Awaited
  <2> QED BY <2>3, <2>4
<1>10. RestFits'
  <2>1. ASSUME NEW v \in released PROVE Empty(v)'
    <3>1. Empty(v) /\ v \in Workers /\ v # w
      BY <1>6, <2>1 DEF UseInv, RestFits, PoolInv, Typed, TypeOK
    <3> QED BY <1>2, <2>1, <3>1 DEF Empty, There, Flows, Stores
  <2>2. ASSUME NEW d \in Calls, call'[d].kind = "destroy"
        PROVE  call'[d] = call[d]
    BY <1>1, <1>3, <1>5, <2>2
  <2> QED BY <1>1, <1>6, <2>1, <2>2 DEF UseInv, RestFits
<1>11. ASSUME NEW k \in Calls PROVE KeyFits(k)'
  <2>1. CASE k = c
    BY <2>1
  <2>2. CASE k # c
    <3>1. call'[k] = call[k] /\ cleared' = cleared
      BY <1>1, <1>3, <2>2
    <3>2. ASSUME NEW v \in Workers, Stored(v, k), k \notin cleared
          PROVE  Stored(v, k)'
      <4>1. OrderFits(v, c)
        BY DEF UseInv
      <4> QED BY <1>2, <3>2, <4>1 DEF Stores, OrderFits, Clears
    <3> QED BY <3>1, <3>2 DEF UseInv, KeyFits
  <2> QED BY <2>1, <2>2
<1>12. ASSUME NEW v \in Workers, NEW d \in Calls PROVE OrderFits(v, d)'
  <2>1. OrderFits(v, d)
    BY DEF UseInv
  <2>2. ASSUME At(v, d)', d # c \/ q.kind \notin Adding
        PROVE  At(v, d) /\ (v = w /\ At(w, c) => Before(w, c, d))
    BY <1>2, <2>2 DEF Flows
  <2>3. ClearsAll(d) \/ call[d].kind = "clearKey" => call[d].kind \notin Adding
    BY DEF ClearsAll, Adding
  <2>4. At(v, d)' /\ (ClearsAll(d) \/ call[d].kind = "clearKey")
           => At(v, d) /\ (v = w /\ At(w, c) => Before(w, c, d))
    BY <1>3, <1>5, <2>2, <2>3
  <2>5. ASSUME At(v, d)', ClearsAll(d), NEW k \in Calls,
               \/ k \in running'[v] \/ Stored(v, k)'
               \/ call[k].kind \in Adding /\ Before(v, k, d)'
        PROVE  k \in cleared
    <3>1. At(v, d) /\ (v = w /\ At(w, c) => Before(w, c, d))
      BY <2>4, <2>5
    <3>2. Before(v, k, d)' => Before(v, k, d)
      BY <1>2, <1>3, <1>5, <2>3, <2>5 DEF Flows
    <3>3. k \in running'[v] =>
             k \in running[v] \/ (call[k].kind \in Adding /\ Before(v, k, d))
      BY <1>2, <1>5, <1>3, <3>1 DEF Flows, Lands
    <3>4. Stored(v, k)' => Stored(v, k) \/ k \in running[v]
      BY <1>2 DEF Stores
    <3> QED BY <2>1, <2>5, <3>1, <3>2, <3>3, <3>4 DEF OrderFits
  <2> QED BY <1>1, <1>5, <2>1, <2>4, <2>5 DEF OrderFits
<1>13. ASSUME NEW v \in Workers, NEW u \in Calls PROVE UseFits(v, u)'
  <2> SUFFICES ASSUME At(v, u)', call'[u].kind \in Using \cup {"clearKey"}, ~call'[u].late
               PROVE  UseFits(v, u)'
    BY DEF UseFits
  <2>1. /\ call[u].kind \in Using \cup {"clearKey"} /\ ~call[u].late
        /\ call[u].kind \notin Adding
    BY <1>5 DEF Using, Adding
  <2>2. At(v, u) /\ (v = w /\ At(w, c) => Before(w, c, u))
    BY <1>2, <1>3, <1>5, <2>1 DEF Flows
  <2>3. PICK k \in Calls : k = call[u].ref /\ k = call'[u].ref
    BY <1>5, <1>7, <2>1 DEF Referring
  <2>4. Stored(v, k) /\ \A d \in Calls : Before(v, d, u) => ~Clears(d, k)
    BY <2>1, <2>2, <2>3 DEF UseInv, UseFits
  <2>5. Stored(v, k)'
    BY <1>2, <2>2, <2>4 DEF Stores
  <2>6. \A d \in Calls : Before(v, d, u)' => Before(v, d, u)
    BY <1>2, <1>3, <1>5, <2>1, <2>2 DEF Flows
  <2>7. \A d \in Calls : Clears(d, k)' <=> Clears(d, k)
    BY <1>5 DEF Clears
  <2> QED BY <2>3, <2>4, <2>5, <2>6, <2>7 DEF UseFits, Stored, Clears
<1>14. ASSUME NEW d \in Calls PROVE Succeeds(d)'
  <2>1. CASE d = c
    BY <2>1
  <2>2. CASE d # c
    BY <1>3, <2>2 DEF UseInv, Succeeds
  <2> QED BY <2>1, <2>2
<1>15. ASSUME NEW d \in Calls PROVE GoneFits(d)'
  <2>1. CASE d = c
    BY <2>1
  <2>2. CASE d # c
    <3>1. call'[d] = call[d] /\ GoneFits(d)
      BY <1>3, <2>2 DEF UseInv
    <3>2. ASSUME NEW k \in call[d].seen, NEW v \in Workers, Stored(v, k)'
          PROVE  Stored(v, k)
      <4>1. k \in Calls /\ HandedOut(k) /\ RecordFits(call[k])
        BY <1>7 DEF UseInv, CallFits
      <4>2. k \notin running[w]
        <5>1. k \in running[w] => Awaited(w, call[k])
          BY <4>1 DEF UseInv, PlaceFits, There
        <5> QED BY <4>1, <5>1 DEF Awaited, HandedOut, RecordFits
      <4> QED BY <1>2, <3>2, <4>1, <4>2 DEF Stores
    <3> QED BY <3>1, <3>2 DEF GoneFits
  <2> QED BY <2>1, <2>2
<1> QED BY <1>8, <1>9, <1>10, <1>11, <1>12, <1>13, <1>14, <1>15 DEF UseInv

-----------------------------------------------------------------------------
(* What the workers' steps have in common.                                 *)

\* A call that fails keeps all but its result.
LEMMA FailFits ==
    ASSUME NEW r \in SoundCall, RecordFits(r)
    PROVE  /\ SameCall(r, Fail(r)) /\ RecordFits(Fail(r))
           /\ Fail(r).stage = r.stage /\ Fail(r).todo = r.todo
           /\ Fail(r).result = IF r.result = "none" THEN "fail" ELSE r.result
BY DEF Fail, SoundCall, CallRecord, SameCall, RecordFits

\* A call that is answered no longer awaits the worker.
LEMMA AnswerFits ==
    ASSUME NEW r \in SoundCall, RecordFits(r), NEW w \in Workers,
           r.kind \in Adding => r.stage = "rest"
    PROVE  /\ SameCall(r, Answered(r, w)) /\ RecordFits(Answered(r, w))
           /\ Answered(r, w).stage = r.stage
           /\ Answered(r, w).todo = r.todo \ {w}
           /\ Answered(r, w).result =
                 IF r.todo \ {w} = {} /\ r.result = "none" THEN "ok" ELSE r.result
<1> DEFINE todo == r.todo \ {w}
           result == IF todo = {} /\ r.result = "none" THEN "ok" ELSE r.result
           q == [r EXCEPT !.todo = todo, !.result = result]
<1>1. Answered(r, w) = q
  BY DEF Answered, SoundCall, CallRecord
<1>2. todo \in SUBSET Workers /\ result \in {"none", "ok", "fail", "lost"}
  BY DEF SoundCall, CallRecord
<1>3. /\ result = "ok" => todo = {}
      /\ result \in {"ok", r.result}
  BY DEF RecordFits
<1> HIDE DEF todo, result
<1>4. /\ q.kind = r.kind /\ q.ref = r.ref /\ q.late = r.late /\ q.seen = r.seen
      /\ q.barred = r.barred /\ q.stage = r.stage /\ q.todo = todo /\ q.result = result
  BY <1>2 DEF SoundCall, CallRecord
<1> HIDE DEF q
<1>5. SameCall(r, q) /\ RecordFits(q)
  BY <1>3, <1>4 DEF SameCall, RecordFits
<1> QED BY <1>1, <1>4, <1>5, Zenon DEF todo, result

\* What is left of the inbox w after c was taken from it.
LEMMA TakenFacts ==
    ASSUME TypeOK, NEW w \in Workers, NEW c \in Calls, AtHead(w, c)
    PROVE  /\ At(w, c) /\ Rest(w) \in [Workers -> Seq(Calls)]
           /\ \A v \in Workers, x \in Calls :
                /\ In(Rest(w)[v], x) => At(v, x) /\ (v = w => Before(w, c, x))
                /\ \A y \in Calls : Precedes(Rest(w)[v], x, y) => Before(v, x, y)
                /\ x # c \/ v # w =>
                      /\ At(v, x) => In(Rest(w)[v], x)
                      /\ \A y \in Calls :
                            Before(v, x, y) => Precedes(Rest(w)[v], x, y)
<1>1. inbox \in [Workers -> Seq(Calls)] /\ inbox[w] # <<>> /\ c = Head(inbox[w])
  BY DEF TypeOK, AtHead
<1>2. /\ Rest(w)[w] = Tail(inbox[w])
      /\ \A v \in Workers \ {w} : Rest(w)[v] = inbox[v]
  BY <1>1 DEF Rest
<1>3. /\ In(inbox[w], c)
      /\ \A x : In(Tail(inbox[w]), x) => In(inbox[w], x) /\ Precedes(inbox[w], c, x)
      /\ \A x, y : Precedes(Tail(inbox[w]), x, y) => Precedes(inbox[w], x, y)
      /\ \A x : In(inbox[w], x) /\ x # c => In(Tail(inbox[w]), x)
      /\ \A x, y : Precedes(inbox[w], x, y) /\ x # c => Precedes(Tail(inbox[w]), x, y)
  BY <1>1, PopFacts
<1> QED BY <1>2, <1>3, RestType DEF At, Before

\* What the inboxes hold after c was posted to ws.
LEMMA PostedFacts ==
    ASSUME NEW box \in [Workers -> Seq(Calls)], NEW c \in Calls, NEW ws,
           NEW v \in Workers
    PROVE  /\ \A x \in Calls : In(Posted(box, c, ws)[v], x) =>
                  In(box[v], x) \/ (x = c /\ v \in ws \ released)
           /\ \A x, y \in Calls : Precedes(Posted(box, c, ws)[v], x, y) =>
                  \/ Precedes(box[v], x, y)
                  \/ y = c /\ v \in ws \ released /\ In(box[v], x)
           /\ \A x \in Calls : In(box[v], x) => In(Posted(box, c, ws)[v], x)
           /\ \A x, y \in Calls :
                 Precedes(box[v], x, y) => Precedes(Posted(box, c, ws)[v], x, y)
           /\ v \in ws \ released =>
                 /\ In(Posted(box, c, ws)[v], c)
                 /\ \A x \in Calls :
                       In(box[v], x) => Precedes(Posted(box, c, ws)[v], x, c)
<1>1. Posted(box, c, ws)[v] =
         IF v \in ws \ released THEN Append(box[v], c) ELSE box[v]
  BY DEF Posted
<1>2. CASE v \in ws \ released
  BY <1>1, <1>2, PushFacts
<1>3. CASE v \notin ws \ released
  BY <1>1, <1>3
<1> QED BY <1>2, <1>3

\* A call is not done while it is at a worker.
LEMMA NotDone ==
    ASSUME UseInv, NEW w \in Workers, NEW c \in Calls, There(w, c)
    PROVE  /\ call[c].result # "ok" /\ Awaited(w, call[c])
           /\ RecordFits(call[c]) /\ pool = "ready" /\ w \notin released
<1>1. RecordFits(call[c]) /\ Awaited(w, call[c])
  BY DEF UseInv, CallFits, PlaceFits
<1>2. pool = "ready" /\ w \notin released
  BY DEF UseInv, RestFits, Empty
<1> QED BY <1>1, <1>2 DEF RecordFits, Awaited

\* A call that is at one worker is at no other until it has an index.
LEMMA OnlyThere ==
    ASSUME UseInv, NEW w \in Workers, NEW c \in Calls, There(w, c),
           call[c].stage \in {"first", "export"}
    PROVE  w = First /\ \A v \in Workers \ {w} : ~There(v, c)
BY DEF UseInv, PlaceFits, Awaited

\* A step that takes c from the inbox w.
LEMMA TakenFlows ==
    ASSUME TypeOK, UseInv, NEW w \in Workers, NEW c \in Calls, NEW q,
           AtHead(w, c), inbox' = Rest(w),
           \A v \in Workers, x \in Calls :
              x \in running'[v] => x \in running[v] \/ (x = c /\ v = w)
    PROVE  /\ Flows(w, c, q) /\ ~\E v \in Workers : Before(v, c, c)'
           /\ \A v \in Workers : At(v, c)' => At(v, c) /\ v # w
<1>1. /\ At(w, c)
      /\ \A v \in Workers, x \in Calls :
            /\ In(inbox'[v], x) => At(v, x) /\ (v = w => Before(w, c, x))
            /\ \A y \in Calls : Precedes(inbox'[v], x, y) => Before(v, x, y)
            /\ x # c \/ v # w =>
                  /\ At(v, x) => In(inbox'[v], x)
                  /\ \A y \in Calls : Before(v, x, y) => Precedes(inbox'[v], x, y)
  BY TakenFacts
<1>2. \A v \in Workers, x \in Calls :
         /\ At(v, x)' => At(v, x) /\ (v = w => Before(w, c, x))
         /\ \A y \in Calls : Before(v, x, y)' => Before(v, x, y)
         /\ x # c \/ v # w => /\ At(v, x) => At(v, x)'
                              /\ \A y \in Calls : Before(v, x, y) => Before(v, x, y)'
  BY <1>1 DEF At, Before
<1>3. \A v \in Workers : ~Before(v, c, c)
  BY DEF UseInv, PlaceFits
<1> QED BY <1>1, <1>2, <1>3 DEF Flows

\* A step that leaves the inboxes alone.
LEMMA StillFlows ==
    ASSUME UseInv, NEW w \in Workers, NEW c \in Calls, NEW q,
           c \in running[w], UNCHANGED inbox,
           running' = [running EXCEPT ![w] = @ \ {c}],
           running \in [Workers -> SUBSET Calls]
    PROVE  /\ Flows(w, c, q) /\ ~There(w, c)'
           /\ ~\E v \in Workers : Before(v, c, c)'
           /\ \A v \in Workers \ {w} : There(v, c)' => There(v, c)
           /\ \A v \in Workers : c \in running'[v] => c \in running[v]
<1>1. /\ \A v \in Workers, x \in Calls : x \in running'[v] => x \in running[v]
      /\ c \notin running'[w]
  OBVIOUS
<1>2. \A v \in Workers, x \in Calls :
         /\ At(v, x)' <=> At(v, x)
         /\ \A y \in Calls : Before(v, x, y)' <=> Before(v, x, y)
  BY DEF At, Before
<1>3. /\ \A v \in Workers : ~Before(v, c, c)
      /\ ~At(w, c)
  BY DEF UseInv, PlaceFits
<1> QED BY <1>1, <1>2, <1>3 DEF Flows, There

-----------------------------------------------------------------------------
(* The workers' steps.                                                     *)

\* A message that is answered at once, and adds nothing to the store.
LEMMA AnswersKeep ==
    ASSUME PoolInv, UseInv, NEW w \in Workers, NEW c \in Calls, AtHead(w, c),
           call[c].kind \in Using \cup {"clearKey", "clearKeyStore"},
           inbox' = Rest(w), UNCHANGED <<pool, running, released, cleared, gone>>,
           NEW q \in {Fail(call[c]), Answered(call[c], w)},
           call' = [call EXCEPT ![c] = q],
           Stores(w, c), Succeeds(c)',
           call[c].kind \in Clearing => \A k \in call[c].seen : ~Stored(w, k)',
           call[c].kind \in Referring /\ ~Stored(w, call[c].ref) => q = Fail(call[c])
    PROVE  UseInv' /\ WorkStep(w, c)
<1>1. Typed /\ TypeOK /\ call[c] \in SoundCall
  BY DEF PoolInv, Typed
<1>2. At(w, c) /\ There(w, c)
  BY <1>1, TakenFacts DEF There
<1>3. /\ call[c].result # "ok" /\ Awaited(w, call[c]) /\ RecordFits(call[c])
      /\ call[c].kind \notin Adding /\ call[c].kind # "destroy"
  BY <1>2, NotDone DEF Using, Adding
<1>4. /\ SameCall(call[c], q) /\ RecordFits(q) /\ q \in SoundCall
      /\ q.stage = call[c].stage
      /\ q.todo \in {call[c].todo, call[c].todo \ {w}}
      /\ call[c].result # "none" => q.result = call[c].result
  BY <1>1, <1>3, FailFits, AnswerFits, FailRecord, AnsweredRecord
<1>5. OnlyCall(c, q)
  BY <1>1, <1>4, OneCall DEF OnlyCall
<1>6. /\ Flows(w, c, q) /\ ~\E v \in Workers : Before(v, c, c)'
      /\ \A v \in Workers : At(v, c)' => At(v, c) /\ v # w
  BY <1>1, TakenFlows
<1>7. \A v \in Workers : c \notin running[v]
  BY <1>3 DEF UseInv, PlaceFits
<1>8. Lands(w, c, q)
  <2> SUFFICES ASSUME NEW v \in Workers PROVE There(v, c)' => Awaited(v, q)
    BY <1>3, <1>4, <1>6, <1>7 DEF Lands, RecordFits
  <2>1. There(v, c)' => v # w /\ There(v, c)
    BY <1>6, <1>7 DEF There
  <2>2. There(v, c) => Awaited(v, call[c])
    BY DEF UseInv, PlaceFits
  <2>3. call[c].result = "fail" => q.result = "fail"
    BY <1>4
  <2> QED BY <1>4, <2>1, <2>2, <2>3 DEF Awaited
<1>9. Works(w, c, q)
  <2>1. /\ q.result # call[c].result =>
               call[c].result = "none" /\ q.result \in {"ok", "fail"}
        /\ q.result = "none" => /\ q.todo = {} => call[c].todo = {}
                                /\ q.todo \subseteq call[c].todo
        /\ q = Fail(call[c]) => q.result \notin {"none", "ok"}
    BY <1>1, <1>3, FailFits, AnswerFits
  <2>2. Heeds(w, c, q)
    BY <1>4, <2>1 DEF Heeds
  <2> QED BY <1>2, <1>3, <1>4, <1>6, <1>8, <2>2 DEF Works, Awaited
<1>10. call'[c] = q /\ q.kind = call[c].kind /\ q.seen = call[c].seen
  BY <1>4, <1>5 DEF OnlyCall, SameCall
<1>11. KeyFits(c)'
  BY <1>3, <1>10 DEF KeyFits
<1>12. GoneFits(c)'
  <2> SUFFICES ASSUME call[c].kind \in Clearing, q.result \in {"none", "ok"},
                      NEW k \in call[c].seen, NEW v \in Workers \ q.todo
               PROVE  ~Stored(v, k)'
    BY <1>10 DEF GoneFits
  <2>1. CASE v = w
    BY <2>1
  <2>2. CASE v # w
    <3>1. call[c].result \in {"none", "ok"} /\ v \notin call[c].todo
      BY <1>4, <2>2 
    <3>2. ~Stored(v, k)
      BY <3>1 DEF UseInv, GoneFits
    <3>3. k \in Calls
      BY <1>1 DEF SoundCall, CallRecord
    <3> QED BY <2>2, <3>2, <3>3 DEF Stores
  <2> QED BY <2>1, <2>2
<1>13. Succeeds(c)'
  OBVIOUS
<1> QED BY <1>4, <1>5, <1>9, <1>11, <1>12, <1>13, WorksKeeps DEF WorkStep

\* A key that is stored is found, by its index and by no other.
LEMMA StoredHas ==
    ASSUME PoolInv, NEW w \in Workers, NEW k \in Calls, call[k].idx \in Nat
    PROVE  /\ Has(w, k) <=> Stored(w, k)
           /\ \A e \in store[w] : e.idx = call[k].idx <=> e.key = k
<1>1. \A e \in store[w] : e.key \in Calls /\ e.idx = call[e.key].idx
  BY DEF PoolInv, Typed, TypeOK, StoresMatch
<1>2. \A e \in store[w] : e.idx = call[k].idx <=> e.key = k
  BY <1>1, NoneAssumption DEF PoolInv, IndicesDiffer
<1> QED BY <1>2 DEF Has, Stored

\* A key that was handed out has an index.
LEMMA HandedOutIndex ==
    ASSUME PoolInv, UseInv, NEW k \in Calls, HandedOut(k)
    PROVE  call[k].idx \in Nat
<1>1. call[k] \in SoundCall /\ RecordFits(call[k])
  BY DEF PoolInv, Typed, UseInv, CallFits
<1> QED BY <1>1 DEF HandedOut, RecordFits, SoundCall

\* The key a call refers to was handed out.
LEMMA RefFacts ==
    ASSUME PoolInv, UseInv, NEW c \in Calls, call[c].kind \in Referring
    PROVE  /\ call[c].ref \in Calls /\ HandedOut(call[c].ref)
           /\ call[call[c].ref].idx \in Nat
BY HandedOutIndex DEF PoolInv, Typed, SoundCall, UseInv, CallFits

\* A use is answered by the worker, or it comes too late.
LEMMA UseKeeps ==
    ASSUME PoolInv, UseInv, NEW w \in Workers, NEW c \in Calls, Use(w, c)
    PROVE  UseInv' /\ WorkStep(w, c)
<1>1. /\ AtHead(w, c) /\ call[c].kind \in Using /\ inbox' = Rest(w)
      /\ UNCHANGED <<pool, running, store, released, cleared, gone>>
  BY DEF Use
<1> DEFINE ref == call[c].ref
           q == IF Has(w, ref) THEN Answered(call[c], w) ELSE Fail(call[c])
<1>2. call' = [call EXCEPT ![c] = q]
  BY DEF Use
<1>3. Typed /\ TypeOK /\ call[c] \in SoundCall /\ RecordFits(call[c])
  BY DEF PoolInv, Typed, UseInv, CallFits
<1>4. At(w, c)
  BY <1>1, <1>3, TakenFacts
<1>5. /\ call[c].late \/ Has(w, ref)
      /\ ~Stored(w, ref) => q = Fail(call[c])
  <2>1. ref \in Calls /\ call[ref].idx \in Nat
    BY <1>1, RefFacts DEF Referring
  <2> QED BY <1>1, <1>4, <2>1, StoredHas DEF UseInv, UseFits
<1>6. q.result = "fail" => call[c].late
  <2>1. CASE Has(w, ref)
    <3>1. q.result \in {"ok", call[c].result}
      BY <1>1, <1>3, <2>1, AnswerFits DEF Using, Adding
    <3> QED BY <1>1, <3>1 DEF UseInv, Succeeds, Using, Adding
  <2>2. CASE ~Has(w, ref)
    BY <1>5, <2>2
  <2> QED BY <2>1, <2>2
<1>7. /\ q \in SoundCall /\ SameCall(call[c], q)
  BY <1>1, <1>3, FailFits, AnswerFits, FailRecord, AnsweredRecord DEF Using, Adding
<1>8. q \in {Fail(call[c]), Answered(call[c], w)}
  OBVIOUS
<1> HIDE DEF q
<1>9. call'[c] = q
  BY <1>2, <1>3, <1>7, OneCall
<1>10. Succeeds(c)'
  BY <1>6, <1>7, <1>9 DEF Succeeds, SameCall
<1>11. Stores(w, c)
  BY <1>1 DEF Stores, Stored, Clears, ClearsAll, Using
<1>12. call[c].kind \notin Clearing
  BY <1>1 DEF Using, Clearing
<1> QED BY <1>1, <1>2, <1>5, <1>8, <1>10, <1>11, <1>12, AnswersKeep

\* Only the key that is cleared leaves the worker.
LEMMA ClearKeyKeeps ==
    ASSUME PoolInv, UseInv, NEW w \in Workers, NEW c \in Calls, ClearKey(w, c)
    PROVE  UseInv' /\ WorkStep(w, c)
<1> DEFINE keys == {e \in store[w] : e.idx # call[call[c].ref].idx}
           q == IF Has(w, call[c].ref) THEN Answered(call[c], w) ELSE Fail(call[c])
<1>1. /\ AtHead(w, c) /\ call[c].kind = "clearKey" /\ inbox' = Rest(w)
      /\ UNCHANGED <<pool, running, released, cleared, gone>>
      /\ store' = [store EXCEPT ![w] = keys]
      /\ call' = [call EXCEPT ![c] = q]
  BY Zenon DEF ClearKey
<1>2. Typed /\ TypeOK /\ call[c] \in SoundCall /\ call[c].kind \in Referring
  BY <1>1 DEF PoolInv, Typed, Referring
<1>3. PICK k \in Calls : k = call[c].ref /\ call[k].idx \in Nat
  BY <1>2, RefFacts
<1>4. keys = {e \in store[w] : e.key # k}
  BY <1>3, StoredHas
<1>5. /\ q \in {Fail(call[c]), Answered(call[c], w)}
      /\ ~Stored(w, k) => q = Fail(call[c])
      /\ Stored(w, k) => q = Answered(call[c], w)
  BY <1>3, StoredHas
<1> HIDE DEF q, keys
<1>6. /\ store'[w] = {e \in store[w] : e.key # k}
      /\ \A v \in Workers \ {w} : store'[v] = store[v]
  BY <1>1, <1>2, <1>4 DEF TypeOK
<1>7. ~Stored(w, k)' /\ Stores(w, c)
  <2>1. At(w, c) /\ Clears(c, k)
    BY <1>1, <1>2, <1>3, TakenFacts DEF Clears
  <2>2. ~Stored(w, k)'
    BY <1>6 DEF Stored
  <2>3. ASSUME NEW v \in Workers, NEW x \in Calls
        PROVE  /\ Stored(v, x)' => Stored(v, x)
               /\ Stored(v, x) => Stored(v, x)' \/ (v = w /\ x = k)
    BY <1>6 DEF Stored
  <2>4. \A x \in Calls : Clears(c, x) => x = k
    BY <1>1, <1>3 DEF Clears, ClearsAll
  <2> QED BY <2>1, <2>2, <2>3, <2>4 DEF Stores
<1>8. \A x \in call[c].seen : ~Stored(w, x)'
  BY <1>1, <1>3, <1>7 DEF UseInv, CallFits
<1>9. Succeeds(c)'
  <2>1. /\ RecordFits(call[c]) /\ call[c].kind \notin Adding
        /\ Succeeds(c) /\ UseFits(w, c)
    BY <1>1 DEF UseInv, CallFits, Adding
  <2>2. /\ q \in SoundCall /\ SameCall(call[c], q)
        /\ q = Answered(call[c], w) => q.result \in {"ok", call[c].result}
    BY <1>2, <1>5, <2>1, FailFits, AnswerFits, FailRecord, AnsweredRecord
  <2>3. call'[c] = q
    BY <1>1, <1>2, <2>2, OneCall
  <2>4. Stored(w, k) \/ call[c].late
    BY <1>1, <1>2, <1>3, <2>1, TakenFacts DEF UseFits
  <2>5. q.result = "fail" => call[c].late
    BY <1>5, <2>1, <2>2, <2>4 DEF Succeeds
  <2> QED BY <2>2, <2>3, <2>5 DEF Succeeds, SameCall
<1> QED BY <1>1, <1>3, <1>5, <1>7, <1>8, <1>9, AnswersKeep

\* All keys leave the worker.
LEMMA ClearAllKeeps ==
    ASSUME PoolInv, UseInv, NEW w \in Workers, NEW c \in Calls, ClearAll(w, c)
    PROVE  UseInv' /\ WorkStep(w, c)
<1> DEFINE q == Answered(call[c], w)
<1>1. /\ AtHead(w, c) /\ call[c].kind = "clearKeyStore" /\ inbox' = Rest(w)
      /\ UNCHANGED <<pool, running, released, cleared, gone>>
      /\ store' = [store EXCEPT ![w] = {}]
      /\ call' = [call EXCEPT ![c] = q]
  BY Zenon DEF ClearAll
<1>2. Typed /\ TypeOK /\ call[c] \in SoundCall
  BY DEF PoolInv, Typed
<1>3. store'[w] = {} /\ \A v \in Workers \ {w} : store'[v] = store[v]
  BY <1>1, <1>2 DEF TypeOK
<1>4. \A x : ~Stored(w, x)'
  BY <1>3 DEF Stored
<1>5. Stores(w, c)
  <2>1. At(w, c) /\ \A k : Clears(c, k)
    BY <1>1, <1>2, TakenFacts DEF Clears, ClearsAll
  <2>2. ASSUME NEW v \in Workers \ {w}, NEW x \in Calls
        PROVE  Stored(v, x)' <=> Stored(v, x)
    BY <1>3 DEF Stored
  <2> QED BY <1>4, <2>1, <2>2 DEF Stores
<1>6. Succeeds(c)'
  <2>1. RecordFits(call[c]) /\ call[c].kind \notin Adding /\ Succeeds(c)
    BY <1>1 DEF UseInv, CallFits, Adding
  <2>2. /\ q \in SoundCall /\ SameCall(call[c], q)
        /\ q.result \in {"ok", call[c].result}
    BY <1>2, <2>1, AnswerFits, AnsweredRecord
  <2>3. call'[c] = q
    BY <1>1, <1>2, <2>2, OneCall
  <2> QED BY <2>1, <2>2, <2>3 DEF Succeeds, SameCall
<1> HIDE DEF q
<1>7. q \in {Fail(call[c]), Answered(call[c], w)}
  BY DEF q
<1>8. call[c].kind \notin Referring
  BY <1>1 DEF Referring, Using
<1> QED BY <1>1, <1>4, <1>5, <1>6, <1>7, <1>8, AnswersKeep

\* What c's own key comes to when c is neither a use nor a clearing call.
LEMMA AddingKeeps ==
    ASSUME PoolInv, UseInv, NEW w \in Workers, NEW c \in Calls, There(w, c),
           call[c].kind \in Adding, NEW q \in SoundCall, SameCall(call[c], q),
           call' = [call EXCEPT ![c] = q], RecordFits(q),
           q.stage \notin {"idle", "called"},
           UNCHANGED <<pool, released, cleared, gone>>,
           Flows(w, c, q), Stores(w, c), Lands(w, c, q), Heeds(w, c, q),
           q.result \in {"none", "ok"} /\ c \notin cleared => \A v \in Workers :
              \/ q.stage = "export" /\ v = First
              \/ q.stage = "rest" /\ v \notin q.todo
              => Stored(v, c)'
    PROVE  UseInv' /\ WorkStep(w, c)
<1>1. OnlyCall(c, q) /\ call'[c] = q
  BY OneCall DEF PoolInv, OnlyCall
<1>2. q.kind \in Adding
  BY DEF SameCall
<1>3. Works(w, c, q)
  BY NotDone DEF Works, Adding
<1>4. Succeeds(c)' /\ GoneFits(c)'
  BY <1>1, <1>2 DEF Succeeds, GoneFits, Using, Clearing, Adding
<1>5. KeyFits(c)'
  BY <1>1 DEF KeyFits
<1> QED BY <1>1, <1>3, <1>4, <1>5, WorksKeeps DEF WorkStep

\* A key that is taken up is under way at the worker, or its call fails.
LEMMA BeginKeeps ==
    ASSUME PoolInv, UseInv, NEW w \in Workers, NEW c \in Calls, Begin(w, c)
    PROVE  UseInv' /\ WorkStep(w, c)
<1>1. /\ AtHead(w, c) /\ call[c].stage \in {"first", "rest"} /\ inbox' = Rest(w)
      /\ UNCHANGED <<pool, store, released, cleared, gone>>
      /\ \/ call' = [call EXCEPT ![c] = Fail(call[c])] /\ UNCHANGED running
         \/ running' = [running EXCEPT ![w] = @ \cup {c}] /\ UNCHANGED call
      /\ call[c].stage = "first" /\ call[c].kind = "derive" /\ ~Has(w, call[c].ref)
            => UNCHANGED running /\ call' = [call EXCEPT ![c] = Fail(call[c])]
  BY Zenon DEF Begin
<1>2. Typed /\ TypeOK /\ call[c] \in SoundCall
  BY DEF PoolInv, Typed
<1>3. At(w, c) /\ There(w, c)
  BY <1>1, <1>2, TakenFacts DEF There
<1>4. /\ Awaited(w, call[c]) /\ RecordFits(call[c]) /\ call[c].kind \in Adding
      /\ call[c].result # "ok"
  BY <1>1, <1>3, NotDone DEF RecordFits
<1>5. Stores(w, c)
  BY <1>1, <1>4 DEF Stores, Stored, Clears, ClearsAll, Adding
<1>6. PICK q \in SoundCall :
        /\ call' = [call EXCEPT ![c] = q]
        /\ SameCall(call[c], q) /\ RecordFits(q)
        /\ q.stage = call[c].stage /\ q.todo = call[c].todo
        /\ \/ q.result = call[c].result
           \/ q.result = "fail" /\ call[c].result = "none" /\ UNCHANGED running
        /\ call' = [call EXCEPT ![c] = Fail(call[c])] => q.result # "none"
  <2>1. CASE call' = [call EXCEPT ![c] = Fail(call[c])] /\ UNCHANGED running
    BY <1>2, <1>4, <2>1, FailFits, FailRecord
  <2>2. CASE UNCHANGED call
    <3>1. call' = [call EXCEPT ![c] = call[c]]
      BY <1>2, <2>2 DEF Typed
    <3>2. call' = [call EXCEPT ![c] = Fail(call[c])] => call[c].result # "none"
      <4>1. PICK f \in SoundCall : f = Fail(call[c]) /\ f.result # "none"
        BY <1>2, <1>4, FailFits, FailRecord
      <4>2. call' = [call EXCEPT ![c] = f] => call'[c] = f
        BY <1>2, OneCall
      <4> QED BY <2>2, <4>1, <4>2
    <3> QED BY <1>2, <1>4, <3>1, <3>2 DEF SameCall
  <2> QED BY <1>1, <2>1, <2>2
<1>7. \A v \in Workers, x \in Calls :
         x \in running'[v] => x \in running[v] \/ (x = c /\ v = w)
  BY <1>1, <1>2 DEF TypeOK
<1>8. /\ Flows(w, c, q) /\ ~\E v \in Workers : Before(v, c, c)'
      /\ \A v \in Workers : At(v, c)' => At(v, c) /\ v # w
  BY <1>1, <1>2, <1>7, TakenFlows
<1>9. Lands(w, c, q)
  <2>1. ASSUME NEW v \in Workers PROVE There(v, c)' => Awaited(v, q)
    <3>1. There(v, c)' => There(v, c)
      BY <1>3, <1>7, <1>8 DEF There
    <3>2. There(v, c) => Awaited(v, call[c])
      BY DEF UseInv, PlaceFits
    <3> QED BY <1>4, <1>6, <1>1, <3>1, <3>2 DEF Awaited
  <2>2. ASSUME NEW v \in Workers, c \in running'[v] PROVE ~At(v, c)'
    <3>1. c \in running[v] => ~At(v, c)
      BY DEF UseInv, PlaceFits
    <3> QED BY <1>7, <1>8, <2>2, <3>1
  <2>3. ASSUME NEW v \in Workers, There(v, c)', q.stage \in {"first", "export"}
        PROVE  q.result = "none"
    <3>1. call[c].result = "none"
      BY <1>3, <1>6, <2>3 DEF UseInv, PlaceFits
    <3>2. v = w /\ ~At(v, c)' /\ c \notin running[w]
      BY <1>3, <1>6, <1>7, <1>8, <2>3, OnlyThere DEF UseInv, PlaceFits, There
    <3> QED BY <1>6, <2>3, <3>1, <3>2 DEF There
  <2> QED BY <1>4, <1>6, <1>8, <2>1, <2>2, <2>3 DEF Lands, SameCall
<1>10. ASSUME q.result \in {"none", "ok"}, c \notin cleared, NEW v \in Workers,
              \/ q.stage = "export" /\ v = First
              \/ q.stage = "rest" /\ v \notin q.todo
       PROVE  Stored(v, c)'
  <2>1. call[c].result \in {"none", "ok"}
    BY <1>6, <1>10
  <2>2. Stored(v, c)
    BY <1>4, <1>6, <1>10, <2>1 DEF UseInv, KeyFits
  <2> QED BY <1>1, <2>2 DEF Stored
<1>11. Heeds(w, c, q)
  <2>1. call[c].kind \in Referring => call[c].kind = "derive"
    BY <1>4 DEF Referring, Using, Adding
  <2>2. call[c].kind \in Referring /\ ~Stored(w, call[c].ref) => ~Has(w, call[c].ref)
    BY RefFacts, StoredHas
  <2>3. call[c].stage # "once"
    BY <1>4 DEF RecordFits
  <2>4. call[c].result # "ok"
    BY <1>4
  <2> QED BY <1>1, <1>4, <1>6, <2>1, <2>2, <2>3, <2>4 DEF Heeds
<1> QED BY <1>1, <1>3, <1>4, <1>5, <1>6, <1>8, <1>9, <1>10, <1>11, AddingKeeps
        DEF Awaited

\* A further worker stores the key and has answered, or the call fails.
LEMMA AddToKeeps ==
    ASSUME PoolInv, UseInv, NEW w \in Workers, NEW c \in Calls, AddTo(w, c)
    PROVE  UseInv' /\ WorkStep(w, c)
<1> DEFINE e == [idx |-> call[c].idx, key |-> c]
<1>1. /\ call[c].stage = "rest" /\ c \in running[w]
      /\ running' = [running EXCEPT ![w] = @ \ {c}]
      /\ UNCHANGED <<pool, inbox, released, cleared, gone>>
      /\ \/ call' = [call EXCEPT ![c] = Fail(call[c])] /\ UNCHANGED store
         \/ /\ store' = [store EXCEPT ![w] = store[w] \cup {e}]
            /\ call' = [call EXCEPT ![c] = Answered(call[c], w)]
  BY Zenon DEF AddTo
<1>2. Typed /\ TypeOK /\ call[c] \in SoundCall /\ There(w, c)
  BY <1>1 DEF PoolInv, Typed, There
<1>3. /\ Awaited(w, call[c]) /\ RecordFits(call[c]) /\ call[c].kind \in Adding
      /\ call[c].result # "ok"
  BY <1>1, <1>2, NotDone DEF RecordFits
<1>4. e.key = c
  OBVIOUS
<1> HIDE DEF e
<1>5. PICK q \in SoundCall :
        /\ call' = [call EXCEPT ![c] = q]
        /\ SameCall(call[c], q) /\ RecordFits(q)
        /\ q.stage = "rest"
        /\ \A v \in Workers \ {w} : v \in q.todo <=> v \in call[c].todo
        /\ q.result \in {"none", "ok"} => call[c].result = "none" /\ Stored(w, c)'
        /\ q.result # call[c].result =>
              call[c].result = "none" /\ q.result \in {"ok", "fail"}
        /\ q.result = "none" => q.todo # {} /\ q.todo \subseteq call[c].todo
        /\ Stores(w, c)
  <2>1. CASE call' = [call EXCEPT ![c] = Fail(call[c])] /\ UNCHANGED store
    <3>1. Stores(w, c)
      BY <1>3, <2>1 DEF Stores, Stored, Clears, ClearsAll, Adding
    <3>2. /\ Fail(call[c]).result \in {"fail", "lost"}
          /\ Fail(call[c]).result # call[c].result =>
                call[c].result = "none" /\ Fail(call[c]).result = "fail"
      BY <1>2, <1>3, FailFits DEF SoundCall, CallRecord
    <3> QED BY <1>1, <1>2, <1>3, <2>1, <3>1, <3>2, FailFits, FailRecord
  <2>2. CASE /\ store' = [store EXCEPT ![w] = store[w] \cup {e}]
             /\ call' = [call EXCEPT ![c] = Answered(call[c], w)]
    <3>1. /\ store'[w] = store[w] \cup {e}
          /\ \A v \in Workers \ {w} : store'[v] = store[v]
      BY <1>2, <2>2 DEF TypeOK
    <3>2. Stored(w, c)' /\ Stores(w, c)
      BY <1>1, <1>3, <1>4, <3>1 DEF Stores, Stored, Clears, ClearsAll, Adding
    <3>3. PICK a \in SoundCall : a = Answered(call[c], w)
      BY <1>2, AnsweredRecord
    <3>4. /\ SameCall(call[c], a) /\ RecordFits(a) /\ a.stage = "rest"
          /\ a.todo = call[c].todo \ {w}
          /\ a.result \in {"none", "ok"} => call[c].result = "none"
          /\ a.result # call[c].result => call[c].result = "none" /\ a.result = "ok"
          /\ a.result = "none" => a.todo # {}
      BY <1>1, <1>2, <1>3, <3>3, AnswerFits
    <3>5. call' = [call EXCEPT ![c] = a]
      BY <2>2, <3>3
    <3> QED BY <3>2, <3>4, <3>5
  <2> QED BY <1>1, <2>1, <2>2
<1>6. /\ Flows(w, c, q) /\ ~There(w, c)'
      /\ ~\E v \in Workers : Before(v, c, c)'
      /\ \A v \in Workers \ {w} : There(v, c)' => There(v, c)
      /\ \A v \in Workers : c \in running'[v] => c \in running[v]
  BY <1>1, <1>2, StillFlows DEF TypeOK
<1>7. Lands(w, c, q)
  <2>1. \A v \in Workers : There(v, c)' => Awaited(v, q)
    BY <1>1, <1>3, <1>5, <1>6 DEF UseInv, PlaceFits, Awaited
  <2>2. \A v \in Workers : c \in running'[v] => ~At(v, c)'
    BY <1>1, <1>6 DEF UseInv, PlaceFits, At
  <2> QED BY <1>3, <1>5, <1>6, <2>1, <2>2 DEF Lands, SameCall
<1>8. ASSUME q.result \in {"none", "ok"}, c \notin cleared, NEW v \in Workers,
             v \notin q.todo
      PROVE  Stored(v, c)'
  <2>1. CASE v = w
    BY <1>5, <1>8, <2>1
  <2>2. CASE v # w
    <3>1. Stored(v, c)
      BY <1>1, <1>3, <1>5, <1>8, <2>2 DEF UseInv, KeyFits
    <3> QED BY <1>5, <2>2, <3>1 DEF Stores
  <2> QED BY <2>1, <2>2
<1>9. Heeds(w, c, q)
  <2>1. ~AtHead(w, c)
    BY <1>1, <1>2, TakenFacts DEF UseInv, PlaceFits
  <2> QED BY <1>1, <1>5, <2>1 DEF Heeds
<1> QED BY <1>1, <1>2, <1>3, <1>5, <1>6, <1>7, <1>8, <1>9, AddingKeeps

\* A key that a worker cannot add is not handed out.
LEMMA FailToAddKeeps ==
    ASSUME PoolInv, UseInv, NEW w \in Workers, NEW c \in Calls, FailToAdd(w, c)
    PROVE  UseInv' /\ WorkStep(w, c)
<1> DEFINE q == Fail(call[c])
<1>1. /\ c \in running[w]
      /\ running' = [running EXCEPT ![w] = @ \ {c}]
      /\ UNCHANGED <<pool, inbox, store, released, cleared, gone>>
      /\ call' = [call EXCEPT ![c] = q]
  BY Zenon DEF FailToAdd
<1>2. Typed /\ TypeOK /\ call[c] \in SoundCall /\ There(w, c)
  BY <1>1 DEF PoolInv, Typed, There
<1>3. /\ Awaited(w, call[c]) /\ RecordFits(call[c]) /\ call[c].result # "ok"
      /\ call[c].kind \in Adding
  BY <1>1, <1>2, NotDone DEF UseInv, PlaceFits
<1>4. /\ q \in SoundCall /\ SameCall(call[c], q) /\ RecordFits(q)
      /\ q.stage = call[c].stage /\ q.todo = call[c].todo
      /\ q.result \in {"fail", "lost"}
      /\ q.result # call[c].result => call[c].result = "none" /\ q.result = "fail"
  BY <1>2, <1>3, FailFits, FailRecord DEF SoundCall, CallRecord
<1> HIDE DEF q
<1>5. /\ Flows(w, c, q) /\ ~There(w, c)'
      /\ ~\E v \in Workers : Before(v, c, c)'
      /\ \A v \in Workers \ {w} : There(v, c)' => There(v, c)
      /\ \A v \in Workers : c \in running'[v] => c \in running[v]
  BY <1>1, <1>2, StillFlows DEF TypeOK
<1>6. Lands(w, c, q)
  <2>1. \A v \in Workers : There(v, c)' => Awaited(v, q)
    <3>1. call[c].stage # "once"
      BY <1>3 DEF RecordFits
    <3> QED BY <1>4, <1>5, <3>1 DEF UseInv, PlaceFits, Awaited
  <2>2. \A v \in Workers : c \in running'[v] => ~At(v, c)'
    BY <1>1, <1>5 DEF UseInv, PlaceFits, At
  <2>3. q.stage \in {"first", "export"} => \A v \in Workers : ~There(v, c)'
    BY <1>2, <1>4, <1>5, OnlyThere
  <2> QED BY <1>3, <1>4, <1>5, <2>1, <2>2, <2>3 DEF Lands, SameCall
<1>7. Stores(w, c)
  BY <1>1, <1>3 DEF Stores, Stored, Clears, ClearsAll, Adding
<1>8. Heeds(w, c, q)
  <2>1. ~AtHead(w, c)
    BY <1>1, <1>2, TakenFacts DEF UseInv, PlaceFits
  <2> QED BY <1>1, <1>4, <2>1 DEF Heeds
<1> QED BY <1>1, <1>2, <1>3, <1>4, <1>5, <1>6, <1>7, <1>8, AddingKeeps DEF Awaited

\* A call that goes on with r keeps what r is; it is done if nothing is awaited.
LEMMA ContinueFacts ==
    ASSUME NEW c \in Calls, NEW r \in SoundCall, NEW box, Continue(c, r, box)
    PROVE  /\ inbox' = Posted(box, c, r.todo)
           /\ \E q \in SoundCall :
                 /\ call' = [call EXCEPT ![c] = q]
                 /\ SameCall(r, q) /\ q.stage = r.stage /\ q.todo = r.todo
                 /\ q.result \in {"ok", "fail", r.result}
                 /\ q.result = "ok" => r.todo = {} \/ r.result = "ok"
                 /\ r.result # "none" /\ r.todo # {} => q.result = r.result
                 /\ q.result = "none" => r.todo # {} /\ r.todo \cap released = {}
                 /\ r.result # "fail" /\ r.todo \cap released = {} => q.result # "fail"
<1> DEFINE ok == [r EXCEPT !.result = "ok"]
           q == IF r.todo = {} THEN ok
                ELSE IF r.todo \cap released # {} THEN Fail(r) ELSE r
<1>1. /\ ok \in SoundCall /\ SameCall(r, ok) /\ ok.stage = r.stage
      /\ ok.todo = r.todo /\ ok.result = "ok"
  BY DEF SoundCall, CallRecord, SameCall
<1>2. /\ Fail(r) \in SoundCall /\ SameCall(r, Fail(r)) /\ Fail(r).stage = r.stage
      /\ Fail(r).todo = r.todo /\ Fail(r).result \in {"fail", r.result}
      /\ Fail(r).result = IF r.result = "none" THEN "fail" ELSE r.result
  BY FailRecord DEF Fail, SoundCall, CallRecord, SameCall
<1>3. /\ q \in SoundCall /\ SameCall(r, q) /\ q.stage = r.stage /\ q.todo = r.todo
      /\ q.result \in {"ok", "fail", r.result}
      /\ q.result = "ok" => r.todo = {} \/ r.result = "ok"
      /\ r.result # "none" /\ r.todo # {} => q.result = r.result
      /\ q.result = "none" => r.todo # {} /\ r.todo \cap released = {}
      /\ r.result # "fail" /\ r.todo \cap released = {} => q.result # "fail"
  <2>1. SameCall(r, r)
    BY DEF SameCall
  <2> HIDE DEF ok
  <2> QED BY <1>1, <1>2, <2>1
<1>4. call' = [call EXCEPT ![c] = q] /\ inbox' = Posted(box, c, r.todo)
  BY Zenon DEF Continue
<1> HIDE DEF q
<1> QED BY <1>3, <1>4

\* A call that has done with the first worker, and goes on as r.
LEMMA GoesOn ==
    ASSUME PoolInv, UseInv, NEW c \in Calls, There(First, c),
           call[c].stage \in {"first", "export"},
           NEW r \in SoundCall, SameCall(call[c], r),
           r.result = call[c].result,
           \/ r.stage = "export" /\ r.todo = {First}
           \/ r.stage = "rest" /\ r.todo = Workers \ {First},
           NEW box \in [Workers -> Seq(Calls)], Continue(c, r, box),
           \A v \in Workers : ~In(box[v], c),
           \A v \in Workers, x \in Calls :
              /\ In(box[v], x) =>
                    At(v, x) /\ (v = First /\ At(First, c) => Before(First, c, x))
              /\ \A y \in Calls : Precedes(box[v], x, y) => Before(v, x, y)
              /\ x # c \/ v # First =>
                    /\ At(v, x) => In(box[v], x)
                    /\ \A y \in Calls : Before(v, x, y) => Precedes(box[v], x, y),
           \A v \in Workers, x \in Calls : x \in running'[v] => x \in running[v],
           c \notin running'[First], AtHead(First, c) \/ c \in running[First],
           call[c].stage = "first" => c \in running[First],
           UNCHANGED <<pool, released, cleared, gone>>,
           Stores(First, c), Stored(First, c)'
    PROVE  UseInv' /\ WorkStep(First, c)
<1>1. First \in Workers /\ call[c] \in SoundCall /\ Typed
  BY FirstIsWorker DEF PoolInv, Typed
<1>2. /\ call[c].result = "none" /\ RecordFits(call[c]) /\ call[c].kind \in Adding
      /\ \A v \in Workers \ {First} : ~There(v, c)
      /\ First \notin released
  BY <1>1, NotDone, OnlyThere DEF RecordFits, UseInv, PlaceFits
<1>3. inbox' = Posted(box, c, r.todo)
  BY ContinueFacts
<1>4. PICK q \in SoundCall : /\ call' = [call EXCEPT ![c] = q]
                             /\ SameCall(r, q) /\ q.stage = r.stage /\ q.todo = r.todo
                             /\ q.result = "ok" => r.todo = {} \/ r.result = "ok"
                             /\ q.result \in {"ok", "fail", r.result}
                             /\ q.result = "none" =>
                                   r.todo # {} /\ r.todo \cap released = {}
                             /\ r.todo \cap released = {} => q.result # "fail"
  <2>1. r.result # "fail"
    BY <1>2
  <2> QED BY <2>1, ContinueFacts
<1>5. SameCall(call[c], q) /\ RecordFits(q) /\ q.kind \in Adding
  BY <1>1, <1>2, <1>4 DEF SameCall, RecordFits
<1>6. ASSUME NEW v \in Workers
      PROVE  /\ \A x \in Calls : At(v, x)' =>
                   In(box[v], x) \/ (x = c /\ v \in q.todo \ released)
             /\ \A x, y \in Calls : Before(v, x, y)' =>
                   Precedes(box[v], x, y) \/ (y = c /\ In(box[v], x))
             /\ \A x, y \in Calls : /\ In(box[v], x) => At(v, x)'
                                    /\ Precedes(box[v], x, y) => Before(v, x, y)'
  BY <1>3, <1>4, PostedFacts DEF At, Before
<1>7. Flows(First, c, q)
  BY <1>5, <1>6 DEF Flows
<1>8. Lands(First, c, q)
  <2> SUFFICES ASSUME NEW v \in Workers
               PROVE  /\ At(v, c)' => Awaited(v, q)
                      /\ c \notin running'[v]
                      /\ ~Before(v, c, c)'
                      /\ q.stage = "export" => q.result = "none"
    BY <1>4 DEF Lands, There
  <2>1. At(v, c)' => v \in q.todo
    BY <1>6
  <2>2. c \notin running'[v]
    BY <1>2 DEF There
  <2>3. ~Before(v, c, c)'
    BY <1>6 DEF UseInv, PlaceFits
  <2>4. q.stage = "export" => q.result = "none"
    BY <1>2, <1>4
  <2> QED BY <1>4, <2>1, <2>2, <2>3, <2>4 DEF Awaited
<1>9. ASSUME NEW v \in Workers,
             \/ q.stage = "export" /\ v = First
             \/ q.stage = "rest" /\ v \notin q.todo
      PROVE  Stored(v, c)'
  BY <1>4, <1>9
<1>10. Heeds(First, c, q)
  <2>1. AtHead(First, c) => c \notin running[First]
    BY <1>1, TakenFacts DEF Typed, UseInv, PlaceFits
  <2>2. q.result # "none" => q.result \in {"ok", "fail"}
    BY <1>2, <1>4
  <2>3. q.result = "none" => q.todo # {} /\ q.todo \cap released = {}
    BY <1>4
  <2>4. call[c].stage = "first" => c \in running[First]
    OBVIOUS
  <2> QED BY <1>2, <2>1, <2>2, <2>3, <2>4 DEF Heeds
<1> QED BY <1>1, <1>2, <1>4, <1>5, <1>7, <1>8, <1>9, <1>10, AddingKeeps

\* The first worker stores the key, and the call goes on.
LEMMA AddGoesOn ==
    ASSUME PoolInv, UseInv, NEW c \in Calls, Add(c)
    PROVE  UseInv' /\ WorkStep(First, c)
<1> DEFINE e == [idx |-> nextIdx, key |-> c]
           r == Added(call[c], nextIdx)
<1>1. /\ call[c].stage = "first" /\ c \in running[First]
      /\ running' = [running EXCEPT ![First] = @ \ {c}]
      /\ store' = [store EXCEPT ![First] = store[First] \cup {e}]
      /\ Continue(c, r, inbox)
      /\ UNCHANGED <<pool, released, cleared, gone>>
  BY Zenon DEF Add
<1>2. /\ Typed /\ TypeOK /\ call[c] \in SoundCall /\ There(First, c)
      /\ First \in Workers /\ nextIdx \in Nat
  BY <1>1, FirstIsWorker DEF PoolInv, Typed, TypeOK, There
<1>3. /\ r \in SoundCall /\ SameCall(call[c], r) /\ r.result = call[c].result
      /\ \/ r.stage = "export" /\ r.todo = {First}
         \/ r.stage = "rest" /\ r.todo = Workers \ {First}
  <2>1. r \in SoundCall
    BY <1>2, AddedRecord
  <2> QED BY <1>2, <2>1 DEF Added, SameCall, SoundCall, CallRecord
<1>4. e.key = c
  OBVIOUS
<1> HIDE DEF e, r
<1>5. /\ store'[First] = store[First] \cup {e}
      /\ \A v \in Workers \ {First} : store'[v] = store[v]
  BY <1>1, <1>2 DEF TypeOK
<1>6. Stores(First, c) /\ Stored(First, c)'
  BY <1>1, <1>2, <1>4, <1>5 DEF Stores, Stored, Clears, ClearsAll, Adding,
     UseInv, PlaceFits
<1>7. /\ \A v \in Workers, x \in Calls : x \in running'[v] => x \in running[v]
      /\ c \notin running'[First]
  BY <1>1, <1>2 DEF TypeOK
<1>8. \A v \in Workers : ~At(v, c)
  BY <1>1, <1>2, OnlyThere DEF UseInv, PlaceFits, There
<1>9. inbox \in [Workers -> Seq(Calls)]
  BY <1>2 DEF TypeOK
<1> QED BY <1>1, <1>2, <1>3, <1>6, <1>7, <1>8, <1>9, GoesOn DEF At, Before

\* The exported key goes on to the other workers, unless it is gone.
LEMMA ExportKeeps ==
    ASSUME PoolInv, UseInv, NEW c \in Calls, Export(c)
    PROVE  UseInv' /\ WorkStep(First, c)
<1>1. /\ AtHead(First, c) /\ call[c].stage = "export"
      /\ UNCHANGED <<pool, running, store, released, cleared, gone>>
      /\ \/ Has(First, c) /\ Continue(c, Exported(call[c]), Rest(First))
         \/ call' = [call EXCEPT ![c] = Fail(call[c])] /\ inbox' = Rest(First)
  BY Zenon DEF Export
<1>2. Typed /\ TypeOK /\ call[c] \in SoundCall /\ First \in Workers
  BY FirstIsWorker DEF PoolInv, Typed
<1>3. At(First, c) /\ There(First, c)
  BY <1>1, <1>2, TakenFacts DEF There
<1>4. /\ Awaited(First, call[c]) /\ RecordFits(call[c]) /\ call[c].result # "ok"
      /\ call[c].kind \in Adding /\ \A v \in Workers \ {First} : ~There(v, c)
  BY <1>1, <1>2, <1>3, NotDone, OnlyThere DEF RecordFits
<1>5. \A v \in Workers : c \notin running[v]
  BY <1>3, <1>4 DEF UseInv, PlaceFits, There
<1>6. Stores(First, c)
  BY <1>1, <1>4 DEF Stores, Stored, Clears, ClearsAll, Adding
<1>7. CASE Has(First, c) /\ Continue(c, Exported(call[c]), Rest(First))
  <2>1. PICK r \in SoundCall : r = Exported(call[c])
    BY <1>1, <1>2, ExportedRecord
  <2>2. /\ SameCall(call[c], r) /\ r.result = call[c].result
        /\ r.stage = "rest" /\ r.todo = Workers \ {First}
    BY <1>2, <2>1 DEF Exported, SameCall, SoundCall, CallRecord
  <2>3. Stored(First, c)'
    <3>1. call[c].idx \in Nat
      BY <1>1, <1>2 DEF SoundCall
    <3>2. Stored(First, c)
      BY <1>2, <1>7, <3>1, StoredHas
    <3> QED BY <1>1, <3>2 DEF Stored
  <2>4. /\ Rest(First) \in [Workers -> Seq(Calls)]
        /\ \A v \in Workers, x \in Calls :
              /\ In(Rest(First)[v], x) =>
                    At(v, x) /\ (v = First /\ At(First, c) => Before(First, c, x))
              /\ \A y \in Calls : Precedes(Rest(First)[v], x, y) => Before(v, x, y)
              /\ x # c \/ v # First =>
                    /\ At(v, x) => In(Rest(First)[v], x)
                    /\ \A y \in Calls :
                          Before(v, x, y) => Precedes(Rest(First)[v], x, y)
    BY <1>1, <1>2, TakenFacts
  <2>5. \A v \in Workers : ~In(Rest(First)[v], c)
    BY <1>2, <1>3, <1>4, <2>4 DEF UseInv, PlaceFits, There
  <2> QED BY <1>1, <1>3, <1>5, <1>6, <1>7, <2>1, <2>2, <2>3, <2>4, <2>5, <1>2, GoesOn
<1>8. CASE call' = [call EXCEPT ![c] = Fail(call[c])] /\ inbox' = Rest(First)
  <2>1. PICK q \in SoundCall : q = Fail(call[c])
    BY <1>2, FailRecord
  <2>2. /\ SameCall(call[c], q) /\ RecordFits(q)
        /\ q.stage = call[c].stage /\ q.result \in {"fail", "lost"}
        /\ q.result # call[c].result => call[c].result = "none" /\ q.result = "fail"
    BY <1>2, <1>4, <2>1, FailFits DEF SoundCall, CallRecord
  <2>3. /\ Flows(First, c, q) /\ ~\E v \in Workers : Before(v, c, c)'
        /\ \A v \in Workers : At(v, c)' => At(v, c) /\ v # First
    BY <1>1, <1>2, <1>8, TakenFlows
  <2>4. Lands(First, c, q)
    BY <1>1, <1>4, <1>5, <2>3 DEF Lands, There
  <2>5. Heeds(First, c, q)
    BY <1>1, <2>2 DEF Heeds
  <2> QED BY <1>1, <1>3, <1>4, <1>6, <1>8, <2>1, <2>2, <2>3, <2>4, <2>5, <1>2,
             AddingKeeps DEF Awaited
<1> QED BY <1>1, <1>7, <1>8

-----------------------------------------------------------------------------
(* The pool's steps.                                                       *)

\* What is kept of a call's record, as long as it is not called and posted.
LEMMA IdleFacts ==
    ASSUME UseInv, NEW c \in Calls, call[c].stage \in {"idle", "called"}
    PROVE  /\ ~HandedOut(c) /\ ~Begun(c)
           /\ \A v \in Workers : ~There(v, c) /\ ~Stored(v, c)
<1>1. RecordFits(call[c]) /\ \A v \in Workers : PlaceFits(v, c)
  BY DEF UseInv, CallFits
<1>2. ~Begun(c)
  BY DEF Begun
<1> QED BY <1>1, <1>2 DEF RecordFits, PlaceFits, Awaited, HandedOut

\* Steps that change no message, no key and no call that was posted.
LEMMA QuietKeeps ==
    ASSUME PoolInv, UseInv, NEW c \in Calls, NEW q, OnlyCall(c, q),
           \/ q = call[c]
           \/ /\ call[c].stage = "idle" /\ q.stage = "called" /\ RecordFits(q)
              /\ q.kind \in Referring => q.ref \in Calls /\ HandedOut(q.ref)
              /\ q.seen = {}
              /\ q.result = "fail" => q.late,
           \A v \in Workers, x \in Calls :
              /\ At(v, x)' <=> At(v, x)
              /\ x \in running'[v] <=> x \in running[v]
              /\ Stored(v, x)' <=> Stored(v, x)
              /\ \A y \in Calls : Before(v, x, y)' <=> Before(v, x, y),
           UNCHANGED <<released, cleared, gone>>,
           pool' # "ready" => pool # "ready"
    PROVE  UseInv'
<1> DEFINE Fresh == /\ call[c].stage = "idle" /\ q.stage = "called" /\ RecordFits(q)
                    /\ q.kind \in Referring => q.ref \in Calls /\ HandedOut(q.ref)
                    /\ q.seen = {}
                    /\ q.result = "fail" => q.late
<1>1. call'[c] = q /\ \A d \in Calls \ {c} : call'[d] = call[d]
  BY DEF OnlyCall
<1>2. /\ q = call[c] \/ Fresh
      /\ \A d \in Calls : call'[d] = call[d] \/ (d = c /\ Fresh)
  BY <1>1
<1>3. Fresh => /\ ~HandedOut(c) /\ ~Begun(c)
               /\ \A v \in Workers : ~There(v, c) /\ ~Stored(v, c)
  BY IdleFacts
<1>4. \A d \in Calls : /\ call[d].kind \in Referring => call[d].ref \in Calls
                       /\ call[d].seen \subseteq Calls
  BY DEF PoolInv, Typed, SoundCall, CallRecord
<1>5. \A d \in Calls : HandedOut(d) => HandedOut(d)'
  BY <1>2, <1>3 DEF HandedOut
<1>6. \A v \in Workers, x \in Calls : There(v, x)' <=> There(v, x)
  BY DEF There
<1>7. ASSUME NEW d \in Calls PROVE CallFits(d)'
  <2>1. CASE call'[d] = call[d]
    BY <1>4, <1>5, <2>1 DEF UseInv, CallFits, HandedOut
  <2>2. CASE d = c /\ Fresh
    BY <1>1, <1>5, <2>2 DEF CallFits, HandedOut
  <2> QED BY <1>2, <2>1, <2>2
<1>8. ASSUME NEW v \in Workers, NEW x \in Calls PROVE PlaceFits(v, x)'
  <2>1. CASE call'[x] = call[x]
    BY <1>6, <2>1 DEF UseInv, PlaceFits, Awaited, Begun
  <2>2. CASE x = c /\ Fresh
    BY <1>3, <1>6, <2>2 DEF UseInv, PlaceFits, There
  <2> QED BY <1>2, <2>1, <2>2
<1>9. RestFits'
  <2>1. released \subseteq Workers
    BY DEF PoolInv, Typed, TypeOK
  <2>2. \A v \in Workers : Empty(v) => Empty(v)'
    BY <1>6 DEF Empty
  <2>3. \A d \in Calls : call'[d].stage = "once" => call'[d] = call[d]
    BY <1>1, <1>2
  <2> QED BY <2>1, <2>2, <2>3 DEF UseInv, RestFits
<1>10. ASSUME NEW d \in Calls PROVE KeyFits(d)' /\ Succeeds(d)' /\ GoneFits(d)'
  <2>1. CASE call'[d] = call[d]
    BY <1>4, <2>1 DEF UseInv, KeyFits, Succeeds, GoneFits
  <2>2. CASE d = c /\ Fresh
    BY <1>1, <2>2 DEF KeyFits, Succeeds, GoneFits
  <2> QED BY <1>2, <2>1, <2>2
<1>11. \A v \in Workers, d \in Calls : At(v, d) => call'[d] = call[d]
  BY <1>2, <1>3 DEF There
<1>12. \A v \in Workers, x \in Calls, y \in Calls : Before(v, x, y) => At(v, x)
  BY PrecedesIn DEF At, Before
<1>13. ASSUME NEW v \in Workers, NEW d \in Calls PROVE OrderFits(v, d)'
  BY <1>11, <1>12 DEF UseInv, OrderFits, ClearsAll
<1>14. ASSUME NEW v \in Workers, NEW u \in Calls PROVE UseFits(v, u)'
  <2> SUFFICES ASSUME At(v, u)', call'[u].kind \in Using \cup {"clearKey"}, ~call'[u].late
               PROVE  UseFits(v, u)'
    BY DEF UseFits
  <2>1. At(v, u) /\ call'[u] = call[u]
    BY <1>11
  <2>2. PICK k \in Calls : k = call[u].ref /\ k = call'[u].ref
    BY <1>4, <2>1 DEF Referring
  <2>3. Stored(v, k) /\ \A d \in Calls : Before(v, d, u) => ~Clears(d, k)
    BY <2>1, <2>2 DEF UseInv, UseFits
  <2>4. \A d \in Calls : Before(v, d, u) => (Clears(d, k)' <=> Clears(d, k))
    BY <1>11, <1>12 DEF Clears, ClearsAll
  <2> QED BY <2>2, <2>3, <2>4 DEF UseFits, Stored, Clears
<1> QED BY <1>7, <1>8, <1>9, <1>10, <1>13, <1>14 DEF UseInv

\* Steps of the pool that leave all messages where they are.
LEMMA StillFacts ==
    ASSUME UNCHANGED <<inbox, running>>, UNCHANGED store
    PROVE  \A v \in Workers, x \in Calls :
              /\ At(v, x)' <=> At(v, x)
              /\ x \in running'[v] <=> x \in running[v]
              /\ Stored(v, x)' <=> Stored(v, x)
              /\ \A y \in Calls : Before(v, x, y)' <=> Before(v, x, y)
BY DEF At, Before, Stored

\* A call that is made has yet to be posted.
LEMMA CallKeeps ==
    ASSUME PoolInv, UseInv, NEW c \in Calls,
           NEW kind \in Adding \cup Clearing \cup Using,
           NEW ref \in Calls \cup {None}, Call(c, kind, ref)
    PROVE  UseInv'
<1> DEFINE r == [Idle EXCEPT !.kind = kind, !.ref = ref, !.stage = "called"]
           result == IF kind = "destroy" THEN "ok" ELSE "fail"
           failed == [r EXCEPT !.late = TRUE, !.result = result]
           q == IF pool # "null" THEN r ELSE failed
<1>1. kind \in Referring => ref \in Calls /\ HandedOut(ref)
  BY DEF Call
<1>2. /\ call' = [call EXCEPT ![c] = q] /\ call[c].stage = "idle"
      /\ UNCHANGED <<pool, inbox, running, store, released, cleared, gone>>
  BY Zenon DEF Call, workers
<1>3. /\ r \in SoundCall /\ r.kind = kind /\ r.ref = ref /\ r.stage = "called"
      /\ r.todo = {} /\ r.seen = {} /\ r.result = "none"
  BY <1>1, NoneAssumption DEF Idle, SoundCall, CallRecord
<1>4. result \in {"ok", "fail"} /\ (result = "ok" => kind \notin Adding)
  BY DEF Adding
<1> HIDE DEF r, result
<1>5. /\ failed \in SoundCall /\ failed.kind = kind /\ failed.ref = ref
      /\ failed.stage = "called" /\ failed.todo = {} /\ failed.seen = {}
      /\ failed.late /\ failed.result = result
  BY <1>3, <1>4 DEF SoundCall, CallRecord
<1> HIDE DEF failed
<1>6. /\ q \in SoundCall /\ q.kind = kind /\ q.ref = ref /\ q.stage = "called"
      /\ q.todo = {} /\ q.seen = {}
      /\ q.result = "ok" => kind \notin Adding
      /\ q.result = "fail" => q.late
  BY <1>3, <1>4, <1>5
<1> HIDE DEF q
<1>7. OnlyCall(c, q)
  BY <1>2, <1>6, OneCall DEF PoolInv, OnlyCall
<1>8. RecordFits(q)
  BY <1>6 DEF RecordFits
<1> QED BY <1>1, <1>2, <1>6, <1>7, <1>8, StillFacts, QuietKeeps

\* A new pool starts with what the last one left: nothing.
LEMMA PoolKeeps ==
    ASSUME PoolInv, UseInv, InitPool \/ Load \/ FailLoad \/ UNCHANGED vars
    PROVE  UseInv'
<1>1. UNCHANGED <<call, inbox, running, released, cleared, gone>>
  BY Zenon DEF InitPool, Load, FailLoad, workers, vars
<1>2. pool' # "ready" => pool # "ready"
  BY Zenon DEF InitPool, Load, FailLoad, vars
<1>3. \A v \in Workers, x \in Calls : Stored(v, x)' <=> Stored(v, x)
  <2>1. CASE Load
    <3>1. pool # "ready" /\ \A v \in Workers : store'[v] = {}
      BY <2>1 DEF Load
    <3>2. \A v \in Workers, x \in Calls : ~Stored(v, x)
      BY <3>1 DEF UseInv, RestFits, Empty
    <3> QED BY <3>1, <3>2 DEF Stored
  <2>2. CASE UNCHANGED store
    BY <2>2 DEF Stored
  <2> QED BY <2>1, <2>2, Zenon DEF InitPool, FailLoad, workers, vars
<1>4. \A v \in Workers, x \in Calls :
         /\ At(v, x)' <=> At(v, x)
         /\ x \in running'[v] <=> x \in running[v]
         /\ \A y \in Calls : Before(v, x, y)' <=> Before(v, x, y)
  BY <1>1 DEF At, Before
<1>5. CASE \E c \in Calls : TRUE
  <2>1. PICK c \in Calls : TRUE
    BY <1>5
  <2>2. OnlyCall(c, call[c])
    BY <1>1 DEF OnlyCall
  <2> QED BY <1>1, <1>2, <1>3, <1>4, <2>2, QuietKeeps
<1>6. CASE ~\E c \in Calls : TRUE
  <2>1. released' \subseteq Workers
    BY <1>1 DEF PoolInv, Typed, TypeOK
  <2> QED BY <1>6, <2>1 DEF UseInv, RestFits, Empty
<1> QED BY <1>5, <1>6

\* What a call that is posted as q comes to; the workers ws are to get it, and
\* it is refused if one of them is released, or if there is no pool.
Posts(c, q, ws) ==
    /\ call[c].stage = "called" /\ OnlyCall(c, q)
    /\ UNCHANGED <<pool, running, store, released>>
    /\ q.kind = call[c].kind /\ q.ref = call[c].ref
    /\ q.stage = IF q.kind \in Adding THEN "first" ELSE "once"
    /\ \/ /\ q.result = "fail" /\ q.todo = {} /\ q.late /\ q.barred
          /\ pool = "ready" => ws \cap released # {}
       \/ /\ q.result = "none" /\ q.todo = ws /\ ws \cap released = {}
          /\ pool = "ready"
          /\ q.late <=> q.ref \in cleared
          /\ q.barred <=> Closing \/ q.ref \in gone
    /\ q.seen \subseteq Calls /\ \A k \in q.seen : HandedOut(k)
    /\ q.kind = "clearKey" => q.seen = {q.ref}

\* The messages that go out, and the keys that are to be cleared from then on.
Sends(c, q, ws) ==
    /\ ws \in SUBSET Workers /\ ws # {}
    /\ q.kind \in Adding => ws = {First}
    /\ q.kind \in Clearing => ws = Workers
    /\ \A v \in Workers, x \in Calls :
          /\ At(v, x)' => At(v, x) \/ (x = c /\ v \in ws \ released /\ pool = "ready")
          /\ \A y \in Calls :
                Before(v, x, y)' => Before(v, x, y) \/ (y = c /\ At(v, x))
          /\ At(v, x) => At(v, x)'
          /\ \A y \in Calls : Before(v, x, y) => Before(v, x, y)'
    /\ pool = "ready" => \A v \in ws \ released :
          At(v, c)' /\ \A x \in Calls : At(v, x) => Before(v, x, c)'
    /\ \A k \in Calls :
          /\ k \in cleared' <=>
                \/ k \in cleared
                \/ pool = "ready" /\ q.kind = "clearKey" /\ k = q.ref
                \/ pool = "ready" /\ q.kind \in {"clearKeyStore", "destroy"} /\ Begun(k)
          /\ k \in gone' <=>
                \/ k \in gone
                \/ pool = "ready" /\ q.kind = "clearKey" /\ k = q.ref
                \/ pool = "ready" /\ q.kind = "clearKeyStore" /\ HandedOut(k)
                \/ pool = "ready" /\ q.kind = "destroy" /\ Begun(k)

\* A call that is posted, to one worker or to all, or refused.
LEMMA PostFacts ==
    ASSUME PoolInv, UseInv, NEW c \in Calls, Post(c)
    PROVE  \E q \in SoundCall : \E ws : Posts(c, q, ws) /\ Sends(c, q, ws)
<1> DEFINE r  == call[c]
           ws == Targets(r.kind)
           refused == pool = "failed" \/ ws \cap released # {}
           stage == IF r.kind \in Adding THEN "first" ELSE "once"
           todo == IF refused THEN {} ELSE ws
           late == refused \/ r.ref \in cleared
           barred == refused \/ Closing \/ r.ref \in gone
           seen == CASE r.kind = "clearKey" -> {r.ref}
                     [] r.kind = "clearKeyStore" -> {d \in Calls : HandedOut(d)}
                     [] OTHER -> {}
           result == IF refused THEN "fail" ELSE "none"
           q == [r EXCEPT !.stage = stage, !.todo = todo, !.late = late,
                          !.barred = barred, !.seen = seen, !.result = result]
<1>1. /\ Typed /\ TypeOK /\ r \in SoundCall /\ r.stage = "called"
      /\ pool \in {"ready", "failed"}
      /\ UNCHANGED <<pool, running, store, released>>
  BY Zenon DEF Post, PoolInv, Typed
<1>2. call' = [call EXCEPT ![c] = q]
  BY Zenon DEF Post
<1>3. NextWorker \in Workers
  BY <1>1, PoolSizeAssumption DEF TypeOK, NextWorker, Workers
<1>4. /\ ws \in SUBSET Workers /\ ws # {}
      /\ r.kind \in Adding => ws = {First}
      /\ r.kind \in Clearing => ws = Workers
  BY <1>3, FirstIsWorker DEF Targets, Adding, Clearing
<1>5. r.kind = "clearKey" => r.ref \in Calls /\ HandedOut(r.ref)
  BY RefFacts DEF Referring
<1>6. /\ seen \in SUBSET Calls
      /\ \A k \in seen : HandedOut(k)
      /\ r.kind = "clearKey" => seen = {r.ref}
  BY <1>5
<1>7. /\ stage = IF r.kind \in Adding THEN "first" ELSE "once"
      /\ todo = IF refused THEN {} ELSE ws
      /\ late \in BOOLEAN /\ (late <=> refused \/ r.ref \in cleared)
      /\ barred \in BOOLEAN /\ (barred <=> refused \/ Closing \/ r.ref \in gone)
      /\ result = IF refused THEN "fail" ELSE "none"
  OBVIOUS
<1> HIDE DEF stage, todo, late, barred, seen, result
<1>8. /\ q.kind = r.kind /\ q.ref = r.ref /\ q.stage = stage /\ q.todo = todo
      /\ q.late = late /\ q.barred = barred /\ q.seen = seen
      /\ q.result = result /\ q.idx = r.idx
  BY <1>1 DEF SoundCall, CallRecord
<1>9. q \in SoundCall
  <2>1. call'[c] = q
    BY <1>1, <1>2 DEF Typed
  <2> QED BY <1>1, <2>1, PostStep DEF Settled, Typed
<1>10. OnlyCall(c, q)
  BY <1>1, <1>2, <1>9, OneCall DEF OnlyCall
<1>11. Posts(c, q, ws)
  BY <1>1, <1>6, <1>7, <1>8, <1>10 DEF Posts
<1>12. ASSUME NEW v \in Workers
       PROVE  /\ \A x \in Calls :
                 /\ At(v, x)' =>
                       At(v, x) \/ (x = c /\ v \in ws \ released /\ pool = "ready")
                 /\ \A y \in Calls :
                       Before(v, x, y)' => Before(v, x, y) \/ (y = c /\ At(v, x))
                 /\ At(v, x) => At(v, x)'
                 /\ \A y \in Calls : Before(v, x, y) => Before(v, x, y)'
              /\ pool = "ready" /\ v \in ws \ released =>
                    At(v, c)' /\ \A x \in Calls : At(v, x) => Before(v, x, c)'
  <2>1. CASE inbox' = inbox /\ pool # "ready"
    BY <2>1 DEF At, Before
  <2>2. CASE inbox' = Posted(inbox, c, ws) /\ pool = "ready"
    <3>1. inbox \in [Workers -> Seq(Calls)]
      BY <1>1 DEF TypeOK
    <3> QED BY <2>2, <3>1, PostedFacts DEF At, Before
  <2>3. inbox' = IF pool = "failed" THEN inbox ELSE Posted(inbox, c, ws)
    BY Zenon DEF Post
  <2> QED BY <1>1, <2>1, <2>2, <2>3
<1>13. ASSUME NEW k \in Calls
       PROVE  /\ k \in cleared' <=>
                    \/ k \in cleared
                    \/ pool = "ready" /\ r.kind = "clearKey" /\ k = r.ref
                    \/ /\ pool = "ready" /\ r.kind \in {"clearKeyStore", "destroy"}
                       /\ Begun(k)
              /\ k \in gone' <=>
                    \/ k \in gone
                    \/ pool = "ready" /\ r.kind = "clearKey" /\ k = r.ref
                    \/ pool = "ready" /\ r.kind = "clearKeyStore" /\ HandedOut(k)
                    \/ pool = "ready" /\ r.kind = "destroy" /\ Begun(k)
  <2>1. pool = "ready" =>
          /\ cleared' = CASE r.kind = "clearKey" -> cleared \cup {r.ref}
                          [] r.kind \in {"clearKeyStore", "destroy"} ->
                                cleared \cup {d \in Calls : Begun(d)}
                          [] OTHER -> cleared
          /\ gone' = CASE r.kind = "clearKey" -> gone \cup {r.ref}
                       [] r.kind = "clearKeyStore" ->
                             gone \cup {d \in Calls : HandedOut(d)}
                       [] r.kind = "destroy" -> gone \cup {d \in Calls : Begun(d)}
                       [] OTHER -> gone
    BY Zenon DEF Post
  <2>4. CASE pool # "ready"
    <3>1. pool = "failed"
      BY <1>1, <2>4
    <3>2. cleared' = cleared /\ gone' = gone
      BY <3>1, Zenon DEF Post
    <3> QED BY <2>4, <3>2
  <2>5. CASE pool = "ready" /\ r.kind = "clearKey"
    <3>1. cleared' = cleared \cup {r.ref} /\ gone' = gone \cup {r.ref}
      BY <2>1, <2>5
    <3> QED BY <2>5, <3>1
  <2>6. CASE pool = "ready" /\ r.kind = "clearKeyStore"
    <3>1. /\ cleared' = cleared \cup {d \in Calls : Begun(d)}
          /\ gone' = gone \cup {d \in Calls : HandedOut(d)}
      BY <2>1, <2>6
    <3> QED BY <2>6, <3>1
  <2>7. CASE pool = "ready" /\ r.kind = "destroy"
    <3>1. /\ cleared' = cleared \cup {d \in Calls : Begun(d)}
          /\ gone' = gone \cup {d \in Calls : Begun(d)}
      BY <2>1, <2>7
    <3> QED BY <2>7, <3>1
  <2>8. CASE pool = "ready" /\ r.kind \notin Clearing
    <3>1. cleared' = cleared /\ gone' = gone
      BY <2>1, <2>8 DEF Clearing
    <3> QED BY <2>8, <3>1 DEF Clearing
  <2> QED BY <2>4, <2>5, <2>6, <2>7, <2>8 DEF Clearing
<1>14. Sends(c, q, ws)
  BY <1>4, <1>8, <1>12, <1>13 DEF Sends
<1> QED BY <1>9, <1>11, <1>14

\* A message goes behind all that clears a key it needs, and no worker is
\* without the key.
LEMMA PostKeeps ==
    ASSUME PoolInv, UseInv, NEW c \in Calls, Post(c)
    PROVE  UseInv'
<1> PICK q \in SoundCall : \E ws : Posts(c, q, ws) /\ Sends(c, q, ws)
  BY PostFacts
<1>1. PICK ws : Posts(c, q, ws) /\ Sends(c, q, ws)
  OBVIOUS
<1>2. /\ call'[c] = q /\ \A d \in Calls \ {c} : call'[d] = call[d]
      /\ q.kind = call[c].kind /\ q.ref = call[c].ref
  BY <1>1 DEF Posts, OnlyCall
<1>3. /\ q.stage = IF q.kind \in Adding THEN "first" ELSE "once"
      /\ \/ /\ q.result = "fail" /\ q.todo = {} /\ q.late
            /\ pool = "ready" => ws \cap released # {}
         \/ /\ q.result = "none" /\ q.todo = ws /\ ws \cap released = {}
            /\ q.late <=> q.ref \in cleared
      /\ q.kind \in Adding => ws = {First}
      /\ q.seen \subseteq Calls /\ \A k \in q.seen : HandedOut(k)
      /\ q.kind = "clearKey" => q.seen = {q.ref}
  BY <1>1 DEF Posts, Sends
<1>4. /\ ~HandedOut(c) /\ ~Begun(c)
      /\ \A v \in Workers : ~There(v, c) /\ ~Stored(v, c)
  BY <1>1, IdleFacts DEF Posts
<1>5. \A v \in Workers, x \in Calls :
         /\ x \in running'[v] <=> x \in running[v]
         /\ Stored(v, x)' <=> Stored(v, x)
  BY <1>1 DEF Posts, Stored
<1>6. /\ pool' = pool /\ released' = released /\ cleared \subseteq cleared'
      /\ ws \subseteq Workers
  BY <1>1 DEF Posts, Sends, PoolInv, Typed, TypeOK
<1>7. \A v \in Workers, x \in Calls :
         /\ At(v, x)' => At(v, x) \/ (x = c /\ v \in ws \ released /\ pool = "ready")
         /\ \A y \in Calls :
               Before(v, x, y)' => Before(v, x, y) \/ (y = c /\ At(v, x))
  BY <1>1 DEF Sends
<1>8. \A d \in Calls : /\ call'[d].kind = call[d].kind /\ call'[d].ref = call[d].ref
                       /\ ClearsAll(d)' <=> ClearsAll(d)
                       /\ HandedOut(d) => HandedOut(d)'
                       /\ Begun(d) => Begun(d)'
  BY <1>2, <1>4 DEF ClearsAll, HandedOut, Begun
<1>9. \A d \in Calls : /\ call[d].kind \in Referring => call[d].ref \in Calls
                       /\ call[d].seen \subseteq Calls
  BY DEF PoolInv, Typed, SoundCall, CallRecord
<1>10. ASSUME NEW d \in Calls PROVE CallFits(d)'
  <2>1. CASE d = c
    <3>1. RecordFits(q)
      BY <1>3 DEF RecordFits, Adding
    <3>2. CallFits(c)
      BY DEF UseInv
    <3> QED BY <1>2, <1>3, <1>8, <1>9, <2>1, <3>1, <3>2 DEF CallFits, HandedOut
  <2>2. CASE d # c
    BY <1>2, <1>8, <1>9, <2>2 DEF UseInv, CallFits, HandedOut
  <2> QED BY <2>1, <2>2
<1>11. ASSUME NEW v \in Workers, NEW x \in Calls PROVE PlaceFits(v, x)'
  <2>1. CASE x = c
    <3>1. At(v, c)' => v \in ws \ released /\ pool = "ready"
      BY <1>4, <1>7 DEF There
    <3>2. At(v, c)' => Awaited(v, q)
      <4>1. CASE q.kind \in Adding
        <5>1. ws = {First}
          BY <1>1, <4>1 DEF Sends
        <5> QED BY <1>3, <3>1, <4>1, <5>1 DEF Awaited
      <4>2. CASE q.kind \notin Adding
        BY <1>3, <3>1, <4>2 DEF Awaited
      <4> QED BY <4>1, <4>2
    <3>3. ~Before(v, c, c)'
      BY <1>4, <1>7 DEF UseInv, PlaceFits, There
    <3>4. c \notin running'[v] /\ ~Stored(v, c)'
      BY <1>4, <1>5 DEF There
    <3>5. At(v, c)' /\ q.stage = "first" => q.result = "none"
      BY <1>3, <3>1
    <3>6. q.stage # "export"
      BY <1>3
    <3> QED BY <1>2, <2>1, <3>2, <3>3, <3>4, <3>5, <3>6 DEF PlaceFits, There, Awaited
  <2>2. CASE x # c
    <3>1. PlaceFits(v, x) /\ call'[x] = call[x]
      BY <1>2, <2>2 DEF UseInv
    <3> QED BY <1>5, <1>7, <1>8, <2>2, <3>1 DEF PlaceFits, There, Awaited
  <2> QED BY <2>1, <2>2
<1>12. RestFits'
  <2>1. released \subseteq Workers
    BY DEF PoolInv, Typed, TypeOK
  <2>2. ASSUME NEW v \in Workers, v \in released \/ pool # "ready", Empty(v)
        PROVE  Empty(v)'
    BY <1>5, <1>7, <2>2 DEF Empty, There
  <2>3. ASSUME q.kind = "destroy", q.result = "none"
        PROVE  q.todo = Workers \ released
    <3>1. ws = Workers
      BY <1>1, <2>3 DEF Sends, Clearing
    <3> QED BY <1>3, <2>1, <2>3, <3>1
  <2> QED BY <1>2, <1>6, <2>1, <2>2, <2>3 DEF UseInv, RestFits
<1>13. ASSUME NEW k \in Calls PROVE KeyFits(k)'
  <2>1. CASE k = c
    BY <1>2, <1>3, <2>1 DEF KeyFits
  <2>2. CASE k # c
    BY <1>2, <1>5, <1>6, <2>2 DEF UseInv, KeyFits
  <2> QED BY <2>1, <2>2
<1>14. ASSUME NEW v \in Workers, NEW d \in Calls PROVE OrderFits(v, d)'
  <2>1. OrderFits(v, d)
    BY DEF UseInv
  <2>2. CASE d = c
    <3>1. ASSUME At(v, c)', ClearsAll(c), NEW k \in Calls,
                 \/ k \in running'[v] \/ Stored(v, k)'
                 \/ call[k].kind \in Adding /\ Before(v, k, c)'
          PROVE  k \in cleared'
      <4>1. /\ k \in running[v] \/ Stored(v, k)
                  \/ (call[k].kind \in Adding /\ At(v, k))
        <5>1. Before(v, k, c) => At(v, k)
          BY PrecedesIn DEF At, Before
        <5> QED BY <1>5, <1>7, <3>1, <5>1
      <4>2. Begun(k)
        BY <4>1 DEF UseInv, PlaceFits, There, Awaited, Begun
      <4>3. pool = "ready"
        BY <1>4, <1>7, <3>1 DEF There
      <4> QED BY <1>1, <1>2, <3>1, <4>2, <4>3 DEF Sends, ClearsAll
    <3>2. At(v, c)' /\ q.kind = "clearKey" => q.ref \in cleared'
      BY <1>1, <1>2, <1>4, <1>7, <1>9 DEF Sends, There, Referring
    <3> QED BY <1>2, <1>8, <2>2, <3>1, <3>2 DEF OrderFits
  <2>3. CASE d # c
    <3>1. At(v, d)' => At(v, d)
      BY <1>7, <2>3
    <3>2. \A k \in Calls : Before(v, k, d)' => Before(v, k, d)
      BY <1>7, <2>3
    <3> QED BY <1>2, <1>5, <1>6, <1>8, <2>1, <2>3, <3>1, <3>2 DEF OrderFits
  <2> QED BY <2>2, <2>3
<1>15. ASSUME NEW v \in Workers, NEW u \in Calls PROVE UseFits(v, u)'
  <2> SUFFICES ASSUME At(v, u)', call'[u].kind \in Using \cup {"clearKey"}, ~call'[u].late
               PROVE  UseFits(v, u)'
    BY DEF UseFits
  <2>1. PICK k \in Calls : k = call[u].ref /\ k = call'[u].ref /\ HandedOut(k)
    BY <1>8, RefFacts DEF Referring
  <2>2. \A d \in Calls : Clears(d, k)' <=> Clears(d, k)
    BY <1>8 DEF Clears
  <2>3. CASE u = c
    <3>1. k \notin cleared
      BY <1>2, <1>3, <2>1, <2>3
    <3>2. KeyFits(k) /\ RecordFits(call[k])
      BY DEF UseInv, CallFits
    <3>3. Stored(v, k)
      BY <2>1, <3>1, <3>2 DEF KeyFits, HandedOut, RecordFits
    <3>4. ASSUME NEW d \in Calls, Before(v, d, c)' PROVE ~Clears(d, k)
      <4>1. At(v, d)
        <5>1. Before(v, d, c) => At(v, d)
          BY PrecedesIn DEF At, Before
        <5> QED BY <1>7, <3>4, <5>1
      <4>2. OrderFits(v, d)
        BY DEF UseInv
      <4> QED BY <3>1, <3>3, <4>1, <4>2 DEF OrderFits, Clears
    <3> QED BY <1>5, <2>1, <2>2, <2>3, <3>3, <3>4 DEF UseFits, Stored, Clears
  <2>4. CASE u # c
    <3>1. At(v, u) /\ \A d \in Calls : Before(v, d, u)' => Before(v, d, u)
      BY <1>7, <2>4
    <3>2. Stored(v, k) /\ \A d \in Calls : Before(v, d, u) => ~Clears(d, k)
      BY <1>2, <2>1, <2>4, <3>1 DEF UseInv, UseFits
    <3> QED BY <1>5, <2>1, <2>2, <3>1, <3>2 DEF UseFits, Stored, Clears
  <2> QED BY <2>3, <2>4
<1>16. ASSUME NEW d \in Calls PROVE Succeeds(d)' /\ GoneFits(d)'
  <2>1. CASE d = c
    <3>1. q.kind \in Clearing => ws = Workers
      BY <1>1 DEF Sends
    <3> QED BY <1>2, <1>3, <2>1, <3>1 DEF Succeeds, GoneFits
  <2>2. CASE d # c
    BY <1>2, <1>5, <1>9, <2>2 DEF UseInv, Succeeds, GoneFits
  <2> QED BY <2>1, <2>2
<1> QED BY <1>10, <1>11, <1>12, <1>13, <1>14, <1>15, <1>16 DEF UseInv

\* What the release of w by c does to all calls: c no longer awaits it, those
\* that do are lost, and with the last worker the calls to be posted fail.
Releases(w, c, last) ==
    /\ AtHead(w, c) /\ At(w, c) /\ call[c].kind = "destroy"
    /\ pool' = IF last THEN "null" ELSE pool
    /\ released' = IF last THEN {} ELSE released \cup {w}
    /\ cleared' = cleared /\ gone' = gone
    /\ \A d \in Calls :
          /\ call'[d].kind = call[d].kind /\ call'[d].ref = call[d].ref
          /\ call'[d].seen = call[d].seen /\ call'[d].stage = call[d].stage
          /\ call[d].late => call'[d].late
          /\ call'[d].todo = IF d = c THEN call[d].todo \ {w} ELSE call[d].todo
          /\ call[d].result # "none" => call'[d].result = call[d].result
          /\ call'[d].result = "none" /\ d # c => call[d].stage \in {"idle", "called"}
                                                    \/ w \notin call[d].todo
          /\ call'[d].result = "ok" => \/ call[d].result = "ok"
                                       \/ d = c /\ call[d].todo \ {w} = {}
          /\ call'[d].result = "fail" => call[d].result = "fail" \/ call'[d].late
          /\ call'[d].barred = call[d].barred
          /\ call[d].stage # "called" => call'[d].late = call[d].late
          /\ d # c => call'[d].result =
                IF Pending(d) /\ w \in call[d].todo THEN "lost"
                ELSE IF last /\ Pending(d) /\ call[d].stage = "called" THEN "fail"
                ELSE call[d].result
          /\ d = c => call'[d].result =
                IF call[d].todo \ {w} = {} /\ call[d].result = "none" THEN "ok"
                ELSE call[d].result
    /\ last <=> call'[c].result = "ok"
    /\ \A v \in Workers, x \in Calls :
          /\ At(v, x)' => At(v, x) /\ v # w /\ ~last
          /\ x \in running'[v] => x \in running[v] /\ v # w /\ ~last
          /\ Stored(v, x)' <=> Stored(v, x) /\ v # w
          /\ \A y \in Calls : Before(v, x, y)' => Before(v, x, y)
          /\ v # w /\ ~last => /\ At(v, x) => At(v, x)'
                               /\ \A y \in Calls : Before(v, x, y) => Before(v, x, y)'

\* A worker that is released, the last one or not.
LEMMA ReleaseFacts ==
    ASSUME PoolInv, UseInv, NEW w \in Workers, NEW c \in Calls, Release(w, c)
    PROVE  \E last \in BOOLEAN : Releases(w, c, last)
<1> DEFINE r == Answered(call[c], w)
           lost(d) == [call[d] EXCEPT !.result = "lost"]
           late(d) == [call[d] EXCEPT !.result = "fail", !.late = TRUE]
<1>1. /\ Typed /\ TypeOK /\ \A d \in Calls : call[d] \in SoundCall
      /\ RecordFits(call[c])
  BY DEF PoolInv, Typed, UseInv, CallFits
<1>2. PICK last \in BOOLEAN : last = (r.result = "ok")
  OBVIOUS
<1> DEFINE after(d) == IF d = c THEN r
              ELSE IF Pending(d) /\ w \in call[d].todo THEN lost(d)
              ELSE IF last /\ Pending(d) /\ call[d].stage = "called" THEN late(d)
              ELSE call[d]
<1>3. call' = [d \in Calls |-> after(d)]
  BY <1>2, Zenon DEF Release
<1>4. /\ AtHead(w, c) /\ call[c].kind = "destroy"
      /\ pool' = IF last THEN "null" ELSE pool
      /\ released' = IF last THEN {} ELSE released \cup {w}
      /\ inbox' = [v \in Workers |-> IF last \/ v = w THEN <<>> ELSE inbox[v]]
      /\ running' = [v \in Workers |-> IF last \/ v = w THEN {} ELSE running[v]]
      /\ store' = [store EXCEPT ![w] = {}]
      /\ cleared' = cleared /\ gone' = gone
  BY <1>2, Zenon DEF Release
<1> HIDE DEF r, lost, late
<1>5. call'[c] = r /\ \A d \in Calls : call'[d] = after(d)
  BY <1>3
<1> HIDE DEF after
<1>6. At(w, c)
  BY <1>1, <1>4, TakenFacts
<1>7. /\ SameCall(call[c], r) /\ r.stage = call[c].stage
      /\ r.todo = call[c].todo \ {w}
      /\ r.result = IF call[c].todo \ {w} = {} /\ call[c].result = "none"
                    THEN "ok" ELSE call[c].result
  BY <1>1, <1>4, AnswerFits DEF Adding, r
<1>8. ASSUME NEW d \in Calls
      PROVE  /\ SameCall(call[d], lost(d)) /\ lost(d).stage = call[d].stage
             /\ lost(d).todo = call[d].todo /\ lost(d).result = "lost"
             /\ late(d).kind = call[d].kind /\ late(d).ref = call[d].ref
             /\ late(d).seen = call[d].seen /\ late(d).stage = call[d].stage
             /\ late(d).todo = call[d].todo /\ late(d).result = "fail"
             /\ late(d).late /\ late(d).barred = call[d].barred
  BY <1>1 DEF SoundCall, CallRecord, SameCall, lost, late
<1>9. ASSUME NEW d \in Calls
      PROVE  /\ call'[d].kind = call[d].kind /\ call'[d].ref = call[d].ref
             /\ call'[d].seen = call[d].seen /\ call'[d].stage = call[d].stage
             /\ call[d].late => call'[d].late
             /\ call'[d].todo = IF d = c THEN call[d].todo \ {w} ELSE call[d].todo
             /\ call[d].result # "none" => call'[d].result = call[d].result
             /\ call'[d].result = "none" /\ d # c =>
                   call[d].stage \in {"idle", "called"} \/ w \notin call[d].todo
             /\ call'[d].result = "ok" => \/ call[d].result = "ok"
                                          \/ d = c /\ call[d].todo \ {w} = {}
             /\ call'[d].result = "fail" => call[d].result = "fail" \/ call'[d].late
             /\ call'[d].barred = call[d].barred
             /\ call[d].stage # "called" => call'[d].late = call[d].late
             /\ d # c => call'[d].result =
                   IF Pending(d) /\ w \in call[d].todo THEN "lost"
                   ELSE IF last /\ Pending(d) /\ call[d].stage = "called" THEN "fail"
                   ELSE call[d].result
             /\ d = c => call'[d].result =
                   IF call[d].todo \ {w} = {} /\ call[d].result = "none" THEN "ok"
                   ELSE call[d].result
  <2>1. CASE d = c
    <3> QED BY <1>7, <1>5, <2>1 DEF SameCall
  <2>2. CASE d # c /\ Pending(d) /\ w \in call[d].todo
    <3>1. call'[d] = lost(d)
      BY <1>5, <2>2 DEF after
    <3> QED BY <1>8, <2>2, <3>1 DEF SameCall, Pending
  <2>3. CASE /\ d # c /\ Pending(d) /\ w \notin call[d].todo /\ call'[d] = late(d)
             /\ last /\ call[d].stage = "called"
    <3> QED BY <1>8, <2>3 DEF Pending
  <2>4. CASE /\ d # c /\ ~(Pending(d) /\ w \in call[d].todo) /\ call'[d] = call[d]
             /\ ~(last /\ Pending(d) /\ call[d].stage = "called")
    BY <2>4 DEF Pending
  <2>5. \/ d = c
        \/ d # c /\ Pending(d) /\ w \in call[d].todo
        \/ /\ d # c /\ Pending(d) /\ w \notin call[d].todo /\ call'[d] = late(d)
           /\ last /\ call[d].stage = "called"
        \/ /\ d # c /\ ~(Pending(d) /\ w \in call[d].todo) /\ call'[d] = call[d]
           /\ ~(last /\ Pending(d) /\ call[d].stage = "called")
    <3> QED BY <1>5 DEF after
  <2> QED BY <2>1, <2>2, <2>3, <2>4, <2>5
<1>10. last <=> call'[c].result = "ok"
  BY <1>2, <1>5
<1>11. ASSUME NEW v \in Workers, NEW x \in Calls
      PROVE  /\ At(v, x)' => At(v, x) /\ v # w /\ ~last
             /\ x \in running'[v] => x \in running[v] /\ v # w /\ ~last
             /\ Stored(v, x)' <=> Stored(v, x) /\ v # w
             /\ \A y \in Calls : Before(v, x, y)' => Before(v, x, y)
             /\ v # w /\ ~last => /\ At(v, x) => At(v, x)'
                                  /\ \A y \in Calls : Before(v, x, y) => Before(v, x, y)'
  <2>1. /\ inbox'[v] = IF last \/ v = w THEN <<>> ELSE inbox[v]
        /\ running'[v] = IF last \/ v = w THEN {} ELSE running[v]
        /\ store'[v] = IF v = w THEN {} ELSE store[v]
    BY <1>1, <1>4 DEF TypeOK
  <2> QED BY <2>1, EmptyFacts DEF At, Before, Stored
<1> QED BY <1>4, <1>9, <1>10, <1>11, <1>6 DEF Releases

\* A worker that is released has no key left that nothing clears; with the last
\* one, nothing is left.
LEMMA ReleaseKeeps ==
    ASSUME PoolInv, UseInv, NEW w \in Workers, NEW c \in Calls, Release(w, c)
    PROVE  UseInv'
<1>1. PICK last \in BOOLEAN : Releases(w, c, last)
  BY ReleaseFacts
<1>2. /\ At(w, c) /\ There(w, c) /\ call[c].kind = "destroy"
      /\ pool' = (IF last THEN "null" ELSE pool)
      /\ released' = (IF last THEN {} ELSE released \cup {w})
      /\ cleared' = cleared /\ gone' = gone /\ (last <=> call'[c].result = "ok")
  BY <1>1 DEF Releases, There
<1>3. \A d \in Calls :
          /\ call'[d].kind = call[d].kind /\ call'[d].ref = call[d].ref
          /\ call'[d].seen = call[d].seen /\ call'[d].stage = call[d].stage
          /\ call[d].late => call'[d].late
          /\ ClearsAll(d)' <=> ClearsAll(d)
  BY <1>1 DEF Releases, ClearsAll
<1>4. \A d \in Calls :
          /\ call'[d].todo = IF d = c THEN call[d].todo \ {w} ELSE call[d].todo
          /\ call[d].result # "none" => call'[d].result = call[d].result
          /\ call'[d].result = "none" /\ d # c => call[d].stage \in {"idle", "called"}
                                                    \/ w \notin call[d].todo
          /\ call'[d].result = "ok" => \/ call[d].result = "ok"
                                       \/ d = c /\ call[d].todo \ {w} = {}
          /\ call'[d].result = "fail" => call[d].result = "fail" \/ call'[d].late
  BY <1>1 DEF Releases
<1>5. \A v \in Workers, x \in Calls :
          /\ At(v, x)' => At(v, x) /\ v # w /\ ~last
          /\ x \in running'[v] => x \in running[v] /\ v # w /\ ~last
          /\ Stored(v, x)' <=> Stored(v, x) /\ v # w
          /\ \A y \in Calls : Before(v, x, y)' => Before(v, x, y)
  BY <1>1 DEF Releases
<1>6. /\ call[c].result # "ok" /\ Awaited(w, call[c]) /\ RecordFits(call[c])
      /\ pool = "ready" /\ w \notin released /\ call[c].stage = "once"
  <2>1. call[c] \in CallRecord
    BY DEF PoolInv, Typed, SoundCall
  <2> QED BY <1>2, <2>1, NotDone DEF RecordFits, Awaited, Adding, CallRecord
<1>7. \A v \in Workers, x \in Calls : There(v, x)' => There(v, x) /\ v # w /\ ~last
  BY <1>5 DEF There
<1>8. /\ released \subseteq Workers
      /\ \A d \in Calls : /\ call[d].kind \in Referring => call[d].ref \in Calls
                          /\ call[d].seen \subseteq Calls
  BY DEF PoolInv, Typed, TypeOK, SoundCall, CallRecord
<1>9. \A d \in Calls : /\ HandedOut(d) => HandedOut(d)'
                       /\ Begun(d) => Begun(d)'
  BY <1>3, <1>4 DEF HandedOut, Begun
<1>10. ASSUME NEW d \in Calls PROVE CallFits(d)'
  <2>1. CallFits(d) /\ RecordFits(call[d])
    BY DEF UseInv, CallFits
  <2>2. RecordFits(call'[d])
    <3>1. CASE d = c
      BY <1>2, <1>3, <1>4, <1>6, <2>1, <3>1 DEF RecordFits, Adding
    <3>2. CASE d # c
      BY <1>3, <1>4, <2>1, <3>2 DEF RecordFits
    <3> QED BY <3>1, <3>2
  <2> QED BY <1>3, <1>8, <1>9, <2>1, <2>2 DEF CallFits, HandedOut
<1>11. ASSUME NEW v \in Workers, NEW x \in Calls PROVE PlaceFits(v, x)'
  <2>1. PlaceFits(v, x)
    BY DEF UseInv
  <2>2. There(v, x)' => Awaited(v, call'[x])
    <3>1. There(v, x)' => Awaited(v, call[x]) /\ v # w
      BY <1>7, <2>1 DEF PlaceFits
    <3> QED BY <1>3, <1>4, <3>1 DEF Awaited
  <2>3. Stored(v, x)' => Begun(x)'
    BY <1>5, <1>9, <2>1 DEF PlaceFits
  <2>4. ASSUME There(v, x)', call'[x].stage \in {"first", "export"}
        PROVE  call'[x].result = "none"
    <3>1. /\ There(v, x) /\ v # w /\ call[x].stage \in {"first", "export"}
          /\ call[x].result = "none" /\ v = First /\ x # c
      BY <1>3, <1>6, <1>7, <2>1, <2>4 DEF PlaceFits, Awaited
    <3>2. w \notin call[x].todo
      BY <3>1 DEF UseInv, CallFits, RecordFits
    <3> QED BY <1>1, <3>1, <3>2 DEF Releases
  <2> QED BY <1>3, <1>5, <2>1, <2>2, <2>3, <2>4 DEF PlaceFits, Awaited
<1>12. RestFits'
  <2>1. Empty(w)'
    BY <1>5, <1>7 DEF Empty
  <2>2. ASSUME NEW v \in released PROVE Empty(v)'
    <3>1. Empty(v)
      BY DEF UseInv, RestFits
    <3> QED BY <1>5, <1>7, <1>8, <3>1 DEF Empty
  <2>3. ASSUME last, NEW v \in Workers PROVE Empty(v)'
    <3>1. call[c].result = "none" /\ call[c].todo \ {w} = {}
      BY <1>2, <1>4, <1>6, <2>3
    <3>2. v = w \/ v \in released
      BY <1>2, <1>6, <3>1 DEF UseInv, RestFits
    <3> QED BY <2>1, <2>2, <3>2
  <2>4. ASSUME NEW d \in Calls, call'[d].kind = "destroy", call'[d].stage = "once",
               call'[d].result = "none"
        PROVE  call'[d].todo = Workers \ released'
    <3>1. call[d].result = "none" /\ call[d].todo = Workers \ released
      BY <1>3, <1>4, <2>4 DEF UseInv, RestFits
    <3>2. d = c
      BY <1>3, <1>4, <1>6, <2>4, <3>1
    <3> QED BY <1>2, <1>4, <2>4, <3>1, <3>2
  <2> QED BY <1>2, <1>6, <2>1, <2>2, <2>3, <2>4 DEF RestFits
<1>13. ASSUME NEW k \in Calls PROVE KeyFits(k)'
  <2>1. ASSUME Stored(w, k) PROVE k \in cleared
    BY <1>2, <2>1 DEF UseInv, OrderFits, ClearsAll
  <2>2. CASE call[k].kind \in Adding /\ k \notin cleared
    <3>1. k # c /\ ~Stored(w, k)
      BY <1>2, <2>1, <2>2 DEF Adding
    <3>2. call'[k].result \in {"none", "ok"} => call[k].result \in {"none", "ok"}
      BY <1>4, <3>1
    <3>3. call'[k].todo = call[k].todo /\ call'[k].stage = call[k].stage
      BY <1>3, <1>4, <3>1
    <3> QED BY <1>2, <1>3, <1>5, <2>2, <3>1, <3>2, <3>3 DEF UseInv, KeyFits
  <2>3. CASE ~(call[k].kind \in Adding /\ k \notin cleared)
    BY <1>2, <1>3, <2>3 DEF KeyFits
  <2> QED BY <2>2, <2>3
<1>14. ASSUME NEW v \in Workers, NEW d \in Calls PROVE OrderFits(v, d)'
  BY <1>2, <1>3, <1>5 DEF UseInv, OrderFits
<1>15. ASSUME NEW v \in Workers, NEW u \in Calls PROVE UseFits(v, u)'
  <2> SUFFICES ASSUME At(v, u)', call'[u].kind \in Using \cup {"clearKey"}, ~call'[u].late
               PROVE  UseFits(v, u)'
    BY DEF UseFits
  <2>1. PICK k \in Calls : k = call[u].ref /\ k = call'[u].ref
    BY <1>3, <1>8 DEF Referring
  <2>2. /\ At(v, u) /\ v # w
        /\ Stored(v, k) /\ \A d \in Calls : Before(v, d, u) => ~Clears(d, k)
    BY <1>3, <1>5, <2>1 DEF UseInv, UseFits
  <2>3. \A d \in Calls : Clears(d, k)' <=> Clears(d, k)
    BY <1>3 DEF Clears
  <2> QED BY <1>5, <2>1, <2>2, <2>3 DEF UseFits, Stored, Clears
<1>16. ASSUME NEW d \in Calls PROVE Succeeds(d)'
  BY <1>3, <1>4 DEF UseInv, Succeeds
<1>17. ASSUME NEW d \in Calls PROVE GoneFits(d)'
  <2>1. call'[d].result \in {"none", "ok"} => call[d].result \in {"none", "ok"}
    BY <1>4
  <2>2. ASSUME NEW v \in Workers, v \notin call'[d].todo,
               NEW k \in Calls, Stored(v, k)'
        PROVE  v \notin call[d].todo /\ Stored(v, k)
    BY <1>4, <1>5, <2>2
  <2>3. call[d].seen \subseteq Calls /\ GoneFits(d)
    BY <1>8 DEF UseInv
  <2> QED BY <1>3, <2>1, <2>2, <2>3 DEF GoneFits
<1> QED BY <1>10, <1>11, <1>12, <1>13, <1>14, <1>15, <1>16, <1>17 DEF UseInv

-----------------------------------------------------------------------------
(* What callers rely on.                                                   *)

\* The invariant holds when there is no pool yet.
LEMMA UseInvInit == ASSUME Init PROVE UseInv
<1>1. \A c \in Calls : call[c] = Idle
  BY DEF Init
<1>2. /\ Idle.kind = "none" /\ Idle.stage = "idle" /\ Idle.result = "none"
      /\ Idle.seen = {}
  BY DEF Idle
<1>3. \A w \in Workers, c \in Calls :
         /\ ~At(w, c) /\ ~There(w, c) /\ ~Stored(w, c) /\ c \notin running[w]
         /\ ~Before(w, c, c)
  BY EmptyFacts DEF Init, At, Before, There, Stored
<1>4. \A c \in Calls : CallFits(c)
  BY <1>1, <1>2 DEF CallFits, RecordFits, Referring, Using
<1>5. RestFits
  BY <1>1, <1>2, <1>3 DEF Init, RestFits, Empty
<1>6. \A c \in Calls : KeyFits(c) /\ Succeeds(c) /\ GoneFits(c)
  BY <1>1, <1>2 DEF KeyFits, Succeeds, GoneFits, Adding, Using, Clearing
<1> QED BY <1>3, <1>4, <1>5, <1>6 DEF UseInv, PlaceFits, OrderFits, UseFits

\* Every step keeps the invariant of calls and keys.
LEMMA UseInvStep == ASSUME PoolInv, UseInv, [Next]_vars PROVE UseInv'
<1>1. CASE InitPool \/ Load \/ FailLoad \/ UNCHANGED vars
  BY <1>1, PoolKeeps
<1>2. ASSUME NEW c \in Calls,
             NEW kind \in Adding \cup Clearing \cup Using,
             NEW ref \in Calls \cup {None}, Call(c, kind, ref)
      PROVE  UseInv'
  BY <1>2, CallKeeps
<1>3. ASSUME NEW c \in Calls, Post(c) \/ Add(c) \/ Export(c) PROVE UseInv'
  BY <1>3, PostKeeps, AddGoesOn, ExportKeeps
<1>4. ASSUME NEW w \in Workers, NEW c \in Calls,
             \/ Begin(w, c) \/ AddTo(w, c) \/ FailToAdd(w, c) \/ Use(w, c)
             \/ ClearKey(w, c) \/ ClearAll(w, c) \/ Release(w, c)
      PROVE  UseInv'
  BY <1>4, BeginKeeps, AddToKeeps, FailToAddKeeps, UseKeeps, ClearKeyKeeps,
     ClearAllKeeps, ReleaseKeeps
<1> QED BY <1>1, <1>2, <1>3, <1>4, Zenon DEF Next

\* The invariant of calls and keys: where a call's messages and its key are, and
\* which of what clears the key can still come before them.
THEOREM CallsInvariance == Spec => []UseInv
<1>1. PoolInv /\ UseInv /\ [Next]_vars => UseInv'
  BY UseInvStep
<1> QED BY <1>1, UseInvInit, Invariance, PTL DEF Spec

\* A call that uses a key finds it, unless the key was cleared before the call
\* was posted, however the workers' steps overlap.
THEOREM UsesFindTheirKeys == Spec => []UsesSucceed
<1>1. UseInv => UsesSucceed
  BY DEF UseInv, Succeeds, UsesSucceed
<1> QED BY <1>1, CallsInvariance, PTL

\* Once a clearing call has returned, no worker has a key that it met, and none
\* will get it again.
THEOREM ClearedKeysAreGone == Spec => []ClearedIsGone
<1>1. ASSUME PoolInv, UseInv PROVE ClearedIsGone
  <2> SUFFICES ASSUME NEW c \in Calls, call[c].kind \in Clearing,
                      call[c].result = "ok", NEW w \in Workers, NEW e \in store[w]
               PROVE  e.key \notin call[c].seen
    BY DEF ClearedIsGone
  <2>1. call[c].todo = {} /\ GoneFits(c)
    BY <1>1 DEF UseInv, CallFits, RecordFits
  <2>2. Stored(w, e.key)
    BY DEF Stored
  <2> QED BY <2>1, <2>2 DEF GoneFits
<1> QED BY <1>1, Invariance, CallsInvariance, PTL
-----------------------------------------------------------------------------
(* The invariant of the one key store.  Calls come before or after the call *)
(* that closes the pool at every worker, and before or after each clearing. *)

Destroying(d) ==
    call[d].kind = "destroy" /\ call[d].stage = "once" /\ call[d].result = "none"

\* The call that destroys the pool was posted before all others that would.
Leads(d) ==
    /\ Destroying(d) /\ ~call[d].barred /\ ~call[d].late
    /\ \A e \in Calls \ {d} : Destroying(e) => call[e].barred
    /\ \A w \in Workers \ released :
          /\ At(w, d)
          /\ \A e \in Calls \ {d} :
                At(w, e) /\ call[e].kind = "destroy" => Before(w, d, e)

\* There is such a call from the first destroy that is posted to the last that
\* any worker sees.
LeaderFits ==
    /\ Closing => pool = "ready"
    /\ \/ Closing
       \/ released # {}
       \/ \E w \in Workers, d \in Calls : At(w, d) /\ call[d].kind = "destroy"
       => \E d \in Calls : Leads(d)

\* A call refers to a key only if its kind does, and awaits a worker as long as
\* it is under way, but none that is released.
TodoFits(c) ==
    /\ call[c].kind \notin Referring => call[c].ref = None
    /\ call[c].stage \in {"idle", "called"} => call[c].todo = {}
    /\ call[c].stage \notin {"idle", "called"} /\ call[c].result = "none" =>
          call[c].todo # {} /\ call[c].todo \cap released = {}

\* What a call that is too late finds: a released worker or no key.
BarredFits(w, u) ==
    call[u].barred =>
        /\ call[u].kind \in Adding => call[u].stage = "first" /\ u \notin running[w]
        /\ At(w, u) =>
              \/ \E d \in Calls : Before(w, d, u) /\ call[d].kind = "destroy"
              \/ /\ call[u].kind \in Referring
                 /\ Stored(w, call[u].ref) =>
                       \E d \in Calls : Before(w, d, u) /\ Clears(d, call[u].ref)

\* A key that is gone leaves each worker before any call that is yet to come.
LeavesFits(w, k) ==
    k \in gone =>
        /\ There(w, k) => Closing
        /\ Stored(w, k) => \E d \in Calls : At(w, d) /\ Clears(d, k)

\* Keys are cleared that were begun; while the pool closes, all are gone.
ClosingFits(k) ==
    /\ k \in cleared => Begun(k)
    /\ k \in gone => k \in cleared /\ (call[k].result = "none" => Closing)
    /\ Closing /\ Begun(k) /\ ~call[k].barred /\ call[k].result \in {"none", "ok"}
          => k \in gone

StoreInv ==
    /\ LeaderFits
    /\ \A c \in Calls : TodoFits(c)
    /\ \A w \in Workers, u \in Calls : BarredFits(w, u)
    /\ \A w \in Workers, k \in Calls : LeavesFits(w, k)
    /\ \A k \in Calls : ClosingFits(k)
-----------------------------------------------------------------------------
(* The steps keep the invariant of the one key store.                      *)

\* What is at the head of an inbox was posted before all that is left there.
LEMMA HeadFirst ==
    ASSUME TypeOK, UseInv, NEW w \in Workers, NEW c \in Calls, AtHead(w, c)
    PROVE  /\ At(w, c)
           /\ \A x \in Calls : ~Before(w, x, c)
<1>1. inbox[w] \in Seq(Calls) /\ inbox[w] # <<>> /\ c = Head(inbox[w])
  BY DEF TypeOK, AtHead
<1>2. /\ In(inbox[w], c)
      /\ \A x : Precedes(inbox[w], x, c) => Precedes(inbox[w], c, c)
  BY <1>1, PopFacts
<1> QED BY <1>2 DEF UseInv, PlaceFits, At, Before

\* What comes before a message, or after it, is in the inbox with it.
LEMMA BeforeIsAt ==
    ASSUME NEW w, NEW x, NEW y, Before(w, x, y) PROVE At(w, x) /\ At(w, y)
BY PrecedesIn DEF At, Before

\* The pool is closing while it has calls that destroy it.
LEMMA ClosingIs == Closing <=> \E d \in Calls : Destroying(d)
BY DEF Closing, Destroying

\* A worker's step leaves the calls that clear keys in their place, except the
\* one that it takes, which clears what it should.
LEMMA WorkKeepsStore ==
    ASSUME PoolInv, UseInv, StoreInv, NEW w \in Workers, NEW c \in Calls, WorkStep(w, c)
    PROVE  StoreInv'
<1>1. PICK q \in SoundCall : Works(w, c, q) /\ OnlyCall(c, q)
  BY DEF WorkStep
<1>2. /\ There(w, c) /\ call[c].kind # "destroy"
      /\ q.stage \notin {"idle", "called"}
      /\ pool' = pool /\ released' = released /\ cleared' = cleared /\ gone' = gone
      /\ q.kind = call[c].kind /\ q.ref = call[c].ref /\ q.late = call[c].late
      /\ q.barred = call[c].barred
      /\ call'[c] = q /\ \A d \in Calls \ {c} : call'[d] = call[d]
  BY <1>1 DEF Works, OnlyCall, SameCall
<1>3. Flows(w, c, q) /\ Stores(w, c) /\ Lands(w, c, q) /\ Heeds(w, c, q)
  BY <1>1 DEF Works
<1>4. /\ pool = "ready" /\ w \notin released /\ call[c].result # "ok"
      /\ call[c].stage \notin {"idle", "called"}
  BY <1>2, NotDone DEF Awaited
<1>5. ASSUME NEW d \in Calls
      PROVE  /\ call'[d].kind = call[d].kind /\ call'[d].ref = call[d].ref
             /\ call'[d].late = call[d].late /\ call'[d].barred = call[d].barred
             /\ Begun(d)' <=> Begun(d)
             /\ Destroying(d)' <=> Destroying(d)
             /\ \A k : Clears(d, k)' <=> Clears(d, k)
  <2>1. CASE d = c
    BY <1>2, <1>4, <2>1 DEF Begun, Destroying, Clears, ClearsAll
  <2>2. CASE d # c
    BY <1>2, <2>2 DEF Begun, Destroying, Clears, ClearsAll
  <2> QED BY <2>1, <2>2
<1>6. Closing' <=> Closing
  BY <1>5 DEF Closing, Destroying
<1>7. ASSUME NEW v \in Workers, NEW x \in Calls \ {c}
      PROVE  /\ At(v, x)' <=> At(v, x)
             /\ x \in running'[v] => x \in running[v]
             /\ \A y \in Calls : Before(v, x, y) => Before(v, x, y)'
  BY <1>3 DEF Flows
<1>8. LeaderFits'
  <2>1. ASSUME \/ Closing'
               \/ released' # {}
               \/ \E v \in Workers, d \in Calls : At(v, d)' /\ call'[d].kind = "destroy"
        PROVE  \E d \in Calls : Leads(d)'
    <3>1. PICK d \in Calls : Leads(d)
      BY <1>2, <1>5, <1>6, <1>7, <2>1 DEF StoreInv, LeaderFits
    <3>2. /\ Destroying(d) /\ d # c /\ ~call[d].barred /\ ~call[d].late
          /\ \A e \in Calls \ {d} : Destroying(e) => call[e].barred
      BY <1>2, <3>1 DEF Leads, Destroying
    <3>3. ASSUME NEW v \in Workers \ released
          PROVE  /\ At(v, d)'
                 /\ \A e \in Calls \ {d} :
                       At(v, e)' /\ call'[e].kind = "destroy" => Before(v, d, e)'
      <4>1. /\ At(v, d)
            /\ \A e \in Calls \ {d} :
                  At(v, e) /\ call[e].kind = "destroy" => Before(v, d, e)
        BY <3>1 DEF Leads
      <4> QED BY <1>2, <1>5, <1>7, <3>2, <4>1
    <3> QED BY <1>2, <1>5, <3>2, <3>3 DEF Leads
  <2> QED BY <1>2, <1>6, <2>1 DEF StoreInv, LeaderFits
<1>9. ASSUME NEW x \in Calls PROVE TodoFits(x)'
  <2>1. TodoFits(x)
    BY DEF StoreInv
  <2>2. CASE x = c
    <3>1. q.result = "none" => q.todo # {} /\ q.todo \cap released = {}
      BY <1>3, <1>4, <2>1, <2>2 DEF Heeds, TodoFits
    <3> QED BY <1>2, <2>1, <2>2, <3>1 DEF TodoFits
  <2>3. CASE x # c
    BY <1>2, <2>1, <2>3 DEF TodoFits
  <2> QED BY <2>2, <2>3
<1>10. ASSUME NEW v \in Workers, NEW u \in Calls PROVE BarredFits(v, u)'
  <2> SUFFICES ASSUME call[u].barred PROVE BarredFits(v, u)'
    BY <1>5 DEF BarredFits
  <2>1. BarredFits(v, u) /\ BarredFits(w, u)
    BY DEF StoreInv
  <2>2. call[u].kind \in Referring => call[u].ref \in Calls /\ HandedOut(call[u].ref)
    BY RefFacts
  <2>3. CASE u = c /\ call[c].kind \in Adding
    <3>1. c \notin running[w] /\ call[c].stage = "first"
      BY <2>1, <2>3 DEF BarredFits
    <3>2. AtHead(w, c) /\ q.stage = "first"
      BY <1>3, <3>1 DEF Heeds
    <3>3. At(w, c) /\ \A d \in Calls : ~Before(w, d, c)
      BY <3>2, HeadFirst DEF PoolInv, Typed
    <3>4. call[c].kind \in Referring /\ ~Stored(w, call[c].ref)
      BY <2>1, <2>3, <3>3 DEF BarredFits
    <3>5. q.result # "none" /\ running' = running
      BY <1>3, <3>1, <3>2, <3>4 DEF Heeds
    <3>6. ~There(v, c)'
      BY <1>3, <3>2, <3>5 DEF Lands
    <3> QED BY <1>2, <2>3, <3>2, <3>6 DEF BarredFits, There
  <2>4. CASE u = c /\ call[c].kind \notin Adding
    <3>1. c \notin running[w] /\ ~Before(w, c, c)
      BY <2>4 DEF UseInv, PlaceFits
    <3>2. At(v, c)' => At(v, c) /\ v # w
      BY <1>2, <1>3, <2>4, <3>1 DEF Flows, There
    <3>3. v # w => /\ \A d \in Calls : Before(v, d, c) => Before(v, d, c)'
                   /\ \A k \in Calls : Stored(v, k)' => Stored(v, k)
      BY <1>3 DEF Flows, Stores
    <3>4. ASSUME At(v, c)'
          PROVE  \/ \E d \in Calls : Before(v, d, c)' /\ call'[d].kind = "destroy"
                 \/ /\ call[c].kind \in Referring
                    /\ Stored(v, call[c].ref)' =>
                          \E d \in Calls : Before(v, d, c)' /\ Clears(d, call[c].ref)'
      <4>1. \/ \E d \in Calls : Before(v, d, c) /\ call[d].kind = "destroy"
            \/ /\ call[c].kind \in Referring
               /\ Stored(v, call[c].ref) =>
                     \E d \in Calls : Before(v, d, c) /\ Clears(d, call[c].ref)
        BY <2>1, <2>4, <3>2, <3>4 DEF BarredFits
      <4>2. CASE \E d \in Calls : Before(v, d, c) /\ call[d].kind = "destroy"
        BY <1>5, <3>2, <3>3, <3>4, <4>2
      <4>3. CASE call[c].kind \in Referring
        <5>1. PICK k \in Calls : k = call[c].ref /\ k = call'[c].ref
          BY <1>5, <2>2, <2>4, <4>3
        <5>2. Stored(v, k)' => Stored(v, k)
          BY <3>2, <3>3, <3>4
        <5>3. \A d \in Calls : Before(v, d, c) /\ Clears(d, k)
                                  => Before(v, d, c)' /\ Clears(d, k)'
          BY <1>5, <3>2, <3>3, <3>4
        <5> QED BY <1>5, <4>1, <4>2, <4>3, <5>1, <5>2, <5>3 DEF Stored, Clears
      <4> QED BY <4>1, <4>2, <4>3
    <3> QED BY <1>2, <1>5, <2>2, <2>4, <3>4 DEF BarredFits, Stored, Clears
  <2>5. CASE u # c
    <3>1. call'[u] = call[u] /\ (u \in running'[v] => u \in running[v])
      BY <1>2, <1>7, <2>5
    <3>2. ASSUME At(v, u)', NEW d \in Calls, Before(v, d, u), call[d].kind = "destroy"
          PROVE  Before(v, d, u)' /\ call'[d].kind = "destroy"
      BY <1>2, <1>5, <1>7, <3>2
    <3>3. ASSUME At(v, u)', NEW k \in Calls, HandedOut(k), Stored(v, k)',
                 Stored(v, k) => \E d \in Calls : Before(v, d, u) /\ Clears(d, k)
          PROVE  \E d \in Calls : Before(v, d, u)' /\ Clears(d, k)'
      <4>1. k # c
        BY <1>4, <3>3 DEF HandedOut
      <4>2. Stored(v, k)
        BY <1>3, <3>3, <4>1 DEF Stores
      <4>3. PICK d \in Calls : Before(v, d, u) /\ Clears(d, k)
        BY <3>3, <4>2
      <4>4. d # c \/ v # w
        BY <1>3, <3>3, <4>3, BeforeIsAt DEF Stores
      <4>5. Before(v, d, u)'
        BY <1>3, <4>3, <4>4 DEF Flows
      <4> QED BY <1>5, <4>3, <4>5
    <3>4. At(v, u)' => At(v, u)
      BY <1>7, <2>5
    <3> QED BY <2>1, <2>2, <3>1, <3>2, <3>3, <3>4 DEF BarredFits, Stored, Clears
  <2> QED BY <2>3, <2>4, <2>5
<1>11. ASSUME NEW v \in Workers, NEW k \in Calls PROVE LeavesFits(v, k)'
  <2> SUFFICES ASSUME k \in gone PROVE LeavesFits(v, k)'
    BY <1>2 DEF LeavesFits
  <2>1. LeavesFits(v, k) /\ LeavesFits(w, k)
    BY DEF StoreInv
  <2>2. There(v, k)' => There(v, k) \/ (k = c /\ There(w, k))
    BY <1>2, <1>7 DEF There
  <2>3. ASSUME Stored(v, k)' PROVE \E d \in Calls : At(v, d)' /\ Clears(d, k)'
    <3>1. CASE Stored(v, k)
      <4>1. PICK d \in Calls : At(v, d) /\ Clears(d, k)
        BY <2>1, <3>1 DEF LeavesFits
      <4>2. d # c \/ v # w
        BY <1>3, <2>3, <4>1 DEF Stores
      <4>3. At(v, d)'
        BY <1>3, <4>1, <4>2 DEF Flows
      <4> QED BY <1>5, <4>1, <4>3
    <3>2. CASE k = c /\ v = w
      <4>1. Closing
        BY <1>2, <2>1, <3>2 DEF LeavesFits
      <4>2. PICK d \in Calls : Leads(d)
        BY <4>1 DEF StoreInv, LeaderFits
      <4>3. At(w, d) /\ d # c /\ call[d].kind = "destroy"
        BY <1>2, <1>4, <4>2 DEF Leads, Destroying
      <4> QED BY <1>5, <1>7, <3>2, <4>3 DEF Clears, ClearsAll
    <3> QED BY <1>3, <2>3, <3>1, <3>2 DEF Stores
  <2> QED BY <1>2, <1>6, <2>1, <2>2, <2>3 DEF LeavesFits
<1>12. ASSUME NEW k \in Calls PROVE ClosingFits(k)'
  <2>1. ClosingFits(k)
    BY DEF StoreInv
  <2>2. /\ call'[k].result = "none" => call[k].result = "none"
        /\ call'[k].result \in {"none", "ok"} => call[k].result \in {"none", "ok"}
    BY <1>2, <1>3 DEF Heeds
  <2> QED BY <1>2, <1>5, <1>6, <2>1, <2>2 DEF ClosingFits
<1> QED BY <1>8, <1>9, <1>10, <1>11, <1>12 DEF StoreInv

\* A message goes behind all the calls that clear the keys that are gone, and
\* behind the one that closes the pool, unless it is itself that one.
LEMMA PostKeepsStore ==
    ASSUME PoolInv, UseInv, StoreInv, NEW c \in Calls, Post(c)
    PROVE  StoreInv'
<1>1. PICK q \in SoundCall : \E ws : Posts(c, q, ws) /\ Sends(c, q, ws)
  BY PostFacts
<1>2. PICK ws : Posts(c, q, ws) /\ Sends(c, q, ws)
  BY <1>1
<1>3. /\ call'[c] = q /\ \A d \in Calls \ {c} : call'[d] = call[d]
      /\ q.kind = call[c].kind /\ q.ref = call[c].ref
      /\ call[c].stage = "called"
      /\ pool' = pool /\ running' = running /\ store' = store /\ released' = released
      /\ released \subseteq Workers /\ gone \subseteq Calls /\ cleared \subseteq Calls
  BY <1>2 DEF Posts, OnlyCall, PoolInv, Typed, TypeOK
<1>4. /\ q.stage = IF q.kind \in Adding THEN "first" ELSE "once"
      /\ \/ /\ q.result = "fail" /\ q.todo = {} /\ q.barred
            /\ pool = "ready" => ws \cap released # {}
         \/ /\ q.result = "none" /\ q.todo = ws /\ ws \cap released = {}
            /\ pool = "ready"
            /\ q.late <=> q.ref \in cleared
            /\ q.barred <=> Closing \/ q.ref \in gone
      /\ ws \in SUBSET Workers /\ ws # {}
      /\ q.kind \in Clearing => ws = Workers
  BY <1>2 DEF Posts, Sends
<1>5. /\ ~HandedOut(c) /\ ~Begun(c)
      /\ \A v \in Workers : ~There(v, c) /\ ~At(v, c) /\ ~Stored(v, c)
  BY <1>3, IdleFacts DEF There
<1>6. ASSUME NEW v \in Workers, NEW x \in Calls
      PROVE  /\ At(v, x)' => At(v, x) \/ (x = c /\ v \in ws \ released /\ pool = "ready")
             /\ At(v, x) => At(v, x)' /\ x # c
             /\ Stored(v, x)' <=> Stored(v, x)
             /\ \A y \in Calls : Before(v, x, y) => Before(v, x, y)'
             /\ pool = "ready" /\ v \in ws \ released =>
                   At(v, c)' /\ (At(v, x) => Before(v, x, c)')
  BY <1>2, <1>3, <1>5 DEF Sends, Stored
<1>7. ASSUME NEW d \in Calls
      PROVE  /\ call'[d].kind = call[d].kind /\ call'[d].ref = call[d].ref
             /\ \A k : Clears(d, k)' <=> Clears(d, k)
             /\ d # c => /\ call'[d].late = call[d].late
                         /\ call'[d].barred = call[d].barred
                         /\ Destroying(d)' <=> Destroying(d)
             /\ Begun(d)' <=> Begun(d) \/ (d = c /\ q.kind \in Adding)
             /\ Destroying(d) => d # c
  BY <1>3, <1>4, <1>5 DEF Begun, Destroying, Clears, ClearsAll
<1>8. /\ Destroying(c)' <=> q.kind = "destroy" /\ q.result = "none"
      /\ Closing' <=> Closing \/ Destroying(c)'
  <2>1. Destroying(c)' <=> q.kind = "destroy" /\ q.result = "none"
    BY <1>3, <1>4 DEF Destroying, Adding
  <2> QED BY <1>7, <2>1, ClosingIs DEF Closing, Destroying
<1>9. \A k \in Calls : HandedOut(k) => Begun(k) /\ call[k].result = "ok"
  BY DEF UseInv, CallFits, RecordFits, HandedOut, Begun
<1>10. \A d \in Calls : call[d].kind \in Referring =>
          call[d].ref \in Calls /\ HandedOut(call[d].ref)
  BY RefFacts
<1>11. TodoFits(c) /\ None \notin Calls
  BY NoneAssumption DEF StoreInv
<1>12. ASSUME NEW d \in Calls, Leads(d) PROVE Leads(d)'
  <2>1. /\ Destroying(d) /\ d # c /\ ~call[d].barred /\ ~call[d].late /\ Closing
        /\ \A e \in Calls \ {d} : Destroying(e) => call[e].barred
    BY <1>7, <1>12, ClosingIs DEF Leads
  <2>2. ASSUME NEW e \in Calls \ {d}, Destroying(e)' PROVE call'[e].barred
    <3>1. CASE e = c
      BY <1>3, <1>4, <1>8, <2>1, <2>2, <3>1
    <3>2. CASE e # c
      BY <1>7, <2>1, <2>2, <3>2
    <3> QED BY <3>1, <3>2
  <2>3. ASSUME NEW v \in Workers \ released
        PROVE  /\ At(v, d)'
               /\ \A e \in Calls \ {d} :
                     At(v, e)' /\ call'[e].kind = "destroy" => Before(v, d, e)'
    <3>1. /\ At(v, d)
          /\ \A e \in Calls \ {d} :
                At(v, e) /\ call[e].kind = "destroy" => Before(v, d, e)
      BY <1>12 DEF Leads
    <3> QED BY <1>6, <1>7, <3>1
  <2> QED BY <1>3, <1>7, <2>1, <2>2, <2>3 DEF Leads
<1>13. LeaderFits'
  <2>1. Closing' => pool' = "ready"
    BY <1>3, <1>4, <1>8 DEF StoreInv, LeaderFits
  <2>2. CASE ~\E d \in Calls : Leads(d)
    <3>1. /\ ~Closing /\ released = {}
          /\ \A v \in Workers, d \in Calls : At(v, d) => call[d].kind # "destroy"
      BY <2>2 DEF StoreInv, LeaderFits
    <3>2. ASSUME \/ Closing'
                 \/ \E v \in Workers, d \in Calls :
                       At(v, d)' /\ call'[d].kind = "destroy"
          PROVE  Leads(c)'
      <4>1. q.kind = "destroy" /\ q.result = "none"
        BY <1>3, <1>4, <1>6, <1>7, <1>8, <3>1, <3>2
      <4>2. q.ref = None /\ ws = Workers /\ pool = "ready"
        BY <1>3, <1>4, <1>11, <4>1 DEF TodoFits, Referring, Using, Clearing
      <4>3. ~q.barred /\ ~q.late
        BY <1>3, <1>4, <1>11, <3>1, <4>1, <4>2
      <4>4. \A e \in Calls \ {c} : ~Destroying(e)'
        BY <1>7, <3>1, ClosingIs
      <4>5. ASSUME NEW v \in Workers
            PROVE  /\ At(v, c)'
                   /\ \A e \in Calls \ {c} : At(v, e)' => call'[e].kind # "destroy"
        BY <1>6, <1>7, <3>1, <4>2
      <4> QED BY <1>3, <1>8, <4>1, <4>3, <4>4, <4>5 DEF Leads
    <3> QED BY <1>3, <2>1, <3>1, <3>2 DEF LeaderFits
  <2> QED BY <1>12, <2>1, <2>2 DEF LeaderFits
<1>14. ASSUME NEW x \in Calls PROVE TodoFits(x)'
  <2>1. CASE x = c
    BY <1>3, <1>4, <1>11, <2>1 DEF TodoFits
  <2>2. CASE x # c
    BY <1>3, <2>2 DEF StoreInv, TodoFits
  <2> QED BY <2>1, <2>2
<1>15. ASSUME released # {} \/ Closing PROVE \E d \in Calls : Leads(d)
  BY <1>15 DEF StoreInv, LeaderFits
<1>16. ASSUME NEW v \in Workers, NEW u \in Calls PROVE BarredFits(v, u)'
  <2>1. CASE u = c
    <3> SUFFICES ASSUME q.barred PROVE BarredFits(v, c)'
      BY <1>3, <2>1 DEF BarredFits
    <3>1. c \notin running'[v] /\ (q.kind \in Adding => q.stage = "first")
      BY <1>3, <1>4, <1>5 DEF There
    <3>2. ASSUME At(v, c)'
          PROVE  \/ \E d \in Calls : Before(v, d, c)' /\ call'[d].kind = "destroy"
                 \/ /\ q.kind \in Referring
                    /\ \E k \in Calls : /\ k = q.ref
                                        /\ Stored(v, k)' => \E d \in Calls :
                                              Before(v, d, c)' /\ Clears(d, k)'
      <4>1. v \in ws \ released /\ pool = "ready"
        BY <1>5, <1>6, <3>2
      <4>2. CASE released # {} \/ Closing
        <5>1. PICK d \in Calls : Leads(d)
          BY <1>15, <4>2
        <5>2. At(v, d) /\ call[d].kind = "destroy"
          BY <4>1, <5>1 DEF Leads, Destroying
        <5> QED BY <1>6, <1>7, <4>1, <5>2
      <4>3. CASE q.ref \in gone
        <5>1. PICK k \in Calls : k = q.ref /\ k \in gone
          BY <1>3, <4>3
        <5>2. q.kind \in Referring
          BY <1>3, <1>11, <5>1 DEF TodoFits
        <5>3. ASSUME Stored(v, k)' PROVE \E d \in Calls : Before(v, d, c)' /\ Clears(d, k)'
          <6>1. Stored(v, k)
            BY <1>6, <5>3
          <6>2. PICK d \in Calls : At(v, d) /\ Clears(d, k)
            BY <5>1, <6>1 DEF StoreInv, LeavesFits
          <6> QED BY <1>6, <1>7, <4>1, <6>2
        <5> QED BY <5>1, <5>2, <5>3
      <4> QED BY <1>4, <4>1, <4>2, <4>3
    <3> QED BY <1>3, <2>1, <3>1, <3>2 DEF BarredFits, Stored, Clears
  <2>2. CASE u # c
    <3>1. call'[u] = call[u] /\ running' = running /\ BarredFits(v, u)
      BY <1>3, <2>2 DEF StoreInv
    <3>2. At(v, u)' => At(v, u)
      BY <1>6, <2>2
    <3>3. \A k \in Calls : Stored(v, k)' => Stored(v, k)
      BY <1>6
    <3>4. \A d \in Calls, k \in Calls : Before(v, d, u) /\ Clears(d, k)
                                           => Before(v, d, u)' /\ Clears(d, k)'
      BY <1>6, <1>7
    <3>5. \A d \in Calls : Before(v, d, u) /\ call[d].kind = "destroy"
                              => Before(v, d, u)' /\ call'[d].kind = "destroy"
      BY <1>6, <1>7
    <3> QED BY <1>10, <3>1, <3>2, <3>3, <3>4, <3>5 DEF BarredFits, Stored, Clears
  <2> QED BY <2>1, <2>2
<1>17. ASSUME pool = "ready", q.kind = "destroy" PROVE Closing'
  <2>1. CASE q.result = "none"
    BY <1>8, <1>17, <2>1
  <2>2. CASE q.result # "none"
    <3>1. PICK d \in Calls : Leads(d)
      BY <1>4, <1>15, <1>17, <2>2
    <3> QED BY <1>8, <3>1, ClosingIs DEF Leads
  <2> QED BY <2>1, <2>2
<1>18. ASSUME NEW k \in Calls
       PROVE  /\ k \in cleared' => k \in cleared \/ Begun(k)
              /\ k \in gone' => \/ k \in gone
                                \/ pool = "ready" /\ HandedOut(k) /\ q.kind \in Clearing
                                \/ pool = "ready" /\ Begun(k) /\ q.kind = "destroy"
              /\ k \in gone' /\ k \notin gone =>
                    k \in cleared' /\ Clears(c, k)' /\ ws = Workers
              /\ k \in gone => k \in gone'
              /\ k \in cleared => k \in cleared'
              /\ pool = "ready" /\ q.kind = "destroy" /\ Begun(k) => k \in gone'
  <2>1. /\ k \in cleared' <=>
              \/ k \in cleared
              \/ pool = "ready" /\ q.kind = "clearKey" /\ k = q.ref
              \/ pool = "ready" /\ q.kind \in {"clearKeyStore", "destroy"} /\ Begun(k)
        /\ k \in gone' <=>
              \/ k \in gone
              \/ pool = "ready" /\ q.kind = "clearKey" /\ k = q.ref
              \/ pool = "ready" /\ q.kind = "clearKeyStore" /\ HandedOut(k)
              \/ pool = "ready" /\ q.kind = "destroy" /\ Begun(k)
    BY <1>2 DEF Sends
  <2>2. q.kind = "clearKey" /\ k = q.ref => HandedOut(k)
    BY <1>3, <1>10 DEF Referring
  <2> QED BY <1>3, <1>4, <1>9, <2>1, <2>2 DEF Clearing, Clears, ClearsAll
<1>19. ASSUME NEW v \in Workers, NEW k \in Calls PROVE LeavesFits(v, k)'
  <2> SUFFICES ASSUME k \in gone' PROVE LeavesFits(v, k)'
    BY DEF LeavesFits
  <2>1. k # c
    BY <1>5, <1>9, <1>18 DEF StoreInv, ClosingFits
  <2>2. There(v, k)' => There(v, k)
    BY <1>3, <1>6, <2>1 DEF There
  <2>3. CASE k \in gone
    <3>1. ASSUME Stored(v, k)' PROVE \E d \in Calls : At(v, d)' /\ Clears(d, k)'
      <4>1. PICK d \in Calls : At(v, d) /\ Clears(d, k)
        BY <1>6, <2>3, <3>1 DEF StoreInv, LeavesFits
      <4> QED BY <1>6, <1>7, <4>1
    <3>2. There(v, k) => Closing
      BY <2>3 DEF StoreInv, LeavesFits
    <3> QED BY <1>8, <2>2, <3>1, <3>2 DEF LeavesFits
  <2>4. CASE k \notin gone
    <3>1. pool = "ready" /\ Clears(c, k)' /\ v \in ws
      BY <1>18, <2>4
    <3>2. There(v, k)' => Closing'
      <4>1. HandedOut(k) => ~There(v, k)
        BY <1>9, NotDone
      <4> QED BY <1>17, <1>18, <2>2, <2>4, <4>1
    <3>3. Stored(v, k)' => At(v, c)'
      <4>1. v \in released => ~Stored(v, k)
        BY DEF UseInv, RestFits, Empty
      <4> QED BY <1>6, <3>1, <4>1
    <3> QED BY <3>1, <3>2, <3>3 DEF LeavesFits
  <2> QED BY <2>3, <2>4
<1>20. ASSUME NEW k \in Calls PROVE ClosingFits(k)'
  <2>1. ClosingFits(k)
    BY DEF StoreInv
  <2>2. k \in cleared' => Begun(k)'
    BY <1>7, <1>18, <2>1 DEF ClosingFits
  <2>3. ASSUME k \in gone' PROVE k \in cleared' /\ (call'[k].result = "none" => Closing')
    <3>1. k # c
      BY <1>5, <1>9, <1>18, <2>1, <2>3 DEF ClosingFits
    <3>2. call'[k] = call[k]
      BY <1>3, <3>1
    <3> QED BY <1>8, <1>9, <1>17, <1>18, <2>1, <2>3, <3>2 DEF ClosingFits
  <2>4. ASSUME Closing', Begun(k)', ~call'[k].barred, call'[k].result \in {"none", "ok"}
        PROVE  k \in gone'
    <3>1. CASE Closing
      <4>1. k # c
        BY <1>3, <1>4, <2>4, <3>1
      <4> QED BY <1>3, <1>7, <1>18, <2>1, <2>4, <3>1, <4>1 DEF ClosingFits
    <3>2. CASE ~Closing
      <4>1. q.kind = "destroy" /\ q.result = "none"
        BY <1>8, <2>4, <3>2
      <4> QED BY <1>4, <1>7, <1>18, <2>4, <4>1 DEF Adding
    <3> QED BY <3>1, <3>2
  <2> QED BY <2>2, <2>3, <2>4 DEF ClosingFits
<1> QED BY <1>13, <1>14, <1>16, <1>19, <1>20 DEF StoreInv

\* The workers are released by the call that was posted first of those that do
\* so.  With the last of them, all calls that were under way are lost.
LEMMA ReleaseKeepsStore ==
    ASSUME PoolInv, UseInv, UseInv', StoreInv, NEW w \in Workers, NEW c \in Calls,
           Release(w, c)
    PROVE  /\ StoreInv'
           /\ Leads(c) /\ call[c].todo = Workers \ released
           /\ call'[c].result = "ok" => ~Closing'
           /\ \A d \in Calls : call[d].stage \notin {"idle", "called"}
                 /\ call'[d].result = "none" => call'[c].result = "none"
<1>1. PICK last \in BOOLEAN : Releases(w, c, last)
  BY ReleaseFacts
<1>2. /\ AtHead(w, c) /\ At(w, c) /\ There(w, c) /\ call[c].kind = "destroy"
      /\ pool' = (IF last THEN "null" ELSE pool)
      /\ released' = (IF last THEN {} ELSE released \cup {w})
      /\ cleared' = cleared /\ gone' = gone /\ (last <=> call'[c].result = "ok")
  BY <1>1 DEF Releases, There
<1>3. \A d \in Calls :
          /\ call'[d].kind = call[d].kind /\ call'[d].ref = call[d].ref
          /\ call'[d].stage = call[d].stage /\ call'[d].barred = call[d].barred
          /\ call[d].stage # "called" => call'[d].late = call[d].late
          /\ call'[d].todo = IF d = c THEN call[d].todo \ {w} ELSE call[d].todo
          /\ call'[d].result = "none" => call[d].result = "none"
          /\ call'[d].result = "none" /\ d # c => call[d].stage \in {"idle", "called"}
                                                    \/ w \notin call[d].todo
          /\ call'[d].result = "ok" => call[d].result = "ok" \/ d = c
  BY <1>1 DEF Releases
<1>4. \A v \in Workers, x \in Calls :
          /\ At(v, x)' => At(v, x) /\ v # w /\ ~last
          /\ x \in running'[v] => x \in running[v] /\ v # w /\ ~last
          /\ Stored(v, x)' <=> Stored(v, x) /\ v # w
          /\ v # w /\ ~last => /\ At(v, x) => At(v, x)'
                               /\ \A y \in Calls : Before(v, x, y) => Before(v, x, y)'
  BY <1>1 DEF Releases
<1>5. /\ pool = "ready" /\ w \notin released /\ TypeOK
      /\ \A x \in Calls : ~Before(w, x, c)
  BY <1>2, HeadFirst, NotDone DEF PoolInv, Typed
<1>6. Leads(c)
  <2>1. PICK d \in Calls : Leads(d)
    BY <1>2 DEF StoreInv, LeaderFits
  <2>2. At(w, d) /\ (d # c => Before(w, d, c))
    BY <1>2, <1>5, <2>1 DEF Leads
  <2> QED BY <1>5, <2>1, <2>2
<1>7. /\ Destroying(c) /\ call[c].result = "none" /\ call[c].stage = "once"
      /\ call[c].todo = Workers \ released /\ Closing
  BY <1>6, ClosingIs DEF Leads, Destroying, UseInv, RestFits
<1>8. ASSUME NEW d \in Calls
      PROVE  /\ Begun(d)' <=> Begun(d)
             /\ Destroying(d)' => Destroying(d)
             /\ \A k : Clears(d, k)' <=> Clears(d, k)
  BY <1>3 DEF Begun, Destroying, Clears, ClearsAll
<1>9. ASSUME last PROVE Workers \ released = {w}
  <2>1. call[c].todo \ {w} = {}
    BY <1>1, <1>2, <1>7, <1>9 DEF Releases
  <2> QED BY <1>5, <1>7, <2>1
<1>10. call[c].todo \subseteq Workers /\ \A d \in Calls : call[d].todo \subseteq Workers
  BY DEF PoolInv, Typed, SoundCall, CallRecord
<1>11. ASSUME last, NEW d \in Calls, call[d].stage \notin {"idle", "called"}
       PROVE  call'[d].result # "none"
  <2>1. CASE d = c
    BY <1>2, <1>11, <2>1
  <2>2. CASE d # c
    <3>1. call[d].result = "none" =>
             call[d].todo # {} /\ call[d].todo \cap released = {}
      BY <1>11 DEF StoreInv, TodoFits
    <3>2. call[d].result = "none" => w \in call[d].todo
      BY <1>9, <1>10, <1>11, <3>1
    <3> QED BY <1>3, <1>11, <2>2, <3>2
  <2> QED BY <2>1, <2>2
<1>12. last => ~Closing'
  BY <1>3, <1>11 DEF Closing
<1>13. ~last => call'[c].result = "none" /\ Destroying(c)' /\ Closing'
  <2>1. ~last => call'[c].result = "none"
    BY <1>1, <1>2, <1>7 DEF Releases
  <2>2. ~last => Destroying(c)'
    BY <1>2, <1>3, <1>7, <2>1 DEF Destroying
  <2> QED BY <2>1, <2>2 DEF Closing, Destroying
<1>14. LeaderFits'
  <2>1. CASE last
    BY <1>2, <1>4, <1>12, <2>1 DEF LeaderFits
  <2>2. CASE ~last
    <3>1. /\ ~call'[c].barred /\ ~call'[c].late
          /\ \A e \in Calls \ {c} : Destroying(e)' => call'[e].barred
      BY <1>3, <1>6, <1>7, <1>8 DEF Leads
    <3>2. ASSUME NEW v \in Workers \ released'
          PROVE  /\ At(v, c)'
                 /\ \A e \in Calls \ {c} :
                       At(v, e)' /\ call'[e].kind = "destroy" => Before(v, c, e)'
      <4>1. v # w /\ v \in Workers \ released
        BY <1>2, <2>2
      <4>2. /\ At(v, c)
            /\ \A e \in Calls \ {c} :
                  At(v, e) /\ call[e].kind = "destroy" => Before(v, c, e)
        BY <1>6, <4>1 DEF Leads
      <4> QED BY <1>3, <1>4, <2>2, <4>1, <4>2
    <3>3. Leads(c)'
      BY <1>13, <2>2, <3>1, <3>2 DEF Leads
    <3>4. pool' = "ready"
      BY <1>2, <1>5, <2>2
    <3> QED BY <3>3, <3>4 DEF LeaderFits
  <2> QED BY <2>1, <2>2
<1>15. ASSUME NEW x \in Calls PROVE TodoFits(x)'
  <2>1. TodoFits(x)
    BY DEF StoreInv
  <2>2. call'[x].stage \in {"idle", "called"} => call'[x].todo = {}
    BY <1>3, <2>1 DEF TodoFits
  <2>3. ASSUME call'[x].stage \notin {"idle", "called"}, call'[x].result = "none"
        PROVE  call'[x].todo # {} /\ call'[x].todo \cap released' = {}
    <3>1. ~last /\ released' = released \cup {w}
      BY <1>2, <1>3, <1>11, <2>3
    <3>2. call[x].todo # {} /\ call[x].todo \cap released = {}
      BY <1>3, <2>1, <2>3 DEF TodoFits
    <3>3. CASE x # c
      BY <1>3, <2>3, <3>1, <3>2, <3>3
    <3>4. CASE x = c
      <4>1. call[c].todo \ {w} # {}
        BY <1>1, <1>2, <1>7, <3>1 DEF Releases
      <4> QED BY <1>3, <3>1, <3>2, <3>4, <4>1
    <3> QED BY <3>3, <3>4
  <2> QED BY <1>3, <2>1, <2>2, <2>3 DEF TodoFits
<1>16. ASSUME NEW v \in Workers, NEW u \in Calls PROVE BarredFits(v, u)'
  <2>1. BarredFits(v, u) /\ (call[u].kind \in Referring => call[u].ref \in Calls)
    BY RefFacts DEF StoreInv
  <2>2. ASSUME At(v, u)'
        PROVE  /\ At(v, u)
               /\ \A d \in Calls : Before(v, d, u) => Before(v, d, u)'
               /\ \A k \in Calls : Stored(v, k)' => Stored(v, k)
    BY <1>4, <2>2
  <2>3. call'[u].barred => /\ call'[u].kind \in Adding =>
                                 call'[u].stage = "first" /\ u \notin running'[v]
    BY <1>3, <1>4, <2>1 DEF BarredFits
  <2>4. \A d \in Calls : /\ call'[d].kind = call[d].kind
                         /\ \A k \in Calls : Clears(d, k) => Clears(d, k)'
    BY <1>3, <1>8
  <2>5. ASSUME call[u].barred, At(v, u)'
        PROVE  \/ \E d \in Calls : Before(v, d, u)' /\ call'[d].kind = "destroy"
               \/ /\ call[u].kind \in Referring
                  /\ Stored(v, call[u].ref)' =>
                        \E d \in Calls : Before(v, d, u)' /\ Clears(d, call[u].ref)'
    <3>1. \/ \E d \in Calls : Before(v, d, u) /\ call[d].kind = "destroy"
          \/ /\ call[u].kind \in Referring
             /\ Stored(v, call[u].ref) =>
                   \E d \in Calls : Before(v, d, u) /\ Clears(d, call[u].ref)
      BY <2>1, <2>2, <2>5 DEF BarredFits
    <3>2. CASE \E d \in Calls : Before(v, d, u) /\ call[d].kind = "destroy"
      BY <2>2, <2>4, <2>5, <3>2
    <3>3. CASE call[u].kind \in Referring
      <4>1. PICK k \in Calls : k = call[u].ref /\ k = call'[u].ref
        BY <1>3, <2>1, <3>3
      <4> QED BY <1>3, <2>2, <2>4, <2>5, <3>1, <3>2, <3>3, <4>1 DEF Stored, Clears
    <3> QED BY <3>1, <3>2, <3>3
  <2> QED BY <1>3, <2>1, <2>3, <2>5 DEF BarredFits, Stored, Clears
<1>17. ASSUME NEW v \in Workers, NEW k \in Calls PROVE LeavesFits(v, k)'
  <2>1. CASE last
    <3>1. pool' # "ready"
      BY <1>2, <2>1
    <3>2. ~There(v, k)' /\ ~Stored(v, k)'
      BY <3>1 DEF UseInv, RestFits, Empty
    <3> QED BY <3>2 DEF LeavesFits
  <2>2. CASE ~last
    <3>1. ASSUME k \in gone, Stored(v, k)' PROVE \E d \in Calls : At(v, d)' /\ Clears(d, k)'
      <4>1. Stored(v, k) /\ v # w
        BY <1>4, <3>1
      <4>2. PICK d \in Calls : At(v, d) /\ Clears(d, k)
        BY <3>1, <4>1 DEF StoreInv, LeavesFits
      <4> QED BY <1>4, <1>8, <2>2, <4>1, <4>2
    <3> QED BY <1>2, <1>13, <2>2, <3>1 DEF LeavesFits
  <2> QED BY <2>1, <2>2
<1>18. ASSUME NEW k \in Calls PROVE ClosingFits(k)'
  <2>1. ClosingFits(k)
    BY DEF StoreInv
  <2>2. k \in gone /\ call'[k].result = "none" => Closing'
    <3>1. k \in gone => call[k].stage \notin {"idle", "called"}
      BY <2>1 DEF ClosingFits, Begun
    <3> QED BY <1>11, <1>13, <3>1
  <2>3. Begun(k) => k # c
    BY <1>2 DEF Begun, Adding
  <2>4. Begun(k) /\ call'[k].result \in {"none", "ok"} => call[k].result \in {"none", "ok"}
    BY <1>3, <2>3
  <2> QED BY <1>2, <1>3, <1>7, <1>8, <2>1, <2>2, <2>4 DEF ClosingFits
<1>19. StoreInv'
  BY <1>14, <1>15, <1>16, <1>17, <1>18 DEF StoreInv
<1> QED BY <1>2, <1>6, <1>7, <1>11, <1>12, <1>13, <1>19

\* Steps that change no message, no key and no call that was posted.
LEMMA QuietKeepsStore ==
    ASSUME PoolInv, UseInv, StoreInv, NEW c \in Calls, NEW q, OnlyCall(c, q),
           \/ q = call[c]
           \/ /\ call[c].stage = "idle" /\ q.stage = "called"
              /\ q.todo = {} /\ ~q.barred
              /\ q.kind \notin Referring => q.ref = None,
           \A v \in Workers, x \in Calls :
              /\ At(v, x)' <=> At(v, x)
              /\ x \in running'[v] <=> x \in running[v]
              /\ Stored(v, x)' <=> Stored(v, x)
              /\ \A y \in Calls : Before(v, x, y)' <=> Before(v, x, y),
           UNCHANGED <<released, cleared, gone>>,
           pool = "ready" => pool' = "ready"
    PROVE  StoreInv'
<1> DEFINE Fresh == /\ call[c].stage = "idle" /\ q.stage = "called"
                    /\ q.todo = {} /\ ~q.barred
                    /\ q.kind \notin Referring => q.ref = None
<1>1. /\ call'[c] = q
      /\ \A d \in Calls : call'[d] = call[d] \/ (d = c /\ Fresh)
  BY DEF OnlyCall
<1>2. Fresh => ~Begun(c) /\ \A v \in Workers : ~There(v, c) /\ ~At(v, c)
  BY IdleFacts DEF There
<1>3. ASSUME NEW v \in Workers, NEW x \in Calls
      PROVE  /\ There(v, x)' <=> There(v, x)
             /\ At(v, x) => call'[x] = call[x]
             /\ \A y \in Calls : Before(v, x, y) => call'[x] = call[x] /\ call'[y] = call[y]
  BY <1>1, <1>2, BeforeIsAt DEF There
<1>4. ASSUME NEW d \in Calls
      PROVE  /\ Destroying(d)' <=> Destroying(d)
             /\ Begun(d)' <=> Begun(d)
             /\ Destroying(d) \/ Begun(d) => call'[d] = call[d]
  <2>1. CASE call'[d] = call[d]
    BY <2>1 DEF Destroying, Begun
  <2>2. CASE d = c /\ Fresh
    BY <1>1, <2>2 DEF Destroying, Begun
  <2> QED BY <1>1, <2>1, <2>2
<1>5. Closing' <=> Closing
  BY <1>4 DEF Closing, Destroying
<1>6. ASSUME NEW d \in Calls, Leads(d) PROVE Leads(d)'
  <2>1. call'[d] = call[d] /\ \A e \in Calls : Destroying(e)' => call'[e] = call[e]
    BY <1>4, <1>6 DEF Leads
  <2> QED BY <1>3, <1>4, <1>6, <2>1 DEF Leads
<1>7. LeaderFits'
  BY <1>3, <1>5, <1>6 DEF StoreInv, LeaderFits
<1>8. ASSUME NEW x \in Calls PROVE TodoFits(x)'
  <2>1. CASE call'[x] = call[x]
    BY <2>1 DEF StoreInv, TodoFits
  <2>2. CASE x = c /\ Fresh
    BY <1>1, <2>2 DEF TodoFits
  <2> QED BY <1>1, <2>1, <2>2
<1>9. ASSUME NEW v \in Workers, NEW u \in Calls PROVE BarredFits(v, u)'
  <2> SUFFICES ASSUME call'[u].barred PROVE BarredFits(v, u)'
    BY DEF BarredFits
  <2>1. call'[u] = call[u] /\ BarredFits(v, u)
    BY <1>1 DEF StoreInv
  <2>2. \A d \in Calls : Before(v, d, u) =>
           Before(v, d, u)' /\ call'[d] = call[d] /\ \A k : Clears(d, k) => Clears(d, k)'
    BY <1>3 DEF Clears, ClearsAll
  <2>3. call[u].kind \in Referring => call[u].ref \in Calls
    BY RefFacts
  <2> QED BY <2>1, <2>2, <2>3 DEF BarredFits, Stored, Clears
<1>10. ASSUME NEW v \in Workers, NEW k \in Calls PROVE LeavesFits(v, k)'
  <2>1. \A d \in Calls : At(v, d) /\ Clears(d, k) => At(v, d)' /\ Clears(d, k)'
    BY <1>3 DEF Clears, ClearsAll
  <2> QED BY <1>3, <1>5, <2>1 DEF StoreInv, LeavesFits
<1>11. ASSUME NEW k \in Calls PROVE ClosingFits(k)'
  <2>1. ClosingFits(k)
    BY DEF StoreInv
  <2> QED BY <1>4, <1>5, <2>1 DEF ClosingFits
<1> QED BY <1>7, <1>8, <1>9, <1>10, <1>11 DEF StoreInv

\* A call that is made, and the pool's own steps.
LEMMA CallKeepsStore ==
    ASSUME PoolInv, UseInv, StoreInv, NEW c \in Calls,
           NEW kind \in Adding \cup Clearing \cup Using,
           NEW ref \in Calls \cup {None}, Call(c, kind, ref)
    PROVE  StoreInv'
<1> DEFINE r == [Idle EXCEPT !.kind = kind, !.ref = ref, !.stage = "called"]
           result == IF kind = "destroy" THEN "ok" ELSE "fail"
           failed == [r EXCEPT !.late = TRUE, !.result = result]
           q == IF pool # "null" THEN r ELSE failed
<1>1. /\ call' = [call EXCEPT ![c] = q] /\ call[c].stage = "idle"
      /\ UNCHANGED <<pool, inbox, running, store, released, cleared, gone>>
      /\ kind \notin Referring => ref = None
  BY Zenon DEF Call, workers
<1>2. q.stage = "called" /\ q.todo = {} /\ ~q.barred /\ q.kind = kind /\ q.ref = ref
  BY DEF Idle
<1> HIDE DEF q
<1>3. OnlyCall(c, q)
  BY <1>1 DEF PoolInv, Typed, OnlyCall
<1> QED BY <1>1, <1>2, <1>3, StillFacts, QuietKeepsStore

LEMMA PoolKeepsStore ==
    ASSUME PoolInv, UseInv, StoreInv, InitPool \/ Load \/ FailLoad \/ UNCHANGED vars
    PROVE  StoreInv'
<1>1. UNCHANGED <<call, inbox, running, released, cleared, gone>>
  BY Zenon DEF InitPool, Load, FailLoad, workers, vars
<1>2. pool = "ready" => pool' = "ready"
  BY Zenon DEF InitPool, Load, FailLoad, vars
<1>3. \A v \in Workers, x \in Calls : Stored(v, x)' <=> Stored(v, x)
  <2>1. CASE Load
    <3>1. pool # "ready" /\ \A v \in Workers : store'[v] = {}
      BY <2>1 DEF Load
    <3>2. \A v \in Workers, x \in Calls : ~Stored(v, x)
      BY <3>1 DEF UseInv, RestFits, Empty
    <3> QED BY <3>1, <3>2 DEF Stored
  <2>2. CASE UNCHANGED store
    BY <2>2 DEF Stored
  <2> QED BY <2>1, <2>2, Zenon DEF InitPool, FailLoad, workers, vars
<1>4. \A v \in Workers, x \in Calls :
         /\ At(v, x)' <=> At(v, x)
         /\ x \in running'[v] <=> x \in running[v]
         /\ \A y \in Calls : Before(v, x, y)' <=> Before(v, x, y)
  BY <1>1 DEF At, Before
<1>5. CASE \E c \in Calls : TRUE
  <2>1. PICK c \in Calls : TRUE
    BY <1>5
  <2>2. OnlyCall(c, call[c])
    BY <1>1 DEF OnlyCall
  <2> QED BY <1>1, <1>2, <1>3, <1>4, <2>2, QuietKeepsStore
<1>6. CASE ~\E c \in Calls : TRUE
  <2>1. released' = {}
    BY <1>1, <1>6 DEF StoreInv, LeaderFits
  <2> QED BY <1>6, <2>1 DEF StoreInv, LeaderFits, Closing
<1> QED BY <1>5, <1>6

\* What a worker does to a call, unless it is released by it.
LEMMA WorkerSteps ==
    ASSUME PoolInv, UseInv, NEW w \in Workers, NEW c \in Calls,
           \/ Begin(w, c) \/ AddTo(w, c) \/ FailToAdd(w, c) \/ Use(w, c)
           \/ ClearKey(w, c) \/ ClearAll(w, c) \/ (w = First /\ (Add(c) \/ Export(c)))
    PROVE  WorkStep(w, c)
<1>1. CASE Begin(w, c) \/ AddTo(w, c) \/ FailToAdd(w, c) \/ Use(w, c)
  BY <1>1, BeginKeeps, AddToKeeps, FailToAddKeeps, UseKeeps
<1>2. CASE ClearKey(w, c) \/ ClearAll(w, c)
  BY <1>2, ClearKeyKeeps, ClearAllKeeps
<1>3. CASE w = First /\ (Add(c) \/ Export(c))
  BY <1>3, AddGoesOn, ExportKeeps
<1> QED BY <1>1, <1>2, <1>3

\* The invariant holds when there is no pool yet.
LEMMA StoreInvInit == ASSUME Init PROVE StoreInv
<1>1. \A c \in Calls : call[c] = Idle
  BY DEF Init
<1>2. /\ Idle.kind = "none" /\ Idle.stage = "idle" /\ Idle.result = "none"
      /\ Idle.todo = {} /\ Idle.ref = None /\ ~Idle.barred
  BY DEF Idle
<1>3. released = {} /\ gone = {} /\ cleared = {}
  BY DEF Init
<1>4. \A c \in Calls : ~Begun(c) /\ ~Destroying(c)
  BY <1>1, <1>2 DEF Begun, Destroying
<1>5. \A w \in Workers, c \in Calls : ~At(w, c)
  BY EmptyFacts DEF Init, At
<1>6. LeaderFits
  BY <1>3, <1>4, <1>5, ClosingIs DEF LeaderFits
<1>7. \A c \in Calls : TodoFits(c) /\ ClosingFits(c)
  BY <1>1, <1>2, <1>3, <1>4 DEF TodoFits, ClosingFits
<1> QED BY <1>1, <1>2, <1>3, <1>6, <1>7 DEF StoreInv, BarredFits, LeavesFits

\* Every step keeps it.
LEMMA StoreInvStep == ASSUME PoolInv, UseInv, StoreInv, [Next]_vars PROVE StoreInv'
<1>1. CASE InitPool \/ Load \/ FailLoad \/ UNCHANGED vars
  BY <1>1, PoolKeepsStore
<1>2. ASSUME NEW c \in Calls,
             NEW kind \in Adding \cup Clearing \cup Using,
             NEW ref \in Calls \cup {None}, Call(c, kind, ref)
      PROVE  StoreInv'
  BY <1>2, CallKeepsStore
<1>3. ASSUME NEW c \in Calls, Post(c) PROVE StoreInv'
  BY <1>3, PostKeepsStore
<1>4. ASSUME NEW c \in Calls, Add(c) \/ Export(c) PROVE StoreInv'
  BY <1>4, FirstIsWorker, WorkerSteps, WorkKeepsStore
<1>5. ASSUME NEW w \in Workers, NEW c \in Calls,
             \/ Begin(w, c) \/ AddTo(w, c) \/ FailToAdd(w, c) \/ Use(w, c)
             \/ ClearKey(w, c) \/ ClearAll(w, c)
      PROVE  StoreInv'
  BY <1>5, WorkerSteps, WorkKeepsStore
<1>6. ASSUME NEW w \in Workers, NEW c \in Calls, Release(w, c) PROVE StoreInv'
  BY <1>6, UseInvStep, ReleaseKeepsStore, ReleaseKeeps
<1> QED BY <1>1, <1>2, <1>3, <1>4, <1>5, <1>6, Zenon DEF Next

\* The invariant of the one key store: the order in which calls were posted,
\* as far as it settles what they find, is kept by every worker.
THEOREM StoreInvariance == Spec => []StoreInv
<1>1. PoolInv /\ UseInv /\ StoreInv /\ [Next]_vars => StoreInv'
  BY StoreInvStep
<1> QED BY <1>1, StoreInvInit, Invariance, CallsInvariance, PTL DEF Spec

-----------------------------------------------------------------------------
(* The pool is one key store.                                              *)

\* What the key store sees of a call.
LEMMA Views ==
    ASSUME NEW d \in Calls
    PROVE  /\ Progress[d] = Shown(call[d])
           /\ Progress[d].kind = call[d].kind /\ Progress[d].ref = call[d].ref
           /\ Progress[d].result = call[d].result
           /\ Progress[d].stage = StageOf(call[d])
           /\ Progress[d].fate = FateOf(call[d])
           /\ Single!HandedOut(d) <=> HandedOut(d)
           /\ Single!Asked(d) <=> call[d].stage = "called" /\ call[d].result = "none"
           /\ Single!UnderWay(d) <=>
                 call[d].stage \notin {"idle", "called"} /\ call[d].result = "none"
           /\ Single!BeingAdded(d) <=>
                 Begun(d) /\ call[d].result = "none" /\ ~call[d].barred
<1>1. Progress[d] = Shown(call[d])
  BY DEF Progress
<1>2. /\ Progress[d].kind = call[d].kind /\ Progress[d].ref = call[d].ref
      /\ Progress[d].result = call[d].result
      /\ Progress[d].stage = StageOf(call[d])
      /\ Progress[d].fate = FateOf(call[d])
  BY <1>1 DEF Shown
<1>3. /\ StageOf(call[d]) = "asked" <=> call[d].stage = "called"
      /\ StageOf(call[d]) = "taken" <=> call[d].stage \notin {"idle", "called"}
      /\ StageOf(call[d]) = "taken" => (FateOf(call[d]) = "barred" <=> call[d].barred)
  BY DEF StageOf, FateOf
<1> QED BY <1>1, <1>2, <1>3
        DEF Single!HandedOut, Single!Asked, Single!UnderWay, Single!BeingAdded,
            Single!Adding, HandedOut, Begun, Adding

\* A call that changes changes the key store's picture of it alone.
LEMMA OneShown ==
    ASSUME NEW c \in Calls, NEW q, OnlyCall(c, q)
    PROVE  Progress' = [Progress EXCEPT ![c] = Shown(q)]
<1>1. \A d \in Calls : call'[d] = IF d = c THEN q ELSE call[d]
  BY DEF OnlyCall
<1>2. Progress' = [d \in Calls |-> Shown(call'[d])]
  BY DEF Progress, Shown, StageOf, FateOf
<1>3. \A d \in Calls : Shown(call'[d]) = IF d = c THEN Shown(q) ELSE Shown(call[d])
  BY <1>1
<1>4. Progress' = [d \in Calls |-> IF d = c THEN Shown(q) ELSE Shown(call[d])]
  BY <1>2, <1>3, Zenon
<1> QED BY <1>4 DEF Progress

\* Where the pool stands, and what that says of the keys.
LEMMA Stands ==
    ASSUME StoreInv, PoolInv, UseInv
    PROVE  /\ Standing = "shut" <=> pool # "ready"
           /\ Standing = "closing" <=> Closing
           /\ Standing = "open" <=> pool = "ready" /\ ~Closing
           /\ Closing => Certain = {} /\ Doubtful = {}
           /\ \A k \in Calls : HandedOut(k) =>
                 Begun(k) /\ ~call[k].barred /\ call[k].result = "ok"
           /\ \A k \in Calls : k \in gone => k \in cleared
           /\ \A k \in Calls : k \in cleared => Begun(k)
<1>1. Closing => pool = "ready"
  BY DEF StoreInv, LeaderFits
<1>2. \A k \in Calls : ClosingFits(k)
  BY DEF StoreInv
<1>3. ASSUME NEW k \in Calls, HandedOut(k)
      PROVE  Begun(k) /\ ~call[k].barred /\ call[k].result = "ok"
  <2>1. call[k].kind \in Adding /\ call[k].stage = "rest" /\ call[k].result = "ok"
    BY <1>3 DEF UseInv, CallFits, RecordFits, HandedOut
  <2>2. call[k].barred => call[k].stage = "first"
    BY <2>1, FirstIsWorker DEF StoreInv, BarredFits
  <2> QED BY <2>1, <2>2 DEF Begun
<1>4. ASSUME Closing PROVE Certain = {} /\ Doubtful = {}
  <2>1. ASSUME NEW k \in Calls, HandedOut(k) PROVE k \in cleared
    BY <1>2, <1>3, <1>4, <2>1 DEF ClosingFits
  <2>2. ASSUME NEW k \in Calls, Begun(k), ~call[k].barred, call[k].result \in {"none", "ok"}
        PROVE  k \in gone
    BY <1>2, <1>4, <2>2 DEF ClosingFits
  <2>3. cleared \subseteq Calls
    BY DEF PoolInv, Typed, TypeOK
  <2> QED BY <2>1, <2>2, <2>3 DEF Certain, Doubtful
<1> QED BY <1>1, <1>2, <1>3, <1>4 DEF Standing, ClosingFits

\* A step that shows nothing of itself.
LEMMA Stutters ==
    ASSUME UNCHANGED <<Standing, Certain, Doubtful, Progress>>
    PROVE  UNCHANGED Single!vars
BY DEF Single!vars

\* A call that is made.
LEMMA CallAsks ==
    ASSUME PoolInv, UseInv, StoreInv, NEW c \in Calls,
           NEW kind \in Adding \cup Clearing \cup Using,
           NEW ref \in Calls \cup {None}, Call(c, kind, ref)
    PROVE  Single!Ask(c, kind, ref)
<1> DEFINE r == [Idle EXCEPT !.kind = kind, !.ref = ref, !.stage = "called"]
           result == IF kind = "destroy" THEN "ok" ELSE "fail"
           failed == [r EXCEPT !.late = TRUE, !.result = result]
           q == IF pool # "null" THEN r ELSE failed
           shown == [Single!Idle EXCEPT !.kind = kind, !.ref = ref, !.stage = "asked",
                                        !.result = q.result]
<1>1. /\ call' = [call EXCEPT ![c] = q] /\ call[c].stage = "idle"
      /\ UNCHANGED <<pool, cleared, gone>>
      /\ IF kind \in Referring THEN ref # None /\ HandedOut(ref) ELSE ref = None
  BY Zenon DEF Call, workers
<1>2. /\ q.stage = "called" /\ q.kind = kind /\ q.ref = ref
      /\ q.result = IF pool = "null" THEN result ELSE "none"
  BY DEF Idle
<1> HIDE DEF q, result, shown
<1>3. OnlyCall(c, q)
  BY <1>1 DEF PoolInv, Typed, OnlyCall
<1>4. Shown(q) = shown
  <2>1. StageOf(q) = "asked" /\ FateOf(q) = "none"
    BY <1>2 DEF StageOf, FateOf
  <2>2. Shown(q) = [kind |-> kind, ref |-> ref, stage |-> "asked", fate |-> "none",
                    result |-> q.result]
    BY <1>2, <2>1, Zenon DEF Shown
  <2>3. shown = [Single!Idle EXCEPT !.kind = kind, !.ref = ref, !.stage = "asked",
                                    !.result = q.result]
    BY DEF shown
  <2>4. shown = [kind |-> kind, ref |-> ref, stage |-> "asked", fate |-> "none",
                 result |-> q.result]
    BY <2>3 DEF Single!Idle
  <2> QED BY <2>2, <2>4, Zenon
<1>5. Progress' = [Progress EXCEPT ![c] = shown]
  BY <1>3, <1>4, OneShown
<1>6. /\ call'[c] = q /\ \A d \in Calls \ {c} : call'[d] = call[d]
      /\ ~HandedOut(c) /\ ~Begun(c)
  BY <1>1, <1>3, IdleFacts DEF OnlyCall
<1>7. Closing' <=> Closing
  BY <1>1, <1>2, <1>6 DEF Closing
<1>8. UNCHANGED <<Standing, Certain, Doubtful>>
  <2>1. Standing' = Standing
    BY <1>1, <1>7 DEF Standing
  <2>2. q.kind \notin Adding \/ q.result # "ok"
    BY <1>2 DEF result, Adding
  <2>3. \A d \in Calls : HandedOut(d)' <=> HandedOut(d)
    BY <1>6, <2>2 DEF HandedOut
  <2>4. \A d \in Calls : /\ Begun(d)' <=> Begun(d)
                         /\ Begun(d) => call'[d] = call[d]
    BY <1>2, <1>6 DEF Begun
  <2>5. gone \subseteq Calls /\ cleared \subseteq Calls
    BY DEF PoolInv, Typed, TypeOK
  <2>6. Certain' = Certain
    BY <1>1, <2>3 DEF Certain
  <2>7. Doubtful' = Doubtful
    BY <1>1, <2>4, <2>5 DEF Doubtful
  <2> QED BY <2>1, <2>6, <2>7
<1>9. Progress[c].stage = "idle"
  BY <1>1, Views DEF StageOf
<1>10. IF kind \in Single!Referring THEN ref # None /\ Single!HandedOut(ref)
       ELSE ref = None
  BY <1>1, Views DEF Single!Referring, Single!Using, Referring, Using
<1>11. q.result \in IF Standing = "shut"
                    THEN {"none", IF kind = "destroy" THEN "ok" ELSE "fail"}
                    ELSE {"none"}
  BY <1>2 DEF Standing, result
<1>12. \E answer \in IF Standing = "shut"
                      THEN {"none", IF kind = "destroy" THEN "ok" ELSE "fail"}
                      ELSE {"none"} :
          Progress' = [Progress EXCEPT ![c] =
             [Single!Idle EXCEPT !.kind = kind, !.ref = ref, !.stage = "asked",
                                 !.result = answer]]
  BY <1>5, <1>11, Zenon DEF shown
<1> QED BY <1>8, <1>9, <1>10, <1>12, Zenon DEF Single!Ask

\* A call that is posted takes its place in the key store.
LEMMA PostTakes ==
    ASSUME PoolInv, UseInv, StoreInv, StoreInv', NEW c \in Calls, Post(c)
    PROVE  Single!Take(c)
<1>1. PICK q \in SoundCall : \E ws : Posts(c, q, ws) /\ Sends(c, q, ws)
  BY PostFacts
<1>2. PICK ws : Posts(c, q, ws) /\ Sends(c, q, ws)
  BY <1>1
<1>3. /\ call'[c] = q /\ \A d \in Calls \ {c} : call'[d] = call[d]
      /\ OnlyCall(c, q)
      /\ q.kind = call[c].kind /\ q.ref = call[c].ref
      /\ call[c].stage = "called" /\ pool' = pool
      /\ gone \subseteq Calls /\ cleared \subseteq Calls
      /\ gone' \subseteq Calls /\ cleared' \subseteq Calls
  <2>1. Typed'
    BY PostStep DEF PoolInv, Settled
  <2> QED BY <1>2, <2>1 DEF Posts, OnlyCall, PoolInv, Typed, TypeOK
<1>4. /\ q.stage = IF q.kind \in Adding THEN "first" ELSE "once"
      /\ \/ /\ q.result = "fail" /\ q.barred
            /\ pool = "ready" => ws \cap released # {}
         \/ /\ q.result = "none" /\ ws \cap released = {}
            /\ pool = "ready"
            /\ q.late <=> q.ref \in cleared
            /\ q.barred <=> Closing \/ q.ref \in gone
  BY <1>2 DEF Posts
<1>5. call[c].result = "none" /\ pool \in {"ready", "failed"}
  BY DEF Post
<1>6. ~HandedOut(c) /\ ~Begun(c)
  BY <1>3, IdleFacts
<1>7. ASSUME NEW d \in Calls
      PROVE  /\ HandedOut(d)' <=> HandedOut(d)
             /\ Begun(d)' <=> Begun(d) \/ (d = c /\ q.kind \in Adding)
  <2>1. CASE d = c
    BY <1>3, <1>4, <1>6, <2>1 DEF HandedOut, Begun
  <2>2. CASE d # c
    BY <1>3, <2>2 DEF HandedOut, Begun
  <2> QED BY <2>1, <2>2
<1>8. Closing' <=> Closing \/ (q.kind = "destroy" /\ q.result = "none")
  <2>1. call'[c].stage = "once" <=> q.kind \notin Adding
    BY <1>3, <1>4
  <2> QED BY <1>3, <2>1 DEF Closing, Adding
<1>9. /\ Standing = "shut" <=> pool # "ready"
      /\ Standing = "closing" <=> Closing
      /\ Standing = "open" <=> pool = "ready" /\ ~Closing
      /\ Standing \in {"shut", "closing", "open"}
      /\ Closing => Certain = {} /\ Doubtful = {}
      /\ \A k \in Calls : HandedOut(k) =>
            Begun(k) /\ ~call[k].barred /\ call[k].result = "ok"
      /\ \A k \in Calls : k \in gone => k \in cleared
      /\ \A k \in Calls : k \in cleared => Begun(k)
  BY Stands DEF Standing
<1>10. pool = "ready" /\ ~Closing => q.result = "none"
  <2>1. released # {} => Closing
    BY ClosingIs DEF StoreInv, LeaderFits, Leads
  <2> QED BY <1>4, <2>1
<1>11. \A k \in Calls :
          /\ k \in cleared' <=>
                \/ k \in cleared
                \/ pool = "ready" /\ q.kind = "clearKey" /\ k = q.ref
                \/ pool = "ready" /\ q.kind \in {"clearKeyStore", "destroy"} /\ Begun(k)
          /\ k \in gone' <=>
                \/ k \in gone
                \/ pool = "ready" /\ q.kind = "clearKey" /\ k = q.ref
                \/ pool = "ready" /\ q.kind = "clearKeyStore" /\ HandedOut(k)
                \/ pool = "ready" /\ q.kind = "destroy" /\ Begun(k)
  BY <1>2 DEF Sends
<1>12. /\ q.kind \notin Referring => q.ref \notin cleared /\ q.ref \notin gone
       /\ q.kind \in Referring => q.ref \in Calls /\ HandedOut(q.ref)
       /\ q.kind \in Referring <=> Progress[c].kind \in Single!Referring
       /\ Progress[c].ref = q.ref
  <2>1. TodoFits(c)
    BY DEF StoreInv
  <2>2. /\ q.kind \in Referring <=> Progress[c].kind \in Single!Referring
        /\ Progress[c].ref = q.ref
    BY <1>3, Views DEF Single!Referring, Single!Using, Referring, Using
  <2> QED BY <1>3, <2>1, <2>2, RefFacts, NoneAssumption DEF TodoFits
<1>13. Single!Fate(Progress[c]) = FateOf(q)
  <2>1. StageOf(q) = "taken"
    BY <1>4 DEF StageOf
  <2>2. CASE pool # "ready" \/ Closing
    <3>1. q.barred /\ Standing # "open"
      BY <1>4, <1>9, <2>2
    <3> QED BY <2>1, <3>1 DEF FateOf, Single!Fate
  <2>3. CASE pool = "ready" /\ ~Closing
    <3>1. /\ q.late <=> q.ref \in cleared
          /\ q.barred <=> q.ref \in gone
          /\ Standing = "open"
      BY <1>4, <1>9, <1>10, <2>3
    <3>2. CASE q.kind \notin Referring
      <4>1. ~q.late /\ ~q.barred
        BY <1>12, <3>1, <3>2
      <4> QED BY <1>12, <2>1, <3>1, <3>2, <4>1 DEF FateOf, Single!Fate
    <3>3. CASE q.kind \in Referring
      <4>1. PICK k \in Calls : k = q.ref /\ HandedOut(k)
        BY <1>12, <3>3
      <4>2. /\ k \in Certain <=> k \notin cleared
            /\ k \in Doubtful <=> k \in cleared /\ k \notin gone
        BY <1>9, <4>1 DEF Certain, Doubtful
      <4>3. Single!Fate(Progress[c]) = IF k \in Certain THEN "sure"
                                       ELSE IF k \in Doubtful THEN "unsure" ELSE "barred"
        BY <1>12, <3>1, <3>3, <4>1 DEF Single!Fate
      <4> QED BY <1>9, <2>1, <3>1, <4>1, <4>2, <4>3 DEF FateOf
    <3> QED BY <3>2, <3>3
  <2> QED BY <2>2, <2>3
<1>14. Progress' = [Progress EXCEPT ![c] =
          [Progress[c] EXCEPT !.stage = "taken", !.fate = Single!Fate(Progress[c]),
                              !.result = q.result]]
  <2> DEFINE shown == [Progress[c] EXCEPT !.stage = "taken",
                          !.fate = Single!Fate(Progress[c]), !.result = q.result]
  <2> HIDE DEF shown
  <2>1. shown = [Shown(call[c]) EXCEPT !.stage = "taken", !.fate = FateOf(q),
                                       !.result = q.result]
    BY <1>13, Views, Zenon DEF shown
  <2>2. shown = [kind |-> call[c].kind, ref |-> call[c].ref, stage |-> "taken",
                 fate |-> FateOf(q), result |-> q.result]
    BY <2>1 DEF Shown
  <2>3. StageOf(q) = "taken"
    BY <1>4 DEF StageOf
  <2>4. Shown(q) = shown
    BY <1>3, <2>2, <2>3, Zenon DEF Shown
  <2>5. Progress' = [Progress EXCEPT ![c] = shown]
    BY <1>3, <2>4, OneShown
  <2> QED BY <2>5, Zenon DEF shown
<1>15. q.result \in CASE Standing = "open" -> {"none"}
                      [] Standing = "closing" -> {"none", "fail"}
                      [] Standing = "shut" -> {"fail"}
  BY <1>4, <1>9, <1>10
<1>16. Standing' = IF pool # "ready" THEN "shut" ELSE IF Closing' THEN "closing" ELSE "open"
  BY <1>3 DEF Standing
<1>17. /\ Certain' = {k \in Calls : HandedOut(k) /\ k \notin cleared'}
       /\ Doubtful' = {k \in cleared' \ gone' :
             Begun(k)' /\ ~call'[k].barred /\ call'[k].result \in {"none", "ok"}}
  BY <1>7 DEF Certain, Doubtful
<1>18. ASSUME cleared' = cleared, gone' = gone
       PROVE  UNCHANGED <<Certain, Doubtful>>
  <2>1. \A k \in cleared : k # c /\ call'[k] = call[k] /\ (Begun(k)' <=> Begun(k))
    BY <1>3, <1>6, <1>7, <1>9
  <2> QED BY <1>17, <1>18, <2>1 DEF Certain, Doubtful
<1>19. ASSUME Closing' PROVE Certain' = {} /\ Doubtful' = {}
  <2>1. \A k \in Calls : ClosingFits(k)'
    BY DEF StoreInv
  <2>2. \A k \in Calls : Begun(k)' /\ ~call'[k].barred /\ call'[k].result \in {"none", "ok"}
                            => k \in gone' /\ k \in cleared'
    BY <1>19, <2>1 DEF ClosingFits
  <2>3. \A k \in Calls : HandedOut(k) => k # c /\ Begun(k)' /\ ~call'[k].barred
                                            /\ call'[k].result = "ok"
    BY <1>3, <1>6, <1>7, <1>9
  <2> QED BY <1>3, <1>17, <2>2, <2>3
<1>20. ASSUME Standing # "open" PROVE UNCHANGED <<Standing, Certain, Doubtful>>
  <2>1. Standing' = Standing
    BY <1>8, <1>9, <1>16, <1>20, <1>4
  <2>2. UNCHANGED <<Certain, Doubtful>>
    <3>1. CASE Closing
      BY <1>8, <1>9, <1>19, <3>1
    <3>2. CASE ~Closing
      <4>1. pool # "ready"
        BY <1>9, <1>20, <3>2
      <4>2. cleared' = cleared /\ gone' = gone
        BY <1>3, <1>11, <4>1
      <4> QED BY <1>18, <4>2
    <3> QED BY <3>1, <3>2
  <2> QED BY <2>1, <2>2
<1>21. ASSUME Standing = "open"
       PROVE  /\ Standing' = IF Progress[c].kind = "destroy" THEN "closing" ELSE Standing
              /\ Certain' = CASE Progress[c].kind = "clearKey" -> Certain \ {Progress[c].ref}
                              [] Progress[c].kind \in {"clearKeyStore", "destroy"} -> {}
                              [] OTHER -> Certain
              /\ Doubtful' = CASE Progress[c].kind = "clearKey" -> Doubtful \ {Progress[c].ref}
                               [] Progress[c].kind = "clearKeyStore" ->
                                     {d \in Calls : Single!BeingAdded(d)}
                               [] Progress[c].kind = "destroy" -> {}
                               [] OTHER -> Doubtful
  <2>1. /\ pool = "ready" /\ ~Closing /\ q.result = "none"
        /\ Progress[c].kind = q.kind /\ Progress[c].ref = q.ref
    BY <1>3, <1>9, <1>10, <1>21, Views
  <2>2. Standing' = IF q.kind = "destroy" THEN "closing" ELSE Standing
    BY <1>8, <1>16, <1>21, <2>1
  <2>3. CASE q.kind = "destroy"
    BY <1>8, <1>19, <2>1, <2>2, <2>3
  <2>4. CASE q.kind = "clearKey"
    <3>1. \A k \in Calls : /\ k \in cleared' <=> k \in cleared \/ k = q.ref
                           /\ k \in gone' <=> k \in gone \/ k = q.ref
      BY <1>11, <2>1, <2>4
    <3>2. Certain' = Certain \ {q.ref}
      BY <1>17, <3>1 DEF Certain
    <3>3. \A k \in Calls \ {c} : call'[k] = call[k] /\ (Begun(k)' <=> Begun(k))
      BY <1>3, <1>7
    <3>4. \A k \in Calls : k \in cleared' => k # c
      BY <1>6, <1>9, <1>12, <2>4, <3>1 DEF Referring
    <3>5. Doubtful' = Doubtful \ {q.ref}
      BY <1>3, <1>17, <3>1, <3>3, <3>4 DEF Doubtful
    <3> QED BY <2>1, <2>2, <2>4, <3>2, <3>5
  <2>5. CASE q.kind = "clearKeyStore"
    <3>1. \A k \in Calls : /\ k \in cleared' <=> k \in cleared \/ Begun(k)
                           /\ k \in gone' <=> k \in gone \/ HandedOut(k)
      BY <1>11, <2>1, <2>5
    <3>2. Certain' = {}
      BY <1>9, <1>17, <3>1
    <3>3. ASSUME NEW k \in Calls PROVE k \in Doubtful' <=> Single!BeingAdded(k)
      <4>1. Single!BeingAdded(k) <=> Begun(k) /\ call[k].result = "none" /\ ~call[k].barred
        BY Views
      <4>2. k \in gone => call[k].result # "none"
        BY <2>1 DEF StoreInv, ClosingFits
      <4>3. Begun(k)' => k # c /\ Begun(k) /\ call'[k] = call[k]
        BY <1>3, <1>6, <1>7, <2>5 DEF Adding
      <4>4. Begun(k) => k # c /\ Begun(k)' /\ call'[k] = call[k]
        BY <1>3, <1>6, <1>7
      <4>5. Begun(k) /\ call[k].result = "ok" => HandedOut(k)
        BY DEF Begun, HandedOut
      <4>6. HandedOut(k) => call[k].result = "ok"
        BY DEF HandedOut
      <4> QED BY <1>17, <3>1, <4>1, <4>2, <4>3, <4>4, <4>5, <4>6
    <3>4. Doubtful' = {d \in Calls : Single!BeingAdded(d)}
      <4>1. Doubtful' \subseteq Calls
        BY <1>3, <1>17
      <4> QED BY <3>3, <4>1
    <3> QED BY <2>1, <2>2, <2>5, <3>2, <3>4
  <2>6. CASE q.kind \notin {"clearKey", "clearKeyStore", "destroy"}
    <3>1. cleared' = cleared /\ gone' = gone
      BY <1>3, <1>11, <2>6
    <3> QED BY <1>18, <2>1, <2>2, <2>6, <3>1
  <2> QED BY <2>3, <2>4, <2>5, <2>6
<1>22. Single!Asked(c)
  BY <1>3, <1>5, Views
<1>23. \E result \in CASE Standing = "open" -> {"none"}
                       [] Standing = "closing" -> {"none", "fail"}
                       [] Standing = "shut" -> {"fail"} :
          Progress' = [Progress EXCEPT ![c] =
             [Progress[c] EXCEPT !.stage = "taken", !.fate = Single!Fate(Progress[c]),
                                 !.result = result]]
  BY <1>14, <1>15, Zenon
<1> QED BY <1>20, <1>21, <1>22, <1>23, Zenon DEF Single!Take

\* A worker answers a call, or does what the key store does not see.
LEMMA WorkAnswers ==
    ASSUME PoolInv, UseInv, UseInv', StoreInv, StoreInv',
           NEW w \in Workers, NEW c \in Calls, WorkStep(w, c)
    PROVE  Single!Answer(c) \/ UNCHANGED Single!vars
<1>1. PICK q \in SoundCall : Works(w, c, q) /\ OnlyCall(c, q)
  BY DEF WorkStep
<1>2. /\ There(w, c) /\ call[c].kind # "destroy" /\ RecordFits(q)
      /\ q.stage \notin {"idle", "called"}
      /\ pool' = pool /\ cleared' = cleared /\ gone' = gone
      /\ q.kind = call[c].kind /\ q.ref = call[c].ref /\ q.late = call[c].late
      /\ q.barred = call[c].barred
      /\ call'[c] = q /\ \A d \in Calls \ {c} : call'[d] = call[d]
  BY <1>1 DEF Works, OnlyCall, SameCall
<1>3. Heeds(w, c, q)
  BY <1>1 DEF Works
<1>4. /\ pool = "ready" /\ call[c].stage \notin {"idle", "called"}
      /\ RecordFits(call[c])
  BY <1>2, NotDone DEF Awaited
<1>5. \A d \in Calls : Begun(d)' <=> Begun(d)
  BY <1>2, <1>4 DEF Begun
<1>6. Closing' <=> Closing
  BY <1>2 DEF Closing
<1>7. Standing' = Standing
  BY <1>2, <1>6 DEF Standing
<1>8. /\ StageOf(q) = StageOf(call[c]) /\ FateOf(q) = FateOf(call[c])
      /\ Shown(q) = [Progress[c] EXCEPT !.result = q.result]
  <2> DEFINE shown == [Progress[c] EXCEPT !.result = q.result]
  <2> HIDE DEF shown
  <2>1. shown = [Shown(call[c]) EXCEPT !.result = q.result]
    BY Views, Zenon DEF shown
  <2>2. shown = [kind |-> call[c].kind, ref |-> call[c].ref, stage |-> StageOf(call[c]),
                 fate |-> FateOf(call[c]), result |-> q.result]
    BY <2>1 DEF Shown
  <2>3. StageOf(q) = StageOf(call[c])
    BY <1>2, <1>4 DEF StageOf
  <2>4. FateOf(q) = FateOf(call[c])
    BY <1>2, <2>3 DEF FateOf
  <2>5. Shown(q) = shown
    BY <1>2, <2>2, <2>3, <2>4, Zenon DEF Shown
  <2> QED BY <2>3, <2>4, <2>5, Zenon DEF shown
<1>9. Progress' = [Progress EXCEPT ![c].result = q.result]
  BY <1>1, <1>8, OneShown
<1>10. gone \subseteq Calls /\ cleared \subseteq Calls
  BY DEF PoolInv, Typed, TypeOK
<1>11. CASE q.result = call[c].result
  <2>1. \A d \in Calls : /\ HandedOut(d)' <=> HandedOut(d)
                         /\ call'[d].barred = call[d].barred
                         /\ call'[d].result = call[d].result
    BY <1>2, <1>11 DEF HandedOut
  <2>2. Certain' = Certain /\ Doubtful' = Doubtful
    BY <1>2, <1>5, <1>10, <2>1 DEF Certain, Doubtful
  <2>3. Progress' = Progress
    <3>1. Progress[c] = Shown(q)
      BY <1>2, <1>8, <1>11, Views, Zenon DEF Shown
    <3> QED BY <1>1, <3>1, OneShown DEF Progress
  <2> QED BY <1>7, <2>2, <2>3, Stutters
<1>12. CASE q.result # call[c].result
  <2>1. call[c].result = "none" /\ q.result \in {"ok", "fail"}
    BY <1>3, <1>12 DEF Heeds
  <2>2. Single!UnderWay(c) /\ Progress[c].kind # "destroy"
    BY <1>2, <1>4, <2>1, Views
  <2>3. /\ Progress[c].fate = "barred" <=> call[c].barred
        /\ Progress[c].fate = "sure" <=> ~call[c].barred /\ ~call[c].late
        /\ Progress[c].kind \in Single!Adding <=> call[c].kind \in Adding
    BY <1>4, Views DEF FateOf, StageOf, Single!Adding, Adding
  <2>4. ~HandedOut(c) /\ (call[c].kind \in Adding <=> Begun(c))
    BY <1>4, <2>1 DEF HandedOut, Begun
  <2>5. ASSUME NEW d \in Calls \ {c}
        PROVE  /\ d \in Certain' <=> d \in Certain
               /\ d \in Doubtful' <=> d \in Doubtful
    BY <1>2, <1>5 DEF Certain, Doubtful, HandedOut
  <2>6. Certain \subseteq Calls /\ Certain' \subseteq Calls
    BY DEF Certain
  <2>7. Doubtful \subseteq Calls /\ Doubtful' \subseteq Calls
    BY <1>2, <1>10 DEF Doubtful
  <2>8. CASE q.result = "ok"
    <3>1. ~call[c].barred
      <4>1. SUFFICES ASSUME call[c].barred PROVE FALSE
        OBVIOUS
      <4>2. call[c].kind \notin Adding
        <5>1. call[c].kind \in Adding => q.stage = "first"
          BY <1>2, <4>1 DEF StoreInv, BarredFits
        <5> QED BY <1>2, <2>8, <5>1 DEF RecordFits
      <4>3. c \notin running[w] /\ call[c].stage = "once"
        <5>1. call[c] \in CallRecord
          BY DEF PoolInv, Typed, SoundCall
        <5> QED BY <1>4, <4>2, <5>1 DEF UseInv, PlaceFits, RecordFits, CallRecord
      <4>4. AtHead(w, c)
        BY <1>3, <4>3 DEF Heeds
      <4>5. At(w, c) /\ \A d \in Calls : ~Before(w, d, c)
        BY <4>4, HeadFirst DEF PoolInv, Typed
      <4>6. call[c].kind \in Referring /\ ~Stored(w, call[c].ref)
        BY <4>1, <4>5 DEF StoreInv, BarredFits
      <4> QED BY <1>3, <2>8, <4>3, <4>4, <4>6 DEF Heeds
    <3>2. c \in Certain' <=> call[c].kind \in Adding /\ c \notin cleared
      BY <1>2, <2>8 DEF Certain, HandedOut
    <3>3. c \notin Certain
      BY <2>4 DEF Certain
    <3>4. c \in Doubtful' <=> c \in Doubtful
      BY <1>2, <1>5, <2>1, <2>8 DEF Doubtful
    <3>5. call[c].kind \in Adding =>
             (Standing = "open" /\ c \notin Doubtful <=> c \notin cleared)
      <4>1. c \in gone => Closing
        BY <2>1 DEF StoreInv, ClosingFits
      <4>2. Closing /\ Begun(c) => c \in gone /\ c \in cleared
        BY <2>1, <3>1 DEF StoreInv, ClosingFits
      <4>3. Begun(c) => (c \in Doubtful <=> c \in cleared /\ c \notin gone)
        BY <2>1, <3>1 DEF Doubtful
      <4>4. Standing = "open" <=> ~Closing
        BY <1>4 DEF Standing
      <4> QED BY <2>4, <4>1, <4>2, <4>3, <4>4
    <3>6. Certain' = IF /\ Progress[c].kind \in Single!Adding /\ Standing = "open"
                        /\ c \notin Doubtful
                     THEN Certain \cup {c} ELSE Certain
      BY <2>3, <2>5, <2>6, <3>2, <3>3, <3>5
    <3>7. Doubtful' = Doubtful
      BY <2>5, <2>7, <3>4
    <3>8. Progress' = [Progress EXCEPT ![c].result = "ok"]
      BY <1>9, <2>8
    <3>9. Progress[c].fate # "barred"
      BY <2>3, <3>1
    <3> QED BY <1>7, <2>2, <3>6, <3>7, <3>8, <3>9, Zenon DEF Single!Answer
  <2>9. CASE q.result = "fail"
    <3>1. Progress[c].fate # "sure" \/ Progress[c].kind \in Single!Adding
      <4>1. call[c].kind \notin Adding => call[c].late
        BY <1>2, <2>9 DEF UseInv, Succeeds
      <4> QED BY <2>3, <4>1
    <3>2. c \notin Certain /\ c \notin Certain' /\ c \notin Doubtful'
      BY <1>2, <2>4, <2>9 DEF Certain, Doubtful, HandedOut
    <3>3. Certain' = Certain /\ Doubtful' = Doubtful \ {c}
      BY <2>5, <2>6, <2>7, <3>2
    <3>4. Progress' = [Progress EXCEPT ![c].result = "fail"]
      BY <1>9, <2>9
    <3> QED BY <1>7, <2>2, <3>1, <3>3, <3>4, Zenon DEF Single!Answer
  <2> QED BY <2>1, <2>8, <2>9
<1> QED BY <1>11, <1>12

\* Calls are lost with a worker that is released, and all that are under way
\* with the last.
LEMMA ReleaseLoses ==
    ASSUME PoolInv, UseInv, UseInv', StoreInv, StoreInv',
           NEW w \in Workers, NEW c \in Calls, Release(w, c)
    PROVE  Single!Lose \/ Single!Close(c)
<1>1. PICK last \in BOOLEAN : Releases(w, c, last)
  BY ReleaseFacts
<1>2. /\ call[c].kind = "destroy" /\ At(w, c)
      /\ pool' = (IF last THEN "null" ELSE pool)
      /\ cleared' = cleared /\ gone' = gone /\ (last <=> call'[c].result = "ok")
  BY <1>1 DEF Releases
<1>3. \A d \in Calls :
          /\ call'[d].kind = call[d].kind /\ call'[d].ref = call[d].ref
          /\ call'[d].stage = call[d].stage /\ call'[d].barred = call[d].barred
          /\ call[d].stage # "called" => call'[d].late = call[d].late
          /\ call'[d].result = "ok" => call[d].result = "ok" \/ d = c
          /\ call[d].result # "none" => call'[d].result = call[d].result
          /\ d # c => call'[d].result =
                IF Pending(d) /\ w \in call[d].todo THEN "lost"
                ELSE IF last /\ Pending(d) /\ call[d].stage = "called" THEN "fail"
                ELSE call[d].result
  BY <1>1 DEF Releases
<1>4. /\ Leads(c) /\ call[c].todo = Workers \ released
      /\ call'[c].result = "ok" => ~Closing'
      /\ \A d \in Calls : call[d].stage \notin {"idle", "called"}
            /\ call'[d].result = "none" => call'[c].result = "none"
  BY ReleaseKeepsStore
<1>5. /\ Destroying(c) /\ ~call[c].barred /\ ~call[c].late /\ Closing
      /\ call[c].stage = "once" /\ call[c].result = "none"
      /\ \A e \in Calls \ {c} : Destroying(e) => call[e].barred
  BY <1>4, ClosingIs DEF Leads, Destroying
<1>6. pool = "ready"
  BY <1>5 DEF StoreInv, LeaderFits
<1>7. \A d \in Calls : call[d].stage \in {"idle", "called"} => call[d].todo = {}
  BY DEF StoreInv, TodoFits
<1>8. \A d \in Calls : /\ Begun(d)' <=> Begun(d)
                       /\ HandedOut(d)' <=> HandedOut(d)
                       /\ Begun(d) => d # c
  BY <1>2, <1>3 DEF Begun, HandedOut, Adding
<1>9. Certain' = Certain
  BY <1>2, <1>8 DEF Certain
<1>10. Doubtful = {} /\ Doubtful' = {}
  <2>1. Doubtful = {}
    BY <1>5, Stands
  <2>2. ASSUME NEW k \in Calls, Begun(k), call'[k].result \in {"none", "ok"}
        PROVE  call[k].result \in {"none", "ok"}
    BY <1>3, <1>8, <2>2
  <2>3. gone \subseteq Calls /\ cleared \subseteq Calls
    BY DEF PoolInv, Typed, TypeOK
  <2> QED BY <1>2, <1>3, <1>8, <2>1, <2>2, <2>3 DEF Doubtful
<1>11. ASSUME NEW d \in Calls
       PROVE  Shown(call'[d]) = [Progress[d] EXCEPT !.result = call'[d].result]
  <2> DEFINE shown == [Progress[d] EXCEPT !.result = call'[d].result]
  <2> HIDE DEF shown
  <2>1. shown = [Shown(call[d]) EXCEPT !.result = call'[d].result]
    BY Views, Zenon DEF shown
  <2>2. shown = [kind |-> call[d].kind, ref |-> call[d].ref, stage |-> StageOf(call[d]),
                 fate |-> FateOf(call[d]), result |-> call'[d].result]
    BY <2>1 DEF Shown
  <2>3. StageOf(call'[d]) = StageOf(call[d])
    BY <1>3 DEF StageOf
  <2>4. FateOf(call'[d]) = FateOf(call[d])
    BY <1>3, <2>3 DEF FateOf, StageOf
  <2>5. Shown(call'[d]) = shown
    BY <1>3, <2>2, <2>3, <2>4, Zenon DEF Shown
  <2> QED BY <2>5, Zenon DEF shown
<1>12. Progress' = [d \in Calls |-> Shown(call'[d])]
  BY DEF Progress, Shown, StageOf, FateOf
<1>13. ASSUME NEW d \in Calls, call'[d].result = call[d].result
       PROVE  Shown(call'[d]) = Progress[d]
  <2>1. StageOf(call'[d]) = StageOf(call[d])
    BY <1>3 DEF StageOf
  <2>2. FateOf(call'[d]) = FateOf(call[d])
    BY <1>3, <2>1 DEF FateOf, StageOf
  <2> QED BY <1>3, <1>13, <2>1, <2>2, Views, Zenon DEF Shown
<1>14. /\ Standing = "closing"
       /\ Single!Closes(c)
       /\ \A d \in Calls : Single!Closes(d) => d = c
  <2>1. Standing = "closing"
    BY <1>5, <1>6 DEF Standing
  <2>2. \A d \in Calls : /\ Single!UnderWay(d) <=>
                               /\ call[d].stage \notin {"idle", "called"}
                               /\ call[d].result = "none"
                         /\ Progress[d].kind = call[d].kind
                         /\ call[d].stage \notin {"idle", "called"} =>
                               (Progress[d].fate = "sure" <=>
                                  ~call[d].barred /\ ~call[d].late)
    BY Views DEF FateOf, StageOf
  <2>3. Single!Closes(c)
    BY <1>2, <1>5, <2>2 DEF Single!Closes
  <2>4. ASSUME NEW d \in Calls, Single!Closes(d), d # c PROVE FALSE
    <3>1. /\ call[d].stage \notin {"idle", "called"} /\ call[d].result = "none"
          /\ call[d].kind = "destroy" /\ ~call[d].barred
      BY <2>2, <2>4 DEF Single!Closes
    <3>2. call[d].stage = "once"
      <4>1. call[d] \in CallRecord /\ RecordFits(call[d])
        BY DEF PoolInv, Typed, SoundCall, UseInv, CallFits
      <4> QED BY <3>1, <4>1 DEF CallRecord, RecordFits, Adding
    <3> QED BY <1>5, <2>4, <3>1, <3>2 DEF Destroying
  <2> QED BY <2>1, <2>3, <2>4
<1>15. CASE ~last
  <2> DEFINE lost == {d \in Calls : Pending(d) /\ w \in call[d].todo /\ d # c}
  <2>1. call'[c].result = "none"
    BY <1>1, <1>5, <1>15 DEF Releases
  <2>2. Standing' = "closing"
    <3>1. Destroying(c)'
      BY <1>2, <1>3, <1>5, <2>1 DEF Destroying
    <3>2. Closing'
      BY <3>1 DEF Closing, Destroying
    <3> QED BY <1>2, <1>6, <1>15, <3>2 DEF Standing
  <2>3. lost \in SUBSET {d \in Calls : Single!UnderWay(d) /\ ~Single!Closes(d)}
    BY <1>7, <1>14, Views DEF Pending
  <2>4. ASSUME NEW d \in Calls
        PROVE  Shown(call'[d]) = IF d \in lost THEN [Progress[d] EXCEPT !.result = "lost"]
                                 ELSE Progress[d]
    <3>1. CASE d \in lost
      <4>1. call'[d].result = "lost"
        BY <1>3, <3>1
      <4> QED BY <1>11, <3>1, <4>1, Zenon
    <3>2. CASE d \notin lost
      <4>1. call'[d].result = call[d].result
        BY <1>3, <1>5, <1>15, <2>1, <3>2
      <4> QED BY <1>13, <3>2, <4>1, Zenon
    <3> QED BY <3>1, <3>2
  <2> HIDE DEF lost
  <2>5. Progress' = [d \in Calls |-> IF d \in lost THEN [Progress[d] EXCEPT !.result = "lost"]
                                     ELSE Progress[d]]
    BY <1>12, <2>4, Zenon
  <2>6. Single!Lose
    BY <1>9, <1>10, <1>14, <2>2, <2>3, <2>5, Zenon DEF Single!Lose
  <2> QED BY <2>6
<1>16. CASE last
  <2>1. Standing' = "shut"
    BY <1>2, <1>16 DEF Standing
  <2> DEFINE after(d) == IF d = c THEN [Progress[d] EXCEPT !.result = "ok"]
                         ELSE IF Single!UnderWay(d)
                              THEN [Progress[d] EXCEPT !.result = "lost"]
                         ELSE IF Single!Asked(d)
                              THEN [Progress[d] EXCEPT !.result = "fail"]
                         ELSE Progress[d]
  <2>2. ASSUME NEW d \in Calls PROVE Shown(call'[d]) = after(d)
    <3>1. CASE d = c
      BY <1>2, <1>11, <1>16, <3>1, Zenon
    <3>2. CASE d # c /\ Single!UnderWay(d)
      <4>1. /\ call[d].stage \notin {"idle", "called"} /\ call[d].result = "none"
            /\ call'[d].result # "none"
        BY <1>2, <1>4, <1>16, <3>2, Views
      <4>2. call'[d].result = "lost"
        BY <1>3, <3>2, <4>1
      <4> QED BY <1>11, <3>2, <4>2, Zenon
    <3>3. CASE d # c /\ ~Single!UnderWay(d) /\ Single!Asked(d)
      <4>1. call[d].stage = "called" /\ call[d].result = "none" /\ call[d].todo = {}
        BY <1>7, <3>3, Views
      <4>2. call'[d].result = "fail"
        BY <1>3, <1>16, <3>3, <4>1 DEF Pending
      <4> QED BY <1>11, <3>3, <4>2, Zenon
    <3>4. CASE d # c /\ ~Single!UnderWay(d) /\ ~Single!Asked(d)
      <4>1. call[d].stage = "idle" \/ call[d].result # "none"
        BY <3>4, Views
      <4>2. call'[d].result = call[d].result
        BY <1>3, <3>4, <4>1 DEF Pending
      <4> QED BY <1>13, <3>4, <4>2, Zenon
    <3> QED BY <3>1, <3>2, <3>3, <3>4
  <2>3. Progress' = [d \in Calls |-> after(d)]
    BY <1>12, <2>2, Zenon
  <2>4. Single!Close(c)
    BY <1>9, <1>10, <1>14, <2>1, <2>3, Zenon DEF Single!Close
  <2> QED BY <2>4
<1> QED BY <1>15, <1>16

\* The pool's own steps: only the one that brings it up is seen.
LEMMA PoolOpens ==
    ASSUME StoreInv, InitPool \/ Load \/ FailLoad \/ UNCHANGED vars
    PROVE  Single!Open \/ UNCHANGED Single!vars
<1>1. /\ UNCHANGED <<call, cleared, gone>>
      /\ Load => pool # "ready" /\ pool' = "ready"
      /\ ~Load => (pool' = "ready" <=> pool = "ready")
  BY Zenon DEF InitPool, Load, FailLoad, workers, vars
<1>2. UNCHANGED <<Certain, Doubtful, Progress>>
  BY <1>1 DEF Certain, Doubtful, Progress, HandedOut, Begun, Shown, StageOf, FateOf
<1>3. Closing' <=> Closing
  BY <1>1 DEF Closing
<1>4. CASE Load
  <2>1. ~Closing /\ pool # "ready" /\ pool' = "ready"
    BY <1>1, <1>4 DEF StoreInv, LeaderFits
  <2>2. Standing = "shut" /\ Standing' = "open"
    BY <1>3, <2>1 DEF Standing
  <2> QED BY <1>2, <2>2 DEF Single!Open
<1>5. CASE ~Load
  <2>1. Standing' = Standing
    BY <1>1, <1>3, <1>5 DEF Standing
  <2> QED BY <1>2, <2>1, Stutters
<1> QED BY <1>4, <1>5

\* A pool that was never started is a key store that was never opened.
LEMMA SingleInit == ASSUME Init PROVE Single!Init
<1>1. \A c \in Calls : call[c] = Idle
  BY DEF Init
<1>2. /\ Idle.kind = "none" /\ Idle.stage = "idle" /\ Idle.result = "none"
      /\ Idle.ref = None
  BY DEF Idle
<1>3. StageOf(Idle) = "idle" /\ FateOf(Idle) = "none"
  BY <1>2 DEF StageOf, FateOf
<1>4. Shown(Idle) = Single!Idle
  BY <1>2, <1>3, Zenon DEF Shown, Single!Idle
<1>5. Progress = [c \in Calls |-> Single!Idle]
  BY <1>1, <1>4, Zenon DEF Progress
<1>6. Certain = {} /\ Doubtful = {} /\ Standing = "shut"
  BY <1>1, <1>2 DEF Init, Certain, Doubtful, Standing, HandedOut
<1> QED BY <1>5, <1>6 DEF Single!Init

\* Each step of the pool is a step of the key store, or none.
LEMMA SingleStep ==
    ASSUME PoolInv, UseInv, UseInv', StoreInv, StoreInv', [Next]_vars
    PROVE  [Single!Next]_Single!vars
<1>1. CASE InitPool \/ Load \/ FailLoad \/ UNCHANGED vars
  BY <1>1, PoolOpens, Zenon DEF Single!Next
<1>2. ASSUME NEW c \in Calls,
             NEW kind \in Adding \cup Clearing \cup Using,
             NEW ref \in Calls \cup {None}, Call(c, kind, ref)
      PROVE  Single!Next
  <2>1. Single!Ask(c, kind, ref)
    BY <1>2, CallAsks
  <2>2. kind \in Single!Adding \cup Single!Clearing \cup Single!Using
    BY DEF Single!Adding, Single!Clearing, Single!Using, Adding, Clearing, Using
  <2> QED BY <2>1, <2>2, Zenon DEF Single!Next
<1>3. ASSUME NEW c \in Calls, Post(c) PROVE Single!Next
  BY <1>3, PostTakes, Zenon DEF Single!Next
<1>4. ASSUME NEW w \in Workers, NEW c \in Calls,
             \/ Begin(w, c) \/ AddTo(w, c) \/ FailToAdd(w, c) \/ Use(w, c)
             \/ ClearKey(w, c) \/ ClearAll(w, c) \/ (w = First /\ (Add(c) \/ Export(c)))
      PROVE  [Single!Next]_Single!vars
  <2>1. Single!Answer(c) \/ UNCHANGED Single!vars
    BY <1>4, WorkerSteps, WorkAnswers
  <2> QED BY <2>1, Zenon DEF Single!Next
<1>5. ASSUME NEW w \in Workers, NEW c \in Calls, Release(w, c) PROVE Single!Next
  BY <1>5, ReleaseLoses, Zenon DEF Single!Next
<1> QED BY <1>1, <1>2, <1>3, <1>4, <1>5, FirstIsWorker, Zenon DEF Next

\* The pool behaves as one key store that takes its calls one at a time: what a
\* call finds is settled when it is posted, whatever the workers do thereafter.
THEOREM PoolIsOneKeyStore == Spec => ImplementsKeyStore
<1>1. Init => Single!Init
  BY SingleInit
<1>2. /\ PoolInv /\ UseInv /\ UseInv' /\ StoreInv /\ StoreInv' /\ [Next]_vars
      => [Single!Next]_Single!vars
  BY SingleStep
<1> QED BY <1>1, <1>2, Invariance, CallsInvariance, StoreInvariance, PTL
        DEF Spec, Single!Spec, ImplementsKeyStore
=============================================================================
