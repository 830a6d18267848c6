----------------------------- MODULE WorkerPool -----------------------------
(***************************************************************************)
(* getWorkerPool.ts of @protontech/crypto over the key stores of its       *)
(* workers (KeyStore and KeyManagementApi in api.ts).  A key is added by   *)
(* the first worker, which picks its index, and then by all the others     *)
(* under that index; other calls go to the next worker in turn, or to all. *)
(*                                                                         *)
(* A worker takes its messages in the order they were posted, but adds a   *)
(* key only some time after the message arrived, when it was decrypted or  *)
(* generated.  Its answer is taken in as it is given.  A key is named by   *)
(* the call that adds it.                                                  *)
(***************************************************************************)
EXTENDS Naturals, Sequences, FiniteSets

CONSTANTS Calls,     \* the calls of the pool, each made once
          PoolSize,
          Starts,    \* the random values index counters start from
          None

ASSUME PoolSizeAssumption == PoolSize \in Nat \ {0}
ASSUME NoneAssumption == None \notin Calls \cup Nat
ASSUME CallsAssumption == IsFiniteSet(Calls)
\* Counters that were started apart do not meet.
ASSUME StartsAssumption ==
    /\ Starts \subseteq Nat
    /\ \A s, r \in Starts : s < r => s + Cardinality(Calls) < r

Workers == 1 .. PoolSize
First == 1

VARIABLES
    pool,      \* workerPoolPromise
    i,         \* the worker that was picked last
    call,      \* each call's progress
    inbox,     \* the messages on their way to each worker
    running,   \* the keys each worker is decrypting or generating
    store,     \* each worker's key store
    nextIdx,   \* the first worker's counter, no other worker's is ever used
    drawn,     \* history: the starting values that were used
    released,  \* the workers whose proxies destroy released
    cleared,   \* history: the keys that existed when a clearing call was posted
    gone       \* history: the keys no call that is posted from now on finds

vars == <<pool, i, call, inbox, running, store, nextIdx, drawn, released, cleared, gone>>
workers == <<inbox, running, store, nextIdx>>

Adding == {"import", "generate", "derive"}
Clearing == {"clearKey", "clearKeyStore", "destroy"}
Using == {"use", "useAll"}
Referring == Using \cup {"derive", "clearKey"}

CallRecord ==
    [kind   : {"none"} \cup Adding \cup Clearing \cup Using,
     ref    : Calls \cup {None},     \* the key the call refers to
     stage  : {"idle", "called", "first", "export", "rest", "once"},
     idx    : Nat \cup {None},       \* the index the key was given
     todo   : SUBSET Workers,        \* the workers whose answer is awaited
     late   : BOOLEAN,               \* history: the key was cleared before
     barred : BOOLEAN,               \* history: it was too late for the call
     seen   : SUBSET Calls,          \* history: the keys a clearing call met
     result : {"none", "ok", "fail", "lost"}]

Idle == [kind |-> "none", ref |-> None, stage |-> "idle", idx |-> None,
         todo |-> {}, late |-> FALSE, barred |-> FALSE, seen |-> {},
         result |-> "none"]

Pending(c) == call[c].stage # "idle" /\ call[c].result = "none"
Begun(c) == call[c].kind \in Adding /\ call[c].stage \notin {"idle", "called"}
HandedOut(c) == call[c].kind \in Adding /\ call[c].result = "ok"

\* A call to destroy the pool was posted and is not done.
Closing ==
    \E d \in Calls :
        call[d].kind = "destroy" /\ call[d].stage = "once" /\ call[d].result = "none"

Init ==
    /\ pool = "null" /\ i = PoolSize
    /\ call = [c \in Calls |-> Idle]
    /\ inbox = [w \in Workers |-> <<>>]
    /\ running = [w \in Workers |-> {}]
    /\ store = [w \in Workers |-> {}]
    /\ nextIdx = 0 /\ drawn = {}
    /\ released = {} /\ cleared = {} /\ gone = {}

-----------------------------------------------------------------------------
(* The pool.                                                               *)

InitPool ==
    /\ pool = "null"
    /\ pool' = "loading"
    /\ UNCHANGED <<i, call, workers, drawn, released, cleared, gone>>

\* New workers with empty key stores, and a counter that starts anywhere.
Load ==
    /\ pool = "loading"
    /\ pool' = "ready"
    /\ \E s \in Starts \ drawn : nextIdx' = s /\ drawn' = drawn \cup {s}
    /\ store' = [w \in Workers |-> {}]
    /\ UNCHANGED <<i, call, inbox, running, released, cleared, gone>>

\* A worker that could not be loaded fails the pool, for good.
FailLoad ==
    /\ pool = "loading"
    /\ pool' = "failed"
    /\ UNCHANGED <<i, call, workers, drawn, released, cleared, gone>>

-----------------------------------------------------------------------------
(* Calls.                                                                  *)

\* Calls refer to keys that were handed out.
Call(c, kind, ref) ==
    /\ call[c].stage = "idle"
    /\ IF kind \in Referring THEN ref # None /\ HandedOut(ref) ELSE ref = None
    /\ call' = [call EXCEPT ![c] =
          LET r == [Idle EXCEPT !.kind = kind, !.ref = ref, !.stage = "called"]
          IN  IF pool # "null" THEN r
              ELSE [r EXCEPT !.late = TRUE,
                     !.result = IF kind = "destroy" THEN "ok" ELSE "fail"]]
    /\ UNCHANGED <<pool, i, workers, drawn, released, cleared, gone>>

Posted(box, c, ws) ==
    [w \in Workers |-> IF w \in ws \ released THEN Append(box[w], c) ELSE box[w]]

\* getWorker picks the workers in turn.
NextWorker == (i % PoolSize) + 1

\* Variant: only one worker's key store is cleared.
TargetsOneStore(kind) ==
    IF kind \in Adding \cup {"clearKeyStore"} THEN {First}
    ELSE IF kind = "use" THEN {NextWorker} ELSE Workers

Targets(kind) ==
    IF kind \in Adding THEN {First}
    ELSE IF kind = "use" THEN {NextWorker} ELSE Workers

\* The pool is there, or failed; a released worker refuses the message.
Post(c) ==
    LET r  == call[c]
        ws == Targets(r.kind)
        refused == pool = "failed" \/ ws \cap released # {}
    IN  /\ r.stage = "called" /\ r.result = "none"
        /\ pool \in {"ready", "failed"}
        /\ call' = [call EXCEPT ![c] =
              [r EXCEPT
                 !.stage = IF r.kind \in Adding THEN "first" ELSE "once",
                 !.todo = IF refused THEN {} ELSE ws,
                 !.late = refused \/ r.ref \in cleared,
                 !.barred = refused \/ Closing \/ r.ref \in gone,
                 !.seen = CASE r.kind = "clearKey" -> {r.ref}
                            [] r.kind = "clearKeyStore" -> {d \in Calls : HandedOut(d)}
                            [] OTHER -> {},
                 !.result = IF refused THEN "fail" ELSE "none"]]
        /\ inbox' = IF pool = "failed" THEN inbox ELSE Posted(inbox, c, ws)
        /\ i' = IF r.kind = "use" /\ pool # "failed" THEN NextWorker ELSE i
        /\ IF pool = "failed" THEN UNCHANGED <<cleared, gone>>
           ELSE /\ cleared' = CASE r.kind = "clearKey" -> cleared \cup {r.ref}
                                [] r.kind \in {"clearKeyStore", "destroy"} ->
                                      cleared \cup {d \in Calls : Begun(d)}
                                [] OTHER -> cleared
                /\ gone' = CASE r.kind = "clearKey" -> gone \cup {r.ref}
                             [] r.kind = "clearKeyStore" ->
                                   gone \cup {d \in Calls : HandedOut(d)}
                             [] r.kind = "destroy" -> gone \cup {d \in Calls : Begun(d)}
                             [] OTHER -> gone
        /\ UNCHANGED <<pool, running, store, nextIdx, drawn, released>>

-----------------------------------------------------------------------------
(* Answers, as the pool takes them in.                                     *)

Fail(r) == IF r.result = "none" THEN [r EXCEPT !.result = "fail"] ELSE r

\* Promise.all: a call is done with the last answer.
Answered(r, w) ==
    LET todo == r.todo \ {w}
    IN  [r EXCEPT !.todo = todo,
           !.result = IF todo = {} /\ @ = "none" THEN "ok" ELSE @]

\* The key has its index; a generated one is exported from the first worker,
\* and then the other workers import it.
Added(r, idx) ==
    [r EXCEPT !.idx = idx, !.stage = IF r.kind = "import" THEN "rest" ELSE "export",
              !.todo = IF r.kind = "import" THEN Workers \ {First} ELSE {First}]

Exported(r) == [r EXCEPT !.stage = "rest", !.todo = Workers \ {First}]

\* Variant: the reference is returned before the other workers have the key.
ContinueAtOnce(c, r, box) ==
    /\ call' = [call EXCEPT ![c] =
          IF r.stage = "rest" THEN [r EXCEPT !.result = "ok"] ELSE r]
    /\ inbox' = Posted(box, c, r.todo)

\* The call goes on with r, and posts it to the workers it still needs.
Continue(c, r, box) ==
    /\ call' = [call EXCEPT ![c] =
          IF r.todo = {} THEN [r EXCEPT !.result = "ok"]
          ELSE IF r.todo \cap released # {} THEN Fail(r) ELSE r]
    /\ inbox' = Posted(box, c, r.todo)

-----------------------------------------------------------------------------
(* Workers.                                                                *)

Has(w, ref) == \E e \in store[w] : e.idx = call[ref].idx

\* The message c at the head of the inbox, and what is left in it.
AtHead(w, c) == inbox[w] # <<>> /\ Head(inbox[w]) = c
Rest(w) == [inbox EXCEPT ![w] = Tail(@)]

\* A key to be added is decrypted or generated first; to derive a key from one
\* that is not there fails.
Begin(w, c) ==
    /\ AtHead(w, c) /\ call[c].stage \in {"first", "rest"}
    /\ inbox' = Rest(w)
    /\ IF call[c].stage = "first" /\ call[c].kind = "derive" /\ ~Has(w, call[c].ref)
       THEN call' = [call EXCEPT ![c] = Fail(@)] /\ UNCHANGED running
       ELSE running' = [running EXCEPT ![w] = @ \cup {c}] /\ UNCHANGED call
    /\ UNCHANGED <<pool, i, store, nextIdx, drawn, released, cleared, gone>>

\* Variant: the counter stays as it is.
AddSameIdx(c) ==
    /\ call[c].stage = "first"
    /\ c \in running[First]
    /\ running' = [running EXCEPT ![First] = @ \ {c}]
    /\ ~\E e \in store[First] : e.idx = nextIdx
    /\ store' = [store EXCEPT ![First] = @ \cup {[idx |-> nextIdx, key |-> c]}]
    /\ Continue(c, Added(call[c], nextIdx), inbox)
    /\ UNCHANGED <<pool, i, nextIdx, drawn, released, cleared, gone>>

\* The first worker adds the key under an index of its own.
Add(c) ==
    /\ call[c].stage = "first"
    /\ c \in running[First]
    /\ running' = [running EXCEPT ![First] = @ \ {c}]
    /\ ~\E e \in store[First] : e.idx = nextIdx
    /\ store' = [store EXCEPT ![First] = @ \cup {[idx |-> nextIdx, key |-> c]}]
    /\ nextIdx' = nextIdx + 1
    /\ Continue(c, Added(call[c], nextIdx), inbox)
    /\ UNCHANGED <<pool, i, drawn, released, cleared, gone>>

\* Another worker adds it under the index it is given.
AddTo(w, c) ==
    /\ call[c].stage = "rest"
    /\ c \in running[w]
    /\ running' = [running EXCEPT ![w] = @ \ {c}]
    /\ IF \E e \in store[w] : e.idx = call[c].idx
       THEN call' = [call EXCEPT ![c] = Fail(@)] /\ UNCHANGED store
       ELSE /\ store' = [store EXCEPT ![w] = @ \cup {[idx |-> call[c].idx, key |-> c]}]
            /\ call' = [call EXCEPT ![c] = Answered(@, w)]
    /\ UNCHANGED <<pool, i, inbox, nextIdx, drawn, released, cleared, gone>>

\* The key cannot be read, decrypted or generated.
FailToAdd(w, c) ==
    /\ c \in running[w]
    /\ running' = [running EXCEPT ![w] = @ \ {c}]
    /\ call' = [call EXCEPT ![c] = Fail(@)]
    /\ UNCHANGED <<pool, i, inbox, store, nextIdx, drawn, released, cleared, gone>>

Export(c) ==
    /\ AtHead(First, c) /\ call[c].stage = "export"
    /\ IF Has(First, c) THEN Continue(c, Exported(call[c]), Rest(First))
       ELSE call' = [call EXCEPT ![c] = Fail(@)] /\ inbox' = Rest(First)
    /\ UNCHANGED <<pool, i, running, store, nextIdx, drawn, released, cleared, gone>>

Use(w, c) ==
    /\ AtHead(w, c) /\ call[c].kind \in Using
    /\ inbox' = Rest(w)
    /\ call' = [call EXCEPT ![c] =
                  IF Has(w, call[c].ref) THEN Answered(@, w) ELSE Fail(@)]
    /\ UNCHANGED <<pool, i, running, store, nextIdx, drawn, released, cleared, gone>>

ClearKey(w, c) ==
    /\ AtHead(w, c) /\ call[c].kind = "clearKey"
    /\ inbox' = Rest(w)
    /\ store' = [store EXCEPT ![w] = {e \in @ : e.idx # call[call[c].ref].idx}]
    /\ call' = [call EXCEPT ![c] =
                  IF Has(w, call[c].ref) THEN Answered(@, w) ELSE Fail(@)]
    /\ UNCHANGED <<pool, i, running, nextIdx, drawn, released, cleared, gone>>

ClearAll(w, c) ==
    /\ AtHead(w, c) /\ call[c].kind = "clearKeyStore"
    /\ inbox' = Rest(w)
    /\ store' = [store EXCEPT ![w] = {}]
    /\ call' = [call EXCEPT ![c] = Answered(@, w)]
    /\ UNCHANGED <<pool, i, running, nextIdx, drawn, released, cleared, gone>>

\* destroyWorker: once its store is cleared, the worker's proxy is released,
\* and the calls that wait for the worker are never answered.  With the last
\* worker, the pool is gone; a call that was not posted meets no worker.
Release(w, c) ==
    LET r == Answered(call[c], w)
        last == r.result = "ok"
    IN  /\ AtHead(w, c) /\ call[c].kind = "destroy"
        /\ pool' = IF last THEN "null" ELSE pool
        /\ released' = IF last THEN {} ELSE released \cup {w}
        /\ call' = [d \in Calls |->
              IF d = c THEN r
              ELSE IF Pending(d) /\ w \in call[d].todo
              THEN [call[d] EXCEPT !.result = "lost"]
              ELSE IF last /\ Pending(d) /\ call[d].stage = "called"
              THEN [call[d] EXCEPT !.result = "fail", !.late = TRUE]
              ELSE call[d]]
        /\ inbox' = [v \in Workers |-> IF last \/ v = w THEN <<>> ELSE inbox[v]]
        /\ running' = [v \in Workers |-> IF last \/ v = w THEN {} ELSE running[v]]
        /\ store' = [store EXCEPT ![w] = {}]
        /\ UNCHANGED <<i, nextIdx, drawn, cleared, gone>>

Next ==
    \/ InitPool \/ Load \/ FailLoad
    \/ \E c \in Calls :
        \/ \E kind \in Adding \cup Clearing \cup Using, ref \in Calls \cup {None} :
              Call(c, kind, ref)
        \/ Post(c) \/ Add(c) \/ Export(c)
        \/ \E w \in Workers :
              \/ Begin(w, c) \/ AddTo(w, c) \/ FailToAdd(w, c) \/ Use(w, c)
              \/ ClearKey(w, c) \/ ClearAll(w, c) \/ Release(w, c)

Spec == Init /\ [][Next]_vars

-----------------------------------------------------------------------------
\* Every variable keeps its type, and a worker is picked that exists.
TypeOK ==
    /\ pool \in {"null", "loading", "ready", "failed"}
    /\ i \in Workers
    /\ call \in [Calls -> CallRecord]
    /\ inbox \in [Workers -> Seq(Calls)]
    /\ running \in [Workers -> SUBSET Calls]
    /\ store \in [Workers -> SUBSET [idx : Nat, key : Calls]]
    /\ nextIdx \in Nat
    /\ drawn \subseteq Starts
    /\ released \subseteq Workers
    /\ cleared \subseteq Calls
    /\ gone \subseteq Calls

\* An index belongs to one key, in all workers and at all times: a reference,
\* stale or not, never leads to another key, even in a pool started again.
IndexNamesOneKey ==
    /\ TypeOK
    /\ \A w \in Workers : \A e \in store[w] : e.idx = call[e.key].idx
    /\ \A c, d \in Calls : call[c].idx # None /\ call[c].idx = call[d].idx => c = d

\* A call that uses or clears a key finds it, even if the key is cleared by a
\* call posted later, in whatever order the workers get to them.
UsesSucceed ==
    \A c \in Calls : call[c].kind \notin Adding /\ call[c].result = "fail" => call[c].late

\* Once a clearing call has returned, the keys it met are in no worker.
ClearedIsGone ==
    \A c \in Calls :
        call[c].kind \in Clearing /\ call[c].result = "ok" =>
            \A w \in Workers : \A e \in store[w] : e.key \notin call[c].seen

-----------------------------------------------------------------------------
(* The key store that the pool stands for.                                 *)

Standing == IF pool # "ready" THEN "shut" ELSE IF Closing THEN "closing" ELSE "open"

Certain == {k \in Calls : HandedOut(k) /\ k \notin cleared}

Doubtful ==
    {k \in cleared \ gone :
        Begun(k) /\ ~call[k].barred /\ call[k].result \in {"none", "ok"}}

StageOf(r) ==
    CASE r.stage = "idle" -> "idle" [] r.stage = "called" -> "asked" [] OTHER -> "taken"

\* What was settled of a call when it was posted.
FateOf(r) ==
    IF StageOf(r) # "taken" THEN "none"
    ELSE IF r.barred THEN "barred" ELSE IF r.late THEN "unsure" ELSE "sure"

Shown(r) ==
    [kind |-> r.kind, ref |-> r.ref, stage |-> StageOf(r), fate |-> FateOf(r),
     result |-> r.result]

Progress == [c \in Calls |-> Shown(call[c])]

Single == INSTANCE KeyStore WITH
    state <- Standing, keys <- Certain, doubtful <- Doubtful, call <- Progress

\* The workers together are one key store, to which the calls go in the order
\* in which they are posted: no call that fails, or succeeds, in any worker
\* shows that there are several.
ImplementsKeyStore == Single!Spec
=============================================================================
