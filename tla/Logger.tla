------------------------------- MODULE Logger -------------------------------
(***************************************************************************)
(* PersistentLogger of @proton/logger in one or more tabs, over the        *)
(* IndexedDB database of a session (IndexedDBStorage), with the worker     *)
(* that reads the lines back (LogReader).                                  *)
(*                                                                         *)
(* A tab appends its writes to the promise `writes`, here a queue: what    *)
(* awaits that promise joins the queue too, for continuations of one       *)
(* promise run in the order in which they were attached.  destroy gives    *)
(* the logger a new queue, and the old one runs on: queues are numbered.   *)
(* A line is the number of its emission.  A session stands for its key,    *)
(* its encryption context and its database.  A call of the storage is one  *)
(* step, opening included, and may fail.                                   *)
(***************************************************************************)
EXTENDS Integers, Sequences, FiniteSets, SequencesExt

CONSTANTS Tabs, Sessions, Calls,
          Ops,          \* the methods that calls may be of
          MaxLines, MaxTime, \* bounds: lines, ticks and firings of timers
          MaxPending, MaxEntries, Retention,
          None

ASSUME NoneAssumption == None \notin Sessions \cup Calls
ASSUME CallsAssumption == IsFiniteSet(Calls)
ASSUME TabsAssumption == Tabs # {}
ASSUME OpsAssumption == Ops \subseteq {"flush", "getLogs", "clearLogs", "destroy"}
ASSUME LimitAssumption ==
    {MaxLines, MaxTime, MaxPending, MaxEntries, Retention} \subseteq Nat

VARIABLES
    clock,      \* the time
    lines,      \* the lines emitted: their tab, its queue and the time
    lg,         \* the fields of every tab's logger
    queue,      \* what waits in every tab's queues
    task,       \* the task that every queue is running
    db,         \* the entries of every session's database
    call,       \* the calls
    timers,     \* how often the timers have fired
    gone        \* history: lines dropped, failed, trimmed, cleared or misfiled

vars == <<clock, lines, lg, queue, task, db, call, timers, gone>>

Line == 1 .. MaxLines
Old == 0    \* an entry that was written under a key that is gone
Queue == 0 .. Cardinality(Calls)

Logger == [initialized : BOOLEAN, session : Sessions \cup {None},
           pending : Seq(Line), queue : Queue, read : Calls \cup {None},
           intervals : Nat, interval : BOOLEAN, sequence : Nat]
Written == [line : Line, sequence : Nat, key : Sessions]
Unreadable == [line |-> Old, sequence |-> 0, key |-> None]
Entry == Written \cup {Unreadable}
Item == [kind : {"persist"}, line : Line] \cup [kind : {"cleanup"}]
            \cup [kind : {"resume"}, call : Calls]
Idle == [step |-> "idle"]
Task == {Idle}
            \cup [step : {"encrypt"}, line : Line, key : Sessions]
            \cup [step : {"store"}, entry : Written, to : Sessions]
            \cup [step : {"expire"}, before : Int, to : Sessions]
            \cup [step : {"count"}, to : Sessions]
            \cup [step : {"trim"}, count : Nat, to : Sessions]
Call == [op : Ops \cup {"none"}, tab : Tabs, of : Calls \cup {None},
         step : {"none", "wait", "join", "read", "wipe", "settle",
                 "clear", "close", "done"},
         session : Sessions \cup {None}, \* whose database it acts on
         queue : Queue,                  \* the one it awaits
         result : SUBSET (Line \cup {Old}),
         ok : BOOLEAN,         \* it did not fail, and its logger was still there
         before : SUBSET Line] \* history: its queue's lines when called

Init ==
    /\ clock = 0 /\ lines = <<>> /\ timers = 0 /\ gone = {}
    /\ lg = [t \in Tabs |->
               [initialized |-> FALSE, session |-> None, pending |-> <<>>,
                queue |-> 0, read |-> None, intervals |-> 0, interval |-> FALSE,
                sequence |-> 0]]
    /\ queue = [t \in Tabs |-> [q \in Queue |-> <<>>]]
    /\ task = [t \in Tabs |-> [q \in Queue |-> Idle]]
    /\ db \in [Sessions -> SUBSET {Unreadable}]
    /\ call = [c \in Calls |->
                 [op |-> "none", tab |-> CHOOSE t \in Tabs : TRUE, of |-> None,
                  step |-> "none", session |-> None, queue |-> 0, result |-> {},
                  ok |-> FALSE, before |-> {}]]

-----------------------------------------------------------------------------
(* The write queue.                                                        *)

Persist(line) == [kind |-> "persist", line |-> line]
Cleanup == [kind |-> "cleanup"]
Resume(c) == [kind |-> "resume", call |-> c]

Enqueue(t, items) ==
    queue' = [queue EXCEPT ![t][lg[t].queue] = @ \o items]

\* Past MAX_PENDING_LOGS, the oldest buffered line is dropped.
Keep(pending) == IF Len(pending) > MaxPending THEN Tail(pending) ELSE pending

Emit(t) ==
    /\ Len(lines) < MaxLines
    /\ lines' = Append(lines, [tab |-> t, queue |-> lg[t].queue, ts |-> clock])
    /\ IF lg[t].initialized
       THEN Enqueue(t, <<Persist(Len(lines'))>>) /\ UNCHANGED <<lg, gone>>
       ELSE LET all == Append(lg[t].pending, Len(lines'))
            IN  /\ lg' = [lg EXCEPT ![t].pending = Keep(all)]
                /\ gone' = gone \cup (ToSet(all) \ ToSet(Keep(all)))
                /\ UNCHANGED queue
    /\ UNCHANGED <<clock, task, db, call, timers>>

\* The buffered lines are written first, then a cleanup runs.
Initialize(t, s) ==
    /\ ~lg[t].initialized
    /\ lg' = [lg EXCEPT ![t].initialized = TRUE, ![t].session = s,
                        ![t].pending = <<>>, ![t].interval = TRUE,
                        ![t].intervals = @ + 1]
    /\ Enqueue(t, [i \in 1 .. Len(lg[t].pending) |-> Persist(lg[t].pending[i])]
                      \o <<Cleanup>>)
    /\ UNCHANGED <<clock, lines, task, db, call, timers, gone>>

CleanupTimer(t) ==
    /\ lg[t].intervals > 0 /\ clock + timers < MaxTime
    /\ timers' = timers + 1
    /\ Enqueue(t, <<Cleanup>>)
    /\ UNCHANGED <<clock, lines, lg, task, db, call, gone>>

\* The item at the head of a queue whose task has ended.
AtHead(t, q, kind) ==
    /\ task[t][q] = Idle /\ queue[t][q] # <<>>
    /\ Head(queue[t][q]).kind = kind

Pop(t, q) == queue' = [queue EXCEPT ![t][q] = Tail(@)]
Run(t, q, step) == task' = [task EXCEPT ![t][q] = step]

\* Without a storage, the task ends at once.
BeginPersist(t, q) ==
    /\ AtHead(t, q, "persist") /\ Pop(t, q)
    /\ LET line == Head(queue[t][q]).line
       IN  IF lg[t].session = None
           THEN gone' = gone \cup {line} /\ UNCHANGED task
           ELSE /\ Run(t, q, [step |-> "encrypt", line |-> line,
                              key |-> lg[t].session])
                /\ UNCHANGED gone
    /\ UNCHANGED <<clock, lines, lg, db, call, timers>>

\* Variant: entries of one time are not numbered.
EncryptedUnnumbered(t, q) ==
    /\ task[t][q].step = "encrypt"
    /\ LET k == task[t][q] IN
         /\ IF lg[t].session = None
            THEN Run(t, q, Idle) /\ gone' = gone \cup {k.line}
            ELSE /\ Run(t, q, [step |-> "store", to |-> lg[t].session,
                               entry |-> [line |-> k.line, key |-> k.key,
                                          sequence |-> lg[t].sequence]])
                 /\ UNCHANGED gone
    /\ UNCHANGED <<clock, lines, lg, queue, db, call, timers>>

\* What encryption awaited may have changed the storage.
Encrypted(t, q) ==
    /\ task[t][q].step = "encrypt"
    /\ LET k == task[t][q] IN
         /\ lg' = [lg EXCEPT ![t].sequence = @ + 1]
         /\ IF lg[t].session = None
            THEN Run(t, q, Idle) /\ gone' = gone \cup {k.line}
            ELSE /\ Run(t, q, [step |-> "store", to |-> lg[t].session,
                               entry |-> [line |-> k.line, key |-> k.key,
                                          sequence |-> lg[t].sequence]])
                 /\ UNCHANGED gone
    /\ UNCHANGED <<clock, lines, queue, db, call, timers>>

Store(t, q) ==
    /\ task[t][q].step = "store" /\ Run(t, q, Idle)
    /\ LET k == task[t][q] IN
         /\ db' = [db EXCEPT ![k.to] = @ \cup {k.entry}]
         /\ gone' = IF k.entry.key = k.to THEN gone ELSE gone \cup {k.entry.line}
    /\ UNCHANGED <<clock, lines, lg, queue, call, timers>>

\* Cleanup is not tied to the storage it began with.
Then(t, q, step) == Run(t, q, IF lg[t].session = None THEN Idle ELSE step)

BeginCleanup(t, q) ==
    /\ AtHead(t, q, "cleanup") /\ Pop(t, q)
    /\ Then(t, q, [step |-> "expire", before |-> clock - Retention,
                   to |-> lg[t].session])
    /\ UNCHANGED <<clock, lines, lg, db, call, timers, gone>>

Stamp(e) == IF e.line = Old THEN 0 ELSE lines[e.line].ts
Older(d, e) ==
    Stamp(d) < Stamp(e) \/ (Stamp(d) = Stamp(e) /\ d.sequence < e.sequence)

Delete(s, entries) ==
    /\ db' = [db EXCEPT ![s] = @ \ entries]
    /\ gone' = gone \cup ({e.line : e \in entries} \ {Old})

Expire(t, q) ==
    /\ task[t][q].step = "expire"
    /\ LET k == task[t][q]
       IN  Delete(k.to, {e \in db[k.to] : Stamp(e) <= k.before})
    /\ Then(t, q, [step |-> "count", to |-> lg[t].session])
    /\ UNCHANGED <<clock, lines, lg, queue, call, timers>>

Excess(n) == IF n > MaxEntries THEN n - MaxEntries ELSE 0

Count(t, q) ==
    /\ task[t][q].step = "count"
    /\ LET n == Cardinality(db[task[t][q].to])
       IN  IF n <= MaxEntries THEN Run(t, q, Idle)
           ELSE Then(t, q, [step |-> "trim", to |-> lg[t].session,
                            count |-> Excess(n)])
    /\ UNCHANGED <<clock, lines, lg, queue, db, call, timers, gone>>

\* The oldest entries go; entries of one time and sequence in any order.
Trim(t, q) ==
    /\ task[t][q].step = "trim" /\ Run(t, q, Idle)
    /\ LET k == task[t][q] IN
         \E old \in SUBSET db[k.to] :
           /\ \/ Cardinality(old) = k.count
              \/ Cardinality(old) < k.count /\ old = db[k.to]
           /\ \A d \in db[k.to] \ old, e \in old : ~Older(d, e)
           /\ Delete(k.to, old)
    /\ UNCHANGED <<clock, lines, lg, queue, call, timers>>

\* Variant: a failure is not caught, and the queue is not run any further.
FailUncaught(t, q) ==
    /\ task[t][q].step \in {"store", "expire", "count", "trim"}
    /\ gone' = IF task[t][q].step = "store"
               THEN gone \cup {task[t][q].entry.line} ELSE gone
    /\ Run(t, q, Idle)
    /\ queue' = [queue EXCEPT ![t][q] = <<>>]
    /\ UNCHANGED <<clock, lines, lg, db, call, timers>>

\* A failure ends the task; the queue runs on.
Fail(t, q) ==
    /\ task[t][q].step \in {"store", "expire", "count", "trim"}
    /\ gone' = IF task[t][q].step = "store"
               THEN gone \cup {task[t][q].entry.line} ELSE gone
    /\ Run(t, q, Idle)
    /\ UNCHANGED <<clock, lines, lg, queue, db, call, timers>>

-----------------------------------------------------------------------------
(* flush, getLogs, clearLogs and destroy.                                  *)

New(t, op) ==
    [op |-> op, tab |-> t, of |-> None, step |-> "done", session |-> None,
     queue |-> lg[t].queue, result |-> {}, ok |-> FALSE,
     before |-> {i \in 1 .. Len(lines) :
                   lines[i].tab = t /\ lines[i].queue = lg[t].queue}
                 \ ToSet(lg[t].pending)]

Unused(c) == call[c].op = "none"
Await(c, t, r) ==
    /\ call' = [call EXCEPT ![c] = [r EXCEPT !.step = "wait"]]
    /\ Enqueue(t, <<Resume(c)>>)
Done(c, r) == call' = [call EXCEPT ![c] = r] /\ UNCHANGED queue

Flush(c, t) ==
    /\ Unused(c)
    /\ Await(c, t, New(t, "flush"))
    /\ UNCHANGED <<clock, lines, lg, task, db, timers, gone>>

\* Variant: the writes are not awaited by a read.
GetLogsAtOnce(c, t) ==
    /\ Unused(c)
    /\ LET r == New(t, "getLogs")
           read == lg[t].read
       IN  \/ /\ ~lg[t].initialized
              /\ Done(c, r) /\ UNCHANGED lg
           \/ /\ lg[t].initialized /\ read # None
              /\ Done(c, [r EXCEPT !.step = "join", !.of = read]) /\ UNCHANGED lg
           \/ /\ lg[t].initialized /\ read = None
              /\ Done(c, [r EXCEPT !.of = c, !.step = "read", !.ok = TRUE,
                                 !.session = lg[t].session])
              /\ lg' = [lg EXCEPT ![t].read = c]
    /\ UNCHANGED <<clock, lines, task, db, timers, gone>>

\* A read that is under way is joined.
GetLogs(c, t) ==
    /\ Unused(c)
    /\ LET r == New(t, "getLogs")
           read == lg[t].read
       IN  \/ /\ ~lg[t].initialized
              /\ Done(c, r) /\ UNCHANGED lg
           \/ /\ lg[t].initialized /\ read # None
              /\ Done(c, [r EXCEPT !.step = "join", !.of = read]) /\ UNCHANGED lg
           \/ /\ lg[t].initialized /\ read = None
              /\ Await(c, t, [r EXCEPT !.of = c])
              /\ lg' = [lg EXCEPT ![t].read = c]
    /\ UNCHANGED <<clock, lines, task, db, timers, gone>>

ClearLogs(c, t) ==
    /\ Unused(c)
    /\ LET r == New(t, "clearLogs")
       IN  IF lg[t].session = None THEN Done(c, r) ELSE Await(c, t, r)
    /\ UNCHANGED <<clock, lines, lg, task, db, timers, gone>>

Destroy(c, t) ==
    /\ Unused(c)
    /\ Await(c, t, New(t, "destroy"))
    /\ lg' = [lg EXCEPT ![t].interval = FALSE,
                        ![t].intervals = IF lg[t].interval THEN @ - 1 ELSE @]
    /\ UNCHANGED <<clock, lines, task, db, timers, gone>>

\* The writes are done: the call goes on with the logger as it is now, and a read
\* or a clear that finds none comes to nothing.
Resumed(t, q) ==
    /\ AtHead(t, q, "resume") /\ Pop(t, q)
    /\ LET c == Head(queue[t][q]).call
           stopped == lg[t].session = None
           step == [flush |-> "done", destroy |-> "close",
                    getLogs |-> IF stopped THEN "settle" ELSE "read",
                    clearLogs |-> IF stopped THEN "done" ELSE "clear"][call[c].op]
       IN  call' = [call EXCEPT ![c] =
             [@ EXCEPT !.step = step, !.session = lg[t].session,
                       !.ok = ~stopped /\ lg[t].queue = q]]
    /\ UNCHANGED <<clock, lines, lg, task, db, timers, gone>>

\* The worker has the entries: all are decrypted, or none is returned.
Retrieve(c) ==
    /\ call[c].step = "read"
    /\ LET s == call[c].session
           readable == \A e \in db[s] : e.key = s
       IN  call' = [call EXCEPT ![c] = IF readable
             THEN [@ EXCEPT !.step = "settle", !.result = {e.line : e \in db[s]}]
             ELSE [@ EXCEPT !.step = "wipe", !.ok = FALSE]]
    /\ UNCHANGED <<clock, lines, lg, queue, task, db, timers, gone>>

\* A database with an entry that cannot be decrypted is cleared.
Wipe(c) ==
    /\ call[c].step = "wipe"
    /\ Delete(call[c].session, db[call[c].session])
    /\ call' = [call EXCEPT ![c].step = "settle"]
    /\ UNCHANGED <<clock, lines, lg, queue, task, timers>>

FailRead(c) ==
    /\ call[c].step \in {"read", "wipe"}
    /\ call' = [call EXCEPT ![c].step = "settle", ![c].ok = FALSE]
    /\ UNCHANGED <<clock, lines, lg, queue, task, db, timers, gone>>

\* A read's end answers whoever joined it, and forgets whatever read is known.
Settle(c) ==
    /\ call[c].step = "settle"
    /\ call' = [d \in Calls |->
          IF d # c /\ ~(call[d].step = "join" /\ call[d].of = c) THEN call[d]
          ELSE [call[d] EXCEPT !.step = "done", !.result = call[c].result,
                               !.ok = call[c].ok]]
    /\ lg' = [lg EXCEPT ![call[c].tab].read = None]
    /\ UNCHANGED <<clock, lines, queue, task, db, timers, gone>>

Clear(c) ==
    /\ call[c].step = "clear"
    /\ Delete(call[c].session, db[call[c].session])
    /\ call' = [call EXCEPT ![c].step = "done"]
    /\ UNCHANGED <<clock, lines, lg, queue, task, timers>>

FailClear(c) ==
    /\ call[c].step = "clear"
    /\ call' = [call EXCEPT ![c].step = "done", ![c].ok = FALSE]
    /\ UNCHANGED <<clock, lines, lg, queue, task, db, timers, gone>>

\* The connection is closed: the logger is as new, its old queue runs on.
Closed(c) ==
    /\ call[c].step = "close"
    /\ call' = [call EXCEPT ![c].step = "done"]
    /\ LET t == call[c].tab IN
         /\ lg' = [lg EXCEPT ![t].initialized = FALSE, ![t].session = None,
                             ![t].pending = <<>>, ![t].read = None,
                             ![t].queue = @ + 1]
         /\ gone' = gone \cup ToSet(lg[t].pending)
    /\ UNCHANGED <<clock, lines, queue, task, db, timers>>

-----------------------------------------------------------------------------
ClockTick ==
    /\ clock + timers < MaxTime /\ clock' = clock + 1
    /\ UNCHANGED <<lines, lg, queue, task, db, call, timers, gone>>

Steps(t, q) ==
    \/ BeginPersist(t, q) \/ Encrypted(t, q) \/ Store(t, q) \/ Fail(t, q)
    \/ BeginCleanup(t, q) \/ Expire(t, q) \/ Count(t, q) \/ Trim(t, q)
    \/ Resumed(t, q)

Invoke(c, t) ==
    \/ "flush" \in Ops /\ Flush(c, t)
    \/ "getLogs" \in Ops /\ GetLogs(c, t)
    \/ "clearLogs" \in Ops /\ ClearLogs(c, t)
    \/ "destroy" \in Ops /\ Destroy(c, t)

GoOn(c) ==
    \/ Retrieve(c) \/ Wipe(c) \/ FailRead(c) \/ Settle(c)
    \/ Clear(c) \/ FailClear(c) \/ Closed(c)

Next ==
    \/ ClockTick
    \/ \E t \in Tabs : \/ Emit(t) \/ CleanupTimer(t)
                       \/ \E s \in Sessions : Initialize(t, s)
                       \/ \E q \in Queue : Steps(t, q)
                       \/ \E c \in Calls : Invoke(c, t)
    \/ \E c \in Calls : GoOn(c)

Spec == Init /\ [][Next]_vars

-----------------------------------------------------------------------------
\* Every variable keeps its type.
TypeOK ==
    /\ clock \in 0 .. MaxTime /\ timers \in 0 .. MaxTime
    /\ lines \in Seq([tab : Tabs, queue : Queue, ts : 0 .. MaxTime])
    /\ Len(lines) <= MaxLines
    /\ lg \in [Tabs -> Logger]
    /\ \A t \in Tabs : Len(lg[t].pending) <= MaxPending
    /\ queue \in [Tabs -> [Queue -> Seq(Item)]]
    /\ task \in [Tabs -> [Queue -> Task]]
    /\ db \in [Sessions -> SUBSET Entry]
    /\ call \in [Calls -> Call]
    /\ gone \subseteq Line

\* Lines read back in the order they were emitted: the keys of one tab's
\* entries increase with their lines, unless the logger was destroyed between.
LinesInOrder ==
    /\ TypeOK
    /\ \A s \in Sessions : \A d, e \in db[s] :
        /\ Old \notin {d.line, e.line} /\ d.line < e.line
        /\ lines[d.line].tab = lines[e.line].tab
        /\ lines[d.line].queue = lines[e.line].queue
        => Older(d, e)

\* A read that a call started sees every line emitted before the call, unless
\* it was dropped, trimmed or cleared.
ReadsSeeTheirPast ==
    \A c \in Calls : call[c].step = "done" /\ call[c].of = c /\ call[c].ok
        => call[c].before \subseteq call[c].result \cup gone

\* A flush returns once every line emitted before it was written, or failed;
\* one that waits for initialize is not waited for.
FlushedIsWritten ==
    \A c \in Calls : call[c].step = "done" /\ call[c].op = "flush"
        => \A l \in call[c].before :
              l \in gone \cup UNION {{e.line : e \in db[s]} : s \in Sessions}

\* What was emitted before a clearLogs is not stored after it.
ClearedStaysCleared ==
    \A c \in Calls : call[c].step = "done" /\ call[c].op = "clearLogs" /\ call[c].ok
        => \A e \in db[call[c].session] : e.line \notin call[c].before

\* What a call was answered holds of the lines emitted before it, whatever else was
\* under way: they are in what was read, written once flushed, gone once cleared.
\* (enqueue, and how getLogs, flush and clearLogs wait for it.)
AnswersHold == ReadsSeeTheirPast /\ FlushedIsWritten /\ ClearedStaysCleared

\* A database's lines were written under its session's key.
EntriesAreReadable ==
    \A s \in Sessions : \A e \in db[s] : e.line # Old => e.key = s

\* Nothing is forgotten, whatever fails before it: once no write, clean-up or
\* storage call is under way, every call was answered, and every line is stored,
\* gone, or buffered until initialize.
NothingIsForgotten ==
    (/\ \A t \in Tabs, q \in Queue : queue[t][q] = <<>> /\ task[t][q] = Idle
     /\ \A c \in Calls : call[c].step \in {"none", "wait", "join", "done"})
    => /\ \A c \in Calls : call[c].step \in {"none", "done"}
       /\ 1 .. Len(lines) \subseteq gone
            \cup (UNION {{e.line : e \in db[s]} : s \in Sessions})
            \cup (UNION {ToSet(lg[t].pending) : t \in Tabs})
=============================================================================
