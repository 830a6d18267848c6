---------------------------- MODULE Logger_proofs ----------------------------
(***************************************************************************)
(* Of the logger, for any tabs, sessions and calls, however its queues,    *)
(* timers, reads, clears and destroys interleave and whatever fails: lines *)
(* are read back in the order they were emitted, calls are answered what   *)
(* they promise, and neither a line nor a call is forgotten.               *)
(***************************************************************************)
EXTENDS Logger, FiniteSetTheorems, SequenceTheorems, TLAPS

-----------------------------------------------------------------------------
(* Where a line is: buffered, then queued, then in hand, then stored.      *)

\* What a sequence holds, and in which order, whatever the positions.
In(s, x) == \E n \in 1 .. Len(s) : s[n] = x
Precedes(s, x, y) ==
    \E n \in 1 .. Len(s) : \E m \in 1 .. Len(s) : n < m /\ s[n] = x /\ s[m] = y

Holds(k, l) == \/ k.step = "encrypt" /\ k.line = l
               \/ k.step = "store" /\ k.entry.line = l

Buffered(t, l) == In(lg[t].pending, l)
Queued(t, q, l) == In(queue[t][q], Persist(l))
InHand(t, q, l) == Holds(task[t][q], l)
Live(t, q, l) == Queued(t, q, l) \/ InHand(t, q, l)
StoredIn(s, l) == \E e \in db[s] : e.line = l

\* The line was emitted by that tab, for that queue.
Of(t, q, l) == l \in 1 .. Len(lines) /\ lines[l].tab = t /\ lines[l].queue = q

-----------------------------------------------------------------------------
(* The inductive invariant, in layers.                                     *)

\* The destroys a tab's logger has seen: each gives it a new queue.
Destroys(t) == {c \in Calls : /\ call[c].op = "destroy" /\ call[c].tab = t
                              /\ call[c].step = "done"}

\* A call goes through the steps of its kind.
StepOf(r) ==
    /\ r.op = "none" <=> r.step = "none"
    /\ r.step \in {"join", "read", "wipe", "settle"} => r.op = "getLogs"
    /\ r.step = "clear" => r.op = "clearLogs"
    /\ r.step = "close" => r.op = "destroy"
    /\ r.step = "read" => r.session # None
    /\ r.step = "wipe" => r.session # None
    /\ r.step = "clear" => r.session # None

\* Types; the fields of a logger agree; who waits for a queue is in it, once.
LoggerFits(t) ==
    /\ lg[t].initialized <=> lg[t].session # None
    /\ lg[t].initialized => lg[t].pending = <<>>
    /\ lg[t].interval => lg[t].intervals > 0
    /\ lg[t].queue <= Cardinality(Destroys(t))

WaitersFit ==
    \A t \in Tabs, q \in Queue, c \in Calls :
        /\ In(queue[t][q], Resume(c)) <=>
              call[c].step = "wait" /\ call[c].tab = t /\ call[c].queue = q
        /\ ~Precedes(queue[t][q], Resume(c), Resume(c))

Typed == /\ TypeOK
         /\ \A c \in Calls : StepOf(call[c])
         /\ \A t \in Tabs : LoggerFits(t)
         /\ WaitersFit

\* What is counted can be counted.
Finite == \A s \in Sessions : IsFiniteSet(db[s])

\* Lines are numbered in time, and are where their tab and queue say; a queue
\* that is to come is empty.
LinesFit ==
    /\ \A l, m \in 1 .. Len(lines) : l < m => lines[l].ts <= lines[m].ts
    /\ \A l \in 1 .. Len(lines) : /\ lines[l].ts <= clock
                                  /\ lines[l].queue <= lg[lines[l].tab].queue
    /\ \A t \in Tabs, l \in Line : Buffered(t, l) => Of(t, lg[t].queue, l)
    /\ \A t \in Tabs, q \in Queue, l \in Line : Live(t, q, l) => Of(t, q, l)
    /\ \A s \in Sessions, l \in Line : StoredIn(s, l) => l \in 1 .. Len(lines)

\* The lines of a queue move on in the order of their emission.
InOrder ==
    \A t \in Tabs, q \in Queue, l \in Line, m \in Line :
        /\ Precedes(lg[t].pending, l, m) => l < m
        /\ Precedes(queue[t][q], Persist(l), Persist(m)) => l < m
        /\ InHand(t, q, l) /\ Queued(t, q, m) => l < m
        /\ Live(t, q, l) /\ q = lg[t].queue /\ Buffered(t, m) => l < m
        /\ \A s \in Sessions : StoredIn(s, l) /\ Of(t, q, l) =>
              /\ Live(t, q, m) => l < m
              /\ q = lg[t].queue /\ Buffered(t, m) => l < m

\* Entries are numbered in the same order.
Numbered ==
    /\ \A t \in Tabs, q \in Queue : task[t][q].step = "store" =>
        /\ task[t][q].entry.sequence < lg[t].sequence
        /\ \A s \in Sessions : \A e \in db[s] :
              Of(t, q, e.line) => e.sequence < task[t][q].entry.sequence
    /\ \A s \in Sessions : \A e \in db[s] :
        e.line # Old => e.sequence < lg[lines[e.line].tab].sequence
    /\ \A s \in Sessions : \A d, e \in db[s] : \A t \in Tabs, q \in Queue :
        Of(t, q, d.line) /\ Of(t, q, e.line) /\ d.line < e.line
            => d.sequence < e.sequence

OrderInv == LinesFit /\ InOrder /\ Numbered

\* A logger's queue writes to its session only, until it is left behind.
AtHome ==
    \A t \in Tabs, q \in Queue : q = lg[t].queue =>
        /\ \A l \in Line : Live(t, q, l) => lg[t].session # None
        /\ task[t][q].step = "encrypt" => task[t][q].key = lg[t].session
        /\ task[t][q].step = "store" => /\ task[t][q].to = lg[t].session
                                        /\ task[t][q].entry.key = lg[t].session
        /\ \A s \in Sessions, l \in Line :
              StoredIn(s, l) /\ Of(t, q, l) => s = lg[t].session
        /\ \A r \in Queue, l \in Line : r > q => ~Live(t, r, l)

\* The call has waited for its queue.
Past(r, c) ==
    \/ r.step \in {"read", "wipe", "settle", "clear", "close"}
    \/ r.step = "done" /\ r.op = "flush"
    \/ r.step = "done" /\ r.ok /\ (r.op = "getLogs" => r.of = c)

\* What was emitted before a call is ahead of it, and behind it once it has waited.
BeforeFits(c) ==
    \A t \in Tabs, q \in Queue : call[c].tab = t /\ call[c].queue = q =>
        \A l \in call[c].before :
            /\ Of(t, q, l) /\ ~Buffered(t, l)
            /\ ~Precedes(queue[t][q], Resume(c), Persist(l))
            /\ Past(call[c], c) => ~Live(t, q, l)

\* A read that is joined is under way, as is the one a logger knows of.
Reading(c) == c \in Calls /\ /\ call[c].op = "getLogs"
                             /\ call[c].step \in {"wait", "read", "wipe", "settle"}
ReadsFit ==
    /\ \A c \in Calls : call[c].step = "join" => Reading(call[c].of)
    /\ \A c \in Calls : call[c].of # None => call[c].op = "getLogs"
    /\ \A t \in Tabs, c \in Calls : lg[t].read = c => Reading(c) /\ call[c].tab = t

CallInv == ReadsFit /\ \A c \in Calls : BeforeFits(c)

\* Every line is somewhere.
Somewhere(l) ==
    \/ l \in gone \/ \E s \in Sessions : StoredIn(s, l)
    \/ Buffered(lines[l].tab, l) \/ Live(lines[l].tab, lines[l].queue, l)
AllSomewhere == \A l \in 1 .. Len(lines) : Somewhere(l)

\* What a read or a clear has to answer, so far.
AnswerFits(c) == LET r == call[c] IN r.ok =>
    /\ r.step # "wipe"
    /\ r.step = "read" =>
          \A l \in r.before : l \in gone \/ StoredIn(r.session, l)
    /\ r.step \in {"settle", "done"} /\ r.op = "getLogs" /\ r.of = c =>
          r.before \subseteq r.result \cup gone
    /\ r.step = "done" /\ r.op = "clearLogs" =>
          /\ r.session # None
          /\ \A l \in r.before : ~StoredIn(r.session, l)

AnswerInv == AllSomewhere /\ \A c \in Calls : AnswerFits(c)

-----------------------------------------------------------------------------
(* Sequences: what is taken from the head, or put at the end.              *)

\* What is left of a sequence without its head.
LEMMA PopFacts ==
    ASSUME NEW S, NEW s \in Seq(S), s # <<>>
    PROVE  /\ Head(s) \in S /\ Tail(s) \in Seq(S) /\ In(s, Head(s))
           /\ \A x : In(Tail(s), x) => In(s, x) /\ Precedes(s, Head(s), x)
           /\ \A x : In(s, x) => x = Head(s) \/ In(Tail(s), x)
           /\ \A x, y : Precedes(Tail(s), x, y) => Precedes(s, x, y)
<1>1. /\ Head(s) \in S /\ Tail(s) \in Seq(S) /\ Len(Tail(s)) = Len(s) - 1
      /\ Len(s) \in Nat \ {0} /\ Head(s) = s[1]
      /\ \A n \in 1 .. Len(Tail(s)) : Tail(s)[n] = s[n + 1]
  BY HeadTailProperties, EmptySeq
<1>2. \A n \in 1 .. Len(s) - 1 : Tail(s)[n] = s[n + 1] /\ n + 1 \in 1 .. Len(s)
  BY <1>1
<1>3. ASSUME NEW x, In(Tail(s), x) PROVE In(s, x) /\ Precedes(s, Head(s), x)
  <2>1. PICK n \in 1 .. Len(s) - 1 : Tail(s)[n] = x
    BY <1>1, <1>3 DEF In
  <2>2. s[n + 1] = x /\ n + 1 \in 1 .. Len(s) /\ 1 \in 1 .. Len(s) /\ 1 < n + 1
    BY <1>1, <1>2, <2>1
  <2> QED BY <1>1, <2>2 DEF In, Precedes
<1>4. ASSUME NEW x, In(s, x) PROVE x = Head(s) \/ In(Tail(s), x)
  <2>1. PICK n \in 1 .. Len(s) : s[n] = x
    BY <1>4 DEF In
  <2>2. CASE n = 1
    BY <1>1, <2>1, <2>2
  <2>3. CASE n # 1
    <3>1. n - 1 \in 1 .. Len(s) - 1 /\ (n - 1) + 1 = n
      BY <1>1, <2>3
    <3>2. Tail(s)[n - 1] = s[n]
      BY <1>2, <3>1
    <3> QED BY <1>1, <2>1, <3>1, <3>2 DEF In
  <2> QED BY <2>2, <2>3
<1>5. ASSUME NEW x, NEW y, Precedes(Tail(s), x, y) PROVE Precedes(s, x, y)
  <2>1. PICK n \in 1 .. Len(s) - 1, m \in 1 .. Len(s) - 1 :
           n < m /\ Tail(s)[n] = x /\ Tail(s)[m] = y
    BY <1>1, <1>5 DEF Precedes
  <2>2. /\ n + 1 \in 1 .. Len(s) /\ m + 1 \in 1 .. Len(s) /\ n + 1 < m + 1
        /\ s[n + 1] = x /\ s[m + 1] = y
    BY <1>1, <1>2, <2>1
  <2> QED BY <2>2 DEF Precedes
<1>6. In(s, Head(s))
  BY <1>1 DEF In
<1> QED BY <1>1, <1>3, <1>4, <1>5, <1>6

\* What two sequences joined hold, and in which order.
LEMMA JoinFacts ==
    ASSUME NEW S, NEW s \in Seq(S), NEW r \in Seq(S)
    PROVE  /\ s \o r \in Seq(S) /\ Len(s \o r) = Len(s) + Len(r)
           /\ \A x : In(s \o r, x) <=> In(s, x) \/ In(r, x)
           /\ \A x, y : Precedes(s \o r, x, y) =>
                \/ Precedes(s, x, y) \/ Precedes(r, x, y)
                \/ In(s, x) /\ In(r, y)
<1> DEFINE j == s \o r
<1>1. /\ j \in Seq(S) /\ Len(j) = Len(s) + Len(r)
      /\ \A n \in 1 .. Len(s) + Len(r) :
            j[n] = IF n <= Len(s) THEN s[n] ELSE r[n - Len(s)]
  BY ConcatProperties
<1> HIDE DEF j
<1>2. Len(s) \in Nat /\ Len(r) \in Nat
  BY LenProperties
<1>3. ASSUME NEW n \in 1 .. Len(j)
      PROVE  \/ n \in 1 .. Len(s) /\ j[n] = s[n]
             \/ n > Len(s) /\ n - Len(s) \in 1 .. Len(r) /\ j[n] = r[n - Len(s)]
  <2>1. CASE n <= Len(s)
    BY <1>1, <1>2, <2>1
  <2>2. CASE ~(n <= Len(s))
    BY <1>1, <1>2, <2>2
  <2> QED BY <2>1, <2>2
<1>4. ASSUME NEW x, In(j, x) PROVE In(s, x) \/ In(r, x)
  BY <1>3, <1>4 DEF In
<1>5. ASSUME NEW x, In(s, x) PROVE In(j, x)
  BY <1>1, <1>2, <1>5 DEF In
<1>6. ASSUME NEW x, In(r, x) PROVE In(j, x)
  <2>1. PICK n \in 1 .. Len(r) : r[n] = x
    BY <1>6 DEF In
  <2>2. n + Len(s) \in 1 .. Len(j) /\ ~(n + Len(s) <= Len(s)) /\ (n + Len(s)) - Len(s) = n
    BY <1>1, <1>2
  <2>3. j[n + Len(s)] = x
    BY <1>1, <2>1, <2>2
  <2> QED BY <2>2, <2>3 DEF In
<1>7. ASSUME NEW x, NEW y, Precedes(j, x, y)
      PROVE  \/ Precedes(s, x, y) \/ Precedes(r, x, y)
             \/ In(s, x) /\ In(r, y)
  <2>1. PICK n \in 1 .. Len(j), m \in 1 .. Len(j) : n < m /\ j[n] = x /\ j[m] = y
    BY <1>7 DEF Precedes
  <2>2. CASE m \in 1 .. Len(s)
    <3>1. n \in 1 .. Len(s) /\ s[n] = x /\ s[m] = y
      BY <1>1, <1>2, <1>3, <2>1, <2>2
    <3> QED BY <2>1, <2>2, <3>1 DEF Precedes
  <2>3. CASE m \notin 1 .. Len(s) /\ n \in 1 .. Len(s)
    <3>1. s[n] = x /\ m - Len(s) \in 1 .. Len(r) /\ r[m - Len(s)] = y
      BY <1>1, <1>2, <1>3, <2>1, <2>3
    <3> QED BY <2>3, <3>1 DEF In
  <2>4. CASE m \notin 1 .. Len(s) /\ n \notin 1 .. Len(s)
    <3>1. /\ n - Len(s) \in 1 .. Len(r) /\ m - Len(s) \in 1 .. Len(r)
          /\ r[n - Len(s)] = x /\ r[m - Len(s)] = y /\ n - Len(s) < m - Len(s)
      BY <1>1, <1>2, <1>3, <2>1, <2>4
    <3> QED BY <3>1 DEF Precedes
  <2> QED BY <2>2, <2>3, <2>4
<1>8. \A x : In(j, x) <=> In(s, x) \/ In(r, x)
  BY <1>4, <1>5, <1>6
<1> QED BY <1>1, <1>7, <1>8, Zenon DEF j

\* A sequence of one.
LEMMA OneFacts ==
    ASSUME NEW z
    PROVE  /\ \A x : In(<<z>>, x) <=> x = z
           /\ \A x, y : ~Precedes(<<z>>, x, y)
BY DEF In, Precedes

\* The empty sequence.
LEMMA EmptyFacts ==
    /\ \A x : ~In(<<>>, x)
    /\ \A x, y : ~Precedes(<<>>, x, y)
BY DEF In, Precedes

\* A sequence with one more.
LEMMA AppendFacts ==
    ASSUME NEW S, NEW s \in Seq(S), NEW z \in S
    PROVE  /\ Append(s, z) \in Seq(S) /\ Len(Append(s, z)) = Len(s) + 1
           /\ Append(s, z) = s \o <<z>>
           /\ \A n \in 1 .. Len(s) : Append(s, z)[n] = s[n]
           /\ Append(s, z)[Len(s) + 1] = z
BY AppendProperties, AppendIsConcat

-----------------------------------------------------------------------------
(* Items and tasks.                                                        *)

\* The items of a queue are told apart.
LEMMA ItemMakes ==
    /\ \A l \in Line : Persist(l) \in Item
    /\ Cleanup \in Item
    /\ \A c \in Calls : Resume(c) \in Item
    /\ \A l, m : Persist(l) = Persist(m) => l = m
    /\ \A c, d : Resume(c) = Resume(d) => c = d
    /\ \A l, c : Persist(l) # Resume(c) /\ Persist(l) # Cleanup /\ Resume(c) # Cleanup
BY DEF Persist, Cleanup, Resume, Item

\* An item is a line to persist, a cleanup or a call to resume.
LEMMA ItemCases ==
    ASSUME NEW x \in Item
    PROVE  /\ x.kind \in {"persist", "cleanup", "resume"}
           /\ x.kind = "persist" => x.line \in Line /\ x = Persist(x.line)
           /\ x.kind = "cleanup" => x = Cleanup
           /\ x.kind = "resume" => x.call \in Calls /\ x = Resume(x.call)
BY DEF Persist, Cleanup, Resume, Item

\* What the steps of a task make.
LEMMA TaskMakes ==
    /\ Idle \in Task /\ Idle.step = "idle"
    /\ \A l \in Line, s \in Sessions :
          [step |-> "encrypt", line |-> l, key |-> s] \in Task
    /\ \A e \in Written, s \in Sessions :
          [step |-> "store", to |-> s, entry |-> e] \in Task
    /\ \A n \in Int, s \in Sessions :
          [step |-> "expire", before |-> n, to |-> s] \in Task
    /\ \A s \in Sessions : [step |-> "count", to |-> s] \in Task
    /\ \A n \in Nat, s \in Sessions :
          [step |-> "trim", to |-> s, count |-> n] \in Task
BY DEF Task, Idle

\* What is known of a task by its step.
LEMMA TaskCases ==
    ASSUME NEW k \in Task
    PROVE  /\ k.step = "encrypt" => k.line \in Line /\ k.key \in Sessions
           /\ k.step = "store" => k.entry \in Written /\ k.to \in Sessions
           /\ k.step \in {"expire", "count", "trim"} => k.to \in Sessions
           /\ k.step = "expire" => k.before \in Int
           /\ k.step = "trim" => k.count \in Nat
BY DEF Task, Idle

\* An entry has a line, or none that can be read.
LEMMA EntryCases ==
    /\ Old \notin Line /\ Written \subseteq Entry
    /\ \A e \in Entry : e.line # Old => e \in Written
    /\ \A e \in Written : e.line \in Line /\ e.sequence \in Nat /\ e.key \in Sessions
    /\ \A e \in Entry : e.line \in Line \cup {Old}
BY DEF Entry, Written, Unreadable, Line, Old

\* Only a task that encrypts or stores holds a line.
LEMMA HoldsFacts ==
    /\ \A l : ~Holds(Idle, l)
    /\ \A k : k.step \notin {"encrypt", "store"} => \A l : ~Holds(k, l)
    /\ \A l, m, s : Holds([step |-> "encrypt", line |-> m, key |-> s], l) <=> l = m
    /\ \A l, e, s : Holds([step |-> "store", to |-> s, entry |-> e], l) <=> l = e.line
BY DEF Holds, Idle

-----------------------------------------------------------------------------
(* What steps do to the queues and to the calls.                           *)

\* The bounds are numbers.
LEMMA Limits ==
    /\ MaxLines \in Nat /\ MaxTime \in Nat /\ MaxPending \in Nat
    /\ MaxEntries \in Nat /\ Retention \in Nat
    /\ Cardinality(Calls) \in Nat /\ 0 \in Queue
BY LimitAssumption, CallsAssumption, FS_CardinalityType DEF Queue

\* The types one by one.
LEMMA Types ==
    ASSUME Typed
    PROVE  /\ \A t \in Tabs : lg[t] \in Logger /\ lg[t].queue \in Queue
           /\ \A t \in Tabs, q \in Queue :
                 queue[t][q] \in Seq(Item) /\ task[t][q] \in Task
           /\ \A c \in Calls : call[c] \in Call /\ StepOf(call[c])
           /\ Len(lines) \in Nat /\ 1 .. Len(lines) \subseteq Line
           /\ \A l \in 1 .. Len(lines) :
                 lines[l] \in [tab : Tabs, queue : Queue, ts : 0 .. MaxTime]
           /\ \A s \in Sessions : db[s] \subseteq Entry
<1>1. TypeOK /\ \A c \in Calls : StepOf(call[c])
  BY DEF Typed
<1>2. \A t \in Tabs : lg[t] \in Logger /\ lg[t].queue \in Queue
  BY <1>1 DEF TypeOK, Logger
<1>3. \A t \in Tabs, q \in Queue :
         queue[t][q] \in Seq(Item) /\ task[t][q] \in Task
  BY <1>1 DEF TypeOK
<1>4. /\ Len(lines) \in Nat /\ 1 .. Len(lines) \subseteq Line
      /\ \A l \in 1 .. Len(lines) :
            lines[l] \in [tab : Tabs, queue : Queue, ts : 0 .. MaxTime]
  <2>1. lines \in Seq([tab : Tabs, queue : Queue, ts : 0 .. MaxTime])
    BY <1>1 DEF TypeOK
  <2>2. /\ Len(lines) \in Nat /\ \A l \in 1 .. Len(lines) :
              lines[l] \in [tab : Tabs, queue : Queue, ts : 0 .. MaxTime]
    BY <2>1, LenProperties
  <2> QED BY <1>1, <2>2, Limits DEF TypeOK, Line
<1> QED BY <1>1, <1>2, <1>3, <1>4 DEF TypeOK

\* A queue grows by the items, or by one; or it loses its head h.
Enqueued(t, items) ==
    /\ queue' \in [Tabs -> [Queue -> Seq(Item)]]
    /\ \A u \in Tabs, r \in Queue : \A x :
          In(queue'[u][r], x) <=>
            \/ In(queue[u][r], x)
            \/ u = t /\ r = lg[t].queue /\ In(items, x)
    /\ \A u \in Tabs, r \in Queue : \A x, y :
          Precedes(queue'[u][r], x, y) =>
            \/ Precedes(queue[u][r], x, y)
            \/ /\ u = t /\ r = lg[t].queue
               /\ Precedes(items, x, y) \/ (In(queue[u][r], x) /\ In(items, y))

Pushed(t, z) ==
    /\ queue' \in [Tabs -> [Queue -> Seq(Item)]]
    /\ \A u \in Tabs, r \in Queue : \A x :
          In(queue'[u][r], x) <=>
             In(queue[u][r], x) \/ (u = t /\ r = lg[t].queue /\ x = z)
    /\ \A u \in Tabs, r \in Queue : \A x, y :
          Precedes(queue'[u][r], x, y) =>
            \/ Precedes(queue[u][r], x, y)
            \/ u = t /\ r = lg[t].queue /\ In(queue[u][r], x) /\ y = z

Popped(t, q, h) ==
    /\ queue' \in [Tabs -> [Queue -> Seq(Item)]]
    /\ task[t][q] = Idle /\ h \in Item /\ In(queue[t][q], h)
    /\ \A u \in Tabs, r \in Queue : \A x :
          /\ In(queue'[u][r], x) => In(queue[u][r], x)
          /\ In(queue[u][r], x) =>
               In(queue'[u][r], x) \/ (u = t /\ r = q /\ x = h)
    /\ \A x : In(queue'[t][q], x) => Precedes(queue[t][q], h, x)
    /\ \A u \in Tabs, r \in Queue : \A x, y :
          Precedes(queue'[u][r], x, y) => Precedes(queue[u][r], x, y)

\* Items are appended to the queue in use (enqueue).
LEMMA EnqueueFacts ==
    ASSUME Typed, NEW t \in Tabs, NEW items \in Seq(Item), Enqueue(t, items)
    PROVE  Enqueued(t, items)
<1> DEFINE p == lg[t].queue
           s == queue[t][p]
<1>1. /\ p \in Queue /\ s \in Seq(Item) /\ queue \in [Tabs -> [Queue -> Seq(Item)]]
  BY Types DEF Typed, TypeOK
<1>2. queue' = [queue EXCEPT ![t][p] = s \o items]
  BY DEF Enqueue
<1> HIDE DEF p, s
<1>3. s \o items \in Seq(Item)
  BY <1>1, JoinFacts
<1>4. /\ queue' \in [Tabs -> [Queue -> Seq(Item)]]
      /\ \A u \in Tabs, r \in Queue :
            queue'[u][r] = IF u = t /\ r = p THEN s \o items ELSE queue[u][r]
  BY <1>1, <1>2, <1>3
<1>5. queue[t][p] = s /\ lg[t].queue = p
  BY DEF s, p
<1>6. /\ \A x : In(s \o items, x) <=> In(s, x) \/ In(items, x)
      /\ \A x, y : Precedes(s \o items, x, y) =>
           \/ Precedes(s, x, y) \/ Precedes(items, x, y)
           \/ In(s, x) /\ In(items, y)
  BY <1>1, JoinFacts
<1>7. ASSUME NEW u \in Tabs, NEW r \in Queue, NEW x
      PROVE  In(queue'[u][r], x) <=>
                  \/ In(queue[u][r], x)
                  \/ u = t /\ r = lg[t].queue /\ In(items, x)
  <2>1. CASE u = t /\ r = p
    BY <1>4, <1>5, <1>6, <2>1
  <2>2. CASE ~(u = t /\ r = p)
    BY <1>4, <1>5, <2>2
  <2> QED BY <2>1, <2>2
<1>8. ASSUME NEW u \in Tabs, NEW r \in Queue, NEW x, NEW y,
             Precedes(queue'[u][r], x, y)
      PROVE  \/ Precedes(queue[u][r], x, y)
             \/ /\ u = t /\ r = lg[t].queue
                /\ Precedes(items, x, y) \/ (In(queue[u][r], x) /\ In(items, y))
  <2>1. CASE u = t /\ r = p
    BY <1>4, <1>5, <1>6, <1>8, <2>1
  <2>2. CASE ~(u = t /\ r = p)
    BY <1>4, <1>5, <1>8, <2>2
  <2> QED BY <2>1, <2>2
<1> QED BY <1>4, <1>7, <1>8 DEF Enqueued

\* One item is appended to the queue in use.
LEMMA EnqueueOne ==
    ASSUME Typed, NEW t \in Tabs, NEW z \in Item, Enqueue(t, <<z>>)
    PROVE  Pushed(t, z)
<1> DEFINE items == <<z>>
<1>1. /\ items \in Seq(Item) /\ Enqueue(t, items)
      /\ \A x : In(items, x) <=> x = z
      /\ \A x, y : ~Precedes(items, x, y)
  BY OneFacts
<1> HIDE DEF items
<1>2. Enqueued(t, items)
  BY <1>1, EnqueueFacts, Zenon
<1> QED BY <1>1, <1>2 DEF Enqueued, Pushed

\* A queue loses its head.
LEMMA PopsFacts ==
    ASSUME Typed, NEW t \in Tabs, NEW q \in Queue, NEW kind,
           AtHead(t, q, kind), Pop(t, q)
    PROVE  /\ Popped(t, q, Head(queue[t][q]))
           /\ Head(queue[t][q]).kind = kind
<1> DEFINE s == queue[t][q]
<1>1. /\ s \in Seq(Item) /\ queue \in [Tabs -> [Queue -> Seq(Item)]]
      /\ s # <<>> /\ task[t][q] = Idle /\ Head(s).kind = kind
  BY Types DEF Typed, TypeOK, AtHead
<1>2. queue' = [queue EXCEPT ![t][q] = Tail(s)]
  BY DEF Pop
<1>3. queue[t][q] = s
  OBVIOUS
<1> HIDE DEF s
<1>4. /\ Head(s) \in Item /\ Tail(s) \in Seq(Item) /\ In(s, Head(s))
      /\ \A x : In(Tail(s), x) => In(s, x) /\ Precedes(s, Head(s), x)
      /\ \A x : In(s, x) => x = Head(s) \/ In(Tail(s), x)
      /\ \A x, y : Precedes(Tail(s), x, y) => Precedes(s, x, y)
  BY <1>1, PopFacts
<1>5. /\ queue' \in [Tabs -> [Queue -> Seq(Item)]]
      /\ \A u \in Tabs, r \in Queue :
            queue'[u][r] = IF u = t /\ r = q THEN Tail(s) ELSE queue[u][r]
  BY <1>1, <1>2, <1>4
<1>6. ASSUME NEW u \in Tabs, NEW r \in Queue, NEW x
      PROVE  /\ In(queue'[u][r], x) => In(queue[u][r], x)
             /\ In(queue[u][r], x) =>
                  \/ In(queue'[u][r], x)
                  \/ u = t /\ r = q /\ x = Head(s)
  <2>1. CASE u = t /\ r = q
    BY <1>3, <1>4, <1>5, <2>1
  <2>2. CASE ~(u = t /\ r = q)
    BY <1>5, <2>2
  <2> QED BY <2>1, <2>2
<1>7. ASSUME NEW u \in Tabs, NEW r \in Queue, NEW x, NEW y,
             Precedes(queue'[u][r], x, y)
      PROVE  Precedes(queue[u][r], x, y)
  <2>1. CASE u = t /\ r = q
    BY <1>3, <1>4, <1>5, <1>7, <2>1
  <2>2. CASE ~(u = t /\ r = q)
    BY <1>5, <1>7, <2>2
  <2> QED BY <2>1, <2>2
<1>8. \A x : In(queue'[t][q], x) => Precedes(s, Head(s), x)
  BY <1>4, <1>5
<1> QED BY <1>1, <1>3, <1>4, <1>5, <1>6, <1>7, <1>8 DEF Popped

\* One queue has another task.
LEMMA RunFacts ==
    ASSUME Typed, NEW t \in Tabs, NEW q \in Queue, NEW k \in Task, Run(t, q, k)
    PROVE  /\ task' \in [Tabs -> [Queue -> Task]]
           /\ \A u \in Tabs, r \in Queue :
                task'[u][r] = IF u = t /\ r = q THEN k ELSE task[u][r]
BY DEF Run, Typed, TypeOK

\* What the two say of a single item.
LEMMA PushedItem ==
    ASSUME NEW t, NEW z, Pushed(t, z), NEW u \in Tabs, NEW p \in Queue, NEW x, NEW y
    PROVE  /\ In(queue'[u][p], x) <=>
                 In(queue[u][p], x) \/ (u = t /\ p = lg[t].queue /\ x = z)
           /\ Precedes(queue'[u][p], x, y) =>
                 \/ Precedes(queue[u][p], x, y)
                 \/ u = t /\ p = lg[t].queue /\ In(queue[u][p], x) /\ y = z
BY DEF Pushed

\* Of one item, when a queue loses its head.
LEMMA PoppedItem ==
    ASSUME NEW t \in Tabs, NEW q \in Queue, NEW h, Popped(t, q, h),
           NEW u \in Tabs, NEW p \in Queue, NEW x, NEW y
    PROVE  /\ In(queue'[u][p], x) => In(queue[u][p], x)
           /\ In(queue[u][p], x) =>
                 In(queue'[u][p], x) \/ (u = t /\ p = q /\ x = h)
           /\ Precedes(queue'[u][p], x, y) => Precedes(queue[u][p], x, y)
           /\ In(queue'[t][q], x) => Precedes(queue[t][q], h, x)
BY DEF Popped

\* One call changes, which was not done.
LEMMA CallChange ==
    ASSUME Typed, NEW c \in Calls, NEW r \in Call, StepOf(r), call[c].step # "done",
           call' = [call EXCEPT ![c] = r]
    PROVE  /\ call' \in [Calls -> Call]
           /\ \A d \in Calls : /\ call'[d] = IF d = c THEN r ELSE call[d]
                               /\ StepOf(call'[d])
           /\ \A t \in Tabs : Destroys(t) \subseteq Destroys(t)'
<1>1. /\ call' \in [Calls -> Call]
      /\ \A d \in Calls : call'[d] = IF d = c THEN r ELSE call[d]
  BY DEF Typed, TypeOK
<1>2. \A d \in Calls : StepOf(call'[d])
  BY <1>1 DEF Typed, StepOf
<1>3. \A t \in Tabs : Destroys(t) \subseteq Destroys(t)'
  BY <1>1 DEF Destroys
<1> QED BY <1>1, <1>2, <1>3

-----------------------------------------------------------------------------
(* Types: what is left alone keeps its fit.                                *)

\* Loggers that keep their fields, and destroys that stay done, keep their fit.
LEMMA LoggersStay ==
    ASSUME Typed, lg' \in [Tabs -> Logger],
           \A t \in Tabs : Destroys(t) \subseteq Destroys(t)',
           \A t \in Tabs : /\ lg'[t].queue = lg[t].queue
                           /\ lg'[t].initialized <=> lg'[t].session # None
                           /\ lg'[t].initialized => lg'[t].pending = <<>>
                           /\ lg'[t].interval => lg'[t].intervals > 0
    PROVE  \A t \in Tabs : LoggerFits(t)'
<1> SUFFICES ASSUME NEW t \in Tabs PROVE LoggerFits(t)'
  OBVIOUS
<1>1. /\ IsFiniteSet(Destroys(t)') /\ Cardinality(Destroys(t)') \in Nat
      /\ Cardinality(Destroys(t)) \in Nat
      /\ Cardinality(Destroys(t)) <= Cardinality(Destroys(t)')
  <2>1. IsFiniteSet(Destroys(t)') /\ IsFiniteSet(Destroys(t))
    BY CallsAssumption, FS_Subset DEF Destroys
  <2> QED BY <2>1, FS_Subset, FS_CardinalityType
<1>2. lg[t].queue <= Cardinality(Destroys(t)) /\ lg[t].queue \in Nat
  BY Types, Limits DEF Typed, LoggerFits, Queue
<1> QED BY <1>1, <1>2 DEF LoggerFits

\* No call starts or ends to wait, whatever lines and clean-ups do.
LEMMA WaitersStay ==
    ASSUME Typed,
           \A t \in Tabs, q \in Queue, c \in Calls :
              /\ In(queue'[t][q], Resume(c)) <=> In(queue[t][q], Resume(c))
              /\ Precedes(queue'[t][q], Resume(c), Resume(c))
                    => Precedes(queue[t][q], Resume(c), Resume(c)),
           \A c \in Calls :
              /\ call'[c].step = "wait" <=> call[c].step = "wait"
              /\ call[c].step = "wait" =>
                   call'[c].tab = call[c].tab /\ call'[c].queue = call[c].queue
    PROVE  WaitersFit'
BY DEF Typed, WaitersFit

\* A call that awaits a queue joins it.
LEMMA WaiterJoins ==
    ASSUME Typed, NEW c \in Calls, NEW t \in Tabs, NEW k, Unused(c),
           k.tab = t, k.queue = lg[t].queue, k.step = "wait",
           Enqueue(t, <<Resume(c)>>),
           \A d \in Calls : call'[d] = IF d = c THEN k ELSE call[d]
    PROVE  WaitersFit'
<1>1. Pushed(t, Resume(c))
  BY ItemMakes, EnqueueOne, Zenon
<1> SUFFICES ASSUME NEW u \in Tabs, NEW p \in Queue, NEW d \in Calls
             PROVE  /\ In(queue'[u][p], Resume(d)) <=>
                         call'[d].step = "wait" /\ call'[d].tab = u
                            /\ call'[d].queue = p
                    /\ ~Precedes(queue'[u][p], Resume(d), Resume(d))
  BY DEF WaitersFit
<1>2. Resume(d) = Resume(c) <=> d = c
  BY ItemMakes
<1>3. /\ In(queue'[u][p], Resume(d)) <=>
            \/ In(queue[u][p], Resume(d))
            \/ u = t /\ p = lg[t].queue /\ Resume(d) = Resume(c)
      /\ Precedes(queue'[u][p], Resume(d), Resume(d)) =>
            \/ Precedes(queue[u][p], Resume(d), Resume(d))
            \/ In(queue[u][p], Resume(d)) /\ Resume(d) = Resume(c)
  BY <1>1, PushedItem
<1>4. /\ In(queue[u][p], Resume(d)) <=>
            call[d].step = "wait" /\ call[d].tab = u /\ call[d].queue = p
      /\ ~Precedes(queue[u][p], Resume(d), Resume(d))
  BY DEF Typed, WaitersFit
<1>5. call[c].step # "wait"
  BY DEF Unused, Typed, StepOf
<1>6. call'[d] = IF d = c THEN k ELSE call[d]
  OBVIOUS
<1> QED BY <1>2, <1>3, <1>4, <1>5, <1>6

\* The call at the head of a queue leaves it.
LEMMA WaiterLeaves ==
    ASSUME Typed, NEW t \in Tabs, NEW q \in Queue, NEW c \in Calls,
           AtHead(t, q, "resume"), Pop(t, q), Head(queue[t][q]) = Resume(c),
           NEW r, r.step # "wait",
           \A d \in Calls : call'[d] = IF d = c THEN r ELSE call[d]
    PROVE  WaitersFit'
<1>1. Popped(t, q, Resume(c))
  BY PopsFacts, Zenon
<1> SUFFICES ASSUME NEW u \in Tabs, NEW p \in Queue, NEW d \in Calls
             PROVE  /\ In(queue'[u][p], Resume(d)) <=>
                         call'[d].step = "wait" /\ call'[d].tab = u
                            /\ call'[d].queue = p
                    /\ ~Precedes(queue'[u][p], Resume(d), Resume(d))
  BY DEF WaitersFit
<1>2. Resume(d) = Resume(c) <=> d = c
  BY ItemMakes
<1>3. /\ In(queue'[u][p], Resume(d)) => In(queue[u][p], Resume(d))
      /\ In(queue[u][p], Resume(d)) =>
            \/ In(queue'[u][p], Resume(d))
            \/ u = t /\ p = q /\ Resume(d) = Resume(c)
      /\ Precedes(queue'[u][p], Resume(d), Resume(d)) =>
            Precedes(queue[u][p], Resume(d), Resume(d))
  BY <1>1, PoppedItem
<1>4. /\ In(queue'[t][q], Resume(c)) => Precedes(queue[t][q], Resume(c), Resume(c))
      /\ In(queue[t][q], Resume(c))
  BY <1>1 DEF Popped
<1>5. /\ In(queue[u][p], Resume(d)) <=>
            call[d].step = "wait" /\ call[d].tab = u /\ call[d].queue = p
      /\ ~Precedes(queue[u][p], Resume(d), Resume(d))
      /\ call[c].tab = t /\ call[c].queue = q
      /\ ~Precedes(queue[t][q], Resume(c), Resume(c))
  BY <1>4 DEF Typed, WaitersFit
<1>6. call'[d] = IF d = c THEN r ELSE call[d]
  OBVIOUS
<1> QED BY <1>2, <1>3, <1>4, <1>5, <1>6

-----------------------------------------------------------------------------
(* Types: every step keeps them.                                           *)

\* A step that leaves the calls alone, and takes or adds no waiter.
LEMMA NoWaiters ==
    ASSUME Typed, UNCHANGED call,
           \/ UNCHANGED queue
           \/ \E t \in Tabs : \E z : Pushed(t, z) /\ \A c \in Calls : z # Resume(c)
           \/ \E t \in Tabs, q \in Queue : \E h :
                 Popped(t, q, h) /\ \A c \in Calls : h # Resume(c)
    PROVE  /\ WaitersFit' /\ call' \in [Calls -> Call]
           /\ \A c \in Calls : StepOf(call'[c])
           /\ \A t \in Tabs : Destroys(t) \subseteq Destroys(t)'
<1>1. /\ call' \in [Calls -> Call] /\ \A c \in Calls : StepOf(call'[c])
      /\ \A t \in Tabs : Destroys(t) \subseteq Destroys(t)'
  BY DEF Typed, TypeOK, Destroys
<1>2. SUFFICES ASSUME NEW u \in Tabs, NEW p \in Queue, NEW c \in Calls
               PROVE  /\ In(queue'[u][p], Resume(c)) <=> In(queue[u][p], Resume(c))
                      /\ Precedes(queue'[u][p], Resume(c), Resume(c))
                            => Precedes(queue[u][p], Resume(c), Resume(c))
  <2>1. WaitersFit'
    BY <1>2, WaitersStay
  <2> QED BY <1>1, <2>1
<1>3. CASE UNCHANGED queue
  BY <1>3
<1>4. ASSUME NEW t \in Tabs, NEW z, Pushed(t, z), \A d \in Calls : z # Resume(d)
      PROVE  /\ In(queue'[u][p], Resume(c)) <=> In(queue[u][p], Resume(c))
             /\ Precedes(queue'[u][p], Resume(c), Resume(c))
                   => Precedes(queue[u][p], Resume(c), Resume(c))
  BY <1>4, PushedItem
<1>5. ASSUME NEW t \in Tabs, NEW q \in Queue, NEW h, Popped(t, q, h),
             \A d \in Calls : h # Resume(d)
      PROVE  /\ In(queue'[u][p], Resume(c)) <=> In(queue[u][p], Resume(c))
             /\ Precedes(queue'[u][p], Resume(c), Resume(c))
                   => Precedes(queue[u][p], Resume(c), Resume(c))
  BY <1>5, PoppedItem
<1> QED BY <1>3, <1>4, <1>5

\* Emit appends one line.
LEMMA NewLine ==
    ASSUME Typed, NEW t \in Tabs, Emit(t)
    PROVE  /\ lines' \in Seq([tab : Tabs, queue : Queue, ts : 0 .. MaxTime])
           /\ Len(lines') = Len(lines) + 1 /\ Len(lines') <= MaxLines
           /\ Len(lines') \in Line
           /\ \A l \in 1 .. Len(lines) : lines'[l] = lines[l]
           /\ lines'[Len(lines')] = [tab |-> t, queue |-> lg[t].queue, ts |-> clock]
<1>1. lines \in Seq([tab : Tabs, queue : Queue, ts : 0 .. MaxTime])
  BY DEF Typed, TypeOK
<1>2. [tab |-> t, queue |-> lg[t].queue, ts |-> clock]
         \in [tab : Tabs, queue : Queue, ts : 0 .. MaxTime]
  BY Types DEF Typed, TypeOK
<1>3. /\ Len(lines) \in Nat /\ Len(lines) < MaxLines
      /\ lines' = Append(lines, [tab |-> t, queue |-> lg[t].queue, ts |-> clock])
  BY Types DEF Emit
<1> DEFINE new == [tab |-> t, queue |-> lg[t].queue, ts |-> clock]
<1> HIDE DEF new
<1>4. /\ lines' \in Seq([tab : Tabs, queue : Queue, ts : 0 .. MaxTime])
      /\ Len(lines') = Len(lines) + 1 /\ lines'[Len(lines) + 1] = new
      /\ \A l \in 1 .. Len(lines) : lines'[l] = lines[l]
  BY <1>1, <1>2, <1>3, AppendFacts DEF new
<1> QED BY <1>3, <1>4, Limits DEF Line, new

\* The buffer keeps the newest lines.
LEMMA Kept ==
    ASSUME NEW s \in Seq(Line), Len(s) <= MaxPending + 1
    PROVE  /\ Keep(s) \in Seq(Line) /\ Len(Keep(s)) <= MaxPending
           /\ \A x : In(Keep(s), x) => In(s, x)
           /\ \A x, y : Precedes(Keep(s), x, y) => Precedes(s, x, y)
           /\ \A x : x \in ToSet(s) <=> In(s, x)
           /\ \A x : x \in ToSet(Keep(s)) <=> In(Keep(s), x)
<1>1. \A r \in Seq(Line) : \A x : x \in ToSet(r) <=> In(r, x)
  BY LenProperties DEF ToSet, In
<1>2. CASE Len(s) > MaxPending
  <2>1. s # <<>> /\ Keep(s) = Tail(s)
    BY <1>2, Limits DEF Keep
  <2>2. Len(Tail(s)) = Len(s) - 1 /\ Len(s) \in Nat
    BY <2>1, HeadTailProperties, LenProperties
  <2>3. /\ Tail(s) \in Seq(Line)
        /\ \A x : In(Tail(s), x) => In(s, x)
        /\ \A x, y : Precedes(Tail(s), x, y) => Precedes(s, x, y)
    BY <2>1, PopFacts, Zenon
  <2>4. Len(Tail(s)) <= MaxPending
    BY <2>2, Limits
  <2> QED BY <1>1, <2>1, <2>3, <2>4, Zenon
<1>3. CASE ~(Len(s) > MaxPending)
  <2>1. Keep(s) = s /\ Len(s) \in Nat
    BY <1>3, LenProperties DEF Keep
  <2> QED BY <1>1, <1>3, <2>1, Limits
<1> QED BY <1>2, <1>3

\* Emit keeps the types.
LEMMA EmitTyped ==
    ASSUME Typed, NEW t \in Tabs, Emit(t) PROVE Typed'
<1> DEFINE n == Len(lines')
           all == Append(lg[t].pending, n)
<1>1. UNCHANGED <<clock, task, db, call, timers>>
  BY DEF Emit
<1>2. CASE lg[t].initialized
  <2>1. Enqueue(t, <<Persist(n)>>) /\ UNCHANGED <<lg, gone>>
    BY <1>2 DEF Emit
  <2>2. Persist(n) \in Item
    BY NewLine, ItemMakes
  <2> HIDE DEF n
  <2>3. Pushed(t, Persist(n))
    BY <2>1, <2>2, EnqueueOne, Zenon
  <2>4. queue' \in [Tabs -> [Queue -> Seq(Item)]]
    BY <2>3 DEF Pushed
  <2>5. /\ WaitersFit' /\ call' \in [Calls -> Call]
        /\ \A c \in Calls : StepOf(call'[c])
        /\ \A u \in Tabs : Destroys(u) \subseteq Destroys(u)'
    BY <1>1, <2>3, ItemMakes, NoWaiters
  <2>6. \A u \in Tabs : LoggerFits(u)'
    BY <2>1, <2>5, LoggersStay DEF Typed, LoggerFits, TypeOK
  <2> QED BY <1>1, <2>1, <2>4, <2>5, <2>6, NewLine DEF Typed, TypeOK
<1>3. CASE ~lg[t].initialized
  <2>1. /\ lg' = [lg EXCEPT ![t].pending = Keep(all)]
        /\ gone' = gone \cup (ToSet(all) \ ToSet(Keep(all)))
        /\ UNCHANGED queue
    BY <1>3 DEF Emit
  <2>2. lg[t] \in Logger /\ lg[t].pending \in Seq(Line) /\ n \in Line
    BY Types, NewLine DEF Logger
  <2>3. all \in Seq(Line) /\ Len(all) <= MaxPending + 1
    <3>1. Len(lg[t].pending) <= MaxPending /\ Len(lg[t].pending) \in Nat
      BY <2>2, LenProperties DEF Typed, TypeOK
    <3> QED BY <2>2, <3>1, AppendFacts, Limits
  <2>4. /\ Keep(all) \in Seq(Line) /\ Len(Keep(all)) <= MaxPending
        /\ \A x : x \in ToSet(all) <=> In(all, x)
    BY <2>3, Kept
  <2>5. gone' \subseteq Line
    <3>1. \A x : In(all, x) => x \in Line
      BY <2>3, ElementOfSeq DEF In
    <3> QED BY <2>1, <2>4, <3>1 DEF Typed, TypeOK
  <2>6. lg' \in [Tabs -> Logger]
    BY <2>1, <2>4 DEF Typed, TypeOK, Logger
  <2>7. /\ WaitersFit' /\ call' \in [Calls -> Call]
        /\ \A c \in Calls : StepOf(call'[c])
        /\ \A u \in Tabs : Destroys(u) \subseteq Destroys(u)'
    BY <1>1, <2>1, NoWaiters
  <2> HIDE DEF all
  <2>8. \A u \in Tabs : /\ lg'[u].queue = lg[u].queue
                        /\ lg'[u].initialized <=> lg'[u].session # None
                        /\ lg'[u].initialized => lg'[u].pending = <<>>
                        /\ lg'[u].interval => lg'[u].intervals > 0
                        /\ Len(lg'[u].pending) <= MaxPending
    BY <1>3, <2>1, <2>4 DEF Typed, TypeOK, LoggerFits
  <2>9. \A u \in Tabs : LoggerFits(u)'
    BY <2>6, <2>7, <2>8, LoggersStay
  <2> QED BY <1>1, <2>1, <2>5, <2>6, <2>7, <2>8, <2>9, NewLine DEF Typed, TypeOK
<1> QED BY <1>2, <1>3


\* Initialize queues the buffered lines, in their order, and a clean-up.
LEMMA InitializeFacts ==
    ASSUME Typed, NEW t \in Tabs, NEW s \in Sessions, Initialize(t, s)
    PROVE  \E items \in Seq(Item) :
             /\ Enqueued(t, items)
             /\ \A l \in Line : In(items, Persist(l)) <=> Buffered(t, l)
             /\ \A l, m \in Line : Precedes(items, Persist(l), Persist(m))
                                      => Precedes(lg[t].pending, l, m)
             /\ \A c : ~In(items, Resume(c)) /\ ~Precedes(items, Resume(c), Resume(c))
<1> DEFINE b == lg[t].pending
           w == [i \in 1 .. Len(b) |-> Persist(b[i])]
           items == w \o <<Cleanup>>
<1>1. b \in Seq(Line) /\ Len(b) \in Nat /\ \A i \in 1 .. Len(b) : b[i] \in Line
  <2>1. b \in Seq(Line)
    BY Types DEF Logger
  <2> QED BY <2>1, LenProperties
<1>2. lg[t].pending = b /\ Enqueue(t, items)
  BY DEF Initialize
<1> HIDE DEF b
<1>3. /\ w \in Seq(Item) /\ Len(w) = Len(b)
      /\ \A i \in 1 .. Len(b) : w[i] = Persist(b[i])
  <2>1. \A i \in 1 .. Len(b) : Persist(b[i]) \in Item
    BY <1>1, ItemMakes
  <2> QED BY <1>1, <2>1
<1> HIDE DEF w
<1> DEFINE one == <<Cleanup>>
<1>4. /\ one \in Seq(Item) /\ \A x : In(one, x) <=> x = Cleanup
      /\ \A x, y : ~Precedes(one, x, y)
  BY ItemMakes, OneFacts
<1>5. items = w \o one
  OBVIOUS
<1> HIDE DEF one, items
<1>6. /\ items \in Seq(Item)
      /\ \A x : In(items, x) <=> In(w, x) \/ x = Cleanup
      /\ \A x, y : Precedes(items, x, y) =>
           Precedes(w, x, y) \/ (In(w, x) /\ y = Cleanup)
  <2>1. /\ items \in Seq(Item)
        /\ \A x : In(items, x) <=> In(w, x) \/ In(one, x)
        /\ \A x, y : Precedes(items, x, y) =>
             \/ Precedes(w, x, y) \/ Precedes(one, x, y)
             \/ In(w, x) /\ In(one, y)
    BY <1>3, <1>4, <1>5, JoinFacts
  <2> QED BY <1>4, <2>1
<1>7. \A l \in Line : In(w, Persist(l)) <=> In(b, l)
  BY <1>1, <1>3, ItemMakes DEF In
<1>8. \A l, m \in Line : Precedes(w, Persist(l), Persist(m)) => Precedes(b, l, m)
  BY <1>1, <1>3, ItemMakes DEF Precedes
<1>9. \A c : ~In(w, Resume(c)) /\ ~Precedes(w, Resume(c), Resume(c))
  BY <1>1, <1>3, ItemMakes DEF In, Precedes
<1>10. Enqueued(t, items)
  BY <1>2, <1>6, EnqueueFacts
<1>11. \A l \in Line : In(items, Persist(l)) <=> Buffered(t, l)
  BY <1>2, <1>6, <1>7, ItemMakes DEF Buffered
<1>12. \A l, m \in Line : Precedes(items, Persist(l), Persist(m))
                            => Precedes(lg[t].pending, l, m)
  BY <1>2, <1>6, <1>8, ItemMakes
<1>13. \A c : ~In(items, Resume(c)) /\ ~Precedes(items, Resume(c), Resume(c))
  BY <1>6, <1>9, ItemMakes
<1> QED BY <1>6, <1>10, <1>11, <1>12, <1>13

\* initialize keeps the types.
LEMMA InitializeTyped ==
    ASSUME Typed, NEW t \in Tabs, NEW s \in Sessions, Initialize(t, s)
    PROVE  Typed'
<1>1. UNCHANGED <<clock, lines, task, db, call, timers, gone>>
  BY DEF Initialize
<1>2. PICK items \in Seq(Item) :
         /\ Enqueued(t, items)
         /\ \A c : ~In(items, Resume(c)) /\ ~Precedes(items, Resume(c), Resume(c))
  BY InitializeFacts
<1>3. queue' \in [Tabs -> [Queue -> Seq(Item)]]
  BY <1>2 DEF Enqueued
<1>4. WaitersFit'
  <2>1. \A u \in Tabs, q \in Queue, c \in Calls :
           /\ In(queue'[u][q], Resume(c)) <=> In(queue[u][q], Resume(c))
           /\ Precedes(queue'[u][q], Resume(c), Resume(c))
                 => Precedes(queue[u][q], Resume(c), Resume(c))
    BY <1>2 DEF Enqueued
  <2> QED BY <1>1, <2>1, WaitersStay
<1>5. /\ lg' \in [Tabs -> Logger]
      /\ \A u \in Tabs : lg'[u] =
            IF u = t THEN [lg[t] EXCEPT !.initialized = TRUE, !.session = s,
                               !.pending = <<>>, !.interval = TRUE,
                               !.intervals = @ + 1]
            ELSE lg[u]
  <2>1. lg \in [Tabs -> Logger] /\ <<>> \in Seq(Line)
    BY DEF Typed, TypeOK
  <2>2. lg[t] \in Logger /\ lg[t].intervals + 1 \in Nat
    BY <2>1 DEF Logger
  <2>3. [lg[t] EXCEPT !.initialized = TRUE, !.session = s, !.pending = <<>>,
                      !.interval = TRUE, !.intervals = @ + 1] \in Logger
    BY <2>1, <2>2 DEF Logger
  <2> QED BY <2>1, <2>3 DEF Initialize
<1>6. \A u \in Tabs : /\ lg'[u].queue = lg[u].queue
                      /\ lg'[u].initialized <=> lg'[u].session # None
                      /\ lg'[u].initialized => lg'[u].pending = <<>>
                      /\ lg'[u].interval => lg'[u].intervals > 0
                      /\ Len(lg'[u].pending) <= MaxPending
  <2> SUFFICES ASSUME NEW u \in Tabs
               PROVE  /\ lg'[u].queue = lg[u].queue
                      /\ lg'[u].initialized <=> lg'[u].session # None
                      /\ lg'[u].initialized => lg'[u].pending = <<>>
                      /\ lg'[u].interval => lg'[u].intervals > 0
                      /\ Len(lg'[u].pending) <= MaxPending
    OBVIOUS
  <2>1. CASE u = t
    <3>1. lg[t] \in Logger /\ s # None
      BY Types, NoneAssumption
    <3>2. /\ lg'[u].queue = lg[u].queue /\ lg'[u].initialized
          /\ lg'[u].session = s /\ lg'[u].pending = <<>>
          /\ lg'[u].intervals = lg[t].intervals + 1 /\ lg[t].intervals \in Nat
      BY <1>5, <2>1, <3>1 DEF Logger
    <3>3. Len(lg'[u].pending) <= MaxPending
      BY <3>2, Limits
    <3> QED BY <3>1, <3>2, <3>3
  <2>2. CASE u # t
    BY <1>5, <2>2 DEF Typed, TypeOK, LoggerFits
  <2> QED BY <2>1, <2>2
<1>7. \A u \in Tabs : Destroys(u) \subseteq Destroys(u)'
  BY <1>1 DEF Destroys
<1>8. \A u \in Tabs : LoggerFits(u)'
  BY <1>5, <1>6, <1>7, LoggersStay
<1> QED BY <1>1, <1>3, <1>4, <1>5, <1>6, <1>8 DEF Typed, TypeOK

\* A step of a queue or of a timer: the calls and the lines stay.
LEMMA StepTyped ==
    ASSUME Typed, UNCHANGED <<lines, call>>,
           clock' \in 0 .. MaxTime, timers' \in 0 .. MaxTime,
           \/ UNCHANGED queue
           \/ \E t \in Tabs : \E z : Pushed(t, z) /\ \A c \in Calls : z # Resume(c)
           \/ \E t \in Tabs, q \in Queue : \E h :
                 Popped(t, q, h) /\ \A c \in Calls : h # Resume(c),
           task' \in [Tabs -> [Queue -> Task]], db' \in [Sessions -> SUBSET Entry],
           gone' \subseteq Line, lg' \in [Tabs -> Logger],
           \A t \in Tabs :
              /\ lg'[t].initialized = lg[t].initialized
              /\ lg'[t].session = lg[t].session /\ lg'[t].pending = lg[t].pending
              /\ lg'[t].queue = lg[t].queue /\ lg'[t].interval = lg[t].interval
              /\ lg'[t].intervals = lg[t].intervals
    PROVE  Typed'
<1>1. /\ WaitersFit' /\ call' \in [Calls -> Call]
      /\ \A c \in Calls : StepOf(call'[c])
      /\ \A t \in Tabs : Destroys(t) \subseteq Destroys(t)'
  BY NoWaiters
<1>2. queue' \in [Tabs -> [Queue -> Seq(Item)]]
  BY DEF Typed, TypeOK, Pushed, Popped
<1>3. \A t \in Tabs : /\ lg'[t].queue = lg[t].queue
                      /\ lg'[t].initialized <=> lg'[t].session # None
                      /\ lg'[t].initialized => lg'[t].pending = <<>>
                      /\ lg'[t].interval => lg'[t].intervals > 0
                      /\ Len(lg'[t].pending) <= MaxPending
  BY DEF Typed, TypeOK, LoggerFits
<1>4. \A t \in Tabs : LoggerFits(t)'
  BY <1>1, <1>3, LoggersStay
<1> QED BY <1>1, <1>2, <1>3, <1>4 DEF Typed, TypeOK

\* Time keeps the types.
LEMMA TickTyped == ASSUME Typed, ClockTick PROVE Typed'
<1>1. clock' \in 0 .. MaxTime /\ timers' \in 0 .. MaxTime
  BY Limits DEF ClockTick, Typed, TypeOK
<1>2. /\ UNCHANGED <<lines, call, queue, task, db, gone, lg>>
      /\ task \in [Tabs -> [Queue -> Task]] /\ db \in [Sessions -> SUBSET Entry]
      /\ gone \subseteq Line /\ lg \in [Tabs -> Logger]
  BY DEF ClockTick, Typed, TypeOK
<1> QED BY <1>1, <1>2, StepTyped

\* The interval keeps the types.
LEMMA CleanupTimerTyped ==
    ASSUME Typed, NEW t \in Tabs, CleanupTimer(t) PROVE Typed'
<1>1. clock' \in 0 .. MaxTime /\ timers' \in 0 .. MaxTime
  BY Limits DEF CleanupTimer, Typed, TypeOK
<1>2. /\ UNCHANGED <<lines, call, task, db, gone, lg>>
      /\ task \in [Tabs -> [Queue -> Task]] /\ db \in [Sessions -> SUBSET Entry]
      /\ gone \subseteq Line /\ lg \in [Tabs -> Logger]
      /\ Enqueue(t, <<Cleanup>>)
  BY DEF CleanupTimer, Typed, TypeOK
<1>3. Pushed(t, Cleanup) /\ \A c \in Calls : Cleanup # Resume(c)
  BY <1>2, ItemMakes, EnqueueOne, Zenon
<1> QED BY <1>1, <1>2, <1>3, StepTyped

\* What a task of the queue leaves alone.
LEMMA TaskTyped ==
    ASSUME Typed, NEW t \in Tabs, NEW q \in Queue, NEW k \in Task, Run(t, q, k),
           UNCHANGED <<clock, lines, lg, call, timers>>,
           \/ UNCHANGED queue
           \/ \E h : Popped(t, q, h) /\ \A c \in Calls : h # Resume(c),
           db' \in [Sessions -> SUBSET Entry], gone' \subseteq Line
    PROVE  Typed'
<1>1. task' \in [Tabs -> [Queue -> Task]]
  BY RunFacts
<1>2. /\ clock' \in 0 .. MaxTime /\ timers' \in 0 .. MaxTime
      /\ lg' \in [Tabs -> Logger]
  BY DEF Typed, TypeOK
<1> QED BY <1>1, <1>2, StepTyped

\* The item at the head of a queue.
LEMMA Headed ==
    ASSUME Typed, NEW t \in Tabs, NEW q \in Queue, NEW kind,
           AtHead(t, q, kind), Pop(t, q)
    PROVE  /\ Popped(t, q, Head(queue[t][q])) /\ Head(queue[t][q]) \in Item
           /\ Head(queue[t][q]).kind = kind
           /\ kind # "resume" => \A c \in Calls : Head(queue[t][q]) # Resume(c)
<1>1. Popped(t, q, Head(queue[t][q])) /\ Head(queue[t][q]).kind = kind
  BY PopsFacts, Zenon
<1>2. Head(queue[t][q]) \in Item
  BY <1>1, Zenon DEF Popped
<1>3. \A c : Resume(c).kind = "resume"
  BY DEF Resume
<1> QED BY <1>1, <1>2, <1>3, Zenon

\* A line leaves its queue: types are kept.
LEMMA BeginPersistTyped ==
    ASSUME Typed, NEW t \in Tabs, NEW q \in Queue, BeginPersist(t, q) PROVE Typed'
<1> DEFINE h == Head(queue[t][q])
<1>1. /\ Popped(t, q, h) /\ h \in Item /\ h.kind = "persist"
      /\ \A c \in Calls : h # Resume(c)
  BY Headed DEF BeginPersist
<1>2. h.line \in Line
  BY <1>1, ItemCases
<1>3. UNCHANGED <<clock, lines, lg, db, call, timers>>
  BY DEF BeginPersist
<1>4. db' \in [Sessions -> SUBSET Entry] /\ gone \subseteq Line
  BY <1>3 DEF Typed, TypeOK
<1>5. CASE lg[t].session = None
  <2>1. gone' = gone \cup {h.line} /\ UNCHANGED task
    BY <1>5 DEF BeginPersist
  <2>2. /\ clock' \in 0 .. MaxTime /\ timers' \in 0 .. MaxTime
        /\ lg' \in [Tabs -> Logger] /\ task' \in [Tabs -> [Queue -> Task]]
    BY <1>3, <2>1 DEF Typed, TypeOK
  <2>3. gone' \subseteq Line
    BY <1>2, <1>4, <2>1
  <2> HIDE DEF h
  <2> QED BY <1>1, <1>3, <1>4, <2>2, <2>3, StepTyped
<1>6. CASE lg[t].session # None
  <2>1. /\ Run(t, q, [step |-> "encrypt", line |-> h.line, key |-> lg[t].session])
        /\ UNCHANGED gone
    BY <1>6 DEF BeginPersist
  <2>2. lg[t].session \in Sessions
    BY <1>6, Types DEF Logger
  <2>3. [step |-> "encrypt", line |-> h.line, key |-> lg[t].session] \in Task
    BY <1>2, <2>2, TaskMakes
  <2> HIDE DEF h
  <2> QED BY <1>1, <1>3, <1>4, <2>1, <2>3, TaskTyped
<1> QED BY <1>5, <1>6

\* A line is encrypted: types are kept.
LEMMA EncryptedTyped ==
    ASSUME Typed, NEW t \in Tabs, NEW q \in Queue, Encrypted(t, q) PROVE Typed'
<1> DEFINE k == task[t][q]
<1>1. /\ k \in Task /\ k.line \in Line /\ k.key \in Sessions
  BY Types, TaskCases DEF Encrypted
<1>2. lg \in [Tabs -> Logger] /\ lg[t] \in Logger /\ lg[t].sequence + 1 \in Nat
  BY Types DEF Typed, TypeOK, Logger
<1>3. /\ lg' = [lg EXCEPT ![t].sequence = @ + 1]
      /\ UNCHANGED <<clock, lines, queue, db, call, timers>>
  BY DEF Encrypted
<1>4. /\ lg' \in [Tabs -> Logger]
      /\ \A u \in Tabs :
              /\ lg'[u].initialized = lg[u].initialized
              /\ lg'[u].session = lg[u].session /\ lg'[u].pending = lg[u].pending
              /\ lg'[u].queue = lg[u].queue /\ lg'[u].interval = lg[u].interval
              /\ lg'[u].intervals = lg[u].intervals
  BY <1>2, <1>3 DEF Logger
<1>5. /\ clock' \in 0 .. MaxTime /\ timers' \in 0 .. MaxTime
      /\ db' \in [Sessions -> SUBSET Entry] /\ gone \subseteq Line
  BY <1>3 DEF Typed, TypeOK
<1>6. task' \in [Tabs -> [Queue -> Task]] /\ gone' \subseteq Line
  <2>1. CASE lg[t].session = None
    <3>1. Run(t, q, Idle) /\ gone' = gone \cup {k.line}
      BY <2>1 DEF Encrypted
    <3> HIDE DEF k
    <3> QED BY <1>1, <1>5, <3>1, TaskMakes, RunFacts
  <2>2. CASE lg[t].session # None
    <3> DEFINE e == [line |-> k.line, key |-> k.key, sequence |-> lg[t].sequence]
    <3>1. /\ Run(t, q, [step |-> "store", to |-> lg[t].session, entry |-> e])
          /\ UNCHANGED gone
      BY <2>2 DEF Encrypted
    <3>2. e \in Written /\ lg[t].session \in Sessions
      BY <1>1, <1>2, <2>2 DEF Written, Logger
    <3> HIDE DEF e
    <3>3. [step |-> "store", to |-> lg[t].session, entry |-> e] \in Task
      BY <3>2, TaskMakes
    <3> QED BY <1>5, <3>1, <3>3, RunFacts
  <2> QED BY <2>1, <2>2
<1> QED BY <1>3, <1>4, <1>5, <1>6, StepTyped

\* What is left of the databases, and what is gone.
LEMMA DeleteFacts ==
    ASSUME Typed, NEW s \in Sessions, NEW old, Delete(s, old), old \subseteq db[s]
    PROVE  /\ db' \in [Sessions -> SUBSET Entry] /\ gone' \subseteq Line
           /\ gone \subseteq gone'
           /\ \A r \in Sessions : db'[r] = IF r = s THEN db[s] \ old ELSE db[r]
           /\ \A e \in old : e.line # Old => e.line \in gone'
<1>1. /\ db' = [db EXCEPT ![s] = @ \ old] /\ db \in [Sessions -> SUBSET Entry]
      /\ gone' = gone \cup ({e.line : e \in old} \ {Old}) /\ gone \subseteq Line
  BY DEF Delete, Typed, TypeOK
<1>2. /\ db' \in [Sessions -> SUBSET Entry]
      /\ \A r \in Sessions : db'[r] = IF r = s THEN db[s] \ old ELSE db[r]
  BY <1>1
<1>3. \A e \in old : e.line \in Line \cup {Old}
  BY <1>1, EntryCases
<1> QED BY <1>1, <1>2, <1>3

\* An entry is added: types are kept.
LEMMA StoreTyped ==
    ASSUME Typed, NEW t \in Tabs, NEW q \in Queue, Store(t, q) PROVE Typed'
<1> DEFINE k == task[t][q]
<1>1. /\ k \in Task /\ k.entry \in Written /\ k.to \in Sessions
  BY Types, TaskCases DEF Store
<1>2. /\ Run(t, q, Idle) /\ UNCHANGED <<clock, lines, lg, queue, call, timers>>
      /\ db' = [db EXCEPT ![k.to] = @ \cup {k.entry}]
      /\ gone' = IF k.entry.key = k.to THEN gone ELSE gone \cup {k.entry.line}
  BY DEF Store
<1>3. db \in [Sessions -> SUBSET Entry] /\ gone \subseteq Line
  BY DEF Typed, TypeOK
<1> HIDE DEF k
<1>4. db' \in [Sessions -> SUBSET Entry]
  BY <1>1, <1>2, <1>3, EntryCases
<1>5. gone' \subseteq Line
  BY <1>1, <1>2, <1>3, EntryCases
<1> QED BY <1>2, <1>4, <1>5, TaskMakes, TaskTyped

\* A cleanup begins: types are kept.
LEMMA BeginCleanupTyped ==
    ASSUME Typed, NEW t \in Tabs, NEW q \in Queue, BeginCleanup(t, q) PROVE Typed'
<1> DEFINE h == Head(queue[t][q])
           k == IF lg[t].session = None THEN Idle
                ELSE [step |-> "expire", before |-> clock - Retention,
                      to |-> lg[t].session]
<1>1. Popped(t, q, h) /\ \A c \in Calls : h # Resume(c)
  BY Headed DEF BeginCleanup
<1>2. /\ Run(t, q, k) /\ UNCHANGED <<clock, lines, lg, db, call, timers, gone>>
  BY DEF BeginCleanup, Then
<1>3. db' \in [Sessions -> SUBSET Entry] /\ gone' \subseteq Line
  BY <1>2 DEF Typed, TypeOK
<1>4. k \in Task
  <2>1. clock - Retention \in Int
    BY Limits DEF Typed, TypeOK
  <2>2. lg[t].session \in Sessions \cup {None}
    BY Types DEF Logger
  <2> QED BY <2>1, <2>2, TaskMakes
<1> HIDE DEF h, k
<1> QED BY <1>1, <1>2, <1>3, <1>4, TaskTyped

\* Old entries are removed: types are kept.
LEMMA ExpireTyped ==
    ASSUME Typed, NEW t \in Tabs, NEW q \in Queue, Expire(t, q) PROVE Typed'
<1> DEFINE s == task[t][q].to
           old == {e \in db[s] : Stamp(e) <= task[t][q].before}
           k == IF lg[t].session = None THEN Idle
                ELSE [step |-> "count", to |-> lg[t].session]
<1>1. Delete(s, old) /\ s \in Sessions /\ old \subseteq db[s]
  BY Types, TaskCases DEF Expire
<1>2. Run(t, q, k) /\ UNCHANGED <<clock, lines, lg, queue, call, timers>>
  BY DEF Expire, Then
<1>3. k \in Task
  BY Types, TaskMakes DEF Logger
<1> HIDE DEF s, old, k
<1>4. db' \in [Sessions -> SUBSET Entry] /\ gone' \subseteq Line
  BY <1>1, DeleteFacts
<1> QED BY <1>2, <1>3, <1>4, TaskTyped

\* A trim removes no more than the excess.
LEMMA CountTyped ==
    ASSUME Typed, NEW t \in Tabs, NEW q \in Queue, Count(t, q),
           \A s \in Sessions : IsFiniteSet(db[s])
    PROVE  Typed'
<1> DEFINE n == Cardinality(db[task[t][q].to])
           trim == [step |-> "trim", to |-> lg[t].session, count |-> Excess(n)]
           k == IF n <= MaxEntries \/ lg[t].session = None THEN Idle ELSE trim
<1>1. n \in Nat
  BY Types, TaskCases, FS_CardinalityType DEF Count
<1>2. Run(t, q, k) /\ UNCHANGED <<clock, lines, lg, queue, db, call, timers, gone>>
  BY DEF Count, Then
<1> HIDE DEF n
<1>3. k \in Task
  <2>1. Excess(n) \in Nat
    BY <1>1, Limits DEF Excess
  <2>2. lg[t].session \in Sessions \cup {None}
    BY Types DEF Logger
  <2> QED BY <2>1, <2>2, TaskMakes
<1> HIDE DEF k
<1>4. db' \in [Sessions -> SUBSET Entry] /\ gone' \subseteq Line
  BY <1>2 DEF Typed, TypeOK
<1> QED BY <1>2, <1>3, <1>4, TaskTyped

\* The excess is removed: types are kept.
LEMMA TrimTyped ==
    ASSUME Typed, NEW t \in Tabs, NEW q \in Queue, Trim(t, q) PROVE Typed'
<1> DEFINE s == task[t][q].to
<1>1. PICK old \in SUBSET db[s] : Delete(s, old)
  BY DEF Trim
<1>2. s \in Sessions
  BY Types, TaskCases DEF Trim
<1>3. Run(t, q, Idle) /\ UNCHANGED <<clock, lines, lg, queue, call, timers>>
  BY DEF Trim
<1> HIDE DEF s
<1>4. db' \in [Sessions -> SUBSET Entry] /\ gone' \subseteq Line
  BY <1>1, <1>2, DeleteFacts
<1> QED BY <1>3, <1>4, TaskMakes, TaskTyped

\* A storage call fails: types are kept.
LEMMA FailTyped ==
    ASSUME Typed, NEW t \in Tabs, NEW q \in Queue, Fail(t, q) PROVE Typed'
<1> DEFINE k == task[t][q]
<1>1. k.step = "store" => k.entry.line \in Line
  BY Types, TaskCases, EntryCases
<1>2. /\ Run(t, q, Idle) /\ UNCHANGED <<clock, lines, lg, queue, db, call, timers>>
      /\ gone' = IF k.step = "store" THEN gone \cup {k.entry.line} ELSE gone
  BY DEF Fail
<1> HIDE DEF k
<1>3. db' \in [Sessions -> SUBSET Entry] /\ gone' \subseteq Line
  BY <1>1, <1>2 DEF Typed, TypeOK
<1> QED BY <1>2, <1>3, TaskMakes, TaskTyped

\* A call goes on, or ends, without its queue.
LEMMA CallTyped ==
    ASSUME Typed, NEW c \in Calls, NEW r \in Call, StepOf(r), call[c].step # "done",
           call[c].step # "wait", r.step # "wait",
           call' = [call EXCEPT ![c] = r],
           UNCHANGED <<clock, lines, lg, queue, task, timers>>,
           db' \in [Sessions -> SUBSET Entry], gone' \subseteq Line
    PROVE  Typed'
<1>1. /\ call' \in [Calls -> Call]
      /\ \A d \in Calls : /\ call'[d] = IF d = c THEN r ELSE call[d]
                          /\ StepOf(call'[d])
      /\ \A t \in Tabs : Destroys(t) \subseteq Destroys(t)'
  BY CallChange
<1>2. WaitersFit'
  BY <1>1, WaitersStay
<1>3. \A t \in Tabs : LoggerFits(t)'
  BY <1>1, LoggersStay DEF Typed, TypeOK, LoggerFits
<1> QED BY <1>1, <1>2, <1>3 DEF Typed, TypeOK

\* A read whose entries are on the way holds lines of them.
LEMMA RetrieveTyped == ASSUME Typed, NEW c \in Calls, Retrieve(c) PROVE Typed'
<1> DEFINE got == {e.line : e \in db[call[c].session]}
           r == IF \A e \in db[call[c].session] : e.key = call[c].session
                THEN [call[c] EXCEPT !.step = "settle", !.result = got]
                ELSE [call[c] EXCEPT !.step = "wipe", !.ok = FALSE]
<1>1. /\ call[c].step = "read" /\ call' = [call EXCEPT ![c] = r]
      /\ UNCHANGED <<clock, lines, lg, queue, task, db, timers, gone>>
  BY DEF Retrieve
<1>2. call[c] \in Call /\ StepOf(call[c]) /\ call[c].session \in Sessions
  BY <1>1, Types DEF Call, StepOf
<1>3. got \subseteq Line \cup {Old}
  BY <1>2, Types, EntryCases
<1> HIDE DEF got
<1>4. /\ r \in Call /\ r.step \in {"settle", "wipe"} /\ r.op = call[c].op
      /\ r.session = call[c].session
  <2>1. CASE \A e \in db[call[c].session] : e.key = call[c].session
    BY <1>2, <1>3, <2>1 DEF Call
  <2>2. CASE ~\A e \in db[call[c].session] : e.key = call[c].session
    BY <1>2, <2>2 DEF Call
  <2> QED BY <2>1, <2>2
<1> HIDE DEF r
<1>5. StepOf(r)
  BY <1>1, <1>2, <1>4, NoneAssumption DEF StepOf
<1>6. db' \in [Sessions -> SUBSET Entry] /\ gone' \subseteq Line
  BY <1>1 DEF Typed, TypeOK
<1> QED BY <1>1, <1>4, <1>5, <1>6, CallTyped

\* What cannot be read is cleared: types are kept.
LEMMA WipeTyped == ASSUME Typed, NEW c \in Calls, Wipe(c) PROVE Typed'
<1> DEFINE r == [call[c] EXCEPT !.step = "settle"]
<1>1. call[c] \in Call /\ StepOf(call[c]) /\ call[c].step = "wipe"
  BY Types DEF Wipe
<1>2. call[c].session \in Sessions
  BY <1>1 DEF Call, StepOf
<1>3. call' = [call EXCEPT ![c] = r] /\ Delete(call[c].session, db[call[c].session])
  BY DEF Wipe
<1>4. r \in Call /\ r.step = "settle" /\ r.op = call[c].op /\ StepOf(r)
  BY <1>1 DEF Call, StepOf
<1>5. UNCHANGED <<clock, lines, lg, queue, task, timers>>
  BY DEF Wipe
<1> HIDE DEF r
<1>6. db' \in [Sessions -> SUBSET Entry] /\ gone' \subseteq Line
  BY <1>2, <1>3, DeleteFacts
<1> QED BY <1>1, <1>3, <1>4, <1>5, <1>6, CallTyped

\* clearLogs clears: types are kept.
LEMMA ClearTyped == ASSUME Typed, NEW c \in Calls, Clear(c) PROVE Typed'
<1> DEFINE r == [call[c] EXCEPT !.step = "done"]
<1>1. call[c] \in Call /\ StepOf(call[c]) /\ call[c].step = "clear"
  BY Types DEF Clear
<1>2. call[c].session \in Sessions
  BY <1>1 DEF Call, StepOf
<1>3. call' = [call EXCEPT ![c] = r] /\ Delete(call[c].session, db[call[c].session])
  BY DEF Clear
<1>4. r \in Call /\ r.step = "done" /\ r.op = call[c].op /\ StepOf(r)
  BY <1>1 DEF Call, StepOf
<1>5. UNCHANGED <<clock, lines, lg, queue, task, timers>>
  BY DEF Clear
<1> HIDE DEF r
<1>6. db' \in [Sessions -> SUBSET Entry] /\ gone' \subseteq Line
  BY <1>2, <1>3, DeleteFacts
<1> QED BY <1>1, <1>3, <1>4, <1>5, <1>6, CallTyped

\* A read or a clear fails: types are kept.
LEMMA FailedTyped ==
    ASSUME Typed, NEW c \in Calls, FailRead(c) \/ FailClear(c) PROVE Typed'
<1> DEFINE r == [call[c] EXCEPT !.step = IF call[c].step = "clear" THEN "done"
                                         ELSE "settle", !.ok = FALSE]
<1>1. /\ call[c] \in Call /\ StepOf(call[c])
      /\ call[c].step \in {"read", "wipe", "clear"}
  BY Types DEF FailRead, FailClear
<1>2. /\ call' = [call EXCEPT ![c] = r]
      /\ UNCHANGED <<clock, lines, lg, queue, task, db, timers, gone>>
  <2>1. call \in [Calls -> Call]
    BY DEF Typed, TypeOK
  <2>2. CASE FailRead(c)
    BY <1>1, <2>1, <2>2 DEF FailRead, Call
  <2>3. CASE FailClear(c)
    BY <1>1, <2>1, <2>3 DEF FailClear, Call
  <2> QED BY <2>2, <2>3
<1>3. r \in Call /\ r.step \in {"done", "settle"} /\ StepOf(r)
  BY <1>1 DEF Call, StepOf
<1> HIDE DEF r
<1>4. db' \in [Sessions -> SUBSET Entry] /\ gone' \subseteq Line
  BY <1>2 DEF Typed, TypeOK
<1> QED BY <1>1, <1>2, <1>3, <1>4, CallTyped

\* What a call starts with.
LEMMA NewFacts ==
    ASSUME Typed, NEW t \in Tabs, NEW op \in Ops
    PROVE  /\ New(t, op) \in Call /\ New(t, op).op = op /\ New(t, op).tab = t
           /\ New(t, op).queue = lg[t].queue /\ New(t, op).of = None
           /\ New(t, op).step = "done" /\ New(t, op).ok = FALSE
           /\ \A l \in New(t, op).before :
                 Of(t, lg[t].queue, l) /\ ~Buffered(t, l)
           /\ op # "none"
<1> DEFINE b == {i \in 1 .. Len(lines) :
                   lines[i].tab = t /\ lines[i].queue = lg[t].queue}
                     \ ToSet(lg[t].pending)
<1>1. b \subseteq Line /\ lg[t].queue \in Queue
  BY Types
<1>2. \A l \in b : Of(t, lg[t].queue, l) /\ ~Buffered(t, l)
  <2>1. lg[t].pending \in Seq(Line)
    BY Types DEF Logger
  <2>2. \A l : In(lg[t].pending, l) => l \in ToSet(lg[t].pending)
    BY <2>1, LenProperties DEF In, ToSet
  <2> QED BY <2>2 DEF Of, Buffered
<1>3. op # "none"
  BY OpsAssumption
<1>4. New(t, op) = [op |-> op, tab |-> t, of |-> None, step |-> "done",
                    session |-> None, queue |-> lg[t].queue, result |-> {},
                    ok |-> FALSE, before |-> b]
  BY DEF New
<1> HIDE DEF b
<1> QED BY <1>1, <1>2, <1>3, <1>4 DEF Call

\* A call that awaits the writes; the loggers change apart from it.
LEMMA AwaitTyped ==
    ASSUME Typed, NEW c \in Calls, NEW t \in Tabs, NEW r \in Call, Unused(c),
           Await(c, t, r), r.tab = t, r.queue = lg[t].queue, r.op # "none",
           UNCHANGED <<clock, lines, task, db, timers, gone>>,
           lg' \in [Tabs -> Logger],
           \A u \in Tabs :
              /\ lg'[u].initialized = lg[u].initialized
              /\ lg'[u].session = lg[u].session /\ lg'[u].pending = lg[u].pending
              /\ lg'[u].queue = lg[u].queue
              /\ lg'[u].interval => lg'[u].intervals > 0
    PROVE  Typed'
<1> DEFINE k == [r EXCEPT !.step = "wait"]
<1>1. k \in Call /\ k.step = "wait" /\ k.tab = t /\ k.queue = lg[t].queue /\ k.op = r.op
  BY DEF Call
<1>2. call' = [call EXCEPT ![c] = k] /\ Enqueue(t, <<Resume(c)>>)
  BY DEF Await
<1> HIDE DEF k
<1>3. StepOf(k)
  BY <1>1 DEF StepOf
<1>4. call[c].step = "none"
  BY DEF Unused, Typed, StepOf
<1>5. /\ call' \in [Calls -> Call]
      /\ \A d \in Calls : /\ call'[d] = IF d = c THEN k ELSE call[d]
                          /\ StepOf(call'[d])
      /\ \A u \in Tabs : Destroys(u) \subseteq Destroys(u)'
  BY <1>1, <1>2, <1>3, <1>4, CallChange
<1>6. WaitersFit'
  BY <1>1, <1>2, <1>5, WaiterJoins
<1>7. queue' \in [Tabs -> [Queue -> Seq(Item)]]
  <2>1. Pushed(t, Resume(c))
    BY <1>2, ItemMakes, EnqueueOne, Zenon
  <2> QED BY <2>1 DEF Pushed
<1>8. \A u \in Tabs : LoggerFits(u)'
  BY <1>5, LoggersStay DEF Typed, LoggerFits
<1> QED BY <1>5, <1>6, <1>7, <1>8 DEF Typed, TypeOK

\* A call that does not.
LEMMA DoneTyped ==
    ASSUME Typed, NEW c \in Calls, NEW r \in Call, Unused(c), Done(c, r),
           StepOf(r), r.step # "wait",
           UNCHANGED <<clock, lines, lg, task, db, timers, gone>>
    PROVE  Typed'
<1>1. call[c].step = "none"
  BY DEF Unused, Typed, StepOf
<1>2. call' = [call EXCEPT ![c] = r] /\ UNCHANGED queue
  BY DEF Done
<1>3. db' \in [Sessions -> SUBSET Entry] /\ gone' \subseteq Line
  BY DEF Typed, TypeOK
<1> QED BY <1>1, <1>2, <1>3, CallTyped

\* flush keeps the types.
LEMMA FlushTyped ==
    ASSUME Typed, NEW c \in Calls, NEW t \in Tabs, "flush" \in Ops, Flush(c, t)
    PROVE  Typed'
<1>1. /\ Unused(c) /\ Await(c, t, New(t, "flush"))
      /\ UNCHANGED <<clock, lines, lg, task, db, timers, gone>>
  BY DEF Flush
<1>2. /\ New(t, "flush") \in Call /\ New(t, "flush").tab = t
      /\ New(t, "flush").queue = lg[t].queue /\ New(t, "flush").op = "flush"
  BY NewFacts
<1>3. /\ lg' \in [Tabs -> Logger]
      /\ \A u \in Tabs :
              /\ lg'[u].initialized = lg[u].initialized
              /\ lg'[u].session = lg[u].session /\ lg'[u].pending = lg[u].pending
              /\ lg'[u].queue = lg[u].queue
              /\ lg'[u].interval => lg'[u].intervals > 0
  BY <1>1 DEF Typed, TypeOK, LoggerFits
<1> QED BY <1>1, <1>2, <1>3, AwaitTyped

\* clearLogs keeps the types.
LEMMA ClearLogsTyped ==
    ASSUME Typed, NEW c \in Calls, NEW t \in Tabs, "clearLogs" \in Ops,
           ClearLogs(c, t)
    PROVE  Typed'
<1> DEFINE r == New(t, "clearLogs")
<1>1. /\ Unused(c) /\ UNCHANGED <<clock, lines, lg, task, db, timers, gone>>
      /\ Await(c, t, r) \/ Done(c, r)
  BY DEF ClearLogs
<1>2. /\ r \in Call /\ r.tab = t /\ r.queue = lg[t].queue /\ r.op = "clearLogs"
      /\ r.step = "done"
  BY NewFacts
<1>3. /\ lg' \in [Tabs -> Logger]
      /\ \A u \in Tabs :
              /\ lg'[u].initialized = lg[u].initialized
              /\ lg'[u].session = lg[u].session /\ lg'[u].pending = lg[u].pending
              /\ lg'[u].queue = lg[u].queue
              /\ lg'[u].interval => lg'[u].intervals > 0
  BY <1>1 DEF Typed, TypeOK, LoggerFits
<1> HIDE DEF r
<1>4. CASE Await(c, t, r)
  BY <1>1, <1>2, <1>3, <1>4, AwaitTyped
<1>5. CASE Done(c, r)
  BY <1>1, <1>2, <1>5, DoneTyped DEF StepOf
<1> QED BY <1>1, <1>4, <1>5

\* destroy keeps the types.
LEMMA DestroyTyped ==
    ASSUME Typed, NEW c \in Calls, NEW t \in Tabs, "destroy" \in Ops, Destroy(c, t)
    PROVE  Typed'
<1> DEFINE r == New(t, "destroy")
<1>1. /\ Unused(c) /\ UNCHANGED <<clock, lines, task, db, timers, gone>>
      /\ Await(c, t, r)
      /\ lg' = [lg EXCEPT ![t].interval = FALSE,
                  ![t].intervals = IF lg[t].interval THEN @ - 1 ELSE @]
  BY DEF Destroy
<1>2. /\ r \in Call /\ r.tab = t /\ r.queue = lg[t].queue /\ r.op = "destroy"
  BY NewFacts
<1>3. /\ lg' \in [Tabs -> Logger]
      /\ \A u \in Tabs :
              /\ lg'[u].initialized = lg[u].initialized
              /\ lg'[u].session = lg[u].session /\ lg'[u].pending = lg[u].pending
              /\ lg'[u].queue = lg[u].queue
              /\ lg'[u].interval => lg'[u].intervals > 0
  <2> DEFINE n == IF lg[t].interval THEN lg[t].intervals - 1 ELSE lg[t].intervals
             g == [lg[t] EXCEPT !.interval = FALSE, !.intervals = n]
  <2>1. /\ lg \in [Tabs -> Logger] /\ lg[t] \in Logger /\ n \in Nat
    BY Types DEF Typed, TypeOK, LoggerFits, Logger
  <2>2. lg' = [lg EXCEPT ![t] = g]
    BY <1>1, <2>1 DEF Logger
  <2> HIDE DEF n
  <2>3. /\ g \in Logger /\ ~g.interval /\ g.initialized = lg[t].initialized
        /\ g.session = lg[t].session /\ g.pending = lg[t].pending
        /\ g.queue = lg[t].queue
    BY <2>1 DEF Logger
  <2> HIDE DEF g
  <2> QED BY <2>1, <2>2, <2>3 DEF Typed, LoggerFits
<1> HIDE DEF r
<1> QED BY <1>1, <1>2, <1>3, AwaitTyped

\* getLogs keeps the types.
LEMMA GetLogsTyped ==
    ASSUME Typed, NEW c \in Calls, NEW t \in Tabs, "getLogs" \in Ops, GetLogs(c, t)
    PROVE  Typed'
<1> DEFINE r == New(t, "getLogs")
           joined == [r EXCEPT !.step = "join", !.of = lg[t].read]
           first == [r EXCEPT !.of = c]
<1>1. /\ Unused(c) /\ UNCHANGED <<clock, lines, task, db, timers, gone>>
      /\ \/ Done(c, r) /\ UNCHANGED lg
         \/ lg[t].read # None /\ Done(c, joined) /\ UNCHANGED lg
         \/ Await(c, t, first) /\ lg' = [lg EXCEPT ![t].read = c]
  BY DEF GetLogs
<1>2. /\ r \in Call /\ r.tab = t /\ r.queue = lg[t].queue /\ r.op = "getLogs"
      /\ r.step = "done"
  BY NewFacts
<1>3. lg \in [Tabs -> Logger] /\ lg[t] \in Logger /\ lg[t].read \in Calls \cup {None}
  BY Types DEF Typed, TypeOK, Logger
<1> HIDE DEF r
<1>4. /\ joined \in Call /\ joined.step = "join" /\ joined.op = "getLogs"
      /\ first \in Call /\ first.tab = t /\ first.queue = lg[t].queue
      /\ first.op = "getLogs"
  BY <1>2, <1>3 DEF Call
<1> HIDE DEF joined, first
<1>5. CASE Done(c, r) /\ UNCHANGED lg
  BY <1>1, <1>2, <1>5, DoneTyped DEF StepOf
<1>6. CASE Done(c, joined) /\ UNCHANGED lg
  BY <1>1, <1>4, <1>6, DoneTyped DEF StepOf
<1>7. CASE Await(c, t, first) /\ lg' = [lg EXCEPT ![t].read = c]
  <2>1. /\ lg' \in [Tabs -> Logger]
        /\ \A u \in Tabs :
              /\ lg'[u].initialized = lg[u].initialized
              /\ lg'[u].session = lg[u].session /\ lg'[u].pending = lg[u].pending
              /\ lg'[u].queue = lg[u].queue
              /\ lg'[u].interval => lg'[u].intervals > 0
    BY <1>3, <1>7 DEF Logger, Typed, LoggerFits
  <2> QED BY <1>1, <1>4, <1>7, <2>1, AwaitTyped
<1> QED BY <1>1, <1>5, <1>6, <1>7

\* The call that goes on is the one that waited in the queue.
LEMMA ResumedFacts ==
    ASSUME Typed, NEW t \in Tabs, NEW q \in Queue, Resumed(t, q)
    PROVE  \E c \in Calls, r \in Call :
             /\ AtHead(t, q, "resume") /\ Pop(t, q)
             /\ Head(queue[t][q]) = Resume(c) /\ Popped(t, q, Resume(c))
             /\ call' = [call EXCEPT ![c] = r]
             /\ call[c].step = "wait" /\ call[c].tab = t /\ call[c].queue = q
             /\ r.op = call[c].op /\ r.tab = t /\ r.queue = q /\ r.of = call[c].of
             /\ r.before = call[c].before /\ r.session = lg[t].session
             /\ r.result = call[c].result
             /\ r.ok = (lg[t].session # None /\ lg[t].queue = q)
             /\ r.step = IF r.op = "flush" THEN "done"
                         ELSE IF r.op = "destroy" THEN "close"
                         ELSE IF r.op = "getLogs"
                         THEN IF lg[t].session = None THEN "settle" ELSE "read"
                         ELSE IF lg[t].session = None THEN "done" ELSE "clear"
             /\ r.op \in {"flush", "getLogs", "clearLogs", "destroy"}
             /\ StepOf(r)
<1> DEFINE c == Head(queue[t][q]).call
           s == lg[t].session
           step == [flush |-> "done", destroy |-> "close",
                    getLogs |-> IF s = None THEN "settle" ELSE "read",
                    clearLogs |-> IF s = None THEN "done" ELSE "clear"][call[c].op]
           r == [call[c] EXCEPT !.step = step, !.session = s,
                                !.ok = s # None /\ lg[t].queue = q]
<1>1. /\ AtHead(t, q, "resume") /\ Pop(t, q) /\ call' = [call EXCEPT ![c] = r]
  BY DEF Resumed, Typed, TypeOK, Call
<1>2. Popped(t, q, Head(queue[t][q])) /\ Head(queue[t][q]) \in Item
      /\ Head(queue[t][q]).kind = "resume"
  BY <1>1, Headed, Zenon
<1>3. c \in Calls /\ Head(queue[t][q]) = Resume(c)
  BY <1>2, ItemCases
<1>4. Popped(t, q, Resume(c))
  BY <1>2, <1>3
<1> HIDE DEF c
<1>5. call[c].step = "wait" /\ call[c].tab = t /\ call[c].queue = q
  BY <1>3, <1>4 DEF Typed, WaitersFit, Popped
<1>6. /\ call[c] \in Call /\ StepOf(call[c]) /\ s \in Sessions \cup {None}
      /\ call[c].op \in {"flush", "getLogs", "clearLogs", "destroy"}
  <2>1. call[c] \in Call /\ StepOf(call[c]) /\ s \in Sessions \cup {None}
    BY <1>3, Types DEF Logger
  <2>2. call[c].op # "none"
    BY <1>5, <2>1 DEF StepOf
  <2> QED BY <2>1, <2>2, OpsAssumption DEF Call
<1>7. step = IF call[c].op = "flush" THEN "done"
             ELSE IF call[c].op = "destroy" THEN "close"
             ELSE IF call[c].op = "getLogs"
             THEN IF s = None THEN "settle" ELSE "read"
             ELSE IF s = None THEN "done" ELSE "clear"
  BY <1>6
<1> HIDE DEF step, s
<1>8. /\ r \in Call /\ r.op = call[c].op /\ r.tab = t /\ r.queue = q
      /\ r.of = call[c].of /\ r.before = call[c].before /\ r.session = s
      /\ r.result = call[c].result
      /\ r.ok = (s # None /\ lg[t].queue = q) /\ r.step = step
  <2>1. step \in {"read", "settle", "clear", "close", "done"}
    BY <1>7
  <2> QED BY <1>5, <1>6, <2>1 DEF Call
<1> HIDE DEF r
<1>9. StepOf(r)
  BY <1>6, <1>7, <1>8, NoneAssumption DEF StepOf
<1> QED BY <1>1, <1>3, <1>4, <1>5, <1>6, <1>7, <1>8, <1>9 DEF s

\* A call that has waited goes on: types are kept.
LEMMA ResumedTyped ==
    ASSUME Typed, NEW t \in Tabs, NEW q \in Queue, Resumed(t, q) PROVE Typed'
<1>1. PICK c \in Calls, r \in Call :
             /\ AtHead(t, q, "resume") /\ Pop(t, q)
             /\ Head(queue[t][q]) = Resume(c) /\ Popped(t, q, Resume(c))
             /\ call' = [call EXCEPT ![c] = r] /\ call[c].step = "wait"
             /\ r.step # "wait" /\ StepOf(r)
  BY ResumedFacts
<1>2. UNCHANGED <<clock, lines, lg, task, db, timers, gone>>
  BY DEF Resumed
<1>3. /\ call' \in [Calls -> Call]
      /\ \A d \in Calls : /\ call'[d] = IF d = c THEN r ELSE call[d]
                          /\ StepOf(call'[d])
      /\ \A u \in Tabs : Destroys(u) \subseteq Destroys(u)'
  BY <1>1, CallChange
<1>4. WaitersFit'
  BY <1>1, <1>3, WaiterLeaves
<1>5. queue' \in [Tabs -> [Queue -> Seq(Item)]]
  BY <1>1 DEF Popped
<1>6. \A u \in Tabs : LoggerFits(u)'
  BY <1>2, <1>3, LoggersStay DEF Typed, TypeOK, LoggerFits
<1> QED BY <1>2, <1>3, <1>4, <1>5, <1>6 DEF Typed, TypeOK

\* The end of a read is the end of those that joined it.
Answered(d, c) == [call[d] EXCEPT !.step = "done", !.result = call[c].result,
                                  !.ok = call[c].ok]

\* What a read that ends does to its call and to those that joined it.
LEMMA SettleFacts ==
    ASSUME Typed, NEW c \in Calls, Settle(c)
    PROVE  /\ UNCHANGED <<clock, lines, queue, task, db, timers, gone>>
           /\ call[c].step = "settle" /\ call[c].tab \in Tabs
           /\ lg' = [lg EXCEPT ![call[c].tab].read = None]
           /\ call' \in [Calls -> Call]
           /\ \A d \in Calls :
                IF d # c /\ ~(call[d].step = "join" /\ call[d].of = c)
                THEN call'[d] = call[d]
                ELSE /\ call'[d].step = "done" /\ call'[d].result = call[c].result
                     /\ call'[d].ok = call[c].ok /\ call'[d].op = call[d].op
                     /\ call'[d].tab = call[d].tab /\ call'[d].queue = call[d].queue
                     /\ call'[d].of = call[d].of /\ call'[d].before = call[d].before
<1>1. /\ UNCHANGED <<clock, lines, queue, task, db, timers, gone>>
      /\ call[c].step = "settle"
      /\ lg' = [lg EXCEPT ![call[c].tab].read = None]
      /\ call' = [d \in Calls |->
                    IF d # c /\ ~(call[d].step = "join" /\ call[d].of = c)
                    THEN call[d] ELSE Answered(d, c)]
  BY Zenon DEF Settle, Answered
<1>2. \A d \in Calls : call[d] \in Call
  BY Types
<1>3. \A d \in Calls :
         /\ Answered(d, c) \in Call /\ Answered(d, c).step = "done"
         /\ Answered(d, c).result = call[c].result /\ Answered(d, c).ok = call[c].ok
         /\ Answered(d, c).op = call[d].op /\ Answered(d, c).tab = call[d].tab
         /\ Answered(d, c).queue = call[d].queue /\ Answered(d, c).of = call[d].of
         /\ Answered(d, c).before = call[d].before
  BY <1>2 DEF Answered, Call
<1>4. call[c].tab \in Tabs
  BY <1>2 DEF Call
<1> QED BY <1>1, <1>2, <1>3, <1>4

\* A read ends: types are kept.
LEMMA SettleTyped == ASSUME Typed, NEW c \in Calls, Settle(c) PROVE Typed'
<1>1. /\ UNCHANGED <<clock, lines, queue, task, db, timers, gone>>
      /\ call[c].step = "settle" /\ call[c].tab \in Tabs
      /\ lg' = [lg EXCEPT ![call[c].tab].read = None]
      /\ call' \in [Calls -> Call]
  BY SettleFacts
<1>2. \A d \in Calls :
         \/ call'[d] = call[d]
         \/ /\ call[d].step \in {"settle", "join"} /\ call'[d].step = "done"
            /\ call'[d].op = call[d].op
  BY SettleFacts
<1>3. \A d \in Calls : StepOf(call[d])
  BY Types
<1>4. \A d \in Calls : StepOf(call'[d])
  BY <1>2, <1>3 DEF StepOf
<1>5. \A u \in Tabs : Destroys(u) \subseteq Destroys(u)'
  BY <1>2, <1>3 DEF Destroys, StepOf
<1>6. WaitersFit'
  BY <1>1, <1>2, WaitersStay
<1>7. lg \in [Tabs -> Logger]
  BY DEF Typed, TypeOK
<1>8. /\ lg' \in [Tabs -> Logger]
      /\ \A u \in Tabs :
           /\ lg'[u].queue = lg[u].queue /\ lg'[u].pending = lg[u].pending
           /\ lg'[u].initialized = lg[u].initialized
           /\ lg'[u].session = lg[u].session
           /\ lg'[u].interval = lg[u].interval
           /\ lg'[u].intervals = lg[u].intervals
  <2> DEFINE t == call[c].tab
  <2>1. t \in Tabs /\ lg' = [lg EXCEPT ![t].read = None]
    BY <1>1
  <2> HIDE DEF t
  <2> QED BY <1>7, <2>1 DEF Logger
<1>9. \A u \in Tabs : LoggerFits(u)'
  BY <1>5, <1>8, LoggersStay DEF Typed, LoggerFits
<1> QED BY <1>1, <1>4, <1>6, <1>8, <1>9 DEF Typed, TypeOK

\* A logger that was destroyed has one more destroy behind it.
LEMMA ClosedTyped == ASSUME Typed, NEW c \in Calls, Closed(c) PROVE Typed'
<1>t. PICK t \in Tabs : t = call[c].tab
  BY Types DEF Call
<1> DEFINE r == [call[c] EXCEPT !.step = "done"]
           g == [lg[t] EXCEPT !.initialized = FALSE, !.session = None,
                              !.pending = <<>>, !.read = None, !.queue = @ + 1]
<1>1. /\ call[c].step = "close" /\ call[c] \in Call /\ StepOf(call[c])
      /\ call' = [call EXCEPT ![c] = r]
      /\ UNCHANGED <<clock, lines, queue, task, db, timers>>
      /\ gone' = gone \cup ToSet(lg[t].pending)
  BY <1>t, Types DEF Closed
<1>2. t \in Tabs /\ call[c].op = "destroy"
  BY <1>1 DEF StepOf
<1>3. lg \in [Tabs -> Logger] /\ lg[t] \in Logger
  BY <1>2 DEF Typed, TypeOK
<1>4. lg' = [lg EXCEPT ![t] = g]
  BY <1>3, <1>t DEF Closed, Logger
<1>5. /\ r \in Call /\ r.step = "done" /\ r.op = "destroy" /\ r.tab = t
      /\ call[c].tab = t
  BY <1>1, <1>2, <1>t DEF Call
<1>6. StepOf(r)
  BY <1>5 DEF StepOf
<1> HIDE DEF r
<1>7. /\ call' \in [Calls -> Call]
      /\ \A d \in Calls : /\ call'[d] = IF d = c THEN r ELSE call[d]
                          /\ StepOf(call'[d])
      /\ \A u \in Tabs : Destroys(u) \subseteq Destroys(u)'
  BY <1>1, <1>5, <1>6, CallChange
<1>8. WaitersFit'
  BY <1>1, <1>5, <1>7, WaitersStay
<1>9. gone' \subseteq Line
  <2>1. lg[t].pending \in Seq(Line)
    BY <1>3 DEF Logger
  <2>2. ToSet(lg[t].pending) \subseteq Line
    BY <2>1, ElementOfSeq DEF ToSet
  <2> QED BY <1>1, <2>2 DEF Typed, TypeOK
<1> DEFINE n == lg[t].queue
<1>10. n \in Nat /\ n + 1 <= Cardinality(Destroys(t)') /\ n + 1 \in Queue
  <2>1. c \notin Destroys(t) /\ Destroys(t)' = Destroys(t) \cup {c}
    BY <1>1, <1>5, <1>7 DEF Destroys
  <2>2. /\ IsFiniteSet(Destroys(t)) /\ Destroys(t)' \subseteq Calls
        /\ n <= Cardinality(Destroys(t)) /\ n \in Nat
    BY <1>2, Types, CallsAssumption, FS_Subset DEF Destroys, Typed, LoggerFits, Queue
  <2>3. Cardinality(Destroys(t)') = Cardinality(Destroys(t)) + 1
    BY <2>1, <2>2, FS_AddElement
  <2>4. /\ Cardinality(Destroys(t)) \in Nat
        /\ Cardinality(Destroys(t)') <= Cardinality(Calls)
    BY <2>2, CallsAssumption, FS_Subset, FS_CardinalityType
  <2> QED BY <2>2, <2>3, <2>4, Limits DEF Queue
<1>11. /\ g \in Logger /\ ~g.initialized /\ g.session = None /\ g.pending = <<>>
       /\ g.queue = n + 1 /\ g.interval = lg[t].interval
       /\ g.intervals = lg[t].intervals
  <2>1. lg[t].queue + 1 \in Queue /\ <<>> \in Seq(Line)
    BY <1>10
  <2> QED BY <1>3, <2>1 DEF Logger
<1> HIDE DEF g
<1>12. lg' \in [Tabs -> Logger] /\ \A u \in Tabs : lg'[u] = IF u = t THEN g ELSE lg[u]
  BY <1>3, <1>4, <1>11
<1>13. ASSUME NEW u \in Tabs PROVE LoggerFits(u)' /\ Len(lg'[u].pending) <= MaxPending
  <2>1. CASE u = t
    <3>1. lg'[u] = g /\ (lg[t].interval => lg[t].intervals > 0)
      BY <1>2, <1>12, <2>1 DEF Typed, LoggerFits
    <3>2. n + 1 <= Cardinality(Destroys(u)')
      BY <1>10, <2>1
    <3>3. Len(lg'[u].pending) <= MaxPending
      BY <1>11, <3>1, Limits
    <3>4. /\ lg'[u].initialized <=> lg'[u].session # None
          /\ lg'[u].initialized => lg'[u].pending = <<>>
          /\ lg'[u].interval => lg'[u].intervals > 0
          /\ lg'[u].queue = n + 1
      BY <1>11, <3>1
    <3> QED BY <3>2, <3>3, <3>4 DEF LoggerFits
  <2>2. CASE u # t
    <3>1. /\ Cardinality(Destroys(u)) \in Nat /\ Cardinality(Destroys(u)') \in Nat
          /\ Cardinality(Destroys(u)) <= Cardinality(Destroys(u)')
      <4>1. IsFiniteSet(Destroys(u)) /\ IsFiniteSet(Destroys(u)')
        BY CallsAssumption, FS_Subset DEF Destroys
      <4> QED BY <1>7, <4>1, FS_Subset, FS_CardinalityType
    <3>2. lg'[u] = lg[u] /\ lg[u].queue \in Nat
      BY <1>12, <2>2, Types DEF Queue
    <3> QED BY <3>1, <3>2 DEF Typed, TypeOK, LoggerFits
  <2> QED BY <2>1, <2>2
<1> QED BY <1>1, <1>7, <1>8, <1>9, <1>12, <1>13 DEF Typed, TypeOK

\* No step makes a database infinite.
LEMMA FiniteSteps == ASSUME Typed, Finite, [Next]_vars PROVE Finite'
<1>1. CASE UNCHANGED db
  BY <1>1 DEF Finite
<1>2. ASSUME NEW s \in Sessions, NEW old, Delete(s, old), old \subseteq db[s]
      PROVE  Finite'
  <2>1. \A r \in Sessions : db'[r] \subseteq db[r]
    BY <1>2, DeleteFacts
  <2> QED BY <2>1, FS_Subset DEF Finite
<1>3. ASSUME NEW t \in Tabs, NEW q \in Queue, Steps(t, q) PROVE Finite'
  <2>1. CASE Store(t, q)
    <3> DEFINE k == task[t][q]
    <3>1. /\ db' = [db EXCEPT ![k.to] = @ \cup {k.entry}]
          /\ db \in [Sessions -> SUBSET Entry]
      BY <2>1 DEF Store, Typed, TypeOK
    <3> HIDE DEF k
    <3>2. \A r \in Sessions : db'[r] \subseteq db[r] \cup {k.entry}
      BY <3>1
    <3>3. \A r \in Sessions : IsFiniteSet(db[r] \cup {k.entry})
      BY FS_AddElement DEF Finite
    <3> QED BY <3>2, <3>3, FS_Subset DEF Finite
  <2>2. CASE Expire(t, q)
    <3> DEFINE old == {e \in db[task[t][q].to] : Stamp(e) <= task[t][q].before}
    <3>1. Delete(task[t][q].to, old) /\ task[t][q].to \in Sessions
      BY <2>2, Types, TaskCases DEF Expire
    <3> HIDE DEF old
    <3> QED BY <1>2, <3>1 DEF old
  <2>3. CASE Trim(t, q)
    <3>1. PICK old \in SUBSET db[task[t][q].to] : Delete(task[t][q].to, old)
      BY <2>3 DEF Trim
    <3>2. task[t][q].to \in Sessions
      BY <2>3, Types, TaskCases DEF Trim
    <3> QED BY <1>2, <3>1, <3>2
  <2>4. CASE BeginPersist(t, q) \/ Encrypted(t, q) \/ Fail(t, q) \/ BeginCleanup(t, q)
                \/ Count(t, q) \/ Resumed(t, q)
    <3>1. UNCHANGED db
      BY <2>4, Zenon
         DEF BeginPersist, Encrypted, Fail, BeginCleanup, Count, Resumed
    <3> QED BY <1>1, <3>1
  <2> QED BY <1>3, <2>1, <2>2, <2>3, <2>4 DEF Steps
<1>4. ASSUME NEW c \in Calls, GoOn(c) PROVE Finite'
  <2>1. CASE Wipe(c) \/ Clear(c)
    <3>1. /\ Delete(call[c].session, db[call[c].session])
          /\ call[c].step \in {"wipe", "clear"}
      BY <2>1 DEF Wipe, Clear
    <3>2. call[c].session \in Sessions
      BY <3>1, Types DEF Call, StepOf
    <3> QED BY <1>2, <3>1, <3>2
  <2>2. CASE Retrieve(c) \/ FailRead(c) \/ Settle(c) \/ FailClear(c) \/ Closed(c)
    <3>1. UNCHANGED db
      BY <2>2, Zenon DEF Retrieve, FailRead, Settle, FailClear, Closed
    <3> QED BY <1>1, <3>1
  <2> QED BY <1>4, <2>1, <2>2 DEF GoOn
<1>5. ASSUME NEW t \in Tabs,
             \/ Emit(t) \/ CleanupTimer(t) \/ \E s \in Sessions : Initialize(t, s)
             \/ \E c \in Calls : Invoke(c, t)
      PROVE  Finite'
  <2>1. UNCHANGED db
    BY <1>5, Zenon DEF Emit, CleanupTimer, Initialize, Invoke, Flush, GetLogs,
                       ClearLogs, Destroy
  <2> QED BY <1>1, <2>1
<1>6. CASE ClockTick \/ UNCHANGED vars
  <2>1. UNCHANGED db
    BY <1>6 DEF ClockTick, vars
  <2> QED BY <1>1, <2>1
<1> QED BY <1>3, <1>4, <1>5, <1>6 DEF Next

\* No step breaks a type.
LEMMA TypedSteps == ASSUME Typed, Finite, [Next]_vars PROVE Typed'
<1>1. ASSUME NEW t \in Tabs, NEW q \in Queue, Steps(t, q) PROVE Typed'
  BY <1>1, BeginPersistTyped, EncryptedTyped, StoreTyped, FailTyped,
     BeginCleanupTyped, ExpireTyped, CountTyped, TrimTyped, ResumedTyped
     DEF Steps, Finite
<1>2. ASSUME NEW c \in Calls, NEW t \in Tabs, Invoke(c, t) PROVE Typed'
  BY <1>2, FlushTyped, GetLogsTyped, ClearLogsTyped, DestroyTyped DEF Invoke
<1>3. ASSUME NEW c \in Calls, GoOn(c) PROVE Typed'
  BY <1>3, RetrieveTyped, WipeTyped, FailedTyped, SettleTyped, ClearTyped,
     ClosedTyped DEF GoOn
<1>4. CASE UNCHANGED vars
  <2>1. /\ UNCHANGED <<clock, lines, lg, queue, task, db, call, timers, gone>>
        /\ clock \in 0 .. MaxTime /\ timers \in 0 .. MaxTime
        /\ task \in [Tabs -> [Queue -> Task]] /\ db \in [Sessions -> SUBSET Entry]
        /\ gone \subseteq Line /\ lg \in [Tabs -> Logger]
    BY <1>4 DEF vars, Typed, TypeOK
  <2> QED BY <2>1, StepTyped
<1> QED BY <1>1, <1>2, <1>3, <1>4, EmitTyped, CleanupTimerTyped, InitializeTyped,
           TickTyped DEF Next

\* The types hold at first.
LEMMA TypedInit == ASSUME Init PROVE Typed /\ Finite
<1>1. /\ clock = 0 /\ lines = <<>> /\ timers = 0 /\ gone = {}
      /\ queue = [t \in Tabs |-> [q \in Queue |-> <<>>]]
      /\ task = [t \in Tabs |-> [q \in Queue |-> Idle]]
      /\ db \in [Sessions -> SUBSET {Unreadable}]
  BY Zenon DEF Init
<1> DEFINE g == [initialized |-> FALSE, session |-> None, pending |-> <<>>,
                 queue |-> 0, read |-> None, intervals |-> 0, interval |-> FALSE,
                 sequence |-> 0]
           tab == CHOOSE t \in Tabs : TRUE
           r == [op |-> "none", tab |-> tab, of |-> None, step |-> "none",
                 session |-> None, queue |-> 0, result |-> {}, ok |-> FALSE,
                 before |-> {}]
<1>2. lg = [t \in Tabs |-> g] /\ call = [c \in Calls |-> r]
  BY Zenon DEF Init
<1>3. /\ g \in Logger /\ g.pending = <<>> /\ ~g.initialized /\ g.session = None
      /\ ~g.interval /\ g.queue = 0
  BY Limits DEF Logger
<1>4. tab \in Tabs
  BY TabsAssumption, Zenon
<1> HIDE DEF g, tab
<1>5. r \in Call /\ StepOf(r) /\ r.step = "none"
  BY <1>4, Limits DEF Call, StepOf
<1> HIDE DEF r
<1>6. TypeOK
  <2>1. lines \in Seq([tab : Tabs, queue : Queue, ts : 0 .. MaxTime])
        /\ Len(lines) <= MaxLines
    BY <1>1, Limits
  <2>2. lg \in [Tabs -> Logger] /\ \A t \in Tabs : Len(lg[t].pending) <= MaxPending
    BY <1>2, <1>3, Limits
  <2>3. /\ queue \in [Tabs -> [Queue -> Seq(Item)]]
        /\ task \in [Tabs -> [Queue -> Task]]
    BY <1>1, TaskMakes
  <2>4. db \in [Sessions -> SUBSET Entry] /\ call \in [Calls -> Call]
    BY <1>1, <1>2, <1>5 DEF Entry
  <2> QED BY <1>1, <2>1, <2>2, <2>3, <2>4, Limits DEF TypeOK
<1>7. \A c \in Calls : StepOf(call[c])
  BY <1>2, <1>5
<1>8. \A t \in Tabs : LoggerFits(t)
  <2> SUFFICES ASSUME NEW t \in Tabs PROVE LoggerFits(t)
    OBVIOUS
  <2>1. lg[t] = g /\ Cardinality(Destroys(t)) \in Nat
    BY <1>2, CallsAssumption, FS_Subset, FS_CardinalityType DEF Destroys
  <2> QED BY <1>3, <2>1 DEF LoggerFits
<1>9. WaitersFit
  <2> SUFFICES ASSUME NEW t \in Tabs, NEW q \in Queue, NEW c \in Calls
               PROVE  /\ ~In(queue[t][q], Resume(c)) /\ call[c].step # "wait"
                      /\ ~Precedes(queue[t][q], Resume(c), Resume(c))
    BY DEF WaitersFit
  <2>1. queue[t][q] = <<>> /\ call[c].step # "wait"
    BY <1>1, <1>2, <1>5
  <2> QED BY <2>1, EmptyFacts
<1>10. Finite
  <2>1. IsFiniteSet({Unreadable}) /\ \A s \in Sessions : db[s] \subseteq {Unreadable}
    BY <1>1, FS_Singleton
  <2> QED BY <2>1, FS_Subset DEF Finite
<1> QED BY <1>6, <1>7, <1>8, <1>9, <1>10 DEF Typed

\* Every variable keeps its type, and every call and logger its shape; who waits
\* for a tab's writes is in its queue, once (enqueue, getLogs, flush, clearLogs).
THEOREM TypesKept == Spec => [](TypeOK /\ Typed /\ Finite)
<1>1. Init => Typed /\ Finite
  BY TypedInit
<1>2. Typed /\ Finite /\ [Next]_vars => Typed' /\ Finite'
  BY TypedSteps, FiniteSteps
<1>3. Typed => TypeOK
  BY DEF Typed
<1> QED BY <1>1, <1>2, <1>3, PTL DEF Spec

-----------------------------------------------------------------------------
(* The steps that move no line forward: at most, lines are lost.           *)

QuietQueue ==
    /\ \A t \in Tabs, q \in Queue, l \in Line : Queued(t, q, l)' <=> Queued(t, q, l)
    /\ \A t \in Tabs, q \in Queue, l, m \in Line :
          Precedes(queue'[t][q], Persist(l), Persist(m))
             => Precedes(queue[t][q], Persist(l), Persist(m))
    /\ \A t \in Tabs, q \in Queue, c \in Calls, m \in Line :
          Precedes(queue'[t][q], Resume(c), Persist(m))
             => Precedes(queue[t][q], Resume(c), Persist(m))

QuietTasks ==
    \A t \in Tabs, q \in Queue :
        \/ task'[t][q] = task[t][q]
        \/ /\ task'[t][q].step \notin {"encrypt", "store"}
           /\ task[t][q].step # "encrypt"
           /\ task[t][q].step = "store" => task[t][q].entry.line \in gone'

QuietStore ==
    /\ \A s \in Sessions : db'[s] \subseteq db[s]
    /\ \A s \in Sessions : \A e \in db[s] :
          e.line # Old => e \in db'[s] \/ e.line \in gone'

QuietLoggers ==
    \A t \in Tabs : /\ lg'[t].queue = lg[t].queue /\ lg'[t].session = lg[t].session
                    /\ lg'[t].pending = lg[t].pending
                    /\ lg'[t].sequence = lg[t].sequence

Quiet == /\ lines' = lines /\ clock <= clock' /\ gone \subseteq gone'
         /\ QuietQueue /\ QuietTasks /\ QuietStore /\ QuietLoggers

\* A queue that gains or loses something other than a line is quiet.
LEMMA QueueIsQuiet ==
    ASSUME Typed,
           \/ UNCHANGED queue
           \/ \E t \in Tabs : \E z : Pushed(t, z) /\ \A l \in Line : z # Persist(l)
           \/ \E t \in Tabs, q \in Queue : \E h :
                 Popped(t, q, h) /\ \A l \in Line : h # Persist(l)
    PROVE  QuietQueue
<1> DEFINE Same(u, p) ==
             /\ \A l \in Line : In(queue'[u][p], Persist(l)) <=> In(queue[u][p], Persist(l))
             /\ \A l \in Line : \A x : Precedes(queue'[u][p], x, Persist(l))
                                       => Precedes(queue[u][p], x, Persist(l))
<1> SUFFICES ASSUME NEW u \in Tabs, NEW p \in Queue PROVE Same(u, p)
  BY DEF QuietQueue, Queued
<1>1. CASE UNCHANGED queue
  BY <1>1
<1>2. ASSUME NEW t \in Tabs, NEW z, Pushed(t, z), \A n \in Line : z # Persist(n)
      PROVE  Same(u, p)
  BY <1>2, PushedItem
<1>3. ASSUME NEW t \in Tabs, NEW q \in Queue, NEW h, Popped(t, q, h),
             \A n \in Line : h # Persist(n)
      PROVE  Same(u, p)
  BY <1>3, PoppedItem
<1> QED BY <1>1, <1>2, <1>3

\* A task that ends or moves no line is quiet.
LEMMA TaskIsQuiet ==
    ASSUME Typed, NEW t \in Tabs, NEW q \in Queue, NEW k \in Task, Run(t, q, k),
           k.step \notin {"encrypt", "store"}, task[t][q].step # "encrypt",
           task[t][q].step = "store" => task[t][q].entry.line \in gone'
    PROVE  QuietTasks
BY RunFacts DEF QuietTasks

\* A database that loses entries is quiet.
LEMMA StoreIsQuiet ==
    ASSUME Typed, NEW s \in Sessions, NEW old, Delete(s, old), old \subseteq db[s]
    PROVE  QuietStore /\ gone \subseteq gone'
<1>1. /\ gone \subseteq gone' /\ \A e \in old : e.line # Old => e.line \in gone'
      /\ \A r \in Sessions : db'[r] = IF r = s THEN db[s] \ old ELSE db[r]
  BY DeleteFacts
<1> QED BY <1>1 DEF QuietStore

\* What is left alone is quiet.
LEMMA StillQuiet ==
    ASSUME Typed
    PROVE  /\ UNCHANGED queue => QuietQueue
           /\ UNCHANGED task => QuietTasks
           /\ UNCHANGED db => QuietStore
           /\ UNCHANGED lg => QuietLoggers
           /\ UNCHANGED clock => clock <= clock'
<1>1. UNCHANGED queue => QuietQueue
  BY DEF QuietQueue, Queued
<1>2. UNCHANGED clock => clock <= clock'
  BY Limits DEF Typed, TypeOK
<1> QED BY <1>1, <1>2 DEF QuietTasks, QuietStore, QuietLoggers

\* The steps of a queue, of which Count and Fail lose nothing that is stored.
LEMMA StepsAreQuiet ==
    ASSUME Typed, NEW t \in Tabs, NEW q \in Queue,
           \/ BeginCleanup(t, q) \/ Expire(t, q) \/ Count(t, q) \/ Trim(t, q)
           \/ Fail(t, q) \/ Resumed(t, q)
    PROVE  Quiet
<1>1. lines' = lines /\ UNCHANGED <<clock, lg>>
  BY Zenon DEF BeginCleanup, Expire, Count, Trim, Fail, Resumed
<1>2. QuietLoggers /\ clock <= clock'
  BY <1>1, StillQuiet
<1>4. CASE BeginCleanup(t, q)
  <2> DEFINE h == Head(queue[t][q])
             k == IF lg[t].session = None THEN Idle
                  ELSE [step |-> "expire", before |-> clock - Retention,
                        to |-> lg[t].session]
  <2>1. /\ AtHead(t, q, "cleanup") /\ Pop(t, q) /\ Run(t, q, k)
        /\ UNCHANGED <<db, gone>>
    BY <1>4 DEF BeginCleanup, Then
  <2>2. Popped(t, q, h) /\ h.kind = "cleanup"
    BY <2>1, Headed, Zenon
  <2>3. \A l : h # Persist(l)
    BY <2>2 DEF Persist
  <2>4. QuietQueue
    BY <2>2, <2>3, QueueIsQuiet
  <2>5. k \in Task /\ k.step \notin {"encrypt", "store"}
    <3>1. clock - Retention \in Int /\ lg[t].session \in Sessions \cup {None}
      BY Limits, Types DEF Typed, TypeOK, Logger
    <3> QED BY <3>1, TaskMakes DEF Idle
  <2>6. task[t][q].step = "idle"
    BY <2>1 DEF AtHead, Idle
  <2> HIDE DEF k
  <2>7. QuietTasks
    BY <2>1, <2>5, <2>6, TaskIsQuiet
  <2> QED BY <1>1, <1>2, <2>1, <2>4, <2>7, StillQuiet DEF Quiet
<1>5. CASE Expire(t, q)
  <2> DEFINE s == task[t][q].to
             old == {e \in db[s] : Stamp(e) <= task[t][q].before}
             k == IF lg[t].session = None THEN Idle
                  ELSE [step |-> "count", to |-> lg[t].session]
  <2>1. /\ Delete(s, old) /\ old \subseteq db[s] /\ Run(t, q, k) /\ UNCHANGED queue
        /\ task[t][q].step = "expire"
    BY <1>5 DEF Expire, Then
  <2>2. s \in Sessions
    BY <2>1, Types, TaskCases
  <2>3. k \in Task /\ k.step \notin {"encrypt", "store"}
    BY Types, TaskMakes DEF Logger, Idle
  <2> HIDE DEF s, old, k
  <2>4. QuietTasks
    BY <2>1, <2>3, TaskIsQuiet
  <2>5. QuietStore /\ gone \subseteq gone'
    BY <2>1, <2>2, StoreIsQuiet
  <2> QED BY <1>1, <1>2, <2>1, <2>4, <2>5, StillQuiet DEF Quiet
<1>6. CASE Count(t, q)
  <2> DEFINE n == Cardinality(db[task[t][q].to])
             trim == [step |-> "trim", to |-> lg[t].session, count |-> Excess(n)]
             k == IF n <= MaxEntries \/ lg[t].session = None THEN Idle ELSE trim
  <2>1. Run(t, q, k) /\ UNCHANGED <<queue, db, gone>> /\ task[t][q].step = "count"
    BY <1>6 DEF Count, Then
  <2>2. k.step \notin {"encrypt", "store"}
    BY DEF Idle
  <2> HIDE DEF k
  <2>3. \A u \in Tabs, r \in Queue : task'[u][r] = IF u = t /\ r = q THEN k ELSE task[u][r]
    BY <2>1 DEF Run, Typed, TypeOK
  <2>4. QuietTasks
    BY <2>1, <2>2, <2>3 DEF QuietTasks
  <2> QED BY <1>1, <1>2, <2>1, <2>4, StillQuiet DEF Quiet
<1>7. CASE Trim(t, q)
  <2> DEFINE s == task[t][q].to
  <2>1. PICK old \in SUBSET db[s] : Delete(s, old)
    BY <1>7 DEF Trim
  <2>2. Run(t, q, Idle) /\ UNCHANGED queue /\ task[t][q].step = "trim"
    BY <1>7 DEF Trim
  <2>3. s \in Sessions
    BY <2>2, Types, TaskCases
  <2> HIDE DEF s
  <2>4. QuietTasks
    BY <2>2, TaskMakes, TaskIsQuiet
  <2>5. QuietStore /\ gone \subseteq gone'
    BY <2>1, <2>3, StoreIsQuiet
  <2> QED BY <1>1, <1>2, <2>2, <2>4, <2>5, StillQuiet DEF Quiet
<1>8. CASE Fail(t, q)
  <2>1. /\ Run(t, q, Idle) /\ UNCHANGED <<queue, db>> /\ gone \subseteq gone'
        /\ task[t][q].step # "encrypt"
        /\ task[t][q].step = "store" => task[t][q].entry.line \in gone'
    BY <1>8 DEF Fail
  <2>2. QuietTasks
    BY <2>1, TaskMakes, TaskIsQuiet
  <2> QED BY <1>1, <1>2, <2>1, <2>2, StillQuiet DEF Quiet
<1>9. CASE Resumed(t, q)
  <2> DEFINE h == Head(queue[t][q])
  <2>1. AtHead(t, q, "resume") /\ Pop(t, q) /\ UNCHANGED <<task, db, gone>>
    BY <1>9, Zenon DEF Resumed
  <2>2. Popped(t, q, h) /\ h.kind = "resume"
    BY <2>1, Headed, Zenon
  <2>3. \A l : h # Persist(l)
    BY <2>2 DEF Persist
  <2>4. QuietQueue
    BY <2>2, <2>3, QueueIsQuiet
  <2> QED BY <1>1, <1>2, <2>1, <2>4, StillQuiet DEF Quiet
<1> QED BY <1>4, <1>5, <1>6, <1>7, <1>8, <1>9

\* Starting a call moves no line.
LEMMA CallsAreQuiet ==
    ASSUME Typed, NEW c \in Calls, NEW t \in Tabs, Invoke(c, t)
    PROVE  Quiet
<1>1. UNCHANGED <<clock, lines, task, db, timers, gone>>
  BY Zenon DEF Invoke, Flush, GetLogs, ClearLogs, Destroy
<1>2. UNCHANGED queue \/ Enqueue(t, <<Resume(c)>>)
  BY Zenon DEF Invoke, Flush, GetLogs, ClearLogs, Destroy, Await, Done
<1>3. QuietQueue
  <2>1. CASE Enqueue(t, <<Resume(c)>>)
    <3>1. Pushed(t, Resume(c))
      BY <2>1, ItemMakes, EnqueueOne, Zenon
    <3> QED BY <3>1, ItemMakes, QueueIsQuiet
  <2> QED BY <1>2, <2>1, StillQuiet
<1>4. QuietLoggers
  <2>1. lg \in [Tabs -> Logger]
    BY DEF Typed, TypeOK
  <2>2. \/ UNCHANGED lg
        \/ lg' = [lg EXCEPT ![t].read = c]
        \/ lg' = [lg EXCEPT ![t].interval = FALSE,
                            ![t].intervals = IF lg[t].interval THEN @ - 1 ELSE @]
    BY Zenon DEF Invoke, Flush, GetLogs, ClearLogs, Destroy
  <2>3. CASE lg' = [lg EXCEPT ![t].read = c]
    BY <2>1, <2>3 DEF QuietLoggers, Logger
  <2>4. CASE lg' = [lg EXCEPT ![t].interval = FALSE,
                              ![t].intervals = IF lg[t].interval THEN @ - 1 ELSE @]
    BY <2>1, <2>4 DEF QuietLoggers, Logger
  <2> QED BY <2>2, <2>3, <2>4, StillQuiet
<1> QED BY <1>1, <1>3, <1>4, StillQuiet DEF Quiet

\* The end of a call moves no line, but for destroy.
LEMMA EndsAreQuiet ==
    ASSUME Typed, NEW c \in Calls,
           \/ Retrieve(c) \/ Wipe(c) \/ FailRead(c) \/ Settle(c) \/ Clear(c)
           \/ FailClear(c)
    PROVE  Quiet
<1>1. UNCHANGED <<clock, lines, queue, task, timers>>
  BY Zenon DEF Retrieve, Wipe, FailRead, Settle, Clear, FailClear
<1>2. QuietStore /\ gone \subseteq gone'
  <2>1. CASE Wipe(c) \/ Clear(c)
    <3>1. /\ Delete(call[c].session, db[call[c].session])
          /\ call[c].step \in {"wipe", "clear"}
      BY <2>1 DEF Wipe, Clear
    <3>2. call[c].session \in Sessions
      BY <3>1, Types DEF Call, StepOf
    <3> QED BY <3>1, <3>2, StoreIsQuiet
  <2>2. CASE ~(Wipe(c) \/ Clear(c))
    <3>1. UNCHANGED <<db, gone>>
      BY <2>2, Zenon DEF Retrieve, FailRead, Settle, FailClear
    <3> QED BY <3>1, StillQuiet
  <2> QED BY <2>1, <2>2
<1>3. QuietLoggers
  <2>1. CASE Settle(c)
    <3>1. PICK t \in Tabs : t = call[c].tab
      BY Types DEF Call
    <3>2. lg \in [Tabs -> Logger] /\ lg' = [lg EXCEPT ![t].read = None]
      BY <2>1, <3>1, SettleFacts DEF Typed, TypeOK
    <3> QED BY <3>2 DEF QuietLoggers, Logger
  <2>2. CASE ~Settle(c)
    <3>1. UNCHANGED lg
      BY <2>2, Zenon DEF Retrieve, Wipe, FailRead, Clear, FailClear
    <3> QED BY <3>1, StillQuiet
  <2> QED BY <2>1, <2>2
<1> QED BY <1>1, <1>2, <1>3, StillQuiet DEF Quiet

\* Timers move no line.
LEMMA TimersAreQuiet ==
    ASSUME Typed,
           ClockTick \/ UNCHANGED vars \/ \E t \in Tabs : CleanupTimer(t)
    PROVE  Quiet
<1>1. clock <= clock' /\ UNCHANGED <<lines, lg, task, db, gone>>
  BY DEF ClockTick, vars, CleanupTimer, Typed, TypeOK
<1>2. QuietQueue
  <2>1. CASE ClockTick \/ UNCHANGED vars
    BY <2>1, StillQuiet DEF ClockTick, vars
  <2>2. ASSUME NEW t \in Tabs, CleanupTimer(t) PROVE QuietQueue
    <3>1. Pushed(t, Cleanup) /\ \A l : Cleanup # Persist(l)
      BY <2>2, ItemMakes, EnqueueOne, Zenon DEF CleanupTimer
    <3> QED BY <3>1, QueueIsQuiet
  <2> QED BY <2>1, <2>2
<1> QED BY <1>1, <1>2, StillQuiet DEF Quiet

\* Every other step is one of six.
LEMMA QuietSteps ==
    ASSUME Typed, [Next]_vars
    PROVE  \/ Quiet
           \/ \E t \in Tabs : Emit(t) \/ \E s \in Sessions : Initialize(t, s)
           \/ \E t \in Tabs, q \in Queue :
                 BeginPersist(t, q) \/ Encrypted(t, q) \/ Store(t, q)
           \/ \E c \in Calls : Closed(c)
<1>1. ASSUME NEW t \in Tabs, NEW q \in Queue, Steps(t, q)
      PROVE  Quiet \/ BeginPersist(t, q) \/ Encrypted(t, q) \/ Store(t, q)
  BY <1>1, StepsAreQuiet DEF Steps
<1>2. ASSUME NEW c \in Calls, GoOn(c) PROVE Quiet \/ Closed(c)
  BY <1>2, EndsAreQuiet DEF GoOn
<1> QED BY <1>1, <1>2, CallsAreQuiet, TimersAreQuiet DEF Next

-----------------------------------------------------------------------------
(* The lines keep their order.                                             *)

\* Where the lines may be, after a step that moves none.
LEMMA LinesFitStay ==
    ASSUME Typed, Typed', LinesFit, lines' = lines, clock <= clock',
           \A t \in Tabs : lg[t].queue <= lg'[t].queue,
           \A t \in Tabs, l \in Line :
              Buffered(t, l)' => Buffered(t, l) /\ lg'[t].queue = lg[t].queue,
           \A t \in Tabs, q \in Queue, l \in Line : Live(t, q, l)' =>
              Live(t, q, l) \/ (q = lg[t].queue /\ Buffered(t, l)),
           \A s \in Sessions, l \in Line : StoredIn(s, l)' =>
              StoredIn(s, l) \/ \E t \in Tabs, q \in Queue : Live(t, q, l)
    PROVE  LinesFit'
<1>1. \A t \in Tabs, q \in Queue, l \in Line : Of(t, q, l)' <=> Of(t, q, l)
  BY DEF Of
<1>2. \A t \in Tabs, l \in Line : Buffered(t, l)' => Of(t, lg[t].queue, l)'
  BY Types DEF LinesFit, Of
<1>3. \A t \in Tabs, q \in Queue, l \in Line : Live(t, q, l)' => Of(t, q, l)'
  BY <1>1, Types DEF LinesFit
<1>4. \A s \in Sessions, l \in Line : StoredIn(s, l)' => l \in 1 .. Len(lines')
  BY DEF LinesFit, Of
<1>5. \A l \in 1 .. Len(lines) : /\ lines[l].ts <= clock'
                                 /\ lines[l].queue <= lg'[lines[l].tab].queue
  <2> SUFFICES ASSUME NEW l \in 1 .. Len(lines)
               PROVE  /\ lines[l].ts <= clock'
                      /\ lines[l].queue <= lg'[lines[l].tab].queue
    OBVIOUS
  <2>1. lines[l].tab \in Tabs /\ lines[l].ts \in Int /\ lines[l].queue \in Int
    <3>1. lines[l] \in [tab : Tabs, queue : Queue, ts : 0 .. MaxTime]
      BY Types
    <3> QED BY <3>1, Limits DEF Queue
  <2>2. clock \in Int /\ clock' \in Int
    BY Limits DEF Typed, TypeOK
  <2>3. \A t \in Tabs : lg[t].queue \in Int /\ lg'[t].queue \in Int
    <3>1. \A t \in Tabs : lg[t].queue \in Queue /\ lg'[t].queue \in Queue
      BY DEF Typed, TypeOK, Logger
    <3> QED BY <3>1 DEF Queue
  <2>4. lines[l].ts <= clock /\ lines[l].queue <= lg[lines[l].tab].queue
    BY DEF LinesFit
  <2>5. lg[lines[l].tab].queue <= lg'[lines[l].tab].queue
    BY <2>1
  <2> QED BY <2>1, <2>2, <2>3, <2>4, <2>5
<1>6. \A l, m \in 1 .. Len(lines) : l < m => lines[l].ts <= lines[m].ts
  BY DEF LinesFit
<1> QED BY <1>2, <1>3, <1>4, <1>5, <1>6 DEF LinesFit

\* The order of the lines, after a step that moves none.
LEMMA InOrderStays ==
    ASSUME Typed, InOrder, lines' = lines,
           \A t \in Tabs, l \in Line :
              Buffered(t, l)' => Buffered(t, l) /\ lg'[t].queue = lg[t].queue,
           \A t \in Tabs, l, m \in Line :
              Precedes(lg'[t].pending, l, m) => Precedes(lg[t].pending, l, m),
           \A t \in Tabs, q \in Queue, l, m \in Line :
              /\ Precedes(queue'[t][q], Persist(l), Persist(m))
                    => Precedes(queue[t][q], Persist(l), Persist(m))
              /\ Queued(t, q, l)' => Queued(t, q, l)
              /\ InHand(t, q, l)' => InHand(t, q, l),
           \A s \in Sessions, l \in Line : StoredIn(s, l)' => StoredIn(s, l)
    PROVE  InOrder'
<1>1. \A t \in Tabs, q \in Queue, l \in Line :
         /\ Of(t, q, l)' <=> Of(t, q, l)
         /\ Live(t, q, l)' => Live(t, q, l)
  BY DEF Of, Live
<1> SUFFICES ASSUME NEW t \in Tabs, NEW q \in Queue, NEW l \in Line, NEW m \in Line
    PROVE  /\ Precedes(lg'[t].pending, l, m) => l < m
           /\ Precedes(queue'[t][q], Persist(l), Persist(m)) => l < m
           /\ InHand(t, q, l)' /\ Queued(t, q, m)' => l < m
           /\ Live(t, q, l)' /\ q = lg'[t].queue /\ Buffered(t, m)' => l < m
           /\ \A s \in Sessions : StoredIn(s, l)' /\ Of(t, q, l)' =>
              /\ Live(t, q, m)' => l < m
              /\ q = lg'[t].queue /\ Buffered(t, m)' => l < m
  BY DEF InOrder
<1> QED BY <1>1 DEF InOrder

\* The numbers of the entries, after a step that moves none.
LEMMA NumberedStays ==
    ASSUME Typed, Typed', LinesFit, Numbered,
           \A l \in 1 .. Len(lines) : l \in 1 .. Len(lines') /\ lines'[l] = lines[l],
           \A t \in Tabs : lg[t].sequence <= lg'[t].sequence,
           \A s \in Sessions : db'[s] \subseteq db[s],
           \A t \in Tabs, q \in Queue :
              task'[t][q].step = "store" => task'[t][q] = task[t][q]
    PROVE  Numbered'
<1>1. \A t \in Tabs : lg[t].sequence \in Nat /\ lg'[t].sequence \in Nat
  BY Types DEF Typed, TypeOK, Logger
<1>2. \A s \in Sessions : \A e \in db'[s] : e.line # Old => e.line \in 1 .. Len(lines)
  BY Types, EntryCases DEF LinesFit, StoredIn
<1>3. \A s \in Sessions : \A e \in db[s] : e.line # Old =>
         e.sequence \in Nat /\ e.line \in Line
  BY Types, EntryCases
<1>4. \A s \in Sessions : \A e \in db'[s] : \A t \in Tabs, q \in Queue :
         Of(t, q, e.line)' => e.line # Old /\ Of(t, q, e.line)
  BY <1>2, Types, EntryCases DEF Of, Old
<1>5. \A t \in Tabs, q \in Queue : task'[t][q].step = "store" =>
        /\ task'[t][q].entry.sequence < lg'[t].sequence
        /\ \A s \in Sessions : \A e \in db'[s] :
              Of(t, q, e.line)' => e.sequence < task'[t][q].entry.sequence
  <2> SUFFICES ASSUME NEW t \in Tabs, NEW q \in Queue, task'[t][q].step = "store"
      PROVE  /\ task'[t][q].entry.sequence < lg'[t].sequence
             /\ \A s \in Sessions : \A e \in db'[s] :
                  Of(t, q, e.line)' => e.sequence < task'[t][q].entry.sequence
    OBVIOUS
  <2>1. task'[t][q] = task[t][q] /\ task[t][q].step = "store"
    OBVIOUS
  <2>2. task[t][q].entry.sequence \in Nat
    BY <2>1, Types, TaskCases, EntryCases
  <2>3. task[t][q].entry.sequence < lg[t].sequence
    BY <2>1 DEF Numbered
  <2>4. \A s \in Sessions : \A e \in db'[s] :
           Of(t, q, e.line)' => e.sequence < task[t][q].entry.sequence
    BY <1>4, <2>1 DEF Numbered
  <2> QED BY <1>1, <2>1, <2>2, <2>3, <2>4
<1>6. \A s \in Sessions : \A e \in db'[s] :
        e.line # Old => e.sequence < lg'[lines'[e.line].tab].sequence
  <2> SUFFICES ASSUME NEW s \in Sessions, NEW e \in db'[s], e.line # Old
               PROVE  e.sequence < lg'[lines'[e.line].tab].sequence
    OBVIOUS
  <2>1. e \in db[s] /\ e.line \in 1 .. Len(lines) /\ e.sequence \in Nat
    BY <1>2, <1>3
  <2>2. e.sequence < lg[lines[e.line].tab].sequence
    BY <2>1 DEF Numbered
  <2>3. lines'[e.line].tab = lines[e.line].tab /\ lines[e.line].tab \in Tabs
    BY <2>1, Types
  <2> QED BY <1>1, <2>1, <2>2, <2>3
<1>7. \A s \in Sessions : \A d, e \in db'[s] : \A t \in Tabs, q \in Queue :
        Of(t, q, d.line)' /\ Of(t, q, e.line)' /\ d.line < e.line
            => d.sequence < e.sequence
  BY <1>4 DEF Numbered
<1> QED BY <1>5, <1>6, <1>7 DEF Numbered

-----------------------------------------------------------------------------
(* The steps that move lines forward, by where the lines then are.         *)

SameLoggers(t) ==
    \A u \in Tabs \ {t} : lg'[u] = lg[u]
SameTasks(t, q) ==
    \A u \in Tabs, p \in Queue : u # t \/ p # q => task'[u][p] = task[u][p]

Emitted(t, n) ==
    /\ n = Len(lines) + 1 /\ n \in Line /\ Len(lines') = n
    /\ lines'[n] = [tab |-> t, queue |-> lg[t].queue, ts |-> clock]
    /\ \A l \in 1 .. Len(lines) : lines'[l] = lines[l]
    /\ UNCHANGED <<clock, task, db, call>> /\ gone \subseteq gone'
    /\ \A u \in Tabs : /\ lg'[u].queue = lg[u].queue /\ lg'[u].session = lg[u].session
                       /\ lg'[u].sequence = lg[u].sequence /\ lg'[u].read = lg[u].read
    /\ \A u \in Tabs, l \in Line : Buffered(u, l)' =>
          Buffered(u, l) \/ (u = t /\ l = n /\ ~lg[t].initialized)
    /\ \A u \in Tabs, l, m \in Line : Precedes(lg'[u].pending, l, m) =>
          Precedes(lg[u].pending, l, m) \/ (u = t /\ Buffered(u, l) /\ m = n)
    /\ \A u \in Tabs, q \in Queue, l \in Line : Queued(u, q, l)' <=>
          \/ Queued(u, q, l)
          \/ u = t /\ q = lg[t].queue /\ l = n /\ lg[t].initialized
    /\ \A u \in Tabs, q \in Queue, l, m \in Line :
          Precedes(queue'[u][q], Persist(l), Persist(m)) =>
             \/ Precedes(queue[u][q], Persist(l), Persist(m))
             \/ u = t /\ q = lg[t].queue /\ Queued(u, q, l) /\ m = n
    /\ \A u \in Tabs, q \in Queue, c \in Calls, m \in Line :
          Precedes(queue'[u][q], Resume(c), Persist(m)) =>
             Precedes(queue[u][q], Resume(c), Persist(m)) \/ m = n
    /\ \A u \in Tabs, l \in Line : Buffered(u, l) => Buffered(u, l)' \/ l \in gone'
    /\ Buffered(t, n)' \/ In(queue'[t][lg[t].queue], Persist(n)) \/ n \in gone'

\* Emit: one more line, last in the buffer or in the queue, or gone.
LEMMA EmitFacts ==
    ASSUME Typed, NEW t \in Tabs, Emit(t)
    PROVE  \E n \in Line : Emitted(t, n)
<1>n. PICK n \in Line : n = Len(lines) + 1
  BY NewLine
<1>1. /\ Len(lines') = n /\ n \in Line
      /\ lines'[n] = [tab |-> t, queue |-> lg[t].queue, ts |-> clock]
      /\ \A l \in 1 .. Len(lines) : lines'[l] = lines[l]
  BY <1>n, NewLine
<1>2. UNCHANGED <<clock, task, db, call>>
  BY DEF Emit
<1>a. PICK p \in Queue : p = lg[t].queue
  BY Types
<1>3. CASE lg[t].initialized
  <2>1. Enqueue(t, <<Persist(n)>>) /\ UNCHANGED <<lg, gone>>
    BY <1>1, <1>3 DEF Emit
  <2>2. Pushed(t, Persist(n))
    BY <1>1, <2>1, ItemMakes, EnqueueOne, Zenon
  <2>3. \A u \in Tabs, q \in Queue, l \in Line : Queued(u, q, l)' <=>
           \/ Queued(u, q, l)
           \/ u = t /\ q = lg[t].queue /\ l = n /\ lg[t].initialized
    <3> SUFFICES ASSUME NEW u \in Tabs, NEW q \in Queue, NEW l \in Line
                 PROVE  In(queue'[u][q], Persist(l)) <=>
                          \/ In(queue[u][q], Persist(l))
                          \/ u = t /\ q = lg[t].queue /\ l = n
      BY <1>3 DEF Queued
    <3>1. Persist(l) = Persist(n) <=> l = n
      BY ItemMakes
    <3> QED BY <2>2, <3>1, PushedItem
  <2>4. \A u \in Tabs, q \in Queue, l, m \in Line :
           Precedes(queue'[u][q], Persist(l), Persist(m)) =>
              \/ Precedes(queue[u][q], Persist(l), Persist(m))
              \/ u = t /\ q = lg[t].queue /\ Queued(u, q, l) /\ m = n
    <3> SUFFICES ASSUME NEW u \in Tabs, NEW q \in Queue, NEW l \in Line, NEW m \in Line
                 PROVE  Precedes(queue'[u][q], Persist(l), Persist(m)) =>
                          \/ Precedes(queue[u][q], Persist(l), Persist(m))
                          \/ /\ u = t /\ q = lg[t].queue
                             /\ In(queue[u][q], Persist(l)) /\ m = n
      BY DEF Queued
    <3>1. Persist(m) = Persist(n) <=> m = n
      BY ItemMakes
    <3> QED BY <2>2, <3>1, PushedItem
  <2>5. \A u \in Tabs, q \in Queue, c \in Calls, m \in Line :
           Precedes(queue'[u][q], Resume(c), Persist(m)) =>
              Precedes(queue[u][q], Resume(c), Persist(m)) \/ m = n
    <3> SUFFICES ASSUME NEW u \in Tabs, NEW q \in Queue, NEW c \in Calls, NEW m \in Line
                 PROVE  Precedes(queue'[u][q], Resume(c), Persist(m)) =>
                          Precedes(queue[u][q], Resume(c), Persist(m)) \/ m = n
      OBVIOUS
    <3>1. Persist(m) = Persist(n) <=> m = n
      BY ItemMakes
    <3> QED BY <2>2, <3>1, PushedItem
  <2>6. \A u \in Tabs, l \in Line : Buffered(u, l)' <=> Buffered(u, l)
    BY <2>1 DEF Buffered
  <2>7. In(queue'[t][lg[t].queue], Persist(n))
    BY <1>a, <1>3, <2>3 DEF Queued
  <2>8. Emitted(t, n)
    BY <1>1, <1>2, <2>1, <2>3, <2>4, <2>6, <2>7, <2>5, <1>n DEF Emitted
  <2> QED BY <1>1, <2>8
<1>4. CASE ~lg[t].initialized
  <2> DEFINE b == lg[t].pending
             all == Append(b, n)
  <2>1. /\ lg' = [lg EXCEPT ![t].pending = Keep(all)]
        /\ gone' = gone \cup (ToSet(all) \ ToSet(Keep(all)))
        /\ UNCHANGED queue
    BY <1>1, <1>4 DEF Emit
  <2>2. b \in Seq(Line) /\ lg[t] \in Logger /\ lg \in [Tabs -> Logger]
    BY Types DEF Logger, Typed, TypeOK
  <2>3. lg[t].pending = b
    OBVIOUS
  <2> HIDE DEF b
  <2>4. all \in Seq(Line) /\ Len(all) <= MaxPending + 1
    <3>1. Len(b) <= MaxPending /\ Len(b) \in Nat
      BY <2>2, <2>3, LenProperties DEF Typed, TypeOK
    <3> QED BY <1>1, <2>2, <3>1, AppendFacts, Limits
  <2> DEFINE one == <<n>>
  <2>5. /\ one \in Seq(Line) /\ all = b \o one
        /\ \A x : In(one, x) <=> x = n
        /\ \A x, y : ~Precedes(one, x, y)
    BY <1>1, <2>2, AppendFacts, OneFacts
  <2> HIDE DEF one
  <2>6. /\ \A x : In(all, x) <=> In(b, x) \/ x = n
        /\ \A x, y : Precedes(all, x, y) => Precedes(b, x, y) \/ (In(b, x) /\ y = n)
    <3>1. /\ \A x : In(all, x) <=> In(b, x) \/ In(one, x)
          /\ \A x, y : Precedes(all, x, y) =>
                \/ Precedes(b, x, y) \/ Precedes(one, x, y)
                \/ In(b, x) /\ In(one, y)
      BY <2>2, <2>5, JoinFacts
    <3> QED BY <2>5, <3>1
  <2> HIDE DEF all
  <2> DEFINE k == Keep(all)
  <2>7. /\ k \in Seq(Line) /\ \A x : In(k, x) => In(all, x)
        /\ \A x, y : Precedes(k, x, y) => Precedes(all, x, y)
        /\ \A x : x \in ToSet(all) <=> In(all, x)
        /\ \A x : x \in ToSet(k) <=> In(k, x)
    BY <2>4, Kept
  <2>8. lg' = [lg EXCEPT ![t].pending = k] /\ gone' = gone \cup (ToSet(all) \ ToSet(k))
    BY <2>1
  <2> HIDE DEF k
  <2>9. \A u \in Tabs : /\ lg'[u].queue = lg[u].queue /\ lg'[u].session = lg[u].session
                        /\ lg'[u].sequence = lg[u].sequence
                        /\ lg'[u].read = lg[u].read
                        /\ lg'[u].pending = IF u = t THEN k ELSE lg[u].pending
    BY <2>2, <2>8 DEF Logger
  <2>10. \A u \in Tabs, l \in Line : Buffered(u, l)' =>
            Buffered(u, l) \/ (u = t /\ l = n /\ ~lg[t].initialized)
    BY <1>4, <2>3, <2>6, <2>7, <2>9 DEF Buffered
  <2>11. \A u \in Tabs, l, m \in Line : Precedes(lg'[u].pending, l, m) =>
            Precedes(lg[u].pending, l, m) \/ (u = t /\ Buffered(u, l) /\ m = n)
    BY <2>3, <2>6, <2>7, <2>9 DEF Buffered
  <2>12. /\ \A u \in Tabs, l \in Line : Buffered(u, l) => Buffered(u, l)' \/ l \in gone'
         /\ Buffered(t, n)' \/ n \in gone'
    BY <2>3, <2>6, <2>7, <2>8, <2>9 DEF Buffered
  <2>13. \A u \in Tabs, q \in Queue, l \in Line : Queued(u, q, l)' <=> Queued(u, q, l)
    BY <2>1 DEF Queued
  <2>14. gone \subseteq gone' /\ n = Len(lines) + 1
    BY <1>n, <2>8
  <2>15. Emitted(t, n)
    BY <1>1, <1>2, <1>4, <2>1, <2>9, <2>10, <2>11, <2>12, <2>13, <2>14
       DEF Emitted
  <2> QED BY <1>1, <2>15
<1> QED BY <1>3, <1>4

Initialized(t, s) ==
    /\ lines' = lines /\ UNCHANGED <<clock, task, db, call, gone>>
    /\ SameLoggers(t) /\ lg'[t].queue = lg[t].queue /\ lg[t].session = None
    /\ lg'[t].session = s /\ lg'[t].sequence = lg[t].sequence
    /\ lg'[t].pending = <<>> /\ lg'[t].read = lg[t].read
    /\ \A u \in Tabs, q \in Queue, l \in Line : Queued(u, q, l)' <=>
          Queued(u, q, l) \/ (u = t /\ q = lg[t].queue /\ Buffered(t, l))
    /\ \A u \in Tabs, q \in Queue, l, m \in Line :
          Precedes(queue'[u][q], Persist(l), Persist(m)) =>
             \/ Precedes(queue[u][q], Persist(l), Persist(m))
             \/ /\ u = t /\ q = lg[t].queue
                /\ \/ Precedes(lg[t].pending, l, m)
                   \/ Queued(u, q, l) /\ Buffered(t, m)
    /\ \A u \in Tabs, q \in Queue, c \in Calls, m \in Line :
          Precedes(queue'[u][q], Resume(c), Persist(m)) =>
             \/ Precedes(queue[u][q], Resume(c), Persist(m))
             \/ u = t /\ q = lg[t].queue /\ Buffered(t, m)

\* initialize: the buffer joins the queue, in its order.
LEMMA InitializeMoves ==
    ASSUME Typed, NEW t \in Tabs, NEW s \in Sessions, Initialize(t, s)
    PROVE  Initialized(t, s)
<1>1. lines' = lines /\ UNCHANGED <<clock, task, db, call, gone>> /\ ~lg[t].initialized
  BY DEF Initialize
<1>2. lg[t].session = None
  BY <1>1 DEF Typed, LoggerFits
<1>3. lg \in [Tabs -> Logger] /\ lg[t] \in Logger
  BY DEF Typed, TypeOK
<1>4. /\ SameLoggers(t) /\ lg'[t].queue = lg[t].queue
      /\ lg'[t].session = s /\ lg'[t].sequence = lg[t].sequence
      /\ lg'[t].pending = <<>> /\ lg'[t].read = lg[t].read
  BY <1>3 DEF Initialize, SameLoggers, Logger
<1>5. PICK items \in Seq(Item) :
             /\ Enqueued(t, items)
             /\ \A l \in Line : In(items, Persist(l)) <=> Buffered(t, l)
             /\ \A l, m \in Line : Precedes(items, Persist(l), Persist(m))
                                      => Precedes(lg[t].pending, l, m)
             /\ \A c : ~In(items, Resume(c))
  BY InitializeFacts
<1>6. \A u \in Tabs, q \in Queue, l \in Line : Queued(u, q, l)' <=>
          Queued(u, q, l) \/ (u = t /\ q = lg[t].queue /\ Buffered(t, l))
  BY <1>5 DEF Enqueued, Queued
<1>7. \A u \in Tabs, q \in Queue, l, m \in Line :
          Precedes(queue'[u][q], Persist(l), Persist(m)) =>
             \/ Precedes(queue[u][q], Persist(l), Persist(m))
             \/ /\ u = t /\ q = lg[t].queue
                /\ \/ Precedes(lg[t].pending, l, m)
                   \/ Queued(u, q, l) /\ Buffered(t, m)
  BY <1>5 DEF Enqueued, Queued
<1>8. \A x, y : Precedes(items, x, y) => In(items, x)
  BY DEF Precedes, In
<1>9. \A u \in Tabs, q \in Queue, c \in Calls, m \in Line :
          Precedes(queue'[u][q], Resume(c), Persist(m)) =>
             \/ Precedes(queue[u][q], Resume(c), Persist(m))
             \/ u = t /\ q = lg[t].queue /\ Buffered(t, m)
  BY <1>5, <1>8 DEF Enqueued
<1> QED BY <1>1, <1>2, <1>4, <1>6, <1>7, <1>9 DEF Initialized

\* The line at the head of the queue is in hand, or gone.
Began(t, q, n) ==
    /\ lines' = lines /\ UNCHANGED <<clock, lg, db, call>> /\ gone \subseteq gone'
    /\ Queued(t, q, n) /\ SameTasks(t, q) /\ task[t][q].step = "idle"
    /\ \A u \in Tabs, p \in Queue, l \in Line :
          /\ Queued(u, p, l)' => Queued(u, p, l)
          /\ Queued(u, p, l) => Queued(u, p, l)' \/ (u = t /\ p = q /\ l = n)
    /\ \A l \in Line :
          Queued(t, q, l)' => Precedes(queue[t][q], Persist(n), Persist(l))
    /\ \A u \in Tabs, p \in Queue, l, m \in Line :
          Precedes(queue'[u][p], Persist(l), Persist(m))
             => Precedes(queue[u][p], Persist(l), Persist(m))
    /\ \A u \in Tabs, p \in Queue, c \in Calls, m \in Line :
          Precedes(queue'[u][p], Resume(c), Persist(m))
             => Precedes(queue[u][p], Resume(c), Persist(m))
    /\ \/ lg[t].session = None /\ task'[t][q].step = "idle" /\ n \in gone'
       \/ /\ lg[t].session # None
          /\ task'[t][q].step = "encrypt" /\ task'[t][q].line = n
          /\ task'[t][q].key = lg[t].session

\* A line goes from the head of its queue to a task, or is gone.
LEMMA BeginPersistMoves ==
    ASSUME Typed, NEW t \in Tabs, NEW q \in Queue, BeginPersist(t, q)
    PROVE  \E n \in Line : Began(t, q, n)
<1>1. /\ Popped(t, q, Head(queue[t][q])) /\ Head(queue[t][q]) \in Item
      /\ Head(queue[t][q]).kind = "persist"
  BY Headed DEF BeginPersist
<1>2. PICK n \in Line : n = Head(queue[t][q]).line /\ Head(queue[t][q]) = Persist(n)
  BY <1>1, ItemCases
<1>3. Popped(t, q, Persist(n))
  BY <1>1, <1>2
<1>4. lines' = lines /\ UNCHANGED <<clock, lg, db, call>>
  BY DEF BeginPersist
<1>5. Queued(t, q, n) /\ task[t][q].step = "idle"
  BY <1>3 DEF Popped, Queued, Idle
<1>6. \A u \in Tabs, p \in Queue, l \in Line :
          /\ Queued(u, p, l)' => Queued(u, p, l)
          /\ Queued(u, p, l) => Queued(u, p, l)' \/ (u = t /\ p = q /\ l = n)
  <2> SUFFICES ASSUME NEW u \in Tabs, NEW p \in Queue, NEW l \in Line
      PROVE  /\ In(queue'[u][p], Persist(l)) => In(queue[u][p], Persist(l))
             /\ In(queue[u][p], Persist(l)) =>
                   In(queue'[u][p], Persist(l)) \/ (u = t /\ p = q /\ l = n)
    BY DEF Queued
  <2>1. Persist(l) = Persist(n) <=> l = n
    BY ItemMakes
  <2> QED BY <1>3, <2>1, PoppedItem
<1>7. \A l \in Line :
          Queued(t, q, l)' => Precedes(queue[t][q], Persist(n), Persist(l))
  BY <1>3, PoppedItem DEF Queued
<1>8. \A u \in Tabs, p \in Queue : \A x, y :
          Precedes(queue'[u][p], x, y) => Precedes(queue[u][p], x, y)
  BY <1>3, PoppedItem
<1>9. \/ lg[t].session = None /\ UNCHANGED task /\ gone' = gone \cup {n}
      \/ /\ lg[t].session # None /\ UNCHANGED gone
         /\ Run(t, q, [step |-> "encrypt", line |-> n, key |-> lg[t].session])
  BY <1>2 DEF BeginPersist
<1>10. CASE lg[t].session = None
  <2>1. UNCHANGED task /\ gone' = gone \cup {n}
    BY <1>9, <1>10
  <2>2. SameTasks(t, q) /\ task'[t][q].step = "idle"
    BY <1>5, <2>1 DEF SameTasks
  <2> QED BY <1>4, <1>5, <1>6, <1>7, <1>8, <1>10, <2>1, <2>2 DEF Began
<1>11. CASE lg[t].session # None
  <2> DEFINE k == [step |-> "encrypt", line |-> n, key |-> lg[t].session]
  <2>1. Run(t, q, k) /\ UNCHANGED gone /\ lg[t].session \in Sessions
    BY <1>9, <1>11, Types DEF Logger
  <2>2. k \in Task /\ k.step = "encrypt" /\ k.line = n /\ k.key = lg[t].session
    BY <2>1, TaskMakes
  <2> HIDE DEF k
  <2>3. SameTasks(t, q) /\ task'[t][q] = k
    BY <2>1, <2>2, RunFacts DEF SameTasks
  <2> QED BY <1>4, <1>5, <1>6, <1>7, <1>8, <1>11, <2>1, <2>2, <2>3 DEF Began
<1> QED BY <1>10, <1>11

\* The line in hand is numbered, and still in hand, or gone.
Ciphered(t, q) ==
    /\ lines' = lines /\ UNCHANGED <<clock, queue, db, call>> /\ gone \subseteq gone'
    /\ SameTasks(t, q) /\ SameLoggers(t)
    /\ lg'[t].queue = lg[t].queue /\ lg'[t].session = lg[t].session
    /\ lg'[t].pending = lg[t].pending /\ lg'[t].read = lg[t].read
    /\ lg[t].sequence \in Nat /\ lg'[t].sequence = lg[t].sequence + 1
    /\ task[t][q].step = "encrypt"
    /\ \/ /\ lg[t].session = None /\ task'[t][q].step = "idle"
          /\ task[t][q].line \in gone'
       \/ /\ lg[t].session # None
          /\ task'[t][q].step = "store" /\ task'[t][q].to = lg[t].session
          /\ task'[t][q].entry.line = task[t][q].line
          /\ task'[t][q].entry.key = task[t][q].key
          /\ task'[t][q].entry.sequence = lg[t].sequence

\* A line is numbered and goes to be stored, or is gone.
LEMMA EncryptedMoves ==
    ASSUME Typed, NEW t \in Tabs, NEW q \in Queue, Encrypted(t, q)
    PROVE  Ciphered(t, q)
<1> DEFINE k == task[t][q]
<1>1. /\ k \in Task /\ k.line \in Line /\ k.key \in Sessions /\ k.step = "encrypt"
  BY Types, TaskCases DEF Encrypted
<1>2. lg \in [Tabs -> Logger] /\ lg[t] \in Logger /\ lg[t].sequence \in Nat
  BY Types DEF Typed, TypeOK, Logger
<1>3. /\ lg' = [lg EXCEPT ![t].sequence = @ + 1]
      /\ lines' = lines /\ UNCHANGED <<clock, queue, db, call>>
  BY DEF Encrypted
<1>4. /\ SameLoggers(t)
      /\ lg'[t].queue = lg[t].queue /\ lg'[t].session = lg[t].session
      /\ lg'[t].pending = lg[t].pending /\ lg'[t].read = lg[t].read
      /\ lg'[t].sequence = lg[t].sequence + 1
  BY <1>2, <1>3 DEF Logger, SameLoggers
<1>5. CASE lg[t].session = None
  <2>1. Run(t, q, Idle) /\ gone' = gone \cup {k.line}
    BY <1>5 DEF Encrypted
  <2>2. SameTasks(t, q) /\ task'[t][q].step = "idle"
    BY <2>1, TaskMakes, RunFacts DEF SameTasks
  <2> QED BY <1>1, <1>2, <1>3, <1>4, <1>5, <2>1, <2>2 DEF Ciphered
<1>6. CASE lg[t].session # None
  <2> DEFINE e == [line |-> k.line, key |-> k.key, sequence |-> lg[t].sequence]
             j == [step |-> "store", to |-> lg[t].session, entry |-> e]
  <2>1. Run(t, q, j) /\ UNCHANGED gone /\ lg[t].session \in Sessions
    BY <1>2, <1>6 DEF Encrypted, Logger
  <2>2. e \in Written /\ e.line = k.line /\ e.key = k.key /\ e.sequence = lg[t].sequence
    BY <1>1, <1>2 DEF Written
  <2> HIDE DEF e
  <2>3. j \in Task /\ j.step = "store" /\ j.to = lg[t].session /\ j.entry = e
    BY <2>1, <2>2, TaskMakes
  <2> HIDE DEF j
  <2>4. SameTasks(t, q) /\ task'[t][q] = j
    BY <2>1, <2>3, RunFacts DEF SameTasks
  <2> QED BY <1>1, <1>2, <1>3, <1>4, <1>6, <2>1, <2>2, <2>3, <2>4 DEF Ciphered
<1> QED BY <1>5, <1>6

\* The line in hand is stored.
StoredAt(t, q, s, e) ==
    /\ lines' = lines /\ UNCHANGED <<clock, lg, queue, call>>
    /\ gone \subseteq gone' /\ SameTasks(t, q) /\ task'[t][q].step = "idle"
    /\ task[t][q].step = "store" /\ task[t][q].to = s /\ task[t][q].entry = e
    /\ \A r \in Sessions : db'[r] = IF r = s THEN db[s] \cup {e} ELSE db[r]

\* A line goes from its task to a database.
LEMMA StoreMoves ==
    ASSUME Typed, NEW t \in Tabs, NEW q \in Queue, Store(t, q)
    PROVE  \E s \in Sessions, e \in Written : StoredAt(t, q, s, e)
<1>1. PICK s \in Sessions, e \in Written :
         task[t][q].step = "store" /\ task[t][q].to = s /\ task[t][q].entry = e
  BY Types, TaskCases DEF Store
<1>2. /\ Run(t, q, Idle) /\ lines' = lines /\ UNCHANGED <<clock, lg, queue, call>>
      /\ db' = [db EXCEPT ![s] = @ \cup {e}] /\ gone \subseteq gone'
  BY <1>1 DEF Store
<1>3. SameTasks(t, q) /\ task'[t][q].step = "idle"
  BY <1>2, TaskMakes, RunFacts DEF SameTasks
<1>4. \A r \in Sessions : db'[r] = IF r = s THEN db[s] \cup {e} ELSE db[r]
  BY <1>2 DEF Typed, TypeOK
<1> QED BY <1>1, <1>2, <1>3, <1>4 DEF StoredAt

\* The logger leaves its queue, and its buffer is gone.
Left(t) ==
    /\ lines' = lines /\ UNCHANGED <<clock, queue, task, db>> /\ gone \subseteq gone'
    /\ SameLoggers(t) /\ lg[t].queue \in Queue /\ lg'[t].queue = lg[t].queue + 1
    /\ lg'[t].session = None /\ lg'[t].sequence = lg[t].sequence
    /\ lg'[t].pending = <<>> /\ lg'[t].read = None
    /\ \A l : Buffered(t, l) => l \in gone'

\* destroy: the logger leaves its queue, and its buffer is gone.
LEMMA ClosedMoves ==
    ASSUME Typed, NEW c \in Calls, Closed(c)
    PROVE  \E t \in Tabs : Left(t) /\ call[c].tab = t
<1>1. PICK t \in Tabs : t = call[c].tab
  BY Types DEF Call
<1>2. lg \in [Tabs -> Logger] /\ lg[t] \in Logger /\ lg[t].queue \in Queue
  BY Types DEF Typed, TypeOK
<1>3. /\ lines' = lines /\ UNCHANGED <<clock, queue, task, db>>
      /\ gone' = gone \cup ToSet(lg[t].pending)
      /\ lg' = [lg EXCEPT ![t].initialized = FALSE, ![t].session = None,
                          ![t].pending = <<>>, ![t].read = None,
                          ![t].queue = @ + 1]
  BY <1>1 DEF Closed
<1>4. /\ SameLoggers(t) /\ lg'[t].queue = lg[t].queue + 1
      /\ lg'[t].session = None /\ lg'[t].sequence = lg[t].sequence
      /\ lg'[t].pending = <<>> /\ lg'[t].read = None
  BY <1>2, <1>3 DEF SameLoggers, Logger
<1>5. \A l : Buffered(t, l) => l \in gone'
  <2>1. lg[t].pending \in Seq(Line)
    BY <1>2 DEF Logger
  <2>2. \A l : In(lg[t].pending, l) => l \in ToSet(lg[t].pending)
    BY <2>1, LenProperties DEF In, ToSet
  <2> QED BY <1>3, <2>2 DEF Buffered
<1>6. /\ lines' = lines /\ UNCHANGED <<clock, queue, task, db>>
      /\ gone \subseteq gone'
  BY <1>3
<1>7. Left(t)
  BY <1>2, <1>4, <1>5, <1>6, Zenon DEF Left
<1> QED BY <1>1, <1>7

-----------------------------------------------------------------------------
(* The order of the lines, step by step.                                   *)

\* Where the lines are, after a quiet step.
LEMMA QuietFacts ==
    ASSUME Typed, Quiet
    PROVE  /\ lines' = lines /\ clock <= clock'
           /\ \A t \in Tabs : /\ lg'[t].queue = lg[t].queue
                              /\ lg'[t].session = lg[t].session
                              /\ lg'[t].pending = lg[t].pending
                              /\ lg'[t].sequence = lg[t].sequence
           /\ \A t \in Tabs, l \in Line : Buffered(t, l)' <=> Buffered(t, l)
           /\ \A t \in Tabs, q \in Queue, l \in Line :
                /\ Queued(t, q, l)' <=> Queued(t, q, l)
                /\ InHand(t, q, l)' => InHand(t, q, l)
                /\ Live(t, q, l)' => Live(t, q, l)
           /\ \A t \in Tabs, q \in Queue, l, m \in Line :
                Precedes(queue'[t][q], Persist(l), Persist(m))
                   => Precedes(queue[t][q], Persist(l), Persist(m))
           /\ \A s \in Sessions : db'[s] \subseteq db[s]
           /\ \A s \in Sessions, l \in Line : StoredIn(s, l)' => StoredIn(s, l)
           /\ \A t \in Tabs, q \in Queue :
                 task'[t][q].step \in {"encrypt", "store"} => task'[t][q] = task[t][q]
<1>1. /\ \A t \in Tabs, q \in Queue, l \in Line : InHand(t, q, l)' => InHand(t, q, l)
      /\ \A t \in Tabs, q \in Queue :
           task'[t][q].step \in {"encrypt", "store"} => task'[t][q] = task[t][q]
  BY DEF Quiet, QuietTasks, InHand, Holds
<1>2. \A s \in Sessions, l \in Line : StoredIn(s, l)' => StoredIn(s, l)
  BY DEF Quiet, QuietStore, StoredIn
<1>3. \A t \in Tabs, l \in Line : Buffered(t, l)' <=> Buffered(t, l)
  BY DEF Quiet, QuietLoggers, Buffered
<1> QED BY <1>1, <1>2, <1>3
           DEF Quiet, QuietQueue, QuietStore, QuietLoggers, Live

\* A quiet step keeps the order.
LEMMA QuietOrder == ASSUME Typed, Typed', OrderInv, Quiet PROVE OrderInv'
<1>1. LinesFit /\ InOrder /\ Numbered
  BY DEF OrderInv
<1>2. \A t \in Tabs : lg[t].queue <= lg'[t].queue /\ lg[t].sequence <= lg'[t].sequence
  BY QuietFacts, Types DEF Logger, Queue
<1>3. LinesFit'
  BY <1>1, <1>2, QuietFacts, LinesFitStay
<1>4. InOrder'
  BY <1>1, QuietFacts, InOrderStays
<1>5. Numbered'
  BY <1>1, <1>2, QuietFacts, NumberedStays
<1> QED BY <1>3, <1>4, <1>5 DEF OrderInv

\* Encryption keeps the order: the number it gives is the last so far.
LEMMA EncryptedOrder ==
    ASSUME Typed, Typed', OrderInv, NEW t \in Tabs, NEW q \in Queue, Ciphered(t, q)
    PROVE  OrderInv'
<1>1. LinesFit /\ InOrder /\ Numbered
  BY DEF OrderInv
<1>2. /\ lines' = lines /\ clock <= clock' /\ queue' = queue /\ db' = db
      /\ SameTasks(t, q) /\ SameLoggers(t)
      /\ lg'[t].queue = lg[t].queue /\ lg'[t].pending = lg[t].pending
      /\ lg[t].sequence \in Nat /\ lg'[t].sequence = lg[t].sequence + 1
      /\ task[t][q].step = "encrypt"
      /\ \/ task'[t][q].step = "idle"
         \/ /\ task'[t][q].step = "store"
            /\ task'[t][q].entry.line = task[t][q].line
            /\ task'[t][q].entry.sequence = lg[t].sequence
  BY DEF Ciphered, Typed, TypeOK
<1>3. \A u \in Tabs : /\ lg'[u].queue = lg[u].queue /\ lg'[u].pending = lg[u].pending
                      /\ lg[u].queue <= lg'[u].queue
                      /\ lg[u].sequence <= lg'[u].sequence
  BY <1>2, Types DEF SameLoggers, Logger, Queue
<1>4. \A u \in Tabs, l \in Line : Buffered(u, l)' <=> Buffered(u, l)
  BY <1>3 DEF Buffered
<1>5. \A u \in Tabs, p \in Queue, l \in Line :
         /\ Queued(u, p, l)' <=> Queued(u, p, l)
         /\ InHand(u, p, l)' => InHand(u, p, l)
  <2>1. \A u \in Tabs, p \in Queue, l \in Line : Queued(u, p, l)' <=> Queued(u, p, l)
    BY <1>2 DEF Queued
  <2>2. ASSUME NEW u \in Tabs, NEW p \in Queue, NEW l \in Line, InHand(u, p, l)'
        PROVE  InHand(u, p, l)
    BY <1>2, <2>2 DEF InHand, Holds, SameTasks
  <2> QED BY <2>1, <2>2
<1>6. \A u \in Tabs, p \in Queue, l \in Line : Live(u, p, l)' => Live(u, p, l)
  BY <1>5 DEF Live
<1>7. \A s \in Sessions, l \in Line : StoredIn(s, l)' <=> StoredIn(s, l)
  BY <1>2 DEF StoredIn
<1>8. LinesFit'
  BY <1>1, <1>2, <1>3, <1>4, <1>6, <1>7, LinesFitStay
<1>9. InOrder'
  BY <1>1, <1>2, <1>3, <1>4, <1>5, <1>7, InOrderStays
<1>10. Numbered'
  <2>1. \A u \in Tabs, p \in Queue : \A l : Of(u, p, l)' <=> Of(u, p, l)
    BY <1>2 DEF Of
  <2>2. ASSUME NEW u \in Tabs, NEW p \in Queue, task'[u][p].step = "store"
        PROVE  /\ task'[u][p].entry.sequence < lg'[u].sequence
               /\ \A s \in Sessions : \A e \in db[s] :
                    Of(u, p, e.line) => e.sequence < task'[u][p].entry.sequence
    <3>1. CASE u = t /\ p = q
      <4>1. task'[u][p].entry.sequence = lg[t].sequence
        BY <1>2, <2>2, <3>1
      <4>2. \A s \in Sessions : \A e \in db[s] :
               Of(t, q, e.line) => e.sequence < lg[t].sequence
        <5> SUFFICES ASSUME NEW s \in Sessions, NEW e \in db[s], Of(t, q, e.line)
                     PROVE  e.sequence < lg[t].sequence
          OBVIOUS
        <5>1. e.line # Old /\ lines[e.line].tab = t
          BY Types DEF Of, Old
        <5> QED BY <1>1, <5>1 DEF Numbered
      <4> QED BY <1>2, <3>1, <4>1, <4>2
    <3>2. CASE ~(u = t /\ p = q)
      <4>1. task'[u][p] = task[u][p]
        BY <1>2, <3>2 DEF SameTasks
      <4>2. task[u][p].entry.sequence < lg[u].sequence
        BY <1>1, <2>2, <4>1 DEF Numbered
      <4>3. /\ task[u][p].entry.sequence \in Nat /\ lg[u].sequence \in Nat
            /\ lg'[u].sequence \in Nat
        <5>1. task[u][p].entry \in Written
          BY <2>2, <4>1, Types, TaskCases
        <5>2. lg[u] \in Logger /\ lg'[u] \in Logger
          BY DEF Typed, TypeOK
        <5> QED BY <5>1, <5>2, EntryCases DEF Logger
      <4>4. task'[u][p].entry.sequence < lg'[u].sequence
        BY <1>3, <4>1, <4>2, <4>3
      <4>5. \A s \in Sessions : \A e \in db[s] :
               Of(u, p, e.line) => e.sequence < task[u][p].entry.sequence
        BY <1>1, <2>2, <4>1 DEF Numbered
      <4> QED BY <4>1, <4>4, <4>5
    <3> QED BY <3>1, <3>2
  <2>3. \A s \in Sessions : \A e \in db[s] :
          e.line # Old => e.sequence < lg'[lines[e.line].tab].sequence
    <3> SUFFICES ASSUME NEW s \in Sessions, NEW e \in db[s], e.line # Old
                 PROVE  e.sequence < lg'[lines[e.line].tab].sequence
      OBVIOUS
    <3>1. e.sequence < lg[lines[e.line].tab].sequence
      BY <1>1 DEF Numbered
    <3>2. e.line \in 1 .. Len(lines) /\ e.sequence \in Nat
      BY <1>1, Types, EntryCases DEF LinesFit, StoredIn
    <3>3. lines[e.line].tab \in Tabs
      BY <3>2, Types
    <3>4. lg[lines[e.line].tab].sequence \in Nat /\ lg'[lines[e.line].tab].sequence \in Nat
      BY <3>3 DEF Typed, TypeOK, Logger
    <3> QED BY <1>3, <3>1, <3>2, <3>3, <3>4
  <2>4. \A s \in Sessions : \A d, e \in db[s] : \A u \in Tabs, p \in Queue :
          Of(u, p, d.line) /\ Of(u, p, e.line) /\ d.line < e.line
             => d.sequence < e.sequence
    BY <1>1 DEF Numbered
  <2> QED BY <1>2, <2>1, <2>2, <2>3, <2>4 DEF Numbered
<1> QED BY <1>8, <1>9, <1>10 DEF OrderInv

\* destroy keeps the order: the new queue is empty.
LEMMA ClosedOrder ==
    ASSUME Typed, Typed', OrderInv, NEW t \in Tabs, Left(t)
    PROVE  OrderInv'
<1>1. LinesFit /\ InOrder /\ Numbered
  BY DEF OrderInv
<1>2. /\ lines' = lines /\ clock <= clock' /\ queue' = queue /\ db' = db
      /\ task' = task /\ SameLoggers(t) /\ lg[t].queue \in Nat
      /\ lg'[t].queue = lg[t].queue + 1 /\ lg'[t].pending = <<>>
      /\ lg'[t].sequence = lg[t].sequence
  BY Types DEF Left, Typed, TypeOK, Queue
<1>3. \A u \in Tabs : lg[u].queue <= lg'[u].queue /\ lg[u].sequence <= lg'[u].sequence
  BY <1>2, Types DEF SameLoggers, Logger, Queue
<1>4. \A u \in Tabs, l \in Line :
         Buffered(u, l)' => Buffered(u, l) /\ lg'[u].queue = lg[u].queue
  BY <1>2, EmptyFacts DEF Buffered, SameLoggers
<1>5. \A u \in Tabs, l, m \in Line :
         Precedes(lg'[u].pending, l, m) => Precedes(lg[u].pending, l, m)
  BY <1>2, EmptyFacts DEF SameLoggers
<1>6. /\ \A u \in Tabs, p \in Queue, l \in Line :
            /\ Queued(u, p, l)' <=> Queued(u, p, l)
            /\ InHand(u, p, l)' <=> InHand(u, p, l)
            /\ Live(u, p, l)' <=> Live(u, p, l)
      /\ \A s \in Sessions, l \in Line : StoredIn(s, l)' <=> StoredIn(s, l)
  BY <1>2 DEF Queued, InHand, Live, StoredIn
<1>7. LinesFit'
  BY <1>1, <1>2, <1>3, <1>4, <1>6, LinesFitStay
<1>8. InOrder'
  BY <1>1, <1>2, <1>4, <1>5, <1>6, InOrderStays
<1>9. Numbered'
  BY <1>1, <1>2, <1>3, NumberedStays
<1> QED BY <1>7, <1>8, <1>9 DEF OrderInv

\* Storing keeps the order: all of its queue stored so far is older.
LEMMA StoreOrder ==
    ASSUME Typed, Typed', OrderInv, NEW t \in Tabs, NEW q \in Queue,
           NEW s \in Sessions, NEW e \in Written, StoredAt(t, q, s, e)
    PROVE  OrderInv'
<1>1. LinesFit /\ InOrder /\ Numbered
  BY DEF OrderInv
<1>2. /\ lines' = lines /\ clock <= clock' /\ queue' = queue /\ lg' = lg
      /\ SameTasks(t, q) /\ task'[t][q].step = "idle"
      /\ task[t][q].step = "store" /\ task[t][q].entry = e
      /\ \A r \in Sessions : db'[r] = IF r = s THEN db[s] \cup {e} ELSE db[r]
  BY DEF StoredAt, Typed, TypeOK
<1> DEFINE n == e.line
<1>3. n \in Line /\ e.sequence \in Nat /\ InHand(t, q, n) /\ Live(t, q, n)
  BY <1>2, EntryCases DEF InHand, Holds, Live
<1>4. Of(t, q, n)
  BY <1>1, <1>3 DEF LinesFit
<1>5. /\ \A u \in Tabs, p \in Queue, l \in Line :
            /\ Queued(u, p, l)' <=> Queued(u, p, l)
            /\ InHand(u, p, l)' => InHand(u, p, l) /\ ~(u = t /\ p = q)
            /\ Live(u, p, l)' => Live(u, p, l)
      /\ \A u \in Tabs, l \in Line : Buffered(u, l)' <=> Buffered(u, l)
      /\ \A u \in Tabs, p \in Queue : \A l : Of(u, p, l)' <=> Of(u, p, l)
  BY <1>2 DEF Queued, InHand, Holds, Live, SameTasks, Buffered, Of
<1>6. \A r \in Sessions, l \in Line :
         StoredIn(r, l)' => StoredIn(r, l) \/ (r = s /\ l = n)
  BY <1>2 DEF StoredIn
<1>7. \A u \in Tabs : lg[u].queue <= lg'[u].queue
  BY <1>2, Types DEF Queue
<1>8. LinesFit'
  <2>1. \A r \in Sessions, l \in Line : StoredIn(r, l)' =>
           StoredIn(r, l) \/ \E u \in Tabs, p \in Queue : Live(u, p, l)
    BY <1>3, <1>6
  <2> QED BY <1>1, <1>2, <1>5, <1>7, <2>1, LinesFitStay
<1>9. InOrder'
  <2> SUFFICES ASSUME NEW u \in Tabs, NEW p \in Queue, NEW l \in Line, NEW m \in Line
      PROVE  /\ Precedes(lg'[u].pending, l, m) => l < m
             /\ Precedes(queue'[u][p], Persist(l), Persist(m)) => l < m
             /\ InHand(u, p, l)' /\ Queued(u, p, m)' => l < m
             /\ Live(u, p, l)' /\ p = lg'[u].queue /\ Buffered(u, m)' => l < m
             /\ \A r \in Sessions : StoredIn(r, l)' /\ Of(u, p, l)' =>
                  /\ Live(u, p, m)' => l < m
                  /\ p = lg'[u].queue /\ Buffered(u, m)' => l < m
    BY DEF InOrder
  <2>1. /\ Precedes(lg'[u].pending, l, m) => l < m
        /\ Precedes(queue'[u][p], Persist(l), Persist(m)) => l < m
        /\ InHand(u, p, l)' /\ Queued(u, p, m)' => l < m
        /\ Live(u, p, l)' /\ p = lg'[u].queue /\ Buffered(u, m)' => l < m
    BY <1>1, <1>2, <1>5 DEF InOrder
  <2>2. ASSUME NEW r \in Sessions, StoredIn(r, l)', Of(u, p, l)'
        PROVE  /\ Live(u, p, m)' => l < m
               /\ p = lg'[u].queue /\ Buffered(u, m)' => l < m
    <3>1. Of(u, p, l)
      BY <1>5, <2>2
    <3>2. CASE StoredIn(r, l)
      BY <1>1, <1>2, <1>5, <3>1, <3>2 DEF InOrder
    <3>3. CASE l = n
      <4>1. u = t /\ p = q
        BY <1>4, <3>1, <3>3 DEF Of
      <4>2. Live(t, q, m)' => Queued(t, q, m)
        BY <1>5 DEF Live
      <4>3. Queued(t, q, m) => l < m
        BY <1>1, <1>3, <3>3 DEF InOrder
      <4>4. q = lg[t].queue /\ Buffered(t, m) => l < m
        BY <1>1, <1>3, <3>3 DEF InOrder
      <4> QED BY <1>2, <1>5, <4>1, <4>2, <4>3, <4>4
    <3> QED BY <1>6, <2>2, <3>2, <3>3
  <2> QED BY <2>1, <2>2
<1>10. Numbered'
  <2>1. ASSUME NEW u \in Tabs, NEW p \in Queue, task'[u][p].step = "store"
        PROVE  /\ task'[u][p].entry.sequence < lg'[u].sequence
               /\ \A r \in Sessions : \A d \in db'[r] :
                    Of(u, p, d.line)' => d.sequence < task'[u][p].entry.sequence
    <3>1. ~(u = t /\ p = q) /\ task'[u][p] = task[u][p]
      BY <1>2, <2>1 DEF SameTasks
    <3>2. /\ task[u][p].entry.sequence < lg[u].sequence
          /\ \A r \in Sessions : \A d \in db[r] :
                Of(u, p, d.line) => d.sequence < task[u][p].entry.sequence
      BY <1>1, <2>1, <3>1 DEF Numbered
    <3>3. ~Of(u, p, n)
      BY <1>4, <3>1 DEF Of
    <3> QED BY <1>2, <1>5, <3>1, <3>2, <3>3
  <2>2. \A r \in Sessions : \A d \in db'[r] :
          d.line # Old => d.sequence < lg'[lines'[d.line].tab].sequence
    <3>1. e.sequence < lg[lines[n].tab].sequence
      BY <1>1, <1>2, <1>4 DEF Numbered, Of
    <3>2. \A r \in Sessions : \A d \in db[r] :
          d.line # Old => d.sequence < lg[lines[d.line].tab].sequence
      BY <1>1 DEF Numbered
    <3> QED BY <1>2, <3>1, <3>2
  <2>3. ASSUME NEW r \in Sessions, NEW d \in db'[r], NEW f \in db'[r],
               NEW u \in Tabs, NEW p \in Queue,
               Of(u, p, d.line)', Of(u, p, f.line)', d.line < f.line
        PROVE  d.sequence < f.sequence
    <3>1. Of(u, p, d.line) /\ Of(u, p, f.line)
      BY <1>5, <2>3
    <3>2. CASE d \in db[r] /\ f \in db[r]
      BY <1>1, <2>3, <3>1, <3>2 DEF Numbered
    <3>3. CASE f = e
      <4>1. u = t /\ p = q
        BY <1>4, <3>1, <3>3 DEF Of
      <4>2. d # e
        BY <1>3, <2>3, <3>3 DEF Line
      <4>3. d \in db[r]
        BY <1>2, <4>2
      <4> QED BY <1>1, <1>2, <3>1, <3>3, <4>1, <4>3 DEF Numbered
    <3>4. CASE d = e /\ f \in db[r]
      <4>1. u = t /\ p = q
        BY <1>4, <3>1, <3>4 DEF Of
      <4>2. f.line \in Line /\ StoredIn(r, f.line)
        BY <3>1, <3>4, Types DEF Of, StoredIn
      <4>3. f.line < n
        BY <1>1, <1>3, <3>1, <4>1, <4>2 DEF InOrder
      <4> QED BY <1>3, <2>3, <3>4, <4>2, <4>3 DEF Line
    <3> QED BY <1>2, <3>2, <3>3, <3>4
  <2> QED BY <2>1, <2>2, <2>3 DEF Numbered
<1> QED BY <1>8, <1>9, <1>10 DEF OrderInv

\* A line at the head of its queue is the oldest of it.
LEMMA BeginPersistOrder ==
    ASSUME Typed, Typed', OrderInv, NEW t \in Tabs, NEW q \in Queue, NEW n \in Line,
           Began(t, q, n)
    PROVE  OrderInv'
<1>1. LinesFit /\ InOrder /\ Numbered
  BY DEF OrderInv
<1>2. /\ lines' = lines /\ clock <= clock' /\ lg' = lg /\ db' = db /\ Queued(t, q, n)
      /\ SameTasks(t, q) /\ task'[t][q].step # "store"
      /\ \A l : Holds(task'[t][q], l) => l = n
  BY DEF Began, Typed, TypeOK, Holds
<1>3. /\ \A u \in Tabs, p \in Queue, l \in Line :
            /\ Queued(u, p, l)' => Queued(u, p, l)
            /\ InHand(u, p, l)' => InHand(u, p, l) \/ (u = t /\ p = q /\ l = n)
      /\ \A l \in Line : InHand(t, q, l)' => l = n
      /\ \A u \in Tabs, l \in Line : Buffered(u, l)' <=> Buffered(u, l)
      /\ \A u \in Tabs, p \in Queue : \A l : Of(u, p, l)' <=> Of(u, p, l)
      /\ \A s \in Sessions, l \in Line : StoredIn(s, l)' <=> StoredIn(s, l)
  BY <1>2 DEF Began, InHand, SameTasks, Buffered, Of, StoredIn
<1>4. \A u \in Tabs, p \in Queue, l \in Line : Live(u, p, l)' => Live(u, p, l)
  BY <1>2, <1>3 DEF Live
<1>5. \A u \in Tabs : lg[u].queue <= lg'[u].queue
  BY <1>2, Types DEF Queue
<1>6. LinesFit'
  BY <1>1, <1>2, <1>3, <1>4, <1>5, LinesFitStay
<1>7. /\ \A l \in Line : Queued(t, q, l)' => Precedes(queue[t][q], Persist(n), Persist(l))
      /\ \A u \in Tabs, p \in Queue, l, m \in Line :
          Precedes(queue'[u][p], Persist(l), Persist(m))
             => Precedes(queue[u][p], Persist(l), Persist(m))
  BY DEF Began
<1>8. InOrder'
  <2> SUFFICES ASSUME NEW u \in Tabs, NEW p \in Queue, NEW l \in Line, NEW m \in Line
      PROVE  /\ Precedes(lg'[u].pending, l, m) => l < m
             /\ Precedes(queue'[u][p], Persist(l), Persist(m)) => l < m
             /\ InHand(u, p, l)' /\ Queued(u, p, m)' => l < m
             /\ Live(u, p, l)' /\ p = lg'[u].queue /\ Buffered(u, m)' => l < m
             /\ \A r \in Sessions : StoredIn(r, l)' /\ Of(u, p, l)' =>
                  /\ Live(u, p, m)' => l < m
                  /\ p = lg'[u].queue /\ Buffered(u, m)' => l < m
    BY DEF InOrder
  <2>1. /\ Precedes(lg'[u].pending, l, m) => l < m
        /\ Precedes(queue'[u][p], Persist(l), Persist(m)) => l < m
        /\ Live(u, p, l)' /\ p = lg'[u].queue /\ Buffered(u, m)' => l < m
    BY <1>1, <1>2, <1>3, <1>4, <1>7 DEF InOrder
  <2>2. InHand(u, p, l)' /\ Queued(u, p, m)' => l < m
    <3>1. CASE u = t /\ p = q
      BY <1>1, <1>3, <1>7, <3>1 DEF InOrder
    <3>2. CASE ~(u = t /\ p = q)
      BY <1>1, <1>3, <3>2 DEF InOrder
    <3> QED BY <3>1, <3>2
  <2>3. \A r \in Sessions : StoredIn(r, l)' /\ Of(u, p, l)' =>
                  /\ Live(u, p, m)' => l < m
                  /\ p = lg'[u].queue /\ Buffered(u, m)' => l < m
    BY <1>1, <1>2, <1>3, <1>4 DEF InOrder
  <2> QED BY <2>1, <2>2, <2>3
<1>9. Numbered'
  <2>1. \A u \in Tabs, p \in Queue :
           task'[u][p].step = "store" => task'[u][p] = task[u][p]
    BY <1>2 DEF SameTasks
  <2>2. \A u \in Tabs : lg[u].sequence <= lg'[u].sequence
    BY <1>2, Types DEF Logger
  <2> QED BY <1>1, <1>2, <2>1, <2>2, NumberedStays
<1> QED BY <1>6, <1>8, <1>9 DEF OrderInv

\* initialize keeps the order: the buffer is queued behind all of its queue.
LEMMA InitializeOrder ==
    ASSUME Typed, Typed', OrderInv, NEW t \in Tabs, NEW s \in Sessions,
           Initialized(t, s)
    PROVE  OrderInv'
<1>1. LinesFit /\ InOrder /\ Numbered
  BY DEF OrderInv
<1>2. /\ lines' = lines /\ clock <= clock' /\ task' = task /\ db' = db
      /\ SameLoggers(t) /\ lg'[t].queue = lg[t].queue /\ lg'[t].pending = <<>>
      /\ lg'[t].sequence = lg[t].sequence
  BY DEF Initialized, Typed, TypeOK
<1>3. /\ \A u \in Tabs, p \in Queue, l \in Line : Queued(u, p, l)' =>
            Queued(u, p, l) \/ (u = t /\ p = lg[t].queue /\ Buffered(t, l))
      /\ \A u \in Tabs, p \in Queue, l, m \in Line :
          Precedes(queue'[u][p], Persist(l), Persist(m)) =>
             \/ Precedes(queue[u][p], Persist(l), Persist(m))
             \/ /\ u = t /\ p = lg[t].queue
                /\ \/ Precedes(lg[t].pending, l, m)
                   \/ Queued(u, p, l) /\ Buffered(t, m)
  BY DEF Initialized
<1>4. /\ \A u \in Tabs : /\ lg'[u].queue = lg[u].queue
                         /\ lg'[u].sequence = lg[u].sequence
      /\ \A u \in Tabs, l \in Line : Buffered(u, l)' => Buffered(u, l) /\ u # t
      /\ \A u \in Tabs, l, m \in Line :
            Precedes(lg'[u].pending, l, m) => Precedes(lg[u].pending, l, m)
      /\ \A u \in Tabs, p \in Queue, l \in Line : InHand(u, p, l)' <=> InHand(u, p, l)
      /\ \A u \in Tabs, p \in Queue : \A l : Of(u, p, l)' <=> Of(u, p, l)
      /\ \A r \in Sessions, l \in Line : StoredIn(r, l)' <=> StoredIn(r, l)
  BY <1>2, EmptyFacts DEF SameLoggers, Buffered, InHand, Of, StoredIn
<1>5. \A u \in Tabs, p \in Queue, l \in Line : Live(u, p, l)' =>
         Live(u, p, l) \/ (u = t /\ p = lg[t].queue /\ Buffered(t, l))
  BY <1>3, <1>4 DEF Live
<1>6. \A u \in Tabs : lg[u].queue <= lg'[u].queue /\ lg[u].sequence <= lg'[u].sequence
  BY <1>4, Types DEF Queue, Logger
<1>7. LinesFit'
  <2>1. \A u \in Tabs, p \in Queue, l \in Line : Live(u, p, l)' =>
            Live(u, p, l) \/ (p = lg[u].queue /\ Buffered(u, l))
    BY <1>5
  <2> QED BY <1>1, <1>2, <1>4, <1>6, <2>1, LinesFitStay
<1>8. InOrder'
  <2> SUFFICES ASSUME NEW u \in Tabs, NEW p \in Queue, NEW l \in Line, NEW m \in Line
      PROVE  /\ Precedes(lg'[u].pending, l, m) => l < m
             /\ Precedes(queue'[u][p], Persist(l), Persist(m)) => l < m
             /\ InHand(u, p, l)' /\ Queued(u, p, m)' => l < m
             /\ Live(u, p, l)' /\ p = lg'[u].queue /\ Buffered(u, m)' => l < m
             /\ \A r \in Sessions : StoredIn(r, l)' /\ Of(u, p, l)' =>
                  /\ Live(u, p, m)' => l < m
                  /\ p = lg'[u].queue /\ Buffered(u, m)' => l < m
    BY DEF InOrder
  <2>1. Precedes(lg'[u].pending, l, m) => l < m
    BY <1>1, <1>4 DEF InOrder
  <2>2. Precedes(queue'[u][p], Persist(l), Persist(m)) => l < m
    BY <1>1, <1>3 DEF InOrder, Live
  <2>3. InHand(u, p, l)' /\ Queued(u, p, m)' => l < m
    BY <1>1, <1>3, <1>4 DEF InOrder, Live
  <2>4. Live(u, p, l)' /\ p = lg'[u].queue /\ Buffered(u, m)' => l < m
    BY <1>1, <1>4, <1>5 DEF InOrder
  <2>5. \A r \in Sessions : StoredIn(r, l)' /\ Of(u, p, l)' =>
                  /\ Live(u, p, m)' => l < m
                  /\ p = lg'[u].queue /\ Buffered(u, m)' => l < m
    BY <1>1, <1>4, <1>5 DEF InOrder
  <2> QED BY <2>1, <2>2, <2>3, <2>4, <2>5
<1>9. Numbered'
  BY <1>1, <1>2, <1>6, NumberedStays
<1> QED BY <1>7, <1>8, <1>9 DEF OrderInv

\* Emit keeps the order: the line is the last.
LEMMA EmitOrder ==
    ASSUME Typed, Typed', OrderInv, NEW t \in Tabs, NEW n \in Line, Emitted(t, n)
    PROVE  OrderInv'
<1>1. LinesFit /\ InOrder /\ Numbered
  BY DEF OrderInv
<1>2. /\ n = Len(lines) + 1 /\ Len(lines') = n /\ Len(lines) \in Nat
      /\ lines'[n].tab = t /\ lines'[n].queue = lg[t].queue /\ lines'[n].ts = clock
      /\ \A l \in 1 .. Len(lines) : lines'[l] = lines[l]
      /\ clock' = clock /\ task' = task /\ db' = db
      /\ \A u \in Tabs : /\ lg'[u].queue = lg[u].queue
                         /\ lg'[u].sequence = lg[u].sequence
  BY Types DEF Emitted
<1>3. /\ \A u \in Tabs, l \in Line : Buffered(u, l)' =>
          Buffered(u, l) \/ (u = t /\ l = n /\ ~lg[t].initialized)
      /\ \A u \in Tabs, l, m \in Line : Precedes(lg'[u].pending, l, m) =>
          Precedes(lg[u].pending, l, m) \/ (u = t /\ Buffered(u, l) /\ m = n)
      /\ \A u \in Tabs, p \in Queue, l \in Line : Queued(u, p, l)' =>
          \/ Queued(u, p, l)
          \/ u = t /\ p = lg[t].queue /\ l = n /\ lg[t].initialized
      /\ \A u \in Tabs, p \in Queue, l, m \in Line :
          Precedes(queue'[u][p], Persist(l), Persist(m)) =>
             \/ Precedes(queue[u][p], Persist(l), Persist(m))
             \/ u = t /\ p = lg[t].queue /\ Queued(u, p, l) /\ m = n
  BY DEF Emitted
<1>4. /\ \A u \in Tabs, p \in Queue, l \in Line : InHand(u, p, l)' <=> InHand(u, p, l)
      /\ \A r \in Sessions, l \in Line : StoredIn(r, l)' <=> StoredIn(r, l)
  BY <1>2 DEF InHand, StoredIn
<1>5. \A u \in Tabs, p \in Queue, l \in Line : Live(u, p, l)' =>
         \/ Live(u, p, l)
         \/ u = t /\ p = lg[t].queue /\ l = n /\ lg[t].initialized
  BY <1>3, <1>4 DEF Live
<1>6. /\ \A l \in 1 .. Len(lines) : l \in 1 .. Len(lines') /\ l < n /\ l \in Line
      /\ 1 .. Len(lines') = 1 .. Len(lines) \cup {n} /\ n \in 1 .. Len(lines')
      /\ n \notin 1 .. Len(lines)
  BY <1>2, Types
<1>7. /\ \A u \in Tabs, p \in Queue : \A l : Of(u, p, l) => Of(u, p, l)'
      /\ \A u \in Tabs, p \in Queue : \A l : Of(u, p, l)' =>
            Of(u, p, l) \/ (l = n /\ u = t /\ p = lg[t].queue)
      /\ \A p \in Queue : p = lg[t].queue => Of(t, p, n)'
  BY <1>2, <1>6 DEF Of
\* The lines that are anywhere are older than the new one.
<1>8. \A l \in Line :
         /\ \A u \in Tabs : Buffered(u, l) => l < n
         /\ \A u \in Tabs, p \in Queue : Queued(u, p, l) \/ Live(u, p, l) => l < n
         /\ \A r \in Sessions : StoredIn(r, l) => l < n
  BY <1>1, <1>6 DEF LinesFit, Of, Live
<1>9. lg[t].initialized => \A l : ~Buffered(t, l)
  BY EmptyFacts DEF Typed, LoggerFits, Buffered
<1>10. LinesFit'
  <2>1. \A l \in 1 .. Len(lines) : lines[l].ts <= clock /\ lines[l].ts \in Int
    <3>1. \A l \in 1 .. Len(lines) : lines[l].ts \in 0 .. MaxTime
      BY Types
    <3> QED BY <1>1, <3>1, Limits DEF LinesFit
  <2>2. \A l, m \in 1 .. Len(lines') : l < m => lines'[l].ts <= lines'[m].ts
    <3> SUFFICES ASSUME NEW l \in 1 .. Len(lines'), NEW m \in 1 .. Len(lines'), l < m
                 PROVE  lines'[l].ts <= lines'[m].ts
      OBVIOUS
    <3>1. CASE m = n
      BY <1>2, <1>6, <2>1, <3>1
    <3>2. CASE m # n
      BY <1>1, <1>2, <1>6, <3>2 DEF LinesFit
    <3> QED BY <3>1, <3>2
  <2>3. \A l \in 1 .. Len(lines') : /\ lines'[l].ts <= clock'
                                    /\ lines'[l].queue <= lg'[lines'[l].tab].queue
    <3>1. lg[t].queue \in Int /\ clock \in Int
      BY Types, Limits DEF Queue, Typed, TypeOK
    <3>2. \A l \in 1 .. Len(lines) : lines[l].tab \in Tabs
      BY Types
    <3> QED BY <1>1, <1>2, <1>6, <2>1, <3>1, <3>2 DEF LinesFit
  <2>4. \A u \in Tabs, l \in Line : Buffered(u, l)' => Of(u, lg[u].queue, l)'
    <3> SUFFICES ASSUME NEW u \in Tabs, NEW l \in Line, NEW p \in Queue,
                        p = lg[u].queue, Buffered(u, l)'
                 PROVE  Of(u, p, l)'
      BY <1>2, Types DEF Of
    <3> QED BY <1>1, <1>3, <1>7 DEF LinesFit
  <2>5. \A u \in Tabs, p \in Queue, l \in Line : Live(u, p, l)' => Of(u, p, l)'
    BY <1>1, <1>5, <1>7 DEF LinesFit
  <2>6. \A r \in Sessions, l \in Line : StoredIn(r, l)' => l \in 1 .. Len(lines')
    BY <1>1, <1>4, <1>6 DEF LinesFit
  <2> QED BY <2>2, <2>3, <2>4, <2>5, <2>6 DEF LinesFit
<1>11. InOrder'
  <2> SUFFICES ASSUME NEW u \in Tabs, NEW p \in Queue, NEW l \in Line, NEW m \in Line
      PROVE  /\ Precedes(lg'[u].pending, l, m) => l < m
             /\ Precedes(queue'[u][p], Persist(l), Persist(m)) => l < m
             /\ InHand(u, p, l)' /\ Queued(u, p, m)' => l < m
             /\ Live(u, p, l)' /\ p = lg'[u].queue /\ Buffered(u, m)' => l < m
             /\ \A r \in Sessions : StoredIn(r, l)' /\ Of(u, p, l)' =>
                  /\ Live(u, p, m)' => l < m
                  /\ p = lg'[u].queue /\ Buffered(u, m)' => l < m
    BY DEF InOrder
  <2>1. Precedes(lg'[u].pending, l, m) => l < m
    BY <1>1, <1>3, <1>8 DEF InOrder
  <2>2. Precedes(queue'[u][p], Persist(l), Persist(m)) => l < m
    BY <1>1, <1>3, <1>8 DEF InOrder
  <2>3. InHand(u, p, l)' /\ Queued(u, p, m)' => l < m
    BY <1>1, <1>3, <1>4, <1>8 DEF InOrder, Live
  <2>4. Live(u, p, l)' /\ p = lg'[u].queue /\ Buffered(u, m)' => l < m
    BY <1>1, <1>2, <1>3, <1>5, <1>8, <1>9 DEF InOrder
  <2>5. ASSUME NEW r \in Sessions, StoredIn(r, l)', Of(u, p, l)'
        PROVE  /\ Live(u, p, m)' => l < m
               /\ p = lg'[u].queue /\ Buffered(u, m)' => l < m
    <3>1. StoredIn(r, l) /\ l < n /\ Of(u, p, l)
      BY <1>2, <1>4, <1>7, <1>8, <2>5 DEF Line
    <3> QED BY <1>1, <1>2, <1>3, <1>5, <3>1 DEF InOrder
  <2> QED BY <2>1, <2>2, <2>3, <2>4, <2>5
<1>12. Numbered'
  <2>1. \A u \in Tabs : lg[u].sequence <= lg'[u].sequence
    BY <1>2, Types DEF Logger
  <2> QED BY <1>1, <1>2, <1>6, <2>1, NumberedStays
<1> QED BY <1>10, <1>11, <1>12 DEF OrderInv

\* No step breaks the order.
LEMMA OrderSteps == ASSUME Typed, Typed', OrderInv, [Next]_vars PROVE OrderInv'
<1>1. CASE Quiet
  BY <1>1, QuietOrder
<1>2. ASSUME NEW t \in Tabs, Emit(t) PROVE OrderInv'
  BY <1>2, EmitFacts, EmitOrder
<1>3. ASSUME NEW t \in Tabs, NEW s \in Sessions, Initialize(t, s) PROVE OrderInv'
  BY <1>3, InitializeMoves, InitializeOrder
<1>4. ASSUME NEW t \in Tabs, NEW q \in Queue, BeginPersist(t, q) PROVE OrderInv'
  BY <1>4, BeginPersistMoves, BeginPersistOrder
<1>5. ASSUME NEW t \in Tabs, NEW q \in Queue, Encrypted(t, q) PROVE OrderInv'
  BY <1>5, EncryptedMoves, EncryptedOrder
<1>6. ASSUME NEW t \in Tabs, NEW q \in Queue, Store(t, q) PROVE OrderInv'
  BY <1>6, StoreMoves, StoreOrder
<1>7. ASSUME NEW c \in Calls, Closed(c) PROVE OrderInv'
  BY <1>7, ClosedMoves, ClosedOrder
<1> QED BY <1>1, <1>2, <1>3, <1>4, <1>5, <1>6, <1>7, QuietSteps

\* Nothing is anywhere yet.
LEMMA NothingYet ==
    ASSUME Init
    PROVE  /\ Len(lines) = 0
           /\ \A t \in Tabs : lg[t].pending = <<>> /\ lg[t].session = None
                                 /\ lg[t].queue = 0 /\ lg[t].read = None
           /\ \A t \in Tabs : \A l : ~Buffered(t, l)
           /\ \A t \in Tabs, q \in Queue :
                 queue[t][q] = <<>> /\ task[t][q].step = "idle"
           /\ \A t \in Tabs, q \in Queue : \A l : ~Queued(t, q, l)
           /\ \A t \in Tabs, q \in Queue : \A l : ~InHand(t, q, l) /\ ~Live(t, q, l)
           /\ \A s \in Sessions : \A e \in db[s] : e.line = Old
           /\ \A s \in Sessions : \A l \in Line : ~StoredIn(s, l)
           /\ \A t, q, l : ~Of(t, q, l)
           /\ \A c \in Calls : call[c].step = "none" /\ call[c].before = {} /\ ~call[c].ok
<1>1. /\ lines = <<>>
      /\ queue = [t \in Tabs |-> [q \in Queue |-> <<>>]]
      /\ task = [t \in Tabs |-> [q \in Queue |-> Idle]]
      /\ db \in [Sessions -> SUBSET {Unreadable}]
  BY Zenon DEF Init
<1>2. /\ Len(lines) = 0
      /\ \A t \in Tabs, q \in Queue : queue[t][q] = <<>> /\ task[t][q].step = "idle"
      /\ \A s \in Sessions : \A e \in db[s] : e.line = Old
  BY <1>1 DEF Idle, Unreadable
<1>3. \A t \in Tabs : lg[t].pending = <<>> /\ lg[t].session = None
                                 /\ lg[t].queue = 0 /\ lg[t].read = None
  <2> DEFINE g == [initialized |-> FALSE, session |-> None, pending |-> <<>>,
                   queue |-> 0, read |-> None, intervals |-> 0, interval |-> FALSE,
                   sequence |-> 0]
  <2>1. lg = [t \in Tabs |-> g]
    BY Zenon DEF Init
  <2>2. g.pending = <<>> /\ g.session = None /\ g.queue = 0 /\ g.read = None
    OBVIOUS
  <2> HIDE DEF g
  <2> QED BY <2>1, <2>2
<1>4. \A c \in Calls : call[c].step = "none" /\ call[c].before = {} /\ ~call[c].ok
  <2> DEFINE r == [op |-> "none", tab |-> CHOOSE t \in Tabs : TRUE, of |-> None,
                   step |-> "none", session |-> None, queue |-> 0, result |-> {},
                   ok |-> FALSE, before |-> {}]
  <2>1. call = [c \in Calls |-> r]
    BY Zenon DEF Init
  <2>2. r.step = "none" /\ r.before = {} /\ ~r.ok
    OBVIOUS
  <2> HIDE DEF r
  <2> QED BY <2>1, <2>2
<1>5. \A t \in Tabs : \A l : ~Buffered(t, l)
  BY <1>3, EmptyFacts DEF Buffered
<1>6. \A t \in Tabs, q \in Queue : \A l : ~Queued(t, q, l)
  BY <1>2, EmptyFacts DEF Queued
<1>7. \A t \in Tabs, q \in Queue : \A l : ~InHand(t, q, l) /\ ~Live(t, q, l)
  BY <1>2, <1>6 DEF InHand, Holds, Live
<1>8. \A s \in Sessions : \A l \in Line : ~StoredIn(s, l)
  BY <1>2, EntryCases DEF StoredIn
<1>9. \A t, q, l : ~Of(t, q, l)
  BY <1>2 DEF Of
<1> QED BY <1>2, <1>3, <1>4, <1>5, <1>6, <1>7, <1>8, <1>9

\* There is no line at first.
LEMMA OrderInit == ASSUME Init PROVE OrderInv
<1>1. LinesFit
  BY NothingYet DEF LinesFit
<1>2. InOrder
  <2> SUFFICES ASSUME NEW t \in Tabs, NEW q \in Queue, NEW l \in Line, NEW m \in Line
               PROVE  /\ ~Precedes(lg[t].pending, l, m)
                      /\ ~Precedes(queue[t][q], Persist(l), Persist(m))
                      /\ ~Buffered(t, m) /\ ~Queued(t, q, m)
                      /\ \A s \in Sessions : ~StoredIn(s, l)
    BY DEF InOrder
  <2>1. lg[t].pending = <<>> /\ queue[t][q] = <<>>
    BY NothingYet
  <2> QED BY <2>1, NothingYet, EmptyFacts
<1>3. Numbered
  BY NothingYet DEF Numbered
<1> QED BY <1>1, <1>2, <1>3 DEF OrderInv

\* Numbers and times in order are keys in order.
LEMMA OrderSaysInOrder == ASSUME Typed, OrderInv PROVE LinesInOrder
<1> SUFFICES ASSUME NEW s \in Sessions, NEW d \in db[s], NEW e \in db[s],
                    d.line # Old, e.line # Old, d.line < e.line,
                    lines[d.line].tab = lines[e.line].tab,
                    lines[d.line].queue = lines[e.line].queue
             PROVE  Older(d, e)
  BY DEF LinesInOrder, Typed
<1>1. LinesFit /\ Numbered
  BY DEF OrderInv
<1>2. d.line \in 1 .. Len(lines) /\ e.line \in 1 .. Len(lines)
  BY <1>1, Types, EntryCases DEF LinesFit, StoredIn
<1>3. PICK t \in Tabs, q \in Queue :
         t = lines[d.line].tab /\ q = lines[d.line].queue
  BY <1>2, Types
<1>4. Of(t, q, d.line) /\ Of(t, q, e.line)
  BY <1>2, <1>3 DEF Of
<1>5. d.sequence < e.sequence
  BY <1>1, <1>4 DEF Numbered
<1>6. lines[d.line].ts <= lines[e.line].ts
  BY <1>1, <1>2 DEF LinesFit
<1>7. lines[d.line].ts \in Int /\ lines[e.line].ts \in Int
  <2>1. \A l \in 1 .. Len(lines) : lines[l].ts \in 0 .. MaxTime
    BY Types
  <2>2. lines[d.line].ts \in 0 .. MaxTime /\ lines[e.line].ts \in 0 .. MaxTime
    BY <1>2, <2>1, Zenon
  <2> QED BY <2>2, Limits
<1> QED BY <1>5, <1>6, <1>7 DEF Older, Stamp

\* Lines read back in the order they were emitted, however their writes were
\* queued, buffered until initialize or cut off by a destroy (persist, the sequence
\* that encryptEntry gives, getAllEntriesOrdered).
THEOREM LinesStayInOrder == Spec => [](OrderInv /\ LinesInOrder)
<1>1. Init => OrderInv
  BY OrderInit
<1>2. Typed /\ Typed' /\ OrderInv /\ [Next]_vars => OrderInv'
  BY OrderSteps
<1>3. Typed /\ OrderInv => LinesInOrder
  BY OrderSaysInOrder
<1> QED BY <1>1, <1>2, <1>3, TypesKept, PTL DEF Spec

-----------------------------------------------------------------------------
(* A logger's queue writes where the logger reads.                         *)

\* A quiet step leaves the lines at home.
LEMMA QuietHome == ASSUME Typed, AtHome, Quiet PROVE AtHome'
<1> SUFFICES ASSUME NEW t \in Tabs, NEW q \in Queue, q = lg'[t].queue
    PROVE  /\ \A l \in Line : Live(t, q, l)' => lg'[t].session # None
           /\ task'[t][q].step = "encrypt" => task'[t][q].key = lg'[t].session
           /\ task'[t][q].step = "store" =>
                task'[t][q].to = lg'[t].session /\ task'[t][q].entry.key = lg'[t].session
           /\ \A s \in Sessions, l \in Line :
                StoredIn(s, l)' /\ Of(t, q, l)' => s = lg'[t].session
           /\ \A r \in Queue, l \in Line : r > q => ~Live(t, r, l)'
  BY Zenon DEF AtHome
<1>1. q = lg[t].queue /\ lg'[t].session = lg[t].session
  BY QuietFacts
<1>2. /\ \A r \in Queue, l \in Line : Live(t, r, l)' => Live(t, r, l)
      /\ task'[t][q].step \in {"encrypt", "store"} => task'[t][q] = task[t][q]
      /\ \A s \in Sessions, l \in Line : StoredIn(s, l)' => StoredIn(s, l)
      /\ \A l : Of(t, q, l)' <=> Of(t, q, l)
  BY QuietFacts DEF Of
<1> QED BY <1>1, <1>2 DEF AtHome

\* Emit leaves the lines at home: it queues once there is a session.
LEMMA EmitHome ==
    ASSUME Typed, OrderInv, AtHome, NEW t \in Tabs, NEW n \in Line, Emitted(t, n)
    PROVE  AtHome'
<1> SUFFICES ASSUME NEW u \in Tabs, NEW p \in Queue, p = lg'[u].queue
    PROVE  /\ \A l \in Line : Live(u, p, l)' => lg'[u].session # None
           /\ task'[u][p].step = "encrypt" => task'[u][p].key = lg'[u].session
           /\ task'[u][p].step = "store" =>
                task'[u][p].to = lg'[u].session /\ task'[u][p].entry.key = lg'[u].session
           /\ \A s \in Sessions, l \in Line :
                StoredIn(s, l)' /\ Of(u, p, l)' => s = lg'[u].session
           /\ \A r \in Queue, l \in Line : r > p => ~Live(u, r, l)'
  BY Zenon DEF AtHome
<1>1. /\ n = Len(lines) + 1 /\ Len(lines') = n /\ Len(lines) \in Nat
      /\ \A l \in 1 .. Len(lines) : lines'[l] = lines[l]
      /\ task' = task /\ db' = db
      /\ \A w \in Tabs : lg'[w].queue = lg[w].queue /\ lg'[w].session = lg[w].session
  BY Types DEF Emitted
<1>2. \A w \in Tabs, r \in Queue, l \in Line : Live(w, r, l)' =>
         \/ Live(w, r, l)
         \/ w = t /\ r = lg[t].queue /\ l = n /\ lg[t].initialized
  BY DEF Emitted, Live, InHand
<1>3. lg[t].initialized => lg[t].session # None
  BY DEF Typed, LoggerFits
<1>4. \A s \in Sessions, l \in Line : StoredIn(s, l)' /\ Of(u, p, l)' =>
         StoredIn(s, l) /\ Of(u, p, l)
  <2> SUFFICES ASSUME NEW s \in Sessions, NEW l \in Line, StoredIn(s, l)', Of(u, p, l)'
               PROVE  StoredIn(s, l) /\ Of(u, p, l)
    OBVIOUS
  <2>1. StoredIn(s, l)
    BY <1>1 DEF StoredIn
  <2>2. l \in 1 .. Len(lines)
    BY <2>1 DEF OrderInv, LinesFit
  <2> QED BY <1>1, <2>1, <2>2 DEF Of
<1>5. p = lg[u].queue /\ lg'[u].session = lg[u].session
  BY <1>1
<1>6. \A r \in Queue : r > p => ~(u = t /\ r = lg[t].queue)
  BY <1>5 DEF Queue
<1> QED BY <1>1, <1>2, <1>3, <1>4, <1>5, <1>6 DEF AtHome

\* initialize gives a home to a logger that has none, and no line stored.
LEMMA InitializeHome ==
    ASSUME Typed, AtHome, NEW t \in Tabs, NEW s \in Sessions, Initialized(t, s)
    PROVE  AtHome'
<1> SUFFICES ASSUME NEW u \in Tabs, NEW p \in Queue, p = lg'[u].queue
    PROVE  /\ \A l \in Line : Live(u, p, l)' => lg'[u].session # None
           /\ task'[u][p].step = "encrypt" => task'[u][p].key = lg'[u].session
           /\ task'[u][p].step = "store" =>
                task'[u][p].to = lg'[u].session /\ task'[u][p].entry.key = lg'[u].session
           /\ \A r \in Sessions, l \in Line :
                StoredIn(r, l)' /\ Of(u, p, l)' => r = lg'[u].session
           /\ \A r \in Queue, l \in Line : r > p => ~Live(u, r, l)'
  BY Zenon DEF AtHome
<1>1. /\ lines' = lines /\ task' = task /\ db' = db /\ SameLoggers(t)
      /\ lg'[t].queue = lg[t].queue /\ lg[t].session = None /\ lg'[t].session = s
  BY DEF Initialized
<1>2. \A w \in Tabs, r \in Queue, l \in Line : Live(w, r, l)' =>
         Live(w, r, l) \/ (w = t /\ r = lg[t].queue)
  BY DEF Initialized, Live, InHand
<1>3. \A r \in Sessions, l \in Line : StoredIn(r, l)' /\ Of(u, p, l)' =>
         StoredIn(r, l) /\ Of(u, p, l)
  BY <1>1 DEF StoredIn, Of
<1>4. \A r \in Queue : r > p => r # p
  BY DEF Queue
<1>5. CASE u = t
  <2>1. p = lg[t].queue /\ s # None
    BY <1>1, <1>5, NoneAssumption
  <2>2. \A l \in Line : ~Live(t, p, l)
    BY <1>1, <2>1 DEF AtHome
  <2>3. task[t][p].step \notin {"encrypt", "store"}
    <3>1. \A l \in Line : ~Holds(task[t][p], l)
      BY <2>2 DEF Live, InHand
    <3>2. task[t][p] \in Task
      BY Types
    <3> QED BY <3>1, <3>2, TaskCases, EntryCases DEF Holds
  <2>4. \A r \in Sessions, l \in Line : ~(StoredIn(r, l) /\ Of(t, p, l))
    BY <1>1, <2>1, NoneAssumption DEF AtHome
  <2>5. \A r \in Queue, l \in Line : r > p => ~Live(t, r, l)'
    BY <1>2, <1>4, <2>1 DEF AtHome
  <2> QED BY <1>1, <1>3, <1>5, <2>1, <2>3, <2>4, <2>5
<1>6. CASE u # t
  <2>1. lg'[u] = lg[u] /\ p = lg[u].queue
    BY <1>1, <1>6 DEF SameLoggers
  <2> QED BY <1>1, <1>2, <1>3, <1>6, <2>1 DEF AtHome
<1> QED BY <1>5, <1>6

\* A line is encrypted with the key of its home.
LEMMA BeginPersistHome ==
    ASSUME Typed, AtHome, NEW t \in Tabs, NEW q \in Queue, NEW n \in Line,
           Began(t, q, n)
    PROVE  AtHome'
<1> SUFFICES ASSUME NEW u \in Tabs, NEW p \in Queue, p = lg'[u].queue
    PROVE  /\ \A l \in Line : Live(u, p, l)' => lg'[u].session # None
           /\ task'[u][p].step = "encrypt" => task'[u][p].key = lg'[u].session
           /\ task'[u][p].step = "store" =>
                task'[u][p].to = lg'[u].session /\ task'[u][p].entry.key = lg'[u].session
           /\ \A r \in Sessions, l \in Line :
                StoredIn(r, l)' /\ Of(u, p, l)' => r = lg'[u].session
           /\ \A r \in Queue, l \in Line : r > p => ~Live(u, r, l)'
  BY Zenon DEF AtHome
<1>1. /\ lines' = lines /\ lg' = lg /\ db' = db /\ Queued(t, q, n) /\ SameTasks(t, q)
      /\ \A l : Holds(task'[t][q], l) => l = n
      /\ task'[t][q].step # "store"
      /\ task'[t][q].step = "encrypt" => task'[t][q].key = lg[t].session
  BY DEF Began, Holds
<1>2. \A w \in Tabs, r \in Queue, l \in Line : Live(w, r, l)' => Live(w, r, l)
  <2>1. \A w \in Tabs, r \in Queue, l \in Line : Queued(w, r, l)' => Queued(w, r, l)
    BY DEF Began
  <2>2. \A w \in Tabs, r \in Queue, l \in Line : InHand(w, r, l)' =>
           InHand(w, r, l) \/ (w = t /\ r = q /\ l = n)
    BY <1>1 DEF InHand, SameTasks
  <2> QED BY <1>1, <2>1, <2>2 DEF Live
<1>3. \A r \in Sessions, l \in Line : StoredIn(r, l)' /\ Of(u, p, l)' =>
         StoredIn(r, l) /\ Of(u, p, l)
  BY <1>1 DEF StoredIn, Of
<1>4. /\ task'[u][p].step = "encrypt" => task'[u][p].key = lg'[u].session
      /\ task'[u][p].step = "store" =>
                task'[u][p].to = lg'[u].session /\ task'[u][p].entry.key = lg'[u].session
  <2>1. CASE u = t /\ p = q
    BY <1>1, <2>1
  <2>2. CASE ~(u = t /\ p = q)
    BY <1>1, <2>2 DEF SameTasks, AtHome
  <2> QED BY <2>1, <2>2
<1> QED BY <1>1, <1>2, <1>3, <1>4 DEF AtHome

\* A line is to be stored at home.
LEMMA EncryptedHome ==
    ASSUME Typed, AtHome, NEW t \in Tabs, NEW q \in Queue, Ciphered(t, q)
    PROVE  AtHome'
<1> SUFFICES ASSUME NEW u \in Tabs, NEW p \in Queue, p = lg'[u].queue
    PROVE  /\ \A l \in Line : Live(u, p, l)' => lg'[u].session # None
           /\ task'[u][p].step = "encrypt" => task'[u][p].key = lg'[u].session
           /\ task'[u][p].step = "store" =>
                task'[u][p].to = lg'[u].session /\ task'[u][p].entry.key = lg'[u].session
           /\ \A r \in Sessions, l \in Line :
                StoredIn(r, l)' /\ Of(u, p, l)' => r = lg'[u].session
           /\ \A r \in Queue, l \in Line : r > p => ~Live(u, r, l)'
  BY Zenon DEF AtHome
<1>1. /\ lines' = lines /\ queue' = queue /\ db' = db /\ SameTasks(t, q)
      /\ SameLoggers(t)
      /\ lg'[t].queue = lg[t].queue /\ lg'[t].session = lg[t].session
      /\ task[t][q].step = "encrypt"
      /\ \/ task'[t][q].step = "idle"
         \/ /\ task'[t][q].step = "store"
            /\ task'[t][q].to = lg[t].session
            /\ task'[t][q].entry.line = task[t][q].line
            /\ task'[t][q].entry.key = task[t][q].key
  BY DEF Ciphered
<1>2. lg'[u].session = lg[u].session /\ p = lg[u].queue
  BY <1>1 DEF SameLoggers
<1>3. \A r \in Queue, l \in Line : Live(u, r, l)' => Live(u, r, l)
  BY <1>1 DEF Live, Queued, InHand, Holds, SameTasks
<1>4. \A r \in Sessions, l \in Line : StoredIn(r, l)' /\ Of(u, p, l)' =>
         StoredIn(r, l) /\ Of(u, p, l)
  BY <1>1 DEF StoredIn, Of
<1>5. /\ task'[u][p].step = "encrypt" => task'[u][p].key = lg'[u].session
      /\ task'[u][p].step = "store" =>
                task'[u][p].to = lg'[u].session /\ task'[u][p].entry.key = lg'[u].session
  <2>1. CASE u = t /\ p = q
    BY <1>1, <1>2, <2>1 DEF AtHome
  <2>2. CASE ~(u = t /\ p = q)
    BY <1>1, <1>2, <2>2 DEF SameTasks, AtHome
  <2> QED BY <2>1, <2>2
<1> QED BY <1>2, <1>3, <1>4, <1>5 DEF AtHome

\* A line is stored at home.
LEMMA StoreHome ==
    ASSUME Typed, OrderInv, AtHome, NEW t \in Tabs, NEW q \in Queue,
           NEW s \in Sessions, NEW e \in Written, StoredAt(t, q, s, e)
    PROVE  AtHome'
<1> SUFFICES ASSUME NEW u \in Tabs, NEW p \in Queue, p = lg'[u].queue
    PROVE  /\ \A l \in Line : Live(u, p, l)' => lg'[u].session # None
           /\ task'[u][p].step = "encrypt" => task'[u][p].key = lg'[u].session
           /\ task'[u][p].step = "store" =>
                task'[u][p].to = lg'[u].session /\ task'[u][p].entry.key = lg'[u].session
           /\ \A r \in Sessions, l \in Line :
                StoredIn(r, l)' /\ Of(u, p, l)' => r = lg'[u].session
           /\ \A r \in Queue, l \in Line : r > p => ~Live(u, r, l)'
  BY Zenon DEF AtHome
<1>1. /\ lines' = lines /\ queue' = queue /\ lg' = lg /\ SameTasks(t, q)
      /\ task'[t][q].step = "idle" /\ task[t][q].step = "store"
      /\ task[t][q].to = s /\ task[t][q].entry = e
      /\ \A r \in Sessions : db'[r] = IF r = s THEN db[s] \cup {e} ELSE db[r]
  BY DEF StoredAt
<1>2. \A r \in Queue, l \in Line : Live(u, r, l)' => Live(u, r, l)
  BY <1>1 DEF Live, Queued, InHand, Holds, SameTasks
<1>3. Of(t, q, e.line)
  <2>1. e.line \in Line /\ Live(t, q, e.line)
    BY <1>1, EntryCases DEF Live, InHand, Holds
  <2> QED BY <2>1 DEF OrderInv, LinesFit
<1>4. \A r \in Sessions, l \in Line : StoredIn(r, l)' /\ Of(u, p, l)' =>
         Of(u, p, l) /\ (StoredIn(r, l) \/ (r = s /\ l = e.line))
  BY <1>1 DEF StoredIn, Of
<1>5. Of(u, p, e.line) => s = lg[u].session
  <2>1. Of(u, p, e.line) => u = t /\ p = q
    BY <1>3 DEF Of
  <2> QED BY <1>1, <2>1 DEF AtHome
<1>6. /\ task'[u][p].step = "encrypt" => task'[u][p].key = lg'[u].session
      /\ task'[u][p].step = "store" =>
                task'[u][p].to = lg'[u].session /\ task'[u][p].entry.key = lg'[u].session
  <2>1. CASE u = t /\ p = q
    BY <1>1, <2>1
  <2>2. CASE ~(u = t /\ p = q)
    BY <1>1, <2>2 DEF SameTasks, AtHome
  <2> QED BY <2>1, <2>2
<1> QED BY <1>1, <1>2, <1>4, <1>5, <1>6 DEF AtHome

\* destroy leaves a queue: nothing is asked of it any more.
LEMMA ClosedHome ==
    ASSUME Typed, OrderInv, AtHome, NEW t \in Tabs, Left(t)
    PROVE  AtHome'
<1> SUFFICES ASSUME NEW u \in Tabs, NEW p \in Queue, p = lg'[u].queue
    PROVE  /\ \A l \in Line : Live(u, p, l)' => lg'[u].session # None
           /\ task'[u][p].step = "encrypt" => task'[u][p].key = lg'[u].session
           /\ task'[u][p].step = "store" =>
                task'[u][p].to = lg'[u].session /\ task'[u][p].entry.key = lg'[u].session
           /\ \A r \in Sessions, l \in Line :
                StoredIn(r, l)' /\ Of(u, p, l)' => r = lg'[u].session
           /\ \A r \in Queue, l \in Line : r > p => ~Live(u, r, l)'
  BY Zenon DEF AtHome
<1>1. /\ lines' = lines /\ queue' = queue /\ db' = db /\ task' = task
      /\ SameLoggers(t) /\ lg[t].queue \in Queue /\ lg'[t].queue = lg[t].queue + 1
  BY DEF Left
<1>2. /\ \A r \in Queue, l \in Line : Live(u, r, l)' <=> Live(u, r, l)
      /\ \A r \in Sessions, l \in Line : StoredIn(r, l)' <=> StoredIn(r, l)
      /\ \A l : Of(u, p, l)' <=> Of(u, p, l)
  BY <1>1 DEF Live, Queued, InHand, StoredIn, Of
<1>3. CASE u = t
  <2>1. PICK q \in Queue : q = lg[t].queue
    BY <1>1
  <2>2. p = q + 1 /\ q \in Nat
    BY <1>1, <1>3, <2>1 DEF Queue
  <2>3. \A r \in Queue, l \in Line : r >= p => ~Live(t, r, l)
    BY <2>1, <2>2 DEF AtHome, Queue
  <2>4. task[t][p].step \notin {"encrypt", "store"}
    <3>1. \A l \in Line : ~Holds(task[t][p], l)
      BY <2>2, <2>3 DEF Live, InHand
    <3>2. task[t][p] \in Task
      BY Types
    <3> QED BY <3>1, <3>2, TaskCases, EntryCases DEF Holds
  <2>5. \A l \in Line : ~Of(t, p, l)
    <3>1. \A l \in 1 .. Len(lines) : lines[l].queue <= lg[lines[l].tab].queue
      BY DEF OrderInv, LinesFit
    <3> QED BY <2>1, <2>2, <3>1 DEF Of
  <2>6. p >= p /\ \A r \in Queue : r > p => r >= p
    BY <2>2 DEF Queue
  <2> QED BY <1>1, <1>2, <1>3, <2>3, <2>4, <2>5, <2>6
<1>4. CASE u # t
  <2>1. lg'[u] = lg[u] /\ p = lg[u].queue
    BY <1>1, <1>4 DEF SameLoggers
  <2> QED BY <1>1, <1>2, <2>1 DEF AtHome
<1> QED BY <1>3, <1>4

\* No step takes a line of the queue in use away from its home.
LEMMA HomeSteps ==
    ASSUME Typed, Typed', OrderInv, AtHome, [Next]_vars PROVE AtHome'
<1>1. CASE Quiet
  BY <1>1, QuietHome
<1>2. ASSUME NEW t \in Tabs, Emit(t) PROVE AtHome'
  BY <1>2, EmitFacts, EmitHome
<1>3. ASSUME NEW t \in Tabs, NEW s \in Sessions, Initialize(t, s) PROVE AtHome'
  BY <1>3, InitializeMoves, InitializeHome
<1>4. ASSUME NEW t \in Tabs, NEW q \in Queue, BeginPersist(t, q) PROVE AtHome'
  BY <1>4, BeginPersistMoves, BeginPersistHome
<1>5. ASSUME NEW t \in Tabs, NEW q \in Queue, Encrypted(t, q) PROVE AtHome'
  BY <1>5, EncryptedMoves, EncryptedHome
<1>6. ASSUME NEW t \in Tabs, NEW q \in Queue, Store(t, q) PROVE AtHome'
  BY <1>6, StoreMoves, StoreHome
<1>7. ASSUME NEW c \in Calls, Closed(c) PROVE AtHome'
  BY <1>7, ClosedMoves, ClosedHome
<1> QED BY <1>1, <1>2, <1>3, <1>4, <1>5, <1>6, <1>7, QuietSteps

\* There is no line at first.
LEMMA HomeInit == ASSUME Init PROVE AtHome
BY NothingYet DEF AtHome

-----------------------------------------------------------------------------
(* What was emitted before a call stays ahead of it.                       *)

\* A line that is not buffered comes behind nobody any more.
Forward ==
    /\ \A l \in 1 .. Len(lines) : l \in 1 .. Len(lines') /\ lines'[l] = lines[l]
    /\ \A t \in Tabs, q \in Queue, l \in 1 .. Len(lines) : ~Buffered(t, l) =>
          /\ ~Buffered(t, l)'
          /\ Live(t, q, l)' => Live(t, q, l)
          /\ \A c \in Calls : Precedes(queue'[t][q], Resume(c), Persist(l))
                                 => Precedes(queue[t][q], Resume(c), Persist(l))

\* Every step only moves lines forward.
LEMMA ForwardSteps == ASSUME Typed, [Next]_vars PROVE Forward
<1> USE Types
<1>1. CASE Quiet
  <2>1. lines' = lines
    BY <1>1, QuietFacts
  <2>2. \A t \in Tabs, q \in Queue, l \in Line :
           /\ Buffered(t, l)' => Buffered(t, l)
           /\ Live(t, q, l)' => Live(t, q, l)
           /\ \A c \in Calls : Precedes(queue'[t][q], Resume(c), Persist(l))
                                  => Precedes(queue[t][q], Resume(c), Persist(l))
    BY <1>1, QuietFacts DEF Quiet, QuietQueue
  <2> QED BY <2>1, <2>2 DEF Forward
<1>2. ASSUME NEW t \in Tabs, Emit(t) PROVE Forward
  <2>1. PICK n \in Line : Emitted(t, n)
    BY <1>2, EmitFacts
  <2>2. /\ n = Len(lines) + 1 /\ Len(lines') = n /\ Len(lines) \in Nat
        /\ \A l \in 1 .. Len(lines) : lines'[l] = lines[l]
        /\ task' = task
    BY <2>1 DEF Emitted
  <2>3. \A l \in 1 .. Len(lines) : l \in 1 .. Len(lines') /\ l # n /\ l \in Line
    BY <2>2
  <2>4. \A u \in Tabs, q \in Queue, l \in Line :
           /\ Buffered(u, l)' => Buffered(u, l) \/ l = n
           /\ Queued(u, q, l)' => Queued(u, q, l) \/ l = n
           /\ \A c \in Calls : Precedes(queue'[u][q], Resume(c), Persist(l))
                                  => Precedes(queue[u][q], Resume(c), Persist(l)) \/ l = n
    BY <2>1 DEF Emitted
  <2>5. \A u \in Tabs, q \in Queue, l \in Line : Live(u, q, l)' => Live(u, q, l) \/ l = n
    BY <2>2, <2>4 DEF Live, InHand
  <2> QED BY <2>2, <2>3, <2>4, <2>5 DEF Forward
<1>3. ASSUME NEW t \in Tabs, NEW s \in Sessions, Initialize(t, s) PROVE Forward
  <2>1. Initialized(t, s)
    BY <1>3, InitializeMoves
  <2>2. lines' = lines /\ task' = task /\ SameLoggers(t) /\ lg'[t].pending = <<>>
    BY <2>1 DEF Initialized
  <2>3. \A u \in Tabs, l \in Line : Buffered(u, l)' => Buffered(u, l)
    BY <2>2, EmptyFacts DEF SameLoggers, Buffered
  <2>4. \A u \in Tabs, q \in Queue, l \in Line : ~Buffered(u, l) =>
           /\ Queued(u, q, l)' => Queued(u, q, l)
           /\ \A c \in Calls : Precedes(queue'[u][q], Resume(c), Persist(l))
                                  => Precedes(queue[u][q], Resume(c), Persist(l))
    BY <2>1 DEF Initialized
  <2>5. \A u \in Tabs, q \in Queue, l \in Line : ~Buffered(u, l) =>
           (Live(u, q, l)' => Live(u, q, l))
    BY <2>2, <2>4 DEF Live, InHand
  <2> QED BY <2>2, <2>3, <2>4, <2>5 DEF Forward
<1>4. ASSUME NEW t \in Tabs, NEW q \in Queue, BeginPersist(t, q) PROVE Forward
  <2>1. PICK n \in Line : Began(t, q, n)
    BY <1>4, BeginPersistMoves
  <2>2. /\ lines' = lines /\ lg' = lg /\ SameTasks(t, q) /\ Queued(t, q, n)
        /\ \A l : Holds(task'[t][q], l) => l = n
    BY <2>1 DEF Began, Holds
  <2>3. \A u \in Tabs, p \in Queue, l \in Line :
           /\ Queued(u, p, l)' => Queued(u, p, l)
           /\ \A c \in Calls : Precedes(queue'[u][p], Resume(c), Persist(l))
                                  => Precedes(queue[u][p], Resume(c), Persist(l))
    BY <2>1 DEF Began
  <2>4. \A u \in Tabs, p \in Queue, l \in Line : InHand(u, p, l)' =>
           InHand(u, p, l) \/ Queued(u, p, l)
    BY <2>2 DEF InHand, SameTasks
  <2>5. \A u \in Tabs, p \in Queue, l \in Line :
           /\ Live(u, p, l)' => Live(u, p, l)
           /\ Buffered(u, l)' <=> Buffered(u, l)
    BY <2>2, <2>3, <2>4 DEF Live, Buffered
  <2> QED BY <2>2, <2>3, <2>5 DEF Forward
<1>5. ASSUME NEW t \in Tabs, NEW q \in Queue, Encrypted(t, q) PROVE Forward
  <2>1. Ciphered(t, q)
    BY <1>5, EncryptedMoves
  <2>2. /\ lines' = lines /\ queue' = queue /\ SameTasks(t, q) /\ SameLoggers(t)
        /\ lg'[t].pending = lg[t].pending
        /\ \A l : Holds(task'[t][q], l) => Holds(task[t][q], l)
    BY <2>1 DEF Ciphered, Holds
  <2>3. \A u \in Tabs, p \in Queue, l \in Line :
           /\ Live(u, p, l)' => Live(u, p, l)
           /\ Buffered(u, l)' <=> Buffered(u, l)
    BY <2>2 DEF Live, Buffered, Queued, InHand, SameTasks, SameLoggers
  <2> QED BY <2>2, <2>3 DEF Forward
<1>6. ASSUME NEW t \in Tabs, NEW q \in Queue, Store(t, q) PROVE Forward
  <2>1. PICK s \in Sessions, e \in Written : StoredAt(t, q, s, e)
    BY <1>6, StoreMoves
  <2>2. /\ lines' = lines /\ queue' = queue /\ SameTasks(t, q) /\ lg' = lg
        /\ \A l : ~Holds(task'[t][q], l)
    BY <2>1 DEF StoredAt, Holds
  <2>3. \A u \in Tabs, p \in Queue, l \in Line :
           /\ Live(u, p, l)' => Live(u, p, l)
           /\ Buffered(u, l)' <=> Buffered(u, l)
    BY <2>2 DEF Live, Buffered, Queued, InHand, SameTasks
  <2> QED BY <2>2, <2>3 DEF Forward
<1>7. ASSUME NEW c \in Calls, Closed(c) PROVE Forward
  <2>1. PICK t \in Tabs : Left(t)
    BY <1>7, ClosedMoves
  <2>2. /\ lines' = lines /\ queue' = queue /\ task' = task /\ SameLoggers(t)
        /\ lg'[t].pending = <<>>
    BY <2>1 DEF Left
  <2>3. \A u \in Tabs, p \in Queue, l \in Line :
           /\ Live(u, p, l)' => Live(u, p, l)
           /\ Buffered(u, l)' => Buffered(u, l)
    BY <2>2, EmptyFacts DEF Live, Buffered, Queued, InHand, SameLoggers
  <2> QED BY <2>2, <2>3 DEF Forward
<1> QED BY <1>1, <1>2, <1>3, <1>4, <1>5, <1>6, <1>7, QuietSteps

\* What was emitted before a call stays ahead of it, or is past.
LEMMA BeforeStays ==
    ASSUME Typed, NEW c \in Calls, BeforeFits(c), Forward,
           call'[c].tab = call[c].tab, call'[c].queue = call[c].queue,
           call'[c].before = call[c].before, Past(call'[c], c) => Past(call[c], c)
    PROVE  BeforeFits(c)'
<1> SUFFICES ASSUME NEW t \in Tabs, NEW q \in Queue,
                    call[c].tab = t, call[c].queue = q, NEW l \in call[c].before
             PROVE  /\ Of(t, q, l)' /\ ~Buffered(t, l)'
                    /\ ~Precedes(queue'[t][q], Resume(c), Persist(l))
                    /\ Past(call'[c], c) => ~Live(t, q, l)'
  BY DEF BeforeFits
<1>1. /\ Of(t, q, l) /\ ~Buffered(t, l)
      /\ ~Precedes(queue[t][q], Resume(c), Persist(l))
      /\ Past(call[c], c) => ~Live(t, q, l)
  BY DEF BeforeFits
<1>2. l \in 1 .. Len(lines)
  BY <1>1 DEF Of
<1> QED BY <1>1, <1>2 DEF Forward, Of

\* A call that starts is behind every line that was emitted before it.
LEMMA NewBefore ==
    ASSUME Typed, NEW c \in Calls, NEW t \in Tabs, NEW op \in Ops, Unused(c),
           Forward, call'[c].tab = t, call'[c].queue = lg[t].queue,
           call'[c].before = New(t, op).before, ~Past(call'[c], c)
    PROVE  BeforeFits(c)'
<1> SUFFICES ASSUME NEW q \in Queue, lg[t].queue = q, NEW l \in New(t, op).before
             PROVE  /\ Of(t, q, l)' /\ ~Buffered(t, l)'
                    /\ ~Precedes(queue'[t][q], Resume(c), Persist(l))
  BY DEF BeforeFits
<1>1. Of(t, q, l) /\ ~Buffered(t, l)
  BY NewFacts
<1>2. l \in 1 .. Len(lines)
  BY <1>1 DEF Of
<1>3. ~Precedes(queue[t][q], Resume(c), Persist(l))
  <2>1. ~In(queue[t][q], Resume(c))
    BY DEF Unused, Typed, StepOf, WaitersFit
  <2> QED BY <2>1 DEF Precedes, In
<1> QED BY <1>1, <1>2, <1>3 DEF Forward, Of

\* A call that goes on has nothing ahead of it any more.
LEMMA ResumedBefore ==
    ASSUME Typed, NEW t \in Tabs, NEW q \in Queue, NEW c \in Calls, BeforeFits(c),
           Forward, Popped(t, q, Resume(c)), UNCHANGED task,
           call[c].tab = t, call[c].queue = q,
           call'[c].tab = t, call'[c].queue = q, call'[c].before = call[c].before
    PROVE  BeforeFits(c)'
<1> SUFFICES ASSUME NEW l \in call[c].before
             PROVE  /\ Of(t, q, l)' /\ ~Buffered(t, l)' /\ ~Live(t, q, l)'
                    /\ ~Precedes(queue'[t][q], Resume(c), Persist(l))
  BY DEF BeforeFits
<1>1. /\ Of(t, q, l) /\ ~Buffered(t, l)
      /\ ~Precedes(queue[t][q], Resume(c), Persist(l))
  BY DEF BeforeFits
<1>2. l \in 1 .. Len(lines)
  BY <1>1 DEF Of
<1>3. ~Queued(t, q, l)'
  BY <1>1, PoppedItem DEF Queued
<1>4. ~InHand(t, q, l)'
  BY HoldsFacts DEF Popped, InHand
<1> QED BY <1>1, <1>2, <1>3, <1>4 DEF Forward, Of, Live

-----------------------------------------------------------------------------
(* How the calls go.                                                       *)

OnlyCall(c) == \A d \in Calls : d # c => call'[d] = call[d]

SameCall(c) ==
    /\ call'[c].op = call[c].op /\ call'[c].tab = call[c].tab
    /\ call'[c].queue = call[c].queue /\ call'[c].of = call[c].of
    /\ call'[c].before = call[c].before

\* A call starts: it waits for the writes, joins a read, or has nothing to do.
Waits(c, t, op) ==
    /\ call'[c].step = "wait"
    /\ op = "getLogs" => call'[c].of = c
    /\ \A u \in Tabs : \/ lg'[u].read = lg[u].read
                       \/ u = t /\ op = "getLogs" /\ lg'[u].read = c
Joins(c, t, op) ==
    /\ call'[c].step = "join" /\ op = "getLogs" /\ UNCHANGED lg
    /\ call'[c].of = lg[t].read /\ lg[t].read \in Calls
Refused(c, op) ==
    call'[c].step = "done" /\ op \in {"getLogs", "clearLogs"} /\ UNCHANGED lg
Starts(c, t, op) ==
    /\ Unused(c) /\ OnlyCall(c) /\ call'[c].op = op /\ call'[c].tab = t
    /\ call'[c].queue = lg[t].queue /\ call'[c].before = New(t, op).before
    /\ ~call'[c].ok
    /\ call'[c].of # None => op = "getLogs"
    /\ Waits(c, t, op) \/ Joins(c, t, op) \/ Refused(c, op)

\* What a call starts with.
LEMMA NewFields ==
    ASSUME Typed, NEW t \in Tabs, NEW op \in Ops
    PROVE  /\ New(t, op) \in Call /\ New(t, op).op = op /\ New(t, op).tab = t
           /\ New(t, op).queue = lg[t].queue /\ New(t, op).of = None
           /\ New(t, op).step = "done" /\ New(t, op).ok = FALSE
BY NewFacts, Zenon

\* How flush, getLogs, clearLogs and destroy start.
LEMMA InvokeFacts ==
    ASSUME Typed, NEW c \in Calls, NEW t \in Tabs, Invoke(c, t)
    PROVE  \E op \in Ops : Starts(c, t, op)
<1>0. /\ call \in [Calls -> Call] /\ lg \in [Tabs -> Logger]
      /\ lg[t].read \in Calls \cup {None}
  BY DEF Typed, TypeOK, Logger
<1>1. ASSUME NEW r \in Call, call' = [call EXCEPT ![c] = r]
      PROVE  OnlyCall(c) /\ call'[c] = r
  BY <1>0, <1>1 DEF OnlyCall
<1>2. ASSUME NEW op \in Ops, NEW r \in Call, Await(c, t, r)
      PROVE  /\ OnlyCall(c) /\ call'[c].step = "wait" /\ call'[c].op = r.op
             /\ call'[c].tab = r.tab /\ call'[c].queue = r.queue /\ call'[c].of = r.of
             /\ call'[c].before = r.before /\ call'[c].ok = r.ok
  <2> DEFINE k == [r EXCEPT !.step = "wait"]
  <2>1. /\ k \in Call /\ k.step = "wait" /\ k.op = r.op /\ k.tab = r.tab
        /\ k.queue = r.queue /\ k.of = r.of /\ k.before = r.before /\ k.ok = r.ok
    BY DEF Call
  <2>2. call' = [call EXCEPT ![c] = k]
    BY <1>2 DEF Await
  <2> HIDE DEF k
  <2> QED BY <1>1, <2>1, <2>2
<1>3. ASSUME NEW op \in Ops, Unused(c), Await(c, t, New(t, op)),
             op # "getLogs", \A u \in Tabs : lg'[u].read = lg[u].read
      PROVE  Starts(c, t, op)
  <2> DEFINE r == New(t, op)
  <2>1. /\ r \in Call /\ r.op = op /\ r.tab = t
        /\ r.queue = lg[t].queue /\ r.of = None
        /\ r.step = "done" /\ r.ok = FALSE
    BY NewFields, Zenon
  <2>2. Await(c, t, r) /\ r.before = New(t, op).before
    BY <1>3
  <2> HIDE DEF r
  <2> QED BY <1>2, <1>3, <2>1, <2>2 DEF Starts, Waits, Joins, Refused
<1>4. CASE "flush" \in Ops /\ Flush(c, t)
  BY <1>3, <1>4 DEF Flush
<1>5. CASE "destroy" \in Ops /\ Destroy(c, t)
  <2>1. \A u \in Tabs : lg'[u].read = lg[u].read
    BY <1>0, <1>5 DEF Destroy, Logger
  <2>2. Unused(c) /\ Await(c, t, New(t, "destroy"))
    BY <1>5 DEF Destroy
  <2> QED BY <1>3, <1>5, <2>1, <2>2
<1>6. CASE "clearLogs" \in Ops /\ ClearLogs(c, t)
  <2> DEFINE r == New(t, "clearLogs")
  <2>1. Unused(c) /\ UNCHANGED lg /\ (Await(c, t, r) \/ Done(c, r))
    BY <1>6 DEF ClearLogs
  <2>2. CASE Await(c, t, r)
    BY <1>3, <1>6, <2>1, <2>2
  <2>3. CASE Done(c, r)
    <3>1. /\ r \in Call /\ r.op = "clearLogs" /\ r.tab = t
          /\ r.queue = lg[t].queue /\ r.of = None
          /\ r.step = "done" /\ r.ok = FALSE
      BY <1>6, NewFields, Zenon
    <3>2. r.before = New(t, "clearLogs").before
      OBVIOUS
    <3> HIDE DEF r
    <3>3. OnlyCall(c) /\ call'[c] = r
      BY <1>1, <2>3, <3>1 DEF Done
    <3> QED BY <1>6, <2>1, <3>1, <3>2, <3>3 DEF Starts, Waits, Joins, Refused
  <2> QED BY <2>1, <2>2, <2>3
<1>7. CASE "getLogs" \in Ops /\ GetLogs(c, t)
  <2> DEFINE r == New(t, "getLogs")
             joined == [r EXCEPT !.step = "join", !.of = lg[t].read]
             first == [r EXCEPT !.of = c]
  <2>1. /\ Unused(c)
        /\ \/ Done(c, r) /\ UNCHANGED lg
           \/ lg[t].read # None /\ Done(c, joined) /\ UNCHANGED lg
           \/ Await(c, t, first) /\ lg' = [lg EXCEPT ![t].read = c]
    BY <1>7 DEF GetLogs
  <2>2. /\ r \in Call /\ r.op = "getLogs" /\ r.tab = t
        /\ r.queue = lg[t].queue /\ r.of = None
        /\ r.step = "done" /\ r.ok = FALSE
    BY <1>7, NewFields, Zenon
  <2>0. r.before = New(t, "getLogs").before
    OBVIOUS
  <2> HIDE DEF r
  <2>3. CASE Done(c, r) /\ UNCHANGED lg
    <3>1. OnlyCall(c) /\ call'[c] = r
      BY <1>1, <2>0, <2>2, <2>3 DEF Done
    <3> QED BY <1>7, <2>1, <2>0, <2>2, <2>3, <3>1 DEF Starts, Waits, Joins, Refused
  <2>4. CASE lg[t].read # None /\ Done(c, joined) /\ UNCHANGED lg
    <3>1. /\ joined \in Call /\ joined.op = "getLogs" /\ joined.tab = t
          /\ joined.queue = lg[t].queue /\ joined.step = "join" /\ joined.ok = FALSE
          /\ joined.before = New(t, "getLogs").before /\ joined.of = lg[t].read
          /\ lg[t].read \in Calls
      BY <1>0, <2>0, <2>2, <2>4 DEF Call
    <3> HIDE DEF joined
    <3>2. OnlyCall(c) /\ call'[c] = joined
      BY <1>1, <2>4, <3>1 DEF Done
    <3> QED BY <1>7, <2>1, <2>4, <3>1, <3>2 DEF Starts, Waits, Joins, Refused
  <2>5. CASE Await(c, t, first) /\ lg' = [lg EXCEPT ![t].read = c]
    <3>1. /\ first \in Call /\ first.op = "getLogs" /\ first.tab = t
          /\ first.queue = lg[t].queue /\ first.ok = FALSE
          /\ first.before = New(t, "getLogs").before /\ first.of = c
      BY <2>0, <2>2 DEF Call
    <3> HIDE DEF first
    <3>2. \A u \in Tabs : lg'[u].read = IF u = t THEN c ELSE lg[u].read
      BY <1>0, <2>5 DEF Logger
    <3>3. OnlyCall(c) /\ call'[c].step = "wait" /\ call'[c].op = first.op
          /\ call'[c].tab = first.tab /\ call'[c].queue = first.queue
          /\ call'[c].of = first.of
          /\ call'[c].before = first.before /\ call'[c].ok = first.ok
      BY <1>2, <1>7, <2>5, <3>1
    <3> QED BY <1>7, <2>1, <3>1, <3>2, <3>3 DEF Starts, Waits, Joins, Refused
  <2> QED BY <2>1, <2>3, <2>4, <2>5
<1> QED BY <1>4, <1>5, <1>6, <1>7 DEF Invoke

\* A call that has waited goes on, or ends.
Continues(c) ==
    /\ OnlyCall(c) /\ SameCall(c)
    /\ call'[c].ok => call[c].ok
    /\ \/ /\ call[c].step \in {"read", "wipe"}
          /\ call'[c].step \in {"wipe", "settle"}
       \/ call[c].step \in {"clear", "close"} /\ call'[c].step = "done"
    /\ \A t \in Tabs : lg'[t].read \in {lg[t].read, None}

\* How they go on after they have waited.
LEMMA GoOnFacts ==
    ASSUME Typed, NEW c \in Calls,
           \/ Retrieve(c) \/ Wipe(c) \/ FailRead(c) \/ Clear(c) \/ FailClear(c)
           \/ Closed(c)
    PROVE  Continues(c)
<1>0. call \in [Calls -> Call] /\ call[c] \in Call
  BY DEF Typed, TypeOK
<1>1. \A t \in Tabs : lg'[t].read \in {lg[t].read, None}
  <2>1. CASE Closed(c)
    <3>1. PICK t \in Tabs : Left(t)
      BY <2>1, ClosedMoves
    <3> QED BY <3>1 DEF Left, SameLoggers
  <2>2. CASE ~Closed(c)
    <3>1. UNCHANGED lg
      BY <2>2, Zenon DEF Retrieve, Wipe, FailRead, Clear, FailClear
    <3> QED BY <3>1
  <2> QED BY <2>1, <2>2
<1>2. ASSUME NEW r \in Call, call' = [call EXCEPT ![c] = r],
             r.op = call[c].op, r.tab = call[c].tab, r.queue = call[c].queue,
             r.of = call[c].of, r.before = call[c].before
      PROVE  OnlyCall(c) /\ SameCall(c) /\ call'[c] = r
  BY <1>0, <1>2 DEF OnlyCall, SameCall
<1> DEFINE ended(step) == [call[c] EXCEPT !.step = step]
           failed(step) == [call[c] EXCEPT !.step = step, !.ok = FALSE]
<1>3. \A step \in {"wipe", "settle", "done"} :
         /\ ended(step) \in Call /\ ended(step).step = step
         /\ ended(step).op = call[c].op /\ ended(step).tab = call[c].tab
         /\ ended(step).queue = call[c].queue /\ ended(step).of = call[c].of
         /\ ended(step).before = call[c].before /\ ended(step).ok = call[c].ok
         /\ failed(step) \in Call /\ failed(step).step = step
         /\ failed(step).op = call[c].op /\ failed(step).tab = call[c].tab
         /\ failed(step).queue = call[c].queue /\ failed(step).of = call[c].of
         /\ failed(step).before = call[c].before /\ failed(step).ok = FALSE
  BY <1>0 DEF Call
<1>4. CASE Retrieve(c)
  <2> DEFINE got == {e.line : e \in db[call[c].session]}
             r == [call[c] EXCEPT !.step = "settle", !.result = got]
  <2>1. /\ call[c].step = "read"
        /\ \/ call' = [call EXCEPT ![c] = r]
           \/ call' = [call EXCEPT ![c] = failed("wipe")]
    BY <1>4 DEF Retrieve
  <2>2. got \subseteq Line \cup {Old}
    <3>1. call[c].session \in Sessions
      BY <1>0, <2>1, Types DEF Call, StepOf
    <3> QED BY <3>1, Types, EntryCases
  <2> HIDE DEF got
  <2>3. /\ r \in Call /\ r.step = "settle" /\ r.op = call[c].op /\ r.tab = call[c].tab
        /\ r.queue = call[c].queue /\ r.of = call[c].of /\ r.before = call[c].before
        /\ r.ok = call[c].ok
    BY <1>0, <2>2 DEF Call
  <2> HIDE DEF r, failed, ended
  <2> QED BY <1>1, <1>2, <1>3, <2>1, <2>3 DEF Continues
<1>5. CASE Wipe(c)
  <2>1. call[c].step = "wipe" /\ call' = [call EXCEPT ![c] = ended("settle")]
    BY <1>5 DEF Wipe
  <2> HIDE DEF failed, ended
  <2> QED BY <1>1, <1>2, <1>3, <2>1 DEF Continues
<1>6. CASE Clear(c) \/ Closed(c)
  <2>1. /\ call[c].step \in {"clear", "close"}
        /\ call' = [call EXCEPT ![c] = ended("done")]
    BY <1>6 DEF Clear, Closed
  <2> HIDE DEF failed, ended
  <2> QED BY <1>1, <1>2, <1>3, <2>1 DEF Continues
<1>7. CASE FailRead(c)
  <2>1. call[c].step \in {"read", "wipe"} /\ call' = [call EXCEPT ![c] = failed("settle")]
    BY <1>0, <1>7 DEF FailRead, Call
  <2> HIDE DEF failed, ended
  <2> QED BY <1>1, <1>2, <1>3, <2>1 DEF Continues
<1>8. CASE FailClear(c)
  <2>1. call[c].step = "clear" /\ call' = [call EXCEPT ![c] = failed("done")]
    BY <1>0, <1>8 DEF FailClear, Call
  <2> HIDE DEF failed, ended
  <2> QED BY <1>1, <1>2, <1>3, <2>1 DEF Continues
<1> QED BY <1>4, <1>5, <1>6, <1>7, <1>8

-----------------------------------------------------------------------------
(* The calls wait for what was emitted before them, and for a read.        *)

\* Reads are forgotten, at most.
ReadsStay == \A t \in Tabs : lg'[t].read \in {lg[t].read, None}

\* Steps that leave the calls alone.
LEMMA CallsStay ==
    ASSUME Typed, CallInv, Forward, UNCHANGED call, ReadsStay
    PROVE  CallInv'
<1>1. \A c \in Calls : BeforeFits(c)'
  BY BeforeStays DEF CallInv
<1>2. ReadsFit'
  BY NoneAssumption DEF CallInv, ReadsFit, Reading, ReadsStay
<1> QED BY <1>1, <1>2 DEF CallInv

\* A call that starts joins a read that is under way, or begins one.
LEMMA StartedCall ==
    ASSUME Typed, CallInv, Forward, NEW c \in Calls, NEW t \in Tabs, NEW op \in Ops,
           Starts(c, t, op)
    PROVE  CallInv'
<1>0. Unused(c) /\ OnlyCall(c) /\ call[c].op = "none"
  BY DEF Starts, Unused
<1>1. ASSUME NEW d \in Calls PROVE BeforeFits(d)'
  <2>1. CASE d = c
    <3>1. /\ call'[c].op = op /\ ~call'[c].ok
          /\ Waits(c, t, op) \/ Joins(c, t, op) \/ Refused(c, op)
      BY Zenon DEF Starts
    <3>2. ~Past(call'[c], c)
      BY <3>1 DEF Past, Waits, Joins, Refused
    <3> QED BY <2>1, <3>2, NewBefore DEF Starts
  <2>2. CASE d # c
    <3>1. call'[d] = call[d] /\ BeforeFits(d)
      BY <1>0, <2>2 DEF OnlyCall, CallInv
    <3> QED BY <3>1, BeforeStays
  <2> QED BY <2>1, <2>2
<1>2. \A d : Reading(d) => d # c /\ Reading(d)'
  BY <1>0 DEF Reading, OnlyCall
<1>3. ASSUME NEW d \in Calls, call'[d].step = "join" PROVE Reading(call[d].of)'
  <2>1. CASE d = c
    <3>1. call'[c].of = lg[t].read /\ lg[t].read \in Calls
      <4>1. Waits(c, t, op) \/ Joins(c, t, op) \/ Refused(c, op)
        BY Zenon DEF Starts
      <4>2. call'[c].step = "join"
        BY <1>3, <2>1, Zenon
      <4> QED BY <4>1, <4>2 DEF Waits, Joins, Refused
    <3>2. Reading(lg[t].read)
      BY <3>1 DEF CallInv, ReadsFit
    <3>3. PICK r \in Calls : r = lg[t].read
      BY <3>1
    <3>4. Reading(r)' /\ call'[d].of = r
      BY <1>2, <2>1, <3>1, <3>2, <3>3
    <3> QED BY <3>4 DEF Reading
  <2>2. CASE d # c
    <3>1. call'[d] = call[d]
      BY <1>0, <2>2 DEF OnlyCall
    <3>2. PICK r : r = call[d].of
      OBVIOUS
    <3>3. Reading(r)
      BY <1>3, <3>1, <3>2 DEF CallInv, ReadsFit
    <3>4. Reading(r)' /\ call'[d].of = r
      BY <1>2, <3>1, <3>2, <3>3
    <3> QED BY <3>4 DEF Reading
  <2> QED BY <2>1, <2>2
<1>4. ASSUME NEW u \in Tabs, NEW d \in Calls, lg'[u].read = d
      PROVE  Reading(d)' /\ call'[d].tab = u
  <2>1. CASE lg[u].read = d
    <3>1. Reading(d) /\ call[d].tab = u
      BY <2>1 DEF CallInv, ReadsFit
    <3>2. d # c /\ Reading(d)' /\ call'[d] = call[d]
      BY <1>0, <1>2, <3>1 DEF OnlyCall
    <3> QED BY <3>1, <3>2
  <2>2. CASE lg[u].read # d
    <3>1. Waits(c, t, op) \/ Joins(c, t, op) \/ Refused(c, op)
      BY Zenon DEF Starts
    <3>2. d = c /\ u = t /\ call'[c].step = "wait" /\ op = "getLogs"
      BY <1>4, <2>2, <3>1 DEF Waits, Joins, Refused
    <3>3. call'[c].op = op /\ call'[c].tab = t
      BY DEF Starts
    <3> QED BY <3>2, <3>3 DEF Reading
  <2> QED BY <2>1, <2>2
<1>5. ASSUME NEW d \in Calls, call'[d].of # None PROVE call'[d].op = "getLogs"
  <2>1. CASE d = c
    BY <1>5, <2>1, Zenon DEF Starts
  <2>2. CASE d # c
    BY <1>0, <1>5, <2>2 DEF OnlyCall, CallInv, ReadsFit
  <2> QED BY <2>1, <2>2
<1>6. ReadsFit'
  BY <1>3, <1>4, <1>5 DEF ReadsFit
<1> QED BY <1>1, <1>6 DEF CallInv

\* A read stays under way until it settles.
LEMMA ContinuedCall ==
    ASSUME Typed, CallInv, Forward, NEW c \in Calls, Continues(c)
    PROVE  CallInv'
<1>0. OnlyCall(c) /\ SameCall(c) /\ Past(call[c], c) /\ ReadsStay
      /\ call'[c].step # "join"
  <2>1. OnlyCall(c) /\ SameCall(c) /\ ReadsStay
    BY Zenon DEF Continues, ReadsStay
  <2>2. \/ /\ call[c].step \in {"read", "wipe"}
           /\ call'[c].step \in {"wipe", "settle"}
        \/ call[c].step \in {"clear", "close"} /\ call'[c].step = "done"
    BY Zenon DEF Continues
  <2> QED BY <2>1, <2>2 DEF Past
<1>1. ASSUME NEW d \in Calls PROVE BeforeFits(d)'
  <2>1. CASE d = c
    BY <1>0, <2>1, BeforeStays DEF SameCall, CallInv
  <2>2. CASE d # c
    <3>1. call'[d] = call[d] /\ BeforeFits(d)
      BY <1>0, <2>2 DEF OnlyCall, CallInv
    <3> QED BY <3>1, BeforeStays
  <2> QED BY <2>1, <2>2
<1>2. StepOf(call[c])
  BY Types
<1>3. \A d \in Calls : Reading(d) => Reading(d)' /\ call'[d].tab = call[d].tab
  BY <1>0, <1>2 DEF Continues, Reading, OnlyCall, SameCall, StepOf
<1>4. ASSUME NEW d \in Calls, call'[d].step = "join" PROVE Reading(call[d].of)'
  <2>1. call'[d] = call[d]
    BY <1>0, <1>4 DEF OnlyCall
  <2>2. PICK r : r = call[d].of
    OBVIOUS
  <2>3. Reading(r) /\ r \in Calls
    BY <1>4, <2>1, <2>2 DEF CallInv, ReadsFit, Reading
  <2>4. Reading(r)' /\ call'[d].of = r
    BY <1>3, <2>1, <2>2, <2>3
  <2> QED BY <2>4 DEF Reading
<1>5. ASSUME NEW u \in Tabs, NEW d \in Calls, lg'[u].read = d
      PROVE  Reading(d)' /\ call'[d].tab = u
  BY <1>0, <1>3, <1>5, NoneAssumption DEF CallInv, ReadsFit, ReadsStay
<1>6. ASSUME NEW d \in Calls, call'[d].of # None PROVE call'[d].op = "getLogs"
  BY <1>0, <1>6 DEF OnlyCall, SameCall, CallInv, ReadsFit
<1>7. ReadsFit'
  BY <1>4, <1>5, <1>6 DEF ReadsFit
<1> QED BY <1>1, <1>7 DEF CallInv

\* A call that has waited has nothing of its own ahead of it.
LEMMA ResumedCall ==
    ASSUME Typed, CallInv, Forward, NEW t \in Tabs, NEW q \in Queue, Resumed(t, q)
    PROVE  CallInv'
<1>1. UNCHANGED <<lg, task>>
  BY Zenon DEF Resumed
<1>2. PICK c \in Calls, r \in Call :
         /\ Popped(t, q, Resume(c)) /\ call' = [call EXCEPT ![c] = r]
         /\ call[c].step = "wait" /\ call[c].tab = t /\ call[c].queue = q
         /\ r.op = call[c].op /\ r.tab = t /\ r.queue = q /\ r.of = call[c].of
         /\ r.before = call[c].before /\ r.step # "join"
         /\ r.op = "getLogs" => r.step \in {"settle", "read"}
  BY ResumedFacts
<1>3. \A d \in Calls : call'[d] = IF d = c THEN r ELSE call[d]
  BY <1>2 DEF Typed, TypeOK
<1>4. ASSUME NEW d \in Calls PROVE BeforeFits(d)'
  <2>1. CASE d = c
    <3>1. call'[c] = r /\ BeforeFits(c)
      BY <1>3 DEF CallInv
    <3> QED BY <1>1, <1>2, <2>1, <3>1, ResumedBefore
  <2>2. CASE d # c
    <3>1. call'[d] = call[d] /\ BeforeFits(d)
      BY <1>3, <2>2 DEF CallInv
    <3> QED BY <3>1, BeforeStays
  <2> QED BY <2>1, <2>2
<1>5. \A d \in Calls : Reading(d) => Reading(d)' /\ call'[d].tab = call[d].tab
  BY <1>2, <1>3 DEF Reading
<1>6. ASSUME NEW d \in Calls, call'[d].step = "join" PROVE Reading(call[d].of)'
  <2>1. call'[d] = call[d]
    BY <1>2, <1>3, <1>6
  <2>2. PICK x : x = call[d].of
    OBVIOUS
  <2>3. Reading(x) /\ x \in Calls
    BY <1>6, <2>1, <2>2 DEF CallInv, ReadsFit, Reading
  <2>4. Reading(x)' /\ call'[d].of = x
    BY <1>5, <2>1, <2>2, <2>3
  <2> QED BY <2>4 DEF Reading
<1>7. ASSUME NEW u \in Tabs, NEW d \in Calls, lg'[u].read = d
      PROVE  Reading(d)' /\ call'[d].tab = u
  BY <1>1, <1>5, <1>7 DEF CallInv, ReadsFit
<1>8. ASSUME NEW d \in Calls, call'[d].of # None PROVE call'[d].op = "getLogs"
  BY <1>2, <1>3, <1>8 DEF CallInv, ReadsFit
<1>9. ReadsFit'
  BY <1>6, <1>7, <1>8 DEF ReadsFit
<1> QED BY <1>4, <1>9 DEF CallInv

\* Who joined a read is answered with it: nobody joins a read that is over.
LEMMA SettledCall ==
    ASSUME Typed, CallInv, Forward, NEW c \in Calls, Settle(c)
    PROVE  CallInv'
<1> DEFINE joined(d) == call[d].step = "join" /\ call[d].of = c
<1>1. PICK n \in Tabs : n = call[c].tab
  BY SettleFacts
<1>2. /\ call[c].step = "settle" /\ lg' = [lg EXCEPT ![n].read = None]
      /\ lg \in [Tabs -> Logger]
  BY <1>1, SettleFacts DEF Typed, TypeOK
<1>3. \A d \in Calls :
         /\ d # c /\ ~joined(d) => call'[d] = call[d]
         /\ d = c \/ joined(d) => call'[d].step = "done"
         /\ SameCall(d)
  <2> SUFFICES ASSUME NEW d \in Calls
               PROVE  /\ d # c /\ ~joined(d) => call'[d] = call[d]
                      /\ d = c \/ joined(d) => call'[d].step = "done"
                      /\ SameCall(d)
    OBVIOUS
  <2>1. CASE d # c /\ ~joined(d)
    <3>1. call'[d] = call[d]
      BY <2>1, SettleFacts
    <3> QED BY <2>1, <3>1 DEF SameCall
  <2>2. CASE ~(d # c /\ ~joined(d))
    BY <2>2, SettleFacts DEF SameCall
  <2> QED BY <2>1, <2>2
<1>4. \A d \in Calls : StepOf(call[d])
  BY Types
<1>5. ASSUME NEW d \in Calls PROVE BeforeFits(d)'
  <2>1. Past(call'[d], d) => Past(call[d], d)
    BY <1>2, <1>3, <1>4 DEF Past, SameCall, StepOf
  <2> QED BY <1>3, <2>1, BeforeStays DEF SameCall, CallInv
<1>6. \A d \in Calls : d # c /\ Reading(d) => Reading(d)' /\ call'[d].tab = call[d].tab
  BY <1>3 DEF Reading
<1>7. ASSUME NEW d \in Calls, call'[d].step = "join" PROVE Reading(call[d].of)'
  <2>1. call'[d] = call[d] /\ call[d].of # c
    BY <1>3, <1>7
  <2>2. PICK x : x = call[d].of
    OBVIOUS
  <2>3. Reading(x) /\ x \in Calls /\ x # c
    BY <1>7, <2>1, <2>2 DEF CallInv, ReadsFit, Reading
  <2>4. Reading(x)' /\ call'[d].of = x
    BY <1>6, <2>1, <2>2, <2>3
  <2> QED BY <2>4 DEF Reading
<1>8. ASSUME NEW u \in Tabs, NEW d \in Calls, lg'[u].read = d
      PROVE  Reading(d)' /\ call'[d].tab = u
  <2>1. u # n /\ lg[u].read = d
    BY <1>2, <1>8, NoneAssumption DEF Logger
  <2>2. Reading(d) /\ call[d].tab = u
    BY <2>1 DEF CallInv, ReadsFit
  <2> QED BY <1>1, <1>6, <2>1, <2>2
<1>9. ASSUME NEW d \in Calls, call'[d].of # None PROVE call'[d].op = "getLogs"
  BY <1>3, <1>9 DEF SameCall, CallInv, ReadsFit
<1>10. ReadsFit'
  BY <1>7, <1>8, <1>9 DEF ReadsFit
<1> QED BY <1>5, <1>10 DEF CallInv

\* No step lets a call go on too early, or a read be joined that is over.
LEMMA CallSteps == ASSUME Typed, CallInv, [Next]_vars PROVE CallInv'
<1>0. Forward
  BY ForwardSteps
<1>1. CASE UNCHANGED <<lg, call>>
  BY <1>0, <1>1, CallsStay DEF ReadsStay
<1>2. ASSUME NEW t \in Tabs, Emit(t) PROVE CallInv'
  <2>1. PICK n \in Line : Emitted(t, n)
    BY <1>2, EmitFacts
  <2>2. UNCHANGED call /\ ReadsStay
    BY <2>1 DEF Emitted, ReadsStay
  <2> QED BY <1>0, <2>2, CallsStay
<1>3. ASSUME NEW t \in Tabs, NEW s \in Sessions, Initialize(t, s) PROVE CallInv'
  <2>1. Initialized(t, s)
    BY <1>3, InitializeMoves
  <2>2. UNCHANGED call /\ ReadsStay
    BY <2>1 DEF Initialized, ReadsStay, SameLoggers
  <2> QED BY <1>0, <2>2, CallsStay
<1>4. ASSUME NEW t \in Tabs, NEW q \in Queue, Encrypted(t, q) PROVE CallInv'
  <2>1. Ciphered(t, q)
    BY <1>4, EncryptedMoves
  <2>2. UNCHANGED call /\ ReadsStay
    BY <2>1 DEF Ciphered, ReadsStay, SameLoggers
  <2> QED BY <1>0, <2>2, CallsStay
<1>5. ASSUME NEW t \in Tabs, NEW c \in Calls, Invoke(c, t) PROVE CallInv'
  BY <1>0, <1>5, InvokeFacts, StartedCall
<1>6. ASSUME NEW c \in Calls, GoOn(c) PROVE CallInv'
  <2>1. CASE Settle(c)
    BY <1>0, <2>1, SettledCall
  <2>2. CASE ~Settle(c)
    <3>1. Continues(c)
      BY <1>6, <2>2, GoOnFacts DEF GoOn
    <3> QED BY <1>0, <3>1, ContinuedCall
  <2> QED BY <2>1, <2>2
<1>7. ASSUME NEW t \in Tabs, NEW q \in Queue, Resumed(t, q) PROVE CallInv'
  BY <1>0, <1>7, ResumedCall
<1>8. ASSUME NEW t \in Tabs, NEW q \in Queue, Steps(t, q) PROVE CallInv'
  <2>1. CASE Encrypted(t, q) \/ Resumed(t, q)
    BY <1>4, <1>7, <2>1
  <2>2. CASE ~(Encrypted(t, q) \/ Resumed(t, q))
    <3>1. UNCHANGED <<lg, call>>
      BY <1>8, <2>2, Zenon DEF Steps, BeginPersist, Store, Fail, BeginCleanup,
         Expire, Count, Trim
    <3> QED BY <1>1, <3>1
  <2> QED BY <2>1, <2>2
<1>9. CASE ClockTick \/ UNCHANGED vars
  <2>1. UNCHANGED <<lg, call>>
    BY <1>9 DEF ClockTick, vars
  <2> QED BY <1>1, <2>1
<1>10. ASSUME NEW t \in Tabs, CleanupTimer(t) PROVE CallInv'
  <2>1. UNCHANGED <<lg, call>>
    BY <1>10, Zenon DEF CleanupTimer
  <2> QED BY <1>1, <2>1
<1> QED BY <1>2, <1>3, <1>5, <1>6, <1>8, <1>9, <1>10, Zenon DEF Next

\* There is no call at first.
LEMMA CallInit == ASSUME Init PROVE CallInv
<1>1. \A c \in Calls : call[c].of = None
  BY Zenon DEF Init
<1> QED BY <1>1, NothingYet, NoneAssumption DEF CallInv, ReadsFit, BeforeFits

-----------------------------------------------------------------------------
(* Where the lines end: stored, or gone.                                   *)

\* What is stored stays or is gone, and what is stored anew was in hand.
Stocked ==
    /\ gone \subseteq gone'
    /\ \A s \in Sessions, l \in Line :
          /\ StoredIn(s, l) => StoredIn(s, l)' \/ l \in gone'
          /\ StoredIn(s, l)' =>
                StoredIn(s, l) \/ \E t \in Tabs, q \in Queue : Live(t, q, l)

\* Every step keeps what is stored, or it is gone.
LEMMA StockSteps == ASSUME Typed, [Next]_vars PROVE Stocked
<1>1. CASE Quiet
  <2>1. /\ gone \subseteq gone' /\ \A s \in Sessions : db'[s] \subseteq db[s]
        /\ \A s \in Sessions : \A e \in db[s] :
              e.line # Old => e \in db'[s] \/ e.line \in gone'
    BY <1>1 DEF Quiet, QuietStore
  <2>2. \A l \in Line : l # Old
    BY DEF Line, Old
  <2> QED BY <2>1, <2>2 DEF Stocked, StoredIn
<1>2. CASE UNCHANGED db /\ gone \subseteq gone'
  BY <1>2 DEF Stocked, StoredIn
<1>3. ASSUME NEW t \in Tabs, Emit(t) PROVE Stocked
  <2>1. PICK n \in Line : Emitted(t, n)
    BY <1>3, EmitFacts
  <2> QED BY <1>2, <2>1 DEF Emitted
<1>4. ASSUME NEW t \in Tabs, NEW s \in Sessions, Initialize(t, s) PROVE Stocked
  <2>1. UNCHANGED <<db, gone>>
    BY <1>4, Zenon DEF Initialize
  <2> QED BY <1>2, <2>1
<1>5. ASSUME NEW t \in Tabs, NEW q \in Queue, BeginPersist(t, q) PROVE Stocked
  <2>1. PICK n \in Line : Began(t, q, n)
    BY <1>5, BeginPersistMoves
  <2> QED BY <1>2, <2>1 DEF Began
<1>6. ASSUME NEW t \in Tabs, NEW q \in Queue, Encrypted(t, q) PROVE Stocked
  <2>1. Ciphered(t, q)
    BY <1>6, EncryptedMoves
  <2> QED BY <1>2, <2>1 DEF Ciphered
<1>7. ASSUME NEW t \in Tabs, NEW q \in Queue, Store(t, q) PROVE Stocked
  <2>1. PICK s \in Sessions, e \in Written : StoredAt(t, q, s, e)
    BY <1>7, StoreMoves
  <2>2. /\ gone \subseteq gone' /\ InHand(t, q, e.line)
        /\ \A r \in Sessions : db'[r] = IF r = s THEN db[s] \cup {e} ELSE db[r]
    BY <2>1 DEF StoredAt, InHand, Holds
  <2>3. \A r \in Sessions, l \in Line :
           /\ StoredIn(r, l) => StoredIn(r, l)'
           /\ StoredIn(r, l)' => StoredIn(r, l) \/ l = e.line
    BY <2>2 DEF StoredIn
  <2> QED BY <2>2, <2>3 DEF Stocked, Live
<1>8. ASSUME NEW c \in Calls, Closed(c) PROVE Stocked
  <2>1. PICK t \in Tabs : Left(t)
    BY <1>8, ClosedMoves
  <2> QED BY <1>2, <2>1 DEF Left
<1> QED BY <1>1, <1>3, <1>4, <1>5, <1>6, <1>7, <1>8, QuietSteps

\* A line that is where it says is somewhere.
LEMMA SomewhereHere ==
    ASSUME NEW t \in Tabs, NEW q \in Queue, NEW l \in Line, Of(t, q, l)
    PROVE  Somewhere(l) <=> \/ l \in gone \/ \E s \in Sessions : StoredIn(s, l)
                            \/ Buffered(t, l) \/ Queued(t, q, l) \/ InHand(t, q, l)
BY DEF Somewhere, Of, Live

\* A line goes from the buffer to the queue, to a task and to a database, or is gone.
MovesOn(t, q, l) ==
    /\ Buffered(t, l) /\ lg[t].queue = q => Buffered(t, l)' \/ Queued(t, q, l)' \/ l \in gone'
    /\ Queued(t, q, l) => Queued(t, q, l)' \/ InHand(t, q, l)' \/ l \in gone'
    /\ InHand(t, q, l) => \/ InHand(t, q, l)' \/ l \in gone'
                          \/ \E s \in Sessions : StoredIn(s, l)'

\* Every step moves a line on, or leaves it.
LEMMA MovesOnSteps ==
    ASSUME Typed, [Next]_vars, NEW u \in Tabs, NEW p \in Queue, NEW l \in Line
    PROVE  MovesOn(u, p, l)
<1>1. CASE Quiet
  <2>1. /\ Queued(u, p, l)' <=> Queued(u, p, l)
        /\ lg'[u].pending = lg[u].pending
        /\ \/ task'[u][p] = task[u][p]
           \/ /\ task[u][p].step # "encrypt"
              /\ task[u][p].step = "store" => task[u][p].entry.line \in gone'
    BY <1>1 DEF Quiet, QuietQueue, QuietLoggers, QuietTasks
  <2> QED BY <2>1 DEF MovesOn, Buffered, InHand, Holds
<1>2. ASSUME NEW t \in Tabs, Emit(t) PROVE MovesOn(u, p, l)
  <2>1. PICK n \in Line : Emitted(t, n)
    BY <1>2, EmitFacts
  <2>2. /\ Buffered(u, l) => Buffered(u, l)' \/ l \in gone'
        /\ Queued(u, p, l) => Queued(u, p, l)'
        /\ task' = task
    BY <2>1 DEF Emitted
  <2> QED BY <2>2 DEF MovesOn, InHand
<1>3. ASSUME NEW t \in Tabs, NEW s \in Sessions, Initialize(t, s)
      PROVE  MovesOn(u, p, l)
  <2>1. Initialized(t, s)
    BY <1>3, InitializeMoves
  <2>2. /\ u # t => lg'[u] = lg[u]
        /\ Queued(u, p, l) => Queued(u, p, l)'
        /\ u = t /\ p = lg[t].queue /\ Buffered(t, l) => Queued(u, p, l)'
        /\ task' = task
    BY <2>1 DEF Initialized, SameLoggers
  <2> QED BY <2>2 DEF MovesOn, InHand, Buffered
<1>4. ASSUME NEW t \in Tabs, NEW q \in Queue, BeginPersist(t, q) PROVE MovesOn(u, p, l)
  <2>1. PICK n \in Line : Began(t, q, n)
    BY <1>4, BeginPersistMoves
  <2>2. /\ lg' = lg /\ SameTasks(t, q) /\ task[t][q].step = "idle"
        /\ Queued(u, p, l) => Queued(u, p, l)' \/ (u = t /\ p = q /\ l = n)
        /\ \/ n \in gone'
           \/ task'[t][q].step = "encrypt" /\ task'[t][q].line = n
    BY <2>1 DEF Began
  <2>3. InHand(t, q, n)' \/ n \in gone'
    BY <2>2 DEF InHand, Holds
  <2>4. InHand(u, p, l) => InHand(u, p, l)'
    BY <2>2 DEF InHand, Holds, SameTasks
  <2> QED BY <2>2, <2>3, <2>4 DEF MovesOn, Buffered
<1>5. ASSUME NEW t \in Tabs, NEW q \in Queue, Encrypted(t, q) PROVE MovesOn(u, p, l)
  <2>1. Ciphered(t, q)
    BY <1>5, EncryptedMoves
  <2>2. /\ queue' = queue /\ SameTasks(t, q) /\ SameLoggers(t)
        /\ lg'[t].pending = lg[t].pending /\ task[t][q].step = "encrypt"
        /\ \/ task[t][q].line \in gone'
           \/ /\ task'[t][q].step = "store"
              /\ task'[t][q].entry.line = task[t][q].line
    BY <2>1 DEF Ciphered
  <2>3. Buffered(u, l)' <=> Buffered(u, l)
    BY <2>2 DEF Buffered, SameLoggers
  <2>4. InHand(u, p, l) => InHand(u, p, l)' \/ l \in gone'
    BY <2>2 DEF InHand, Holds, SameTasks
  <2> QED BY <2>2, <2>3, <2>4 DEF MovesOn, Queued
<1>6. ASSUME NEW t \in Tabs, NEW q \in Queue, Store(t, q) PROVE MovesOn(u, p, l)
  <2>1. PICK s \in Sessions, e \in Written : StoredAt(t, q, s, e)
    BY <1>6, StoreMoves
  <2>2. /\ UNCHANGED <<lg, queue>> /\ SameTasks(t, q)
        /\ task[t][q].step = "store" /\ task[t][q].entry = e
        /\ db'[s] = db[s] \cup {e}
    BY <2>1 DEF StoredAt
  <2>3. StoredIn(s, e.line)'
    BY <2>2 DEF StoredIn
  <2>4. InHand(u, p, l) => InHand(u, p, l)' \/ l = e.line
    BY <2>2 DEF InHand, Holds, SameTasks
  <2> QED BY <2>2, <2>3, <2>4 DEF MovesOn, Queued, Buffered
<1>7. ASSUME NEW c \in Calls, Closed(c) PROVE MovesOn(u, p, l)
  <2>1. PICK t \in Tabs : Left(t)
    BY <1>7, ClosedMoves
  <2>2. UNCHANGED <<queue, task>>
    BY <2>1 DEF Left
  <2>3. Buffered(u, l) => Buffered(u, l)' \/ l \in gone'
    BY <2>1 DEF Left, SameLoggers, Buffered
  <2> QED BY <2>2, <2>3 DEF MovesOn, Queued, InHand
<1> QED BY <1>1, <1>2, <1>3, <1>4, <1>5, <1>6, <1>7, QuietSteps

\* Lines are what they were when they were emitted.
LEMMA LinesStayOf ==
    ASSUME Typed, Typed', [Next]_vars, NEW l \in 1 .. Len(lines')
    PROVE  \/ l \in 1 .. Len(lines) /\ lines'[l] = lines[l]
           \/ \E t \in Tabs : Emitted(t, l)
<1>1. CASE \E t \in Tabs : Emit(t)
  <2>1. PICK t \in Tabs, n \in Line : Emitted(t, n)
    BY <1>1, EmitFacts
  <2>2. /\ n = Len(lines) + 1 /\ Len(lines') = n
        /\ \A m \in 1 .. Len(lines) : lines'[m] = lines[m]
    BY <2>1 DEF Emitted
  <2>3. Len(lines) \in Nat
    BY Types
  <2>4. l = n \/ l \in 1 .. Len(lines)
    BY <2>2, <2>3
  <2> QED BY <2>1, <2>2, <2>4
<1>2. CASE ~(\E t \in Tabs : Emit(t))
  <2>1. lines' = lines
    <3>1. CASE Quiet
      BY <3>1 DEF Quiet
    <3>2. CASE \E t \in Tabs, s \in Sessions : Initialize(t, s)
      BY <3>2, InitializeMoves DEF Initialized
    <3>3. CASE \E t \in Tabs, q \in Queue :
                  BeginPersist(t, q) \/ Encrypted(t, q) \/ Store(t, q)
      BY <3>3, Zenon DEF BeginPersist, Encrypted, Store
    <3>4. CASE \E c \in Calls : Closed(c)
      BY <3>4, Zenon DEF Closed
    <3> QED BY <1>2, <3>1, <3>2, <3>3, <3>4, QuietSteps
  <2> QED BY <2>1
<1> QED BY <1>1, <1>2

\* No line is lost on its way.
LEMMA SomewhereSteps ==
    ASSUME Typed, Typed', OrderInv, AllSomewhere, [Next]_vars
    PROVE  AllSomewhere'
<1> SUFFICES ASSUME NEW l \in 1 .. Len(lines') PROVE Somewhere(l)'
  BY DEF AllSomewhere
<1>1. CASE l \in 1 .. Len(lines) /\ lines'[l] = lines[l]
  <2>1. PICK t \in Tabs, q \in Queue : t = lines[l].tab /\ q = lines[l].queue
    BY <1>1, Types
  <2>2. l \in Line /\ Of(t, q, l) /\ Of(t, q, l)'
    BY <1>1, <2>1, Types DEF Of
  <2>3. \/ l \in gone \/ \E s \in Sessions : StoredIn(s, l)
        \/ Buffered(t, l) \/ Queued(t, q, l) \/ InHand(t, q, l)
    BY <1>1, <2>2, SomewhereHere DEF AllSomewhere
  <2>4. Buffered(t, l) => lg[t].queue = q
    BY <2>2 DEF OrderInv, LinesFit, Of
  <2>5. MovesOn(t, q, l) /\ Stocked
    BY <2>2, MovesOnSteps, StockSteps
  <2>6. \/ l \in gone' \/ \E s \in Sessions : StoredIn(s, l)'
        \/ Buffered(t, l)' \/ Queued(t, q, l)' \/ InHand(t, q, l)'
    BY <2>2, <2>3, <2>4, <2>5 DEF MovesOn, Stocked
  <2>7. /\ lines'[l].tab = t /\ lines'[l].queue = q
    BY <2>2 DEF Of
  <2> QED BY <2>6, <2>7 DEF Somewhere, Live
<1>2. ASSUME NEW t \in Tabs, Emitted(t, l) PROVE Somewhere(l)'
  <2>1. lines'[l].tab = t /\ lines'[l].queue = lg[t].queue
    BY <1>2 DEF Emitted
  <2>2. PICK q \in Queue : q = lg[t].queue
    BY Types
  <2>3. Buffered(t, l)' \/ Queued(t, q, l)' \/ l \in gone'
    BY <1>2, <2>2 DEF Emitted, Queued
  <2> QED BY <2>1, <2>2, <2>3 DEF Somewhere, Live
<1> QED BY <1>1, <1>2, LinesStayOf

-----------------------------------------------------------------------------
(* What the calls are answered.                                            *)

\* An answer that was given holds on: what was cleared is not written again.
LEMMA AnswerStays ==
    ASSUME Typed, Stocked, LinesFit, NEW c \in Calls, BeforeFits(c), AnswerFits(c),
           call'[c] = call[c]
    PROVE  AnswerFits(c)'
<1>0. PICK r \in Call : r = call[c]
  BY Types
<1>1. /\ r \in Call /\ r.before \subseteq Line /\ r.tab \in Tabs /\ r.queue \in Queue
      /\ StepOf(r)
  BY <1>0, Types DEF Call
<1>2. PICK t \in Tabs, q \in Queue : t = r.tab /\ q = r.queue
  BY <1>1
<1>3. call[c] = r /\ call'[c] = r
  BY <1>0
<1>4. ASSUME r.ok, r.step = "read"
      PROVE  \A l \in r.before : l \in gone' \/ StoredIn(r.session, l)'
  <2>1. r.session \in Sessions
    BY <1>1, <1>4 DEF Call, StepOf
  <2>2. \A l \in r.before : l \in gone \/ StoredIn(r.session, l)
    BY <1>3, <1>4 DEF AnswerFits
  <2> QED BY <1>1, <2>1, <2>2 DEF Stocked
<1>5. ASSUME r.ok, r.step \in {"settle", "done"}, r.op = "getLogs", r.of = c
      PROVE  r.before \subseteq r.result \cup gone'
  <2>1. r.before \subseteq r.result \cup gone
    BY <1>3, <1>5 DEF AnswerFits
  <2> QED BY <2>1 DEF Stocked
<1>6. ASSUME r.ok, r.step = "done", r.op = "clearLogs", NEW l \in r.before,
             StoredIn(r.session, l)'
      PROVE  FALSE
  <2>1. ~StoredIn(r.session, l) /\ r.session # None
    BY <1>3, <1>6 DEF AnswerFits
  <2>2. Past(r, c)
    BY <1>6 DEF Past
  <2>3. Of(t, q, l) /\ ~Live(t, q, l)
    BY <1>2, <1>3, <2>2 DEF BeforeFits
  <2>4. \A u \in Tabs, p \in Queue : ~Live(u, p, l)
    BY <1>1, <2>3 DEF LinesFit, Of
  <2>5. r.session \in Sessions /\ l \in Line
    BY <1>1, <2>1 DEF Call
  <2> QED BY <1>6, <2>1, <2>4, <2>5 DEF Stocked
<1>7. r.ok => r.step # "wipe"
  BY <1>3 DEF AnswerFits
<1> QED BY <1>3, <1>4, <1>5, <1>6, <1>7 DEF AnswerFits

\* Where one call changes, the other answers hold on.
LEMMA AnswersStay ==
    ASSUME Typed, OrderInv, CallInv, AnswerInv, Stocked, NEW c \in Calls, OnlyCall(c),
           AnswerFits(c)'
    PROVE  \A d \in Calls : AnswerFits(d)'
BY AnswerStays DEF OnlyCall, OrderInv, CallInv, AnswerInv

\* A read or a clear that failed owes nothing.
LEMMA FailedFits == ASSUME NEW c \in Calls, ~call'[c].ok PROVE AnswerFits(c)'
BY DEF AnswerFits

\* Once the writes are done, what was emitted before a read is in its database.
LEMMA ResumedAnswer ==
    ASSUME Typed, CallInv, CallInv', AtHome, AllSomewhere', AtHome',
           NEW t \in Tabs, NEW q \in Queue, Resumed(t, q)
    PROVE  \E c \in Calls : OnlyCall(c) /\ AnswerFits(c)'
<1>1. UNCHANGED <<lg, task, gone, db>>
  BY Zenon DEF Resumed
<1>2. PICK c \in Calls, r \in Call :
         /\ call' = [call EXCEPT ![c] = r]
         /\ r.tab = t /\ r.queue = q /\ r.session = lg[t].session
         /\ r.ok = (lg[t].session # None /\ lg[t].queue = q)
         /\ r.step = IF r.op = "flush" THEN "done"
                     ELSE IF r.op = "destroy" THEN "close"
                     ELSE IF r.op = "getLogs"
                     THEN IF lg[t].session = None THEN "settle" ELSE "read"
                     ELSE IF lg[t].session = None THEN "done" ELSE "clear"
         /\ r.op \in {"flush", "getLogs", "clearLogs", "destroy"}
  BY ResumedFacts
<1>3. OnlyCall(c) /\ call'[c] = r
  BY <1>2 DEF Typed, TypeOK, OnlyCall
<1>4. CASE ~r.ok
  BY <1>3, <1>4, FailedFits
<1>5. CASE r.ok
  <2>1. PICK s \in Sessions : s = lg[t].session
    BY <1>2, <1>5, Types DEF Logger
  <2>2. /\ s # None /\ lg[t].queue = q /\ r.session = s
        /\ r.step = IF r.op = "flush" THEN "done" ELSE IF r.op = "destroy" THEN "close"
                    ELSE IF r.op = "getLogs" THEN "read" ELSE "clear"
        /\ r.op \in {"flush", "getLogs", "clearLogs", "destroy"}
    BY <1>2, <1>5, <2>1, NoneAssumption
  <2>3. ASSUME r.step = "read", NEW l \in r.before
        PROVE  l \in gone' \/ StoredIn(s, l)'
    <3>1. BeforeFits(c)' /\ Past(r, c)
      BY <2>3 DEF CallInv, Past
    <3>2. Of(t, q, l)' /\ ~Buffered(t, l)' /\ ~Live(t, q, l)'
      BY <1>2, <1>3, <3>1 DEF BeforeFits
    <3>3. l \in 1 .. Len(lines') /\ lines'[l].tab = t /\ lines'[l].queue = q
      BY <3>2 DEF Of
    <3>4. l \in gone' \/ \E z \in Sessions : StoredIn(z, l)'
      BY <3>2, <3>3 DEF AllSomewhere, Somewhere
    <3>5. \A z \in Sessions : StoredIn(z, l)' => z = s
      <4>1. lg'[t].queue = q /\ lg'[t].session = s /\ l \in Line
        BY <1>1, <1>2, <2>1, <2>2, <2>3 DEF Call
      <4> QED BY <3>2, <4>1 DEF AtHome
    <3> QED BY <3>4, <3>5
  <2>4. r.step # "wipe" /\ r.step # "settle"
        /\ (r.step = "done" => r.op = "flush")
    BY <2>2
  <2> QED BY <1>3, <2>2, <2>3, <2>4 DEF AnswerFits
<1> QED BY <1>3, <1>4, <1>5

\* A read answers with all that is stored, and a clear leaves nothing.
LEMMA GoOnAnswer ==
    ASSUME Typed, AnswerInv, NEW c \in Calls,
           \/ Retrieve(c) \/ Wipe(c) \/ FailRead(c) \/ Clear(c) \/ FailClear(c)
           \/ Closed(c)
    PROVE  AnswerFits(c)'
<1>0. PICK r \in Call : r = call[c]
  BY Types
<1>1. AnswerFits(c) /\ StepOf(r) /\ r.session \in Sessions \cup {None}
  BY <1>0, Types DEF AnswerInv, Call
<1>2. call \in [Calls -> Call]
  BY DEF Typed, TypeOK
<1>3. CASE Retrieve(c)
  <2>1. PICK s \in Sessions : r.step = "read" /\ s = r.session
    BY <1>0, <1>1, <1>3 DEF Retrieve, StepOf
  <2>2. PICK got : got = {e.line : e \in db[s]}
    OBVIOUS
  <2>3. UNCHANGED <<db, gone>>
        /\ \/ call' = [call EXCEPT ![c] = [r EXCEPT !.step = "settle", !.result = got]]
           \/ call' = [call EXCEPT ![c] = [r EXCEPT !.step = "wipe", !.ok = FALSE]]
    BY <1>0, <1>3, <2>1, <2>2 DEF Retrieve
  <2>4. CASE call' = [call EXCEPT ![c] = [r EXCEPT !.step = "settle", !.result = got]]
    <3>1. /\ call'[c].step = "settle" /\ call'[c].result = got
          /\ call'[c].before = r.before /\ call'[c].ok = r.ok
      BY <1>2, <2>4 DEF Call
    <3>2. r.ok => \A l \in r.before : l \in gone \/ StoredIn(s, l)
      BY <1>0, <1>1, <2>1 DEF AnswerFits
    <3>3. r.ok => r.before \subseteq got \cup gone'
      BY <2>2, <2>3, <3>2 DEF StoredIn
    <3> QED BY <3>1, <3>3 DEF AnswerFits
  <2>5. CASE call' = [call EXCEPT ![c] = [r EXCEPT !.step = "wipe", !.ok = FALSE]]
    <3>1. call'[c].ok = FALSE
      BY <1>2, <2>5 DEF Call
    <3> QED BY <3>1, FailedFits
  <2> QED BY <2>3, <2>4, <2>5
<1>4. CASE Wipe(c)
  <2>1. r.step = "wipe" /\ call' = [call EXCEPT ![c] = [r EXCEPT !.step = "settle"]]
    BY <1>0, <1>4 DEF Wipe
  <2>2. ~r.ok
    BY <1>0, <1>1, <2>1 DEF AnswerFits
  <2>3. ~call'[c].ok
    BY <1>2, <2>1, <2>2 DEF Call
  <2> QED BY <2>3, FailedFits
<1>5. CASE FailRead(c) \/ FailClear(c)
  <2>1. \E step \in {"settle", "done"} :
           call' = [call EXCEPT ![c] = [r EXCEPT !.step = step, !.ok = FALSE]]
    BY <1>0, <1>5 DEF FailRead, FailClear
  <2>2. call'[c].ok = FALSE
    BY <1>2, <2>1 DEF Call
  <2> QED BY <2>2, FailedFits
<1>6. CASE Clear(c)
  <2>1. PICK s \in Sessions : r.step = "clear" /\ s = r.session
    BY <1>0, <1>1, <1>6 DEF Clear, StepOf
  <2>2. /\ call' = [call EXCEPT ![c] = [r EXCEPT !.step = "done"]]
        /\ Delete(s, db[s])
    BY <1>0, <1>6, <2>1 DEF Clear
  <2>3. /\ call'[c].step = "done" /\ call'[c].op = r.op /\ call'[c].session = s
        /\ r.op = "clearLogs"
    BY <1>1, <1>2, <2>1, <2>2 DEF Call, StepOf
  <2>4. db'[s] = {}
    BY <2>2, DeleteFacts
  <2>5. \A l : ~StoredIn(s, l)'
    BY <2>4 DEF StoredIn
  <2> QED BY <2>3, <2>5, NoneAssumption DEF AnswerFits
<1>7. CASE Closed(c)
  <2>1. r.step = "close" /\ call' = [call EXCEPT ![c] = [r EXCEPT !.step = "done"]]
    BY <1>0, <1>7 DEF Closed
  <2>2. call'[c].step = "done" /\ call'[c].op = "destroy"
    BY <1>1, <1>2, <2>1 DEF Call, StepOf
  <2> QED BY <2>2 DEF AnswerFits
<1> QED BY <1>3, <1>4, <1>5, <1>6, <1>7

\* The read's own answer is as good as when it was read; who joined asks no more.
LEMMA SettledAnswer ==
    ASSUME Typed, OrderInv, CallInv, AnswerInv, Stocked, NEW c \in Calls, Settle(c),
           NEW d \in Calls
    PROVE  AnswerFits(d)'
<1>1. CASE d # c /\ ~(call[d].step = "join" /\ call[d].of = c)
  <2>1. call'[d] = call[d]
    BY <1>1, SettleFacts
  <2> QED BY <2>1, AnswerStays DEF OrderInv, CallInv, AnswerInv
<1>2. CASE ~(d # c /\ ~(call[d].step = "join" /\ call[d].of = c))
  <2>1. PICK r \in Call, k \in Call : r = call[d] /\ k = call[c]
    BY Types
  <2>2. /\ call'[d].step = "done" /\ call'[d].result = k.result /\ call'[d].ok = k.ok
        /\ call'[d].op = r.op /\ call'[d].of = r.of /\ call'[d].before = r.before
        /\ gone' = gone /\ k.step = "settle"
    BY <1>2, <2>1, SettleFacts
  <2>3. r.op = "getLogs"
    BY <1>2, <2>1, <2>2, Types DEF StepOf
  <2>4. ASSUME k.ok, r.of = d PROVE r.before \subseteq k.result \cup gone'
    <3>1. d = c
      BY <1>2, <2>1, <2>4
    <3>2. AnswerFits(c)
      BY DEF AnswerInv
    <3> QED BY <2>1, <2>2, <2>3, <2>4, <3>1, <3>2 DEF AnswerFits
  <2> QED BY <2>2, <2>3, <2>4 DEF AnswerFits
<1> QED BY <1>1, <1>2

\* No step loses a line or breaks an answer.
LEMMA AnswerSteps ==
    ASSUME Typed, Typed', OrderInv, AtHome, AtHome', CallInv, CallInv', AnswerInv,
           [Next]_vars
    PROVE  AnswerInv'
<1>1. AllSomewhere' /\ Stocked
  BY SomewhereSteps, StockSteps DEF AnswerInv
<1>2. CASE UNCHANGED call
  <2>1. \A c \in Calls : AnswerFits(c)'
    BY <1>1, <1>2, AnswerStays DEF OrderInv, CallInv, AnswerInv
  <2> QED BY <1>1, <2>1 DEF AnswerInv
<1>3. ASSUME NEW c \in Calls, OnlyCall(c), AnswerFits(c)' PROVE AnswerInv'
  BY <1>1, <1>3, AnswersStay DEF AnswerInv
<1>4. ASSUME NEW t \in Tabs, NEW c \in Calls, Invoke(c, t) PROVE AnswerInv'
  <2>1. OnlyCall(c) /\ ~call'[c].ok
    BY <1>4, InvokeFacts DEF Starts
  <2> QED BY <1>3, <2>1, FailedFits
<1>5. ASSUME NEW c \in Calls, GoOn(c) PROVE AnswerInv'
  <2>1. CASE Settle(c)
    <3>1. \A d \in Calls : AnswerFits(d)'
      BY <1>1, <2>1, SettledAnswer
    <3> QED BY <1>1, <3>1 DEF AnswerInv
  <2>2. CASE ~Settle(c)
    <3>1. OnlyCall(c) /\ AnswerFits(c)'
      BY <1>5, <2>2, GoOnFacts, GoOnAnswer DEF GoOn, Continues
    <3> QED BY <1>3, <3>1
  <2> QED BY <2>1, <2>2
<1>6. ASSUME NEW t \in Tabs, NEW q \in Queue, Steps(t, q) PROVE AnswerInv'
  <2>1. CASE Resumed(t, q)
    BY <1>1, <1>3, <2>1, ResumedAnswer
  <2>2. CASE ~Resumed(t, q)
    <3>1. UNCHANGED call
      BY <1>6, <2>2, Zenon DEF Steps, BeginPersist, Encrypted, Store, Fail,
         BeginCleanup, Expire, Count, Trim
    <3> QED BY <1>2, <3>1
  <2> QED BY <2>1, <2>2
<1>7. CASE \/ ClockTick \/ UNCHANGED vars
           \/ \E t \in Tabs : \/ Emit(t) \/ CleanupTimer(t)
                              \/ \E s \in Sessions : Initialize(t, s)
  <2>1. UNCHANGED call
    BY <1>7, Zenon DEF ClockTick, vars, Emit, CleanupTimer, Initialize
  <2> QED BY <1>2, <2>1
<1> QED BY <1>4, <1>5, <1>6, <1>7, Zenon DEF Next

\* There is nothing to answer at first.
LEMMA AnswerInit == ASSUME Init PROVE AnswerInv
<1>1. AllSomewhere
  BY NothingYet DEF AllSomewhere
<1>2. \A c \in Calls : AnswerFits(c)
  BY NothingYet DEF AnswerFits
<1> QED BY <1>1, <1>2 DEF AnswerInv

-----------------------------------------------------------------------------
(* The promises of the logger.                                             *)

LoggerInv == Typed /\ OrderInv /\ AtHome /\ CallInv /\ AnswerInv

\* The layers together are inductive.
LEMMA LoggerSteps == Spec => []LoggerInv
<1>1. Init => LoggerInv
  BY TypedInit, OrderInit, HomeInit, CallInit, AnswerInit DEF LoggerInv
<1>2. Typed' /\ LoggerInv /\ [Next]_vars => LoggerInv'
  BY OrderSteps, HomeSteps, CallSteps, AnswerSteps DEF LoggerInv
<1>3. Spec => []Typed
  BY TypesKept, PTL
<1> QED BY <1>1, <1>2, <1>3, PTL DEF Spec

\* A line that is neither buffered nor on its way is stored, or gone.
LEMMA PastIsWritten ==
    ASSUME LoggerInv, NEW c \in Calls, Past(call[c], c), NEW l \in call[c].before
    PROVE  l \in gone \/ \E s \in Sessions : StoredIn(s, l)
<1>1. PICK t \in Tabs, q \in Queue : t = call[c].tab /\ q = call[c].queue
  BY Types DEF LoggerInv, Call
<1>2. Of(t, q, l) /\ ~Buffered(t, l) /\ ~Live(t, q, l)
  BY <1>1 DEF LoggerInv, CallInv, BeforeFits
<1> QED BY <1>2 DEF LoggerInv, AnswerInv, AllSomewhere, Somewhere, Of

\* What the layers say of answers.
LEMMA AnswersFit == ASSUME LoggerInv PROVE AnswersHold
<1>1. ReadsSeeTheirPast
  <2> SUFFICES ASSUME NEW c \in Calls, call[c].step = "done", call[c].of = c, call[c].ok
               PROVE  call[c].before \subseteq call[c].result \cup gone
    BY DEF ReadsSeeTheirPast
  <2>1. AnswerFits(c)
    BY DEF LoggerInv, AnswerInv
  <2>2. call[c].op = "getLogs"
    BY NoneAssumption DEF LoggerInv, CallInv, ReadsFit
  <2> QED BY <2>1, <2>2 DEF AnswerFits
<1>2. FlushedIsWritten
  <2> SUFFICES ASSUME NEW c \in Calls, call[c].step = "done", call[c].op = "flush",
                      NEW l \in call[c].before
               PROVE  l \in gone \/ \E s \in Sessions : \E e \in db[s] : l = e.line
    BY DEF FlushedIsWritten
  <2> QED BY PastIsWritten DEF Past, StoredIn
<1>3. ClearedStaysCleared
  BY DEF ClearedStaysCleared, LoggerInv, AnswerInv, AnswerFits, StoredIn
<1> QED BY <1>1, <1>2, <1>3 DEF AnswersHold

\* What the layers say of lines and calls when nothing is under way.
LEMMA NobodyIsForgotten == ASSUME LoggerInv PROVE NothingIsForgotten
<1> SUFFICES ASSUME \A t \in Tabs, q \in Queue :
                       queue[t][q] = <<>> /\ task[t][q] = Idle,
                    \A c \in Calls : call[c].step \in {"none", "wait", "join", "done"}
             PROVE  /\ \A c \in Calls : call[c].step \in {"none", "done"}
                    /\ 1 .. Len(lines) \subseteq gone
                         \cup (UNION {{e.line : e \in db[s]} : s \in Sessions})
                         \cup (UNION {ToSet(lg[t].pending) : t \in Tabs})
  BY Zenon DEF NothingIsForgotten
<1>1. \A t \in Tabs, q \in Queue : \A x : ~In(queue[t][q], x)
  BY EmptyFacts
<1>2. \A c \in Calls : call[c].step # "wait"
  <2> SUFFICES ASSUME NEW c \in Calls, call[c].step = "wait" PROVE FALSE
    OBVIOUS
  <2>1. PICK t \in Tabs, q \in Queue : t = call[c].tab /\ q = call[c].queue
    BY Types DEF LoggerInv, Call
  <2>2. In(queue[t][q], Resume(c))
    BY <2>1 DEF LoggerInv, Typed, WaitersFit
  <2> QED BY <1>1, <2>2
<1>3. \A c \in Calls : call[c].step # "join"
  BY <1>2 DEF LoggerInv, CallInv, ReadsFit, Reading
<1>4. \A t \in Tabs, q \in Queue, l \in Line : ~Live(t, q, l)
  BY <1>1, HoldsFacts DEF Live, Queued, InHand
<1>5. \A l \in 1 .. Len(lines) :
         /\ l \in Line /\ lines[l].tab \in Tabs /\ lines[l].queue \in Queue
         /\ Somewhere(l)
  BY Types DEF LoggerInv, AnswerInv, AllSomewhere
<1>6. \A c \in Calls : call[c].step \in {"none", "done"}
  BY <1>2, <1>3
<1>7. ASSUME NEW l \in 1 .. Len(lines)
      PROVE  \/ l \in gone \/ \E s \in Sessions : \E e \in db[s] : l = e.line
             \/ \E t \in Tabs : l \in ToSet(lg[t].pending)
  <2>1. \/ l \in gone \/ \E s \in Sessions : StoredIn(s, l)
        \/ \E t \in Tabs : Buffered(t, l)
    BY <1>4, <1>5 DEF Somewhere
  <2>2. \A t \in Tabs : lg[t].pending \in Seq(Line)
    BY Types DEF LoggerInv, Logger
  <2>3. \A t \in Tabs : Buffered(t, l) => l \in ToSet(lg[t].pending)
    BY <2>2 DEF Buffered, In, ToSet
  <2> QED BY <2>1, <2>3, Zenon DEF StoredIn
<1> DEFINE stored == UNION {{e.line : e \in db[s]} : s \in Sessions}
           buffered == UNION {ToSet(lg[t].pending) : t \in Tabs}
<1>8. \A s \in Sessions : \A e \in db[s] : e.line \in stored
  OBVIOUS
<1>9. \A t \in Tabs : ToSet(lg[t].pending) \subseteq buffered
  OBVIOUS
<1> HIDE DEF stored, buffered
<1>10. 1 .. Len(lines) \subseteq gone \cup stored \cup buffered
  BY <1>7, <1>8, <1>9
<1> QED BY <1>6, <1>10, Zenon DEF stored, buffered

\* Reads, flushes and clears are answered what they promise, for any tabs,
\* sessions and calls, whatever interleaves and fails: what was emitted before
\* them was read, written or cleared, or is gone. (getLogs, flush, clearLogs.)
THEOREM AnswersAreKept == Spec => []AnswersHold
<1>1. LoggerInv => AnswersHold
  BY AnswersFit
<1> QED BY <1>1, LoggerSteps, PTL

\* Once nothing is under way every call was answered and every line is stored,
\* gone or buffered. (enqueue's chain goes on after a failure; getLogs' finally
\* answers whoever joined the read.)
THEOREM NothingForgotten == Spec => []NothingIsForgotten
<1>1. LoggerInv => NothingIsForgotten
  BY NobodyIsForgotten
<1> QED BY <1>1, LoggerSteps, PTL
=============================================================================
