-------------------------- MODULE LogReporterProofs --------------------------
(***************************************************************************)
(* The safety properties of LogReporter, and that it implements            *)
(* LogDelivery, for any callers, policies and numbers of attempts, lines   *)
(* and bytes.                                                              *)
(***************************************************************************)
EXTENDS LogReporter, SequenceTheorems, TLAPS

Delivering == {"take", "send", "fail"}
InFlight   == \E t \in Tasks : pc[t] \in {"send", "fail"}

RequestType == [first : Nat \ {0}, last : Nat, key : Nat]

\* The types of the buffer, of the tasks and of the control plane.
BufferTypes ==
    /\ log_bounds \in LogBounds
    /\ ends \in Seq(Nat) /\ drained \in 0..Len(ends)
    /\ pending_bytes \in Nat /\ bytes_sent \in Nat /\ delivery_stopped \in BOOLEAN

TaskTypes ==
    /\ flush_scheduled \in BOOLEAN /\ dropped \in BOOLEAN
    /\ flush_lock \in Tasks \union {None} /\ pc \in [Tasks -> Steps]
    /\ unpolled \subseteq Execution
    /\ attempt \in 0..(MaxAttempts - 1)

ServerTypes ==
    /\ batch \in [first : Nat \ {0}, last : Nat]
    /\ late \subseteq RequestType
    /\ stored \in Seq(Nat) /\ keys \subseteq Nat /\ lost \subseteq Nat

\* flush_lock is held by the one task that delivers; one flush task sleeps
\* while the flag is up.
TaskInv ==
    /\ \A t \in Tasks : pc[t] \in Delivering <=> flush_lock = t
    /\ flush_scheduled <=> \E t \in Timers : pc[t] = "sleep"
    /\ \A t, u \in Timers : pc[t] = "sleep" /\ pc[u] = "sleep" => t = u
    /\ NoLineStranded

\* The counters are exact, and a stopped reporter has nothing buffered.
BufferInv ==
    /\ bytes_sent = Offset(Len(ends)) /\ \A n \in 1..Len(ends) : ends[n] <= bytes_sent
    /\ log_bounds.max_total_bytes # None => bytes_sent <= log_bounds.max_total_bytes
    /\ delivery_stopped => drained = Len(ends)
    /\ pending_bytes = Bytes(drained + 1, Len(ends))
    /\ batch.last <= drained
    /\ batch.last <= batch.first \/ /\ batch.last + 1 - batch.first <= batch_max_lines
                                    /\ Bytes(batch.first, batch.last) <= MaxBatchBytes

\* A batch was taken from the front of the buffer.
Taken(r) == r.first <= r.last /\ r.last <= drained

\* Requests with one key carry the same lines, others have none in common.
Apart(r, s) ==
    IF r.first = s.first THEN r.last = s.last ELSE r.last < s.first \/ s.last < r.first

\* A key was seen if and only if the lines of its request are stored.
Settled(r) ==
    IF r.first \in keys THEN \A n \in r.first..r.last : n \in Range(stored)
                        ELSE \A n \in r.first..r.last : n \notin Range(stored)

\* What is at the control plane or on its way there.
ServerInv ==
    /\ InFlight => batch.first <= batch.last /\ batch.last = drained
    /\ keys \subseteq 1..drained
    /\ Range(stored) \subseteq 1..drained
    /\ \A r \in late : r.key = r.first /\ Taken(r) /\ Settled(r) /\ Apart(r, batch)
    /\ \A r, s \in late : Apart(r, s)
    /\ Settled(batch)

\* Without a lost batch the stored lines are the first ones, up to the current
\* batch or to its end, and only the current batch can still arrive.
PrefixInv ==
    lost = {} =>
       /\ \A i \in 1..Len(stored) : stored[i] = i
       /\ Len(stored) = IF batch.first \in keys THEN batch.last ELSE batch.first - 1
       /\ \A r \in late : r.first \in keys \/ r.first = batch.first
       /\ ~delivery_stopped /\ ~InFlight => Len(stored) = drained

\* Every line that left the buffer is stored, lost, or in the current batch.
BarrierInv ==
    ~delivery_stopped =>
       \A n \in 1..drained : \/ n \in Range(stored) \/ n \in lost
                             \/ InFlight /\ n \in batch.first..batch.last

IInv ==
    /\ BufferTypes /\ TaskTypes /\ ServerTypes
    /\ TaskInv /\ BufferInv /\ ServerInv /\ PrefixInv /\ BarrierInv

------------------------------------------------------------------------------
(* Operators. *)

\* What storing the lines m to n makes of the stored ones.
LEMMA AppendLines ==
    ASSUME NEW s \in Seq(Nat), NEW m \in Nat \ {0}, NEW n \in Nat, m <= n
    PROVE  LET q == s \o Lines(m, n)
           IN /\ q \in Seq(Nat) /\ Len(q) = Len(s) + n + 1 - m
              /\ \A i \in 1..Len(s) : q[i] = s[i]
              /\ \A i \in Len(s) + 1..Len(q) : q[i] = m + (i - Len(s)) - 1
              /\ Range(q) = Range(s) \union m..n
  <1> DEFINE l == Lines(m, n)
             q == s \o l
  <1>1. l \in Seq(Nat) /\ Len(l) = n + 1 - m /\ \A i \in 1..Len(l) : l[i] = m + i - 1
    <2> n + 1 - m \in Nat
      OBVIOUS
    <2> QED
      BY DEF Lines
  <1> HIDE DEF l
  <1>2. /\ q \in Seq(Nat) /\ Len(q) = Len(s) + Len(l)
        /\ \A i \in 1..Len(s) : q[i] = s[i]
        /\ \A i \in Len(s) + 1..Len(q) : q[i] = l[i - Len(s)]
    <2>1. /\ q \in Seq(Nat) /\ Len(q) = Len(s) + Len(l)
          /\ \A i \in 1..Len(q) : q[i] = IF i <= Len(s) THEN s[i] ELSE l[i - Len(s)]
      BY <1>1, ConcatProperties
    <2>2. Len(s) \in Nat /\ Len(l) \in Nat
      BY <1>1
    <2> QED
      BY <2>1, <2>2
  <1> DEFINE a == Len(s)
             b == Len(q)
  <1>3. a \in Nat /\ b = a + n + 1 - m
    BY <1>1, <1>2
  <1>4. \A i \in a + 1..b : q[i] = m + (i - a) - 1
    <2> SUFFICES ASSUME NEW i \in a + 1..b PROVE q[i] = m + (i - a) - 1
      OBVIOUS
    <2>1. q[i] = l[i - a] /\ i - a \in 1..Len(l)
      BY <1>1, <1>2, <1>3
    <2> QED
      BY <2>1, <1>1
  <1>5. DOMAIN q = 1..b /\ DOMAIN s = 1..a /\ \A i \in 1..a : q[i] = s[i]
    BY <1>2
  <1> HIDE DEF q, a, b
  <1>6. Range(s) \subseteq Range(q)
    <2> SUFFICES ASSUME NEW i \in 1..a PROVE \E j \in 1..b : q[j] = s[i]
      BY <1>5 DEF Range
    <2>1. i \in 1..b
      BY <1>3
    <2> QED
      BY <2>1, <1>5
  <1>7. ASSUME NEW k \in m..n PROVE k \in Range(q)
    <2> DEFINE j == a + (k + 1 - m)
    <2>1. j \in a + 1..b /\ j \in 1..b /\ m + (j - a) - 1 = k
      BY <1>3
    <2>2. q[j] = k
      BY <2>1, <1>4
    <2> QED
      BY <2>1, <2>2, <1>5 DEF Range
  <1>8. ASSUME NEW j \in 1..b PROVE q[j] \in Range(s) \union m..n
    <2>1. CASE j \in 1..a
      BY <2>1, <1>5 DEF Range
    <2>2. CASE j \in a + 1..b
      <3>1. q[j] = m + (j - a) - 1
        BY <2>2, <1>4
      <3> QED
        BY <3>1, <2>2, <1>3
    <2> QED
      BY <2>1, <2>2, <1>3
  <1>9. Range(q) \subseteq Range(s) \union m..n
    BY <1>8, <1>5 DEF Range
  <1>10. Range(q) = Range(s) \union m..n
    BY <1>6, <1>7, <1>9
  <1> QED
    BY <1>2, <1>3, <1>4, <1>5, <1>10 DEF q, a, b, l

\* An accepted line is not empty and fits what is left of the budget.
LEMMA BoundedLog ==
    ASSUME BufferTypes, NEW len \in Nat, NEW kept \in bounded_log(len),
           log_bounds.max_total_bytes # None => bytes_sent <= log_bounds.max_total_bytes
    PROVE  /\ kept \in Nat
           /\ log_bounds.max_total_bytes # None => bytes_sent + kept <= log_bounds.max_total_bytes
  <1> DEFINE maximum == log_bounds.max_total_bytes
             cut == truncate_utf8(len, log_bounds.max_line_length)
  <1>1. maximum \in Nat \union {None} /\ log_bounds.max_line_length \in Nat \union {None}
    BY ReporterAssumption DEF BufferTypes
  <1>2. ASSUME NEW l \in Nat, NEW m \in Nat \union {None}
        PROVE  /\ truncate_utf8(l, m) \subseteq Nat
               /\ m # None => \A k \in truncate_utf8(l, m) : k <= m
    BY ReporterAssumption DEF truncate_utf8
  <1>3. cut \subseteq Nat
    BY <1>1, <1>2
  <1>4. log_bounds.max_batch_lines # 0
    BY DEF bounded_log
  <1> HIDE DEF cut
  <1>5. CASE maximum = None
    BY <1>3, <1>4, <1>5 DEF bounded_log, cut
  <1>6. CASE maximum # None
    <2>1. ~(bytes_sent >= maximum)
      BY <1>4, <1>6 DEF bounded_log
    <2>2. maximum - bytes_sent \in Nat
      BY <1>1, <1>6, <2>1 DEF BufferTypes
    <2>3. PICK k \in cut : kept \in truncate_utf8(k, maximum - bytes_sent)
      BY <1>4, <1>6, <2>1 DEF bounded_log, cut
    <2>4. kept \in Nat /\ kept <= maximum - bytes_sent
      <3>1. maximum - bytes_sent # None
        BY <2>2, ReporterAssumption
      <3> QED
        BY <1>2, <1>3, <2>2, <2>3, <3>1
    <2> QED
      BY <1>1, <1>6, <2>4 DEF BufferTypes
  <1> QED
    BY <1>5, <1>6

\* Storing a request whose lines are settled settles them, and leaves those of
\* every request apart from it as they are.
LEMMA StoreProperties ==
    ASSUME ServerTypes, NEW r \in RequestType, r.key = r.first, r.first <= r.last,
           Settled(r), Store(r)
    PROVE  /\ stored' \in Seq(Nat) /\ keys' = keys \union {r.first}
           /\ Range(stored') = Range(stored) \union r.first..r.last
           /\ \A s : s.first \in Nat /\ s.last \in Nat /\ Settled(s) /\ Apart(r, s) => Settled(s)'
           /\ r.first \in keys => stored' = stored
           /\ r.first \notin keys /\ Len(stored) = r.first - 1
              /\ (\A i \in 1..Len(stored) : stored[i] = i)
              => Len(stored') = r.last /\ \A i \in 1..Len(stored') : stored'[i] = i
  <1>1. r.first \in Nat \ {0} /\ r.last \in Nat
    BY DEF RequestType
  <1>2. CASE r.first \in keys
    <2>1. stored' = stored /\ keys' = keys
      BY <1>2 DEF Store
    <2>2. r.first..r.last \subseteq Range(stored)
      BY <1>2 DEF Settled
    <2> QED
      BY <1>2, <2>1, <2>2 DEF ServerTypes, Settled
  <1>3. CASE r.first \notin keys
    <2>1. stored' = stored \o Lines(r.first, r.last) /\ keys' = keys \union {r.first}
      BY <1>3 DEF Store
    <2>2. /\ stored' \in Seq(Nat) /\ Len(stored') = Len(stored) + r.last + 1 - r.first
          /\ \A i \in 1..Len(stored) : stored'[i] = stored[i]
          /\ \A i \in Len(stored) + 1..Len(stored') : stored'[i] = r.first + (i - Len(stored)) - 1
          /\ Range(stored') = Range(stored) \union r.first..r.last
      <3>1. stored \in Seq(Nat)
        BY DEF ServerTypes
      <3> DEFINE q == stored \o Lines(r.first, r.last)
      <3>2. /\ q \in Seq(Nat) /\ Len(q) = Len(stored) + r.last + 1 - r.first
            /\ \A i \in 1..Len(stored) : q[i] = stored[i]
            /\ \A i \in Len(stored) + 1..Len(q) : q[i] = r.first + (i - Len(stored)) - 1
            /\ Range(q) = Range(stored) \union r.first..r.last
        BY <1>1, <3>1, AppendLines, ZenonT(30)
      <3>3. stored' = q
        BY <2>1
      <3> HIDE DEF q
      <3> QED
        BY <3>2, <3>3, Zenon
    <2>3. ASSUME NEW s, s.first \in Nat, s.last \in Nat, Settled(s), Apart(r, s)
          PROVE  Settled(s)'
      <3>1. CASE s.first = r.first
        BY <1>1, <2>1, <2>2, <2>3, <3>1 DEF Settled, Apart
      <3>2. CASE s.first # r.first
        BY <1>1, <2>1, <2>2, <2>3, <3>2 DEF Settled, Apart
      <3> QED
        BY <3>1, <3>2
    <2>4. ASSUME Len(stored) = r.first - 1, \A i \in 1..Len(stored) : stored[i] = i
          PROVE  Len(stored') = r.last /\ \A i \in 1..Len(stored') : stored'[i] = i
      <3>1. Len(stored) \in Nat
        BY DEF ServerTypes
      <3> DEFINE a == Len(stored)
                 b == Len(stored')
      <3>4. /\ a \in Nat /\ a = r.first - 1 /\ b = a + r.last + 1 - r.first
            /\ \A i \in 1..a : stored'[i] = stored[i] /\ stored[i] = i
            /\ \A i \in a + 1..b : stored'[i] = r.first + (i - a) - 1
        BY <2>2, <2>4, <3>1, Zenon
      <3> HIDE DEF a, b
      <3>2. /\ a \in Nat /\ a = r.first - 1 /\ b = r.last
            /\ \A i \in 1..a : stored'[i] = i
            /\ \A i \in a + 1..b : stored'[i] = r.first + (i - a) - 1
        BY <1>1, <3>4
      <3>3. \A i \in 1..b : stored'[i] = i
        BY <1>1, <3>2
      <3> QED
        BY <3>2, <3>3 DEF a, b
    <2> QED
      BY <1>3, <2>1, <2>2, <2>3, <2>4
  <1> QED
    BY <1>2, <1>3

------------------------------------------------------------------------------
(* The tasks. *)

\* The holder of flush_lock is the only task that delivers.
LEMMA Alone ==
    ASSUME IInv, NEW t \in Tasks, pc[t] \in Delivering
    PROVE  /\ flush_lock = t /\ \A u \in Tasks \ {t} : pc[u] \notin Delivering
           /\ InFlight <=> pc[t] \in {"send", "fail"}
  BY DEF IInv, TaskInv, Delivering, InFlight

\* A task other than a writer that schedules a flush.
LEMMA Moved ==
    ASSUME TaskTypes, NEW t \in Tasks, NEW step \in Steps, Goto(t, step)
    PROVE  /\ pc' \in [Tasks -> Steps] /\ pc'[t] = step
           /\ \A u \in Tasks \ {t} : pc'[u] = pc[u]
  BY DEF TaskTypes, Goto

\* What the buffer and the tasks look like at first.
LEMMA InitInv == Init => IInv
  <1> SUFFICES ASSUME Init PROVE IInv
    OBVIOUS
  <1>1. BufferTypes /\ TaskTypes /\ ServerTypes
    <2>1. BufferTypes
      <3>1. ends \in Seq(Nat) /\ Len(ends) = 0
        BY DEF Init
      <3>2. drained \in 0..Len(ends)
        BY <3>1 DEF Init
      <3> QED
        BY <3>1, <3>2 DEF Init, BufferTypes
    <2>2. TaskTypes
      <3>1. pc \in [Tasks -> Steps]
        BY DEF Init, Steps
      <3>2. attempt \in 0..(MaxAttempts - 1)
        BY ReporterAssumption DEF Init
      <3> QED
        BY <3>1, <3>2 DEF Init, TaskTypes
    <2>3. ServerTypes
      BY DEF Init, ServerTypes
    <2> QED
      BY <2>1, <2>2, <2>3
  <1>2. TaskInv
    BY ReporterAssumption DEF Init, TaskInv, Delivering, NoLineStranded, Pending, Tasks
  <1>3. Len(ends) = 0 /\ Range(stored) = {} /\ Len(stored) = 0
    BY DEF Init, Range
  <1>4. BufferInv
    BY <1>1, <1>3, ReporterAssumption DEF Init, BufferInv, BufferTypes, Offset, Bytes
  <1>5. ServerInv /\ PrefixInv /\ BarrierInv
    BY <1>3 DEF Init, ServerInv, PrefixInv, BarrierInv, InFlight, Settled
  <1> QED
    BY <1>1, <1>2, <1>4, <1>5 DEF IInv

\* Every step keeps the invariants of the tasks.
LEMMA TaskStep ==
    ASSUME IInv, Next
    PROVE  TaskTypes' /\ TaskInv'
  <1> USE DEF bufferVars, serverVars, history
  <1>1. BufferTypes /\ TaskTypes /\ TaskInv
    BY DEF IInv
  <1>2. ASSUME NEW w \in Writers, Log(w) PROVE TaskTypes' /\ TaskInv'
    <2>1. \E step \in {"lock", "schedule"} : Goto(w, step)
      BY <1>2 DEF Log
    <2>2. w \in Tasks /\ pc[w] = "idle"
      BY <1>2 DEF Log, Tasks
    <2> QED
      BY <1>1, <1>2, <2>1, <2>2, ReporterAssumption
      DEF Log, Goto, TaskTypes, TaskInv, NoLineStranded, Delivering, Steps
  <1>3. ASSUME NEW w \in Writers, ScheduleFlush(w) PROVE TaskTypes' /\ TaskInv'
    <2>1. w \in Tasks /\ w \notin Timers /\ Timers \subseteq Tasks
      BY ReporterAssumption DEF Tasks
    <2>2. CASE flush_scheduled
      BY <1>1, <1>3, <2>1, <2>2
      DEF ScheduleFlush, Goto, TaskTypes, TaskInv, NoLineStranded, Pending, Delivering, Steps
    <2>3. CASE ~flush_scheduled
      BY <1>1, <1>3, <2>1, <2>3
      DEF ScheduleFlush, Goto, TaskTypes, TaskInv, NoLineStranded, Pending, Delivering, Steps
    <2> QED
      BY <2>2, <2>3
  <1>4. ASSUME NEW t \in Timers, Wake(t) PROVE TaskTypes' /\ TaskInv'
    <2>1. t \in Tasks /\ Timers \subseteq Tasks
      BY DEF Tasks
    <2> QED
      BY <1>1, <1>4, <2>1
      DEF Wake, Goto, TaskTypes, TaskInv, NoLineStranded, Pending, Delivering, Steps
  <1>5. CASE Flush
    <2>1. Processor \in Tasks
      BY DEF Tasks
    <2> QED
      BY <1>1, <1>5, <2>1
      DEF Flush, Goto, TaskTypes, TaskInv, NoLineStranded, Pending, Delivering, Steps
  <1>6. ASSUME NEW t \in Tasks, Acquire(t) PROVE TaskTypes' /\ TaskInv'
    BY <1>1, <1>6, ReporterAssumption
    DEF Acquire, Goto, TaskTypes, TaskInv, NoLineStranded, Pending, Delivering, Steps
  <1>7. ASSUME NEW t \in Tasks, Take(t) PROVE TaskTypes' /\ TaskInv'
    BY <1>1, <1>7, ReporterAssumption
    DEF Take, Goto, TaskTypes, TaskInv, NoLineStranded, Delivering, Steps
  <1>8. ASSUME NEW t \in Tasks, Return(t) PROVE TaskTypes' /\ TaskInv'
    <2>1. Pending = {}
      BY <1>8 DEF Return, IInv, BufferInv, Pending, BufferTypes
    <2> QED
      BY <1>1, <1>8, <2>1, ReporterAssumption
      DEF Return, Goto, TaskTypes, TaskInv, NoLineStranded, Pending, Delivering, Steps
  <1>9. ASSUME NEW t \in Tasks, Stop(t) PROVE TaskTypes' /\ TaskInv'
    <2>1. Pending' = {}
      BY <1>1, <1>9 DEF Stop, Pending, BufferTypes
    <2> QED
      BY <1>1, <1>9, <2>1, ReporterAssumption
      DEF Stop, Goto, TaskTypes, TaskInv, NoLineStranded, Delivering, Steps
  <1>10. ASSUME NEW t \in Tasks, Answer(t) PROVE TaskTypes' /\ TaskInv'
    <2>1. /\ pc[t] = "send"
          /\ UNCHANGED <<ends, drained, flush_scheduled, flush_lock, dropped, unpolled>>
          /\ pc' = pc \/ \E step \in {"take", "fail"} : Goto(t, step)
          /\ attempt' \in 0..(MaxAttempts - 1)
      BY <1>1, <1>10, ReporterAssumption
      DEF Answer, Acknowledged, AnswerLost, RequestLost, Rejected, Retry, TaskTypes
    <2>2. CASE pc' = pc
      BY <1>1, <2>1, <2>2
      DEF TaskTypes, TaskInv, NoLineStranded, Pending, Delivering
    <2>3. ASSUME NEW step \in {"take", "fail"}, Goto(t, step) PROVE TaskTypes' /\ TaskInv'
      BY <1>1, <2>1, <2>3
      DEF Goto, TaskTypes, TaskInv, NoLineStranded, Pending, Delivering, Steps
    <2> QED
      BY <2>1, <2>2, <2>3
  <1>11. ASSUME NEW t \in Tasks \ Timers, Drop(t) PROVE TaskTypes' /\ TaskInv'
    BY <1>1, <1>11, ReporterAssumption
    DEF Drop, Goto, TaskTypes, TaskInv, NoLineStranded, Delivering, Steps
  <1>12. ASSUME NEW r \in late, ArrivesLate(r) PROVE TaskTypes' /\ TaskInv'
    BY <1>1, <1>12 DEF ArrivesLate, TaskTypes, TaskInv, NoLineStranded, Pending
  <1>13. ASSUME NEW w \in Execution, Suspend(w) PROVE TaskTypes' /\ TaskInv'
    BY <1>1, <1>13 DEF Suspend, TaskTypes, TaskInv, NoLineStranded, Pending
  <1> QED
    BY <1>2, <1>3, <1>4, <1>5, <1>6, <1>7, <1>8, <1>9, <1>10, <1>11, <1>12, <1>13 DEF Next, FlushStep

------------------------------------------------------------------------------
(* The buffer. *)

\* Accepting a line leaves the offsets of the earlier ones alone.
LEMMA LogBuffer ==
    ASSUME BufferTypes, BufferInv, batch \in [first : Nat \ {0}, last : Nat],
           NEW w \in Writers, Log(w)
    PROVE  BufferTypes' /\ BufferInv'
  <1>1. PICK len \in 0..MaxSize : \E kept \in bounded_log(len) :
              /\ ends' = Append(ends, bytes_sent + kept)
              /\ bytes_sent' = bytes_sent + kept
              /\ pending_bytes' = pending_bytes + kept
    BY DEF Log
  <1>2. PICK kept \in bounded_log(len) :
              /\ ends' = Append(ends, bytes_sent + kept)
              /\ bytes_sent' = bytes_sent + kept
              /\ pending_bytes' = pending_bytes + kept
    BY <1>1
  <1>3. len \in Nat
    BY ReporterAssumption
  <1>4. /\ kept \in Nat
        /\ log_bounds.max_total_bytes # None => bytes_sent + kept <= log_bounds.max_total_bytes
    BY <1>3, BoundedLog DEF BufferInv
  <1>5. UNCHANGED <<log_bounds, drained, delivery_stopped, batch>> /\ ~delivery_stopped
    BY DEF Log
  <1> DEFINE k == Len(ends)
  <1>6. /\ ends' \in Seq(Nat) /\ Len(ends') = k + 1 /\ ends'[k + 1] = bytes_sent'
        /\ \A n \in 1..k : ends'[n] = ends[n]
    BY <1>2, <1>4 DEF BufferTypes
  <1>7. k \in Nat
    BY DEF BufferTypes
  <1> HIDE DEF k
  <1>8. /\ drained \in 0..k /\ pending_bytes \in Nat /\ bytes_sent \in Nat
        /\ bytes_sent = Offset(k) /\ \A n \in 1..k : ends[n] \in Nat /\ ends[n] <= bytes_sent
        /\ pending_bytes = Offset(k) - Offset(drained)
        /\ batch.last <= drained /\ batch.last \in Nat /\ batch.first \in Nat \ {0}
        /\ batch.last <= batch.first \/ /\ batch.last + 1 - batch.first <= batch_max_lines
                                        /\ Bytes(batch.first, batch.last) <= MaxBatchBytes
    <2>1. drained + 1 - 1 = drained
      BY DEF BufferTypes
    <2> QED
      BY <2>1 DEF BufferTypes, BufferInv, Bytes, k
  <1>9. \A n \in 0..k : Offset(n)' = Offset(n)
    BY <1>6, <1>7 DEF Offset
  <1>10. BufferTypes'
    <2>1. drained' \in 0..Len(ends')
      BY <1>5, <1>6, <1>7, <1>8
    <2> QED
      BY <1>2, <1>4, <1>5, <1>6, <1>8, <2>1 DEF BufferTypes
  <1>11. bytes_sent' = bytes_sent + kept /\ pending_bytes' = pending_bytes + kept
    BY <1>2
  <1>12. bytes_sent' = Offset(Len(ends))' /\ \A n \in 1..k + 1 : ends'[n] <= bytes_sent'
    <2>1. bytes_sent' = Offset(Len(ends))'
      BY <1>6, <1>7 DEF Offset
    <2>2. \A n \in 1..k : ends'[n] <= bytes_sent'
      <3> SUFFICES ASSUME NEW n \in 1..k PROVE ends'[n] <= bytes_sent'
        OBVIOUS
      <3>1. ends'[n] = ends[n] /\ ends[n] <= bytes_sent /\ ends[n] \in Nat
        BY <1>6, <1>8
      <3> QED
        BY <3>1, <1>4, <1>8, <1>11
    <2>3. ends'[k + 1] <= bytes_sent'
      BY <1>4, <1>6, <1>8, <1>11
    <2> QED
      BY <1>7, <2>1, <2>2, <2>3
  <1>13. pending_bytes' = Bytes(drained + 1, Len(ends))'
    <2>1. Bytes(drained + 1, Len(ends))' = Offset(Len(ends))' - Offset(drained)'
      BY <1>5, <1>8 DEF Bytes
    <2>2. Offset(drained)' = Offset(drained) /\ Offset(Len(ends))' = bytes_sent + kept
      BY <1>11, <1>5, <1>8, <1>9, <1>12 DEF Offset
    <2>3. Offset(drained) \in Nat
      BY <1>8 DEF Offset, BufferTypes, k
    <2> QED
      BY <1>11, <1>4, <1>8, <2>1, <2>2, <2>3
  <1>14. \/ batch'.last <= batch'.first
         \/ /\ batch'.last + 1 - batch'.first <= batch_max_lines'
            /\ Bytes(batch.first, batch.last)' <= MaxBatchBytes
    <2>1. CASE batch.last <= batch.first
      BY <2>1, <1>5
    <2>2. CASE ~(batch.last <= batch.first)
      <3>1. batch.last \in 0..k /\ batch.first - 1 \in 0..k
        BY <1>7, <1>8, <2>2
      <3>2. Bytes(batch.first, batch.last)' = Bytes(batch.first, batch.last)
        BY <1>5, <1>9, <3>1 DEF Bytes, Offset
      <3> QED
        BY <1>5, <1>8, <2>2, <3>2 DEF batch_max_lines
    <2> QED
      BY <2>1, <2>2
  <1> QED
    BY <1>4, <1>5, <1>6, <1>8, <1>10, <1>11, <1>12, <1>13, <1>14 DEF BufferInv

\* A batch leaves the front of the buffer with its bytes.
LEMMA TakeBuffer ==
    ASSUME BufferTypes, BufferInv, NEW t \in Tasks, Take(t)
    PROVE  BufferTypes' /\ BufferInv'
  <1>1. PICK last \in Pending :
              /\ Fits(last)
              /\ batch' = [first |-> drained + 1, last |-> last]
              /\ pending_bytes' = SaturatingSub(pending_bytes, Bytes(drained + 1, last))
              /\ drained' = last
    BY DEF Take
  <1>2. UNCHANGED <<log_bounds, ends, bytes_sent, delivery_stopped>> /\ ~delivery_stopped
    BY DEF Take
  <1> DEFINE k == Len(ends)
             before == Offset(drained)
             upto == Offset(last)
  <1>3. k \in Nat /\ drained \in 0..k /\ last \in drained + 1..k
    BY DEF BufferTypes, Pending
  <1>4. /\ pending_bytes = bytes_sent - before /\ bytes_sent \in Nat /\ pending_bytes \in Nat
        /\ Bytes(drained + 1, last) = upto - before
    <2>1. drained + 1 - 1 = drained
      BY <1>3
    <2> QED
      BY <2>1 DEF BufferTypes, BufferInv, Bytes
  <1>5. before \in Nat /\ upto \in Nat /\ upto <= bytes_sent
    <2>1. last \in 1..k /\ last # 0 /\ (drained # 0 => drained \in 1..k)
      BY <1>3
    <2>2. \A n \in 1..k : ends[n] \in Nat /\ ends[n] <= bytes_sent
      BY DEF BufferTypes, BufferInv
    <2> QED
      BY <2>1, <2>2 DEF Offset
  <1>6. pending_bytes' = bytes_sent - upto /\ pending_bytes' \in Nat
    <2> HIDE DEF before, upto
    <2>1. pending_bytes' = SaturatingSub(bytes_sent - before, upto - before)
      BY <1>1, <1>4
    <2> QED
      BY <1>4, <1>5, <2>1 DEF SaturatingSub
  <1>7. BufferTypes'
    BY <1>1, <1>2, <1>3, <1>6 DEF BufferTypes
  <1>8. pending_bytes' = Bytes(drained + 1, Len(ends))'
    <2>2. Bytes(drained + 1, Len(ends))' = Offset(Len(ends)) - Offset(last)
      <3>1. Offset(Len(ends))' = Offset(Len(ends)) /\ Offset(drained)' = Offset(last)
        BY <1>1, <1>2 DEF Offset
      <3>2. Bytes(drained + 1, Len(ends))' = Offset(Len(ends))' - Offset(drained)'
        BY <1>1, <1>3 DEF Bytes
      <3> QED
        BY <3>1, <3>2
    <2> QED
      BY <1>6, <2>2 DEF BufferInv
  <1>9. \/ batch'.last <= batch'.first
        \/ /\ batch'.last + 1 - batch'.first <= batch_max_lines'
           /\ Bytes(batch.first, batch.last)' <= MaxBatchBytes
    <2>1. batch'.first = drained + 1 /\ batch'.last = last
      BY <1>1
    <2>2. CASE last = drained + 1
      BY <1>3, <2>1, <2>2
    <2>3. CASE last - drained <= batch_max_lines /\ Bytes(drained + 1, last) <= MaxBatchBytes
      <3>1. batch_max_lines' = batch_max_lines
        BY <1>2 DEF batch_max_lines
      <3>2. last + 1 - (drained + 1) = last - drained
        BY <1>3
      <3>3. Bytes(batch.first, batch.last)' = Bytes(drained + 1, last)
        BY <1>2, <2>1 DEF Bytes, Offset
      <3> QED
        BY <2>1, <2>3, <3>1, <3>2, <3>3
    <2> QED
      BY <1>1, <2>2, <2>3 DEF Fits
  <1> QED
    BY <1>1, <1>2, <1>3, <1>7, <1>8, <1>9 DEF BufferInv, Offset

\* Every step keeps the invariants of the buffer.
LEMMA BufferStep ==
    ASSUME IInv, Next
    PROVE  BufferTypes' /\ BufferInv'
  <1> USE DEF bufferVars, serverVars, history
  <1>1. BufferTypes /\ BufferInv /\ batch \in [first : Nat \ {0}, last : Nat]
    BY DEF IInv, ServerTypes
  <1>2. ASSUME UNCHANGED <<log_bounds, ends, drained, pending_bytes, bytes_sent,
                           delivery_stopped, batch>>
        PROVE  BufferTypes' /\ BufferInv'
    BY <1>1, <1>2 DEF BufferTypes, BufferInv, Bytes, Offset, batch_max_lines
  <1>3. ASSUME NEW w \in Writers, Log(w) PROVE BufferTypes' /\ BufferInv'
    BY <1>1, <1>3, LogBuffer
  <1>4. ASSUME NEW w \in Writers, ScheduleFlush(w) PROVE BufferTypes' /\ BufferInv'
    BY <1>2, <1>4 DEF ScheduleFlush
  <1>5. ASSUME NEW t \in Timers, Wake(t) PROVE BufferTypes' /\ BufferInv'
    BY <1>2, <1>5 DEF Wake
  <1>6. ASSUME Flush PROVE BufferTypes' /\ BufferInv'
    BY <1>2, <1>6 DEF Flush
  <1>7. ASSUME NEW t \in Tasks, Acquire(t) \/ Return(t) PROVE BufferTypes' /\ BufferInv'
    BY <1>2, <1>7 DEF Acquire, Return
  <1>8. ASSUME NEW t \in Tasks, Take(t) PROVE BufferTypes' /\ BufferInv'
    BY <1>1, <1>8, TakeBuffer
  <1>9. ASSUME NEW t \in Tasks, Stop(t) PROVE BufferTypes' /\ BufferInv'
    <2> DEFINE k == Len(ends)
    <2>1. k \in Nat /\ drained \in 0..k /\ k + 1 - 1 = k /\ batch.last <= k /\ Offset(k) \in Nat
      BY <1>1 DEF BufferTypes, BufferInv
    <2>2. UNCHANGED <<log_bounds, ends, bytes_sent, batch>> /\ drained' = k /\ pending_bytes' = 0
          /\ delivery_stopped' = TRUE
      BY <1>9 DEF Stop
    <2>3. BufferTypes'
      BY <1>1, <2>1, <2>2 DEF BufferTypes
    <2>4. Bytes(drained + 1, Len(ends))' = Offset(k) - Offset(k)
      BY <2>1, <2>2 DEF Bytes, Offset
    <2> QED
      BY <1>1, <2>1, <2>2, <2>3, <2>4 DEF BufferInv, Bytes, Offset, batch_max_lines
  <1>10. ASSUME NEW t \in Tasks, Answer(t) PROVE BufferTypes' /\ BufferInv'
    BY <1>2, <1>10 DEF Answer, Acknowledged, AnswerLost, RequestLost, Rejected
  <1>11. ASSUME NEW t \in Tasks \ Timers, Drop(t) PROVE BufferTypes' /\ BufferInv'
    BY <1>2, <1>11 DEF Drop
  <1>12. ASSUME NEW r \in late, ArrivesLate(r) PROVE BufferTypes' /\ BufferInv'
    BY <1>2, <1>12 DEF ArrivesLate
  <1>13. ASSUME NEW w \in Execution, Suspend(w) PROVE BufferTypes' /\ BufferInv'
    BY <1>2, <1>13 DEF Suspend
  <1> QED
    BY <1>3, <1>4, <1>5, <1>6, <1>7, <1>8, <1>9, <1>10, <1>11, <1>12, <1>13 DEF Next, FlushStep

------------------------------------------------------------------------------
(* The control plane. *)

Server == ServerTypes /\ ServerInv /\ PrefixInv /\ BarrierInv

\* A request may be stored: its lines were taken, and no other request shares
\* some of them only.
Storable(r) ==
    /\ r \in RequestType /\ r.key = r.first /\ Taken(r) /\ Settled(r) /\ Apart(r, batch)
    /\ \A s \in late : Apart(r, s)
    /\ lost = {} => r.first \in keys \/ r.first = batch.first

\* The current request and the late ones may be stored.
LEMMA StorableRequests ==
    ASSUME IInv
    PROVE  /\ InFlight => Storable(Request)
           /\ \A r \in late : Storable(r)
  <1>1. ServerTypes /\ ServerInv /\ PrefixInv /\ drained \in Nat
    BY DEF IInv, BufferTypes
  <1>2. batch.first \in Nat \ {0} /\ batch.last \in Nat
    BY <1>1 DEF ServerTypes
  <1>3. ASSUME InFlight PROVE Storable(Request)
    <2>1. Request.first = batch.first /\ Request.last = batch.last /\ Request.key = batch.first
      BY DEF Request, IdempotencyKey
    <2>2. Request \in RequestType
      BY <1>2 DEF Request, RequestType, IdempotencyKey
    <2>3. Taken(Request) /\ Settled(Request) /\ Apart(Request, batch)
      BY <1>1, <1>2, <1>3, <2>1 DEF ServerInv, Taken, Settled, Apart
    <2>4. ASSUME NEW s \in late PROVE Apart(Request, s)
      BY <1>1, <1>2, <2>1 DEF ServerInv, ServerTypes, RequestType, Apart
    <2> QED
      BY <2>1, <2>2, <2>3, <2>4 DEF Storable
  <1>4. ASSUME NEW r \in late PROVE Storable(r)
    BY <1>1 DEF ServerTypes, ServerInv, PrefixInv, Storable
  <1> QED
    BY <1>3, <1>4

\* Nothing is stored; at most the current request is added to the late ones.
LEMMA KeepServer ==
    ASSUME IInv, UNCHANGED <<drained, batch, stored, keys, lost, delivery_stopped>>,
           late' \subseteq late \union {Request}, late' \subseteq late \/ InFlight,
           InFlight' <=> InFlight
    PROVE  Server'
  <1>1. ServerTypes /\ ServerInv /\ PrefixInv /\ BarrierInv
    BY DEF IInv
  <1>2. ASSUME NEW r \in late' PROVE Storable(r)
    BY <1>2, StorableRequests
  <1>3. ASSUME NEW r \in late', NEW s \in late' PROVE Apart(r, s)
    <2>1. CASE s \in late
      BY <1>2, <2>1 DEF Storable
    <2>2. CASE s \notin late
      <3>1. s = Request /\ Apart(r, batch)
        BY <1>2, <2>2 DEF Storable
      <3> QED
        BY <3>1 DEF Apart, Request
    <2> QED
      BY <2>1, <2>2
  <1>4. ServerTypes'
    BY <1>1, <1>2 DEF ServerTypes, Storable
  <1>5. ServerInv'
    BY <1>1, <1>2, <1>3 DEF ServerInv, Storable, Taken, Settled, Apart
  <1>6. PrefixInv'
    BY <1>1, <1>2 DEF PrefixInv, Storable
  <1>7. BarrierInv'
    BY <1>1 DEF BarrierInv
  <1> QED
    BY <1>4, <1>5, <1>6, <1>7 DEF Server

\* A request is stored, or was stored before.
LEMMA StoreServer ==
    ASSUME IInv, UNCHANGED <<drained, batch, lost, delivery_stopped>>, late' \subseteq late,
           NEW r, Storable(r), Store(r),
           InFlight' => InFlight, InFlight /\ ~InFlight' => r.first = batch.first
    PROVE  Server'
  <1>1. /\ ServerTypes /\ ServerInv /\ PrefixInv /\ BarrierInv
        /\ drained \in Nat /\ batch.last <= drained
    BY DEF IInv, BufferTypes, BufferInv
  <1>2. /\ r \in RequestType /\ r.key = r.first /\ r.first <= r.last /\ r.last <= drained
        /\ Settled(r) /\ r.first \in Nat \ {0} /\ r.last \in Nat
        /\ batch.first \in Nat \ {0} /\ batch.last \in Nat
    BY <1>1 DEF Storable, Taken, RequestType, ServerTypes
  <1>3. /\ stored' \in Seq(Nat) /\ keys' = keys \union {r.first}
        /\ Range(stored') = Range(stored) \union r.first..r.last
        /\ \A s : s.first \in Nat /\ s.last \in Nat /\ Settled(s) /\ Apart(r, s) => Settled(s)'
        /\ r.first \in keys => stored' = stored
        /\ r.first \notin keys /\ Len(stored) = r.first - 1
              /\ (\A i \in 1..Len(stored) : stored[i] = i)
              => Len(stored') = r.last /\ \A i \in 1..Len(stored') : stored'[i] = i
    BY <1>1, <1>2, StoreProperties
  <1>4. ServerTypes'
    BY <1>1, <1>2, <1>3 DEF ServerTypes
  <1>5. ServerInv'
    <2>1. InFlight' => batch'.first <= batch'.last /\ batch'.last = drained'
      BY <1>1 DEF ServerInv
    <2>2. keys' \subseteq 1..drained' /\ Range(stored') \subseteq 1..drained'
      <3>1. r.first \in 1..drained /\ r.first..r.last \subseteq 1..drained
        BY <1>1, <1>2
      <3>2. keys \subseteq 1..drained /\ Range(stored) \subseteq 1..drained
        BY <1>1 DEF ServerInv
      <3>3. keys' = keys \union {r.first} /\ Range(stored') = Range(stored) \union r.first..r.last
        BY <1>3
      <3> QED
        BY <3>1, <3>2, <3>3, Zenon
    <2>3. ASSUME NEW s \in late'
          PROVE  s.key = s.first /\ Taken(s)' /\ Settled(s)' /\ Apart(s, batch')
      <3>1. /\ s \in late /\ s.first \in Nat /\ s.last \in Nat /\ s.key = s.first
            /\ Taken(s) /\ Settled(s) /\ Apart(s, batch) /\ Apart(r, s)
        BY <1>1 DEF ServerTypes, ServerInv, RequestType, Storable
      <3> QED
        BY <1>3, <3>1 DEF Taken
    <2>4. Settled(batch)'
      <3>1. Settled(batch) /\ Apart(r, batch)
        BY <1>1 DEF ServerInv, Storable
      <3> QED
        BY <1>2, <1>3, <3>1 DEF Settled
    <2>5. \A s, u \in late' : Apart(s, u)
      BY <1>1 DEF ServerInv
    <2> QED
      BY <2>1, <2>2, <2>3, <2>4, <2>5 DEF ServerInv, Taken, Settled, Apart
  <1>6. PrefixInv'
    <2> SUFFICES ASSUME lost = {} PROVE PrefixInv'
      BY DEF PrefixInv
    <2>1. /\ \A i \in 1..Len(stored) : stored[i] = i
          /\ Len(stored) = IF batch.first \in keys THEN batch.last ELSE batch.first - 1
          /\ \A s \in late : s.first \in keys \/ s.first = batch.first
          /\ ~delivery_stopped /\ ~InFlight => Len(stored) = drained
      BY <1>1 DEF PrefixInv
    <2>2. r.first \in keys \/ r.first = batch.first
      BY DEF Storable
    <2>3. CASE r.first \in keys
      <3>1. stored' = stored /\ keys' = keys
        BY <1>3, <2>3
      <3>2. InFlight /\ ~InFlight' => Len(stored) = drained
        BY <1>1, <2>1, <2>3 DEF ServerInv
      <3> QED
        BY <2>1, <3>1, <3>2 DEF PrefixInv
    <2>4. CASE r.first \notin keys
      <3>1. r.first = batch.first /\ r.last = batch.last
        BY <2>2, <2>4 DEF Storable, Apart
      <3>2. /\ Len(stored') = batch.last /\ batch.first \in keys'
            /\ \A i \in 1..Len(stored') : stored'[i] = i
        BY <1>2, <1>3, <2>1, <2>4, <3>1
      <3>3. ~delivery_stopped /\ ~InFlight => FALSE
        BY <1>1, <1>2, <2>1, <2>4, <3>1
      <3>4. InFlight => batch.last = drained
        BY <1>1 DEF ServerInv
      <3>5. \A s \in late' : s.first \in keys' \/ s.first = batch.first
        BY <1>3, <2>1
      <3> QED
        BY <3>2, <3>3, <3>4, <3>5 DEF PrefixInv
    <2> QED
      BY <2>3, <2>4
  <1>7. BarrierInv'
    <2>1. InFlight /\ ~InFlight' => r.first = batch.first /\ r.last = batch.last
      BY DEF Storable, Apart
    <2> QED
      BY <1>1, <1>2, <1>3, <2>1 DEF BarrierInv
  <1> QED
    BY <1>4, <1>5, <1>6, <1>7 DEF Server

\* The next batch is after everything that was taken before.
LEMMA TakeServer ==
    ASSUME IInv, NEW t \in Tasks, Take(t)
    PROVE  Server'
  <1>1. /\ ServerTypes /\ ServerInv /\ PrefixInv /\ BarrierInv /\ drained \in Nat
        /\ batch.last <= drained /\ batch.first \in Nat \ {0} /\ batch.last \in Nat
    BY DEF IInv, BufferTypes, BufferInv, ServerTypes
  <1>2. PICK last \in Nat : last > drained /\ batch' = [first |-> drained + 1, last |-> last]
                            /\ drained' = last
    BY DEF Take, Pending, IInv, BufferTypes
  <1>3. UNCHANGED <<late, stored, keys, lost, delivery_stopped>> /\ ~delivery_stopped
    BY DEF Take, serverVars, history
  <1>4. ~InFlight
    BY Alone DEF Take, Delivering
  <1>5. InFlight'
    BY DEF Take, Goto, InFlight, IInv, TaskTypes
  <1>6. batch'.first = drained + 1 /\ batch'.last = last
    BY <1>2
  <1>7. drained + 1 \notin keys
    BY <1>1 DEF ServerInv
  <1>8. ServerTypes'
    BY <1>1, <1>2, <1>3 DEF ServerTypes
  <1>9. ServerInv'
    <2>1. Settled(batch)'
      BY <1>1, <1>2, <1>3, <1>6, <1>7 DEF ServerInv, Settled
    <2>2. ASSUME NEW r \in late
          PROVE  r.key = r.first /\ Taken(r)' /\ Settled(r)' /\ Apart(r, batch')
      BY <1>1, <1>2, <1>3, <1>6 DEF ServerInv, ServerTypes, RequestType, Taken, Settled, Apart
    <2>3. keys \subseteq 1..drained' /\ Range(stored) \subseteq 1..drained'
      BY <1>1, <1>2 DEF ServerInv
    <2>4. \A r, s \in late : Apart(r, s)
      BY <1>1 DEF ServerInv
    <2>5. batch'.first <= batch'.last /\ batch'.last = drained'
      BY <1>1, <1>2, <1>6
    <2> QED
      BY <1>3, <2>1, <2>2, <2>3, <2>4, <2>5 DEF ServerInv, Taken, Settled, Apart
  <1>10. PrefixInv'
    <2> SUFFICES ASSUME lost = {} PROVE PrefixInv'
      BY <1>3 DEF PrefixInv
    <2>1. /\ \A i \in 1..Len(stored) : stored[i] = i
          /\ Len(stored) = IF batch.first \in keys THEN batch.last ELSE batch.first - 1
          /\ \A s \in late : s.first \in keys \/ s.first = batch.first
          /\ Len(stored) = drained
      BY <1>1, <1>3, <1>4 DEF PrefixInv
    <2>2. ASSUME NEW r \in late PROVE r.first \in keys
      <3>1. r.first \in Nat /\ r.last \in Nat /\ r.first <= r.last /\ Apart(r, batch)
        BY <1>1 DEF ServerTypes, ServerInv, RequestType, Taken
      <3> QED
        BY <1>1, <2>1, <3>1 DEF Apart
    <2>3. Len(stored) = batch'.first - 1
      BY <1>1, <1>6, <2>1
    <2> QED
      BY <1>3, <1>5, <1>6, <1>7, <2>1, <2>2, <2>3 DEF PrefixInv
  <1>11. BarrierInv'
    BY <1>1, <1>2, <1>3, <1>4, <1>5, <1>6 DEF BarrierInv
  <1> QED
    BY <1>8, <1>9, <1>10, <1>11 DEF Server

\* A batch that is given up takes what is buffered along.
LEMMA StopServer ==
    ASSUME IInv, NEW t \in Tasks, Stop(t)
    PROVE  Server'
  <1>1. /\ ServerTypes /\ ServerInv /\ PrefixInv /\ drained \in 0..Len(ends) /\ Len(ends) \in Nat
        /\ batch.last <= drained /\ batch.last \in Nat
    BY DEF IInv, BufferTypes, BufferInv, ServerTypes
  <1>2. /\ UNCHANGED <<batch, late, stored, keys, lost>>
        /\ drained' = Len(ends) /\ delivery_stopped' = TRUE
    BY DEF Stop, serverVars, history
  <1>3. ~InFlight'
    <2>1. \A u \in Tasks \ {t} : pc[u] \notin Delivering
      BY Alone DEF Stop, Delivering
    <2> QED
      BY <2>1 DEF Stop, Goto, InFlight, IInv, TaskTypes, Delivering
  <1>4. ServerTypes'
    BY <1>1, <1>2 DEF ServerTypes
  <1>5. ServerInv'
    <2>1. ASSUME NEW r \in late PROVE Taken(r)'
      BY <1>1, <1>2 DEF ServerInv, ServerTypes, RequestType, Taken
    <2>2. keys \subseteq 1..drained' /\ Range(stored) \subseteq 1..drained'
      BY <1>1, <1>2 DEF ServerInv
    <2> QED
      BY <1>1, <1>2, <1>3, <2>1, <2>2 DEF ServerInv, Settled, Apart, Taken
  <1>6. PrefixInv' /\ BarrierInv'
    BY <1>1, <1>2 DEF PrefixInv, BarrierInv
  <1> QED
    BY <1>4, <1>5, <1>6 DEF Server

\* A dropped caller leaves its request behind and takes its batch along.
LEMMA DropServer ==
    ASSUME IInv, NEW t \in Tasks, Drop(t)
    PROVE  Server'
  <1>1. /\ ServerTypes /\ ServerInv /\ BarrierInv /\ TaskTypes
        /\ batch.first \in Nat \ {0} /\ batch.last \in Nat
    BY DEF IInv, ServerTypes
  <1>2. UNCHANGED <<drained, batch, stored, keys, delivery_stopped>>
    BY DEF Drop, bufferVars
  <1>3. CASE pc[t] \in {"lock", "take"}
    <2>1. UNCHANGED <<late, lost>>
      BY <1>3 DEF Drop
    <2>2. InFlight' <=> InFlight
      BY <1>1, <1>3 DEF Drop, Goto, InFlight, TaskTypes
    <2> QED
      BY <1>2, <2>1, <2>2, KeepServer
  <1>4. CASE pc[t] \in {"send", "fail"}
    <2>1. InFlight /\ \A u \in Tasks \ {t} : pc[u] \notin Delivering
      BY <1>4, Alone DEF Delivering
    <2>2. ~InFlight'
      BY <1>1, <2>1 DEF Drop, Goto, InFlight, TaskTypes, Delivering
    <2>3. /\ lost' = lost \union (batch.first..batch.last) /\ lost' # {}
          /\ late' \subseteq late \union {Request}
      BY <1>1, <1>4, <2>1 DEF Drop, ServerInv
    <2>4. ASSUME NEW r \in late' PROVE Storable(r)
      BY <2>1, <2>3, StorableRequests
    <2>5. ASSUME NEW r \in late', NEW s \in late' PROVE Apart(r, s)
      <3>1. CASE s \in late
        BY <2>4, <3>1 DEF Storable
      <3>2. CASE s \notin late
        <4>1. s = Request /\ Apart(r, batch)
          BY <2>3, <2>4, <3>2 DEF Storable
        <4> QED
          BY <4>1 DEF Apart, Request
      <3> QED
        BY <3>1, <3>2
    <2>6. ServerTypes'
      <3>1. lost' \subseteq Nat
        <4>1. batch.first..batch.last \subseteq Nat
          BY <1>1
        <4> QED
          BY <1>1, <2>3, <4>1, Zenon DEF ServerTypes
      <3> QED
        BY <1>1, <1>2, <2>4, <3>1 DEF ServerTypes, Storable
    <2>7. ServerInv'
      BY <1>1, <1>2, <2>2, <2>4, <2>5 DEF ServerInv, Storable, Taken, Settled, Apart
    <2>8. PrefixInv' /\ BarrierInv'
      BY <1>1, <1>2, <2>3 DEF PrefixInv, BarrierInv
    <2> QED
      BY <2>6, <2>7, <2>8 DEF Server
  <1> QED
    BY <1>3, <1>4 DEF Drop

\* An answer, or the lack of one.
LEMMA AnswerServer ==
    ASSUME IInv, NEW t \in Tasks, Answer(t)
    PROVE  Server'
  <1>1. /\ pc[t] = "send" /\ UNCHANGED <<drained, batch, lost, delivery_stopped>>
    BY DEF Answer, Acknowledged, AnswerLost, RequestLost, Rejected, bufferVars, history
  <1>2. InFlight /\ \A u \in Tasks \ {t} : pc[u] \notin Delivering
    BY <1>1, Alone DEF Delivering
  <1>3. pc \in [Tasks -> Steps]
    BY DEF IInv, TaskTypes
  <1>4. Storable(Request) /\ Request.first = batch.first
    BY <1>2, StorableRequests DEF Request
  <1>5. CASE Acknowledged(t)
    <2>1. Store(Request) /\ late' = late
      BY <1>5 DEF Acknowledged
    <2> QED
      BY <1>1, <1>2, <1>4, <2>1, StoreServer
  <1>6. ASSUME Retry(t) \/ Goto(t, "fail") PROVE InFlight'
    BY <1>1, <1>3, <1>6 DEF Retry, Goto, InFlight
  <1>7. CASE AnswerLost(t)
    <2>1. Store(Request) /\ late' = late /\ InFlight'
      BY <1>6, <1>7 DEF AnswerLost
    <2> QED
      BY <1>1, <1>2, <1>4, <2>1, StoreServer
  <1>8. CASE RequestLost(t)
    <2>1. UNCHANGED <<stored, keys>> /\ late' = late \union {Request} /\ InFlight'
      BY <1>6, <1>8 DEF RequestLost
    <2> QED
      BY <1>1, <1>2, <2>1, KeepServer
  <1>9. CASE Rejected(t)
    <2>1. (Store(Request) \/ UNCHANGED <<stored, keys>>) /\ late' = late /\ InFlight'
      BY <1>6, <1>9 DEF Rejected
    <2>2. CASE Store(Request)
      BY <1>1, <1>2, <1>4, <2>1, <2>2, StoreServer
    <2>3. CASE UNCHANGED <<stored, keys>>
      BY <1>1, <1>2, <2>1, <2>3, KeepServer
    <2> QED
      BY <2>1, <2>2, <2>3
  <1> QED
    BY <1>5, <1>7, <1>8, <1>9 DEF Answer

\* Every step keeps the invariants of the control plane.
LEMMA ServerStep ==
    ASSUME IInv, Next
    PROVE  Server'
  <1> USE DEF bufferVars, serverVars, history
  <1>1. pc \in [Tasks -> Steps]
    BY DEF IInv, TaskTypes
  <1>2. ASSUME UNCHANGED <<drained, batch, late, stored, keys, lost, delivery_stopped>>,
               InFlight' <=> InFlight
        PROVE  Server'
    BY <1>2, KeepServer
  <1>3. ASSUME NEW t \in Tasks, pc[t] \notin {"send", "fail"},
               NEW step \in Steps \ {"send", "fail"}, Goto(t, step)
        PROVE  InFlight' <=> InFlight
    BY <1>1, <1>3 DEF Goto, InFlight
  <1>4. ASSUME NEW w \in Writers, Log(w) PROVE Server'
    <2>1. w \in Tasks /\ \E step \in Steps \ {"send", "fail"} : Goto(w, step)
      BY <1>4 DEF Log, Tasks, Steps
    <2> QED
      BY <1>2, <1>3, <1>4, <2>1 DEF Log
  <1>5. ASSUME NEW w \in Writers, ScheduleFlush(w) PROVE Server'
    <2>1. w \in Tasks /\ Timers \subseteq Tasks
      BY DEF Tasks
    <2>2. InFlight' <=> InFlight
      BY <1>1, <1>5, <2>1, ReporterAssumption DEF ScheduleFlush, Goto, InFlight
    <2> QED
      BY <1>2, <1>5, <2>2 DEF ScheduleFlush
  <1>6. ASSUME NEW t \in Timers, Wake(t) PROVE Server'
    <2>1. t \in Tasks /\ (InFlight' <=> InFlight)
      BY <1>3, <1>6 DEF Wake, Tasks, Steps
    <2> QED
      BY <1>2, <1>6, <2>1 DEF Wake
  <1>7. ASSUME Flush PROVE Server'
    <2>1. InFlight' <=> InFlight
      BY <1>3, <1>7 DEF Flush, Tasks, Steps
    <2> QED
      BY <1>2, <1>7, <2>1 DEF Flush
  <1>8. ASSUME NEW t \in Tasks, Acquire(t) \/ Return(t) PROVE Server'
    <2>1. InFlight' <=> InFlight
      BY <1>3, <1>8 DEF Acquire, Return, Steps
    <2> QED
      BY <1>2, <1>8, <2>1 DEF Acquire, Return
  <1>9. ASSUME NEW r \in late, ArrivesLate(r) PROVE Server'
    <2>1. InFlight' <=> InFlight
      BY <1>9 DEF ArrivesLate, InFlight
    <2>2. /\ Store(r) /\ late' \subseteq late
          /\ UNCHANGED <<drained, batch, lost, delivery_stopped>>
      BY <1>9 DEF ArrivesLate
    <2>3. Storable(r)
      BY StorableRequests
    <2> QED
      BY <2>1, <2>2, <2>3, StoreServer
  <1>10. ASSUME NEW w \in Execution, Suspend(w) PROVE Server'
    <2>1. InFlight' <=> InFlight
      BY <1>10 DEF Suspend, InFlight
    <2> QED
      BY <1>2, <1>10, <2>1 DEF Suspend
  <1> QED
    BY <1>4, <1>5, <1>6, <1>7, <1>8, <1>9, <1>10, TakeServer, StopServer, DropServer, AnswerServer
    DEF Next, FlushStep

------------------------------------------------------------------------------
(* The invariant, and what follows from it. *)

\* The invariant is inductive.
LEMMA Inductive == IInv /\ [Next]_vars => IInv'
  <1> SUFFICES ASSUME IInv, [Next]_vars PROVE IInv'
    OBVIOUS
  <1>1. CASE Next
    BY <1>1, TaskStep, BufferStep, ServerStep DEF IInv, Server
  <1>2. CASE UNCHANGED vars
    <2> USE <1>2 DEF vars, bufferVars, serverVars, history
    <2>1. BufferTypes' /\ TaskTypes' /\ ServerTypes'
      BY DEF IInv, BufferTypes, TaskTypes, ServerTypes
    <2>2. TaskInv' /\ BufferInv'
      BY DEF IInv, TaskInv, NoLineStranded, Pending, BufferInv, Bytes, Offset, batch_max_lines
    <2>3. ServerInv' /\ PrefixInv' /\ BarrierInv'
      BY DEF IInv, ServerInv, PrefixInv, BarrierInv, InFlight, Settled, Taken
    <2> QED
      BY <2>1, <2>2, <2>3 DEF IInv
  <1> QED
    BY <1>1, <1>2

\* The invariant holds in every behaviour.
LEMMA Invariance == Spec => []IInv
  BY InitInv, Inductive, PTL DEF Spec

\* The invariants of the runs follow from it.
LEMMA InvImplies ==
    ASSUME IInv
    PROVE  TypeOK /\ FlushIsBarrier /\ NoLineStranded /\ WithinPolicy
  <1>1. TypeOK
    BY DEF IInv, TypeOK, BufferTypes, TaskTypes, ServerTypes, RequestType, TaskInv, Delivering
  <1>2. FlushIsBarrier
    <2> SUFFICES ASSUME NEW t \in Tasks, pc[t] = "take", ~delivery_stopped
                 PROVE  \A n \in 1..drained : n \in Range(stored) \union lost
      BY DEF FlushIsBarrier
    <2>1. ~InFlight
      BY Alone DEF Delivering
    <2> QED
      BY <2>1 DEF IInv, BarrierInv
  <1>3. NoLineStranded
    BY DEF IInv, TaskInv
  <1>4. WithinPolicy
    <2>1. ASSUME NEW n \in Range(stored), log_bounds.max_total_bytes # None
          PROVE  Offset(n) <= log_bounds.max_total_bytes
      <3> DEFINE k == Len(ends)
      <3>1. k \in Nat /\ drained \in 0..k /\ n \in 1..drained
        BY DEF IInv, BufferTypes, ServerInv
      <3>2. n \in 1..k /\ n # 0
        BY <3>1
      <3>3. /\ ends[n] \in Nat /\ ends[n] <= bytes_sent /\ bytes_sent \in Nat
            /\ bytes_sent <= log_bounds.max_total_bytes
        BY <2>1, <3>2 DEF IInv, BufferTypes, BufferInv
      <3>4. log_bounds.max_total_bytes \in Nat
        BY <2>1, ReporterAssumption DEF IInv, BufferTypes
      <3> QED
        BY <3>2, <3>3, <3>4 DEF Offset
    <2>2. batch.first \in Nat /\ batch.last \in Nat
      BY DEF IInv, ServerTypes
    <2>3. \/ batch.last <= batch.first
          \/ /\ batch.last + 1 - batch.first <= batch_max_lines
             /\ Bytes(batch.first, batch.last) <= MaxBatchBytes
      BY DEF IInv, BufferInv
    <2> QED
      BY <2>1, <2>2, <2>3 DEF IInv, BufferInv, WithinPolicy
  <1> QED
    BY <1>1, <1>2, <1>3, <1>4

\* The state of the reporter and of its tasks has its types; the one holder of
\* flush_lock delivers, and the scheduled flag is up exactly while a flush task
\* sleeps.
THEOREM TypeCorrect == Spec => []TypeOK
  BY Invariance, InvImplies, PTL

\* A flush that finds the buffer empty under flush_lock, like the processor's
\* before the terminal report, finds every accepted line at the control plane,
\* except those a dropped caller took along.
THEOREM FlushBarrier == Spec => []FlushIsBarrier
  BY Invariance, InvImplies, PTL

\* While lines are buffered and no caller was dropped, some task will flush them.
THEOREM NoneStranded == Spec => []NoLineStranded
  BY Invariance, InvImplies, PTL

\* Stored lines stay within the byte budget of the command, and every batch
\* within its bounds; the byte count of the buffer never drifts.
THEOREM PolicyHolds == Spec => []WithinPolicy
  BY Invariance, InvImplies, PTL

------------------------------------------------------------------------------
(* The reporter implements LogDelivery. *)

\* A request stored for the first time delivers the next lines, or after a loss
\* some that nobody has stored.
LEMMA StoreDelivers ==
    ASSUME IInv, NEW r, Storable(r), Store(r), UNCHANGED <<ends, delivery_stopped, lost>>
    PROVE  [Delivery!Next]_(Delivery!vars)
  <1>1. /\ ServerInv /\ PrefixInv /\ ends \in Seq(Nat) /\ drained \in 0..Len(ends)
        /\ stored \in Seq(Nat)
    BY DEF IInv, BufferTypes, ServerTypes
  <1>2. /\ r.key = r.first /\ r.first \in Nat \ {0} /\ r.last \in Nat
        /\ r.first <= r.last /\ r.last <= drained /\ batch.first \in Nat
    BY DEF Storable, Taken, RequestType, IInv, ServerTypes
  <1>3. Len(ends) \in Nat /\ r.last \in 1..Len(ends) /\ r.first \in 1..r.last
    BY <1>1, <1>2
  <1>4. CASE r.first \in keys
    <2>1. stored' = stored
      BY <1>2, <1>4 DEF Store
    <2> QED
      BY <2>1 DEF Delivery!vars
  <1>5. CASE r.first \notin keys
    <2>1. stored' = stored \o Lines(r.first, r.last)
      BY <1>2, <1>5 DEF Store
    <2>2. CASE lost = {}
      <3>1. r.first = batch.first /\ Len(stored) = batch.first - 1
        BY <1>1, <1>5, <2>2 DEF PrefixInv, Storable
      <3>2. Len(stored) + 1 = r.first /\ r.last > Len(stored) /\ r.last <= Len(ends)
        BY <1>2, <1>3, <3>1
      <3>3. stored' = stored \o Delivery!Lines(Len(stored) + 1, r.last)
        BY <2>1, <3>2 DEF Lines, Delivery!Lines
      <3>4. Delivery!Deliver(r.last)
        BY <2>2, <3>2, <3>3 DEF Delivery!Deliver
      <3> QED
        BY <1>3, <3>4 DEF Delivery!Next
    <2>3. CASE lost # {}
      <3>1. \A i \in 1..Len(stored) : stored[i] \notin r.first..r.last
        BY <1>1, <1>5 DEF Storable, Settled, Range
      <3>2. stored' = stored \o Delivery!Lines(r.first, r.last)
        BY <2>1 DEF Lines, Delivery!Lines
      <3>3. Delivery!DeliverLoose(r.first, r.last)
        BY <1>2, <1>3, <2>3, <3>1, <3>2 DEF Delivery!DeliverLoose
      <3> QED
        BY <1>3, <3>3 DEF Delivery!Next
    <2> QED
      BY <2>2, <2>3
  <1> QED
    BY <1>4, <1>5

\* Every step of the reporter is one of LogDelivery, or none.
LEMMA DeliveryStep ==
    ASSUME IInv, [Next]_vars
    PROVE  [Delivery!Next]_(Delivery!vars)
  <1> USE DEF bufferVars, serverVars, history
  <1>1. ASSUME UNCHANGED <<ends, stored, delivery_stopped, lost>>
        PROVE  [Delivery!Next]_(Delivery!vars)
    BY <1>1 DEF Delivery!vars
  <1>2. ASSUME NEW w \in Writers, Log(w) PROVE [Delivery!Next]_(Delivery!vars)
    <2>1. PICK e : ends' = Append(ends, e)
      BY <1>2 DEF Log
    <2>2. Len(ends') = Len(ends) + 1
      BY <2>1 DEF IInv, BufferTypes
    <2>3. Delivery!Accept
      BY <1>2, <2>2 DEF Log, Delivery!Accept
    <2> QED
      BY <2>3 DEF Delivery!Next
  <1>3. ASSUME NEW w \in Writers, ScheduleFlush(w) PROVE [Delivery!Next]_(Delivery!vars)
    BY <1>1, <1>3 DEF ScheduleFlush
  <1>4. ASSUME NEW t \in Timers, Wake(t) PROVE [Delivery!Next]_(Delivery!vars)
    BY <1>1, <1>4 DEF Wake
  <1>5. ASSUME Flush PROVE [Delivery!Next]_(Delivery!vars)
    BY <1>1, <1>5 DEF Flush
  <1>6. ASSUME NEW t \in Tasks, Acquire(t) \/ Take(t) \/ Return(t)
        PROVE  [Delivery!Next]_(Delivery!vars)
    BY <1>1, <1>6 DEF Acquire, Take, Return
  <1>7. ASSUME NEW t \in Tasks, Stop(t) PROVE [Delivery!Next]_(Delivery!vars)
    <2>1. Delivery!Close
      BY <1>7 DEF Stop, Delivery!Close
    <2> QED
      BY <2>1 DEF Delivery!Next
  <1>8. ASSUME NEW t \in Tasks, Answer(t) PROVE [Delivery!Next]_(Delivery!vars)
    <2>1. /\ UNCHANGED <<ends, delivery_stopped, lost>> /\ pc[t] = "send"
          /\ Store(Request) \/ stored' = stored
      BY <1>8 DEF Answer, Acknowledged, AnswerLost, RequestLost, Rejected
    <2>2. Storable(Request)
      BY <2>1, StorableRequests DEF InFlight
    <2> QED
      BY <1>1, <2>1, <2>2, StoreDelivers
  <1>9. ASSUME NEW t \in Tasks, Drop(t) PROVE [Delivery!Next]_(Delivery!vars)
    <2>1. UNCHANGED <<ends, stored, delivery_stopped>> /\ lost \subseteq lost'
      BY <1>9 DEF Drop
    <2>2. CASE lost' = {}
      BY <1>1, <2>1, <2>2
    <2>3. CASE lost' # {}
      <3>1. Delivery!GiveUp
        BY <2>1, <2>3 DEF Delivery!GiveUp
      <3> QED
        BY <3>1 DEF Delivery!Next
    <2> QED
      BY <2>2, <2>3
  <1>10. ASSUME NEW r \in late, ArrivesLate(r) PROVE [Delivery!Next]_(Delivery!vars)
    <2>1. Store(r) /\ UNCHANGED <<ends, delivery_stopped, lost>>
      BY <1>10 DEF ArrivesLate
    <2> QED
      BY <2>1, StorableRequests, StoreDelivers
  <1>11. CASE UNCHANGED vars
    BY <1>1, <1>11 DEF vars
  <1>12. ASSUME NEW w \in Execution, Suspend(w) PROVE [Delivery!Next]_(Delivery!vars)
    BY <1>1, <1>12 DEF Suspend
  <1> QED
    BY <1>2, <1>3, <1>4, <1>5, <1>6, <1>7, <1>8, <1>9, <1>10, <1>11, <1>12 DEF Next, FlushStep

\* The control plane stores the lines in the order the reporter accepted them,
\* at most once and without gaps until a caller is dropped in a delivery: every
\* step of the reporter is a step of LogDelivery, or none.
THEOREM DeliveryImplemented == Spec => ImplementsDelivery
  <1>1. Init => Delivery!Init
    BY DEF Init, Delivery!Init
  <1>2. IInv /\ [Next]_vars => [Delivery!Next]_(Delivery!vars)
    BY DeliveryStep
  <1> QED
    BY <1>1, <1>2, Invariance, PTL DEF Spec, ImplementsDelivery, Delivery!Spec

\* Appending lines that are not stored yet stores none twice.
LEMMA AppendOnce ==
    ASSUME NEW s \in Seq(Nat), NEW m \in Nat \ {0}, NEW n \in Nat, m <= n,
           \A i, j \in 1..Len(s) : s[i] = s[j] => i = j,
           \A i \in 1..Len(s) : s[i] \notin m..n
    PROVE  LET q == s \o Lines(m, n)
           IN q \in Seq(Nat) /\ \A i, j \in 1..Len(q) : q[i] = q[j] => i = j
  <1> DEFINE q == s \o Lines(m, n)
             a == Len(s)
             b == Len(q)
  <1>1. /\ q \in Seq(Nat) /\ b = a + n + 1 - m
        /\ \A i \in 1..a : q[i] = s[i]
        /\ \A i \in a + 1..b : q[i] = m + (i - a) - 1
    BY AppendLines, ZenonT(30)
  <1>2. a \in Nat
    OBVIOUS
  <1>3. /\ \A i, j \in 1..a : s[i] = s[j] => i = j
        /\ \A i \in 1..a : s[i] \notin m..n
    OBVIOUS
  <1> HIDE DEF q, a, b
  <1>4. \A i \in a + 1..b : q[i] \in m..n
    BY <1>1, <1>2
  <1>5. ASSUME NEW i \in 1..b, NEW j \in 1..b, q[i] = q[j] PROVE i = j
    <2>1. CASE i \in 1..a /\ j \in 1..a
      BY <1>1, <1>3, <1>5, <2>1
    <2>2. CASE i \in 1..a /\ j \in a + 1..b
      BY <1>1, <1>3, <1>4, <1>5, <2>2
    <2>3. CASE i \in a + 1..b /\ j \in 1..a
      BY <1>1, <1>3, <1>4, <1>5, <2>3
    <2>4. CASE i \in a + 1..b /\ j \in a + 1..b
      BY <1>1, <1>2, <1>5, <2>4
    <2> QED
      BY <1>1, <1>2, <2>1, <2>2, <2>3, <2>4
  <1> QED
    BY <1>1, <1>5 DEF q, b

\* Every step of LogDelivery stores a line at most once and in order.
LEMMA OnceStep ==
    ASSUME stored \in Seq(Nat), Delivery!StoredOnceInOrder, [Delivery!Next]_(Delivery!vars)
    PROVE  stored' \in Seq(Nat) /\ (Delivery!StoredOnceInOrder)'
  <1> DEFINE a == Len(stored)
  <1>1. a \in Nat
    OBVIOUS
  <1>2. /\ \A i, j \in 1..a : stored[i] = stored[j] => i = j
        /\ lost = {} => \A i \in 1..a : stored[i] = i
    BY DEF Delivery!StoredOnceInOrder
  <1>3. ASSUME stored' = stored, lost' = {} => lost = {}
        PROVE  stored' \in Seq(Nat) /\ (Delivery!StoredOnceInOrder)'
    BY <1>3 DEF Delivery!StoredOnceInOrder
  <1>4. ASSUME NEW n \in 1..Len(ends), Delivery!Deliver(n)
        PROVE  stored' \in Seq(Nat) /\ (Delivery!StoredOnceInOrder)'
    <2>1. lost = {} /\ n > a /\ stored' = stored \o Lines(a + 1, n)
      BY <1>4 DEF Delivery!Deliver, Delivery!Lines, Lines
    <2>2. n \in Nat /\ a + 1 \in Nat \ {0} /\ a + 1 <= n
      BY <1>1, <2>1
    <2> DEFINE q == stored \o Lines(a + 1, n)
               b == Len(q)
    <2>3. /\ q \in Seq(Nat) /\ b = a + n + 1 - (a + 1)
          /\ \A i \in 1..a : q[i] = stored[i]
          /\ \A i \in a + 1..b : q[i] = (a + 1) + (i - a) - 1
      BY <2>2, AppendLines, ZenonT(30)
    <2>4. stored' = q
      BY <2>1
    <2> HIDE DEF q
    <2>5. \A i \in 1..b : q[i] = i
      <3>1. \A i \in 1..a : stored[i] = i
        BY <1>2, <2>1
      <3> HIDE DEF a, b
      <3>2. ASSUME NEW i \in 1..b PROVE q[i] = i
        <4>1. CASE i \in 1..a
          BY <2>3, <3>1, <4>1
        <4>2. CASE i \in a + 1..b
          BY <1>1, <2>2, <2>3, <4>2
        <4> QED
          BY <1>1, <2>2, <2>3, <4>1, <4>2
      <3> QED
        BY <3>2
    <2> QED
      BY <2>3, <2>4, <2>5 DEF Delivery!StoredOnceInOrder
  <1>5. ASSUME NEW m, NEW n \in 1..Len(ends), Delivery!DeliverLoose(m, n), m \in 1..n
        PROVE  stored' \in Seq(Nat) /\ (Delivery!StoredOnceInOrder)'
    <2>1. /\ lost # {} /\ lost' # {} /\ stored' = stored \o Lines(m, n)
          /\ \A i \in 1..a : stored[i] \notin m..n
      BY <1>5 DEF Delivery!DeliverLoose, Delivery!Lines, Lines
    <2>2. m \in Nat \ {0} /\ n \in Nat /\ m <= n
      BY <1>5
    <2> DEFINE q == stored \o Lines(m, n)
    <2>3. q \in Seq(Nat) /\ \A i, j \in 1..Len(q) : q[i] = q[j] => i = j
      BY <1>2, <2>1, <2>2, AppendOnce, ZenonT(30)
    <2>4. stored' = q
      BY <2>1
    <2> HIDE DEF q
    <2> QED
      BY <2>1, <2>3, <2>4 DEF Delivery!StoredOnceInOrder
  <1>6. CASE Delivery!Accept \/ Delivery!Close \/ Delivery!GiveUp \/ UNCHANGED Delivery!vars
    BY <1>3, <1>6 DEF Delivery!Accept, Delivery!Close, Delivery!GiveUp, Delivery!vars
  <1> QED
    BY <1>4, <1>5, <1>6 DEF Delivery!Next

\* No retry, lost answer or late request stores a line twice, and without a
\* dropped caller the stored lines are the first ones, in order: what
\* LogDelivery promises holds of the reporter.
THEOREM StoredOnce == Spec => [](Delivery!StoredOnceInOrder)
  <1> DEFINE J == stored \in Seq(Nat) /\ Delivery!StoredOnceInOrder
  <1>1. Init => J
    BY DEF Init, Delivery!StoredOnceInOrder
  <1>2. J /\ IInv /\ [Next]_vars => J'
    BY OnceStep, DeliveryStep
  <1>3. J => Delivery!StoredOnceInOrder
    OBVIOUS
  <1> HIDE DEF J
  <1> QED
    BY <1>1, <1>2, <1>3, Invariance, PTL DEF Spec
==============================================================================
