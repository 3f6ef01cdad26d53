----------------------------- MODULE LogReporter -----------------------------
(***************************************************************************)
(* The log path of one command: ApiRuntimeReporter (reporting/runtime.rs)  *)
(* and the retries of ApiClient::report below it (api/client.rs).          *)
(*                                                                         *)
(* The output of the command and the container log follower share one      *)
(* reporter; the processor flushes it before the terminal report, and      *)
(* spawned tasks flush it after FLUSH_INTERVAL.  The state mutex is never  *)
(* held across a request, so each of its sections is one step; flush_lock  *)
(* is held for a whole delivery.  A caller may be dropped at any await.    *)
(* Those inside the execution future may also be kept without being polled *)
(* (commands/processor.rs), with their place at flush_lock or the lock.    *)
(* Requests and answers may be lost, and a request may arrive after its    *)
(* sender has given it up.                                                 *)
(*                                                                         *)
(* Lines are numbered in the order they enter the buffer; the buffer holds *)
(* the lines after the first `drained` ones.                               *)
(***************************************************************************)
EXTENDS Integers, Sequences, Functions

CONSTANTS
    Writers,            \* callers of log: command output, log follower
    Execution,          \* those of them that run inside the execution future
    Processor,          \* the caller of flush
    Timers,             \* spawned flush tasks (bounds how many live at a time)
    None,
    LogBounds,          \* the log_bounds policies of the payload
    DefaultBatchLines,  \* DEFAULT_BATCH_LINES
    MaxBatchBytes,      \* MAX_BATCH_BYTES
    MaxAttempts,        \* retry.max_attempts
    MaxSize, MaxLines   \* bounds: bytes of a message, lines of a behaviour

Tasks == Writers \union Timers \union {Processor}

ASSUME ReporterAssumption ==
    /\ Execution \subseteq Writers
    /\ Writers \intersect Timers = {} /\ Processor \notin Writers \union Timers
    /\ None \notin Tasks /\ None \notin Nat
    /\ LogBounds \subseteq [max_batch_lines : Nat \union {None}, max_line_length : Nat \union {None},
                            max_total_bytes : Nat \union {None}]
    /\ DefaultBatchLines \in Nat \ {0} /\ MaxBatchBytes \in Nat \ {0}
    /\ MaxAttempts \in Nat \ {0} /\ MaxSize \in Nat /\ MaxLines \in Nat

VARIABLES
    log_bounds,
    ends,               \* for every line accepted, the bytes accepted up to its end
    drained,            \* lines that have left pending
    pending_bytes, bytes_sent,
    delivery_stopped,
    flush_scheduled,
    flush_lock,         \* its holder
    pc,                 \* where each task is
    unpolled,           \* callers in the execution that process no longer polls
    batch, attempt,     \* the last batch taken; failed attempts of the delivery under way
    late,               \* requests nobody waits for that may still arrive
    stored, keys,       \* control plane: lines in order, idempotency keys seen
    dropped, lost       \* history: a caller was dropped; the lines it took along

bufferVars == <<ends, drained, pending_bytes, bytes_sent, delivery_stopped>>
serverVars == <<late, stored, keys>>
history    == <<dropped, lost>>
vars == <<log_bounds, bufferVars, flush_scheduled, flush_lock, pc, unpolled, batch, attempt, serverVars, history>>

Pending == drained + 1 .. Len(ends)

\* The bytes of the first n lines, and of the lines m to n.
Offset(n) == IF n = 0 THEN 0 ELSE ends[n]
Bytes(m, n) == Offset(n) - Offset(m - 1)
SaturatingSub(a, b) == IF a > b THEN a - b ELSE 0

\* The lines m to n, in order.
Lines(m, n) == [i \in 1..(n + 1 - m) |-> m + i - 1]

Init ==
    /\ log_bounds \in LogBounds
    /\ ends = <<>> /\ drained = 0 /\ pending_bytes = 0 /\ bytes_sent = 0
    /\ delivery_stopped = FALSE
    /\ flush_scheduled = FALSE /\ flush_lock = None
    /\ pc = [t \in Tasks |-> "idle"] /\ unpolled = {}
    /\ batch = [first |-> 1, last |-> 0] /\ attempt = 0
    /\ late = {} /\ stored = <<>> /\ keys = {} /\ dropped = FALSE /\ lost = {}

Goto(t, step) == pc' = [pc EXCEPT ![t] = step]

------------------------------------------------------------------------------
(* Accepting a line. *)

\* Sizes a message may have after it is cut at a character boundary; a
\* character takes up to four bytes.
truncate_utf8(len, maximum) ==
    IF maximum = None \/ len <= maximum THEN {len}
    ELSE {k \in 0..maximum : k + 4 > maximum}

\* Mutant: the rest of the budget is not subtracted.
bounded_log_whole(len) ==
    IF log_bounds.max_batch_lines = 0 THEN {}
    ELSE LET cut == truncate_utf8(len, log_bounds.max_line_length)
             maximum == log_bounds.max_total_bytes
         IN CASE maximum = None -> cut \ {0}
              [] maximum # None /\ bytes_sent >= maximum -> {}
              [] OTHER -> UNION {truncate_utf8(k, maximum) : k \in cut} \ {0}

\* Sizes a redacted message of len bytes may be accepted with; none if the
\* line is dropped.
bounded_log(len) ==
    IF log_bounds.max_batch_lines = 0 THEN {}
    ELSE LET cut == truncate_utf8(len, log_bounds.max_line_length)
             maximum == log_bounds.max_total_bytes
         IN CASE maximum = None -> cut \ {0}
              [] maximum # None /\ bytes_sent >= maximum -> {}
              [] OTHER -> UNION {truncate_utf8(k, maximum - bytes_sent) : k \in cut} \ {0}

batch_max_lines ==
    LET requested == log_bounds.max_batch_lines
    IN CASE requested = None -> DefaultBatchLines
         [] requested = 0 -> 1
         [] OTHER -> IF requested < DefaultBatchLines THEN requested ELSE DefaultBatchLines

\* log: the budget is reserved and the line buffered in one section; a full
\* buffer is flushed by the caller.  A stopped reporter answers with an error.
Log(w) ==
    /\ pc[w] = "idle" /\ w \notin unpolled /\ ~delivery_stopped /\ Len(ends) < MaxLines
    /\ \E len \in 0..MaxSize : \E kept \in bounded_log(len) :
          /\ ends' = Append(ends, bytes_sent + kept)
          /\ bytes_sent' = bytes_sent + kept
          /\ pending_bytes' = pending_bytes + kept
    /\ Goto(w, IF Len(ends') - drained >= batch_max_lines \/ pending_bytes' >= MaxBatchBytes
                 THEN "lock" ELSE "schedule")
    /\ UNCHANGED <<log_bounds, unpolled, drained, delivery_stopped, flush_scheduled, flush_lock,
                   batch, attempt, serverVars, history>>

\* One sleeping task is enough for every line buffered meanwhile.
ScheduleFlush(w) ==
    /\ pc[w] = "schedule"
    /\ IF flush_scheduled
         THEN Goto(w, "idle") /\ UNCHANGED flush_scheduled
         ELSE \E t \in Timers :
                 /\ pc[t] = "idle"
                 /\ pc' = [pc EXCEPT ![w] = "idle", ![t] = "sleep"]
                 /\ flush_scheduled' = TRUE
    /\ UNCHANGED <<log_bounds, unpolled, bufferVars, flush_lock, batch, attempt, serverVars, history>>

\* Mutant: the flag stays up until the flush is over.
WakeKeepsFlag(t) ==
    /\ pc[t] = "sleep"
    /\ Goto(t, "lock")
    /\ UNCHANGED <<log_bounds, unpolled, bufferVars, flush_scheduled, flush_lock, batch, attempt,
                   serverVars, history>>

\* FLUSH_INTERVAL is over: the flag is cleared before the buffer is drained.
Wake(t) ==
    /\ pc[t] = "sleep"
    /\ flush_scheduled' = FALSE
    /\ Goto(t, "lock")
    /\ UNCHANGED <<log_bounds, unpolled, bufferVars, flush_lock, batch, attempt, serverVars, history>>

\* Cancellation is observed: run_deployment goes on without polling what it was
\* waiting for.  A section without an await is not interrupted.
Suspend(w) ==
    /\ w \notin unpolled /\ pc[w] # "schedule"
    /\ unpolled' = unpolled \union {w}
    /\ UNCHANGED <<log_bounds, bufferVars, flush_scheduled, flush_lock, pc, batch, attempt,
                   serverVars, history>>

\* The processor's flush, when the execution is over or has been given up.
Flush ==
    /\ pc[Processor] = "idle" /\ \A w \in Execution : pc[w] # "schedule"
    /\ Goto(Processor, "lock")
    /\ unpolled' = Execution
    /\ UNCHANGED <<log_bounds, bufferVars, flush_scheduled, flush_lock, batch, attempt,
                   serverVars, history>>

------------------------------------------------------------------------------
(* flush_pending. *)

\* Mutant: deliveries are not serialised.
AcquireUnserialized(t) ==
    /\ pc[t] = "lock"
    /\ Goto(t, "take")
    /\ UNCHANGED <<log_bounds, unpolled, bufferVars, flush_scheduled, flush_lock, batch, attempt,
                   serverVars, history>>

\* The lock is handed to one of those who wait, whether or not it is polled.
Acquire(t) ==
    /\ pc[t] = "lock" /\ flush_lock = None
    /\ flush_lock' = t
    /\ Goto(t, "take")
    /\ UNCHANGED <<log_bounds, unpolled, bufferVars, flush_scheduled, batch, attempt, serverVars, history>>

\* A batch may end with line n: the first line always fits.
Fits(n) ==
    \/ n = drained + 1
    \/ n - drained <= batch_max_lines /\ Bytes(drained + 1, n) <= MaxBatchBytes

\* The next batch leaves the buffer, under an idempotency key of its own.
Take(t) ==
    /\ pc[t] = "take" /\ t \notin unpolled /\ ~delivery_stopped
    /\ \E last \in Pending :
          /\ Fits(last) /\ (last < Len(ends) => ~Fits(last + 1))
          /\ batch' = [first |-> drained + 1, last |-> last]
          /\ pending_bytes' = SaturatingSub(pending_bytes, Bytes(drained + 1, last))
          /\ drained' = last
    /\ Goto(t, "send")
    /\ UNCHANGED <<log_bounds, unpolled, ends, bytes_sent, delivery_stopped, flush_scheduled, flush_lock,
                   attempt, serverVars, history>>

\* Nothing is left, or delivery has stopped.
Return(t) ==
    /\ pc[t] = "take" /\ t \notin unpolled /\ (delivery_stopped \/ Pending = {})
    /\ flush_lock' = None
    /\ Goto(t, "idle")
    /\ UNCHANGED <<log_bounds, unpolled, bufferVars, flush_scheduled, batch, attempt, serverVars, history>>

\* An undeliverable batch takes the whole buffer with it and stops the reporter.
Stop(t) ==
    /\ pc[t] = "fail" /\ t \notin unpolled
    /\ drained' = Len(ends) /\ pending_bytes' = 0
    /\ delivery_stopped' = TRUE
    /\ flush_lock' = None
    /\ Goto(t, "idle")
    /\ UNCHANGED <<log_bounds, unpolled, ends, bytes_sent, flush_scheduled, batch, attempt, serverVars, history>>

------------------------------------------------------------------------------
(* ApiClient::report and the control plane. *)

\* Mutant: a key per attempt.
IdempotencyKeyPerAttempt(b, n) == b.first + n * MaxLines

\* One key for all attempts at a batch.
IdempotencyKey(b, n) == b.first

Request == [first |-> batch.first, last |-> batch.last, key |-> IdempotencyKey(batch, attempt)]

\* The control plane stores a request under a key it has not seen.
Store(r) ==
    IF r.key \in keys THEN UNCHANGED <<stored, keys>>
    ELSE stored' = stored \o Lines(r.first, r.last) /\ keys' = keys \union {r.key}

\* Mutant: attempts are not counted.
RetryForever(t) ==
    /\ Goto(t, "send")
    /\ UNCHANGED attempt

\* A transient failure: again under the same key, or give the batch up.
Retry(t) ==
    IF attempt + 1 < MaxAttempts
      THEN attempt' = attempt + 1 /\ UNCHANGED pc
      ELSE Goto(t, "fail") /\ attempt' = 0

\* Stored and acknowledged, all items of it.
Acknowledged(t) ==
    /\ pc[t] = "send" /\ t \notin unpolled
    /\ Store(Request)
    /\ Goto(t, "take") /\ attempt' = 0
    /\ UNCHANGED <<log_bounds, unpolled, bufferVars, flush_scheduled, flush_lock, batch, late, history>>

\* Stored, but the answer is lost or unreadable.
AnswerLost(t) ==
    /\ pc[t] = "send" /\ t \notin unpolled
    /\ Store(Request)
    /\ Retry(t)
    /\ UNCHANGED <<log_bounds, unpolled, bufferVars, flush_scheduled, flush_lock, batch, late, history>>

\* 408, 429, 5xx, or no connection: not stored, at least not yet.
RequestLost(t) ==
    /\ pc[t] = "send" /\ t \notin unpolled
    /\ late' = late \union {Request}
    /\ Retry(t)
    /\ UNCHANGED <<log_bounds, unpolled, bufferVars, flush_scheduled, flush_lock, batch, stored, keys, history>>

\* 409, 413, 422, or an acknowledgement that does not account for the batch.
Rejected(t) ==
    /\ pc[t] = "send" /\ t \notin unpolled
    /\ Store(Request) \/ UNCHANGED <<stored, keys>>
    /\ Goto(t, "fail") /\ attempt' = 0
    /\ UNCHANGED <<log_bounds, unpolled, bufferVars, flush_scheduled, flush_lock, batch, late, history>>

ArrivesLate(r) ==
    /\ r \in late
    /\ late' = late \ {r}
    /\ Store(r)
    /\ UNCHANGED <<log_bounds, unpolled, bufferVars, flush_scheduled, flush_lock, pc, batch, attempt, history>>

\* The build timeout, cancellation or an abort drops a caller at an await;
\* its request may be on its way, its batch is gone and nobody is told.
Drop(t) ==
    /\ pc[t] \in {"lock", "take", "send", "fail"}
    /\ flush_lock' = IF flush_lock = t THEN None ELSE flush_lock
    /\ late' = IF pc[t] = "send" THEN late \union {Request} ELSE late
    /\ dropped' = TRUE
    /\ lost' = IF pc[t] \in {"send", "fail"} THEN lost \union (batch.first..batch.last) ELSE lost
    /\ Goto(t, "idle") /\ attempt' = IF flush_lock = t THEN 0 ELSE attempt
    /\ UNCHANGED <<log_bounds, unpolled, bufferVars, flush_scheduled, batch, stored, keys>>

------------------------------------------------------------------------------
Answer(t) == Acknowledged(t) \/ AnswerLost(t) \/ RequestLost(t) \/ Rejected(t)

FlushStep(t) == Acquire(t) \/ Take(t) \/ Return(t) \/ Answer(t) \/ Stop(t)

Next ==
    \/ \E w \in Writers : Log(w) \/ ScheduleFlush(w)
    \/ \E t \in Timers : Wake(t)
    \/ \E w \in Execution : Suspend(w)
    \/ Flush
    \/ \E t \in Tasks : FlushStep(t)
    \/ \E t \in Tasks \ Timers : Drop(t)
    \/ \E r \in late : ArrivesLate(r)

Spec == Init /\ [][Next]_vars

(***************************************************************************)
(* Fairness: the delivery of a task that is polled goes on (requests are   *)
(* bounded by the client's timeout), a free flush_lock is taken by one of  *)
(* those who wait for it, and timers fire.  Nothing is assumed of callers: *)
(* they need not log or flush again, and those inside the execution may    *)
(* stay unpolled for ever without being dropped.                           *)
(***************************************************************************)
FairSpec ==
    /\ Spec
    /\ WF_vars(\E t \in Tasks : FlushStep(t))
    /\ WF_vars(\E w \in Writers : ScheduleFlush(w))
    /\ WF_vars(\E t \in Timers : Wake(t))

------------------------------------------------------------------------------
(* Properties. *)

Steps == {"idle", "schedule", "sleep", "lock", "take", "send", "fail"}

\* Type correctness; flush_lock is held by the one task that delivers, and the
\* scheduled flag is up exactly while a flush task sleeps.
TypeOK ==
    /\ log_bounds \in LogBounds
    /\ ends \in Seq(Nat) /\ drained \in 0..Len(ends)
    /\ pending_bytes \in Nat /\ bytes_sent \in Nat
    /\ delivery_stopped \in BOOLEAN /\ flush_scheduled \in BOOLEAN /\ dropped \in BOOLEAN
    /\ flush_lock \in Tasks \union {None}
    /\ pc \in [Tasks -> Steps] /\ unpolled \subseteq Execution
    /\ batch \in [first : Nat \ {0}, last : Nat] /\ attempt \in 0..(MaxAttempts - 1)
    /\ late \subseteq [first : Nat \ {0}, last : Nat, key : Nat]
    /\ stored \in Seq(Nat) /\ keys \subseteq Nat /\ lost \subseteq Nat
    /\ \A t \in Tasks : pc[t] \in {"take", "send", "fail"} <=> flush_lock = t
    /\ flush_scheduled <=> \E t \in Timers : pc[t] = "sleep"

\* The promise to the control plane: lines in order, without gaps and at most
\* once, in spite of retries, lost answers and late requests.
Delivery == INSTANCE LogDelivery WITH accepted <- Len(ends), closed <- delivery_stopped,
                                      gapped <- lost # {}
ImplementsDelivery == Delivery!Spec

\* A task that finds the buffer empty under flush_lock, as the processor's flush
\* does before the terminal report, knows that every accepted line is at the
\* control plane, except those a dropped caller took along.
FlushIsBarrier ==
    \A t \in Tasks : pc[t] = "take" /\ ~delivery_stopped =>
        \A n \in 1..drained : n \in Range(stored) \union lost

\* No buffered line is forgotten: some task will still flush it, unless a
\* caller was dropped before it did.
NoLineStranded ==
    Pending # {} /\ ~dropped => \E t \in Tasks : pc[t] # "idle"

\* What the control plane stores stays within max_total_bytes (its lines are
\* distinct, and none ends beyond that), every request within the batch policy,
\* and the byte count of the buffer is exact.
WithinPolicy ==
    /\ log_bounds.max_total_bytes # None
          => \A n \in Range(stored) : Offset(n) <= log_bounds.max_total_bytes
    /\ pending_bytes = Bytes(drained + 1, Len(ends))
    /\ batch.last < batch.first \/ batch.last = batch.first
          \/ /\ batch.last + 1 - batch.first <= batch_max_lines
             /\ Bytes(batch.first, batch.last) <= MaxBatchBytes

\* Every accepted line is stored in the end, unless delivery stops, a caller is
\* dropped, or the one that delivers is kept without being polled.
EveryLineSettles ==
    \A n \in 1..MaxLines :
        Len(ends) >= n ~> n \in Range(stored) \/ delivery_stopped \/ dropped \/ flush_lock \in unpolled
==============================================================================
