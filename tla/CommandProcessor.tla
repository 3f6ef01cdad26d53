-------------------------- MODULE CommandProcessor --------------------------
(***************************************************************************)
(* CommandProcessor::process (commands/processor.rs) for one command: the  *)
(* claim, the command.claimed event, the policy check, the execution       *)
(* future under a deadline, the post-commit grace, the final log flush and *)
(* the terminal report with its bounded retries (api/client.rs).           *)
(*                                                                         *)
(* The execution future is not a task: it makes progress only while        *)
(* process awaits it, and it is dropped only when it has finished or when  *)
(* process returns.  It shares the reporter's flush_lock                   *)
(* (reporting/runtime.rs) with process itself, with the background flush   *)
(* task and with the log follower, so the lock is modelled as tokio's: a   *)
(* FIFO queue of waiters whose head owns it, whether or not it is polled.  *)
(* A cancelled deployment is itself suspended inside the execution while   *)
(* run_deployment cleans up and logs: the two wait for the lock apart.     *)
(***************************************************************************)
EXTENDS Integers, SequencesExt

CONSTANTS
    MaxAttempts,    \* RetryPolicy.max_attempts
    LogBudget,      \* lines the log follower may still send: log_bounds.max_total_bytes
    Unlimited,      \* the LogBudget of a command without max_total_bytes
    MaxFlushTasks   \* bound of the model: background flushes waiting at one time

ASSUME ProcessorAssumption ==
    /\ MaxAttempts \in Nat \ {0} /\ MaxFlushTasks \in Nat \ {0}
    /\ LogBudget \in Nat \union {Unlimited} /\ Unlimited \notin Nat

VARIABLES
    record,         \* status of the command record at the control plane
    pc,             \* where process is
    exec,           \* where the execution future is
    result,         \* what the execution future returned
    flush_lock,     \* queue of flush_pending callers; the head holds the lock
    posting,        \* batch the holder has on the wire: whose lines it carries
    pending,        \* whose log lines are buffered
    stopped,        \* delivery_stopped is latched
    scheduled,      \* flush_scheduled: a background flush is sleeping
    follower,       \* the container's log follower was started
    budget,         \* lines the follower may still send
    committed,      \* reporter.deployment_committed
    cancelled,      \* the command's cancellation token
    outcome,        \* what process decided to report
    attempts,       \* terminal requests sent
    answer          \* how the terminal report ended

execVars  == <<exec, result, committed>>
logVars   == <<flush_lock, posting, pending, stopped, scheduled, follower, budget>>
endVars   == <<outcome, attempts, answer>>
vars == <<record, pc, execVars, logVars, cancelled, endVars>>

Terminal == {"Succeeded", "Failed", "Cancelled", "Expired"}

\* process awaits the execution future: the only time it makes progress.
Polled == pc \in {"run", "grace", "window"}

Returned == pc \in {"returned", "aborted"}

Holds(h)  == flush_lock # <<>> /\ Head(flush_lock) = h
Queued(h) == \E i \in DOMAIN flush_lock : flush_lock[i] = h

\* The queue without h, which waits in it at most once.
Without(q, h) ==
    IF \E i \in DOMAIN q : q[i] = h THEN RemoveAt(q, CHOOSE i \in DOMAIN q : q[i] = h) ELSE q

\* Dropping a future releases the lock it holds and leaves the queue.
DropExec ==
    /\ flush_lock' = Without(Without(flush_lock, "exec"), "cleanup")
    /\ posting' = IF Holds("exec") \/ Holds("cleanup") THEN {} ELSE posting

DropAll ==
    /\ flush_lock' = Without(Without(Without(flush_lock, "exec"), "cleanup"), "process")
    /\ posting' = IF Holds("exec") \/ Holds("cleanup") \/ Holds("process") THEN {} ELSE posting

Init ==
    /\ record = "Pending" /\ pc = "claim"
    /\ exec = "none" /\ result = "none" /\ committed = FALSE
    /\ flush_lock = <<>> /\ posting = {}
    /\ pending = {} /\ stopped = FALSE /\ scheduled = FALSE
    /\ follower = FALSE /\ budget = LogBudget
    /\ cancelled = FALSE
    /\ outcome = "none" /\ attempts = 0 /\ answer = "none"

------------------------------------------------------------------------------
(* Before the execution. *)

\* The claim is sent once.  A conflict is skipped; a lost answer is an error
\* that leaves the record claimed by this agent.
Claim ==
    /\ pc = "claim"
    /\ \/ record = "Pending" /\ record' = "Claimed" /\ pc' \in {"event", "returned"}
       \/ pc' = "returned" /\ UNCHANGED record
    /\ UNCHANGED <<execVars, logVars, cancelled, endVars>>

\* Mutant: an event that could not be delivered does not stop the command.
ClaimedEventBestEffort ==
    /\ pc = "event"
    /\ \/ record = "Claimed" /\ record' = "Running"
       \/ UNCHANGED record
    /\ pc' = "policy"
    /\ UNCHANGED <<execVars, logVars, cancelled, endVars>>

\* The first report of the owner makes the record Running.  When the event is
\* refused or its retries are exhausted process returns without a terminal
\* report, although the event may have been recorded.
ClaimedEvent ==
    /\ pc = "event"
    /\ \/ record = "Claimed" /\ record' = "Running" /\ pc' \in {"policy", "returned"}
       \/ pc' = "returned" /\ UNCHANGED record
    /\ UNCHANGED <<execVars, logVars, cancelled, endVars>>

\* command_policy: an invalid payload or timeout is failed without executing.
CommandPolicy ==
    /\ pc = "policy"
    /\ \/ pc' = "run" /\ exec' = "working" /\ UNCHANGED outcome
       \/ pc' = "terminal" /\ outcome' = "Failed" /\ UNCHANGED exec
    /\ UNCHANGED <<record, result, committed, logVars, cancelled, attempts, answer>>

------------------------------------------------------------------------------
(* The execution future. *)

\* Who is at work in it: the deployment, or the cleanup that follows when its
\* cancellation was observed, beside the deployment that is no longer polled.
Part == IF exec = "cleanup" THEN "cleanup" ELSE "exec"

\* It goes on unless it is inside a reporter.log that flushes.
ExecRuns == Polled /\ exec \in {"working", "finalizing", "cleanup"} /\ ~Queued(Part)

\* reporter.log: a line is buffered; a full batch is flushed by the caller, a
\* partial one by a task that schedule_flush spawns unless one is sleeping.
ExecLog ==
    /\ ExecRuns /\ ~stopped
    /\ pending' = pending \union {"command"}
    /\ \/ flush_lock' = Append(flush_lock, Part) /\ UNCHANGED scheduled
       \/ scheduled' = TRUE /\ UNCHANGED flush_lock
    /\ UNCHANGED <<record, pc, execVars, posting, stopped, follower, budget, cancelled, endVars>>

\* The route is activated: the deployment commit point.
ExecCommit ==
    /\ ExecRuns /\ exec = "working"
    /\ exec' = "finalizing" /\ committed' = TRUE
    /\ UNCHANGED <<record, pc, result, logVars, cancelled, endVars>>

\* The future finishes, with success or an error, and its locals are dropped.
\* A committed deployment has started its log follower by then.
ExecReturn(r) ==
    /\ ExecRuns /\ (exec = "cleanup" => r = "err")
    /\ exec' = "finished" /\ result' = r
    /\ DropExec
    /\ follower' = (follower \/ exec = "finalizing")
    /\ UNCHANGED <<record, pc, committed, pending, stopped, scheduled, budget, cancelled, endVars>>

\* Cancellation before the cutover: the runtime stops polling the deployment,
\* wherever it is, and cleans up the candidate without dropping it yet.
ExecObserveCancel ==
    /\ Polled /\ exec = "working" /\ cancelled
    /\ exec' = "cleanup"
    /\ UNCHANGED <<record, pc, result, committed, logVars, cancelled, endVars>>

------------------------------------------------------------------------------
(* flush_pending, called by the execution, by the background flush task, by the
   log follower and by process. *)

Callers == {"exec", "cleanup", "task", "follower", "process"}

\* A caller that is suspended keeps its place, and the lock if it has it.
Runs(h) ==
    \/ h = Part /\ Polled /\ exec \in {"working", "finalizing", "cleanup"}
    \/ h \in {"task", "follower"}
    \/ h = "process" /\ pc = "flush"

\* Under the lock: take the buffered lines, or return when there are none or
\* when delivery was stopped.
FlushPending(h) ==
    /\ Holds(h) /\ Runs(h) /\ posting = {}
    /\ IF pending # {} /\ ~stopped
         THEN /\ posting' = pending /\ pending' = {}
              /\ UNCHANGED <<flush_lock, pc>>
         ELSE /\ flush_lock' = Tail(flush_lock)
              /\ pc' = IF h = "process" THEN "terminal" ELSE pc
              /\ UNCHANGED <<posting, pending>>
    /\ UNCHANGED <<record, execVars, stopped, scheduled, follower, budget, cancelled, endVars>>

\* The batch is acknowledged, or rejected for good after its retries.
FlushReply(h) ==
    /\ Holds(h) /\ Runs(h) /\ posting # {}
    /\ posting' = {}
    /\ \/ UNCHANGED <<pending, stopped>>
       \/ stopped' = TRUE /\ pending' = {}
    /\ UNCHANGED <<record, pc, execVars, flush_lock, scheduled, follower, budget, cancelled, endVars>>

FlushTasks == Len(SelectSeq(flush_lock, LAMBDA h : h = "task"))

\* The scheduled flush wakes up: it clears flush_scheduled before it flushes,
\* so that a line buffered from now on schedules the next one.
FlushTimer ==
    /\ scheduled /\ FlushTasks < MaxFlushTasks
    /\ scheduled' = FALSE
    /\ flush_lock' = Append(flush_lock, "task")
    /\ UNCHANGED <<record, pc, execVars, posting, pending, stopped, follower, budget, cancelled, endVars>>

\* The follower of the live container reports through the same reporter, during
\* and after the command, as long as the budget lasts; it waits for the flush
\* when its line fills a batch.
FollowerLog ==
    /\ follower /\ ~Queued("follower") /\ budget # 0 /\ ~stopped
    /\ budget' = IF budget = Unlimited THEN Unlimited ELSE budget - 1
    /\ pending' = pending \union {"follower"}
    /\ \/ flush_lock' = Append(flush_lock, "follower") /\ UNCHANGED scheduled
       \/ scheduled' = TRUE /\ UNCHANGED flush_lock
    /\ UNCHANGED <<record, pc, execVars, posting, stopped, follower, cancelled, endVars>>

------------------------------------------------------------------------------
(* The deadline and the outcome. *)

\* Mutant: the logs are left to the background flush.
DecideWithoutFlush(o) ==
    /\ outcome' = o /\ pc' = "terminal"
    /\ UNCHANGED <<record, execVars, logVars, attempts, answer>>

\* Every path to the report first flushes the buffered logs.
Decide(o) ==
    /\ outcome' = o /\ pc' = "flush"
    /\ flush_lock' = Append(flush_lock, "process")
    /\ UNCHANGED <<record, execVars, posting, pending, stopped, scheduled, follower, budget, attempts,
                   answer>>

\* Mutant: every error fails the command.
ErrorAlwaysFails == "Failed"

\* An error of a committed deployment is reported as a deferred completion.
ErrorOutcome == IF committed THEN "Deferred" ELSE "Failed"

\* The select is biased: a finished execution wins over the deadline.
ExecutionResult ==
    /\ pc \in {"run", "grace"} /\ exec = "finished"
    /\ Decide(IF result = "ok" THEN "Succeeded" ELSE ErrorOutcome)
    /\ UNCHANGED cancelled

Deadline ==
    /\ pc = "run" /\ exec # "finished"
    /\ IF committed THEN pc' = "grace" /\ UNCHANGED cancelled
                    ELSE pc' = "window" /\ cancelled' = TRUE
    /\ UNCHANGED <<record, execVars, logVars, endVars>>

\* Mutant: the finalization of a committed deployment is awaited without bound.
GraceWithoutBound ==
    /\ pc = "grace" /\ exec = "finished"
    /\ Decide("Deferred") /\ cancelled' = TRUE

GraceElapsed ==
    /\ pc = "grace" /\ exec # "finished"
    /\ Decide("Deferred") /\ cancelled' = TRUE

\* The one second cleanup window: its result is ignored, it ends in a timeout.
WindowEnds ==
    /\ pc = "window"
    /\ Decide(ErrorOutcome) /\ UNCHANGED cancelled

------------------------------------------------------------------------------
(* The terminal report. *)

Reported == IF outcome = "Failed" THEN "Failed" ELSE "Succeeded"

\* The control plane applies complete or fail to a running record; on a
\* terminal one it is idempotent or answers 409 with the recorded status.
Recorded == IF record \in Terminal THEN record ELSE Reported

\* Mutant: every conflict counts as delivered.
PostTerminalAnyConflict ==
    /\ pc = "terminal"
    /\ attempts' = attempts + 1
    /\ record' = Recorded /\ pc' = "returned" /\ answer' = "acknowledged"
    /\ DropAll
    /\ UNCHANGED <<execVars, pending, stopped, scheduled, follower, budget, cancelled, outcome>>

\* Mutant: one attempt too many.
PostTerminalOneMore ==
    /\ pc = "terminal"
    /\ attempts' = attempts + 1
    /\ \/ pc' = "returned" /\ answer' = "undelivered"
       \/ attempts <= MaxAttempts /\ UNCHANGED <<pc, answer>>
    /\ UNCHANGED <<record, execVars, logVars, cancelled, outcome>>

\* post_terminal: one request.  The answer may be lost after the transition,
\* or the request before it; both are retried up to MaxAttempts in all.
PostTerminal ==
    /\ pc = "terminal"
    /\ attempts' = attempts + 1
    /\ \/ /\ record' = Recorded /\ pc' = "returned"
          /\ answer' = IF Recorded = Reported THEN "acknowledged" ELSE "conflict"
       \/ /\ record' \in {record, Recorded}
          /\ IF attempts + 1 < MaxAttempts
               THEN UNCHANGED <<pc, answer>>
               ELSE pc' = "returned" /\ answer' = "undelivered"
    /\ IF pc' = "returned" THEN DropAll ELSE UNCHANGED <<flush_lock, posting>>
    /\ UNCHANGED <<execVars, pending, stopped, scheduled, follower, budget, cancelled, outcome>>

------------------------------------------------------------------------------
(* The environment. *)

\* The poller cancels the token at shutdown ...
ShutdownCancel ==
    /\ ~cancelled /\ ~Returned
    /\ cancelled' = TRUE
    /\ UNCHANGED <<record, pc, execVars, logVars, endVars>>

\* ... and aborts the task after the grace period; a crash looks the same from
\* the control plane.
Abort ==
    /\ cancelled /\ ~Returned
    /\ pc' = "aborted"
    /\ DropAll
    /\ UNCHANGED <<record, execVars, pending, stopped, scheduled, follower, budget, cancelled, endVars>>

\* Control plane: a pending command is withdrawn, a lease runs out.
Withdraw ==
    /\ record = "Pending" /\ record' \in {"Cancelled", "Expired"}
    /\ UNCHANGED <<pc, execVars, logVars, cancelled, endVars>>

LeaseExpires ==
    /\ record \in {"Claimed", "Running"} /\ record' = "Expired"
    /\ UNCHANGED <<pc, execVars, logVars, cancelled, endVars>>

------------------------------------------------------------------------------
ProcessStep ==
    \/ Claim \/ ClaimedEvent \/ CommandPolicy \/ ExecutionResult \/ Deadline
    \/ GraceElapsed \/ WindowEnds \/ PostTerminal
    \/ FlushPending("process") \/ FlushReply("process")

TaskStep == FlushTimer \/ \E h \in {"task", "follower"} : FlushPending(h) \/ FlushReply(h)

ExecStep ==
    \/ ExecLog \/ ExecCommit \/ ExecObserveCancel \/ \E r \in {"ok", "err"} : ExecReturn(r)
    \/ \E h \in {"exec", "cleanup"} : FlushPending(h) \/ FlushReply(h)

Next ==
    \/ ProcessStep \/ TaskStep \/ ExecStep \/ FollowerLog
    \/ ShutdownCancel \/ Abort \/ Withdraw \/ LeaseExpires

Spec == Init /\ [][Next]_vars

(***************************************************************************)
(* Fairness: requests end within the HTTP timeout and timers fire, so      *)
(* process, the background flush and a follower that flushes take every    *)
(* step they can.  The execution itself may hang for ever: the deadline is *)
(* there for it.                                                           *)
(***************************************************************************)
FairSpec == Spec /\ WF_vars(ProcessStep) /\ WF_vars(TaskStep)

------------------------------------------------------------------------------
(* Properties. *)

\* Type correctness, with at most one request per attempt.  The follower, process,
\* the deployment and the cleanup beside it wait for flush_lock once each; only
\* background flushes may be there in any number.
TypeOK ==
    /\ record \in {"Pending", "Claimed", "Running"} \union Terminal
    /\ pc \in {"claim", "event", "policy", "run", "grace", "window", "flush", "terminal",
               "returned", "aborted"}
    /\ exec \in {"none", "working", "finalizing", "cleanup", "finished"}
    /\ result \in {"none", "ok", "err"}
    /\ flush_lock \in Seq(Callers)
    /\ \A i, j \in DOMAIN flush_lock : flush_lock[i] = flush_lock[j] => i = j \/ flush_lock[i] = "task"
    /\ posting \subseteq {"command", "follower"} /\ pending \subseteq {"command", "follower"}
    /\ {stopped, scheduled, follower, committed, cancelled} \subseteq BOOLEAN
    /\ budget \in Nat \union {Unlimited}
    /\ outcome \in {"none", "Succeeded", "Failed", "Deferred"}
    /\ attempts \in 0..MaxAttempts
    /\ answer \in {"none", "acknowledged", "conflict", "undelivered"}

\* The record follows the command contract: in particular a deployment that is
\* live is never recorded as failed, and a success is backed by the runtime,
\* through deadlines, cancellations, lost answers and expired leases.
Contract == INSTANCE CommandContract WITH succeeded <- (result = "ok")
ImplementsContract == Contract!CSpec

\* When complete or fail is taken as acknowledged, the record says the same,
\* even if an earlier attempt or the lease expiry decided it.
AcknowledgedIsRecorded ==
    answer = "acknowledged" => record = Reported

\* No request for the terminal transition is sent while log lines that the
\* command itself produced are buffered or on the wire.
LogsPrecedeTerminal ==
    pc = "terminal" => "command" \notin pending \union posting

\* The runtime only works on a command whose claim was won and announced: never
\* on one that was withdrawn or claimed by somebody else.
RunsOnlyWhenOwned ==
    exec # "none" => record \notin {"Pending", "Claimed", "Cancelled"}

\* process ends, unless it waits for a lock kept by the execution it suspended.
SelfBlocked == pc = "flush" /\ (Queued("exec") \/ Queued("cleanup"))
ReturnsUnlessSelfBlocked == (pc = "claim") ~> (Returned \/ SelfBlocked)

\* process always ends: after the deadline and the bounded grace it reports.
ProcessReturns == (pc = "claim") ~> Returned
==============================================================================
