----------------------- MODULE CommandProcessorProofs -----------------------
(***************************************************************************)
(* The safety properties of CommandProcessor, and that it implements       *)
(* CommandContract, for every number of attempts, every log budget and any *)
(* number of background flushes.                                           *)
(***************************************************************************)
EXTENDS CommandProcessor, SequenceTheorems, TLAPS

------------------------------------------------------------------------------
(* Queues: membership, and being in the queue at most once. *)

In(q, h)   == \E i \in DOMAIN q : q[i] = h
Once(q, h) == \A i, j \in DOMAIN q : q[i] = h /\ q[j] = h => i = j

\* Leaving the queue disturbs nobody else, and who was in it once is gone.
LEMMA WithoutProperties ==
    ASSUME NEW S, NEW q \in Seq(S), NEW h
    PROVE  /\ Without(q, h) \in Seq(S)
           /\ \A g : ~In(q, g) => ~In(Without(q, h), g)
           /\ \A g : Once(q, g) => Once(Without(q, h), g)
           /\ Once(q, h) => ~In(Without(q, h), h)
  <1>0. DOMAIN q = 1..Len(q) /\ Len(q) \in Nat
    OBVIOUS
  <1>1. CASE \E i \in DOMAIN q : q[i] = h
    <2>1. PICK k \in 1..Len(q) : q[k] = h /\ Without(q, h) = RemoveAt(q, k)
      BY <1>0, <1>1 DEF Without
    <2> DEFINE a == SubSeq(q, 1, k-1)
               b == SubSeq(q, k+1, Len(q))
               r == a \o b
    <2>2. a \in Seq(S) /\ Len(a) = k-1 /\ \A i \in 1..(k-1) : a[i] = q[i]
      <3>1. (\A i \in 1..(k-1) : q[i] \in S) /\ k-1 \in Int
        BY <1>0
      <3> QED BY <3>1, <1>0, SubSeqProperties
    <2>3. b \in Seq(S) /\ Len(b) = Len(q)-k /\ \A i \in 1..(Len(q)-k) : b[i] = q[k+i]
      <3>1. (\A i \in (k+1)..Len(q) : q[i] \in S) /\ k+1 \in Int /\ Len(q) \in Int
        BY <1>0
      <3>2. /\ b \in Seq(S) /\ Len(b) = (IF k+1 <= Len(q) THEN Len(q)-(k+1)+1 ELSE 0)
            /\ \A i \in 1..(Len(q)-(k+1)+1) : b[i] = q[(k+1)+i-1]
        BY <3>1, SubSeqProperties
      <3> HIDE DEF b
      <3>3. ASSUME NEW i \in 1..(Len(q)-k) PROVE b[i] = q[k+i]
        <4>1. i \in 1..(Len(q)-(k+1)+1) /\ (k+1)+i-1 = k+i
          BY <1>0
        <4> QED BY <3>2, <4>1
      <3>4. Len(b) = Len(q)-k
        <4>1. CASE k+1 <= Len(q)
          <5>1. Len(b) = Len(q)-(k+1)+1
            BY <3>2, <4>1
          <5> QED BY <1>0, <5>1
        <4>2. CASE ~(k+1 <= Len(q))
          <5>1. Len(b) = 0
            BY <3>2, <4>2
          <5>2. k = Len(q)
            <6> DEFINE n == Len(q)
            <6>1. n \in Nat /\ k \in 1..n /\ ~(k+1 <= n)
              BY <1>0, <4>2
            <6> HIDE DEF n
            <6>2. k = n
              BY <6>1
            <6> QED BY <6>2 DEF n
          <5> QED BY <1>0, <5>1, <5>2
        <4> QED BY <4>1, <4>2
      <3> QED BY <3>2, <3>3, <3>4
    <2>4. /\ r \in Seq(S) /\ Len(r) = Len(q)-1
          /\ \A i \in 1..Len(r) : r[i] = IF i < k THEN q[i] ELSE q[i+1]
      <3> HIDE DEF a, b
      <3>1. /\ r \in Seq(S) /\ Len(r) = Len(a) + Len(b)
            /\ \A i \in 1..(Len(a) + Len(b)) : r[i] = IF i <= Len(a) THEN a[i] ELSE b[i - Len(a)]
        BY <2>2, <2>3, ConcatProperties
      <3> HIDE DEF r
      <3>2. Len(r) = Len(q)-1
        BY <2>2, <2>3, <1>0, <3>1
      <3>3. ASSUME NEW i \in 1..Len(r) PROVE r[i] = IF i < k THEN q[i] ELSE q[i+1]
        <4>1. CASE i < k
          BY <4>1, <1>0, <2>2, <2>3, <3>1, <3>2
        <4>2. CASE ~(i < k)
          <5>1. i - (k-1) \in 1..(Len(q)-k) /\ k + (i - (k-1)) = i+1
            BY <1>0, <3>2, <4>2
          <5>2. r[i] = b[i - (k-1)]
            BY <1>0, <2>2, <2>3, <3>1, <3>2, <4>2
          <5> QED BY <4>2, <5>1, <5>2, <2>3
        <4> QED BY <4>1, <4>2
      <3> QED BY <3>1, <3>2, <3>3
    <2>5. Without(q, h) = r
      BY <2>1 DEF RemoveAt
    <2> HIDE DEF r
    <2>6. DOMAIN r = 1..Len(r)
      BY <2>4
    <2>7. ASSUME NEW i \in DOMAIN r
          PROVE  r[i] = q[IF i < k THEN i ELSE i+1] /\ (IF i < k THEN i ELSE i+1) \in (DOMAIN q) \ {k}
      BY <1>0, <2>4, <2>6
    <2>8. \A g : ~In(q, g) => ~In(r, g)
      BY <2>7 DEF In
    <2>9. \A g : Once(q, g) => Once(r, g)
      BY <2>7, <2>6, <2>4, <1>0 DEF Once
    <2>10. Once(q, h) => ~In(r, h)
      BY <2>7, <2>1, <1>0 DEF Once, In
    <2> QED BY <2>4, <2>5, <2>8, <2>9, <2>10
  <1>2. CASE ~ \E i \in DOMAIN q : q[i] = h
    BY <1>2 DEF Without, In
  <1> QED BY <1>1, <1>2

\* The two parts of the execution leave together.
LEMMA WithoutTwice ==
    ASSUME NEW S, NEW q \in Seq(S), NEW h, NEW k
    PROVE  LET r == Without(Without(q, h), k) IN
           /\ r \in Seq(S)
           /\ \A g : ~In(q, g) => ~In(r, g)
           /\ \A g : Once(q, g) => Once(r, g)
  <1> DEFINE p == Without(q, h)
  <1>1. /\ p \in Seq(S)
        /\ \A g : ~In(q, g) => ~In(p, g)
        /\ \A g : Once(q, g) => Once(p, g)
    BY WithoutProperties
  <1> HIDE DEF p
  <1>2. /\ Without(p, k) \in Seq(S)
        /\ \A g : ~In(p, g) => ~In(Without(p, k), g)
        /\ \A g : Once(p, g) => Once(Without(p, k), g)
    BY <1>1, WithoutProperties
  <1> QED BY <1>1, <1>2 DEF p

\* Joining the queue.
LEMMA JoinProperties ==
    ASSUME NEW S, NEW q \in Seq(S), NEW h \in S
    PROVE  /\ Append(q, h) \in Seq(S)
           /\ \A g : g # h /\ ~In(q, g) => ~In(Append(q, h), g)
           /\ \A g : g # h /\ Once(q, g) => Once(Append(q, h), g)
           /\ ~In(q, h) => Once(Append(q, h), h)
  BY DEF In, Once

\* The head is served.
LEMMA ServeProperties ==
    ASSUME NEW S, NEW q \in Seq(S), q # <<>>
    PROVE  /\ Tail(q) \in Seq(S)
           /\ \A g : ~In(q, g) => ~In(Tail(q), g)
           /\ \A g : Once(q, g) => Once(Tail(q), g)
           /\ Once(q, Head(q)) => ~In(Tail(q), Head(q))
  BY DEF In, Once

------------------------------------------------------------------------------
(* The inductive invariant. *)

\* The steps before the execution starts.
Before == {"claim", "event", "policy"}

\* The types of all that is no lock, flag or timer.
DataTypes ==
    /\ record \in {"Pending", "Claimed", "Running"} \union Terminal
    /\ pc \in {"claim", "event", "policy", "run", "grace", "window", "flush", "terminal",
               "returned", "aborted"}
    /\ exec \in {"none", "working", "finalizing", "cleanup", "finished"}
    /\ result \in {"none", "ok", "err"}
    /\ posting \subseteq {"command", "follower"} /\ pending \subseteq {"command", "follower"}
    /\ budget \in Nat \union {Unlimited}
    /\ outcome \in {"none", "Succeeded", "Failed", "Deferred"}
    /\ attempts \in 0..MaxAttempts
    /\ answer \in {"none", "acknowledged", "conflict", "undelivered"}

\* The types of the flags.
Flags ==
    /\ stopped \in BOOLEAN /\ scheduled \in BOOLEAN
    /\ follower \in BOOLEAN /\ committed \in BOOLEAN /\ cancelled \in BOOLEAN

\* The command is announced before it executes, and nothing is reported before
\* the execution is given up.
RecordInv ==
    /\ pc \in {"policy", "run", "grace", "window", "flush"} => record \in {"Running", "Expired"}
    /\ pc = "terminal" \/ exec # "none" => record \in {"Running", "Succeeded", "Failed", "Expired"}

\* Without an execution there are no logs and there is no deployment.
ExecInv ==
    /\ pc \in Before => exec = "none"
    /\ exec = "none" => /\ pending = {} /\ posting = {} /\ ~follower /\ ~committed
                        /\ pc \notin {"run", "grace", "window", "flush"}
    /\ exec = "working" => ~committed
    /\ exec # "finished" => result = "none"
    /\ pc = "grace" => committed
    /\ stopped => pending = {}

\* What process decided to report is what the runtime did, and stays so.
OutcomeInv ==
    /\ pc \in Before \union {"run", "grace", "window"} => outcome = "none"
    /\ pc \in {"flush", "terminal"} => outcome # "none"
    /\ outcome = "Failed" => ~committed
    /\ outcome = "Succeeded" => result = "ok"
    /\ outcome = "Deferred" => committed

\* An attempt is left until process returns.
AttemptInv ==
    /\ pc \notin {"terminal", "returned", "aborted"} => attempts = 0
    /\ pc = "terminal" => attempts < MaxAttempts
    /\ answer # "none" => pc = "returned"

\* What is known of the data.
DataInv ==
    /\ DataTypes /\ RecordInv /\ ExecInv /\ OutcomeInv /\ AttemptInv
    /\ AcknowledgedIsRecorded /\ LogsPrecedeTerminal

\* All but the background flushes are in the queue at most once, and process
\* only while it flushes.
QueueInv ==
    /\ flush_lock \in Seq(Callers)
    /\ \A h \in Callers \ {"task"} : Once(flush_lock, h)
    /\ In(flush_lock, "process") => pc = "flush"

\* The inductive invariant.
IInv == DataInv /\ Flags /\ QueueInv

\* The invariant says what the properties say.
LEMMA InvImplies ==
    IInv => TypeOK /\ AcknowledgedIsRecorded /\ LogsPrecedeTerminal /\ RunsOnlyWhenOwned
  <1> SUFFICES ASSUME IInv
               PROVE  TypeOK /\ AcknowledgedIsRecorded /\ LogsPrecedeTerminal /\ RunsOnlyWhenOwned
    OBVIOUS
  <1>1. ASSUME NEW i \in DOMAIN flush_lock, NEW j \in DOMAIN flush_lock,
               flush_lock[i] = flush_lock[j]
        PROVE  i = j \/ flush_lock[i] = "task"
    BY <1>1 DEF IInv, QueueInv, Once, Callers
  <1>2. {stopped, scheduled, follower, committed, cancelled} \subseteq BOOLEAN
    BY Zenon DEF IInv, Flags
  <1>3. DataTypes /\ flush_lock \in Seq(Callers)
    BY DEF IInv, DataInv, QueueInv
  <1>4. TypeOK
    BY <1>1, <1>2, <1>3 DEF TypeOK, DataTypes
  <1> QED BY <1>4 DEF IInv, DataInv, RecordInv, RunsOnlyWhenOwned

\* A command that was polled and not claimed satisfies the invariant.
LEMMA InitInv ==
    Init => IInv
  <1> SUFFICES ASSUME Init PROVE IInv
    OBVIOUS
  <1>1. DataInv
    BY ProcessorAssumption
    DEF Init, DataInv, DataTypes, RecordInv, ExecInv, OutcomeInv, AttemptInv, Before,
        AcknowledgedIsRecorded, LogsPrecedeTerminal
  <1>2. Flags
    BY DEF Init, Flags
  <1>3. QueueInv
    BY DEF Init, QueueInv, In, Once
  <1> QED BY <1>1, <1>2, <1>3 DEF IInv

------------------------------------------------------------------------------
(* The data: which step may do what to the record, the logs and the outcome. *)

\* Every step keeps what is known of the data.
LEMMA DataStep ==
    ASSUME IInv, [Next]_vars
    PROVE  DataInv'
  <1> USE DEF DataInv, DataTypes, RecordInv, ExecInv, OutcomeInv, AttemptInv, Before,
              AcknowledgedIsRecorded, LogsPrecedeTerminal, Reported,
              execVars, logVars, endVars
  <1>0. DataInv /\ Flags
    BY DEF IInv
  <1>1. CASE Claim
    BY <1>0, <1>1, ProcessorAssumption DEF Claim
  <1>2. CASE ClaimedEvent
    BY <1>0, <1>2, ProcessorAssumption DEF ClaimedEvent
  <1>3. CASE CommandPolicy
    BY <1>0, <1>3, ProcessorAssumption DEF CommandPolicy
  <1>4. CASE ExecutionResult
    BY <1>0, <1>4, ProcessorAssumption DEF ExecutionResult, Decide, ErrorOutcome
  <1>5. CASE Deadline
    BY <1>0, <1>5, ProcessorAssumption DEF Deadline
  <1>6. CASE GraceElapsed
    BY <1>0, <1>6, ProcessorAssumption DEF GraceElapsed, Decide
  <1>7. CASE WindowEnds
    BY <1>0, <1>7, ProcessorAssumption DEF WindowEnds, Decide, ErrorOutcome
  <1>8. CASE PostTerminal
    <2>1. /\ pc = "terminal" /\ attempts' = attempts + 1 /\ pc' \in {"terminal", "returned"}
          /\ record' \in {record, Recorded}
          /\ pc' = "terminal" => attempts + 1 < MaxAttempts /\ UNCHANGED answer
          /\ pc' = "returned" => /\ answer' \in {"acknowledged", "conflict", "undelivered"}
                                 /\ answer' = "acknowledged" => record' = Reported
          /\ posting' \subseteq posting
          /\ UNCHANGED <<exec, result, committed, pending, stopped, follower, budget, outcome>>
      BY <1>8 DEF PostTerminal, DropAll
    <2>2. attempts' \in 0..MaxAttempts /\ (pc' = "terminal" => attempts' < MaxAttempts)
      BY <1>0, <2>1, ProcessorAssumption
    <2>3. record \in {"Running", "Succeeded", "Failed", "Expired"}
      BY <1>0, <2>1
    <2>4. record' \in {"Running", "Succeeded", "Failed", "Expired"}
      BY <2>1, <2>3 DEF Recorded
    <2> QED BY <1>0, <2>1, <2>2, <2>4 DEF Terminal
  <1>9. CASE FlushTimer
    BY <1>0, <1>9, ProcessorAssumption DEF FlushTimer
  <1>10. CASE ExecLog
    BY <1>0, <1>10, ProcessorAssumption DEF ExecLog, ExecRuns, Polled
  <1>11. CASE ExecCommit
    BY <1>0, <1>11, ProcessorAssumption DEF ExecCommit, ExecRuns, Polled
  <1>12. CASE ExecObserveCancel
    BY <1>0, <1>12, ProcessorAssumption DEF ExecObserveCancel, Polled
  <1>13. CASE FollowerLog
    BY <1>0, <1>13, ProcessorAssumption DEF FollowerLog
  <1>14. CASE ShutdownCancel
    BY <1>0, <1>14, ProcessorAssumption DEF ShutdownCancel
  <1>15. CASE Abort
    BY <1>0, <1>15, ProcessorAssumption DEF Abort, DropAll, Returned
  <1>16. CASE Withdraw
    BY <1>0, <1>16, ProcessorAssumption DEF Withdraw, Terminal
  <1>17. CASE LeaseExpires
    BY <1>0, <1>17, ProcessorAssumption DEF LeaseExpires, Terminal
  <1>18. ASSUME NEW r \in {"ok", "err"}, ExecReturn(r) PROVE DataInv'
    BY <1>0, <1>18, ProcessorAssumption DEF ExecReturn, ExecRuns, Polled, DropExec
  <1>19. ASSUME NEW h \in Callers, FlushPending(h) PROVE DataInv'
    <2>1. CASE pending # {} /\ ~stopped
      <3>1. /\ posting' = pending /\ pending' = {}
            /\ UNCHANGED <<record, pc, exec, result, committed, stopped, follower, budget, outcome,
                          attempts, answer>>
        BY <1>19, <2>1 DEF FlushPending
      <3> QED BY <1>0, <3>1
    <2>2. CASE ~(pending # {} /\ ~stopped)
      <3>1. pending = {} /\ posting = {}
        BY <1>0, <1>19, <2>2 DEF FlushPending
      <3>2. /\ UNCHANGED <<record, exec, result, committed, stopped, follower, budget, outcome,
                          attempts, answer, pending, posting>>
            /\ pc' = IF h = "process" THEN "terminal" ELSE pc
        BY <1>19, <2>2 DEF FlushPending
      <3>3. h = "process" => pc = "flush"
        BY <1>19 DEF FlushPending, Runs, Part
      <3> QED BY <1>0, <3>1, <3>2, <3>3, ProcessorAssumption
    <2> QED BY <2>1, <2>2
  <1>20. ASSUME NEW h \in Callers, FlushReply(h) PROVE DataInv'
    <2>1. /\ posting' = {} /\ pending' \in {pending, {}}
          /\ (stopped' = stopped /\ pending' = pending) \/ pending' = {}
          /\ UNCHANGED <<record, pc, exec, result, committed, follower, budget, outcome, attempts,
                         answer>>
      BY <1>20 DEF FlushReply
    <2> QED BY <1>0, <2>1
  <1>21. CASE UNCHANGED vars
    BY <1>0, <1>21 DEF vars
  <1> QED BY <1>1, <1>2, <1>3, <1>4, <1>5, <1>6, <1>7, <1>8, <1>9, <1>10, <1>11, <1>12, <1>13,
             <1>14, <1>15, <1>16, <1>17, <1>18, <1>19, <1>20, <1>21
          DEF Next, ProcessStep, TaskStep, ExecStep, Callers

\* Every step keeps the types of the flags.
LEMMA FlagStep ==
    ASSUME IInv, [Next]_vars
    PROVE  Flags'
  <1> USE DEF Flags, execVars, logVars, endVars
  <1>0. Flags
    BY DEF IInv
  <1>1. CASE Claim
    BY <1>0, <1>1 DEF Claim
  <1>2. CASE ClaimedEvent
    BY <1>0, <1>2 DEF ClaimedEvent
  <1>3. CASE CommandPolicy
    BY <1>0, <1>3 DEF CommandPolicy
  <1>4. CASE ExecutionResult
    BY <1>0, <1>4 DEF ExecutionResult, Decide
  <1>5. CASE Deadline
    BY <1>0, <1>5 DEF Deadline
  <1>6. CASE GraceElapsed
    BY <1>0, <1>6 DEF GraceElapsed, Decide
  <1>7. CASE WindowEnds
    BY <1>0, <1>7 DEF WindowEnds, Decide
  <1>8. CASE PostTerminal
    BY <1>0, <1>8 DEF PostTerminal
  <1>9. CASE FlushTimer
    BY <1>0, <1>9 DEF FlushTimer
  <1>10. CASE ExecLog
    BY <1>0, <1>10 DEF ExecLog
  <1>11. CASE ExecCommit
    BY <1>0, <1>11 DEF ExecCommit
  <1>12. CASE ExecObserveCancel
    BY <1>0, <1>12 DEF ExecObserveCancel
  <1>13. CASE FollowerLog
    BY <1>0, <1>13 DEF FollowerLog
  <1>14. CASE ShutdownCancel
    BY <1>0, <1>14 DEF ShutdownCancel
  <1>15. CASE Abort
    BY <1>0, <1>15 DEF Abort
  <1>16. CASE Withdraw
    BY <1>0, <1>16 DEF Withdraw
  <1>17. CASE LeaseExpires
    BY <1>0, <1>17 DEF LeaseExpires
  <1>18. ASSUME NEW r \in {"ok", "err"}, ExecReturn(r) PROVE Flags'
    BY <1>0, <1>18 DEF ExecReturn
  <1>19. ASSUME NEW h \in Callers, FlushPending(h) PROVE Flags'
    BY <1>0, <1>19 DEF FlushPending
  <1>20. ASSUME NEW h \in Callers, FlushReply(h) PROVE Flags'
    BY <1>0, <1>20 DEF FlushReply
  <1>21. CASE UNCHANGED vars
    BY <1>0, <1>21 DEF vars
  <1> QED BY <1>1, <1>2, <1>3, <1>4, <1>5, <1>6, <1>7, <1>8, <1>9, <1>10, <1>11, <1>12, <1>13,
             <1>14, <1>15, <1>16, <1>17, <1>18, <1>19, <1>20, <1>21
          DEF Next, ProcessStep, TaskStep, ExecStep, Callers

------------------------------------------------------------------------------
(* The queue. *)

\* Every step keeps the queue of flush_lock in order.
LEMMA QueueStep ==
    ASSUME IInv, [Next]_vars
    PROVE  QueueInv'
  <1> USE DEF QueueInv
  <1>0. QueueInv
    BY DEF IInv
  <1>1. ASSUME UNCHANGED flush_lock, pc = "flush" => pc' = "flush"
        PROVE  QueueInv'
    BY <1>0, <1>1
  <1>2. ASSUME NEW o, Decide(o), pc # "flush" PROVE QueueInv'
    <2>1. ~In(flush_lock, "process") /\ "process" \in Callers
      BY <1>0, <1>2 DEF Callers
    <2> QED BY <1>0, <1>2, <2>1, JoinProperties DEF Decide, execVars
  <1>3. CASE PostTerminal \/ Abort
    <2>1. CASE DropAll
      <3> DEFINE q == Without(Without(flush_lock, "exec"), "cleanup")
      <3>1. q \in Seq(Callers) /\ \A h \in Callers \ {"task"} : Once(q, h)
        BY <1>0, WithoutTwice
      <3> HIDE DEF q
      <3>2. flush_lock' = Without(q, "process") /\ "process" \in Callers \ {"task"}
        BY <2>1 DEF DropAll, q, Callers
      <3>3. /\ flush_lock' \in Seq(Callers) /\ ~In(flush_lock', "process")
            /\ \A h \in Callers \ {"task"} : Once(flush_lock', h)
        BY <3>1, <3>2, WithoutProperties
      <3> QED BY <3>3
    <2>2. CASE UNCHANGED flush_lock /\ pc = "terminal"
      BY <1>1, <2>2
    <2> QED BY <1>3, <2>1, <2>2 DEF PostTerminal, Abort
  <1>4. ASSUME NEW r \in {"ok", "err"}, ExecReturn(r) PROVE QueueInv'
    <2>1. flush_lock' = Without(Without(flush_lock, "exec"), "cleanup") /\ pc' = pc
      BY <1>4 DEF ExecReturn, DropExec
    <2> QED BY <1>0, <2>1, WithoutTwice
  <1>5. ASSUME NEW h \in Callers \ {"process"}, h = "task" \/ ~In(flush_lock, h),
               flush_lock' = Append(flush_lock, h), UNCHANGED pc
        PROVE  QueueInv'
    BY <1>0, <1>5, JoinProperties DEF Callers
  <1>6. CASE ExecLog \/ FollowerLog \/ FlushTimer
    <2>1. CASE UNCHANGED <<flush_lock, pc>>
      BY <1>1, <2>1
    <2>2. CASE ExecLog /\ flush_lock' = Append(flush_lock, Part)
      <3>1. Part \in Callers \ {"process"} /\ ~In(flush_lock, Part) /\ UNCHANGED pc
        BY <2>2 DEF ExecLog, ExecRuns, Queued, In, Part, Callers
      <3> QED BY <1>5, <2>2, <3>1
    <2>3. CASE FollowerLog /\ flush_lock' = Append(flush_lock, "follower")
      <3>1. "follower" \in Callers \ {"process"} /\ ~In(flush_lock, "follower") /\ UNCHANGED pc
        BY <2>3 DEF FollowerLog, Queued, In, Callers
      <3> QED BY <1>5, <2>3, <3>1
    <2>4. CASE FlushTimer
      BY <1>5, <2>4 DEF FlushTimer, Callers
    <2> QED BY <1>6, <2>1, <2>2, <2>3, <2>4 DEF ExecLog, FollowerLog
  <1>7. ASSUME NEW h \in Callers, FlushPending(h) PROVE QueueInv'
    <2>1. CASE UNCHANGED <<flush_lock, pc>>
      BY <1>1, <2>1
    <2>2. CASE /\ flush_lock' = Tail(flush_lock)
               /\ pc' = IF h = "process" THEN "terminal" ELSE pc
      <3>1. flush_lock # <<>> /\ Head(flush_lock) = h
        BY <1>7 DEF FlushPending, Holds
      <3>2. /\ flush_lock' \in Seq(Callers) /\ \A g \in Callers \ {"task"} : Once(flush_lock', g)
            /\ \A g : ~In(flush_lock, g) => ~In(flush_lock', g)
            /\ Once(flush_lock, h) => ~In(flush_lock', h)
        BY <1>0, <2>2, <3>1, ServeProperties
      <3>3. CASE h = "process"
        BY <1>0, <2>2, <3>2, <3>3 DEF Callers
      <3>4. CASE h # "process"
        BY <1>0, <2>2, <3>2, <3>4
      <3> QED BY <3>3, <3>4
    <2> QED BY <1>7, <2>1, <2>2 DEF FlushPending
  <1>8. ASSUME NEW h \in Callers, FlushReply(h) PROVE QueueInv'
    BY <1>1, <1>8 DEF FlushReply, execVars
  <1>9. CASE ExecutionResult \/ GraceElapsed \/ WindowEnds
    BY <1>2, <1>9 DEF ExecutionResult, GraceElapsed, WindowEnds
  <1>10. CASE Claim \/ ClaimedEvent \/ CommandPolicy \/ Deadline
    BY <1>1, <1>10 DEF Claim, ClaimedEvent, CommandPolicy, Deadline, execVars, logVars
  <1>11. CASE ExecCommit \/ ExecObserveCancel \/ ShutdownCancel \/ Withdraw \/ LeaseExpires
    BY <1>1, <1>11
    DEF ExecCommit, ExecObserveCancel, ShutdownCancel, Withdraw, LeaseExpires, logVars
  <1>12. CASE UNCHANGED vars
    BY <1>1, <1>12 DEF vars, execVars, logVars
  <1> QED BY <1>3, <1>4, <1>6, <1>7, <1>8, <1>9, <1>10, <1>11, <1>12
          DEF Next, ProcessStep, TaskStep, ExecStep, Callers

------------------------------------------------------------------------------
(* The theorems. *)

\* The invariant is inductive.
LEMMA Inductive ==
    Spec => []IInv
  <1>1. IInv /\ [Next]_vars => IInv'
    BY DataStep, FlagStep, QueueStep DEF IInv
  <1> QED BY InitInv, <1>1, PTL DEF Spec

\* The state keeps its types; no more than MaxAttempts terminal requests are
\* sent, and process, the follower, the deployment and the cleanup beside it
\* wait for flush_lock at most once each.
THEOREM TypeCorrect == Spec => []TypeOK
  BY Inductive, InvImplies, PTL

\* A report that is taken as acknowledged is what the record says.
THEOREM AcknowledgedHolds == Spec => []AcknowledgedIsRecorded
  BY Inductive, InvImplies, PTL

\* The command's own log lines are delivered, or given up, before the terminal
\* request is sent.
THEOREM LogsBeforeTerminal == Spec => []LogsPrecedeTerminal
  BY Inductive, InvImplies, PTL

\* The runtime works only on a command that this agent claimed and announced.
THEOREM RunsOwned == Spec => []RunsOnlyWhenOwned
  BY Inductive, InvImplies, PTL

\* Every step of process, of the execution and of the control plane is a step
\* of the contract or leaves the record, the cutover and the success alone.
LEMMA ContractStep ==
    ASSUME IInv, [Next]_vars
    PROVE  [Contract!CNext]_(Contract!cvars)
  <1> USE DEF execVars, logVars, endVars
  <1>0. DataInv
    BY DEF IInv
  <1>1. ASSUME UNCHANGED <<record, committed, result>>
        PROVE  UNCHANGED Contract!cvars
    BY <1>1 DEF Contract!cvars
  <1>2. ASSUME NEW s \in {"Claimed", "Running"} \union Terminal, Contract!Move(s)
        PROVE  Contract!CNext
    BY <1>2 DEF Contract!CNext, Contract!Terminal, Terminal
  <1>3. CASE Claim
    <2>1. CASE UNCHANGED record
      BY <1>1, <1>3, <2>1 DEF Claim
    <2>2. CASE record = "Pending" /\ record' = "Claimed"
      <3>1. Contract!Move("Claimed")
        BY <1>3, <2>2 DEF Claim, Contract!Move, Contract!CanTransition
      <3> QED BY <1>2, <3>1
    <2> QED BY <1>3, <2>1, <2>2 DEF Claim
  <1>4. CASE ClaimedEvent
    <2>1. CASE UNCHANGED record
      BY <1>1, <1>4, <2>1 DEF ClaimedEvent
    <2>2. CASE record = "Claimed" /\ record' = "Running"
      <3>1. Contract!Move("Running")
        BY <1>4, <2>2 DEF ClaimedEvent, Contract!Move, Contract!CanTransition
      <3> QED BY <1>2, <3>1
    <2> QED BY <1>4, <2>1, <2>2 DEF ClaimedEvent
  <1>5. CASE ExecCommit
    <2>1. record \in {"Running", "Expired"} /\ ~committed /\ result # "ok"
      BY <1>0, <1>5 DEF ExecCommit, ExecRuns, Polled, DataInv, RecordInv, ExecInv
    <2>2. Contract!Cutover
      BY <1>5, <2>1 DEF ExecCommit, Contract!Cutover
    <2> QED BY <2>2 DEF Contract!CNext
  <1>6. ASSUME NEW r \in {"ok", "err"}, ExecReturn(r)
        PROVE  [Contract!CNext]_(Contract!cvars)
    <2>1. record \in {"Running", "Expired"} /\ result = "none"
      BY <1>0, <1>6 DEF ExecReturn, ExecRuns, Polled, DataInv, RecordInv, ExecInv
    <2>2. result' = r /\ UNCHANGED <<record, committed>>
      BY <1>6 DEF ExecReturn
    <2>3. CASE r = "ok"
      <3>1. Contract!RuntimeSucceeds
        BY <2>1, <2>2, <2>3 DEF Contract!RuntimeSucceeds
      <3> QED BY <3>1 DEF Contract!CNext
    <2>4. CASE r = "err"
      BY <2>1, <2>2, <2>4 DEF Contract!cvars
    <2> QED BY <2>3, <2>4
  <1>7. CASE PostTerminal
    <2>1. /\ pc = "terminal" /\ record' \in {record, Recorded}
          /\ UNCHANGED <<exec, committed, result, outcome>>
      BY <1>7 DEF PostTerminal
    <2>2. CASE record' = record
      BY <1>1, <2>1, <2>2
    <2>3. CASE record' # record
      <3>1. record = "Running" /\ record' = Reported
        BY <1>0, <2>1, <2>3 DEF Recorded, Terminal, DataInv, RecordInv
      <3>2. /\ outcome \in {"Failed", "Succeeded", "Deferred"}
            /\ outcome = "Failed" => ~committed
            /\ outcome = "Succeeded" => result = "ok"
            /\ outcome = "Deferred" => committed
        BY <1>0, <2>1 DEF DataInv, DataTypes, OutcomeInv
      <3>3. Contract!Move(Reported) /\ Reported \in Terminal
        BY <2>1, <3>1, <3>2 DEF Reported, Terminal, Contract!Move, Contract!CanTransition
      <3> QED BY <1>2, <3>3
    <2> QED BY <2>2, <2>3
  <1>8. CASE Withdraw
    <2>1. PICK s \in {"Cancelled", "Expired"} : record' = s
      BY <1>8 DEF Withdraw
    <2>2. Contract!Move(s)
      BY <1>8, <2>1 DEF Withdraw, Contract!Move, Contract!CanTransition
    <2> QED BY <1>2, <2>1, <2>2 DEF Terminal
  <1>9. CASE LeaseExpires
    BY <1>9 DEF LeaseExpires, Contract!LeaseRunsOut, Contract!CNext
  <1>10. CASE CommandPolicy \/ ExecutionResult \/ Deadline \/ GraceElapsed \/ WindowEnds
    BY <1>1, <1>10 DEF CommandPolicy, ExecutionResult, Deadline, GraceElapsed, WindowEnds, Decide
  <1>11. ASSUME NEW h \in Callers, FlushPending(h) \/ FlushReply(h)
         PROVE  UNCHANGED Contract!cvars
    BY <1>1, <1>11 DEF FlushPending, FlushReply
  <1>12. CASE FlushTimer \/ FollowerLog \/ ExecLog \/ ExecObserveCancel \/ ShutdownCancel \/ Abort
    BY <1>1, <1>12 DEF FlushTimer, FollowerLog, ExecLog, ExecObserveCancel, ShutdownCancel, Abort
  <1>13. CASE UNCHANGED vars
    BY <1>1, <1>13 DEF vars
  <1> QED BY <1>3, <1>4, <1>5, <1>6, <1>7, <1>8, <1>9, <1>10, <1>11, <1>12, <1>13
          DEF Next, ProcessStep, TaskStep, ExecStep, Callers

\* process implements the contract of a command: whatever is lost, cancelled or
\* late, a live deployment is never recorded as failed, a success is backed by
\* the runtime, and the record moves only along can_transition.
THEOREM ContractImplemented == Spec => ImplementsContract
  <1>1. Init => Contract!CInit
    BY DEF Init, Contract!CInit
  <1>2. IInv /\ [Next]_vars => [Contract!CNext]_(Contract!cvars)
    BY ContractStep
  <1> QED BY <1>1, <1>2, Inductive, PTL DEF Spec, ImplementsContract, Contract!CSpec
==============================================================================
