------------------------------ MODULE BuildHost ------------------------------
(***************************************************************************)
(* What commands do on the host: the process runner (process/command.rs),  *)
(* the workspaces and their garbage collection (workspace/git.rs), the     *)
(* build permits, cancellation and timeouts of deployments and inspections *)
(* (executor/docker.rs), and the env file (containers/docker.rs).          *)
(*                                                                         *)
(* A Rust future that is no longer polled stays where it is, with its      *)
(* process alive and its permit taken, until it is dropped: a cancelled    *)
(* deployment while its workspace is removed, a command past its deadline  *)
(* while its failure is reported, if that ever ends.  A process leads a    *)
(* group of its own; its descendants are one more process, which may hold  *)
(* its output open, close it, and leave the group for a session of its own.*)
(***************************************************************************)
EXTENDS Naturals, FiniteSets

CONSTANTS
    Deployments,        \* commands that may be a DeployProject
    Inspections,        \* commands that may be an InspectProject
    Forking,            \* bound of the model: steps whose programs fork
    MaxBuilds,          \* SAKALA_MAX_CONCURRENT_BUILDS
    AgesAfterDeadline,  \* the GC's minimum age exceeds every command's deadline, which
                        \* the configuration does not enforce
    None

Commands == Deployments \union Inspections

ASSUME HostAssumption ==
    /\ MaxBuilds \in Nat \ {0} /\ None \notin Commands
    /\ AgesAfterDeadline \in BOOLEAN

VARIABLES
    up,         \* commands are accepted: recovery is over
    cmd,        \* each command
    proc,       \* the process its execution has started last
    dir,        \* its workspace: "none", "fresh", or "old": past the GC's minimum age
    files,      \* temporary files in the workspace
    left,       \* history: "left" if a failure or a drop left the workspace behind,
                \* "raced" if it was created again while the GC was removing it
    gc          \* cleanup_stale: the directories to look at, the one to remove

wsVars == <<dir, files, left>>
vars == <<up, cmd, proc, wsVars, gc>>

\* of: the step waiting for it, or how the runner left it; leader: "gone" when it is
\* dead and its pid may be someone else's, for its exit status was collected or it
\* is left to tokio to collect; family: what its descendants share with it; armed:
\* the ProcessGroupGuard has the pid.
NoProc == [of |-> "none", leader |-> "gone", family |-> "none", armed |-> FALSE]
NewProc(step) == [of |-> step, leader |-> "alive", family |-> "none", armed |-> TRUE]

\* Descendants are "inside" the group with the output open, a "daemon" when they
\* closed it, "outside" when they left the group; they are "none" when they exit,
\* or do both: nothing ties them to the runner any more.
InGroup     == {"inside", "daemon"}
HoldsOutput == {"inside", "outside"}
FamilyMoves == {<<"inside", "daemon">>, <<"inside", "outside">>}
               \union (InGroup \union HoldsOutput) \X {"none"}

NewCmd  == [kind |-> None, step |-> "new", ok |-> TRUE, polled |-> TRUE, cancelled |-> FALSE,
            permit |-> FALSE]
DoneCmd == [NewCmd EXCEPT !.step = "done"]
GcIdle  == [todo |-> {}, target |-> None]

Init ==
    /\ up = TRUE
    /\ cmd = [c \in Commands |-> NewCmd] /\ proc = [c \in Commands |-> NoProc]
    /\ dir = [c \in Commands |-> "none"] /\ files = [c \in Commands |-> {}]
    /\ left = [c \in Commands |-> "no"]
    /\ gc = GcIdle

Active(c) == cmd[c].step \notin {"new", "done"}
At(c, steps) == cmd[c].polled /\ cmd[c].step \in steps
Goto(c, step) == cmd' = [cmd EXCEPT ![c].step = step]
Permits == {c \in Commands : cmd[c].permit}

\* The steps that run a process, or several in a row: a checkout runs git four
\* times, a Railpack build two programs; what start_timeout covers; deploy_inner
\* up to the cutover.
Running  == {"checkout", "build", "start", "inspect"}
Several  == {"checkout", "build"}
Starting == {"env", "start", "unenv", "ready"}
Inner    == {"permit", "build"} \union Starting

Waits(c) == proc[c].of \in Running

------------------------------------------------------------------------------
(* The process runner.  Lines of output are read and handed to a sink until *)
(* both streams end; a sink that is slow only delays the steps below.       *)

\* Mutant: the permit is kept for the start of the container.
AfterKeepsPermit(m, ok) ==
    CASE m.step = "checkout" -> [m EXCEPT !.step = "askpass", !.ok = ok]
      [] m.step = "build" -> [m EXCEPT !.step = IF ok THEN "env" ELSE "cleanup"]
      [] m.step = "start" -> [m EXCEPT !.step = "unenv", !.ok = ok]
      [] OTHER -> [m EXCEPT !.step = "cleanup"]

\* A command whose process has ended.  The permit goes with the build.
After(m, ok) ==
    CASE m.step = "checkout" -> [m EXCEPT !.step = "askpass", !.ok = ok]
      [] m.step = "build" -> [m EXCEPT !.step = IF ok THEN "env" ELSE "cleanup", !.permit = FALSE]
      [] m.step = "start" -> [m EXCEPT !.step = "unenv", !.ok = ok]
      [] OTHER -> [m EXCEPT !.step = "cleanup"]

\* The program is started, or cannot be.
Spawn(c) ==
    /\ At(c, Running) /\ ~Waits(c)
    /\ \/ proc' = [proc EXCEPT ![c] = NewProc(cmd[c].step)] /\ UNCHANGED cmd
       \/ cmd' = [cmd EXCEPT ![c] = After(@, FALSE)] /\ UNCHANGED proc
    /\ UNCHANGED <<up, wsVars, gc>>

\* external: the program forks and exits when it likes; a descendant may exit,
\* close the output, or leave the group.
ProcessActs(c) ==
    /\ Waits(c)
    /\ \/ /\ proc[c].leader = "alive" /\ proc[c].family = "none" /\ proc[c].of \in Forking
          /\ proc' = [proc EXCEPT ![c].family = "inside"]
       \/ \E move \in FamilyMoves :
             /\ proc[c].family = move[1]
             /\ proc' = [proc EXCEPT ![c].family = move[2]]
       \/ proc[c].leader = "alive" /\ proc' = [proc EXCEPT ![c].leader = "zombie"]
    /\ UNCHANGED <<up, cmd, wsVars, gc>>

\* The exit status is collected and the guard disarmed.
Reaped(p) == [p EXCEPT !.of = "none", !.leader = "gone", !.armed = FALSE]

\* Nobody holds the output any more and the program has exited.
Wait(c) ==
    /\ At(c, Running) /\ Waits(c) /\ proc[c].armed
    /\ proc[c].leader = "zombie" /\ proc[c].family \notin HoldsOutput
    /\ proc' = [proc EXCEPT ![c] = Reaped(@)]
    /\ \/ \E ok \in BOOLEAN : cmd' = [cmd EXCEPT ![c] = After(@, ok)]
       \/ cmd[c].step \in Several /\ UNCHANGED cmd
    /\ UNCHANGED <<up, wsVars, gc>>

\* Mutant: only the leader is killed.
KilledLeader(p) == [p EXCEPT !.leader = "zombie", !.armed = FALSE]

\* killpg reaches the leader and the descendants in its group.  The pid is used
\* once; without it only the leader is killed.  Nobody reads the output any more.
Killed(p) ==
    [p EXCEPT !.leader = "zombie", !.armed = FALSE,
              !.family = IF p.armed /\ @ \in InGroup THEN "none" ELSE @]

\* What remains of a run that was given up: nothing, if the group was all there was.
Remains(p) == IF p.leader # "alive" /\ p.family = "none" THEN NoProc ELSE [p EXCEPT !.of = "killed"]

\* The deadline of the process, or the token of a checkout: the group is killed ...
KillProcess(c) ==
    /\ At(c, Running) /\ Waits(c) /\ proc[c].armed
    /\ proc' = [proc EXCEPT ![c] = Killed(@)]
    /\ UNCHANGED <<up, cmd, wsVars, gc>>

\* ... and its leader waited for, which a drop may interrupt.
Collect(c) ==
    /\ At(c, Running) /\ Waits(c) /\ ~proc[c].armed
    /\ proc' = [proc EXCEPT ![c] = Remains(@)]
    /\ cmd' = [cmd EXCEPT ![c] = After(@, FALSE)]
    /\ UNCHANGED <<up, wsVars, gc>>

\* A future of the runner that is dropped: the guard kills the group, then
\* kill_on_drop the leader.  Nobody waits for it; tokio collects it some time.
Dropped(p) == IF p.of \in Running THEN Remains(Killed(p)) ELSE p

\* The output is not UTF-8 or the sink fails: the run returns and is dropped.
OutputFails(c) ==
    /\ At(c, Running) /\ Waits(c) /\ proc[c].armed
    /\ proc' = [proc EXCEPT ![c] = Dropped(@)]
    /\ cmd' = [cmd EXCEPT ![c] = After(@, FALSE)]
    /\ UNCHANGED <<up, wsVars, gc>>

------------------------------------------------------------------------------
(* Deployments and inspections. *)

\* The payload is valid and disk and capacity suffice; a command refused here
\* has no effect.
Begin(c, kind) ==
    /\ up /\ cmd[c].step = "new"
    /\ \/ kind = "deploy" /\ c \in Deployments
       \/ kind = "inspect" /\ c \in Inspections
    /\ cmd' = [cmd EXCEPT ![c] = [@ EXCEPT !.kind = kind, !.step = "prepare"]]
    /\ proc' = [proc EXCEPT ![c] = NoProc]
    /\ UNCHANGED <<up, wsVars, gc>>

\* Mutant: a workspace that exists is used as it is.
PrepareReuses(c) ==
    /\ At(c, {"prepare"})
    /\ \E secret \in SUBSET {"askpass"} : files' = [files EXCEPT ![c] = @ \union secret]
    /\ dir' = [dir EXCEPT ![c] = "fresh"]
    /\ left' = [left EXCEPT ![c] = IF gc.target = c THEN "raced" ELSE "no"]
    /\ Goto(c, "checkout")
    /\ UNCHANGED <<up, proc, gc>>

\* What an earlier execution left is removed; the askpass script is written for
\* a private repository.
Prepare(c) ==
    /\ At(c, {"prepare"})
    /\ \E secret \in SUBSET {"askpass"} : files' = [files EXCEPT ![c] = secret]
    /\ dir' = [dir EXCEPT ![c] = "fresh"]
    /\ left' = [left EXCEPT ![c] = IF gc.target = c THEN "raced" ELSE "no"]
    /\ Goto(c, "checkout")
    /\ UNCHANGED <<up, proc, gc>>

\* The directory or the script cannot be set up: what is there stays.
PrepareFails(c) ==
    /\ At(c, {"prepare"})
    /\ \/ UNCHANGED wsVars
       \/ /\ dir' = [dir EXCEPT ![c] = "fresh"] /\ files' = [files EXCEPT ![c] = {}]
          /\ left' = [left EXCEPT ![c] = "left"]
    /\ cmd' = [cmd EXCEPT ![c] = DoneCmd]
    /\ UNCHANGED <<up, proc, gc>>

\* cleanup: remove_dir_all, which may fail.
RemoveWorkspace(c) ==
    \/ /\ dir' = [dir EXCEPT ![c] = "none"] /\ files' = [files EXCEPT ![c] = {}]
       /\ left' = [left EXCEPT ![c] = "no"]
    \/ left' = [left EXCEPT ![c] = "left"] /\ UNCHANGED <<dir, files>>

\* The script is removed whatever git said; an error removes the workspace.
CheckedOut(c) ==
    /\ At(c, {"askpass"})
    /\ \/ /\ cmd[c].ok /\ Goto(c, IF cmd[c].kind = "inspect" THEN "inspect" ELSE "permit")
          /\ files' = [files EXCEPT ![c] = @ \ {"askpass"}]
          /\ UNCHANGED <<dir, left>>
       \/ cmd' = [cmd EXCEPT ![c] = DoneCmd] /\ RemoveWorkspace(c)
    /\ UNCHANGED <<up, proc, gc>>

AcquirePermit(c) ==
    /\ At(c, {"permit"}) /\ Cardinality(Permits) < MaxBuilds
    /\ cmd' = [cmd EXCEPT ![c] = [@ EXCEPT !.step = "build", !.permit = TRUE]]
    /\ UNCHANGED <<up, proc, wsVars, gc>>

\* Under the admission lock, after another look at the capacity: runtime.env is
\* created for docker run.
WriteEnvFile(c) ==
    /\ At(c, {"env"})
    /\ \/ /\ "env" \notin files[c] /\ dir[c] # "none"
          /\ files' = [files EXCEPT ![c] = @ \union {"env"}]
          /\ Goto(c, "start")
       \/ UNCHANGED files /\ Goto(c, "cleanup")
    /\ UNCHANGED <<up, proc, dir, left, gc>>

\* docker run is over: the file is removed first.
RemoveEnvFile(c) ==
    /\ At(c, {"unenv"})
    /\ files' = [files EXCEPT ![c] = @ \ {"env"}]
    /\ cmd' = [cmd EXCEPT ![c] = [@ EXCEPT !.step = IF cmd[c].ok THEN "ready" ELSE "cleanup",
                                       !.ok = TRUE]]
    /\ UNCHANGED <<up, proc, dir, left, gc>>

\* Readiness and cutover, or a failure of them.
Activate(c) ==
    /\ At(c, {"ready"})
    /\ Goto(c, "final") \/ Goto(c, "cleanup")
    /\ UNCHANGED <<up, proc, wsVars, gc>>

\* After the cutover: startup logs, cleanup_previous, log follower.
Finalize(c) ==
    /\ At(c, {"final"})
    /\ Goto(c, "cleanup")
    /\ UNCHANGED <<up, proc, wsVars, gc>>

\* The candidate and the workspace are removed and the command returns; only
\* then is a cancelled deployment dropped.
Cleanup(c) ==
    /\ At(c, {"cleanup"})
    /\ RemoveWorkspace(c)
    /\ proc' = [proc EXCEPT ![c] = Dropped(@)]
    /\ cmd' = [cmd EXCEPT ![c] = DoneCmd]
    /\ UNCHANGED <<up, gc>>

------------------------------------------------------------------------------
(* Timeouts and cancellation. *)

\* build_timeout and start_timeout drop what they wrap.
StepTimeout(c) ==
    /\ At(c, {"build"} \union Starting)
    /\ proc' = [proc EXCEPT ![c] = Dropped(@)]
    /\ cmd' = [cmd EXCEPT ![c] = [@ EXCEPT !.step = "cleanup", !.permit = FALSE]]
    /\ UNCHANGED <<up, wsVars, gc>>

\* CancelCommand, shutdown or the deadline of a command that is not committed.
CancelToken(c) ==
    /\ Active(c) /\ cmd[c].polled /\ ~cmd[c].cancelled
    /\ cmd' = [cmd EXCEPT ![c].cancelled = TRUE]
    /\ UNCHANGED <<up, proc, wsVars, gc>>

\* Mutant: the permit is free although the build goes on.
CancelDeploymentFreesPermit(c) ==
    /\ At(c, Inner) /\ cmd[c].cancelled
    /\ cmd' = [cmd EXCEPT ![c] = [@ EXCEPT !.step = "cleanup", !.permit = FALSE]]
    /\ UNCHANGED <<up, proc, wsVars, gc>>

\* Before the cutover a cancelled deployment is not polled any more; it still
\* has its process and its permit.
CancelDeployment(c) ==
    /\ At(c, Inner) /\ cmd[c].cancelled
    /\ Goto(c, "cleanup")
    /\ UNCHANGED <<up, proc, wsVars, gc>>

\* The inspector is dropped by the select.
CancelInspection(c) ==
    /\ At(c, {"inspect"}) /\ cmd[c].cancelled
    /\ proc' = [proc EXCEPT ![c] = Dropped(@)]
    /\ Goto(c, "cleanup")
    /\ UNCHANGED <<up, wsVars, gc>>

\* The second after the deadline, or the grace of a committed deployment, is
\* over: the command is not polled any more, wherever it is.
GraceOver(c) ==
    /\ Active(c) /\ cmd[c].polled /\ (cmd[c].cancelled \/ cmd[c].step = "final")
    /\ cmd' = [cmd EXCEPT ![c].polled = FALSE]
    /\ UNCHANGED <<up, proc, wsVars, gc>>

\* The failure has been reported; the processor returns and drops the command.
\* Nothing ensures that it comes to this (CommandProcessor).
Drop(c) ==
    /\ Active(c) /\ ~cmd[c].polled
    /\ proc' = [proc EXCEPT ![c] = Dropped(@)]
    /\ cmd' = [cmd EXCEPT ![c] = DoneCmd]
    /\ left' = [left EXCEPT ![c] = IF dir[c] = "none" THEN "no" ELSE "left"]
    /\ UNCHANGED <<up, dir, files, gc>>

------------------------------------------------------------------------------
(* cleanup_stale: at startup, and for CleanupRuntime beside other commands. *)

Workspaces == {c \in Commands : dir[c] # "none"}

\* A workspace reaches the GC's minimum age (by default a day).
GrowsOld(c) ==
    /\ dir[c] = "fresh" /\ (AgesAfterDeadline => ~Active(c))
    /\ dir' = [dir EXCEPT ![c] = "old"]
    /\ UNCHANGED <<up, cmd, proc, files, left, gc>>

GcBegin ==
    /\ up /\ gc = GcIdle /\ Workspaces # {}
    /\ gc' = [GcIdle EXCEPT !.todo = Workspaces]
    /\ UNCHANGED <<up, cmd, proc, wsVars>>

\* Mutant: the age is not looked at.
IsStaleAlways(c) == dir[c] # "none"

IsStale(c) == dir[c] = "old"

\* Mutant: a directory that is too young ends the scan.
GcEntryStops(c) ==
    /\ gc.target = None /\ c \in gc.todo
    /\ gc' = IF ~IsStale(c) THEN GcIdle ELSE [gc EXCEPT !.todo = @ \ {c}, !.target = c]
    /\ UNCHANGED <<up, cmd, proc, wsVars>>

\* The age of an entry; a workspace that has gone meanwhile ends the scan.
GcEntry(c) ==
    /\ gc.target = None /\ c \in gc.todo
    /\ gc' = IF dir[c] = "none" THEN GcIdle
             ELSE [gc EXCEPT !.todo = @ \ {c}, !.target = IF IsStale(c) THEN c ELSE None]
    /\ UNCHANGED <<up, cmd, proc, wsVars>>

\* The directory is removed.
GcRemove ==
    /\ gc.target # None /\ dir[gc.target] # "none"
    /\ dir' = [dir EXCEPT ![gc.target] = "none"]
    /\ files' = [files EXCEPT ![gc.target] = {}]
    /\ left' = [left EXCEPT ![gc.target] = IF @ = "left" THEN "no" ELSE @]
    /\ gc' = [gc EXCEPT !.target = None]
    /\ UNCHANGED <<up, cmd, proc>>

\* A removal that fails, or finds that a command was faster, ends the scan.
GcFails ==
    /\ gc.target # None
    /\ gc' = GcIdle
    /\ UNCHANGED <<up, cmd, proc, wsVars>>

\* What is left of a process whose agent died without running a destructor: it may
\* go on, with its descendants.
LostProc == [of |-> "lost", leader |-> "alive", family |-> "inside", armed |-> FALSE]

\* The agent crashes.  Commands without a result are delivered again.
Crash ==
    /\ up' = FALSE
    /\ cmd' = [c \in Commands |-> IF cmd[c].step = "done" THEN DoneCmd ELSE NewCmd]
    /\ proc' = [c \in Commands |-> IF proc[c] = NoProc THEN NoProc ELSE LostProc]
    /\ left' = [c \in Commands |-> IF Active(c) /\ dir[c] # "none" THEN "left" ELSE left[c]]
    /\ gc' = [GcIdle EXCEPT !.todo = Workspaces]
    /\ UNCHANGED <<dir, files>>

\* reconcile has looked at every workspace, or given up: a failure is a warning.
Recover ==
    /\ ~up /\ gc = GcIdle
    /\ up' = TRUE
    /\ UNCHANGED <<cmd, proc, wsVars, gc>>

------------------------------------------------------------------------------
RunnerStep(c) == Spawn(c) \/ Wait(c) \/ KillProcess(c) \/ Collect(c) \/ OutputFails(c)

CommandStep(c) ==
    \/ Prepare(c) \/ PrepareFails(c) \/ CheckedOut(c) \/ AcquirePermit(c)
    \/ WriteEnvFile(c) \/ RemoveEnvFile(c) \/ Activate(c) \/ Finalize(c) \/ Cleanup(c)

CancelStep(c) == CancelToken(c) \/ CancelDeployment(c) \/ CancelInspection(c) \/ StepTimeout(c)

GcStep == GcBegin \/ (\E c \in Commands : GcEntry(c)) \/ GcRemove \/ GcFails

Next ==
    \/ \E c \in Commands :
          \/ \E kind \in {"deploy", "inspect"} : Begin(c, kind)
          \/ RunnerStep(c) \/ ProcessActs(c) \/ CommandStep(c) \/ CancelStep(c)
          \/ GraceOver(c) \/ Drop(c) \/ GrowsOld(c)
    \/ GcStep \/ Crash \/ Recover

Spec == Init /\ [][Next]_vars

(***************************************************************************)
(* Fairness: time passes, CleanupRuntime is sent again and again and a     *)
(* scan goes on; removing a directory does not fail for ever.  Nothing is  *)
(* assumed of programs, sinks or commands: any may hang, and a command may *)
(* be kept without being polled or dropped.                                *)
(***************************************************************************)
FairSpec ==
    /\ Spec
    /\ WF_vars(\E c \in Commands : GrowsOld(c))
    /\ WF_vars(GcStep) /\ SF_vars(GcRemove)

------------------------------------------------------------------------------
(* Properties. *)

Steps == {"new", "prepare", "checkout", "askpass", "permit", "build", "env", "start", "unenv",
          "ready", "final", "inspect", "cleanup", "done"}

\* Type correctness; a permit is held by a build that is under way or was
\* cancelled, a process belongs to the step of its command or to one cancelled.
TypeOK ==
    /\ up \in BOOLEAN
    /\ cmd \in [Commands -> [kind : {"deploy", "inspect", None}, step : Steps, ok : BOOLEAN,
                             polled : BOOLEAN, cancelled : BOOLEAN, permit : BOOLEAN]]
    /\ proc \in [Commands -> [of : Running \union {"none", "killed", "lost"},
                              leader : {"alive", "zombie", "gone"},
                              family : InGroup \union HoldsOutput \union {"none"},
                              armed : BOOLEAN]]
    /\ dir \in [Commands -> {"none", "fresh", "old"}]
    /\ files \in [Commands -> SUBSET {"askpass", "env"}]
    /\ left \in [Commands -> {"no", "left", "raced"}]
    /\ gc \in [todo : SUBSET Commands, target : Commands \union {None}]
    /\ \A c \in Commands :
          /\ cmd[c].step = "build" => cmd[c].permit
          /\ cmd[c].permit => cmd[c].step \in {"build", "cleanup"}
          /\ Waits(c) => cmd[c].step \in {proc[c].of, "cleanup"}

\* What the runner guarantees of a process group, as long as the agent lives.  A
\* run that was given up, and one that was dropped at any await, leaves nothing
\* alive in the group; one that ended by itself has collected the leader and
\* nobody holds its output.  The guard never signals a group whose leader's pid
\* may be someone else's by now, and no run outlasts its command.  Descendants
\* that left the group are out of its reach.
GroupsContained ==
    \A c \in Commands :
        LET p == proc[c] IN
        /\ Waits(c) => Active(c)
        /\ p.armed => p.leader # "gone"
        /\ p.of = "killed" \/ (Waits(c) /\ ~p.armed)
              => p.leader # "alive" /\ p.family \notin InGroup
        /\ p.of = "none" => p.leader = "gone" /\ p.family \notin HoldsOutput

\* In the life of an agent there are never more builds than permits, also while
\* cancelled builds are on their way out.
BuildsBounded == Cardinality({c \in Commands : proc[c].of = "build"}) <= MaxBuilds

\* A command that goes on has its workspace: the GC does not take it away, nor
\* does an earlier execution of the command, if deadlines come before the
\* minimum age.
WorkspaceWhileInUse ==
    AgesAfterDeadline => \A c \in Commands :
        At(c, {"checkout", "askpass", "inspect"} \union Inner) /\ left[c] # "raced"
            => dir[c] = "fresh"

\* The askpass script and runtime.env last no longer than the step that needs
\* them, and never meet a later step, unless a failed removal or a drop left the
\* workspace behind.
NoSecretLeft ==
    \A c \in Commands :
        /\ "askpass" \in files[c] => cmd[c].step \in {"checkout", "askpass"} \/ left[c] = "left"
        /\ "env" \in files[c] => cmd[c].step \in {"start", "unenv", "cleanup"} \/ left[c] = "left"

\* A workspace that a failure, a drop or a crash left behind, with the secrets in
\* it, is removed in the end or taken over by the command's next delivery, unless
\* the agent crashes before: scans that broke off are no excuse.
LeftoversCollected ==
    \A c \in Commands :
        up /\ left[c] = "left" /\ ~Active(c) ~> dir[c] = "none" \/ Active(c) \/ ~up
==============================================================================
