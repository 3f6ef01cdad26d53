--------------------------- MODULE BuildHostProofs ---------------------------
(***************************************************************************)
(* The safety properties of BuildHost for every set of commands and every  *)
(* number of permits.  Commands meet only at the semaphore and through the *)
(* GC, so that the invariant is a predicate on the state of one command    *)
(* (Sound) and a bound on the permits.                                     *)
(***************************************************************************)
EXTENDS BuildHost, FiniteSetTheorems, TLAPS

CmdType  == [kind : {"deploy", "inspect", None}, step : Steps, ok : BOOLEAN,
             polled : BOOLEAN, cancelled : BOOLEAN, permit : BOOLEAN]
ProcType == [of : Running \union {"none", "killed", "lost"},
             leader : {"alive", "zombie", "gone"},
             family : InGroup \union HoldsOutput \union {"none"}, armed : BOOLEAN]

\* The steps for which a command needs its workspace.
InUse == {"checkout", "askpass", "inspect"} \union Inner

\* A run that is over: the guard has no pid, and what is left is beyond the group
\* or, after an end of its own, does not hold the output.
Settled(p) ==
    /\ p.of \notin Running /\ ~p.armed
    /\ p.of = "killed" => p.leader # "alive" /\ p.family \notin InGroup
    /\ p.of = "none" => p.leader = "gone" /\ p.family \notin HoldsOutput

\* A process that is waited for belongs to the step of its command or to the one
\* that was cancelled; it can still be signalled, or its group was killed.
SoundProc(m, p) ==
    \/ Settled(p)
    \/ /\ p.of \in Running /\ m.step \in {p.of, "cleanup"} /\ p.leader # "gone"
       /\ ~p.armed => p.leader = "zombie" /\ p.family \notin InGroup

\* A build has a permit, from its first process to the end of its last.
SoundPermit(m, p) ==
    /\ m.step = "build" \/ p.of = "build" => m.permit
    /\ m.permit => m.step \in {"build", "cleanup"}

\* The workspace d of a command that uses it is new, unless the GC was removing
\* it when it was created again: then, and only then, the GC may still have it
\* as its target.
SoundDir(c, m, d, l, target) ==
    AgesAfterDeadline /\ m.polled /\ m.step \in InUse /\ l # "raced"
        => d = "fresh" /\ target # c

\* Files need a directory, and secrets a reason.
SoundFiles(m, d, f, l) ==
    /\ d = "none" => f = {}
    /\ "askpass" \in f => m.step \in {"checkout", "askpass"} \/ l = "left"
    /\ "env" \in f => m.step \in {"start", "unenv", "cleanup"} \/ l = "left"

Sound(c, m, p, d, f, l, target) ==
    /\ m \in CmdType /\ p \in ProcType /\ d \in {"none", "fresh", "old"}
    /\ f \in SUBSET {"askpass", "env"} /\ l \in {"no", "left", "raced"}
    /\ SoundProc(m, p) /\ SoundPermit(m, p)
    /\ SoundDir(c, m, d, l, target) /\ SoundFiles(m, d, f, l)

SoundCmd(c) == Sound(c, cmd[c], proc[c], dir[c], files[c], left[c], gc.target)

\* The parts of the state are functions on the commands.
Shape ==
    /\ up \in BOOLEAN /\ gc \in [todo : SUBSET Commands, target : Commands \union {None}]
    /\ cmd = [c \in Commands |-> cmd[c]] /\ proc = [c \in Commands |-> proc[c]]
    /\ dir = [c \in Commands |-> dir[c]] /\ files = [c \in Commands |-> files[c]]
    /\ left = [c \in Commands |-> left[c]]

\* The semaphore never hands out more permits than it has.
PermitsBounded == IsFiniteSet(Permits) /\ Cardinality(Permits) <= MaxBuilds

\* The inductive invariant.
IInv == Shape /\ (\A c \in Commands : SoundCmd(c)) /\ PermitsBounded

------------------------------------------------------------------------------
\* The invariant says what the properties say.
LEMMA InvImplies ==
    IInv => TypeOK /\ GroupsContained /\ BuildsBounded /\ WorkspaceWhileInUse /\ NoSecretLeft
  <1> SUFFICES ASSUME IInv
               PROVE  TypeOK /\ GroupsContained /\ BuildsBounded /\ WorkspaceWhileInUse
                      /\ NoSecretLeft
    OBVIOUS
  <1>1. Shape /\ (\A c \in Commands : SoundCmd(c)) /\ PermitsBounded
    BY DEF IInv
  <1>2. TypeOK
    <2>1. /\ cmd \in [Commands -> CmdType] /\ proc \in [Commands -> ProcType]
          /\ dir \in [Commands -> {"none", "fresh", "old"}]
          /\ files \in [Commands -> SUBSET {"askpass", "env"}]
          /\ left \in [Commands -> {"no", "left", "raced"}]
      BY <1>1 DEF Shape, SoundCmd, Sound
    <2>2. ASSUME NEW c \in Commands
          PROVE  /\ cmd[c].step = "build" => cmd[c].permit
                 /\ cmd[c].permit => cmd[c].step \in {"build", "cleanup"}
                 /\ Waits(c) => cmd[c].step \in {proc[c].of, "cleanup"}
      BY <1>1 DEF SoundCmd, Sound, SoundProc, Settled, SoundPermit, Waits
    <2> QED BY <1>1, <2>1, <2>2 DEF TypeOK, Shape, CmdType, ProcType
  <1>3. GroupsContained
    <2> SUFFICES ASSUME NEW c \in Commands
                 PROVE  /\ Waits(c) => Active(c)
                        /\ proc[c].armed => proc[c].leader # "gone"
                        /\ proc[c].of = "killed" \/ (Waits(c) /\ ~proc[c].armed)
                              => proc[c].leader # "alive" /\ proc[c].family \notin InGroup
                        /\ proc[c].of = "none"
                              => proc[c].leader = "gone" /\ proc[c].family \notin HoldsOutput
      BY DEF GroupsContained
    <2>1. SoundProc(cmd[c], proc[c]) /\ proc[c] \in ProcType
      BY <1>1 DEF SoundCmd, Sound
    <2>2. Waits(c) => Active(c)
      BY <2>1 DEF SoundProc, Settled, Waits, Active, Running
    <2> QED BY <2>1, <2>2 DEF SoundProc, Settled, Waits, Running
  <1>4. BuildsBounded
    <2>1. {c \in Commands : proc[c].of = "build"} \subseteq Permits
      BY <1>1 DEF SoundCmd, Sound, SoundPermit, Permits
    <2>2. Cardinality({c \in Commands : proc[c].of = "build"}) <= Cardinality(Permits)
      BY <1>1, <2>1, FS_Subset DEF PermitsBounded
    <2>3. /\ Cardinality(Permits) \in Nat
          /\ Cardinality({c \in Commands : proc[c].of = "build"}) \in Nat
      BY <1>1, <2>1, FS_Subset, FS_CardinalityType DEF PermitsBounded
    <2> QED BY <1>1, <2>2, <2>3, HostAssumption DEF BuildsBounded, PermitsBounded
  <1>5. WorkspaceWhileInUse
    BY <1>1 DEF WorkspaceWhileInUse, SoundCmd, Sound, SoundDir, At, InUse
  <1>6. NoSecretLeft
    BY <1>1 DEF NoSecretLeft, SoundCmd, Sound, SoundFiles
  <1> QED BY <1>2, <1>3, <1>4, <1>5, <1>6

\* A step of one command, and what it leaves.
Becomes(c, m, p, d, f, l) ==
    /\ cmd' = [cmd EXCEPT ![c] = m] /\ proc' = [proc EXCEPT ![c] = p]
    /\ dir' = [dir EXCEPT ![c] = d] /\ files' = [files EXCEPT ![c] = f]
    /\ left' = [left EXCEPT ![c] = l]
    /\ UNCHANGED <<up, gc>>

\* What it may leave.
Allowed(c, m, p, d, f, l) ==
    Sound(c, m, p, d, f, l, gc.target) /\ (m.permit => cmd[c].permit)

\* It may be looked at alone, if it takes no permit.
LEMMA Alone ==
    ASSUME IInv, NEW c \in Commands, NEW m, NEW p, NEW d, NEW f, NEW l,
           Becomes(c, m, p, d, f, l), Allowed(c, m, p, d, f, l)
    PROVE  IInv'
  <1>1. Shape'
    BY DEF IInv, Shape, Becomes
  <1>2. ASSUME NEW x \in Commands PROVE SoundCmd(x)'
    <2>1. CASE x = c
      BY <2>1 DEF SoundCmd, IInv, Shape, Becomes, Allowed
    <2>2. CASE x # c
      <3>1. /\ cmd'[x] = cmd[x] /\ proc'[x] = proc[x] /\ dir'[x] = dir[x]
            /\ files'[x] = files[x] /\ left'[x] = left[x] /\ gc' = gc
        BY <2>2 DEF IInv, Shape, Becomes
      <3> QED BY <3>1 DEF IInv, SoundCmd
    <2> QED BY <2>1, <2>2
  <1>3. Permits' \subseteq Permits
    BY DEF Permits, IInv, Shape, Becomes, Allowed
  <1>4. PermitsBounded'
    <2>1. IsFiniteSet(Permits') /\ Cardinality(Permits') <= Cardinality(Permits)
      BY <1>3, FS_Subset DEF IInv, PermitsBounded
    <2>2. Cardinality(Permits) \in Nat /\ Cardinality(Permits') \in Nat
      BY <2>1, FS_CardinalityType DEF IInv, PermitsBounded
    <2> QED BY <2>1, <2>2, HostAssumption DEF IInv, PermitsBounded
  <1> QED BY <1>1, <1>2, <1>4 DEF IInv

\* What a step does not change it may be said to set to what it was.
LEMMA Same ==
    ASSUME IInv, NEW c \in Commands
    PROVE  /\ cmd = [cmd EXCEPT ![c] = cmd[c]] /\ proc = [proc EXCEPT ![c] = proc[c]]
           /\ dir = [dir EXCEPT ![c] = dir[c]] /\ files = [files EXCEPT ![c] = files[c]]
           /\ left = [left EXCEPT ![c] = left[c]]
  BY DEF IInv, Shape

\* Whatever state a run is in, killing the group and dropping the rest settles it.
LEMMA DropSettles ==
    ASSUME NEW m, NEW p \in ProcType, SoundProc(m, p)
    PROVE  Dropped(p) \in ProcType /\ Settled(Dropped(p))
  <1>1. CASE p.of \in Running
    <2> DEFINE k == Killed(p)
    <2>1. /\ k \in ProcType /\ k.of = p.of /\ k.leader = "zombie" /\ ~k.armed
          /\ k.family \notin InGroup
      BY <1>1 DEF ProcType, SoundProc, Settled, Killed, InGroup, HoldsOutput
    <2>2. Dropped(p) = Remains(k)
      BY <1>1 DEF Dropped
    <2> HIDE DEF k
    <2>3. CASE k.family = "none"
      BY <2>1, <2>2, <2>3 DEF Remains, NoProc, ProcType, Settled, Running, HoldsOutput
    <2>4. CASE k.family # "none"
      BY <2>1, <2>2, <2>4 DEF Remains, ProcType, Settled, Running
    <2> QED BY <2>3, <2>4
  <1>2. CASE p.of \notin Running
    BY <1>2 DEF Dropped, SoundProc
  <1> QED BY <1>1, <1>2

\* The process runner: what is started is reaped or killed before the command goes on.
LEMMA RunnerInv ==
    ASSUME IInv, NEW c \in Commands, RunnerStep(c) \/ ProcessActs(c)
    PROVE  IInv'
  <1>0. /\ Sound(c, cmd[c], proc[c], dir[c], files[c], left[c], gc.target)
        /\ proc[c] \in ProcType /\ SoundProc(cmd[c], proc[c])
    BY DEF IInv, SoundCmd, Sound
  <1> USE DEF At, Sound, SoundProc, Settled, SoundPermit, SoundDir, SoundFiles, CmdType, ProcType,
              InUse, Inner, Starting, Running, Steps
  <1>1. CASE Spawn(c)
    <2>1. CASE proc' = [proc EXCEPT ![c] = NewProc(cmd[c].step)] /\ UNCHANGED cmd
      <3>1. Becomes(c, cmd[c], NewProc(cmd[c].step), dir[c], files[c], left[c])
        BY <1>0, <1>1, <2>1, Same DEF Spawn, wsVars, Becomes
      <3>2. Allowed(c, cmd[c], NewProc(cmd[c].step), dir[c], files[c], left[c])
        BY <1>0, <1>1, <2>1 DEF Spawn, Waits, After, NewProc, Allowed
      <3> QED BY <3>1, <3>2, Alone
    <2>2. CASE cmd' = [cmd EXCEPT ![c] = After(@, FALSE)] /\ UNCHANGED proc
      <3>1. Becomes(c, After(cmd[c], FALSE), proc[c], dir[c], files[c], left[c])
        BY <1>0, <1>1, <2>2, Same DEF Spawn, wsVars, Becomes
      <3>2. Allowed(c, After(cmd[c], FALSE), proc[c], dir[c], files[c], left[c])
        BY <1>0, <1>1, <2>2 DEF Spawn, Waits, After, NewProc, Allowed
      <3> QED BY <3>1, <3>2, Alone
    <2> QED BY <1>1, <2>1, <2>2 DEF Spawn, wsVars
  <1>2. CASE Wait(c)
    <2> DEFINE p == Reaped(proc[c])
    <2>1. p \in ProcType /\ Settled(p) /\ p.of = "none"
      BY <1>0, <1>2 DEF Wait, Waits, Reaped
    <2>2. proc' = [proc EXCEPT ![c] = p]
      BY <1>2 DEF Wait
    <2> HIDE DEF p
    <2>3. CASE cmd' = [cmd EXCEPT ![c] = After(@, TRUE)]
      <3>1. Becomes(c, After(cmd[c], TRUE), p, dir[c], files[c], left[c])
        BY <1>0, <1>2, <2>2, <2>3, Same DEF Wait, wsVars, Becomes
      <3>2. Allowed(c, After(cmd[c], TRUE), p, dir[c], files[c], left[c])
        BY <1>0, <1>2, <2>1, <2>3 DEF Wait, Waits, After, Allowed
      <3> QED BY <3>1, <3>2, Alone
    <2>4. CASE cmd' = [cmd EXCEPT ![c] = After(@, FALSE)]
      <3>1. Becomes(c, After(cmd[c], FALSE), p, dir[c], files[c], left[c])
        BY <1>0, <1>2, <2>2, <2>4, Same DEF Wait, wsVars, Becomes
      <3>2. Allowed(c, After(cmd[c], FALSE), p, dir[c], files[c], left[c])
        BY <1>0, <1>2, <2>1, <2>4 DEF Wait, Waits, After, Allowed
      <3> QED BY <3>1, <3>2, Alone
    <2>5. CASE UNCHANGED cmd
      <3>1. Becomes(c, cmd[c], p, dir[c], files[c], left[c])
        BY <1>0, <1>2, <2>2, <2>5, Same DEF Wait, wsVars, Becomes
      <3>2. Allowed(c, cmd[c], p, dir[c], files[c], left[c])
        BY <1>0, <1>2, <2>1, <2>5 DEF Wait, Waits, After, Allowed
      <3> QED BY <3>1, <3>2, Alone
    <2> QED BY <1>2, <2>3, <2>4, <2>5 DEF Wait
  <1>3. CASE KillProcess(c)
    <2> DEFINE p == Killed(proc[c])
    <2>1. /\ p \in ProcType /\ p.of = proc[c].of /\ p.leader = "zombie"
          /\ p.family \notin InGroup /\ ~p.armed
      BY <1>0, <1>3 DEF KillProcess, Waits, Killed, InGroup, HoldsOutput
    <2>2. proc' = [proc EXCEPT ![c] = p]
      BY <1>3 DEF KillProcess
    <2> HIDE DEF p
    <2>3. Becomes(c, cmd[c], p, dir[c], files[c], left[c])
      BY <1>0, <1>3, <2>2, Same DEF KillProcess, wsVars, Becomes
    <2>4. Allowed(c, cmd[c], p, dir[c], files[c], left[c])
      BY <1>0, <1>3, <2>1 DEF KillProcess, Waits, Allowed
    <2> QED BY <2>3, <2>4, Alone
  <1>4. CASE Collect(c)
    <2> DEFINE p == Remains(proc[c])
    <2>1. p \in ProcType /\ Settled(p)
      <3>1. /\ proc[c] \in ProcType /\ ~proc[c].armed /\ proc[c].leader = "zombie"
            /\ proc[c].family \notin InGroup
        BY <1>0, <1>4 DEF Collect, Waits
      <3>2. CASE proc[c].family = "none"
        BY <3>1, <3>2 DEF Remains, NoProc, HoldsOutput
      <3>3. CASE proc[c].family # "none"
        BY <3>1, <3>3 DEF Remains
      <3> QED BY <3>2, <3>3
    <2>2. proc' = [proc EXCEPT ![c] = p]
      BY <1>4 DEF Collect
    <2> HIDE DEF p
    <2>3. Becomes(c, After(cmd[c], FALSE), p, dir[c], files[c], left[c])
      BY <1>0, <1>4, <2>2, Same DEF Collect, wsVars, Becomes
    <2>4. Allowed(c, After(cmd[c], FALSE), p, dir[c], files[c], left[c])
      BY <1>0, <1>4, <2>1 DEF Collect, Waits, After, Allowed
    <2> QED BY <2>3, <2>4, Alone
  <1>5. CASE OutputFails(c)
    <2> DEFINE p == Dropped(proc[c])
    <2>1. p \in ProcType /\ Settled(p)
      BY <1>0, DropSettles
    <2> HIDE DEF p
    <2>2. Becomes(c, After(cmd[c], FALSE), p, dir[c], files[c], left[c])
      BY <1>0, <1>5, Same DEF OutputFails, wsVars, Becomes, p
    <2>3. Allowed(c, After(cmd[c], FALSE), p, dir[c], files[c], left[c])
      BY <1>0, <1>5, <2>1 DEF OutputFails, Waits, After, Allowed
    <2> QED BY <2>2, <2>3, Alone
  <1>6. CASE ProcessActs(c)
    <2>1. CASE proc[c].leader = "alive" /\ proc' = [proc EXCEPT ![c].family = "inside"]
      <3> DEFINE p == [proc[c] EXCEPT !.family = "inside"]
      <3>1. Becomes(c, cmd[c], p, dir[c], files[c], left[c])
        BY <1>0, <1>6, <2>1, Same DEF ProcessActs, wsVars, Becomes
      <3>2. Allowed(c, cmd[c], p, dir[c], files[c], left[c])
        BY <1>0, <1>6, <2>1 DEF ProcessActs, Waits, Allowed, InGroup
      <3> QED BY <3>1, <3>2, Alone
    <2>2. ASSUME NEW move \in FamilyMoves, proc[c].family = move[1],
                 proc' = [proc EXCEPT ![c].family = move[2]]
          PROVE  IInv'
      <3>1. PICK to \in InGroup \union HoldsOutput \union {"none"} :
               move[2] = to /\ (to \in InGroup => proc[c].family \in InGroup)
        BY <2>2 DEF FamilyMoves, InGroup, HoldsOutput
      <3> DEFINE p == [proc[c] EXCEPT !.family = to]
      <3>2. Becomes(c, cmd[c], p, dir[c], files[c], left[c])
        BY <1>0, <1>6, <2>2, <3>1, Same DEF ProcessActs, wsVars, Becomes
      <3>3. Allowed(c, cmd[c], p, dir[c], files[c], left[c])
        BY <1>0, <1>6, <2>2, <3>1 DEF ProcessActs, Waits, Allowed
      <3> QED BY <3>2, <3>3, Alone
    <2>3. CASE proc' = [proc EXCEPT ![c].leader = "zombie"]
      <3> DEFINE p == [proc[c] EXCEPT !.leader = "zombie"]
      <3>1. Becomes(c, cmd[c], p, dir[c], files[c], left[c])
        BY <1>0, <1>6, <2>3, Same DEF ProcessActs, wsVars, Becomes
      <3>2. Allowed(c, cmd[c], p, dir[c], files[c], left[c])
        BY <1>0, <1>6, <2>3 DEF ProcessActs, Waits, Allowed
      <3> QED BY <3>1, <3>2, Alone
    <2> QED BY <1>6, <2>1, <2>2, <2>3 DEF ProcessActs
  <1> QED BY <1>1, <1>2, <1>3, <1>4, <1>5, <1>6 DEF RunnerStep

\* Up to the checkout: a workspace of its own, the script gone when git is done.
LEMMA CheckoutInv ==
    ASSUME IInv, NEW c \in Commands,
           \/ Begin(c, "deploy") \/ Begin(c, "inspect")
           \/ Prepare(c) \/ PrepareFails(c) \/ CheckedOut(c)
    PROVE  IInv'
  <1>0. /\ Sound(c, cmd[c], proc[c], dir[c], files[c], left[c], gc.target)
        /\ proc[c] \in ProcType /\ SoundProc(cmd[c], proc[c])
    BY DEF IInv, SoundCmd, Sound
  <1> USE DEF At, Sound, SoundProc, Settled, SoundPermit, SoundDir, SoundFiles, CmdType, ProcType,
              InUse, Inner, Starting, Running, Steps
  <1>1. CASE Begin(c, "deploy")
    <2> DEFINE m == [cmd[c] EXCEPT !.kind = "deploy", !.step = "prepare"]
    <2>1. Becomes(c, m, NoProc, dir[c], files[c], left[c])
      BY <1>0, <1>1, Same DEF Begin, wsVars, Becomes
    <2>2. Allowed(c, m, NoProc, dir[c], files[c], left[c])
      BY <1>0, <1>1 DEF Begin, NoProc, HoldsOutput, Allowed
    <2> QED BY <2>1, <2>2, Alone
  <1>2. CASE Begin(c, "inspect")
    <2> DEFINE m == [cmd[c] EXCEPT !.kind = "inspect", !.step = "prepare"]
    <2>1. Becomes(c, m, NoProc, dir[c], files[c], left[c])
      BY <1>0, <1>2, Same DEF Begin, wsVars, Becomes
    <2>2. Allowed(c, m, NoProc, dir[c], files[c], left[c])
      BY <1>0, <1>2 DEF Begin, NoProc, HoldsOutput, Allowed
    <2> QED BY <2>1, <2>2, Alone
  <1>3. CASE Prepare(c)
    <2>1. CASE files' = [files EXCEPT ![c] = {}]
      <3> DEFINE m == [cmd[c] EXCEPT !.step = "checkout"]
                 l == IF gc.target = c THEN "raced" ELSE "no"
      <3>1. Becomes(c, m, proc[c], "fresh", {}, l)
        BY <1>0, <1>3, <2>1, Same DEF Prepare, Goto, Becomes
      <3>2. Allowed(c, m, proc[c], "fresh", {}, l)
        BY <1>0, <1>3, <2>1 DEF Prepare, Allowed
      <3> QED BY <3>1, <3>2, Alone
    <2>2. CASE files' = [files EXCEPT ![c] = {"askpass"}]
      <3> DEFINE m == [cmd[c] EXCEPT !.step = "checkout"]
                 l == IF gc.target = c THEN "raced" ELSE "no"
      <3>1. Becomes(c, m, proc[c], "fresh", {"askpass"}, l)
        BY <1>0, <1>3, <2>2, Same DEF Prepare, Goto, Becomes
      <3>2. Allowed(c, m, proc[c], "fresh", {"askpass"}, l)
        BY <1>0, <1>3, <2>2 DEF Prepare, Allowed
      <3> QED BY <3>1, <3>2, Alone
    <2> QED BY <1>3, <2>1, <2>2 DEF Prepare, Goto
  <1>4. CASE PrepareFails(c)
    <2>1. CASE UNCHANGED wsVars
      <3>1. Becomes(c, DoneCmd, proc[c], dir[c], files[c], left[c])
        BY <1>0, <1>4, <2>1, Same DEF PrepareFails, wsVars, Becomes
      <3>2. Allowed(c, DoneCmd, proc[c], dir[c], files[c], left[c])
        BY <1>0, <1>4, <2>1 DEF PrepareFails, DoneCmd, NewCmd, Allowed
      <3> QED BY <3>1, <3>2, Alone
    <2>2. CASE /\ dir' = [dir EXCEPT ![c] = "fresh"] /\ files' = [files EXCEPT ![c] = {}]
               /\ left' = [left EXCEPT ![c] = "left"]
      <3>1. Becomes(c, DoneCmd, proc[c], "fresh", {}, "left")
        BY <1>0, <1>4, <2>2, Same DEF PrepareFails, wsVars, Becomes
      <3>2. Allowed(c, DoneCmd, proc[c], "fresh", {}, "left")
        BY <1>0, <1>4, <2>2 DEF PrepareFails, DoneCmd, NewCmd, Allowed
      <3> QED BY <3>1, <3>2, Alone
    <2> QED BY <1>4, <2>1, <2>2 DEF PrepareFails, wsVars
  <1>5. CASE CheckedOut(c)
    <2>1. CASE /\ cmd[c].kind = "inspect" /\ Goto(c, "inspect")
               /\ files' = [files EXCEPT ![c] = @ \ {"askpass"}]
               /\ UNCHANGED <<dir, left>>
      <3> DEFINE m == [cmd[c] EXCEPT !.step = "inspect"]
                 f == files[c] \ {"askpass"}
      <3>1. Becomes(c, m, proc[c], dir[c], f, left[c])
        BY <1>0, <1>5, <2>1, Same DEF CheckedOut, RemoveWorkspace, Goto, Becomes
      <3>2. Allowed(c, m, proc[c], dir[c], f, left[c])
        BY <1>0, <1>5, <2>1 DEF CheckedOut, DoneCmd, NewCmd, Allowed
      <3> HIDE DEF f
      <3> QED BY <3>1, <3>2, Alone
    <2>2. CASE /\ Goto(c, "permit") /\ files' = [files EXCEPT ![c] = @ \ {"askpass"}]
               /\ UNCHANGED <<dir, left>>
      <3> DEFINE m == [cmd[c] EXCEPT !.step = "permit"]
                 f == files[c] \ {"askpass"}
      <3>1. Becomes(c, m, proc[c], dir[c], f, left[c])
        BY <1>0, <1>5, <2>2, Same DEF CheckedOut, RemoveWorkspace, Goto, Becomes
      <3>2. Allowed(c, m, proc[c], dir[c], f, left[c])
        BY <1>0, <1>5, <2>2 DEF CheckedOut, DoneCmd, NewCmd, Allowed
      <3> HIDE DEF f
      <3> QED BY <3>1, <3>2, Alone
    <2>3. CASE /\ cmd' = [cmd EXCEPT ![c] = DoneCmd] /\ left' = [left EXCEPT ![c] = "no"]
               /\ dir' = [dir EXCEPT ![c] = "none"] /\ files' = [files EXCEPT ![c] = {}]
      <3>1. Becomes(c, DoneCmd, proc[c], "none", {}, "no")
        BY <1>0, <1>5, <2>3, Same DEF CheckedOut, RemoveWorkspace, Goto, Becomes
      <3>2. Allowed(c, DoneCmd, proc[c], "none", {}, "no")
        BY <1>0, <1>5, <2>3 DEF CheckedOut, DoneCmd, NewCmd, Allowed
      <3> QED BY <3>1, <3>2, Alone
    <2>4. CASE /\ cmd' = [cmd EXCEPT ![c] = DoneCmd] /\ left' = [left EXCEPT ![c] = "left"]
               /\ UNCHANGED <<dir, files>>
      <3>1. Becomes(c, DoneCmd, proc[c], dir[c], files[c], "left")
        BY <1>0, <1>5, <2>4, Same DEF CheckedOut, RemoveWorkspace, Goto, Becomes
      <3>2. Allowed(c, DoneCmd, proc[c], dir[c], files[c], "left")
        BY <1>0, <1>5, <2>4 DEF CheckedOut, DoneCmd, NewCmd, Allowed
      <3> QED BY <3>1, <3>2, Alone
    <2> QED BY <1>5, <2>1, <2>2, <2>3, <2>4 DEF CheckedOut, RemoveWorkspace, Goto
  <1> QED BY <1>1, <1>2, <1>3, <1>4, <1>5

\* From the env file to the end of a deployment.
LEMMA StartInv ==
    ASSUME IInv, NEW c \in Commands,
           WriteEnvFile(c) \/ RemoveEnvFile(c) \/ Activate(c) \/ Finalize(c) \/ Cleanup(c)
    PROVE  IInv'
  <1>0. /\ Sound(c, cmd[c], proc[c], dir[c], files[c], left[c], gc.target)
        /\ proc[c] \in ProcType /\ SoundProc(cmd[c], proc[c])
    BY DEF IInv, SoundCmd, Sound
  <1> USE DEF At, Sound, SoundProc, Settled, SoundPermit, SoundDir, SoundFiles, CmdType, ProcType,
              InUse, Inner, Starting, Running, Steps
  <1>1. CASE WriteEnvFile(c)
    <2>1. CASE /\ dir[c] # "none" /\ Goto(c, "start")
               /\ files' = [files EXCEPT ![c] = @ \union {"env"}]
      <3> DEFINE m == [cmd[c] EXCEPT !.step = "start"]
                 f == files[c] \union {"env"}
      <3>1. Becomes(c, m, proc[c], dir[c], f, left[c])
        BY <1>0, <1>1, <2>1, Same DEF WriteEnvFile, Goto, Becomes
      <3>2. Allowed(c, m, proc[c], dir[c], f, left[c])
        BY <1>0, <1>1, <2>1 DEF WriteEnvFile, Allowed
      <3> HIDE DEF f
      <3> QED BY <3>1, <3>2, Alone
    <2>2. CASE UNCHANGED files /\ Goto(c, "cleanup")
      <3> DEFINE m == [cmd[c] EXCEPT !.step = "cleanup"]
      <3>1. Becomes(c, m, proc[c], dir[c], files[c], left[c])
        BY <1>0, <1>1, <2>2, Same DEF WriteEnvFile, Goto, Becomes
      <3>2. Allowed(c, m, proc[c], dir[c], files[c], left[c])
        BY <1>0, <1>1, <2>2 DEF WriteEnvFile, Allowed
      <3> QED BY <3>1, <3>2, Alone
    <2> QED BY <1>1, <2>1, <2>2 DEF WriteEnvFile, Goto
  <1>2. CASE RemoveEnvFile(c)
    <2>1. CASE cmd[c].ok
      <3> DEFINE m == [cmd[c] EXCEPT !.step = "ready", !.ok = TRUE]
                 f == files[c] \ {"env"}
      <3>1. Becomes(c, m, proc[c], dir[c], f, left[c])
        BY <1>0, <1>2, <2>1, Same DEF RemoveEnvFile, Becomes
      <3>2. Allowed(c, m, proc[c], dir[c], f, left[c])
        BY <1>0, <1>2, <2>1 DEF RemoveEnvFile, Allowed
      <3> HIDE DEF f
      <3> QED BY <3>1, <3>2, Alone
    <2>2. CASE ~cmd[c].ok
      <3> DEFINE m == [cmd[c] EXCEPT !.step = "cleanup", !.ok = TRUE]
                 f == files[c] \ {"env"}
      <3>1. Becomes(c, m, proc[c], dir[c], f, left[c])
        BY <1>0, <1>2, <2>2, Same DEF RemoveEnvFile, Becomes
      <3>2. Allowed(c, m, proc[c], dir[c], f, left[c])
        BY <1>0, <1>2, <2>2 DEF RemoveEnvFile, Allowed
      <3> HIDE DEF f
      <3> QED BY <3>1, <3>2, Alone
    <2> QED BY <1>2, <2>1, <2>2 DEF RemoveEnvFile
  <1>3. CASE Activate(c)
    <2>1. CASE Goto(c, "final")
      <3> DEFINE m == [cmd[c] EXCEPT !.step = "final"]
      <3>1. Becomes(c, m, proc[c], dir[c], files[c], left[c])
        BY <1>0, <1>3, <2>1, Same DEF Activate, Goto, wsVars, Becomes
      <3>2. Allowed(c, m, proc[c], dir[c], files[c], left[c])
        BY <1>0, <1>3, <2>1 DEF Activate, Allowed
      <3> QED BY <3>1, <3>2, Alone
    <2>2. CASE Goto(c, "cleanup")
      <3> DEFINE m == [cmd[c] EXCEPT !.step = "cleanup"]
      <3>1. Becomes(c, m, proc[c], dir[c], files[c], left[c])
        BY <1>0, <1>3, <2>2, Same DEF Activate, Goto, wsVars, Becomes
      <3>2. Allowed(c, m, proc[c], dir[c], files[c], left[c])
        BY <1>0, <1>3, <2>2 DEF Activate, Allowed
      <3> QED BY <3>1, <3>2, Alone
    <2> QED BY <1>3, <2>1, <2>2 DEF Activate, Goto, wsVars
  <1>4. CASE Finalize(c)
    <2> DEFINE m == [cmd[c] EXCEPT !.step = "cleanup"]
    <2>1. Becomes(c, m, proc[c], dir[c], files[c], left[c])
      BY <1>0, <1>4, Same DEF Finalize, Goto, wsVars, Becomes
    <2>2. Allowed(c, m, proc[c], dir[c], files[c], left[c])
      BY <1>0, <1>4 DEF Finalize, Allowed
    <2> QED BY <2>1, <2>2, Alone
  <1>5. CASE Cleanup(c)
    <2> DEFINE p == Dropped(proc[c])
    <2>0. p \in ProcType /\ Settled(p)
      BY <1>0, DropSettles
    <2> HIDE DEF p
    <2>1. CASE /\ left' = [left EXCEPT ![c] = "no"]
               /\ dir' = [dir EXCEPT ![c] = "none"] /\ files' = [files EXCEPT ![c] = {}]
      <3>1. Becomes(c, DoneCmd, p, "none", {}, "no")
        BY <1>0, <1>5, <2>1, Same DEF Cleanup, RemoveWorkspace, Becomes, p
      <3>2. Allowed(c, DoneCmd, p, "none", {}, "no")
        BY <1>0, <1>5, <2>0, <2>1 DEF Cleanup, p, DoneCmd, NewCmd, Allowed
      <3> QED BY <3>1, <3>2, Alone
    <2>2. CASE left' = [left EXCEPT ![c] = "left"] /\ UNCHANGED <<dir, files>>
      <3>1. Becomes(c, DoneCmd, p, dir[c], files[c], "left")
        BY <1>0, <1>5, <2>2, Same DEF Cleanup, RemoveWorkspace, Becomes, p
      <3>2. Allowed(c, DoneCmd, p, dir[c], files[c], "left")
        BY <1>0, <1>5, <2>0, <2>2 DEF Cleanup, p, DoneCmd, NewCmd, Allowed
      <3> QED BY <3>1, <3>2, Alone
    <2> QED BY <1>5, <2>1, <2>2 DEF Cleanup, RemoveWorkspace
  <1> QED BY <1>1, <1>2, <1>3, <1>4, <1>5

\* Timeouts, cancellation and drops, wherever the command is; and the age of a workspace.
LEMMA CancelInv ==
    ASSUME IInv, NEW c \in Commands,
           CancelStep(c) \/ GraceOver(c) \/ Drop(c) \/ GrowsOld(c)
    PROVE  IInv'
  <1>0. /\ Sound(c, cmd[c], proc[c], dir[c], files[c], left[c], gc.target)
        /\ proc[c] \in ProcType /\ SoundProc(cmd[c], proc[c])
    BY DEF IInv, SoundCmd, Sound
  <1> USE DEF At, Sound, SoundProc, Settled, SoundPermit, SoundDir, SoundFiles, CmdType, ProcType,
              InUse, Inner, Starting, Running, Steps
  <1>1. CASE CancelToken(c)
    <2> DEFINE m == [cmd[c] EXCEPT !.cancelled = TRUE]
    <2>1. Becomes(c, m, proc[c], dir[c], files[c], left[c])
      BY <1>0, <1>1, Same DEF CancelToken, wsVars, Becomes
    <2>2. Allowed(c, m, proc[c], dir[c], files[c], left[c])
      BY <1>0, <1>1 DEF CancelToken, Allowed
    <2> QED BY <2>1, <2>2, Alone
  <1>2. CASE CancelDeployment(c)
    <2> DEFINE m == [cmd[c] EXCEPT !.step = "cleanup"]
    <2>1. Becomes(c, m, proc[c], dir[c], files[c], left[c])
      BY <1>0, <1>2, Same DEF CancelDeployment, Goto, wsVars, Becomes
    <2>2. Allowed(c, m, proc[c], dir[c], files[c], left[c])
      BY <1>0, <1>2 DEF CancelDeployment, Allowed
    <2> QED BY <2>1, <2>2, Alone
  <1>3. CASE CancelInspection(c)
    <2> DEFINE p == Dropped(proc[c])
    <2>0. p \in ProcType /\ Settled(p)
      BY <1>0, DropSettles
    <2> HIDE DEF p
    <2> DEFINE m == [cmd[c] EXCEPT !.step = "cleanup"]
    <2>1. Becomes(c, m, p, dir[c], files[c], left[c])
      BY <1>0, <1>3, Same DEF CancelInspection, Goto, wsVars, Becomes, p
    <2>2. Allowed(c, m, p, dir[c], files[c], left[c])
      BY <1>0, <1>3, <2>0 DEF CancelInspection, p, Allowed
    <2> QED BY <2>1, <2>2, Alone
  <1>4. CASE StepTimeout(c)
    <2> DEFINE p == Dropped(proc[c])
    <2>0. p \in ProcType /\ Settled(p)
      BY <1>0, DropSettles
    <2> HIDE DEF p
    <2> DEFINE m == [cmd[c] EXCEPT !.step = "cleanup", !.permit = FALSE]
    <2>1. Becomes(c, m, p, dir[c], files[c], left[c])
      BY <1>0, <1>4, Same DEF StepTimeout, wsVars, Becomes, p
    <2>2. Allowed(c, m, p, dir[c], files[c], left[c])
      BY <1>0, <1>4, <2>0 DEF StepTimeout, p, Allowed
    <2> QED BY <2>1, <2>2, Alone
  <1>5. CASE GraceOver(c)
    <2> DEFINE m == [cmd[c] EXCEPT !.polled = FALSE]
    <2>1. Becomes(c, m, proc[c], dir[c], files[c], left[c])
      BY <1>0, <1>5, Same DEF GraceOver, wsVars, Becomes
    <2>2. Allowed(c, m, proc[c], dir[c], files[c], left[c])
      BY <1>0, <1>5 DEF GraceOver, Allowed
    <2> QED BY <2>1, <2>2, Alone
  <1>6. CASE Drop(c)
    <2> DEFINE p == Dropped(proc[c])
    <2>0. p \in ProcType /\ Settled(p)
      BY <1>0, DropSettles
    <2> HIDE DEF p
    <2>1. CASE dir[c] = "none"
      <3>1. Becomes(c, DoneCmd, p, dir[c], files[c], "no")
        BY <1>0, <1>6, <2>1, Same DEF Drop, Becomes, p
      <3>2. Allowed(c, DoneCmd, p, dir[c], files[c], "no")
        BY <1>0, <1>6, <2>0, <2>1 DEF Drop, p, DoneCmd, NewCmd, Allowed
      <3> QED BY <3>1, <3>2, Alone
    <2>2. CASE dir[c] # "none"
      <3>1. Becomes(c, DoneCmd, p, dir[c], files[c], "left")
        BY <1>0, <1>6, <2>2, Same DEF Drop, Becomes, p
      <3>2. Allowed(c, DoneCmd, p, dir[c], files[c], "left")
        BY <1>0, <1>6, <2>0, <2>2 DEF Drop, p, DoneCmd, NewCmd, Allowed
      <3> QED BY <3>1, <3>2, Alone
    <2> QED BY <1>6, <2>1, <2>2 DEF Drop
  <1>7. CASE GrowsOld(c)
    <2>1. Becomes(c, cmd[c], proc[c], "old", files[c], left[c])
      BY <1>0, <1>7, Same DEF GrowsOld, Becomes
    <2>2. Allowed(c, cmd[c], proc[c], "old", files[c], left[c])
      BY <1>0, <1>7 DEF GrowsOld, Active, Allowed
    <2> QED BY <2>1, <2>2, Alone
  <1> QED BY <1>1, <1>2, <1>3, <1>4, <1>5, <1>6, <1>7 DEF CancelStep

\* A free permit is taken.
LEMMA PermitInv == ASSUME IInv, NEW c \in Commands, AcquirePermit(c) PROVE IInv'
  <1> DEFINE m == [cmd[c] EXCEPT !.step = "build", !.permit = TRUE]
  <1>1. /\ cmd' = [cmd EXCEPT ![c] = m] /\ At(c, {"permit"}) /\ Cardinality(Permits) < MaxBuilds
        /\ UNCHANGED <<up, proc, dir, files, left, gc>>
    BY DEF AcquirePermit, wsVars
  <1>2. Sound(c, cmd[c], proc[c], dir[c], files[c], left[c], gc.target)
    BY DEF IInv, SoundCmd
  <1>3. Sound(c, m, proc[c], dir[c], files[c], left[c], gc.target)
    BY <1>1, <1>2 DEF At, Sound, SoundProc, Settled, SoundPermit, SoundDir, SoundFiles,
                      CmdType, ProcType, InUse, Inner, Starting, Running, Steps
  <1>4. Shape'
    BY <1>1 DEF IInv, Shape
  <1>5. ASSUME NEW x \in Commands PROVE SoundCmd(x)'
    BY <1>1, <1>3 DEF IInv, Shape, SoundCmd
  <1>6. PermitsBounded'
    <2>1. Permits' = Permits \union {c}
      BY <1>1 DEF IInv, Shape, Permits
    <2>2. IsFiniteSet(Permits) /\ Cardinality(Permits) \in Nat
      BY FS_CardinalityType DEF IInv, PermitsBounded
    <2>3. /\ IsFiniteSet(Permits \union {c})
          /\ Cardinality(Permits \union {c}) \in {Cardinality(Permits), Cardinality(Permits) + 1}
      BY <2>2, FS_AddElement
    <2> QED BY <1>1, <2>1, <2>2, <2>3, HostAssumption DEF PermitsBounded
  <1> QED BY <1>4, <1>5, <1>6 DEF IInv

\* The GC turns to a directory that has become old, and so is not in use.
LEMMA GcLooksInv ==
    ASSUME IInv, GcBegin \/ GcFails \/ Recover \/ \E c \in Commands : GcEntry(c)
    PROVE  IInv'
  <1>1. /\ UNCHANGED <<cmd, proc, dir, files, left>> /\ up' \in BOOLEAN
        /\ gc' \in [todo : SUBSET Commands, target : Commands \union {None}]
        /\ \A c \in Commands : gc'.target = c => gc.target = c \/ dir[c] = "old"
    <2>1. CASE GcBegin
      BY <2>1, HostAssumption DEF GcBegin, GcIdle, Workspaces, wsVars, IInv, Shape
    <2>2. CASE Recover
      <3>1. up' \in BOOLEAN
        BY <2>2, Zenon DEF Recover
      <3> QED BY <2>2, <3>1 DEF Recover, wsVars, IInv, Shape
    <2>3. ASSUME NEW c \in Commands, GcEntry(c)
          PROVE  /\ UNCHANGED <<cmd, proc, dir, files, left>> /\ up' \in BOOLEAN
                 /\ gc' \in [todo : SUBSET Commands, target : Commands \union {None}]
                 /\ \A x \in Commands : gc'.target = x => gc.target = x \/ dir[x] = "old"
      BY <2>3, HostAssumption DEF GcEntry, IsStale, GcIdle, wsVars, IInv, Shape
    <2>4. CASE GcFails
      BY <2>4, HostAssumption DEF GcFails, GcIdle, wsVars, IInv, Shape
    <2> QED BY <2>1, <2>2, <2>3, <2>4
  <1>2. ASSUME NEW c \in Commands PROVE SoundCmd(c)'
    <2>1. Sound(c, cmd[c], proc[c], dir[c], files[c], left[c], gc.target)
      BY DEF IInv, SoundCmd
    <2>2. Sound(c, cmd[c], proc[c], dir[c], files[c], left[c], gc'.target)
      BY <1>1, <2>1 DEF Sound, SoundDir
    <2> QED BY <1>1, <2>2 DEF SoundCmd
  <1>3. Shape'
    BY <1>1 DEF IInv, Shape
  <1>4. PermitsBounded'
    BY <1>1 DEF IInv, PermitsBounded, Permits
  <1> QED BY <1>2, <1>3, <1>4 DEF IInv

\* Whatever the GC removes, no command counts on it.
LEMMA GcRemoveInv == ASSUME IInv, GcRemove PROVE IInv'
  <1> DEFINE t == gc.target
  <1>1. /\ UNCHANGED <<up, cmd, proc>> /\ t \in Commands
        /\ gc' \in [todo : SUBSET Commands, target : {None}]
    BY DEF GcRemove, GcIdle, IInv, Shape
  <1>2. ASSUME NEW c \in Commands PROVE SoundCmd(c)'
    <2>1. Sound(c, cmd[c], proc[c], dir[c], files[c], left[c], gc.target)
      BY DEF IInv, SoundCmd
    <2>2. gc'.target = None /\ None # c
      BY <1>1, HostAssumption
    <2>3. CASE dir'[c] = dir[c] /\ files'[c] = files[c] /\ left'[c] = left[c]
      <3>1. Sound(c, cmd[c], proc[c], dir[c], files[c], left[c], gc'.target)
        BY <2>1, <2>2 DEF Sound, SoundDir
      <3> QED BY <1>1, <2>3, <3>1 DEF SoundCmd
    <2>4. CASE /\ c = gc.target /\ dir'[c] = "none" /\ files'[c] = {}
               /\ left'[c] = IF left[c] = "left" THEN "no" ELSE left[c]
      <3>1. Sound(c, cmd[c], proc[c], "none", {}, IF left[c] = "left" THEN "no" ELSE left[c], None)
        BY <2>1, <2>2, <2>4 DEF Sound, SoundDir, SoundFiles
      <3> QED BY <1>1, <2>2, <2>4, <3>1 DEF SoundCmd
    <2>5. \/ dir'[c] = dir[c] /\ files'[c] = files[c] /\ left'[c] = left[c]
          \/ /\ c = gc.target /\ dir'[c] = "none" /\ files'[c] = {}
             /\ left'[c] = IF left[c] = "left" THEN "no" ELSE left[c]
      BY <1>1 DEF GcRemove, wsVars, IInv, Shape
    <2> QED BY <2>3, <2>4, <2>5
  <1>3. Shape'
    BY <1>1 DEF GcRemove, wsVars, IInv, Shape
  <1>4. PermitsBounded'
    BY <1>1 DEF IInv, PermitsBounded, Permits
  <1> QED BY <1>2, <1>3, <1>4 DEF IInv

\* A crash leaves workspaces, and processes that nobody waits for, but no permit.
LEMMA CrashInv == ASSUME IInv, Crash PROVE IInv'
  <1>1. up' \in BOOLEAN
    BY Zenon DEF Crash
  <1>2. gc' \in [todo : SUBSET Commands, target : Commands \union {None}] /\ gc'.target = None
    BY DEF Crash, GcIdle, Workspaces
  <1>3. ASSUME NEW c \in Commands PROVE SoundCmd(c)'
    <2>1. Sound(c, cmd[c], proc[c], dir[c], files[c], left[c], gc.target)
      BY DEF IInv, SoundCmd
    <2> DEFINE m == IF cmd[c].step = "done" THEN DoneCmd ELSE NewCmd
               l == IF Active(c) /\ dir[c] # "none" THEN "left" ELSE left[c]
               p == IF proc[c] = NoProc THEN NoProc ELSE LostProc
    <2>2. p \in ProcType /\ Settled(p)
      BY DEF NoProc, LostProc, ProcType, Settled, Running, InGroup, HoldsOutput
    <2>3. proc'[c] = p
      BY DEF Crash
    <2> HIDE DEF p
    <2>4. Sound(c, m, p, dir[c], files[c], l, None)
      BY <2>1, <2>2 DEF Active, Sound, SoundProc, Settled, SoundPermit, SoundDir, SoundFiles,
                  CmdType, ProcType, InUse, Inner, Starting, Running, Steps, NewCmd, DoneCmd
    <2>5. /\ cmd'[c] = m /\ dir'[c] = dir[c] /\ files'[c] = files[c]
          /\ left'[c] = l
      BY DEF Crash
    <2> QED BY <1>2, <2>3, <2>4, <2>5 DEF SoundCmd
  <1>4. Shape'
    BY <1>1, <1>2 DEF Crash, IInv, Shape
  <1>5. PermitsBounded'
    <2>1. Permits' = {}
      BY DEF Crash, Permits, NewCmd, DoneCmd
    <2> QED BY <2>1, FS_EmptySet, HostAssumption DEF PermitsBounded
  <1> QED BY <1>3, <1>4, <1>5 DEF IInv

\* At first there are neither processes nor workspaces.
LEMMA InitInv == Init => IInv
  <1> SUFFICES ASSUME Init PROVE IInv
    OBVIOUS
  <1>1. up \in BOOLEAN
    BY Zenon DEF Init
  <1>2. Shape
    BY <1>1 DEF Init, Shape, GcIdle
  <1>3. ASSUME NEW c \in Commands PROVE SoundCmd(c)
    <2>1. Sound(c, NewCmd, NoProc, "none", {}, "no", None)
      BY DEF Sound, SoundProc, Settled, SoundPermit, SoundDir, SoundFiles, CmdType,
             ProcType, InUse, Inner, Starting, Running, Steps, NoProc, NewCmd, InGroup, HoldsOutput
    <2> QED BY <2>1 DEF Init, SoundCmd, GcIdle
  <1>4. PermitsBounded
    <2>1. Permits = {}
      BY DEF Init, Permits, NewCmd
    <2> QED BY <2>1, FS_EmptySet, HostAssumption DEF PermitsBounded
  <1> QED BY <1>2, <1>3, <1>4 DEF IInv

\* Every step of commands, programs, timers and the GC keeps the invariant.
LEMMA NextInv == IInv /\ [Next]_vars => IInv'
  <1> SUFFICES ASSUME IInv, [Next]_vars PROVE IInv'
    OBVIOUS
  <1>1. ASSUME NEW c \in Commands, NEW kind \in {"deploy", "inspect"}, Begin(c, kind) PROVE IInv'
    BY <1>1, CheckoutInv
  <1>2. ASSUME NEW c \in Commands, RunnerStep(c) \/ ProcessActs(c) PROVE IInv'
    BY <1>2, RunnerInv
  <1>3. ASSUME NEW c \in Commands, CommandStep(c) PROVE IInv'
    BY <1>3, CheckoutInv, StartInv, PermitInv DEF CommandStep
  <1>4. ASSUME NEW c \in Commands, CancelStep(c) \/ GraceOver(c) \/ Drop(c) \/ GrowsOld(c)
        PROVE  IInv'
    BY <1>4, CancelInv
  <1>5. CASE Recover
    BY <1>5, GcLooksInv
  <1>6. CASE GcStep
    BY <1>6, GcLooksInv, GcRemoveInv DEF GcStep
  <1>7. CASE Crash
    BY <1>7, CrashInv
  <1>8. CASE UNCHANGED vars
    BY <1>8 DEF vars, wsVars, IInv, Shape, SoundCmd, PermitsBounded, Permits
  <1> QED BY <1>1, <1>2, <1>3, <1>4, <1>5, <1>6, <1>7, <1>8 DEF Next

\* The three facts together.
LEMMA Inductive == Spec => []IInv
  BY InitInv, NextInv, PTL DEF Spec

------------------------------------------------------------------------------
\* The state keeps its types; permits and processes belong to the steps that need
\* them or to a deployment cancelled there.
THEOREM TypeCorrect == Spec => []TypeOK
  BY Inductive, InvImplies, PTL

\* On every way out of a run, a drop at any await included, the process group is
\* settled: killed as a whole, or exited with the leader collected and the output
\* closed, and the guard never keeps the pid of a leader that was collected.
THEOREM GroupsAreContained == Spec => []GroupsContained
  BY Inductive, InvImplies, PTL

\* For any number of commands there are never more builds on the host than
\* permits, also while cancelled builds wait to be dropped.
THEOREM BuildsWithinPermits == Spec => []BuildsBounded
  BY Inductive, InvImplies, PTL

\* A command that goes on has its workspace, whatever the GC and earlier
\* executions do, unless it was created while the GC was removing it, provided
\* that no workspace reaches the GC's age before its command's deadline.
THEOREM WorkspaceKept == Spec => []WorkspaceWhileInUse
  BY Inductive, InvImplies, PTL

\* The askpass script and runtime.env do not outlive the step that needs them,
\* unless a failed removal or a drop left the workspace behind.
THEOREM SecretsRemoved == Spec => []NoSecretLeft
  BY Inductive, InvImplies, PTL
==============================================================================
