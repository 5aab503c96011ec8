------------------------ MODULE RemoteModulesProofs ------------------------
(***************************************************************************)
(* What RemoteModules promises, for all group ids, tools, pipe capacities  *)
(* and lengths of input and output.                                        *)
(***************************************************************************)
EXTENDS RemoteModules, TLAPS

-----------------------------------------------------------------------------
(* The inductive invariant.                                                *)

\* Each module has control points of its own and leaves the other's state be.
Separate ==
  /\ IsGroup => /\ pc \in {"parse", "exists", "prepare", "run", "info", "done"}
                /\ proc = NoProc
                /\ pc = "run" /\ op.tool = "mod" => op.gid # None
  /\ IsCommand => pc \in {"parse", "start", "write", "read", "wait", "crashed", "done"}

(***************************************************************************)
(* A group task on a host nobody else touches: until the tool runs the     *)
(* host is as it was, the tool fits what Run saw of it, and once it has    *)
(* run the request is met and the return says whether that took a change.  *)
(***************************************************************************)
GroupInv ==
  IsGroup /\ ~interfered =>
    /\ pc \in {"parse", "exists", "prepare", "run"} => host = before /\ ret = NewReturn
    /\ pc \notin {"parse", "done"} => ValidGroup(task)
    /\ pc \in {"parse", "exists"} => op = NoOp
    /\ pc \in {"prepare", "run"} =>
         \/ op.tool = "del" /\ task.state = "absent" /\ GroupExists(task, host)
         \/ op.tool = "mod" /\ task.state = "present" /\ GroupExists(task, host)
         \/ op.tool = "add" /\ task.state = "present" /\ ~GroupExists(task, host)
    /\ pc = "run" /\ op.tool # "del" => op.gid = GidArgument(task, host)
    /\ pc = "info" => ~ret.failed /\ Satisfied(task, host) /\ (ret.changed <=> host # before)
    /\ pc = "done" => /\ ~ret.failed => Satisfied(task, host)
                      /\ ~ret.failed => (ret.changed <=> host # before /\ task.state = "absent")
                      /\ ret.changed => host # before
                      /\ ret.failed /\ ~ret.changed => host = before
    /\ Satisfied(task, before) => host = before

\* What goes in and out of the two pipes.
PipeInv ==
  IsCommand =>
    /\ proc.sent = proc.in + proc.read
    /\ proc.made = proc.out + proc.got
    /\ proc.sent <= task.data
    /\ proc.made <= task.output
    /\ task.program = "filter" => proc.made <= proc.read /\ proc.read <= proc.made + 1
    /\ task.program \in {"source", "daemon"} => proc.read = 0

\* How the child is doing, seen from the module.
ChildInv ==
  IsCommand =>
    /\ proc.st = "none" => proc = NoProc
    /\ proc.st = "running" => proc.held /\ proc.rc = 0
    /\ proc.st = "exited" /\ proc.rc = 0 =>
         proc.made = task.output /\ (proc.held <=> task.program = "daemon")
    /\ pc \in {"parse", "start", "crashed"} => proc.st = "none"
    /\ pc \in {"write", "read", "wait"} => proc.st # "none"
    /\ pc \in {"parse", "start", "write"} => proc.got = 0
    /\ pc \in {"read", "wait"} => Fits(task) \/ task.program = "daemon"
    /\ proc.broken => pc \in {"wait", "done"}
    /\ pc = "wait" /\ ~proc.broken => proc.out = 0 /\ ~proc.held
    /\ pc = "done" /\ ~ret.failed =>
         /\ proc.st = "exited" /\ ~proc.held /\ ret.rc = proc.rc
         /\ proc.broken \/ proc.out = 0
         /\ proc.stdout = StripEmptyEnds(task, proc.got)
         /\ Fits(task) \/ task.program = "daemon"

\* The guard of a command is that of the host before it, and its effect is last.
EffectInv ==
  IsCommand /\ ~interfered =>
    /\ proc.st \in {"none", "running"} => host = before
    /\ pc = "start" \/ proc.st # "none" => GuardHolds(task, before)
    /\ proc.st = "exited" /\ proc.rc = 0 /\ task.guard # "none" => Satisfied(task, host)

IInv == TypeOK /\ Separate /\ GroupInv /\ PipeInv /\ ChildInv /\ EffectInv

(***************************************************************************)
(* A group task whatever the administrator does: the tool is of the kind   *)
(* the request needs, and it lacks a -g the request has only if the        *)
(* request held when Run looked.                                           *)
(***************************************************************************)
MetInv ==
  IsGroup =>
    /\ pc \notin {"parse", "done"} => ValidGroup(task)
    /\ pc \in {"prepare", "run"} =>
         op.tool \in (IF task.state = "absent" THEN {"del"} ELSE {"add", "mod"})
    /\ pc = "prepare" /\ op.tool = "mod" /\ task.gid = None => met
    /\ pc = "run" /\ task.state = "present" /\ op.gid # task.gid => met
    /\ pc = "info" => met
    /\ pc = "done" /\ ~ret.failed => met

-----------------------------------------------------------------------------
(* Facts about the parameters and the helpers.                             *)

(* A task belongs to one module, and its parameters are that module's.     *)
LEMMA TaskKinds ==
  ASSUME task \in GroupTasks \cup CommandTasks
  PROVE  /\ IsGroup => task \in GroupTasks /\ ~IsCommand
         /\ IsCommand => task \in CommandTasks /\ ~IsGroup
         /\ IsGroup \/ IsCommand
BY DEF GroupTasks, CommandTasks, IsGroup, IsCommand

(* The return value stays one: NewReturn, UpdateReturn, MarkReturnFailed.  *)
LEMMA ReturnTypes ==
  /\ NewReturn \in Return
  /\ \A r, u \in Return : UpdateReturn(r, u) = u
  /\ \A r \in Return : /\ MarkReturnFailed(r) \in Return
                       /\ MarkReturnFailed(r).failed
                       /\ MarkReturnFailed(r).changed = r.changed
<1>1. NewReturn \in Return
  BY DEF NewReturn, Return
<1>2. ASSUME NEW r \in Return, NEW u \in Return
      PROVE  UpdateReturn(r, u) = u
  <2>1. UpdateReturn(r, u) = [changed |-> u.changed, failed |-> u.failed, rc |-> u.rc]
    BY Zenon DEF Return, UpdateReturn
  <2>2. u = [changed |-> u.changed, failed |-> u.failed, rc |-> u.rc]
    BY Zenon DEF Return
  <2> QED
    BY <2>1, <2>2
<1>3. ASSUME NEW r \in Return
      PROVE  /\ MarkReturnFailed(r) \in Return
             /\ MarkReturnFailed(r).failed
             /\ MarkReturnFailed(r).changed = r.changed
  <2>1. MarkReturnFailed(r) \in Return
    BY DEF Return, MarkReturnFailed
  <2>2. MarkReturnFailed(r).failed
    BY DEF Return, MarkReturnFailed
  <2>3. MarkReturnFailed(r).changed = r.changed
    BY DEF Return, MarkReturnFailed
  <2> QED
    BY <2>1, <2>2, <2>3
<1> QED
  BY <1>1, <1>2, <1>3

(* Wherever a tool may take the host it is a host, and another one if the  *)
(* group was there to be removed or modified, or not there to be added.    *)
LEMMA ToolEffectTypes ==
  ASSUME NEW h \in Hosts, task \in GroupTasks, op \in OpState,
         op.tool = "mod" => op.gid # None,
         NEW g \in ToolEffect(h)
  PROVE  /\ g \in Hosts
         /\ op.tool = "del" => g.gid = None /\ ~g.inFile /\ h.inFile
         /\ op.tool = "mod" => g.gid = op.gid /\ g.inFile /\ h.inFile
         /\ op.tool = "add" => /\ g.gid # None /\ g.inFile /\ ~h.inFile
                               /\ op.gid # None => g.gid = op.gid
<1>1. CASE op.tool = "del"
  <2>1. h.inFile /\ g = [h EXCEPT !.gid = None, !.inFile = FALSE]
    BY <1>1, Zenon DEF ToolEffect
  <2> QED
    BY <1>1, <2>1 DEF Hosts, HostState
<1>2. CASE op.tool = "mod"
  <2>1. h.inFile /\ g = [h EXCEPT !.gid = op.gid]
    BY <1>2 DEF ToolEffect
  <2> QED
    BY <1>2, <2>1 DEF Hosts, HostState, OpState
<1>3. CASE op.tool = "add"
  <2>1. /\ ~(IF task.local THEN h.inFile ELSE h.gid # None)
        /\ \E x \in IF op.gid # None THEN {op.gid} \ {y \in Gids : GidTaken(y, h)}
                     ELSE Gids \ {h.other} :
             g = [h EXCEPT !.gid = x, !.inFile = TRUE]
    BY <1>3, Zenon DEF ToolEffect
  <2>2. ~h.inFile
    BY <2>1 DEF Hosts, HostState
  <2>3. PICK x \in Gids : /\ g = [h EXCEPT !.gid = x, !.inFile = TRUE]
                          /\ op.gid # None => x = op.gid
    BY <2>1 DEF OpState
  <2> QED
    BY <1>3, <2>2, <2>3, GidsAssumption DEF Hosts, HostState, None
<1>4. CASE op.tool = "none"
  BY <1>4, Zenon DEF ToolEffect
<1> QED
  BY <1>1, <1>2, <1>3, <1>4 DEF OpState

(* What a task of either module asks for.                                  *)
LEMMA SatisfiedByKind ==
  ASSUME NEW h
  PROVE  /\ IsGroup => (Satisfied(task, h) <=> GroupMet(task, h))
         /\ IsCommand => (Satisfied(task, h) <=> PathMet(task, h))
BY DEF Satisfied, IsGroup, IsCommand

-----------------------------------------------------------------------------
(* The group module.                                                       *)

(* A failing group task leaves everything as it is and flags the return.   *)
LEMMA GroupFailKeeps ==
  ASSUME IInv, IsGroup, pc # "done", Fail, UNCHANGED <<op, proc>>
  PROVE  IInv'
<1> USE DEF IInv
<1>1. IsGroup' /\ ~IsCommand' /\ ~IsCommand
  BY TaskKinds DEF TypeOK, Fail, IsGroup, IsCommand
<1>2. TypeOK'
  BY ReturnTypes DEF TypeOK, Fail
<1>3. Separate'
  BY <1>1 DEF Separate, Fail
<1>4. GroupInv'
  <2> SUFFICES ASSUME ~interfered
               PROVE  GroupInv'
    BY DEF GroupInv, Fail
  <2>1. /\ pc' = "done" /\ host' = host /\ before' = before /\ task' = task
        /\ ret'.failed /\ ret'.changed = ret.changed
    BY ReturnTypes DEF TypeOK, Fail
  <2>2. ret.changed <=> host # before
    BY ReturnTypes DEF GroupInv, Separate, NewReturn, TypeOK, Return
  <2>3. Satisfied(task, before) => host = before
    BY DEF GroupInv
  <2> QED
    BY <2>1, <2>2, <2>3 DEF GroupInv
<1>5. PipeInv' /\ ChildInv' /\ EffectInv'
  BY <1>1 DEF PipeInv, ChildInv, EffectInv
<1> QED
  BY <1>2, <1>3, <1>4, <1>5

(* Every step of the group module keeps the invariant: GroupBranch picks   *)
(* the tool for the host it sees, GroupPrepare its argument, GroupCommand  *)
(* meets the request and GroupReport leaves a true return.                 *)
LEMMA GroupKeeps ==
  ASSUME IInv, GroupNext, UNCHANGED proc
  PROVE  IInv'
<1> USE DEF IInv
<1>0. /\ IsGroup /\ task' = task /\ before' = before
      /\ IsGroup' /\ ~IsCommand' /\ task \in GroupTasks
  <2>1. IsGroup /\ task' = task /\ before' = before
    BY DEF GroupNext, GroupStep, GroupParse, GroupBranch, GroupPrepare, GroupCommand,
           GroupCommandFails, GroupReport, GroupLookupFails, GroupInterfere, Interfere,
           Fail, Goto
  <2> QED
    BY <2>1, TaskKinds DEF TypeOK, IsGroup, IsCommand
<1>1. CASE GroupParse
  <2>1. CASE ValidGroup(task)
    <3>1. Goto("exists") /\ pc = "parse" /\ UNCHANGED op
      BY <1>1, <2>1 DEF GroupParse
    <3>2. TypeOK' /\ Separate'
      BY <1>0, <3>1 DEF Goto, TypeOK, Separate
    <3>3. GroupInv'
      BY <1>0, <3>1, <2>1 DEF Goto, GroupInv
    <3> QED
      BY <1>0, <3>2, <3>3 DEF PipeInv, ChildInv, EffectInv
  <2>2. CASE ~ValidGroup(task)
    BY <1>0, <1>1, <2>2, GroupFailKeeps DEF GroupParse
  <2> QED
    BY <2>1, <2>2
<1>2. CASE GroupBranch
  <2>1. CASE task.state = "absent" /\ ~GroupExists(task, host)
    <3>1. Goto("info") /\ pc = "exists" /\ UNCHANGED op
      BY <1>2, <2>1 DEF GroupBranch
    <3>2. TypeOK' /\ Separate'
      BY <1>0, <3>1 DEF Goto, TypeOK, Separate
    <3>3. GroupInv'
      BY <1>0, <3>1, <2>1, SatisfiedByKind
         DEF Goto, GroupInv, GroupMet, NewReturn
    <3> QED
      BY <1>0, <3>2, <3>3 DEF PipeInv, ChildInv, EffectInv
  <2>2. CASE ~(task.state = "absent" /\ ~GroupExists(task, host))
    <3>1. /\ Goto("prepare") /\ pc = "exists"
          /\ op' = [op EXCEPT !.tool = IF task.state = "absent" THEN "del"
                                       ELSE IF GroupExists(task, host) THEN "mod"
                                       ELSE "add"]
      BY <1>2, <2>2 DEF GroupBranch
    <3>2. TypeOK' /\ Separate'
      BY <1>0, <3>1 DEF Goto, TypeOK, Separate, OpState
    <3>3. ASSUME ~interfered
          PROVE  \/ op'.tool = "del" /\ task.state = "absent" /\ GroupExists(task, host)
                 \/ op'.tool = "mod" /\ task.state = "present" /\ GroupExists(task, host)
                 \/ op'.tool = "add" /\ task.state = "present" /\ ~GroupExists(task, host)
      BY <1>0, <3>1, <2>2, <3>3 DEF GroupInv, TypeOK, OpState, ValidGroup
    <3>4. GroupInv'
      BY <1>0, <3>1, <3>3 DEF Goto, GroupInv, GroupExists
    <3> QED
      BY <1>0, <3>2, <3>4 DEF PipeInv, ChildInv, EffectInv
  <2> QED
    BY <2>1, <2>2
<1>3. CASE GroupPrepare
  <2>1. CASE Fail /\ UNCHANGED op
    BY <1>0, <1>3, <2>1, GroupFailKeeps DEF GroupPrepare
  <2>2. ASSUME NEW g \in Gids \cup {None},
               g = IF op.tool = "del" THEN None ELSE GidArgument(task, host),
               op' = [op EXCEPT !.gid = g],
               Goto(IF op.tool = "mod" /\ g = None THEN "info" ELSE "run")
        PROVE  IInv'
    <3>1. pc = "prepare" /\ host' = host /\ ret' = ret /\ interfered' = interfered
      BY <1>3, <2>2 DEF GroupPrepare, Goto
    <3>2. op' \in OpState /\ op'.tool = op.tool /\ op'.gid = g
      BY <2>2 DEF TypeOK, OpState
    <3>3. CASE op.tool = "mod" /\ g = None
      <4>1. pc' = "info"
        BY <2>2, <3>3 DEF Goto
      <4>2. TypeOK' /\ Separate'
        BY <1>0, <3>1, <3>2, <4>1 DEF TypeOK, Separate
      <4>3. ASSUME ~interfered
            PROVE  GroupMet(task, host)
        BY <1>0, <2>2, <3>1, <3>3, <4>3
           DEF GroupInv, GroupMet, GidArgument, GroupInfo, GroupTasks
      <4>4. GroupInv'
        BY <1>0, <3>1, <4>1, <4>3, SatisfiedByKind DEF GroupInv, NewReturn
      <4> QED
        BY <1>0, <4>2, <4>4 DEF PipeInv, ChildInv, EffectInv
    <3>4. CASE ~(op.tool = "mod" /\ g = None)
      <4>1. pc' = "run"
        BY <2>2, <3>4 DEF Goto
      <4>2. TypeOK' /\ Separate'
        BY <1>0, <3>1, <3>2, <3>4, <4>1 DEF TypeOK, Separate
      <4>3. GroupInv'
        BY <1>0, <2>2, <3>1, <3>2, <4>1 DEF GroupInv
      <4> QED
        BY <1>0, <4>2, <4>3 DEF PipeInv, ChildInv, EffectInv
    <3> QED
      BY <3>3, <3>4
  <2>3. (IF op.tool = "del" THEN None ELSE GidArgument(task, host)) \in Gids \cup {None}
    BY <1>0 DEF GidArgument, GroupTasks
  <2> QED
    BY <1>3, <2>1, <2>2, <2>3 DEF GroupPrepare
<1>4. CASE GroupCommand
  <2>1. /\ pc = "run" /\ pc' = "info" /\ interfered' = interfered /\ op' = op
        /\ host' \in ToolEffect(host)
        /\ ret' = [NewReturn EXCEPT !.changed = TRUE]
    <3>1. [NewReturn EXCEPT !.changed = TRUE] \in Return
      BY ReturnTypes DEF NewReturn, Return
    <3> QED
      BY <1>4, <3>1, ReturnTypes DEF GroupCommand, TypeOK
  <2>2. ret' \in Return /\ ret'.changed /\ ~ret'.failed
    <3>1. ret' \in Return
      BY <2>1, ReturnTypes DEF NewReturn, Return
    <3>2. ret'.changed
      BY <2>1 DEF NewReturn
    <3>3. ~ret'.failed
      BY <2>1 DEF NewReturn
    <3> QED
      BY <3>1, <3>2, <3>3
  <2>3. /\ host' \in Hosts
        /\ op.tool = "del" => host'.gid = None /\ ~host'.inFile /\ host.inFile
        /\ op.tool = "mod" => host'.gid = op.gid /\ host'.inFile /\ host.inFile
        /\ op.tool = "add" => /\ host'.gid # None /\ host'.inFile /\ ~host.inFile
                              /\ op.gid # None => host'.gid = op.gid
    BY <1>0, <2>1, ToolEffectTypes DEF TypeOK, Separate
  <2>4. TypeOK' /\ Separate'
    BY <1>0, <2>1, <2>2, <2>3 DEF TypeOK, Separate
  <2>5. ASSUME ~interfered
        PROVE  GroupMet(task, host') /\ host' # before /\ ~GroupMet(task, before)
    <3>1. host = before /\ host \in Hosts
      BY <2>1, <2>5, <1>0 DEF GroupInv, TypeOK
    <3>2. CASE op.tool = "del"
      BY <1>0, <2>1, <2>3, <2>5, <3>1, <3>2
         DEF GroupInv, GroupMet, GroupExists, Hosts, HostState
    <3>3. CASE op.tool = "mod"
      BY <1>0, <2>1, <2>3, <2>5, <3>1, <3>3
         DEF GroupInv, GroupMet, GroupExists, GroupInfo, GidArgument, Hosts, HostState,
             Separate
    <3>4. CASE op.tool = "add"
      BY <1>0, <2>1, <2>3, <2>5, <3>1, <3>4
         DEF GroupInv, GroupMet, GroupExists, GroupInfo, GidArgument, Hosts, HostState,
             GroupTasks
    <3> QED
      BY <1>0, <2>1, <2>5, <3>2, <3>3, <3>4 DEF GroupInv
  <2>6. GroupInv'
    BY <1>0, <2>1, <2>2, <2>5, SatisfiedByKind DEF GroupInv
  <2> QED
    BY <1>0, <2>4, <2>6 DEF PipeInv, ChildInv, EffectInv
<1>5. CASE GroupCommandFails
  BY <1>0, <1>5, GroupFailKeeps DEF GroupCommandFails
<1>6. CASE GroupReport
  <2>1. /\ pc = "info" /\ pc' = "done" /\ host' = host /\ interfered' = interfered
        /\ op' = op /\ (ret' = ret \/ ret' = NewReturn)
    BY <1>6, ReturnTypes DEF GroupReport, TypeOK
  <2>2. TypeOK' /\ Separate'
    BY <1>0, <2>1, ReturnTypes DEF TypeOK, Separate
  <2>3. ret' = IF GroupInfo(task, host) # None THEN NewReturn ELSE ret
    BY <1>6, ReturnTypes DEF GroupReport, TypeOK
  <2>4. ASSUME ~interfered
        PROVE  /\ task.state \in {"absent", "present"}
               /\ task.state = "absent" <=> GroupInfo(task, host) = None
    <3>1. ValidGroup(task) /\ GroupMet(task, host)
      BY <1>0, <2>1, <2>4, SatisfiedByKind DEF GroupInv
    <3>2. host \in Hosts
      BY DEF TypeOK
    <3> QED
      BY <3>1, <3>2 DEF ValidGroup, GroupMet, GroupInfo, GroupExists, Hosts, HostState
  <2>5. ASSUME ~interfered
        PROVE  /\ ~ret'.failed /\ Satisfied(task, host)
               /\ ret'.changed <=> host # before /\ task.state = "absent"
               /\ Satisfied(task, before) => host = before
    <3>1. /\ ~ret.failed /\ Satisfied(task, host) /\ (ret.changed <=> host # before)
          /\ Satisfied(task, before) => host = before
      BY <1>0, <2>1, <2>5 DEF GroupInv
    <3> QED
      BY <2>3, <2>4, <2>5, <3>1 DEF NewReturn
  <2>6. GroupInv'
    BY <1>0, <2>1, <2>5 DEF GroupInv
  <2> QED
    BY <1>0, <2>2, <2>6 DEF PipeInv, ChildInv, EffectInv
<1>7. CASE GroupLookupFails
  BY <1>0, <1>7, GroupFailKeeps DEF GroupLookupFails
<1>8. CASE GroupInterfere
  <2>1. interfered' /\ host' \in Hosts /\ UNCHANGED <<pc, ret, op>>
    BY <1>8 DEF GroupInterfere, Interfere, GroupHosts
  <2>2. interfered' \in BOOLEAN
    BY <1>8 DEF GroupInterfere, Interfere
  <2> QED
    BY <1>0, <2>1, <2>2 DEF TypeOK, Separate, GroupInv, PipeInv, ChildInv, EffectInv
<1> QED
  BY <1>1, <1>2, <1>3, <1>4, <1>5, <1>6, <1>7, <1>8 DEF GroupNext, GroupStep

-----------------------------------------------------------------------------
(* The command module.                                                     *)

(* A failing command leaves everything as it is and flags the return.      *)
LEMMA CommandFailKeeps ==
  ASSUME IInv, IsCommand, pc # "done", Fail, UNCHANGED <<op, proc>>
  PROVE  IInv'
<1> USE DEF IInv
<1>1. IsCommand' /\ ~IsGroup' /\ ~IsGroup
  BY TaskKinds DEF TypeOK, Fail, IsGroup, IsCommand
<1>2. /\ pc' = "done" /\ ret' \in Return /\ ret'.failed
      /\ UNCHANGED <<task, host, before, interfered, op, proc>>
  BY ReturnTypes DEF TypeOK, Fail
<1>3. TypeOK' /\ Separate' /\ GroupInv'
  BY <1>1, <1>2 DEF TypeOK, Separate, GroupInv
<1>4. PipeInv' /\ ChildInv' /\ EffectInv'
  BY <1>1, <1>2 DEF PipeInv, ChildInv, EffectInv, Satisfied, PathMet, GroupMet
<1> QED
  BY <1>3, <1>4

(* Every step of the module that runs a command keeps the invariant.       *)
LEMMA CommandStepKeeps ==
  ASSUME IInv, CommandStep \/ StatFails \/ ReadBreaks \/ CommandInterfere, UNCHANGED op
  PROVE  IInv'
<1> USE DEF IInv
<1>0. /\ IsCommand /\ task' = task /\ before' = before
      /\ IsCommand' /\ ~IsGroup' /\ task \in CommandTasks
  <2>1. IsCommand /\ task' = task /\ before' = before
    BY DEF CommandStep, CheckPrerequisites, StartCommand, WriteStdin, WriteFails,
           CloseStdin, ReadOutput, ReadEnd, ReadBreaks, WaitCommand, StatFails, CommandInterfere,
           Interfere, Fail, Goto, taskVars
  <2> QED
    BY <2>1, TaskKinds DEF TypeOK, IsGroup, IsCommand
<1>1. /\ task.data \in 0 .. MaxData /\ task.output \in 0 .. MaxData
      /\ task.program \in Programs
      /\ task.program = "filter" => task.output = task.data
  BY <1>0 DEF CommandTasks
<1>2. /\ proc.sent \in Nat /\ proc.in \in Nat /\ proc.read \in Nat /\ proc.made \in Nat
      /\ proc.out \in Nat /\ proc.got \in Nat /\ proc.in <= Pipe /\ proc.out <= Pipe
      /\ proc.sent <= MaxData /\ proc.got <= MaxData
  BY MaxDataAssumption, PipeAssumption DEF TypeOK, ProcState
<1>3. CASE CheckPrerequisites
  <2>1. CASE Fail
    BY <1>0, <1>3, <2>1, CommandFailKeeps DEF CheckPrerequisites
  <2>2. CASE Goto("crashed") \/ (Goto("start") /\ GuardHolds(task, host))
    <3>1. /\ pc = "parse" /\ pc' \in {"crashed", "start"}
          /\ UNCHANGED <<host, ret, interfered, proc>>
          /\ pc' = "start" => GuardHolds(task, host)
      BY <1>3, <2>2 DEF CheckPrerequisites, Goto
    <3>2. TypeOK' /\ Separate' /\ GroupInv'
      BY <1>0, <3>1 DEF TypeOK, Separate, GroupInv
    <3>3. PipeInv' /\ ChildInv' /\ EffectInv'
      BY <1>0, <3>1 DEF PipeInv, ChildInv, EffectInv
    <3> QED
      BY <3>2, <3>3
  <2> QED
    BY <1>3, <2>1, <2>2 DEF CheckPrerequisites
<1>4. CASE StatFails
  BY <1>0, <1>4, CommandFailKeeps DEF StatFails
<1>5. CASE StartCommand
  <2>0. CASE NoArguments(task)
    <3>1. pc = "start" /\ pc' = "crashed" /\ UNCHANGED <<host, ret, interfered, proc>>
      BY <1>5, <2>0 DEF StartCommand, Goto
    <3>2. TypeOK' /\ Separate' /\ GroupInv'
      BY <1>0, <3>1 DEF TypeOK, Separate, GroupInv
    <3>3. PipeInv' /\ ChildInv' /\ EffectInv'
      BY <1>0, <3>1 DEF PipeInv, ChildInv, EffectInv
    <3> QED
      BY <3>2, <3>3
  <2>1. CASE ~NoArguments(task) /\ ~ProgramFound(task)
    BY <1>0, <1>5, <2>1, CommandFailKeeps DEF StartCommand
  <2>2. CASE ~NoArguments(task) /\ ProgramFound(task)
    <3>1. /\ pc = "start" /\ pc' = (IF task.data = 0 THEN "read" ELSE "write")
          /\ proc' = [NoProc EXCEPT !.st = "running", !.closed = task.data = 0,
                                    !.held = TRUE]
          /\ UNCHANGED <<host, ret, interfered>>
      BY <1>5, <2>2 DEF StartCommand, Goto
    <3>2. proc' \in ProcState
      <4>1. 0 \in 0 .. MaxData /\ 0 \in 0 .. Pipe /\ 0 \in 0 .. 1 /\ (task.data = 0) \in BOOLEAN
        BY MaxDataAssumption, PipeAssumption
      <4> QED
        BY <3>1, <4>1 DEF ProcState, NoProc
    <3>3. /\ proc'.st = "running" /\ proc'.held /\ proc'.sent = 0 /\ proc'.in = 0
          /\ proc'.read = 0 /\ proc'.made = 0 /\ proc'.out = 0 /\ proc'.got = 0 /\ proc'.rc = 0
          /\ ~proc'.broken
      BY <3>1 DEF NoProc
    <3>4. TypeOK' /\ Separate' /\ GroupInv'
      BY <1>0, <3>1, <3>2 DEF TypeOK, Separate, GroupInv
    <3>5. PipeInv'
      BY <1>0, <1>1, <3>1, <3>3 DEF PipeInv
    <3>6. task.data = 0 => Fits(task) \/ task.program = "daemon"
      BY <1>1, PipeAssumption DEF Fits, Programs
    <3>7. ChildInv'
      BY <1>0, <3>1, <3>3, <3>6 DEF ChildInv
    <3>8. EffectInv'
      BY <1>0, <3>1, <3>3 DEF EffectInv, ChildInv
    <3> QED
      BY <3>4, <3>5, <3>7, <3>8
  <2> QED
    BY <2>0, <2>1, <2>2
<1>6. CASE WriteStdin
  <2>1. /\ pc = "write" /\ proc.sent < task.data /\ proc.in < Pipe /\ proc.held
        /\ proc' = [proc EXCEPT !.sent = @ + 1, !.in = @ + 1]
        /\ UNCHANGED <<host, pc, ret, interfered>>
    BY <1>6 DEF WriteStdin, taskVars
  <2>2. proc' \in ProcState
    <3>1. proc.sent + 1 \in 0 .. MaxData /\ proc.in + 1 \in 0 .. Pipe
      BY <1>1, <1>2, <2>1, MaxDataAssumption, PipeAssumption
    <3> QED
      BY <2>1, <3>1 DEF TypeOK, ProcState
  <2>3. /\ proc'.sent = proc.sent + 1 /\ proc'.in = proc.in + 1
        /\ proc'.st = proc.st /\ proc'.read = proc.read
        /\ proc'.made = proc.made /\ proc'.out = proc.out /\ proc'.got = proc.got
        /\ proc'.held = proc.held /\ proc'.rc = proc.rc
        /\ proc'.broken = proc.broken /\ proc'.stdout = proc.stdout
    BY <2>1 DEF TypeOK, ProcState
  <2>4. TypeOK' /\ Separate' /\ GroupInv'
    BY <1>0, <2>1, <2>2 DEF TypeOK, Separate, GroupInv
  <2>5. PipeInv'
    BY <1>0, <1>1, <1>2, <2>1, <2>3 DEF PipeInv
  <2>6. ChildInv'
    BY <1>0, <2>1, <2>3 DEF ChildInv, NoProc
  <2>7. EffectInv'
    BY <1>0, <2>1, <2>3 DEF EffectInv, Satisfied, PathMet, GroupMet
  <2> QED
    BY <2>4, <2>5, <2>6, <2>7
<1>7. CASE WriteFails
  BY <1>0, <1>7, CommandFailKeeps DEF WriteFails
<1>8. CASE CloseStdin
  <2>1. /\ pc = "write" /\ pc' = "read" /\ proc.sent = task.data
        /\ proc' = [proc EXCEPT !.closed = TRUE]
        /\ UNCHANGED <<host, ret, interfered>>
    BY <1>8 DEF CloseStdin, Goto
  <2>2. proc' \in ProcState
    BY <2>1 DEF TypeOK, ProcState
  <2>3. /\ proc'.sent = proc.sent /\ proc'.in = proc.in /\ proc'.st = proc.st
        /\ proc'.read = proc.read /\ proc'.made = proc.made /\ proc'.out = proc.out
        /\ proc'.got = proc.got /\ proc'.held = proc.held /\ proc'.rc = proc.rc
        /\ proc'.broken = proc.broken /\ proc'.stdout = proc.stdout
    BY <2>1 DEF TypeOK, ProcState
  <2>4. TypeOK' /\ Separate' /\ GroupInv'
    BY <1>0, <2>1, <2>2 DEF TypeOK, Separate, GroupInv
  <2>5. PipeInv'
    BY <1>0, <2>1, <2>3 DEF PipeInv
  <2>6. Fits(task) \/ task.program = "daemon"
    <3>1. proc.got = 0
      BY <1>0, <2>1 DEF ChildInv
    <3>2. task.program = "filter" => task.data <= 2 * Pipe + 1
      BY <1>0, <1>2, <2>1, <3>1, PipeAssumption DEF PipeInv
    <3>3. task.program = "source" => task.data <= Pipe
      BY <1>0, <1>2, <2>1 DEF PipeInv
    <3> QED
      BY <1>1, <3>2, <3>3 DEF Fits, Programs
  <2>7. ChildInv'
    BY <1>0, <2>1, <2>3, <2>6 DEF ChildInv
  <2>8. EffectInv'
    BY <1>0, <2>1, <2>3 DEF EffectInv
  <2> QED
    BY <2>4, <2>5, <2>7, <2>8
<1>9. CASE ReadOutput
  <2>1. /\ pc = "read" /\ proc.out > 0
        /\ proc' = [proc EXCEPT !.out = @ - 1, !.got = @ + 1]
        /\ UNCHANGED <<host, pc, ret, interfered>>
    BY <1>9 DEF ReadOutput, taskVars
  <2>2. proc' \in ProcState
    <3>1. proc.out - 1 \in 0 .. Pipe /\ proc.got + 1 \in 0 .. MaxData
      BY <1>0, <1>1, <1>2, <2>1, MaxDataAssumption, PipeAssumption DEF PipeInv
    <3> QED
      BY <2>1, <3>1 DEF TypeOK, ProcState
  <2>3. /\ proc'.sent = proc.sent /\ proc'.in = proc.in /\ proc'.st = proc.st
        /\ proc'.read = proc.read /\ proc'.made = proc.made /\ proc'.out = proc.out - 1
        /\ proc'.got = proc.got + 1 /\ proc'.held = proc.held /\ proc'.rc = proc.rc
        /\ proc'.broken = proc.broken /\ proc'.stdout = proc.stdout
    BY <2>1 DEF TypeOK, ProcState
  <2>4. TypeOK' /\ Separate' /\ GroupInv'
    BY <1>0, <2>1, <2>2 DEF TypeOK, Separate, GroupInv
  <2>5. PipeInv'
    BY <1>0, <1>2, <2>1, <2>3 DEF PipeInv
  <2>6. ChildInv'
    BY <1>0, <2>1, <2>3 DEF ChildInv
  <2>7. EffectInv'
    BY <1>0, <2>1, <2>3 DEF EffectInv
  <2> QED
    BY <2>4, <2>5, <2>6, <2>7
<1>10. CASE ReadEnd
  <2>1. /\ pc = "read" /\ pc' = "wait" /\ proc.out = 0 /\ ~proc.held
        /\ UNCHANGED <<host, ret, interfered, proc>>
    BY <1>10 DEF ReadEnd, OutputEnds, Goto
  <2>2. TypeOK' /\ Separate' /\ GroupInv'
    BY <1>0, <2>1 DEF TypeOK, Separate, GroupInv
  <2>3. PipeInv' /\ ChildInv' /\ EffectInv'
    BY <1>0, <2>1 DEF PipeInv, ChildInv, EffectInv
  <2> QED
    BY <2>2, <2>3
<1>11. CASE WaitCommand
  <2>1. /\ pc = "wait" /\ pc' = "done" /\ proc.st = "exited" /\ ~proc.held
        /\ proc' = [proc EXCEPT !.stdout = StripEmptyEnds(task, proc.got)]
        /\ ret' = UpdateReturn(ret, [NewReturn EXCEPT !.rc = proc.rc])
        /\ UNCHANGED <<host, interfered>>
    BY <1>11 DEF WaitCommand
  <2>7. StripEmptyEnds(task, proc.got) \in 0 .. MaxData
    <3>1. task.blanks \in Nat
      BY <1>0 DEF CommandTasks
    <3> QED
      BY <1>2, <3>1, MaxDataAssumption DEF StripEmptyEnds
  <2>8. proc' \in ProcState
    BY <2>1, <2>7 DEF TypeOK, ProcState
  <2>9. /\ proc'.sent = proc.sent /\ proc'.in = proc.in /\ proc'.st = proc.st
        /\ proc'.read = proc.read /\ proc'.made = proc.made /\ proc'.out = proc.out
        /\ proc'.got = proc.got /\ proc'.held = proc.held /\ proc'.rc = proc.rc
        /\ proc'.broken = proc.broken /\ proc'.stdout = StripEmptyEnds(task, proc.got)
    BY <2>1 DEF TypeOK, ProcState
  <2>10. proc'.stdout = StripEmptyEnds(task, proc.got)'
    BY <1>0, <2>9 DEF StripEmptyEnds
  <2>2. [NewReturn EXCEPT !.rc = proc.rc] \in Return
    BY DEF NewReturn, Return, TypeOK, ProcState
  <2>3. ret' = [NewReturn EXCEPT !.rc = proc.rc]
    BY <2>1, <2>2, ReturnTypes DEF TypeOK
  <2>4. ret'.rc = proc.rc
    BY <2>3 DEF NewReturn
  <2>5. TypeOK' /\ Separate' /\ GroupInv'
    BY <1>0, <2>1, <2>2, <2>3, <2>8 DEF TypeOK, Separate, GroupInv
  <2>6. PipeInv' /\ ChildInv' /\ EffectInv'
    <3>1. PipeInv'
      BY <1>0, <2>1, <2>9 DEF PipeInv
    <3>2. ChildInv'
      BY <1>0, <2>1, <2>4, <2>9, <2>10 DEF ChildInv
    <3>3. EffectInv'
      BY <1>0, <2>1, <2>9 DEF EffectInv
    <3> QED
      BY <3>1, <3>2, <3>3
  <2> QED
    BY <2>5, <2>6
<1>13. CASE ReadBreaks
  <2>1. /\ pc = "read" /\ pc' = "wait" /\ proc' = [proc EXCEPT !.broken = TRUE]
        /\ UNCHANGED <<host, ret, interfered>>
    BY <1>13 DEF ReadBreaks, Goto
  <2>2. proc' \in ProcState
    BY <2>1 DEF TypeOK, ProcState
  <2>3. /\ proc'.sent = proc.sent /\ proc'.in = proc.in /\ proc'.st = proc.st
        /\ proc'.read = proc.read /\ proc'.made = proc.made /\ proc'.out = proc.out
        /\ proc'.got = proc.got /\ proc'.held = proc.held /\ proc'.rc = proc.rc
        /\ proc'.broken
    BY <2>1 DEF TypeOK, ProcState
  <2>4. TypeOK' /\ Separate' /\ GroupInv'
    BY <1>0, <2>1, <2>2 DEF TypeOK, Separate, GroupInv
  <2>5. PipeInv' /\ ChildInv' /\ EffectInv'
    BY <1>0, <2>1, <2>3 DEF PipeInv, ChildInv, EffectInv
  <2> QED
    BY <2>4, <2>5
<1>12. CASE CommandInterfere
  <2>1. interfered' /\ host' \in Hosts /\ UNCHANGED <<pc, ret, proc>>
    BY <1>12 DEF CommandInterfere, Interfere, CommandHosts
  <2>2. interfered' \in BOOLEAN
    BY <1>12 DEF CommandInterfere, Interfere
  <2> QED
    BY <1>0, <2>1, <2>2 DEF TypeOK, Separate, GroupInv, PipeInv, ChildInv, EffectInv
<1> QED
  BY <1>3, <1>4, <1>5, <1>6, <1>7, <1>8, <1>9, <1>10, <1>11, <1>12, <1>13 DEF CommandStep

(* Every step of the child keeps the invariant: it moves units through the *)
(* pipes, and only its end changes the host.                               *)
LEMMA ChildKeeps ==
  ASSUME IInv, ChildStep \/ ChildFails, UNCHANGED op
  PROVE  IInv'
<1> USE DEF IInv
<1>0. /\ IsCommand /\ proc.st = "running"
      /\ UNCHANGED <<task, before, pc, ret, interfered, op>>
      /\ IsCommand' /\ ~IsGroup' /\ task \in CommandTasks
  <2>1. IsCommand /\ proc.st = "running" /\ UNCHANGED <<task, before, pc, ret, interfered>>
    BY DEF ChildStep, ChildRead, ChildWrite, ChildExit, ChildFails, Running, taskVars
  <2> QED
    BY <2>1, TaskKinds DEF TypeOK, IsGroup, IsCommand
<1>1. /\ task.data \in 0 .. MaxData /\ task.output \in 0 .. MaxData
      /\ task.program \in Programs
      /\ task.program = "filter" => task.output = task.data
      /\ task.guard \in {"none", "creates", "removes"}
  BY <1>0 DEF CommandTasks
<1>2. /\ proc.sent \in Nat /\ proc.in \in Nat /\ proc.read \in Nat /\ proc.made \in Nat
      /\ proc.out \in Nat /\ proc.got \in Nat /\ proc.in <= Pipe /\ proc.out <= Pipe
  BY MaxDataAssumption, PipeAssumption DEF TypeOK, ProcState
<1>3. pc \in {"write", "read", "wait"} \/ (pc = "done" /\ ret.failed)
  BY <1>0 DEF ChildInv, Separate
<1>4. (pc = "wait" => proc.broken) /\ proc.held /\ proc.rc = 0
  BY <1>0 DEF ChildInv
<1>5. CASE ChildRead
  <2>1. /\ proc.in > 0 /\ task.program \in {"filter", "reader"} /\ host' = host
        /\ task.program = "filter" => proc.made = proc.read
        /\ proc' = [proc EXCEPT !.in = @ - 1, !.read = @ + 1]
    BY <1>5 DEF ChildRead, taskVars
  <2>2. proc' \in ProcState
    <3>1. proc.in - 1 \in 0 .. Pipe /\ proc.read + 1 \in 0 .. MaxData
      BY <1>0, <1>1, <1>2, <2>1, MaxDataAssumption, PipeAssumption DEF PipeInv
    <3> QED
      BY <2>1, <3>1 DEF TypeOK, ProcState
  <2>3. /\ proc'.sent = proc.sent /\ proc'.in = proc.in - 1 /\ proc'.st = proc.st
        /\ proc'.read = proc.read + 1 /\ proc'.made = proc.made /\ proc'.out = proc.out
        /\ proc'.got = proc.got /\ proc'.held = proc.held /\ proc'.rc = proc.rc
        /\ proc'.broken = proc.broken /\ proc'.stdout = proc.stdout
    BY <2>1 DEF TypeOK, ProcState
  <2>4. TypeOK' /\ Separate' /\ GroupInv'
    BY <1>0, <2>1, <2>2 DEF TypeOK, Separate, GroupInv
  <2>5. PipeInv'
    BY <1>0, <1>2, <2>1, <2>3 DEF PipeInv
  <2>6. ChildInv' /\ EffectInv'
    BY <1>0, <1>3, <1>4, <2>1, <2>3 DEF ChildInv, EffectInv
  <2> QED
    BY <2>4, <2>5, <2>6
<1>6. CASE ChildWrite
  <2>1. /\ proc.made < Ready /\ proc.out < Pipe /\ host' = host
        /\ proc' = [proc EXCEPT !.made = @ + 1, !.out = @ + 1]
    BY <1>6 DEF ChildWrite, taskVars
  <2>2. /\ proc.made < task.output
        /\ task.program = "filter" => proc.made < proc.read
    <3>1. CASE task.program = "filter"
      BY <1>0, <1>1, <1>2, <2>1, <3>1 DEF Ready, PipeInv
    <3>2. CASE task.program = "reader"
      BY <1>1, <1>2, <2>1, <3>2 DEF Ready
    <3>3. CASE task.program \in {"source", "daemon"}
      BY <1>1, <1>2, <2>1, <3>3 DEF Ready
    <3> QED
      BY <1>1, <3>1, <3>2, <3>3 DEF Programs
  <2>3. proc' \in ProcState
    <3>1. proc.made + 1 \in 0 .. MaxData /\ proc.out + 1 \in 0 .. Pipe
      BY <1>1, <1>2, <2>1, <2>2, MaxDataAssumption, PipeAssumption
    <3> QED
      BY <2>1, <3>1 DEF TypeOK, ProcState
  <2>4. /\ proc'.sent = proc.sent /\ proc'.in = proc.in /\ proc'.st = proc.st
        /\ proc'.read = proc.read /\ proc'.made = proc.made + 1 /\ proc'.out = proc.out + 1
        /\ proc'.got = proc.got /\ proc'.held = proc.held /\ proc'.rc = proc.rc
        /\ proc'.broken = proc.broken /\ proc'.stdout = proc.stdout
    BY <2>1 DEF TypeOK, ProcState
  <2>5. TypeOK' /\ Separate' /\ GroupInv'
    BY <1>0, <2>1, <2>3 DEF TypeOK, Separate, GroupInv
  <2>6. PipeInv'
    BY <1>0, <1>1, <1>2, <2>2, <2>4 DEF PipeInv
  <2>7. ChildInv' /\ EffectInv'
    BY <1>0, <1>3, <1>4, <2>1, <2>4 DEF ChildInv, EffectInv
  <2> QED
    BY <2>5, <2>6, <2>7
<1>7. CASE ChildExit
  <2>1. /\ proc.made = task.output
        /\ proc' = [proc EXCEPT !.st = "exited", !.held = task.program = "daemon"]
        /\ host' = [host EXCEPT !.path = CASE task.guard = "creates" -> TRUE
                                           [] task.guard = "removes" -> FALSE
                                           [] OTHER -> ~@]
    BY <1>7 DEF ChildExit
  <2>2. proc' \in ProcState
    BY <2>1 DEF TypeOK, ProcState
  <2>3. /\ proc'.sent = proc.sent /\ proc'.in = proc.in /\ proc'.st = "exited"
        /\ proc'.read = proc.read /\ proc'.made = proc.made /\ proc'.out = proc.out
        /\ proc'.got = proc.got /\ proc'.rc = proc.rc
        /\ proc'.broken = proc.broken /\ proc'.stdout = proc.stdout
    BY <2>1 DEF TypeOK, ProcState
  <2>4. proc'.held = (task.program = "daemon")
    BY <2>1 DEF TypeOK, ProcState
  <2>5. host' \in Hosts
    <3>1. host'.gid = host.gid /\ host'.inFile = host.inFile
      BY <2>1 DEF TypeOK, Hosts, HostState
    <3>2. host' \in HostState
      <4>1. (CASE task.guard = "creates" -> TRUE [] task.guard = "removes" -> FALSE
               [] OTHER -> ~host.path) \in BOOLEAN
        BY <1>1
      <4> QED
        BY <2>1, <4>1 DEF TypeOK, Hosts, HostState
    <3> QED
      BY <3>1, <3>2 DEF TypeOK, Hosts
  <2>6. PathMet(task, host') \/ task.guard = "none"
    <3>1. CASE task.guard = "creates"
      BY <2>1, <3>1 DEF PathMet, TypeOK, Hosts, HostState
    <3>2. CASE task.guard = "removes"
      BY <2>1, <3>2 DEF PathMet, TypeOK, Hosts, HostState
    <3> QED
      BY <1>1, <3>1, <3>2
  <2>7. TypeOK' /\ Separate' /\ GroupInv'
    BY <1>0, <2>2, <2>5 DEF TypeOK, Separate, GroupInv
  <2>8. PipeInv'
    BY <1>0, <2>3 DEF PipeInv
  <2>9. ChildInv'
    BY <1>0, <1>3, <1>4, <2>1, <2>3, <2>4 DEF ChildInv
  <2>10. EffectInv'
    BY <1>0, <2>3, <2>6, SatisfiedByKind DEF EffectInv
  <2> QED
    BY <2>7, <2>8, <2>9, <2>10
<1>8. CASE ChildFails
  <2>1. /\ proc' = [proc EXCEPT !.st = "exited", !.held = FALSE, !.rc = 1]
        /\ host' = host
    BY <1>8 DEF ChildFails, taskVars
  <2>2. proc' \in ProcState
    <3>1. 1 \in 0 .. 1
      OBVIOUS
    <3> QED
      BY <2>1, <3>1 DEF TypeOK, ProcState
  <2>3. /\ proc'.sent = proc.sent /\ proc'.in = proc.in /\ proc'.st = "exited"
        /\ proc'.read = proc.read /\ proc'.made = proc.made /\ proc'.out = proc.out
        /\ proc'.got = proc.got /\ proc'.rc = 1
        /\ proc'.broken = proc.broken /\ proc'.stdout = proc.stdout
    BY <2>1 DEF TypeOK, ProcState
  <2>4. TypeOK' /\ Separate' /\ GroupInv'
    BY <1>0, <2>1, <2>2 DEF TypeOK, Separate, GroupInv
  <2>5. PipeInv' /\ ChildInv' /\ EffectInv'
    BY <1>0, <1>3, <1>4, <2>1, <2>3 DEF PipeInv, ChildInv, EffectInv
  <2> QED
    BY <2>4, <2>5
<1> QED
  BY <1>5, <1>6, <1>7, <1>8 DEF ChildStep

-----------------------------------------------------------------------------
(* The theorems.                                                           *)

(* The invariant holds where every task begins.                            *)
LEMMA InitIInv == Init => IInv
<1> SUFFICES ASSUME Init PROVE IInv
  OBVIOUS
<1>1. /\ task \in GroupTasks \cup CommandTasks /\ host \in Hosts /\ before = host
      /\ pc = "parse" /\ ret = NewReturn /\ interfered = FALSE /\ op = NoOp /\ proc = NoProc
      /\ met = FALSE
  BY DEF Init, GroupInit, CommandInit, ExecuteModule, GroupHosts, CommandHosts
<1>2. NoProc \in ProcState /\ NoOp \in OpState
  BY MaxDataAssumption, PipeAssumption DEF NoProc, ProcState, NoOp, OpState
<1>3. TypeOK
  BY <1>1, <1>2, ReturnTypes DEF TypeOK
<1>4. Separate /\ GroupInv /\ ChildInv /\ EffectInv
  BY <1>1 DEF Separate, GroupInv, ChildInv, EffectInv, NoProc
<1>5. PipeInv
  <2> SUFFICES ASSUME IsCommand PROVE PipeInv
    BY DEF PipeInv
  <2>1. task.data \in 0 .. MaxData /\ task.output \in 0 .. MaxData
    BY <1>1, TaskKinds DEF CommandTasks
  <2> QED
    BY <1>1, <2>1, MaxDataAssumption DEF PipeInv, NoProc
<1> QED
  BY <1>3, <1>4, <1>5 DEF IInv

(* The invariant holds throughout.                                         *)
LEMMA Invariance == Spec => []IInv
<1>1. IInv /\ [Next]_vars => IInv'
  <2> SUFFICES ASSUME IInv, [Next]_vars PROVE IInv'
    OBVIOUS
  <2>1. CASE GroupNext /\ UNCHANGED proc /\ Remember
    BY <2>1, GroupKeeps
  <2>2. CASE CommandNext /\ UNCHANGED <<op, met>>
    BY <2>2, CommandStepKeeps, ChildKeeps DEF CommandNext
  <2>3. CASE UNCHANGED vars
    BY <2>3 DEF vars, taskVars, IInv, TypeOK, Separate, GroupInv, PipeInv, ChildInv,
                EffectInv, IsGroup, IsCommand
  <2> QED
    BY <2>1, <2>2, <2>3 DEF Next
<1> QED
  BY <1>1, InitIInv, PTL DEF Spec

(* No step of a group task, nor the administrator, breaks MetInv:          *)
(* GroupBranch and GroupPrepare remember a request that holds when they do *)
(* without a tool or a -g, and a tool that exits with 0 meets the rest.    *)
LEMMA MetKeeps ==
  ASSUME IInv, MetInv, [Next]_vars
  PROVE  MetInv'
<1>1. CASE GroupNext /\ UNCHANGED proc /\ Remember
  <2>1. IsGroup /\ task' = task /\ task \in GroupTasks /\ IsGroup'
    <3>1. IsGroup /\ task' = task
      BY <1>1 DEF GroupNext, GroupStep, GroupParse, GroupBranch, GroupPrepare, GroupCommand,
             GroupCommandFails, GroupReport, GroupLookupFails, GroupInterfere, Interfere,
             Fail, Goto
    <3> QED
      BY <3>1, TaskKinds DEF IInv, TypeOK, IsGroup
  <2>2. met => met'
    BY <1>1 DEF Remember
  <2>3. ASSUME Fail PROVE MetInv'
    BY <2>3, ReturnTypes DEF Fail, MetInv, IInv, TypeOK
  <2>4. CASE GroupParse
    BY <2>1, <2>3, <2>4 DEF GroupParse, Goto, MetInv
  <2>5. CASE GroupBranch
    <3>1. pc = "exists" /\ pc' # pc /\ host' = host /\ ValidGroup(task)
      BY <2>1, <2>5 DEF GroupBranch, Goto, MetInv
    <3>2. GroupMet(task, host) => met'
      BY <1>1, <3>1 DEF Remember
    <3>3. CASE task.state = "absent" /\ ~GroupExists(task, host)
      <4>1. pc' = "info"
        BY <2>5, <3>3 DEF GroupBranch, Goto
      <4>2. met'
        BY <3>2, <3>3 DEF GroupMet
      <4> QED BY <2>1, <3>1, <4>1, <4>2 DEF MetInv
    <3>4. CASE ~(task.state = "absent" /\ ~GroupExists(task, host))
      <4>1. /\ pc' = "prepare"
            /\ op'.tool = IF task.state = "absent" THEN "del"
                          ELSE IF GroupExists(task, host) THEN "mod" ELSE "add"
        BY <2>5, <3>4 DEF GroupBranch, Goto, IInv, TypeOK, OpState
      <4>2. op'.tool = "mod" /\ task.gid = None => met'
        BY <3>1, <3>2, <4>1 DEF GroupMet, ValidGroup
      <4> QED BY <2>1, <3>1, <4>1, <4>2 DEF MetInv
    <3> QED BY <3>3, <3>4
  <2>6. CASE GroupPrepare
    <3>1. ~Fail => /\ pc = "prepare" /\ host' = host
                   /\ op' = [op EXCEPT !.gid = IF op.tool = "del" THEN None
                                                 ELSE GidArgument(task, host)]
                   /\ pc' = IF op.tool = "mod" /\ op'.gid = None THEN "info" ELSE "run"
      BY <2>6 DEF GroupPrepare, Goto, IInv, TypeOK, OpState
    <3> SUFFICES ASSUME ~Fail PROVE MetInv'
      BY <2>3
    <3>2. ValidGroup(task) /\ op.tool \in (IF task.state = "absent" THEN {"del"} ELSE {"add", "mod"})
      BY <2>1, <3>1 DEF MetInv
    <3>3. op'.tool = op.tool /\ op'.gid = IF op.tool = "del" THEN None ELSE GidArgument(task, host)
      BY <3>1 DEF IInv, TypeOK, OpState
    <3>4. GroupMet(task, host) => met'
      BY <1>1, <3>1 DEF Remember
    <3>5. task.state = "present" /\ op'.gid # task.gid => met'
      BY <2>1, <3>2, <3>3, <3>4 DEF GidArgument, GroupInfo, GroupMet, GroupTasks
    <3>6. op.tool = "mod" /\ op'.gid = None => met'
      BY <2>1, <2>2, <3>1, <3>2, <3>5 DEF MetInv, ValidGroup
    <3> QED BY <2>1, <3>1, <3>2, <3>3, <3>5, <3>6 DEF MetInv
  <2>7. CASE GroupCommand
    <3>1. /\ pc = "run" /\ pc' = "info" /\ op' = op /\ host' \in ToolEffect(host)
      BY <2>7 DEF GroupCommand
    <3>2. /\ host' \in Hosts
          /\ op.tool = "del" => host'.gid = None /\ ~host'.inFile /\ host.inFile
          /\ op.tool = "mod" => host'.gid = op.gid /\ host'.inFile /\ host.inFile
          /\ op.tool = "add" => /\ host'.gid # None /\ host'.inFile /\ ~host.inFile
                                /\ op.gid # None => host'.gid = op.gid
      BY <2>1, <3>1, ToolEffectTypes DEF IInv, TypeOK, Separate
    <3>3. /\ ValidGroup(task)
          /\ op.tool \in (IF task.state = "absent" THEN {"del"} ELSE {"add", "mod"})
          /\ task.state = "present" /\ op.gid # task.gid => met
      BY <2>1, <3>1 DEF MetInv
    <3>4. op.tool = "mod" => op.gid # None
      BY <2>1, <3>1 DEF IInv, Separate
    <3>5. ~met => GroupMet(task, host')
      BY <3>2, <3>3, <3>4 DEF GroupMet, GroupExists, ValidGroup
    <3>6. met'
      BY <1>1, <3>1, <3>5 DEF Remember
    <3> QED BY <2>1, <3>1, <3>3, <3>6 DEF MetInv
  <2>8. CASE GroupReport
    BY <2>1, <2>2, <2>8 DEF GroupReport, MetInv
  <2>9. CASE GroupInterfere
    BY <2>1, <2>2, <2>9 DEF GroupInterfere, Interfere, MetInv
  <2> QED
    BY <1>1, <2>3, <2>4, <2>5, <2>6, <2>7, <2>8, <2>9
       DEF GroupNext, GroupStep, GroupCommandFails, GroupLookupFails
<1>2. CASE CommandNext /\ UNCHANGED <<op, met>>
  <2> SUFFICES IsCommand /\ task' = task
    BY TaskKinds DEF IInv, TypeOK, MetInv, IsGroup, IsCommand
  <2>1. CASE CheckPrerequisites \/ StatFails
    BY <2>1 DEF CheckPrerequisites, StatFails, Fail, Goto
  <2>2. CASE StartCommand \/ WaitCommand \/ WriteFails
    BY <2>2 DEF StartCommand, WaitCommand, WriteFails, Fail, Goto
  <2>3. CASE WriteStdin \/ CloseStdin \/ ReadOutput \/ ReadEnd \/ ReadBreaks
    BY <2>3 DEF WriteStdin, CloseStdin, ReadOutput, ReadEnd, ReadBreaks, Goto,
                taskVars
  <2>4. CASE ChildRead \/ ChildWrite \/ ChildExit \/ ChildFails \/ CommandInterfere
    BY <2>4 DEF ChildRead, ChildWrite, ChildExit, ChildFails, Running, CommandInterfere,
                Interfere, taskVars
  <2> QED BY <1>2, <2>1, <2>2, <2>3, <2>4 DEF CommandNext, CommandStep, ChildStep
<1>3. CASE UNCHANGED vars
  BY <1>3 DEF vars, taskVars, MetInv, IsGroup
<1> QED
  BY <1>1, <1>2, <1>3 DEF Next

(* The state keeps its type, for all capacities of the pipes: no pipe      *)
(* overflows and readOutput never collects more than was written.          *)
THEOREM ModulesTypeCorrect == Spec => []TypeOK
<1>1. IInv => TypeOK
  BY DEF IInv
<1> QED
  BY <1>1, Invariance, PTL

(* A group task or a guarded command that succeeds on a host nobody else   *)
(* touches has brought it to the state asked for; and whoever interferes   *)
(* with a group task that succeeds, its request held at one of the steps.  *)
THEOREM ModulesReachRequest == Spec => []ReachesRequest
<1>1. IInv /\ MetInv => ReachesRequest
  BY TaskKinds
     DEF IInv, TypeOK, ReachesRequest, Succeeded, Done, GroupInv, ChildInv, EffectInv, MetInv
<1>2. Init => MetInv
  BY DEF Init, GroupInit, CommandInit, ExecuteModule, MetInv
<1>3. IInv /\ MetInv /\ [Next]_vars => MetInv'
  BY MetKeeps
<1> QED
  BY <1>1, <1>2, <1>3, Invariance, PTL DEF Spec

(* Where the request already holds, no tool is run, no program is started  *)
(* and the host stays as it is.                                            *)
THEOREM ModulesIdle == Spec => []IdleWhenSatisfied
<1>1. IInv => IdleWhenSatisfied
  <2> SUFFICES ASSUME IInv, Satisfied(task, before), ~interfered
               PROVE  host = before /\ pc # "run" /\ proc.st = "none"
    BY DEF IdleWhenSatisfied
  <2>1. CASE IsGroup
    <3>1. proc.st = "none" /\ host = before
      BY <2>1 DEF IInv, Separate, GroupInv, NoProc
    <3>2. pc # "run"
      BY <2>1, TaskKinds, SatisfiedByKind
         DEF IInv, TypeOK, Separate, GroupInv, GroupMet, GidArgument, GroupInfo,
             GroupExists, GroupTasks
    <3> QED
      BY <3>1, <3>2
  <2>2. CASE IsCommand
    <3>1. ~GuardHolds(task, before)
      BY <2>2, SatisfiedByKind DEF PathMet, GuardHolds
    <3> QED
      BY <2>2, <3>1 DEF IInv, Separate, EffectInv
  <2> QED
    BY <2>1, <2>2, TaskKinds DEF IInv, TypeOK
<1> QED
  BY <1>1, Invariance, PTL

(* A finished group task tells the truth about the change it made, except  *)
(* that a success reports no change but a removal.                         *)
THEOREM ModulesHonest == Spec => []HonestReport
<1>1. IInv => HonestReport
  BY DEF IInv, HonestReport, Done, GroupInv
<1> QED
  BY <1>1, Invariance, PTL

(* A command is reported with exit code 0 only with its output from the    *)
(* first line that is not empty to the very end, unless the pipe broke,    *)
(* and only if the program fits the pipes: with any other the module and   *)
(* the child wait for each other, whatever the capacity of a pipe.         *)
THEOREM ModulesOutputWhole == Spec => []OutputWhole
<1>1. IInv => OutputWhole
  <2> SUFFICES ASSUME IInv, Succeeded, IsCommand
               PROVE  /\ proc.st = "exited" /\ Fits(task)
                      /\ \/ proc.stdout = task.output - (IF task.strip THEN task.blanks ELSE 0)
                         \/ proc.broken /\ proc.stdout <= task.output
    BY DEF OutputWhole
  <2>1. /\ proc.st = "exited" /\ (proc.broken \/ proc.out = 0) /\ ~proc.held /\ proc.rc = 0
        /\ Fits(task) \/ task.program = "daemon"
        /\ proc.stdout = StripEmptyEnds(task, proc.got)
    BY DEF IInv, Succeeded, Done, ChildInv
  <2>2. proc.made = task.output /\ task.program # "daemon"
    BY <2>1 DEF IInv, ChildInv
  <2>3. proc.got \in Nat /\ proc.out \in Nat /\ proc.made = proc.out + proc.got
    BY MaxDataAssumption, PipeAssumption DEF IInv, TypeOK, ProcState, PipeInv
  <2>4. /\ task.blanks \in Nat /\ task.output \in Nat
        /\ task.blanks <= (IF task.strip THEN task.output ELSE 0)
    BY TaskKinds, MaxDataAssumption DEF IInv, TypeOK, CommandTasks
  <2>5. proc.stdout <= task.output
    BY <2>1, <2>2, <2>3, <2>4 DEF StripEmptyEnds
  <2>6. proc.out = 0 => proc.stdout = task.output - (IF task.strip THEN task.blanks ELSE 0)
    BY <2>1, <2>2, <2>3, <2>4 DEF StripEmptyEnds
  <2> QED
    BY <2>1, <2>2, <2>5, <2>6
<1> QED
  BY <1>1, Invariance, PTL

=============================================================================
