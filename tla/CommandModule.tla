--------------------------- MODULE CommandModule ---------------------------
(***************************************************************************)
(* modules/command, modules/shell and GosibleModule.RunCommand: a child    *)
(* process and the two pipes between it and the module.  Run writes all of *)
(* the standard input before it reads anything of the standard output, and *)
(* it reads until every holder of the output's write end has closed it:    *)
(* whether it returns depends on what the child does with its two pipes.   *)
(* A unit of input or output is a buffer the size of one read; a pipe      *)
(* holds Pipe of them.                                                     *)
(***************************************************************************)
EXTENDS ManagedHost

CONSTANTS
  Pipe,      \* what the kernel buffers in one pipe
  MaxData    \* bound on the input of a task and the output of a program

ASSUME PipeAssumption == Pipe \in Nat \ {0}
ASSUME MaxDataAssumption == MaxData \in Nat

VARIABLE
  proc    \* the child process and its pipes

(***************************************************************************)
(* The programs a task may run (external): a "filter" writes what it       *)
(* reads, a "reader" writes after it has read all of its input, a "source" *)
(* ignores its input, a "daemon" is a source that leaves a background      *)
(* process with its pipes behind.                                          *)
(***************************************************************************)
Programs == {"filter", "reader", "source", "daemon"}

\* Params.  A "blank" cmd has nothing but blanks in it and an "empty" argv no
\* element.  data is the length of Stdin, output what the program writes, of which
\* the first blanks units are empty lines (which matter if they are to be stripped);
\* a bare program has no slash in its name.
CommandTasks ==
  {t \in [module: {"command", "shell"},
          args: {"cmd", "argv", "both", "none", "blank", "empty"},
          warn: BOOLEAN, guard: {"none", "creates", "removes"}, data: 0 .. MaxData,
          program: Programs, output: 0 .. MaxData, blanks: 0 .. MaxData,
          strip: BOOLEAN, bare: BOOLEAN] :
     /\ t.program = "filter" => t.output = t.data
     /\ t.blanks <= (IF t.strip THEN t.output ELSE 0)
     /\ t.args # "cmd" => t.data = 0 /\ t.output = 0 /\ t.program = "reader"}

\* The group does not matter to a command.
CommandHosts ==
  {h \in Hosts : h.gid = None /\ h.other = None /\ h.tools = {}}

IsCommand == task.module \in {"command", "shell"}

NoProc == [st |-> "none", sent |-> 0, in |-> 0, closed |-> TRUE, read |-> 0,
           made |-> 0, out |-> 0, got |-> 0, held |-> FALSE, rc |-> 0,
           broken |-> FALSE, stdout |-> 0]

ProcState == [st: {"none", "running", "exited"}, sent: 0 .. MaxData, in: 0 .. Pipe,
              closed: BOOLEAN, read: 0 .. MaxData, made: 0 .. MaxData,
              out: 0 .. Pipe, got: 0 .. MaxData, held: BOOLEAN, rc: 0 .. 1,
              broken: BOOLEAN, stdout: 0 .. MaxData]

CommandInit ==
  /\ \E t \in CommandTasks : ExecuteModule(t, CommandHosts)
  /\ proc = NoProc

-----------------------------------------------------------------------------
(* The module.                                                             *)

(***************************************************************************)
(* checkPrerequisites.  With warn the name of the program is looked at     *)
(* first.  There is none when neither cmd nor argv is given, or nothing is *)
(* in them: the index is out of range and the remote program dies.         *)
(***************************************************************************)
NoProgramName(t) == t.warn /\ t.args \in {"none", "blank", "empty"}

\* Mutant: creates is not looked at.
RemovesHolds(t, h) == t.guard = "removes" => h.path

GuardHolds(t, h) ==
  /\ t.guard = "removes" => h.path
  /\ t.guard = "creates" => ~h.path

CheckPrerequisites ==
  /\ IsCommand /\ pc = "parse"
  /\ IF NoProgramName(task) THEN Goto("crashed")
     ELSE IF GuardHolds(task, host) /\ task.args \notin {"both", "none"} THEN Goto("start")
     ELSE Fail
  /\ UNCHANGED proc

\* A stat fails otherwise than with "does not exist".
StatFails ==
  /\ IsCommand /\ pc = "parse" /\ task.guard # "none" /\ ~NoProgramName(task)
  /\ Fail
  /\ UNCHANGED proc

\* getArgs, getCmdHelper: only the shell searches the PATH for the program.
ProgramFound(t) == t.module = "shell" \/ ~t.bare

\* getCmdHelper takes the first argument for the program, without asking whether
\* there is one.  A shell has three.
NoArguments(t) == t.module = "command" /\ t.args \in {"blank", "empty"}

\* RunCommand up to Start.  Without Stdin the child reads /dev/null.
StartCommand ==
  /\ IsCommand /\ pc = "start"
  /\ IF NoArguments(task) THEN Goto("crashed") /\ UNCHANGED proc
     ELSE IF ProgramFound(task)
     THEN /\ proc' = [NoProc EXCEPT !.st = "running", !.closed = task.data = 0,
                                    !.held = TRUE]
          /\ Goto(IF task.data = 0 THEN "read" ELSE "write")
     ELSE Fail /\ UNCHANGED proc

\* stdinPipe.Write: a unit fits in the pipe and somebody can still read it.
WriteStdin ==
  /\ IsCommand /\ pc = "write" /\ proc.sent < task.data
  /\ proc.held /\ proc.in < Pipe
  /\ proc' = [proc EXCEPT !.sent = @ + 1, !.in = @ + 1]
  /\ UNCHANGED taskVars

\* Nobody can read the pipe any more: EPIPE, and the child is not waited for.
WriteFails ==
  /\ IsCommand /\ pc = "write" /\ proc.sent < task.data
  /\ ~proc.held
  /\ Fail
  /\ UNCHANGED proc

\* Mutant: the input is not closed.
KeepStdinOpen ==
  /\ IsCommand /\ pc = "write" /\ proc.sent = task.data
  /\ Goto("read")
  /\ UNCHANGED proc

CloseStdin ==
  /\ IsCommand /\ pc = "write" /\ proc.sent = task.data
  /\ proc' = [proc EXCEPT !.closed = TRUE]
  /\ Goto("read")

\* readOutput: the loop goes on while there is output ...
ReadOutput ==
  /\ IsCommand /\ pc = "read" /\ proc.out > 0
  /\ proc' = [proc EXCEPT !.out = @ - 1, !.got = @ + 1]
  /\ UNCHANGED taskVars

\* Mutant: the output ends at the first pause.
OutputPauses == proc.out = 0

\* ... and ends when the pipe is empty and has no writer.
OutputEnds == proc.out = 0 /\ ~proc.held

ReadEnd ==
  /\ IsCommand /\ pc = "read" /\ OutputEnds
  /\ Goto("wait")
  /\ UNCHANGED proc

\* A read fails: nothing was read, and that is taken for the end as well.
ReadBreaks ==
  /\ IsCommand /\ pc = "read" /\ ~OutputEnds
  /\ proc' = [proc EXCEPT !.broken = TRUE]
  /\ Goto("wait")

\* stripEmptyEnds trims on the left, and nowhere else.
StripEmptyEnds(t, n) ==
  IF ~t.strip THEN n ELSE IF n <= t.blanks THEN 0 ELSE n - t.blanks

(***************************************************************************)
(* Wait, which also waits until nobody can write to stderr any more,       *)
(* waitError and the UpdateReturn of runCommand: with CheckRc unset a code *)
(* other than 0 is a result and not an error.                              *)
(***************************************************************************)
WaitCommand ==
  /\ IsCommand /\ pc = "wait" /\ proc.st = "exited" /\ ~proc.held
  /\ proc' = [proc EXCEPT !.stdout = StripEmptyEnds(task, proc.got)]
  /\ ret' = UpdateReturn(ret, [NewReturn EXCEPT !.rc = proc.rc])
  /\ pc' = "done"
  /\ UNCHANGED <<task, host, before, interfered>>

-----------------------------------------------------------------------------
(* The child process (external).                                           *)

Running == IsCommand /\ proc.st = "running"

InputEnds == proc.in = 0 /\ proc.closed

\* What the child can have written by now.
Ready ==
  CASE task.program = "filter" -> proc.read
    [] task.program = "reader" -> IF InputEnds THEN task.output ELSE 0
    [] OTHER -> task.output

ChildRead ==
  /\ Running /\ proc.in > 0
  /\ task.program \in {"filter", "reader"}
  /\ task.program = "filter" => proc.made = proc.read
  /\ proc' = [proc EXCEPT !.in = @ - 1, !.read = @ + 1]
  /\ UNCHANGED taskVars

ChildWrite ==
  /\ Running /\ proc.made < Ready /\ proc.out < Pipe
  /\ proc' = [proc EXCEPT !.made = @ + 1, !.out = @ + 1]
  /\ UNCHANGED taskVars

\* The child has done its work, which is what the guard of the task tests.
ChildExit ==
  /\ Running /\ proc.made = task.output
  /\ task.program \in {"filter", "reader"} => InputEnds
  /\ proc' = [proc EXCEPT !.st = "exited", !.held = task.program = "daemon"]
  /\ host' = [host EXCEPT !.path = CASE task.guard = "creates" -> TRUE
                                     [] task.guard = "removes" -> FALSE
                                     [] OTHER -> ~@]
  /\ UNCHANGED <<task, before, pc, ret, interfered>>

\* The child gives up at any point.
ChildFails ==
  /\ Running
  /\ proc' = [proc EXCEPT !.st = "exited", !.held = FALSE, !.rc = 1]
  /\ UNCHANGED taskVars

CommandInterfere == IsCommand /\ Interfere(CommandHosts) /\ UNCHANGED proc

CommandStep ==
  \/ CheckPrerequisites \/ StartCommand \/ WriteStdin \/ WriteFails \/ CloseStdin
  \/ ReadOutput \/ ReadEnd \/ WaitCommand

ChildStep == ChildRead \/ ChildWrite \/ ChildExit

CommandNext ==
  \/ CommandStep \/ StatFails \/ ReadBreaks \/ CommandInterfere
  \/ ChildStep \/ ChildFails

=============================================================================
