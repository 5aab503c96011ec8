--------------------------- MODULE RemoteModules ---------------------------
(***************************************************************************)
(* The built-in modules together: the remote program is asked to execute   *)
(* one task of any of them, on a host that the administrator may change    *)
(* meanwhile.                                                              *)
(***************************************************************************)
EXTENDS GroupModule, CommandModule

VARIABLE
  met   \* the request of a group task held at a step of Run (history)

vars == <<taskVars, op, proc, met>>

-----------------------------------------------------------------------------
(* What the host looks like when there is nothing left to do.              *)
GroupMet(t, h) ==
  /\ t.state = "absent" => ~GroupExists(t, h)
  /\ t.state = "present" => GroupExists(t, h) /\ (t.gid # None => h.gid = t.gid)

PathMet(t, h) ==
  \/ t.guard = "creates" /\ h.path
  \/ t.guard = "removes" /\ ~h.path

Satisfied(t, h) == IF t.module = "group" THEN GroupMet(t, h) ELSE PathMet(t, h)

\* The steps of Run from its first look at the host on.
Remember ==
  met' = (met \/ (/\ pc # "parse" /\ pc' # pc
                  /\ GroupMet(task, host) \/ GroupMet(task, host')))

-----------------------------------------------------------------------------
Init ==
  /\ \/ GroupInit /\ proc = NoProc
     \/ CommandInit /\ op = NoOp
  /\ met = FALSE

Next ==
  \/ GroupNext /\ UNCHANGED proc /\ Remember
  \/ CommandNext /\ UNCHANGED <<op, met>>

(***************************************************************************)
(* The remote program runs on, and a child process that can read, write or *)
(* finish does so.  Nothing obliges a lookup, a child or the administrator *)
(* to get in the way.                                                      *)
(***************************************************************************)
Fairness ==
  /\ WF_vars(GroupStep /\ UNCHANGED proc /\ Remember)
  /\ WF_vars(CommandStep /\ UNCHANGED <<op, met>>)
  /\ WF_vars(ChildStep /\ UNCHANGED <<op, met>>)

Spec == Init /\ [][Next]_vars /\ Fairness

-----------------------------------------------------------------------------
\* A finished task that reports neither a failure nor an exit code.
Succeeded == Done /\ ~ret.failed /\ ret.rc = 0

\* The program and its pipes let RunCommand through: neither side waits for
\* the other for ever, and nobody keeps the output open.
Fits(t) ==
  CASE t.program = "filter" -> t.data <= 2 * Pipe + 1
    [] t.program = "reader" -> TRUE
    [] t.program = "source" -> t.data <= Pipe \/ t.output <= Pipe
    [] OTHER -> FALSE

-----------------------------------------------------------------------------
(* Everything keeps its type while the module and the child move units     *)
(* through the pipes: in particular a pipe never holds more than it can,   *)
(* and the module never collects more than the program wrote.              *)
TypeOK ==
  /\ task \in GroupTasks \cup CommandTasks
  /\ host \in Hosts /\ before \in Hosts
  /\ pc \in {"parse", "exists", "prepare", "run", "info", "start", "write", "read",
             "wait", "crashed", "done"}
  /\ ret \in Return
  /\ interfered \in BOOLEAN
  /\ op \in OpState
  /\ proc \in ProcState

(***************************************************************************)
(* A task that succeeds on a host nobody else touches has brought it to    *)
(* the state asked for: the group is there with its gid, or is gone, in    *)
(* the database the task means; the path a guarded command creates or      *)
(* removes is there or gone.  Run of group looks at the host, picks a tool *)
(* and runs it in three steps that must agree.  When an administrator      *)
(* changes the group between these, the look is stale, but success still   *)
(* means that the request held at one of the steps: whatever was seen, a   *)
(* tool that exits with 0 has brought it about, and one that is not run,   *)
(* or is run without -g, was not needed when Run looked.                   *)
(***************************************************************************)
ReachesRequest ==
  Succeeded =>
    /\ ~interfered /\ (IsCommand => task.guard # "none") => Satisfied(task, host)
    /\ IsGroup => met

(***************************************************************************)
(* Where the request already holds nothing is done: the host stays as it   *)
(* is, no tool is about to run and no program was started.  Together with  *)
(* ReachesRequest this makes a task that is repeated idempotent.  The      *)
(* group module relies on groupmod having no argument left, command on its *)
(* two stat calls coming before Start.                                     *)
(***************************************************************************)
IdleWhenSatisfied ==
  Satisfied(task, before) /\ ~interfered =>
    host = before /\ pc # "run" /\ proc.st = "none"

(***************************************************************************)
(* What a finished group task says of the host is true when nobody else    *)
(* touched it: a reported change happened, and a failure that reports no   *)
(* change left the host as it was, although Run goes on to look the group  *)
(* up, and may fail, after the tool has run.  A success says less than the *)
(* truth: the second UpdateReturn takes the change back whenever the group *)
(* is found, so that only a removal is ever reported as one.               *)
(***************************************************************************)
HonestReport ==
  Done /\ IsGroup /\ ~interfered =>
    /\ ret.changed => host # before
    /\ ~ret.failed => (ret.changed <=> host # before /\ task.state = "absent")
    /\ ret.failed /\ ~ret.changed => host = before

(***************************************************************************)
(* A command that is reported with exit code 0 has ended, and its output   *)
(* is in the result from the first line that is not empty to the very end: *)
(* readOutput stops at the end of the output and not at a pause of the     *)
(* program, and stripEmptyEnds, on unless the task says otherwise, takes   *)
(* all leading empty lines and nothing else, though the comment on the     *)
(* parameter speaks of the end of the output.  Only an error of the pipe,  *)
(* which readOutput takes for the end, loses more, unnoticed.  The program *)
(* was also one that Fits: all of the input is written before any output   *)
(* is read, so a program that fills its output first and the module wait   *)
(* for each other for ever.                                                *)
(***************************************************************************)
OutputWhole ==
  Succeeded /\ IsCommand =>
    /\ proc.st = "exited" /\ Fits(task)
    /\ \/ proc.stdout = task.output - (IF task.strip THEN task.blanks ELSE 0)
       \/ proc.broken /\ proc.stdout <= task.output

(***************************************************************************)
(* Run returns: every group task does, and every command whose program     *)
(* Fits, however the steps of the module and of the child alternate, since *)
(* the input is closed before the output is awaited.  The exceptions are   *)
(* an error of the pipe, after which the child may wait for a reader for   *)
(* ever, and the parameters without a program, at which RunCommand or the  *)
(* check before it panics.                                                 *)
(***************************************************************************)
ReturnsWhenFits ==
  IsGroup \/ (IsCommand /\ Fits(task) /\ ~NoProgramName(task) /\ ~NoArguments(task))
    ~> Done \/ proc.broken

=============================================================================
