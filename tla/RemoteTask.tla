----------------------------- MODULE RemoteTask -----------------------------
(***************************************************************************)
(* One task executed by the program that runs on the managed host          *)
(* (remote/main): the server looks the module up, a fresh module object    *)
(* runs, and its modules.Return is what the controller is told.  This      *)
(* module holds what all built-in modules share: the host they work on,    *)
(* the return value they fill in and the administrator who works on the    *)
(* same host.  What a host is differs from module to module: ManagedHost   *)
(* describes it for group and command (put together in RemoteModules), and *)
(* ServiceModule and GetUrlModule for service and get_url (SystemModules). *)
(***************************************************************************)
EXTENDS Integers, FiniteSets

VARIABLES
  task,        \* the parameters of the task
  host,        \* the managed host
  before,      \* the host when the task began (history, for the properties)
  pc,          \* where Run of the module is
  ret,         \* the modules.Return under construction
  interfered   \* the administrator changed the host during the task (history)

taskVars == <<task, host, before, pc, ret, interfered>>

\* modules.Return, the fields a model can tell apart.
Return == [changed: BOOLEAN, failed: BOOLEAN, rc: 0 .. 1]

\* wrappers.NewReturn
NewReturn == [changed |-> FALSE, failed |-> FALSE, rc |-> 0]

(***************************************************************************)
(* wrappers.UpdateReturn decodes the update into a map that holds every    *)
(* field and the map back into the return: the scalars of the update       *)
(* replace the ones already there, also the ones its caller left at zero.  *)
(***************************************************************************)
UpdateReturn(r, update) ==
  [r EXCEPT !.changed = update.changed, !.failed = update.failed, !.rc = update.rc]

\* Mutant: a failure starts the return over.
MarkFreshReturnFailed(r) == [NewReturn EXCEPT !.failed = TRUE]

\* wrappers.MarkReturnFailed: only the failure flag (and the message) change.
MarkReturnFailed(r) == [r EXCEPT !.failed = TRUE]

(***************************************************************************)
(* ExecuteModule: FindModule hands out a module with a return of its own.  *)
(* The host varies in hosts, the part of it the module can tell apart.     *)
(***************************************************************************)
ExecuteModule(t, hosts) ==
  /\ task = t
  /\ host \in hosts
  /\ before = host
  /\ pc = "parse"
  /\ ret = NewReturn
  /\ interfered = FALSE

\* Run returns what is in ret.
Done == pc = "done"

\* return m.MarkReturnFailed(err)
Fail ==
  /\ ret' = MarkReturnFailed(ret)
  /\ pc' = "done"
  /\ UNCHANGED <<task, host, before, interfered>>

\* Run continues at l, nothing on the host has changed.
Goto(l) ==
  /\ pc' = l
  /\ UNCHANGED <<task, host, before, ret, interfered>>

(***************************************************************************)
(* The administrator, or another tool, changes the host while the task     *)
(* runs.  Once per task: the checks of a module are stale after one step.  *)
(***************************************************************************)
Interfere(hosts) ==
  /\ ~interfered /\ ~Done
  /\ \E h \in hosts :
       /\ h # host
       /\ h.tools = host.tools
       /\ host' = h
  /\ interfered' = TRUE
  /\ UNCHANGED <<task, before, pc, ret>>

=============================================================================
