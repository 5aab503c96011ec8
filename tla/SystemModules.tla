--------------------------- MODULE SystemModules ---------------------------
(***************************************************************************)
(* The modules service and get_url: the remote program is asked to execute *)
(* one task of either, on a host that the administrator may change         *)
(* meanwhile and whose tools and server may fail at every step.            *)
(***************************************************************************)
EXTENDS ServiceModule, GetUrlModule

VARIABLE
  met    \* the parts of the request that held at some moment (history)

vars == <<taskVars, svc, lastMod, met>>

\* The parts of a request a host meets.
Meets(t, h) ==
  IF t.module = "get_url" THEN IF h.dest = "new" THEN {"content"} ELSE {}
  ELSE (IF (t.state = "stopped") = (h.up # "up") THEN {"state"} ELSE {})
         \cup (IF h.enabled = (t.enabled = "yes") THEN {"enabled"} ELSE {})

Init ==
  /\ \/ ServiceInit /\ lastMod = FALSE
     \/ GetUrlInit /\ svc = Fresh
  /\ met = Meets(task, host)

\* A restart begins with a stop, and what held before that does not count.
Remember ==
  met' = (IF pc = "stop" THEN met \ {"state"} ELSE met) \cup Meets(task', host')

Next ==
  /\ \/ ServiceNext /\ UNCHANGED lastMod
     \/ GetUrlNext /\ UNCHANGED svc
  /\ Remember

(***************************************************************************)
(* The remote program runs on, and the tools it calls exit.  Nothing       *)
(* obliges anything to fail, a server to answer, or a daemon to let go of  *)
(* the output of the tool that started it.                                 *)
(***************************************************************************)
Fairness ==
  /\ WF_vars(ServiceStep /\ UNCHANGED lastMod /\ Remember)
  /\ WF_vars(GetUrlStep /\ UNCHANGED svc /\ Remember)

Spec == Init /\ [][Next]_vars /\ Fairness

-----------------------------------------------------------------------------
Succeeded == Done /\ ~ret.failed

\* The module can find out whether the service runs.
Tellable == before.status = "honest" /\ task.pattern # "loose" /\ ~svc.unseen

\* The boot setting is one the module can see and make.
CanEnable ==
  svc.enableCmd # "rc-service" /\ before.unit # "odd" /\ ~svc.unseen

\* The service was as the task wants it, in a way the module can see.
AsWanted ==
  /\ IsService /\ Tellable /\ CanEnable
  /\ task.state \in {"none", "started", "stopped"}
  /\ task.state # "none" => (task.state = "stopped") = (before.up # "up")
  /\ task.enabled # "unset" => before.enabled = Enable

\* Nothing makes AtomicMove write to the destination in place.
SafeMove == ~(task.unsafe \/ host.place = "stuck")

\* How AtomicMove can reach the destination.
Way == IF host.place = "same" THEN "rename"
       ELSE IF host.place \in Refused /\ ~SafeMove THEN "write" ELSE "none"

-----------------------------------------------------------------------------
(***************************************************************************)
(* A service task that succeeds has not just found stale facts: whatever   *)
(* the administrator does meanwhile, there was a moment during the task at *)
(* which the service was in the state asked for, after the stop when that  *)
(* is how it is restarted, and one at which its boot setting was.  Run     *)
(* looks, decides and acts in separate commands, under five service        *)
(* managers with their own ways to be asked.  And a service                *)
(* that is already as the task wants it is left alone: no start, stop or   *)
(* boot setting is run for it, so that repeating a task disturbs nothing.  *)
(* (A restart and a reload are meant to disturb.)                          *)
(***************************************************************************)
ServiceConverges ==
  /\ Succeeded /\ IsService =>
       /\ task.state # "none" /\ Tellable => "state" \in met
       /\ task.enabled # "unset" /\ CanEnable => "enabled" \in met
  /\ AsWanted /\ ~interfered =>
       host.up = before.up /\ host.enabled = before.enabled /\ svc.action = ""

(***************************************************************************)
(* The boot setting comes first: the service is not started, stopped or    *)
(* restarted before its boot setting is what the task says, so that a task *)
(* that fails to enable or disable has not touched the running service.    *)
(***************************************************************************)
BootSettingFirst ==
  IsService /\ ~interfered /\ task.enabled # "unset" /\ CanEnable /\ host.up # before.up
    => host.enabled = Enable

(***************************************************************************)
(* A download tells the truth.  One that succeeds without a checksum has   *)
(* put the complete new file in place at some moment, unless unsafe_writes *)
(* or a source that cannot be moved made AtomicMove copy.  One that fails  *)
(* and reports no change has not touched the destination: Changed is set   *)
(* when the answer arrives and outlives every failure after that, through  *)
(* the seven updates of the return value.                                  *)
(***************************************************************************)
DownloadHonest ==
  Done /\ IsGetUrl =>
    /\ ~ret.failed /\ task.checksum = "none" /\ SafeMove => "content" \in met
    /\ ret.failed /\ ~ret.changed /\ ~interfered => host.dest = before.dest

(***************************************************************************)
(* What AtomicMove does to the destination of a download, at whatever      *)
(* point the remote program dies.  Where the rename works the destination  *)
(* goes from the old content to the complete new one in one step.  Where   *)
(* it is refused, no workaround ever puts the new content in place: the    *)
(* final rename names a source that is gone or refused again, and Copy     *)
(* copies the wrong way round.  The destination keeps its content, or is   *)
(* left empty: when the user insists on unsafe_writes, which is the one    *)
(* exception the code speaks of, and whenever the source cannot be moved,  *)
(* for then it is copied over the destination without asking.              *)
(***************************************************************************)
Replacement == INSTANCE FileReplacement WITH
                 file <- IF IsGetUrl THEN host.dest ELSE "absent",
                 way <- IF IsGetUrl THEN Way ELSE "none"
DestReplaced == Replacement!Spec

(***************************************************************************)
(* What a finished download leaves behind: never the file next to the      *)
(* destination, the temporary file only where it cannot be removed or when *)
(* the download failed before the answer was taken, and the module's       *)
(* temporary directory only after a failure, for Close is called at the    *)
(* very end.                                                               *)
(***************************************************************************)
CleansUp ==
  Done /\ IsGetUrl =>
    /\ host.side = "none"
    /\ host.tmp # "none" => host.place = "stuck" \/ (ret.failed /\ ~ret.changed)
    /\ host.tmpDir => ret.failed

(***************************************************************************)
(* Every task ends, with a result or with the end of the remote program,   *)
(* but for three waits that nothing in the code limits: for a server that  *)
(* is silent, and that only without a timeout; for a daemon that this task *)
(* has started and that keeps the output of the command that started it    *)
(* (executeCommandDaemonized does not); and, on a host with SELinux only,  *)
(* in FindMountPoint, which never goes up from the file.                   *)
(***************************************************************************)
EveryTaskEnds ==
  <>[](\/ Done \/ pc = "crashed"
       \/ pc = "hung" /\ ~task.timeout
       \/ pc = "output" /\ host.output = "held"
       \/ pc = "spin" /\ host.selinux)

=============================================================================
