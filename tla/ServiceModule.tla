--------------------------- MODULE ServiceModule ---------------------------
(***************************************************************************)
(* modules/service: bring a service of the host to a running state and     *)
(* choose whether it starts at boot.  Run finds out which of five service  *)
(* managers looks after the service, makes the boot setting, asks for the  *)
(* status and runs at most one control command (two for a restart).  The   *)
(* service managers are modelled from how the module uses them.            *)
(***************************************************************************)
EXTENDS RemoteTask

CONSTANT
  Installations    \* the sets of service tools that may be installed on a host

ServiceTools == {"systemctl", "initctl", "rc-service", "update-rc.d", "insserv",
                 "chkconfig", "service"}

ASSUME InstallationsAssumption == Installations \subseteq SUBSET ServiceTools

VARIABLE
  svc    \* the linuxService object

IsService == task.module = "service"

\* Params.  A loose pattern matches other processes than the service's own,
\* "bogus" stands for a state Validate does not know.
ServiceTasks ==
  {t \in [module: {"service"}, named: BOOLEAN,
          state: {"none", "started", "stopped", "reloaded", "restarted", "bogus"},
          enabled: {"unset", "yes", "no"}, pattern: {"none", "own", "loose"}] :
     /\ ~t.named \/ t.state = "bogus" => t.enabled = "unset"
     /\ ~t.named \/ t.state \in {"none", "bogus"} => t.pattern = "none"}

\* Params.Validate
ValidService(t) ==
  /\ t.named
  /\ t.state = "none" => t.enabled # "unset"
  /\ t.state # "bogus"

(***************************************************************************)
(* The host: whether systemd is its init, whether upstart has a job file   *)
(* of the service, the script in /etc/init.d, whether the status command   *)
(* tells the truth (or always exits with 0, or with a usage error), how    *)
(* the tool that enables knows the service ("odd": systemd does not know   *)
(* it but the working directory holds a program of that name, the job file *)
(* has a manual stanza), the boot setting and the service itself.  Only    *)
(* OpenRC tells a service that crashed from one that is down, and answers  *)
(* the status command itself.  A script may start a daemon that keeps the  *)
(* output of the command it is started by ("kept"; "held" while the daemon *)
(* runs that this task started); systemd and upstart start it themselves.  *)
(***************************************************************************)
ServiceHosts ==
  {h \in [tools: Installations, systemd: BOOLEAN, job: BOOLEAN,
          script: {"regular", "special", "none"}, status: {"honest", "zero", "usage"},
          unit: {"known", "unknown", "odd"}, enabled: BOOLEAN,
          up: {"up", "down", "crashed"}, output: {"free", "kept", "held"}] :
     /\ h.systemd => "systemctl" \in h.tools
     /\ h.job => "initctl" \in h.tools
     /\ h.status # "honest" =>
          h.script = "regular" /\ ~h.systemd /\ "rc-service" \notin h.tools
     /\ h.script = "none" => h.unit = "unknown" /\ h.up = "down"
     /\ h.up = "crashed" => "rc-service" \in h.tools
     /\ h.unit = "odd" => h.systemd \/ h.job
     /\ h.unit # "known" => ~h.enabled
     /\ h.output # "free" => ~h.systemd /\ ~h.job /\ h.script # "none"
     /\ h.output = "held" => h.up = "up"}

Fresh == [enableCmd |-> "", svcCmd |-> "", script |-> FALSE, initctl |-> FALSE,
          running |-> "nil", crashed |-> FALSE, action |-> "", stopRc |-> 0,
          unseen |-> FALSE]

ServiceInit ==
  /\ \E t \in ServiceTasks :
       ExecuteModule(t, {h \in ServiceHosts : h.output # "held"})
  /\ svc = Fresh

-----------------------------------------------------------------------------
(* Which manager is responsible.                                           *)

\* checkSystemd: the tool is there and so is one of the traces of the daemon.
CheckSystemd(h) == "systemctl" \in h.tools /\ h.systemd

\* The first of a sequence of tools that is installed, "" if none is.
Choose(wanted, h) ==
  LET found == {i \in DOMAIN wanted : wanted[i] \in h.tools} IN
  IF found = {} THEN "" ELSE wanted[CHOOSE i \in found : \A j \in found : i <= j]

\* getEnableAndSvcCmd, the command that enables ...
EnableCmd(h) ==
  IF CheckSystemd(h) THEN "systemctl"
  ELSE IF "initctl" \in h.tools /\ h.job THEN "initctl"
  ELSE IF "rc-service" \in h.tools THEN "rc-service"
  ELSE IF h.script = "regular" THEN Choose(<<"update-rc.d", "insserv", "chkconfig">>, h)
  ELSE ""

\* ... and the one that controls; with no command to enable getServiceTools
\* returns before it looks for the service command.
SvcCmd(h) ==
  IF EnableCmd(h) \in {"systemctl", "rc-service"} THEN EnableCmd(h)
  ELSE IF EnableCmd(h) # "" THEN Choose(<<"service">>, h)
  ELSE ""

ServiceParse ==
  /\ IsService /\ pc = "parse"
  /\ IF ValidService(task) THEN Goto("tools") ELSE Fail
  /\ UNCHANGED svc

(***************************************************************************)
(* getServiceTools.  The script in /etc/init.d has to exist even where     *)
(* another manager is responsible: IsRegular of a missing file is an       *)
(* error.                                                                  *)
(***************************************************************************)
GetServiceTools ==
  /\ IsService /\ pc = "tools"
  /\ \/ /\ \/ host.script = "none"
           \/ /\ EnableCmd(host) # ""
              /\ SvcCmd(host) = "" /\ host.script # "regular"
        /\ Fail
        /\ UNCHANGED svc
     \/ /\ host.script # "none"
        /\ EnableCmd(host) # "" => SvcCmd(host) # "" \/ host.script = "regular"
        /\ svc' = [svc EXCEPT !.enableCmd = EnableCmd(host), !.svcCmd = SvcCmd(host),
                              !.script = host.script = "regular",
                              !.initctl = EnableCmd(host) # "" /\ "initctl" \in host.tools]
        /\ Goto(IF task.enabled = "unset" THEN "state" ELSE "enable")

-----------------------------------------------------------------------------
(* serviceEnable.                                                          *)

Enable == task.enabled = "yes"

AfterEnable == IF task.state = "none" THEN "done" ELSE "state"

\* Nothing is left to do for the boot setting.
Settled == Goto(AfterEnable) /\ UNCHANGED svc

\* The boot setting becomes e, and Run goes on at l.
SetEnabled(e, l) ==
  /\ host' = [host EXCEPT !.enabled = e, !.unit = "known"]
  /\ pc' = l
  /\ UNCHANGED <<task, before, ret, interfered, svc>>

\* No manager is known; rc-service is no suffix serviceEnable knows, and the
\* boot setting is silently left as it is.
EnableUnknown ==
  /\ IsService /\ pc = "enable" /\ svc.enableCmd \in {"", "rc-service"}
  /\ IF svc.enableCmd = "" THEN Fail /\ UNCHANGED svc ELSE Settled

(***************************************************************************)
(* getSystemdServiceEnabled: a unit systemd does not know is looked up in  *)
(* the working directory, which is an error unless a program of that name  *)
(* is there; sysvIsEnabled then says enabled when it finds no start link.  *)
(***************************************************************************)
SystemdEnabled(h) == IF h.unit = "odd" THEN ~h.enabled ELSE h.enabled

\* systemdServiceEnable
SystemdServiceEnable ==
  /\ IsService /\ pc = "enable" /\ svc.enableCmd = "systemctl"
  /\ IF host.unit = "unknown" THEN Fail /\ UNCHANGED svc
     ELSE IF Enable = SystemdEnabled(host) THEN Settled
     ELSE Goto("enableCommand") /\ UNCHANGED svc

(***************************************************************************)
(* initctlServiceEnable: the manual stanza of the override file is taken   *)
(* out or put in.  A write that fails may have truncated the file, which   *)
(* enables the job.                                                        *)
(***************************************************************************)
InitctlServiceEnable ==
  /\ IsService /\ pc = "enable" /\ svc.enableCmd = "initctl"
  /\ \/ host.unit = "odd" /\ Fail /\ UNCHANGED svc
     \/ host.unit # "odd" /\ host.enabled = Enable /\ Settled
     \/ host.unit # "odd" /\ host.enabled # Enable /\ SetEnabled(Enable, AfterEnable)

OverrideWriteFails ==
  /\ IsService /\ pc = "enable" /\ svc.enableCmd = "initctl"
  /\ host.unit # "odd" /\ host.enabled # Enable
  /\ host' \in {host, [host EXCEPT !.enabled = TRUE, !.unit = "known"]}
  /\ ret' = MarkReturnFailed(ret)
  /\ pc' = "done"
  /\ UNCHANGED <<task, before, interfered, svc>>

(***************************************************************************)
(* updateRcDStyleServiceEnable: the start links tell whether the service   *)
(* is enabled; without any link "defaults" makes them before "enable".     *)
(***************************************************************************)
UpdateRcDServiceEnable ==
  /\ IsService /\ pc = "enable" /\ svc.enableCmd = "update-rc.d"
  /\ IF Enable = host.enabled THEN Settled
     ELSE /\ Goto(IF Enable /\ host.unit # "known" THEN "defaults" ELSE "enableCommand")
          /\ UNCHANGED svc

Defaults ==
  /\ IsService /\ pc = "defaults"
  /\ SetEnabled(TRUE, "enableCommand")

(***************************************************************************)
(* insservServiceEnable: a dry run says whether there is anything to do.   *)
(* Its exit code is not looked at: a dry run that fails counts as nothing  *)
(* to do (unseen).                                                         *)
(***************************************************************************)
InsservServiceEnable ==
  /\ IsService /\ pc = "enable" /\ svc.enableCmd = "insserv"
  /\ \/ Enable = host.enabled /\ Settled
     \/ Enable # host.enabled /\ Goto("enableCommand") /\ UNCHANGED svc

DryRunFails ==
  /\ IsService /\ pc = "enable" /\ svc.enableCmd = "insserv"
  /\ Goto(AfterEnable)
  /\ svc' = [svc EXCEPT !.unseen = TRUE]

(***************************************************************************)
(* sysvServiceEnable refuses every service chkconfig lists (the test is    *)
(* the wrong way round), and chkconfig refuses the argument "enable": the  *)
(* task fails, maybe after chkconfig --add.                                *)
(***************************************************************************)
SysvServiceEnable ==
  /\ IsService /\ pc = "enable" /\ svc.enableCmd = "chkconfig"
  /\ host' \in {host, [host EXCEPT !.unit = "known"]}
  /\ ret' = MarkReturnFailed(ret)
  /\ pc' = "done"
  /\ UNCHANGED <<task, before, interfered, svc>>

\* The command that makes the boot setting exits with 0 ...
EnableCommand ==
  /\ IsService /\ pc = "enableCommand"
  /\ SetEnabled(Enable, AfterEnable)

\* Mutant: Run goes on after the failure.
EnableFailureGoesOn ==
  /\ IsService /\ pc \in {"defaults", "enableCommand"}
  /\ ret' = MarkReturnFailed(ret)
  /\ pc' = AfterEnable
  /\ UNCHANGED <<task, host, before, interfered, svc>>

\* ... or does not start, or exits with another code.
EnableCommandFails ==
  /\ IsService /\ pc \in {"defaults", "enableCommand"}
  /\ Fail
  /\ UNCHANGED svc

-----------------------------------------------------------------------------
(* The state of the service.                                               *)

Answered(r) == svc' = [svc EXCEPT !.running = r] /\ Goto("decide")

YesNo(b) == IF b THEN "yes" ELSE "no"

(***************************************************************************)
(* checkPs.  When ps fails nothing is known, and when it cannot be started *)
(* the missing result is used all the same and the remote program dies.    *)
(***************************************************************************)
CheckPs ==
  /\ IsService /\ pc = "state" /\ task.pattern # "none"
  /\ Answered(YesNo(task.pattern = "loose" \/ host.up = "up"))

PsFails ==
  /\ IsService /\ pc = "state" /\ task.pattern # "none"
  /\ \/ Goto("decide") /\ svc' = [svc EXCEPT !.unseen = TRUE]
     \/ Goto("crashed") /\ UNCHANGED svc
     \/ Fail /\ UNCHANGED svc

\* There is a command to control the service, or its script.
HasControl == svc.svcCmd # "" \/ svc.script

\* What the status command of the host says.
SaysUp(h) == CASE h.status = "zero" -> TRUE [] h.status = "usage" -> FALSE
               [] OTHER -> h.up = "up"

\* initctl status says stop/waiting.
JobWaits == svc.initctl /\ host.job /\ host.up # "up"

(***************************************************************************)
(* getServiceStatus.  With systemctl the branch for a successful "show" is *)
(* the one meant for an error, and no status is ever known.  An upstart    *)
(* job that waits is down whatever the script says; OpenRC is asked again  *)
(* and tells a crash; otherwise the exit code and the words decide, and    *)
(* exit code 0 alone means running.                                        *)
(***************************************************************************)
GetServiceStatus ==
  /\ IsService /\ pc = "state" /\ task.pattern = "none"
  /\ IF svc.svcCmd = "systemctl" \/ ~HasControl THEN Fail /\ UNCHANGED svc
     ELSE /\ Goto("decide")
          /\ svc' = [svc EXCEPT
                       !.running = YesNo(IF svc.svcCmd = "rc-service" THEN host.up = "up"
                                         ELSE ~JobWaits /\ SaysUp(host)),
                       !.crashed = svc.svcCmd = "rc-service" /\ host.up = "crashed"]

\* The status command exits with a code and words that mean nothing.
StatusUnclear ==
  /\ IsService /\ pc = "state" /\ task.pattern = "none"
  /\ svc.svcCmd \notin {"systemctl", "rc-service"} /\ HasControl /\ ~JobWaits
  /\ Goto("decide")
  /\ svc' = [svc EXCEPT !.unseen = TRUE]

StatusFails ==
  /\ IsService /\ pc = "state" /\ task.pattern = "none"
  /\ IF svc.svcCmd = "systemctl" THEN Goto("crashed") ELSE Fail
  /\ UNCHANGED svc

\* checkServiceChanged
ServiceChanged(state, running) ==
  \/ running # "yes" /\ state \in {"reloaded", "started"}
  \/ running = "yes" /\ state \in {"reloaded", "stopped"}
  \/ state = "restarted"

\* modifyServiceState
ActionFor(state, running) ==
  CASE state = "started" \/ (state = "reloaded" /\ running # "yes") -> "start"
    [] state = "stopped" -> "stop"
    [] state = "reloaded" /\ running = "yes" -> "reload"
    [] OTHER -> "restart"

\* serviceControl and handleRestart: only OpenRC has a restart of its own.
Decide ==
  /\ IsService /\ pc = "decide"
  /\ IF ServiceChanged(task.state, svc.running)
     THEN LET a == ActionFor(task.state, svc.running) IN
          /\ svc' = [svc EXCEPT !.action = a]
          /\ Goto(IF a = "restart" /\ svc.svcCmd # "rc-service" THEN "stop" ELSE "control")
     ELSE Goto("done") /\ UNCHANGED svc

(***************************************************************************)
(* The host after a control command that exits with 0 (external).  OpenRC  *)
(* does not start a crashed service before a zap, and the zap serviceControl *)
(* sends names no service.                                                 *)
(***************************************************************************)
Controlled(h, action) ==
  LET started == [h EXCEPT !.up = "up", !.output = IF @ = "free" THEN @ ELSE "held"] IN
  CASE action = "start" -> IF h.up = "up" THEN {h}
                           ELSE IF svc.svcCmd = "rc-service" /\ h.up = "crashed" THEN {}
                           ELSE {started}
    [] action = "restart" -> {started}
    [] action = "stop" -> {[h EXCEPT !.up = "down"]}
    [] OTHER -> IF h.up = "up" THEN {h} ELSE {}

\* A control command runs, and Run goes on at next if it exits with 0.  It is
\* not executed as a daemon: its output is read to the end, which does not come
\* while a daemon it has started keeps it.
Control(action, next) ==
  /\ HasControl
  /\ \/ /\ host' \in Controlled(host, action)
        /\ pc' = IF host'.output = "held" THEN "output" ELSE next
        /\ UNCHANGED <<task, before, ret, interfered>>
     \/ Controlled(host, action) = {} /\ Fail
  /\ UNCHANGED svc

\* The daemon that kept the output of the last command has been stopped.
OutputClosed ==
  /\ IsService /\ pc = "output" /\ host.output # "held"
  /\ Goto("done")
  /\ UNCHANGED svc

\* handleNonRestart, and checkRc of the result
ControlCommand == IsService /\ pc = "control" /\ Control(svc.action, "done")

\* Another exit code fails the task, unless upstart says the job is running.
ControlCommandFails ==
  /\ IsService /\ pc = "control" /\ HasControl
  /\ \/ Fail
     \/ host.job /\ svc.action = "start" /\ host.up = "up" /\ Goto("done")
     \/ /\ svc.action = "restart"
        /\ host' = [host EXCEPT !.up = "down"]
        /\ ret' = MarkReturnFailed(ret)
        /\ pc' = "done"
        /\ UNCHANGED <<task, before, interfered>>
  /\ UNCHANGED svc

\* handleRestart, the first half ...
StopCommand == IsService /\ pc = "stop" /\ Control("stop", "start")

StopCommandFails ==
  /\ IsService /\ pc = "stop" /\ HasControl
  /\ svc' = [svc EXCEPT !.stopRc = 1]
  /\ Goto("start")

\* Mutant: a restart is done when the service could be stopped.
StopIsEnough ==
  /\ IsService /\ pc = "start" /\ HasControl
  /\ IF svc.stopRc = 0 THEN Goto("done") ELSE Fail
  /\ UNCHANGED svc

\* ... and the second, whose success makes up for a failed stop.
StartCommand == IsService /\ pc = "start" /\ Control("start", "done")

StartCommandFails ==
  /\ IsService /\ pc = "start" /\ HasControl
  /\ \/ Fail
     \/ host.job /\ host.up = "up" /\ Goto("done")
  /\ UNCHANGED svc

\* With neither a command nor a script Run tries a program named like the
\* action, in the working directory ...
NoControl ==
  /\ IsService /\ pc \in {"stop", "start", "control"} /\ ~HasControl
  /\ Goto("crashed")
  /\ UNCHANGED svc

\* ... and whatever cannot be started leaves no result to look at: the remote
\* program dies, in the middle of a restart too.
ControlNotStarted ==
  /\ IsService /\ pc \in {"stop", "start", "control"} /\ HasControl
  /\ Goto("crashed")
  /\ UNCHANGED svc

\* A stat, a tool's version or the locale cannot be found out.
ServiceLookupFails ==
  /\ IsService /\ pc \in {"tools", "enable"}
  /\ Fail
  /\ UNCHANGED svc

\* The administrator starts, stops, restarts, enables or disables the service.
ServiceInterfere ==
  /\ IsService
  /\ LET put(s) == [host EXCEPT !.up = s.up, !.enabled = s.enabled, !.output = s.output]
     IN  Interfere({put(s) : s \in {s \in [up: {"up", "down", "crashed"}, enabled: BOOLEAN,
                                            output: {host.output, "kept"}] :
                                     /\ s.output # host.output => host.output = "held"
                                     /\ put(s) \in ServiceHosts}})
  /\ UNCHANGED svc

ServiceStep ==
  \/ ServiceParse \/ GetServiceTools
  \/ EnableUnknown \/ SystemdServiceEnable \/ InitctlServiceEnable
  \/ UpdateRcDServiceEnable \/ Defaults \/ InsservServiceEnable
  \/ SysvServiceEnable \/ EnableCommand
  \/ CheckPs \/ GetServiceStatus \/ Decide
  \/ ControlCommand \/ StopCommand \/ StartCommand \/ OutputClosed \/ NoControl

ServiceFault ==
  \/ OverrideWriteFails \/ DryRunFails \/ EnableCommandFails \/ PsFails
  \/ StatusUnclear \/ StatusFails \/ ControlCommandFails
  \/ StopCommandFails \/ StartCommandFails \/ ControlNotStarted
  \/ ServiceLookupFails

ServiceNext == ServiceStep \/ ServiceFault \/ ServiceInterfere

=============================================================================
