---------------------------- MODULE GroupModule ----------------------------
(***************************************************************************)
(* modules/group: make a group of the host present or absent.  Run asks    *)
(* the host for the group several times, and the tool it runs between two  *)
(* answers may find another state than the one Run saw.  The tools         *)
(* themselves (groupadd, groupmod, groupdel of the shadow suite, lgroupadd *)
(* and so on of libuser) are modelled from how the module uses them.       *)
(***************************************************************************)
EXTENDS ManagedHost

VARIABLE
  op    \* the command being prepared: "none", "add", "mod" or "del", and its -g

NoOp == [tool |-> "none", gid |-> None]

OpState == [tool: {"none", "add", "mod", "del"}, gid: Gids \cup {None}]

groupVars == <<taskVars, op>>

\* Params.  "bogus" stands for a state Validate does not know.
GroupTasks ==
  [module: {"group"}, state: {"present", "absent", "bogus"}, gid: Gids \cup {None},
   local: BOOLEAN, nonUnique: BOOLEAN]

\* The path of command's guards does not matter to a group.
GroupHosts == {h \in Hosts : ~h.path}

IsGroup == task.module = "group"

\* Params.Validate
ValidGroup(t) ==
  /\ t.state \in {"present", "absent"}
  /\ t.nonUnique => t.gid # None

(***************************************************************************)
(* groupExists: /etc/group is scanned for a local task, the name service   *)
(* is asked otherwise.                                                     *)
(***************************************************************************)
GroupExists(t, h) == IF t.local THEN h.inFile ELSE h.gid # None

\* groupInfo: what the name service says of a group that groupExists finds.
GroupInfo(t, h) == IF GroupExists(t, h) THEN h.gid ELSE None

\* The groups that own gid g; LookupGroupId answers with one of them.
Owners(g, h) ==
  (IF h.gid = g THEN {"requested"} ELSE {}) \cup (IF h.other = g THEN {"other"} ELSE {})

(***************************************************************************)
(* localCheckGidExists: an unknown gid is an error of LookupGroupId, and a *)
(* gid of another group is refused.                                        *)
(***************************************************************************)
LocalCheckGid(t, h) == t.gid # None => "requested" \in Owners(t.gid, h)
LocalCheckGidFails(t, h) ==
  t.gid # None /\ (Owners(t.gid, h) = {} \/ "other" \in Owners(t.gid, h))

\* getLocalOrSystemCommandPath and GetBinPath
ToolFound(t, h) == (IF t.local THEN "local" ELSE "system") \in h.tools

\* Mutant: -g only for a group that is new.
GidArgumentOfNew(t, h) == IF GroupInfo(t, h) = None THEN t.gid ELSE None

\* getCmdGroupAddModCmd: -g only when the group does not have the gid yet.
GidArgument(t, h) ==
  IF t.gid # None /\ GroupInfo(t, h) # t.gid THEN t.gid ELSE None

GroupInit ==
  /\ \E t \in GroupTasks : ExecuteModule(t, GroupHosts)
  /\ op = NoOp

GroupParse ==
  /\ IsGroup /\ pc = "parse"
  /\ IF ValidGroup(task) THEN Goto("exists") ELSE Fail
  /\ UNCHANGED op

(***************************************************************************)
(* Run: the branch on the state asked for.  Removing a group that is not   *)
(* there needs no command.                                                 *)
(***************************************************************************)
GroupBranch ==
  /\ IsGroup /\ pc = "exists"
  /\ IF task.state = "absent" /\ ~GroupExists(task, host)
     THEN Goto("info") /\ UNCHANGED op
     ELSE /\ Goto("prepare")
          /\ op' = [op EXCEPT !.tool = IF task.state = "absent" THEN "del"
                                       ELSE IF GroupExists(task, host) THEN "mod"
                                       ELSE "add"]

(***************************************************************************)
(* groupDel, groupAdd and groupMod up to the command: the check of a local *)
(* gid and the search for the tool come before anything is known to be     *)
(* left to do.  A groupmod without arguments is not run.                   *)
(***************************************************************************)
GroupPrepare ==
  /\ IsGroup /\ pc = "prepare"
  /\ \/ /\ task.local /\ LocalCheckGidFails(task, host)
        /\ Fail
        /\ UNCHANGED op
     \/ /\ task.local => LocalCheckGid(task, host)
        /\ ~ToolFound(task, host)
        /\ Fail
        /\ UNCHANGED op
     \/ /\ task.local => LocalCheckGid(task, host)
        /\ ToolFound(task, host)
        /\ LET g == IF op.tool = "del" THEN None ELSE GidArgument(task, host) IN
           /\ op' = [op EXCEPT !.gid = g]
           /\ Goto(IF op.tool = "mod" /\ g = None THEN "info" ELSE "run")

\* A tool takes gid g: a free one, or any with -o.
GidTaken(g, h) == g = h.other /\ ~task.nonUnique

(***************************************************************************)
(* The host after a tool that exits with 0.  groupadd refuses a name that  *)
(* is known to the name service, lgroupadd one that is in the file; the    *)
(* others work on the file only.  Without -g groupadd takes a free gid.    *)
(***************************************************************************)
ToolEffect(h) ==
  CASE op.tool = "del" ->
         IF h.inFile THEN {[h EXCEPT !.gid = None, !.inFile = FALSE]} ELSE {}
    [] op.tool = "mod" ->
         IF h.inFile /\ ~GidTaken(op.gid, h) THEN {[h EXCEPT !.gid = op.gid]} ELSE {}
    [] op.tool = "add" ->
         IF (IF task.local THEN h.inFile ELSE h.gid # None) THEN {}
         ELSE {[h EXCEPT !.gid = g, !.inFile = TRUE] :
                 g \in IF op.gid # None THEN {op.gid} \ {x \in Gids : GidTaken(x, h)}
                       ELSE Gids \ {h.other}}
    [] OTHER -> {}

\* executeCommand: exit code 0, and the module notes the change.
GroupCommand ==
  /\ IsGroup /\ pc = "run"
  /\ host' \in ToolEffect(host)
  /\ ret' = UpdateReturn(ret, [NewReturn EXCEPT !.changed = TRUE])
  /\ pc' = "info"
  /\ UNCHANGED <<task, before, interfered, op>>

\* The tool cannot be started or exits with another code, and changes nothing.
GroupCommandFails ==
  /\ IsGroup /\ pc = "run"
  /\ Fail
  /\ UNCHANGED op

\* The second UpdateReturn of Run, with what groupInfo finds.
GroupReport ==
  /\ IsGroup /\ pc = "info"
  /\ ret' = IF GroupInfo(task, host) # None THEN UpdateReturn(ret, NewReturn) ELSE ret
  /\ pc' = "done"
  /\ UNCHANGED <<task, host, before, interfered, op>>

(***************************************************************************)
(* A lookup fails: the name service does not answer, or /etc/group cannot  *)
(* be read.                                                                *)
(***************************************************************************)
GroupLookupFails ==
  /\ IsGroup /\ pc \in {"exists", "prepare", "info"}
  /\ Fail
  /\ UNCHANGED op

GroupInterfere == IsGroup /\ Interfere(GroupHosts) /\ UNCHANGED op

GroupStep ==
  \/ GroupParse \/ GroupBranch \/ GroupPrepare
  \/ GroupCommand \/ GroupCommandFails \/ GroupReport

GroupNext == GroupStep \/ GroupLookupFails \/ GroupInterfere

=============================================================================
