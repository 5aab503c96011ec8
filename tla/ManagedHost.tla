---------------------------- MODULE ManagedHost ----------------------------
(***************************************************************************)
(* The managed host as the modules group, command and shell see it.        *)
(***************************************************************************)
EXTENDS RemoteTask

CONSTANTS
  Gids,       \* group ids a task may ask for or a group may have
  Tools       \* which families of group tools may be installed on the host

ASSUME GidsAssumption == Gids \subseteq Nat \ {0}
ASSUME ToolsAssumption == Tools \subseteq {"system", "local"}

\* No group id: the group does not exist, or the task does not name one.
None == 0

(***************************************************************************)
(* The host as far as group, command and shell can tell: the group the     *)
(* task names (its gid as the name service answers it, and whether         *)
(* /etc/group holds it or only a remote directory does), the gid of some   *)
(* other group, the installed tools, and the path that creates and removes *)
(* test.                                                                   *)
(***************************************************************************)
HostState == [gid: Gids \cup {None}, inFile: BOOLEAN, other: Gids \cup {None},
              tools: SUBSET Tools, path: BOOLEAN]

Hosts == {h \in HostState : h.inFile => h.gid # None}

=============================================================================
