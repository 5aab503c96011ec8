------------------------------ MODULE FileMove ------------------------------
(***************************************************************************)
(* The file operations GosibleModule offers to modules: backup of a file   *)
(* (BackupLocal), putting a finished file in the place of another one      *)
(* (AtomicMove, with its workarounds for a rename that is refused) and     *)
(* setting the attributes of a file.  A file is its content: "old", the    *)
(* complete "new" one, "part" of it, "other" for what the administrator    *)
(* writes, "empty".                                                        *)
(***************************************************************************)
EXTENDS RemoteTask

(***************************************************************************)
(* The host: the destination, its backup, the source (tmp) in its          *)
(* directory (tmpDir, made by the module), the file .ansible_tmp next to   *)
(* the destination (side), whether the destination has the owner the task  *)
(* asks for, and what the file system does with a rename: it works, is     *)
(* refused for the destination ("denied", or "locked" when nothing may be  *)
(* created there either) or for any move of the source ("stuck"), or       *)
(* fails otherwise, as between two devices ("other"); and whether SELinux  *)
(* is enabled.                                                             *)
(***************************************************************************)
FileHosts ==
  [tools: {{}}, dest: {"absent", "dir", "old", "new", "other", "empty"},
   backup: {"none", "old", "empty"}, tmp: {"none", "part", "new"}, tmpDir: BOOLEAN,
   side: {"none", "empty", "new"}, owner: BOOLEAN,
   place: {"same", "denied", "locked", "stuck", "other"}, selinux: BOOLEAN]

\* Where os.Rename of the source is refused, for a reason that is worked around.
Refused == {"denied", "locked", "stuck"}

DestExists(h) == h.dest # "absent"

\* Run goes on at l with the host h.
MoveOn(h, l) ==
  /\ host' = h
  /\ pc' = l
  /\ UNCHANGED <<task, before, ret, interfered>>

\* The deferred os.Remove of the source, whose error is not looked at.
RemoveSource(h) == IF h.place = "stuck" THEN h ELSE [h EXCEPT !.tmp = "none"]

\* return m.MarkReturnFailed(err), the deferred removal of the source included.
FailMove(h) ==
  /\ host' = RemoveSource(h)
  /\ ret' = MarkReturnFailed(ret)
  /\ pc' = "done"
  /\ UNCHANGED <<task, before, interfered>>

(***************************************************************************)
(* pathUtils.Copy: the file is created, or truncated, and then io.Copy is  *)
(* called with its arguments the wrong way round: it reads the new file    *)
(* and would write to the source.  Depending on the kernel this succeeds,  *)
(* for there is nothing to read, or is refused.                            *)
(***************************************************************************)
Copy(content) == {[content |-> "empty", ok |-> o] : o \in BOOLEAN}

(***************************************************************************)
(* BackupLocal and PreservedCopy: the copy, its mode and owner, and its    *)
(* attributes, which fail when there are any: chattr gets no file name.    *)
(***************************************************************************)
BackupLocal(next) ==
  \/ \E c \in Copy(host.dest) :
       IF c.ok THEN MoveOn([host EXCEPT !.backup = c.content], next)
               ELSE FailMove([host EXCEPT !.backup = c.content])
  \/ \E c \in Copy(host.dest) : FailMove([host EXCEPT !.backup = c.content])
  \/ FailMove(host)

(***************************************************************************)
(* SetContextIfDifferent on a host with SELinux: IsSpecialPath wants the   *)
(* mount point of the file, and FindMountPoint asks whether the file is a  *)
(* mount point itself, again and again, without going up.  (Where the      *)
(* mounts cannot be read it goes on, and a file without a context is an    *)
(* error: both are among the other steps.)                                 *)
(***************************************************************************)
FindMountPoint == host.selinux /\ MoveOn(host, "spin")

(***************************************************************************)
(* AtomicMove.  The mode and owner of the destination are given to the     *)
(* source (CopyStat), then the source is renamed.  Only a refusal is       *)
(* worked around.                                                          *)
(***************************************************************************)
RenameSource(next) ==
  \/ /\ host.place = "same"
     /\ MoveOn([host EXCEPT !.dest = host.tmp, !.tmp = "none",
                            !.owner = DestExists(host) /\ host.owner], next)
  \/ host.place = "other" /\ FailMove(host)
  \/ host.place \in Refused /\ MoveOn(host, "workaround")

\* The copy that unsafe_writes allows, when nothing else worked.  Create fails
\* where even the destination may not be written.
UnsafeCopy(h, next) ==
  \/ \E c \in Copy(h.tmp) :
       IF c.ok /\ h.tmp # "none" THEN MoveOn([h EXCEPT !.dest = c.content], next)
                                 ELSE FailMove([h EXCEPT !.dest = c.content])
  \/ FailMove(h)

\* TryRenameWorkarounds: a file next to the destination, if one may be made.
TryRenameWorkarounds(unsafe, next) ==
  \/ host.place # "locked" /\ MoveOn([host EXCEPT !.side = "empty"], "rename")
  \/ host.place = "locked" /\ ~unsafe /\ FailMove(host)
  \/ host.place = "locked" /\ unsafe /\ UnsafeCopy(host, next)

(***************************************************************************)
(* tryRenameWithTemp: the source takes the name of that file.  When it     *)
(* cannot be moved at all it is copied straight over the destination,      *)
(* whether or not unsafe_writes is set.                                    *)
(***************************************************************************)
TryRenameWithTemp ==
  \/ host.place # "stuck" /\ MoveOn([host EXCEPT !.side = host.tmp, !.tmp = "none"], "final")
  \/ /\ host.place = "stuck"
     /\ \E c \in Copy(host.tmp) :
          MoveOn([host EXCEPT !.dest = c.content], IF c.ok THEN "final" ELSE "cleanup")
  \/ host.place = "stuck" /\ MoveOn(host, "cleanup")

\* The context or the owner of the temporary file cannot be read or set; and
\* the final rename names the source, which is gone or is still refused.
FinalRename == MoveOn(host, "cleanup")

\* The deferred Cleanup removes the file, with the content that was moved to
\* it, and unsafe_writes copies from the source once more.
CleanupSide(unsafe, next) ==
  LET h == [host EXCEPT !.side = "none"] IN
  IF unsafe THEN UnsafeCopy(h, next) ELSE FailMove(h)

(***************************************************************************)
(* The steps of AtomicMove, from pc = "move" to next, and what may fail    *)
(* before the rename (CopyStat, the SELinux context) and after it (chmod   *)
(* of a file that is new, the context again).  The context is set for the  *)
(* file beside the destination and for the destination.                    *)
(***************************************************************************)
AtomicMove(unsafe, next) ==
  \/ pc = "move" /\ RenameSource("finish")
  \/ pc = "workaround" /\ TryRenameWorkarounds(unsafe, "finish")
  \/ pc = "rename" /\ TryRenameWithTemp
  \/ pc = "final" /\ FinalRename
  \/ pc = "cleanup" /\ CleanupSide(unsafe, "finish")
  \/ pc = "finish" /\ MoveOn(host, next)
  \/ pc \in {"final", "finish"} /\ FindMountPoint

AtomicMoveFails == pc \in {"move", "finish"} /\ FailMove(host)

(***************************************************************************)
(* SetFsAttributesIfDifferent.  An error of one attribute ends the list    *)
(* and is not reported.  The owner is set whether or not it differs, which *)
(* counts as a change; the mode is not: LChmod, meant for symbolic links,  *)
(* puts the old one back, and chattr gets no file name.                    *)
(***************************************************************************)
SetFsAttributes(h, wanted) ==
  {[host |-> h, changed |-> FALSE]} \cup
  (IF wanted /\ DestExists(h) THEN {[host |-> [h EXCEPT !.owner = TRUE], changed |-> TRUE]}
   ELSE {})

=============================================================================
