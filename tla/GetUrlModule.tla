---------------------------- MODULE GetUrlModule ----------------------------
(***************************************************************************)
(* modules/get_url: a file is downloaded to a temporary one and put in the *)
(* place of the destination.  The web server is modelled from how the      *)
(* module uses it: it answers with the complete file, with another status, *)
(* breaks off, or says nothing any more.                                   *)
(***************************************************************************)
EXTENDS FileMove

VARIABLE
  lastMod    \* Module.lastModTime is set: the destination was a file

IsGetUrl == task.module = "get_url"

(***************************************************************************)
(* Params.  A checksum is refused when its digits are not a 64-bit number, *)
(* as every real digest and every address of a list of digests ("listed")  *)
(* is; a short one never equals the raw digest it is compared with.  A     *)
(* task without trouble has a url and a dest, no temporary directory of    *)
(* its own that does not exist, and either headers or no credentials to    *)
(* put in them.                                                            *)
(***************************************************************************)
GetUrlTasks ==
  {t \in [module: {"get_url"}, trouble: {"none", "invalid", "nilHeaders", "badTmp"},
          checksum: {"none", "refused", "listed", "short"}, force: BOOLEAN,
          backup: BOOLEAN, unsafe: BOOLEAN, tmpDest: BOOLEAN, timeout: BOOLEAN,
          owner: BOOLEAN] :
     /\ t.trouble # "none" => t.checksum = "none" /\ ~t.owner /\ ~t.unsafe /\ ~t.backup
     /\ t.trouble = "badTmp" => t.tmpDest
     /\ t.checksum \in {"refused", "listed"} => ~t.owner /\ ~t.unsafe /\ ~t.backup
     /\ t.checksum = "short" => ~t.force /\ t.timeout
     /\ t.owner => ~t.force /\ t.timeout}

\* Hosts before a task: no leftovers, and only a directory of the task's own
\* choice keeps a file from being moved out of it.
GetUrlHosts(t) ==
  {h \in FileHosts :
     /\ h.dest \in {"absent", "dir", "old", "new"} /\ h.backup = "none"
     /\ h.tmp = "none" /\ ~h.tmpDir /\ h.side = "none"
     /\ h.dest \notin {"old", "new"} => ~h.owner
     /\ h.selinux => t.trouble = "none"
     /\ h.place = "stuck" => t.tmpDest}

GetUrlInit ==
  /\ \E t \in GetUrlTasks : ExecuteModule(t, GetUrlHosts(t))
  /\ lastMod = FALSE

\* Params.Validate and the branch on the checksum
GetUrlParse ==
  /\ IsGetUrl /\ pc = "parse"
  /\ IF task.trouble = "invalid" THEN Fail
     ELSE Goto(IF task.checksum = "none" THEN "look" ELSE "checksum")
  /\ UNCHANGED lastMod

\* The module's own temporary directory, which only Close removes.
TmpDir == [host EXCEPT !.tmpDir = @ \/ ~task.tmpDest]

\* return m.MarkReturnFailed(err) with the host h; no removal is deferred yet.
FailLeaving(h) ==
  /\ host' = h
  /\ ret' = MarkReturnFailed(ret)
  /\ pc' = "done"
  /\ UNCHANGED <<task, before, interfered>>

\* getChecksumFromUrl: the list of digests stays where it was downloaded to when
\* it cannot be read or removed.  Found or not, the task fails in the end.
GetChecksumFromUrl ==
  \/ FailLeaving(TmpDir)
  \/ FailLeaving([TmpDir EXCEPT !.tmp = "part"])

(***************************************************************************)
(* handleCheckSum.  A list of digests is downloaded, and then the address  *)
(* itself is parsed as the digest.                                         *)
(***************************************************************************)
HandleCheckSum ==
  /\ IsGetUrl /\ pc = "checksum"
  /\ \/ task.checksum = "short" /\ Goto("look")
     \/ task.checksum # "short" /\ Fail
     \/ task.checksum = "listed" /\ GetChecksumFromUrl
  /\ UNCHANGED lastMod

(***************************************************************************)
(* The look at the destination, prepareDownloadToFile.  Where the checksum *)
(* of the file is not the one of the task, and it never is, Run ends with  *)
(* success: the download is skipped.                                       *)
(***************************************************************************)
LookAtDest ==
  /\ IsGetUrl /\ pc = "look"
  /\ IF host.dest \in {"absent", "dir"} THEN Goto("request") /\ UNCHANGED lastMod
     ELSE IF task.checksum = "none" THEN Goto("request") /\ lastMod' = TRUE
     ELSE /\ \E r \in SetFsAttributes(host, task.owner) : host' = r.host
          /\ ret' = UpdateReturn(ret, NewReturn)
          /\ pc' = "done"
          /\ UNCHANGED <<task, before, interfered, lastMod>>

\* The attributes begin with the context, here and after the move.
ContextSpins ==
  /\ IsGetUrl
  /\ \/ pc = "look" /\ host.dest \notin {"absent", "dir"} /\ task.checksum # "none"
     \/ pc = "attributes" /\ DestExists(host)
  /\ FindMountPoint
  /\ UNCHANGED lastMod

\* The destination cannot be looked at, its digest not be computed, or the
\* attributes not be read.
LookFails ==
  /\ IsGetUrl /\ pc = "look"
  /\ Fail
  /\ UNCHANGED lastMod

\* handleAuth: the header is put into a map nobody made.
HandleAuth ==
  /\ IsGetUrl /\ pc = "request" /\ task.trouble = "nilHeaders"
  /\ Goto("crashed")
  /\ UNCHANGED lastMod

\* urlGet up to the temporary file; the status is 200.
Request ==
  /\ IsGetUrl /\ pc = "request" /\ task.trouble # "nilHeaders"
  /\ IF task.trouble = "badTmp" THEN Fail
     ELSE MoveOn([TmpDir EXCEPT !.tmp = "part"], "fetch")
  /\ UNCHANGED lastMod

\* getHeader: If-Modified-Since goes with the request, and the answer that
\* nothing was modified is a status other than 200.
NotModified ==
  /\ IsGetUrl /\ pc = "request" /\ task.trouble # "nilHeaders"
  /\ lastMod /\ ~task.force
  /\ Fail
  /\ UNCHANGED lastMod

\* The request fails, is refused, or the temporary file cannot be made.
RequestFails ==
  /\ IsGetUrl /\ pc = "request" /\ task.trouble # "nilHeaders"
  /\ \/ Fail
     \/ FailLeaving(TmpDir)
  /\ UNCHANGED lastMod

\* Mutant: what has arrived so far is taken for the file.
FetchAnyhow ==
  /\ IsGetUrl /\ pc = "fetch"
  /\ ret' = UpdateReturn(ret, [NewReturn EXCEPT !.changed = TRUE])
  /\ pc' = "compare"
  /\ UNCHANGED <<task, host, before, interfered, lastMod>>

\* io.Copy of the body to its end, and parseReturnFromResponse.
Fetch ==
  /\ IsGetUrl /\ pc = "fetch"
  /\ host' = [host EXCEPT !.tmp = "new"]
  /\ ret' = UpdateReturn(ret, [NewReturn EXCEPT !.changed = TRUE])
  /\ pc' = "compare"
  /\ UNCHANGED <<task, before, interfered, lastMod>>

\* The body breaks off, and the temporary file is removed; or that file cannot
\* be closed, and stays.
FetchFails ==
  /\ IsGetUrl /\ pc = "fetch"
  /\ \/ FailMove(host)
     \/ FailLeaving([host EXCEPT !.tmp = "new"])
  /\ UNCHANGED lastMod

\* An answer of a server is waited for, that of the list of digests too.
Waiting ==
  \/ pc \in {"request", "fetch"} /\ task.trouble # "nilHeaders"
  \/ pc = "checksum" /\ task.checksum = "listed"

\* Mutant: the timeout does not reach the client.
NoTimeout ==
  /\ IsGetUrl /\ Waiting
  /\ Goto("hung")
  /\ UNCHANGED lastMod

\* The server is silent.  Merge replaces the default of ten seconds by the
\* task's timeout, also by none.
ServerSilent ==
  /\ IsGetUrl /\ Waiting
  /\ IF task.timeout THEN FailMove(host) ELSE Goto("hung")
  /\ UNCHANGED lastMod

\* Mutant: a file that is there counts as the same.
CompareExistence ==
  /\ IsGetUrl /\ pc = "compare"
  /\ IF host.dest = "dir" THEN FailMove(host)
     ELSE IF DestExists(host) THEN Goto("verify")
     ELSE Goto("move")
  /\ UNCHANGED lastMod

(***************************************************************************)
(* checkTmpSrc, checkNoDestFile and the comparison in handleBackup.  A     *)
(* directory has no digest (the name made for the file inside it is not    *)
(* used), and a new file needs a directory that can be written.            *)
(***************************************************************************)
CompareDigests ==
  /\ IsGetUrl /\ pc = "compare"
  /\ \/ /\ host.dest = "dir" \/ (host.dest = "absent" /\ host.place = "locked")
        /\ FailMove(host)
     \/ /\ host.dest = host.tmp
        /\ ret' = UpdateReturn(ret, NewReturn)
        /\ pc' = "verify"
        /\ UNCHANGED <<task, host, before, interfered>>
     \/ /\ host.dest \notin {"dir", host.tmp}
        /\ host.dest = "absent" => host.place # "locked"
        /\ Goto(IF task.backup THEN "backup" ELSE "move")
  /\ UNCHANGED lastMod

\* The temporary file or the destination cannot be read or written.
CompareFails ==
  /\ IsGetUrl /\ pc = "compare"
  /\ FailMove(host)
  /\ UNCHANGED lastMod

Backup ==
  /\ IsGetUrl /\ pc = "backup"
  /\ IF DestExists(host) THEN BackupLocal("move") ELSE Goto("move")
  /\ UNCHANGED lastMod

Move ==
  /\ IsGetUrl /\ AtomicMove(task.unsafe, "moved")
  /\ UNCHANGED lastMod

MoveFails == IsGetUrl /\ AtomicMoveFails /\ UNCHANGED lastMod

\* The UpdateReturn that ends handleBackup
Moved ==
  /\ IsGetUrl /\ pc = "moved"
  /\ ret' = UpdateReturn(ret, [NewReturn EXCEPT !.changed = TRUE])
  /\ pc' = "verify"
  /\ UNCHANGED <<task, host, before, interfered, lastMod>>

\* checkChecksum, after the file has taken its place
Verify ==
  /\ IsGetUrl /\ pc = "verify"
  /\ IF task.checksum = "none" THEN Goto("attributes") ELSE FailMove(host)
  /\ UNCHANGED lastMod

\* Mutant: Close is not called.
AttributesOnly ==
  /\ IsGetUrl /\ pc = "attributes"
  /\ \E r \in SetFsAttributes(host, task.owner) : host' = RemoveSource(r.host)
  /\ ret' = UpdateReturn(ret, NewReturn)
  /\ pc' = "done"
  /\ UNCHANGED <<task, before, interfered, lastMod>>

\* The attributes, Close, and the last UpdateReturn, which resets Changed.
Attributes ==
  /\ IsGetUrl /\ pc = "attributes"
  /\ \E r \in SetFsAttributes(host, task.owner) :
       host' = RemoveSource([r.host EXCEPT !.tmpDir = FALSE])
  /\ ret' = UpdateReturn(ret, NewReturn)
  /\ pc' = "done"
  /\ UNCHANGED <<task, before, interfered, lastMod>>

\* LoadFileCommonParams fails, or Close does.
AttributesFail ==
  /\ IsGetUrl /\ pc = "attributes"
  /\ \E r \in SetFsAttributes(host, task.owner) :
       /\ host' = RemoveSource(r.host)
       /\ ret' = MarkReturnFailed(
                   IF r.changed THEN UpdateReturn(ret, [NewReturn EXCEPT !.changed = TRUE])
                   ELSE ret)
  /\ pc' = "done"
  /\ UNCHANGED <<task, before, interfered, lastMod>>

\* The administrator writes or removes the destination.
GetUrlInterfere ==
  /\ IsGetUrl /\ host.dest # "dir"
  /\ Interfere({[host EXCEPT !.dest = "other"], [host EXCEPT !.dest = "absent"]})
  /\ UNCHANGED lastMod

GetUrlStep ==
  \/ GetUrlParse \/ HandleCheckSum \/ LookAtDest \/ HandleAuth \/ Request \/ Fetch
  \/ CompareDigests \/ Backup \/ Move \/ Moved \/ Verify \/ Attributes

GetUrlFault ==
  \/ LookFails \/ ContextSpins \/ NotModified \/ RequestFails \/ FetchFails \/ ServerSilent
  \/ CompareFails \/ MoveFails \/ AttributesFail

GetUrlNext == GetUrlStep \/ GetUrlFault \/ GetUrlInterfere

=============================================================================
