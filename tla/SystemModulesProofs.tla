------------------------ MODULE SystemModulesProofs ------------------------
(***************************************************************************)
(* For every set of installations, task and host: what service and get_url *)
(* promise holds at whatever point their commands fail, the administrator  *)
(* interferes or the remote program dies, and a download implements        *)
(* FileReplacement.                                                        *)
(***************************************************************************)
EXTENDS SystemModules, TLAPS

(***************************************************************************)
(* get_url.  What the temporary files, the return value and the            *)
(* destination are at each point of Run.                                   *)
(***************************************************************************)
Unanswered == {"parse", "checksum", "look", "request", "fetch"}
Moving == {"backup", "move", "workaround", "rename", "final", "cleanup", "finish", "moved"}

DownloadType ==
  /\ task \in GetUrlTasks /\ host \in FileHosts /\ before \in FileHosts
  /\ ret \in Return /\ interfered \in BOOLEAN

\* The source exists from the request to the move and is complete before it
\* is looked at; the file next to the destination only during the workaround.
TmpInv ==
  /\ pc \in {"parse", "checksum", "look", "request"} => host.tmp = "none" /\ ~host.tmpDir
  /\ pc \in {"compare", "backup", "move", "workaround", "rename"} => host.tmp = "new"
  /\ pc \notin {"rename", "final", "cleanup", "spin"} => host.side = "none"
  /\ pc \in {"workaround", "rename", "final", "cleanup"} => host.place \in Refused

\* Changed is set when the answer arrives and stays set until the file is in
\* its place, or was there before.
RetInv ==
  /\ pc \in Unanswered => ret = NewReturn
  /\ pc \in Moving \cup {"compare"} => ret.changed

\* Without a reported change the destination is what it was, and a finished
\* move put the complete file in place.
DestInv ==
  /\ ~interfered /\ pc \in Unanswered \cup {"compare"} => host.dest = before.dest
  /\ ~interfered /\ ~ret.changed /\ (Done => ret.failed) => host.dest = before.dest
  /\ pc \in Moving => host.dest # "dir"
  /\ SafeMove /\ pc \in {"finish", "moved", "verify", "attributes"} => "content" \in met

DownloadInv == DownloadType /\ TmpInv /\ RetInv /\ DestInv /\ DownloadHonest /\ CleansUp

(***************************************************************************)
(* service.  Only the boot setting, the state and how the manager knows    *)
(* the service ever change on the host.                                    *)
(***************************************************************************)
Controlling == {"state", "decide", "control", "stop", "start", "output"}

\* The host and the linuxService object.
ServiceHost ==
  [tools: Installations, systemd: BOOLEAN, job: BOOLEAN,
   script: {"regular", "special", "none"}, status: {"honest", "zero", "usage"},
   unit: {"known", "unknown", "odd"}, enabled: BOOLEAN, up: {"up", "down", "crashed"},
   output: {"free", "kept", "held"}]

Commands == {""} \cup {EnableCmd(h) : h \in ServiceHost} \cup {SvcCmd(h) : h \in ServiceHost}

SvcRecord ==
  [enableCmd: Commands, svcCmd: Commands, script: BOOLEAN, initctl: BOOLEAN,
   running: {"nil", "yes", "no"}, crashed: BOOLEAN,
   action: {"", "start", "stop", "reload", "restart"}, stopRc: {0, 1}, unseen: BOOLEAN]

ServiceType ==
  /\ task \in ServiceTasks /\ host \in ServiceHost /\ before \in ServiceHost /\ svc \in SvcRecord
  /\ ret \in Return /\ interfered \in BOOLEAN
  /\ host.status = before.status
  /\ host.unit \in {before.unit, "known"}

\* What each point of Run has established.
ControlInv ==
  /\ pc \in {"parse", "tools"} => svc = Fresh
  /\ pc \notin {"parse", "done", "crashed"} => ValidService(task)
  /\ pc \in {"enable", "defaults", "enableCommand"} => task.enabled # "unset"
  /\ pc \in Controlling => task.state # "none"
  /\ pc \in {"parse", "tools", "enable", "defaults", "enableCommand", "state", "decide"} =>
       svc.action = ""
  /\ pc = "control" => svc.action # "" /\ ((svc.action = "stop") <=> (task.state = "stopped"))
  /\ pc \in {"stop", "start"} => task.state = "restarted"
  /\ pc \notin {"done", "crashed"} => ~ret.failed
  /\ host.output = "held" => pc = "output"

\* What has held at some moment, once Run has seen or made it.
MetInv ==
  /\ task.enabled # "unset" /\ CanEnable /\ (pc \in Controlling \/ Succeeded) => "enabled" \in met
  /\ task.state # "none" /\ Tellable =>
       /\ Succeeded \/ pc = "output" => "state" \in met
       /\ pc = "decide" => /\ svc.running # "nil"
                           /\ (task.state = "stopped") = (svc.running = "no") => "state" \in met

\* On a host nobody else touches: the boot setting is made before the service
\* is, and neither is touched when both are as wanted.
AloneInv ==
  ~interfered =>
    /\ pc \in {"parse", "tools", "enable", "defaults", "enableCommand"} => host.up = before.up
    /\ pc \in {"parse", "tools", "enable"} => host.enabled = before.enabled
    /\ task.enabled # "unset" /\ CanEnable /\ pc \in Controlling => host.enabled = Enable
    /\ AsWanted /\ pc \notin {"done", "crashed"} =>
         /\ pc \in {"parse", "tools", "enable", "state", "decide"}
         /\ pc = "decide" => svc.running = YesNo(host.up = "up")

ServiceInv ==
  ServiceType /\ ControlInv /\ MetInv /\ AloneInv /\ ServiceConverges /\ BootSettingFirst

IInv == (IsGetUrl /\ DownloadInv) \/ (IsService /\ ServiceInv)

-----------------------------------------------------------------------------
(* get_url.                                                                 *)

\* A task that fails: the return keeps what it said of a change, and the source
\* is gone unless it cannot be removed or the answer was not taken.
LEMMA DownloadFails ==
  ASSUME IsGetUrl, DownloadInv, NEW h \in FileHosts,
         host' = h, ret' = MarkReturnFailed(ret), pc' = "done", UNCHANGED <<task, before, interfered>>,
         h.side = "none", h.place = host.place,
         h.tmp # "none" => h.place = "stuck" \/ ~ret.changed,
         ~interfered /\ ~ret.changed => h.dest = before.dest
  PROVE  DownloadInv'
<1> USE DEF DownloadInv, DownloadType
<1>1. ret' = [changed |-> ret.changed, failed |-> TRUE, rc |-> ret.rc] /\ ret' \in Return
  BY DEF MarkReturnFailed, Return
<1>2. DownloadType' /\ TmpInv' /\ RetInv'
  BY <1>1 DEF TmpInv, RetInv, Unanswered, Moving
<1>3. DestInv' /\ DownloadHonest' /\ CleansUp'
  BY <1>1 DEF DestInv, Unanswered, Moving, Done, DownloadHonest, CleansUp
<1> QED BY <1>2, <1>3

\* return m.MarkReturnFailed(err) with the deferred removal of the source.
LEMMA FailMoveKeeps ==
  ASSUME IsGetUrl, DownloadInv, NEW h \in FileHosts, FailMove(h), h.side = "none",
         h.place = host.place, ~interfered /\ ~ret.changed => h.dest = before.dest
  PROVE  DownloadInv'
<1>1. RemoveSource(h) \in FileHosts /\ RemoveSource(h).side = "none"
      /\ RemoveSource(h).place = host.place /\ RemoveSource(h).dest = h.dest
      /\ (RemoveSource(h).tmp # "none" => h.place = "stuck")
  BY DEF RemoveSource, FileHosts
<1> QED BY <1>1, DownloadFails DEF FailMove

\* UpdateReturn leaves nothing of the return that was there.
LEMMA UpdateIsUpdate ==
  ASSUME NEW r \in Return, NEW u \in Return
  PROVE  UpdateReturn(r, u) = u
<1>1. UpdateReturn(r, u) = [changed |-> u.changed, failed |-> u.failed, rc |-> u.rc]
  BY Zenon DEF Return, UpdateReturn
<1>2. u = [changed |-> u.changed, failed |-> u.failed, rc |-> u.rc]
  BY Zenon DEF Return
<1> QED BY <1>1, <1>2

LEMMA ReturnsTyped ==
  /\ NewReturn \in Return /\ ~NewReturn.failed /\ ~NewReturn.changed
  /\ [NewReturn EXCEPT !.changed = TRUE] \in Return
  /\ [NewReturn EXCEPT !.changed = TRUE].changed
<1>1. NewReturn \in Return /\ ~NewReturn.failed /\ ~NewReturn.changed
  BY DEF NewReturn, Return
<1>2. [NewReturn EXCEPT !.changed = TRUE] \in Return
      /\ [NewReturn EXCEPT !.changed = TRUE].changed
  BY <1>1 DEF Return
<1> QED BY <1>1, <1>2

\* Setting the attributes changes nothing but the owner.
LEMMA AttributesFrame ==
  ASSUME NEW h \in FileHosts, NEW wanted \in BOOLEAN, NEW r \in SetFsAttributes(h, wanted)
  PROVE  /\ r.host \in FileHosts /\ r.host.dest = h.dest /\ r.host.tmp = h.tmp
         /\ r.host.side = h.side /\ r.host.tmpDir = h.tmpDir /\ r.host.place = h.place
         /\ r.changed \in BOOLEAN
<1>1. CASE r = [host |-> h, changed |-> FALSE]
  BY <1>1
<1>2. CASE r = [host |-> [h EXCEPT !.owner = TRUE], changed |-> TRUE]
  <2> DEFINE k == [h EXCEPT !.owner = TRUE]
  <2>1. k \in FileHosts /\ k.dest = h.dest /\ k.tmp = h.tmp /\ k.side = h.side
        /\ k.tmpDir = h.tmpDir /\ k.place = h.place
    BY DEF FileHosts
  <2>2. r.host = k /\ r.changed = TRUE
    BY <1>2
  <2> HIDE DEF k
  <2> QED BY <2>1, <2>2
<1> QED BY <1>1, <1>2 DEF SetFsAttributes

\* Every step up to the comparison of the digests.
LEMMA FetchingKeeps ==
  ASSUME IsGetUrl, DownloadInv, ("content" \in met => "content" \in met'),
         \/ GetUrlParse \/ HandleCheckSum \/ LookAtDest \/ HandleAuth \/ Request \/ Fetch
         \/ LookFails \/ NotModified \/ RequestFails \/ FetchFails \/ ServerSilent
  PROVE  DownloadInv'
<1> USE DEF DownloadInv, DownloadType
<1>1. ASSUME Fail, pc \in Unanswered \ {"fetch"} PROVE DownloadInv'
  <2>1. host.tmp = "none" /\ host.side = "none"
    BY <1>1 DEF TmpInv, Unanswered
  <2> QED BY <1>1, <2>1, DownloadFails DEF Fail, DestInv
<1>2. ASSUME NEW l \in {"checksum", "look", "request", "crashed", "hung"}, Goto(l),
             pc \in Unanswered, l \in {"checksum", "look", "request"} => pc # "fetch"
      PROVE  DownloadInv'
  <2>1. DownloadType' /\ TmpInv' /\ RetInv'
    BY <1>2 DEF Goto, TmpInv, RetInv, Unanswered, Moving
  <2>2. DestInv' /\ DownloadHonest' /\ CleansUp'
    BY <1>2 DEF Goto, DestInv, RetInv, Unanswered, Moving, Done, DownloadHonest, CleansUp
  <2> QED BY <2>1, <2>2
<1>3. ASSUME NEW h \in FileHosts, FailLeaving(h), pc \in Unanswered, h.dest = host.dest,
             h.side = "none", h.place = host.place
      PROVE  DownloadInv'
  <2>1. ~ret.changed /\ (~interfered => host.dest = before.dest)
    BY <1>3 DEF RetInv, DestInv, NewReturn
  <2> QED BY <1>3, <2>1, DownloadFails DEF FailLeaving
<1>4. TmpDir \in FileHosts /\ [TmpDir EXCEPT !.tmp = "part"] \in FileHosts
      /\ TmpDir.dest = host.dest /\ TmpDir.side = host.side /\ TmpDir.place = host.place
      /\ [TmpDir EXCEPT !.tmp = "part"].dest = host.dest
      /\ [TmpDir EXCEPT !.tmp = "part"].side = host.side
      /\ [TmpDir EXCEPT !.tmp = "part"].place = host.place
  BY DEF TmpDir, FileHosts, GetUrlTasks
<1>5. pc \notin {"rename", "final", "cleanup", "spin"} => host.side = "none"
  BY DEF TmpInv
<1>6. CASE GetUrlParse
  BY <1>1, <1>2, <1>6 DEF GetUrlParse, Unanswered
<1>7. CASE HandleCheckSum
  BY <1>1, <1>2, <1>3, <1>4, <1>5, <1>7 DEF HandleCheckSum, GetChecksumFromUrl, Unanswered
<1>8. CASE LookAtDest
  <2>1. CASE host.dest \in {"absent", "dir"} \/ task.checksum = "none"
    BY <1>2, <1>8, <2>1 DEF LookAtDest, Unanswered
  <2>2. CASE ~(host.dest \in {"absent", "dir"} \/ task.checksum = "none")
    <3>1. PICK r \in SetFsAttributes(host, task.owner) : host' = r.host
      BY <1>8, <2>2 DEF LookAtDest
    <3>2. host' \in FileHosts /\ host'.dest = host.dest /\ host'.tmp = host.tmp
          /\ host'.side = host.side /\ host'.tmpDir = host.tmpDir
      BY <3>1, AttributesFrame DEF GetUrlTasks
    <3>3. ret' = NewReturn /\ ret' \in Return /\ ~ret'.failed
      BY <1>8, <2>2, UpdateIsUpdate, ReturnsTyped DEF LookAtDest
    <3>4. host.tmp = "none" /\ host.side = "none" /\ ~host.tmpDir
      BY <1>8 DEF LookAtDest, TmpInv
    <3>5. pc' = "done" /\ UNCHANGED <<task, before, interfered>>
      BY <1>8, <2>2 DEF LookAtDest
    <3>6. DownloadType' /\ TmpInv' /\ RetInv'
      BY <3>2, <3>3, <3>4, <3>5 DEF TmpInv, RetInv, Unanswered, Moving
    <3>7. DestInv' /\ DownloadHonest' /\ CleansUp'
      BY <2>2, <3>2, <3>3, <3>4, <3>5 DEF DestInv, Done, Unanswered, Moving, DownloadHonest, CleansUp
    <3> QED BY <3>6, <3>7
  <2> QED BY <2>1, <2>2
<1>9. CASE HandleAuth
  BY <1>2, <1>9 DEF HandleAuth, Unanswered
<1>10. CASE Request
  <2>1. CASE task.trouble = "badTmp"
    BY <1>1, <1>10, <2>1 DEF Request, Unanswered
  <2>2. CASE task.trouble # "badTmp"
    <3>1. host' = [TmpDir EXCEPT !.tmp = "part"] /\ pc = "request" /\ pc' = "fetch"
          /\ UNCHANGED <<task, before, ret, interfered>>
      BY <1>10, <2>2 DEF Request, MoveOn
    <3>2. host' \in FileHosts /\ host'.dest = host.dest /\ host'.side = host.side
      BY <1>4, <3>1
    <3>3. DownloadType' /\ TmpInv' /\ RetInv'
      BY <3>1, <3>2 DEF TmpInv, RetInv, Unanswered, Moving
    <3>4. DestInv' /\ DownloadHonest' /\ CleansUp'
      BY <3>1, <3>2 DEF DestInv, Unanswered, Moving, Done, DownloadHonest, CleansUp
    <3> QED BY <3>3, <3>4
  <2> QED BY <2>1, <2>2
<1>11. CASE Fetch
  <2>1. pc = "fetch" /\ pc' = "compare" /\ UNCHANGED <<task, before, interfered>>
        /\ ret' \in Return /\ ret'.changed
    BY <1>11, UpdateIsUpdate, ReturnsTyped DEF Fetch
  <2>2. host' \in FileHosts /\ host'.dest = host.dest /\ host'.side = host.side /\ host'.tmp = "new"
    BY <1>11 DEF Fetch, FileHosts
  <2>3. DownloadType' /\ TmpInv' /\ RetInv'
    BY <2>1, <2>2 DEF TmpInv, RetInv, Unanswered
  <2>4. DestInv' /\ DownloadHonest' /\ CleansUp'
    BY <2>1, <2>2 DEF DestInv, Unanswered, Moving, Done, DownloadHonest, CleansUp
  <2> QED BY <2>3, <2>4
<1>12. CASE LookFails
  BY <1>1, <1>12 DEF LookFails, Unanswered
<1>13. CASE NotModified
  BY <1>1, <1>13 DEF NotModified, Unanswered
<1>14. CASE RequestFails
  BY <1>1, <1>3, <1>4, <1>5, <1>14 DEF RequestFails, Unanswered
<1>15. CASE FetchFails
  <2>1. [host EXCEPT !.tmp = "new"] \in FileHosts /\ [host EXCEPT !.tmp = "new"].dest = host.dest
        /\ [host EXCEPT !.tmp = "new"].side = host.side
        /\ [host EXCEPT !.tmp = "new"].place = host.place
    BY DEF FileHosts
  <2>2. CASE FailMove(host)
    BY <1>5, <1>15, <2>2, FailMoveKeeps DEF FetchFails, DestInv, Unanswered
  <2>3. CASE FailLeaving([host EXCEPT !.tmp = "new"])
    BY <1>3, <1>5, <1>15, <2>1, <2>3 DEF FetchFails, Unanswered
  <2> QED BY <1>15, <2>2, <2>3 DEF FetchFails
<1>16. CASE ServerSilent
  <2>1. CASE task.timeout
    BY <1>5, <1>16, <2>1, FailMoveKeeps DEF ServerSilent, Waiting, DestInv, Unanswered
  <2>2. CASE ~task.timeout
    BY <1>2, <1>16, <2>2 DEF ServerSilent, Waiting, Unanswered
  <2> QED BY <2>1, <2>2
<1> QED BY <1>6, <1>7, <1>8, <1>9, <1>10, <1>11, <1>12, <1>13, <1>14, <1>15, <1>16

\* A step of Run that goes on with another host while the answer is reported.
LEMMA MoveOnKeeps ==
  ASSUME IsGetUrl, DownloadInv, NEW h \in FileHosts, ("content" \in met => "content" \in met'),
         NEW l \in Moving, MoveOn(h, l), ret.changed, h.dest # "dir",
         l \in {"backup", "move", "workaround", "rename"} => h.tmp = "new",
         l \notin {"rename", "final", "cleanup"} => h.side = "none",
         h.place = host.place,
         l \in {"workaround", "rename", "final", "cleanup"} => host.place \in Refused,
         SafeMove /\ l \in {"finish", "moved"} => "content" \in met'
  PROVE  DownloadInv'
<1> USE DEF DownloadInv, DownloadType
<1>1. host' = h /\ pc' = l /\ UNCHANGED <<task, before, ret, interfered>>
  BY DEF MoveOn
<1>2. DownloadType' /\ TmpInv' /\ RetInv'
  BY <1>1 DEF TmpInv, RetInv, Unanswered, Moving
<1>3. DestInv' /\ DownloadHonest' /\ CleansUp'
  BY <1>1 DEF DestInv, Unanswered, Moving, Done, DownloadHonest, CleansUp, SafeMove
<1> QED BY <1>2, <1>3

\* FindMountPoint, from wherever the context is set.
LEMMA SpinKeeps ==
  ASSUME IsGetUrl, DownloadInv, ("content" \in met => "content" \in met'), MoveOn(host, "spin"),
         ~Done
  PROVE  DownloadInv'
<1> USE DEF DownloadInv, DownloadType
<1>1. host' = host /\ pc' = "spin" /\ UNCHANGED <<task, before, ret, interfered>>
  BY DEF MoveOn
<1>2. DownloadType' /\ TmpInv' /\ RetInv'
  BY <1>1 DEF TmpInv, RetInv, Unanswered, Moving
<1>3. DestInv' /\ DownloadHonest' /\ CleansUp'
  BY <1>1 DEF DestInv, Unanswered, Moving, Done, DownloadHonest, CleansUp
<1> QED BY <1>2, <1>3

\* pathUtils.Copy copies nothing.
LEMMA CopyEmpties == ASSUME NEW x, NEW c \in Copy(x) PROVE c.content = "empty"
BY DEF Copy

\* The copy that unsafe_writes allows empties the destination and nothing else.
LEMMA UnsafeCopyKeeps ==
  ASSUME IsGetUrl, DownloadInv, NEW h \in FileHosts, ("content" \in met => "content" \in met'),
         UnsafeCopy(h, "finish"), ret.changed, task.unsafe, h.side = "none", h.place = host.place
  PROVE  DownloadInv'
<1> DEFINE k == [h EXCEPT !.dest = "empty"]
<1>1. k \in FileHosts /\ k.dest = "empty" /\ k.side = "none" /\ k.place = host.place
  BY DEF FileHosts
<1>2. MoveOn(k, "finish") \/ FailMove(k) \/ FailMove(h)
  <2>1. CASE \E c \in Copy(h.tmp) :
               IF c.ok /\ h.tmp # "none" THEN MoveOn([h EXCEPT !.dest = c.content], "finish")
                                         ELSE FailMove([h EXCEPT !.dest = c.content])
    <3>1. PICK c \in Copy(h.tmp) : MoveOn([h EXCEPT !.dest = c.content], "finish")
                                   \/ FailMove([h EXCEPT !.dest = c.content])
      BY <2>1
    <3> QED BY <3>1, CopyEmpties
  <2> QED BY <2>1 DEF UnsafeCopy
<1> HIDE DEF k
<1>3. CASE MoveOn(k, "finish")
  BY <1>1, <1>3, MoveOnKeeps DEF SafeMove, Moving
<1>4. CASE FailMove(k)
  BY <1>1, <1>4, FailMoveKeeps
<1>5. CASE FailMove(h)
  BY <1>5, FailMoveKeeps
<1> QED BY <1>2, <1>3, <1>4, <1>5

\* AtomicMove with its workarounds.
LEMMA MoveKeeps ==
  ASSUME IsGetUrl, DownloadInv, ("content" \in met => "content" \in met'), Meets(task', host') \subseteq met',
         Move \/ MoveFails
  PROVE  DownloadInv'
<1> USE DEF DownloadInv, DownloadType
<1>1. pc \in {"move", "workaround", "rename", "final", "cleanup", "finish"}
  BY DEF Move, AtomicMove, MoveFails, AtomicMoveFails
<1>2. ret.changed /\ host.dest # "dir" /\ (pc \in {"move", "workaround", "rename"} => host.tmp = "new")
      /\ (pc \notin {"rename", "final", "cleanup"} => host.side = "none")
      /\ (pc \in {"workaround", "rename", "final", "cleanup"} => host.place \in Refused)
  BY <1>1 DEF RetInv, DestInv, TmpInv, Moving
<1>3. CASE MoveFails
  BY <1>1, <1>2, <1>3, FailMoveKeeps DEF MoveFails, AtomicMoveFails
<1>4. CASE Move
  <2>1. CASE pc = "move"
    <3> DEFINE k == [host EXCEPT !.dest = host.tmp, !.tmp = "none",
                                 !.owner = DestExists(host) /\ host.owner]
    <3>1. k \in FileHosts /\ k.dest = "new" /\ k.side = "none" /\ k.place = host.place
      BY <1>2, <2>1 DEF FileHosts, DestExists
    <3>2. MoveOn(k, "finish") \/ FailMove(host) \/ (MoveOn(host, "workaround") /\ host.place \in Refused)
      BY <1>4, <2>1 DEF Move, AtomicMove, RenameSource
    <3> HIDE DEF k
    <3>3. CASE MoveOn(k, "finish")
      <4>1. task' = task /\ host' = k
        BY <3>3 DEF MoveOn
      <4>2. "content" \in met'
        BY <3>1, <4>1 DEF Meets, IsGetUrl
      <4> QED BY <1>2, <3>1, <3>3, <4>2, MoveOnKeeps DEF Moving
    <3>4. CASE FailMove(host)
      BY <1>2, <2>1, <3>4, FailMoveKeeps
    <3>5. CASE MoveOn(host, "workaround") /\ host.place \in Refused
      BY <1>2, <2>1, <3>5, MoveOnKeeps DEF Moving
    <3> QED BY <3>2, <3>3, <3>4, <3>5
  <2>2. CASE pc = "workaround"
    <3> DEFINE k == [host EXCEPT !.side = "empty"]
    <3>1. k \in FileHosts /\ k.dest = host.dest /\ k.tmp = host.tmp /\ k.place = host.place
      BY DEF FileHosts
    <3>2. MoveOn(k, "rename") \/ FailMove(host) \/ (task.unsafe /\ UnsafeCopy(host, "finish"))
      BY <1>4, <2>2 DEF Move, AtomicMove, TryRenameWorkarounds
    <3> HIDE DEF k
    <3>3. CASE MoveOn(k, "rename")
      BY <1>2, <2>2, <3>1, <3>3, MoveOnKeeps DEF Moving
    <3>4. CASE FailMove(host)
      BY <1>2, <2>2, <3>4, FailMoveKeeps
    <3>5. CASE task.unsafe /\ UnsafeCopy(host, "finish")
      BY <1>2, <2>2, <3>5, UnsafeCopyKeeps
    <3> QED BY <3>2, <3>3, <3>4, <3>5
  <2>3. CASE pc = "rename"
    <3> DEFINE k == [host EXCEPT !.side = host.tmp, !.tmp = "none"]
               e == [host EXCEPT !.dest = "empty"]
    <3>1. k \in FileHosts /\ k.dest = host.dest /\ k.place = host.place
      BY <1>2, <2>3 DEF FileHosts
    <3>2. e \in FileHosts /\ e.dest = "empty" /\ e.place = host.place
      BY DEF FileHosts
    <3>3. MoveOn(k, "final") \/ MoveOn(e, "final") \/ MoveOn(e, "cleanup") \/ MoveOn(host, "cleanup")
      <4>1. CASE \E c \in Copy(host.tmp) :
                   MoveOn([host EXCEPT !.dest = c.content], IF c.ok THEN "final" ELSE "cleanup")
        <5>1. PICK c \in Copy(host.tmp) : MoveOn([host EXCEPT !.dest = c.content], "final")
                                          \/ MoveOn([host EXCEPT !.dest = c.content], "cleanup")
          BY <4>1
        <5> QED BY <5>1, CopyEmpties
      <4> QED BY <1>4, <2>3, <4>1 DEF Move, AtomicMove, TryRenameWithTemp
    <3> HIDE DEF k, e
    <3> QED BY <1>2, <2>3, <3>1, <3>2, <3>3, MoveOnKeeps DEF Moving
  <2>4. CASE pc = "final"
    <3>1. MoveOn(host, "cleanup") \/ MoveOn(host, "spin")
      BY <1>4, <2>4 DEF Move, AtomicMove, FinalRename, FindMountPoint
    <3> QED BY <1>2, <2>4, <3>1, MoveOnKeeps, SpinKeeps DEF Moving, Done
  <2>5. CASE pc = "cleanup"
    <3> DEFINE k == [host EXCEPT !.side = "none"]
    <3>1. k \in FileHosts /\ k.dest = host.dest /\ k.side = "none" /\ k.place = host.place
      BY DEF FileHosts
    <3>2. (task.unsafe /\ UnsafeCopy(k, "finish")) \/ FailMove(k)
      BY <1>4, <2>5 DEF Move, AtomicMove, CleanupSide
    <3> HIDE DEF k
    <3> QED BY <1>2, <3>1, <3>2, UnsafeCopyKeeps, FailMoveKeeps
  <2>6. CASE pc = "finish"
    <3>1. MoveOn(host, "moved") \/ MoveOn(host, "spin")
      BY <1>4, <2>6 DEF Move, AtomicMove, FindMountPoint
    <3>2. SafeMove => "content" \in met
      BY <2>6 DEF DestInv
    <3> QED BY <1>2, <2>6, <3>1, <3>2, MoveOnKeeps, SpinKeeps DEF Moving, Done
  <2> QED BY <1>1, <2>1, <2>2, <2>3, <2>4, <2>5, <2>6
<1> QED BY <1>3, <1>4

\* The comparison of the digests and the backup before the move.
LEMMA ComparingKeeps ==
  ASSUME IsGetUrl, DownloadInv, ("content" \in met => "content" \in met'), Meets(task', host') \subseteq met',
         CompareDigests \/ CompareFails \/ Backup
  PROVE  DownloadInv'
<1> USE DEF DownloadInv, DownloadType
<1>1. pc \in {"compare", "backup"} /\ ret.changed /\ host.tmp = "new" /\ host.side = "none"
      /\ (pc = "backup" => host.dest # "dir")
  BY DEF CompareDigests, CompareFails, Backup, RetInv, TmpInv, DestInv, Moving
<1>2. CASE FailMove(host)
  BY <1>1, <1>2, FailMoveKeeps
<1>3. ASSUME NEW l \in {"backup", "move"}, Goto(l), host.dest # "dir" PROVE DownloadInv'
  <2>1. MoveOn(host, l)
    BY <1>3 DEF Goto, MoveOn
  <2> QED BY <1>1, <1>3, <2>1, MoveOnKeeps DEF Moving
<1>4. CASE Backup
  <2> DEFINE k == [host EXCEPT !.backup = "empty"]
  <2>1. k \in FileHosts /\ k.dest = host.dest /\ k.tmp = "new" /\ k.side = "none"
        /\ k.place = host.place
    BY <1>1 DEF FileHosts
  <2>2. MoveOn(k, "move") \/ FailMove(k) \/ FailMove(host) \/ Goto("move")
    <3>1. ASSUME NEW c \in Copy(host.dest) PROVE [host EXCEPT !.backup = c.content] = k
      BY <3>1, CopyEmpties
    <3> QED BY <1>4, <3>1 DEF Backup, BackupLocal
  <2> HIDE DEF k
  <2>3. CASE MoveOn(k, "move")
    BY <1>1, <1>4, <2>1, <2>3, MoveOnKeeps DEF Moving, Backup
  <2>4. CASE FailMove(k)
    BY <1>1, <2>1, <2>4, FailMoveKeeps
  <2> QED BY <1>1, <1>2, <1>3, <1>4, <2>2, <2>3, <2>4 DEF Backup
<1>5. CASE CompareDigests /\ host.dest = host.tmp /\ pc' = "verify"
  <2>1. ret' = NewReturn /\ pc = "compare" /\ UNCHANGED <<task, host, before, interfered>>
    BY <1>1, <1>5, UpdateIsUpdate, ReturnsTyped DEF CompareDigests, FailMove, Goto
  <2>2. "content" \in met'
    BY <1>1, <1>5, <2>1 DEF Meets, IsGetUrl
  <2>3. DownloadType' /\ TmpInv' /\ RetInv'
    BY <1>1, <1>5, <2>1, ReturnsTyped DEF TmpInv, RetInv, Unanswered, Moving
  <2>4. DestInv' /\ DownloadHonest' /\ CleansUp'
    BY <1>5, <2>1, <2>2 DEF DestInv, Unanswered, Moving, Done, DownloadHonest, CleansUp
  <2> QED BY <2>3, <2>4
<1>6. CASE CompareDigests /\ ~(host.dest = host.tmp /\ pc' = "verify")
  BY <1>2, <1>3, <1>6 DEF CompareDigests
<1> QED BY <1>2, <1>4, <1>5, <1>6 DEF CompareFails

\* What follows the move: the last look at the checksum, and the attributes.
LEMMA FinishingKeeps ==
  ASSUME IsGetUrl, DownloadInv, ("content" \in met => "content" \in met'),
         Moved \/ Verify \/ Attributes \/ AttributesFail
  PROVE  DownloadInv'
<1> USE DEF DownloadInv, DownloadType
<1>1. pc \in {"moved", "verify", "attributes"} /\ host.side = "none"
      /\ (SafeMove => "content" \in met) /\ (~interfered /\ ~ret.changed => host.dest = before.dest)
  BY DEF Moved, Verify, Attributes, AttributesFail, TmpInv, DestInv, Done
<1>2. CASE Moved
  <2>1. pc' = "verify" /\ ret' \in Return /\ ret'.changed /\ UNCHANGED <<task, host, before, interfered>>
    BY <1>2, UpdateIsUpdate, ReturnsTyped DEF Moved
  <2>2. DownloadType' /\ TmpInv' /\ RetInv'
    BY <1>1, <2>1 DEF TmpInv, RetInv, Unanswered, Moving
  <2>3. DestInv' /\ DownloadHonest' /\ CleansUp'
    BY <1>1, <2>1 DEF DestInv, Unanswered, Moving, Done, DownloadHonest, CleansUp, SafeMove
  <2> QED BY <2>2, <2>3
<1>3. CASE Verify
  <2>1. CASE task.checksum = "none"
    <3>1. pc' = "attributes" /\ UNCHANGED <<task, host, before, ret, interfered>>
      BY <1>3, <2>1 DEF Verify, Goto
    <3>2. DownloadType' /\ TmpInv' /\ RetInv'
      BY <1>1, <3>1 DEF TmpInv, RetInv, Unanswered, Moving
    <3>3. DestInv' /\ DownloadHonest' /\ CleansUp'
      BY <1>1, <3>1 DEF DestInv, Unanswered, Moving, Done, DownloadHonest, CleansUp, SafeMove
    <3> QED BY <3>2, <3>3
  <2>2. CASE task.checksum # "none"
    BY <1>1, <1>3, <2>2, FailMoveKeeps DEF Verify
  <2> QED BY <2>1, <2>2
<1>4. CASE Attributes
  <2>1. PICK r \in SetFsAttributes(host, task.owner) :
          host' = RemoveSource([r.host EXCEPT !.tmpDir = FALSE])
    BY <1>4 DEF Attributes
  <2> DEFINE k == r.host
  <2>2. k \in FileHosts /\ k.dest = host.dest /\ k.side = host.side /\ k.place = host.place
    BY <2>1, AttributesFrame DEF GetUrlTasks
  <2>3. host' = RemoveSource([k EXCEPT !.tmpDir = FALSE])
    BY <2>1
  <2> HIDE DEF k
  <2>4. host' \in FileHosts /\ host'.dest = host.dest /\ host'.side = "none"
        /\ host'.place = host.place /\ ~host'.tmpDir /\ (host'.tmp # "none" => host'.place = "stuck")
    <3> DEFINE c == [k EXCEPT !.tmpDir = FALSE]
    <3>1. c \in FileHosts /\ c.dest = host.dest /\ c.side = "none" /\ c.place = host.place /\ ~c.tmpDir
      BY <1>1, <2>2 DEF FileHosts
    <3>2. host' = RemoveSource(c)
      BY <2>3
    <3> HIDE DEF c
    <3> QED BY <3>1, <3>2 DEF RemoveSource, FileHosts
  <2>5. ret' \in Return /\ ~ret'.failed /\ pc' = "done" /\ UNCHANGED <<task, before, interfered>>
    BY <1>4, UpdateIsUpdate, ReturnsTyped DEF Attributes
  <2>6. DownloadType' /\ TmpInv' /\ RetInv'
    BY <2>4, <2>5 DEF TmpInv, RetInv, Unanswered, Moving
  <2>7. DestInv' /\ DownloadHonest' /\ CleansUp'
    BY <1>1, <2>4, <2>5 DEF DestInv, Unanswered, Moving, Done, DownloadHonest, CleansUp, SafeMove
  <2> QED BY <2>6, <2>7
<1>5. CASE AttributesFail
  <2>1. PICK r \in SetFsAttributes(host, task.owner) :
          /\ host' = RemoveSource(r.host)
          /\ ret' = MarkReturnFailed(
                      IF r.changed THEN UpdateReturn(ret, [NewReturn EXCEPT !.changed = TRUE])
                      ELSE ret)
    BY <1>5 DEF AttributesFail
  <2> DEFINE k == r.host
             m == IF r.changed THEN UpdateReturn(ret, [NewReturn EXCEPT !.changed = TRUE]) ELSE ret
  <2>2. k \in FileHosts /\ k.dest = host.dest /\ k.side = host.side /\ k.place = host.place
    BY <2>1, AttributesFrame DEF GetUrlTasks
  <2>3. m \in Return /\ (~m.changed => ~ret.changed)
    BY UpdateIsUpdate, ReturnsTyped
  <2>4. host' = RemoveSource(k) /\ ret' = MarkReturnFailed(m)
    BY <2>1
  <2> HIDE DEF k, m
  <2>5. host' \in FileHosts /\ host'.dest = host.dest /\ host'.side = "none"
        /\ host'.place = host.place /\ (host'.tmp # "none" => host'.place = "stuck")
    BY <1>1, <2>2, <2>4 DEF RemoveSource, FileHosts
  <2>6. ret' \in Return /\ ret'.failed /\ ret'.changed = m.changed
    BY <2>3, <2>4 DEF MarkReturnFailed, Return
  <2>7. pc' = "done" /\ UNCHANGED <<task, before, interfered>>
    BY <1>5 DEF AttributesFail
  <2>8. DownloadType' /\ TmpInv' /\ RetInv'
    BY <2>5, <2>6, <2>7 DEF TmpInv, RetInv, Unanswered, Moving
  <2>9. DestInv' /\ DownloadHonest' /\ CleansUp'
    BY <1>1, <2>3, <2>5, <2>6, <2>7
       DEF DestInv, Unanswered, Moving, Done, DownloadHonest, CleansUp, SafeMove
  <2> QED BY <2>8, <2>9
<1> QED BY <1>2, <1>3, <1>4, <1>5

\* The administrator, once per task, writes or removes the destination.
LEMMA EditKeeps ==
  ASSUME IsGetUrl, DownloadInv, ("content" \in met => "content" \in met'), GetUrlInterfere
  PROVE  DownloadInv'
<1> USE DEF DownloadInv, DownloadType
<1>1. /\ host' = [host EXCEPT !.dest = "other"] \/ host' = [host EXCEPT !.dest = "absent"]
      /\ interfered' = TRUE /\ ~Done /\ UNCHANGED <<task, before, pc, ret>>
  BY DEF GetUrlInterfere, Interfere
<1>2. host' \in FileHosts /\ host'.tmp = host.tmp /\ host'.side = host.side
      /\ host'.tmpDir = host.tmpDir /\ host'.place = host.place /\ host'.dest \in {"other", "absent"}
  BY <1>1 DEF FileHosts
<1>3. DownloadType' /\ TmpInv' /\ RetInv'
  BY <1>1, <1>2 DEF TmpInv, RetInv, Unanswered, Moving
<1>4. DestInv' /\ DownloadHonest' /\ CleansUp'
  BY <1>1, <1>2 DEF DestInv, Unanswered, Moving, Done, DownloadHonest, CleansUp, SafeMove
<1> QED BY <1>3, <1>4

\* Every step of a download keeps its invariant.
LEMMA DownloadStep ==
  ASSUME IsGetUrl, DownloadInv, Remember, GetUrlNext
  PROVE  DownloadInv' /\ task' = task
<1>1. ("content" \in met => "content" \in met') /\ Meets(task', host') \subseteq met'
  BY DEF Remember
<1>2. CASE \/ GetUrlParse \/ HandleCheckSum \/ LookAtDest \/ HandleAuth \/ Request \/ Fetch
           \/ LookFails \/ NotModified \/ RequestFails \/ FetchFails \/ ServerSilent
  BY <1>1, <1>2, FetchingKeeps
     DEF GetUrlParse, HandleCheckSum, GetChecksumFromUrl, LookAtDest, HandleAuth, Request, Fetch,
         LookFails, NotModified, RequestFails, FetchFails, ServerSilent, Fail, Goto, FailLeaving,
         FailMove, MoveOn
<1>7. CASE ContextSpins
  BY <1>1, <1>7, SpinKeeps DEF ContextSpins, FindMountPoint, MoveOn, Done
<1>3. CASE CompareDigests \/ CompareFails \/ Backup
  BY <1>1, <1>3, ComparingKeeps
     DEF CompareDigests, CompareFails, Backup, BackupLocal, Goto, FailMove, MoveOn
<1>4. CASE Move \/ MoveFails
  BY <1>1, <1>4, MoveKeeps
     DEF Move, AtomicMove, MoveFails, AtomicMoveFails, RenameSource, TryRenameWorkarounds,
         UnsafeCopy, TryRenameWithTemp, FinalRename, CleanupSide, FindMountPoint, FailMove, MoveOn
<1>5. CASE Moved \/ Verify \/ Attributes \/ AttributesFail
  BY <1>1, <1>5, FinishingKeeps DEF Moved, Verify, Attributes, AttributesFail, Goto, FailMove
<1>6. CASE GetUrlInterfere
  BY <1>1, <1>6, EditKeeps DEF GetUrlInterfere, Interfere
<1> QED BY <1>2, <1>3, <1>4, <1>5, <1>6, <1>7 DEF GetUrlNext, GetUrlStep, GetUrlFault

\* A download begins with no answer and nothing left over.
LEMMA DownloadInit ==
  ASSUME GetUrlInit
  PROVE  IsGetUrl /\ DownloadInv
<1>1. PICK t \in GetUrlTasks : ExecuteModule(t, GetUrlHosts(t))
  BY DEF GetUrlInit
<1>2. task = t /\ host \in GetUrlHosts(t) /\ before = host /\ pc = "parse" /\ ret = NewReturn
      /\ interfered = FALSE
  BY <1>1 DEF ExecuteModule
<1>3. IsGetUrl
  BY <1>2 DEF IsGetUrl, GetUrlTasks
<1>4. host \in FileHosts /\ host.tmp = "none" /\ ~host.tmpDir /\ host.side = "none"
  BY <1>2 DEF GetUrlHosts
<1>5. DownloadType /\ TmpInv /\ RetInv
  BY <1>2, <1>4, ReturnsTyped DEF DownloadType, TmpInv, RetInv, Unanswered, Moving
<1>6. DestInv /\ DownloadHonest /\ CleansUp
  BY <1>2 DEF DestInv, Unanswered, Moving, Done, DownloadHonest, CleansUp
<1> QED BY <1>3, <1>5, <1>6 DEF DownloadInv

-----------------------------------------------------------------------------
(* service.                                                                 *)

\* Which parts of a service task a host meets.
LEMMA MeetsService ==
  ASSUME IsService, task' = task, Remember
  PROVE  /\ "enabled" \in met => "enabled" \in met'
         /\ pc # "stop" /\ "state" \in met => "state" \in met'
         /\ (task.state = "stopped") = (host'.up # "up") => "state" \in met'
         /\ host'.enabled = Enable => "enabled" \in met'
BY DEF IsService, Meets, Enable, Remember

\* A task that fails or dies with the service and its boot setting in a state
\* the properties allow.
LEMMA ServiceEnds ==
  ASSUME IsService, ServiceInv, ("enabled" \in met => "enabled" \in met'),
         (pc # "stop" /\ "state" \in met => "state" \in met'),
         \/ pc' = "done" /\ ret' = MarkReturnFailed(ret)
         \/ pc' = "crashed" /\ ret' = ret,
         host' \in ServiceHost, host'.status = host.status, host'.unit \in {host.unit, "known"},
         pc # "output", host'.output = "held" => host.output = "held",
         UNCHANGED <<task, before, interfered, svc>>,
         ~interfered /\ AsWanted => host'.up = host.up /\ host'.enabled = host.enabled,
         ~interfered /\ task.enabled # "unset" /\ CanEnable /\ host'.up # before.up =>
            host'.enabled = Enable
  PROVE  ServiceInv'
<1> USE DEF ServiceInv
<1>1. ret' \in Return /\ (pc' = "done" => ret'.failed)
  BY DEF MarkReturnFailed, Return, ServiceType
<1>2. AsWanted' = AsWanted /\ CanEnable' = CanEnable /\ Enable' = Enable /\ IsService'
  BY DEF AsWanted, Tellable, CanEnable, Enable, IsService
<1>3. ServiceType'
  BY <1>1 DEF ServiceType
<1>4. ControlInv' /\ MetInv' /\ AloneInv'
  BY <1>1 DEF ControlInv, MetInv, AloneInv, Controlling, Succeeded, Done
<1>5. BootSettingFirst'
  BY <1>2 DEF BootSettingFirst
<1>6. ServiceConverges'
  <2>1. ~Succeeded'
    BY <1>1 DEF Succeeded, Done
  <2> QED BY <1>2, <2>1 DEF ServiceConverges
<1> QED BY <1>3, <1>4, <1>5, <1>6

\* return m.MarkReturnFailed(err), and the death of the remote program, leave the
\* host as it is.
LEMMA ServiceFails ==
  ASSUME IsService, ServiceInv, ("enabled" \in met => "enabled" \in met'),
         (pc # "stop" /\ "state" \in met => "state" \in met'), Fail \/ Goto("crashed"), UNCHANGED svc,
         pc # "output"
  PROVE  ServiceInv'
<1>1. host' = host /\ UNCHANGED <<task, before, interfered>>
      /\ ((pc' = "done" /\ ret' = MarkReturnFailed(ret)) \/ (pc' = "crashed" /\ ret' = ret))
  <2>1. CASE Fail
    BY <2>1 DEF Fail
  <2>2. CASE Goto("crashed")
    BY <2>2 DEF Goto
  <2> QED BY <2>1, <2>2
<1>2. host \in ServiceHost
      /\ (~interfered /\ task.enabled # "unset" /\ CanEnable /\ host.up # before.up => host.enabled = Enable)
  BY DEF ServiceInv, ServiceType, BootSettingFirst
<1> QED BY <1>1, <1>2, ServiceEnds

\* Params.Validate and getServiceTools.
LEMMA ToolsKeep ==
  ASSUME IsService, ServiceInv, ("enabled" \in met => "enabled" \in met'),
         (pc # "stop" /\ "state" \in met => "state" \in met'), ServiceParse \/ GetServiceTools
  PROVE  ServiceInv'
<1>1. CASE ServiceParse /\ ~ValidService(task)
  BY <1>1, ServiceFails DEF ServiceParse
<1>2. CASE ServiceParse /\ ValidService(task)
  <2>1. pc = "parse" /\ pc' = "tools" /\ UNCHANGED <<task, host, before, ret, interfered, svc>>
    BY <1>2 DEF ServiceParse, Goto
  <2>2. AsWanted' = AsWanted /\ CanEnable' = CanEnable /\ Enable' = Enable /\ Succeeded' = FALSE
    BY <2>1 DEF AsWanted, Tellable, CanEnable, Enable, IsService, Succeeded, Done
  <2>3. ServiceType' /\ ControlInv'
    BY <1>2, <2>1 DEF ServiceInv, ServiceType, ControlInv, Controlling, ValidService
  <2>4. MetInv' /\ AloneInv'
    BY <2>1, <2>2 DEF ServiceInv, MetInv, AloneInv, Controlling
  <2>5. ServiceConverges' /\ BootSettingFirst'
    BY <2>1, <2>2 DEF ServiceInv, ServiceConverges, BootSettingFirst, IsService
  <2> QED BY <2>3, <2>4, <2>5 DEF ServiceInv
<1>3. CASE GetServiceTools
  <2>1. CASE Fail /\ UNCHANGED svc
    BY <1>3, <2>1, ServiceFails DEF GetServiceTools
  <2>2. CASE /\ svc' = [svc EXCEPT !.enableCmd = EnableCmd(host), !.svcCmd = SvcCmd(host),
                                  !.script = host.script = "regular",
                                  !.initctl = EnableCmd(host) # "" /\ "initctl" \in host.tools]
             /\ Goto(IF task.enabled = "unset" THEN "state" ELSE "enable")
    <3>1. pc = "tools" /\ svc = Fresh /\ UNCHANGED <<task, host, before, ret, interfered>>
          /\ pc' = IF task.enabled = "unset" THEN "state" ELSE "enable"
      BY <1>3, <2>2 DEF GetServiceTools, Goto, ServiceInv, ControlInv
    <3>2. svc' \in SvcRecord /\ svc'.action = svc.action /\ svc'.unseen = svc.unseen
      BY <2>2 DEF ServiceInv, ServiceType, SvcRecord, Commands
    <3>3. svc.enableCmd = "" /\ svc.action = ""
      BY <3>1 DEF Fresh
    <3>4. (CanEnable' => CanEnable) /\ (AsWanted' => AsWanted) /\ Enable' = Enable
      BY <3>1, <3>2, <3>3 DEF AsWanted, Tellable, CanEnable, Enable, IsService
    <3>5. ServiceType' /\ ControlInv'
      BY <3>1, <3>2, <3>3 DEF ServiceInv, ServiceType, ControlInv, Controlling, ValidService
    <3>6. MetInv' /\ AloneInv'
      BY <3>1, <3>4 DEF ServiceInv, MetInv, AloneInv, Controlling, Succeeded, Done
    <3>7. ServiceConverges' /\ BootSettingFirst'
      BY <3>1, <3>2, <3>3, <3>4
         DEF ServiceInv, ServiceConverges, BootSettingFirst, IsService, Succeeded, Done
    <3> QED BY <3>5, <3>6, <3>7 DEF ServiceInv
  <2> QED BY <1>3, <2>1, <2>2 DEF GetServiceTools
<1> QED BY <1>1, <1>2, <1>3

\* The boot setting is made or found, and Run goes on to the state.
LEMMA EnableDone ==
  ASSUME IsService, ServiceInv, ("enabled" \in met => "enabled" \in met'),
         (pc # "stop" /\ "state" \in met => "state" \in met'), host'.enabled = Enable => "enabled" \in met',
         pc \in {"enable", "enableCommand"}, pc' = AfterEnable,
         UNCHANGED <<task, before, ret, interfered>>,
         host' \in ServiceHost, host'.up = host.up, host'.status = host.status,
         host'.unit \in {host.unit, "known"}, host'.output = host.output,
         svc' \in SvcRecord, svc'.action = svc.action, svc' = svc \/ svc'.unseen,
         CanEnable' => host'.enabled = Enable
  PROVE  ServiceInv'
<1> USE DEF ServiceInv
<1>1. task.enabled # "unset" /\ svc.action = "" /\ ~ret.failed /\ ValidService(task)
  BY DEF ControlInv
<1>2. (CanEnable' => CanEnable) /\ Enable' = Enable /\ IsService'
  BY DEF CanEnable, Enable, IsService
<1>3. AsWanted' => CanEnable' /\ before.enabled = Enable
  BY <1>1, <1>2 DEF AsWanted
<1>4. pc' = (IF task.state = "none" THEN "done" ELSE "state")
  BY DEF AfterEnable
<1>5. ServiceType' /\ ControlInv'
  BY <1>1, <1>4 DEF ServiceType, ControlInv, Controlling, ValidService
<1>6. MetInv'
  BY <1>4 DEF MetInv, Controlling, Succeeded, Done
<1>7. ~interfered => host.up = before.up
  BY DEF AloneInv
<1>8. AloneInv'
  BY <1>2, <1>4, <1>7 DEF AloneInv, Controlling
<1>9. ServiceConverges'
  BY <1>1, <1>3, <1>4, <1>7 DEF ServiceConverges, Succeeded, Done
<1>10. BootSettingFirst'
  BY <1>7 DEF BootSettingFirst
<1> QED BY <1>5, <1>6, <1>8, <1>9, <1>10

\* A command is needed for the boot setting, which was not as wanted.
LEMMA EnableNext ==
  ASSUME IsService, ServiceInv, ("enabled" \in met => "enabled" \in met'),
         (pc # "stop" /\ "state" \in met => "state" \in met'),
         pc \in {"enable", "defaults"}, pc' \in {"defaults", "enableCommand"},
         UNCHANGED <<task, before, ret, interfered, svc>>,
         host' \in ServiceHost, host'.up = host.up, host'.status = host.status,
         host'.unit \in {host.unit, "known"}, host'.output = host.output,
         pc = "enable" => ~CanEnable \/ host.enabled # Enable
  PROVE  ServiceInv'
<1> USE DEF ServiceInv
<1>1. task.enabled # "unset" /\ svc.action = "" /\ ~ret.failed /\ ValidService(task)
  BY DEF ControlInv
<1>2. CanEnable' = CanEnable /\ Enable' = Enable /\ AsWanted' = AsWanted /\ IsService'
  BY DEF CanEnable, Enable, IsService, AsWanted, Tellable
<1>3. ~interfered => host.up = before.up /\ ~AsWanted
  <2>1. CASE pc = "enable"
    BY <1>1, <2>1 DEF AloneInv, AsWanted
  <2>2. CASE pc = "defaults"
    BY <2>2 DEF AloneInv
  <2> QED BY <2>1, <2>2
<1>4. ServiceType' /\ ControlInv'
  BY <1>1 DEF ServiceType, ControlInv, Controlling, ValidService
<1>5. MetInv' /\ AloneInv'
  BY <1>2, <1>3 DEF MetInv, AloneInv, Controlling, Succeeded, Done
<1>6. ServiceConverges' /\ BootSettingFirst'
  BY <1>2, <1>3 DEF ServiceConverges, BootSettingFirst, Succeeded, Done
<1> QED BY <1>4, <1>5, <1>6

\* serviceEnable keeps the invariant, whatever of it fails.
LEMMA EnableKeeps ==
  ASSUME IsService, ServiceInv, ("enabled" \in met => "enabled" \in met'),
         (pc # "stop" /\ "state" \in met => "state" \in met'), host'.enabled = Enable => "enabled" \in met',
         \/ EnableUnknown \/ SystemdServiceEnable \/ InitctlServiceEnable \/ OverrideWriteFails
         \/ UpdateRcDServiceEnable \/ Defaults \/ InsservServiceEnable \/ DryRunFails
         \/ SysvServiceEnable \/ EnableCommand \/ EnableCommandFails \/ ServiceLookupFails
  PROVE  ServiceInv'
<1>1. host \in ServiceHost /\ svc \in SvcRecord /\ host.unit \in {before.unit, "known"}
  BY DEF ServiceInv, ServiceType
<1>2. CASE pc # "output" /\ Fail /\ UNCHANGED svc
  BY <1>2, ServiceFails
<1>3. CASE pc = "enable" /\ Settled /\ (CanEnable => host.enabled = Enable)
  <2>1. pc' = AfterEnable /\ UNCHANGED <<task, host, before, ret, interfered, svc>>
    BY <1>3 DEF Settled, Goto
  <2>2. CanEnable' = CanEnable
    BY <2>1 DEF CanEnable
  <2> QED BY <1>1, <1>3, <2>1, <2>2, EnableDone
<1>4. CASE /\ pc = "enable" /\ (Goto("enableCommand") \/ Goto("defaults")) /\ UNCHANGED svc
           /\ ~CanEnable \/ host.enabled # Enable
  <2>1. pc' \in {"defaults", "enableCommand"} /\ UNCHANGED <<task, host, before, ret, interfered, svc>>
    BY <1>4 DEF Goto
  <2> QED BY <1>1, <1>4, <2>1, EnableNext
<1>5. CASE pc \in {"enable", "enableCommand"} /\ SetEnabled(Enable, AfterEnable)
  <2>1. pc' = AfterEnable /\ UNCHANGED <<task, before, ret, interfered, svc>>
        /\ host' = [host EXCEPT !.enabled = Enable, !.unit = "known"]
    BY <1>5 DEF SetEnabled
  <2>2. host' \in ServiceHost /\ host'.up = host.up /\ host'.status = host.status
        /\ host'.unit = "known" /\ host'.enabled = Enable /\ host'.output = host.output
    BY <1>1, <2>1 DEF ServiceHost, Enable
  <2> QED BY <1>1, <1>5, <2>1, <2>2, EnableDone
<1>6. CASE EnableUnknown
  BY <1>2, <1>3, <1>6 DEF EnableUnknown, CanEnable
<1>7. CASE SystemdServiceEnable
  <2>1. SystemdEnabled(host) # host.enabled => ~CanEnable
    BY <1>1 DEF SystemdEnabled, CanEnable
  <2> QED BY <1>2, <1>3, <1>4, <1>7, <2>1 DEF SystemdServiceEnable
<1>8. CASE InitctlServiceEnable
  BY <1>2, <1>3, <1>5, <1>8 DEF InitctlServiceEnable
<1>9. CASE UpdateRcDServiceEnable \/ InsservServiceEnable
  BY <1>3, <1>4, <1>9 DEF UpdateRcDServiceEnable, InsservServiceEnable
<1>10. CASE Defaults
  <2>1. pc = "defaults" /\ pc' = "enableCommand" /\ UNCHANGED <<task, before, ret, interfered, svc>>
        /\ host' = [host EXCEPT !.enabled = TRUE, !.unit = "known"]
    BY <1>10 DEF Defaults, SetEnabled
  <2>2. host' \in ServiceHost /\ host'.up = host.up /\ host'.status = host.status
        /\ host'.unit = "known" /\ host'.output = host.output
    BY <1>1, <2>1 DEF ServiceHost
  <2> QED BY <2>1, <2>2, EnableNext
<1>11. CASE DryRunFails
  <2>1. pc = "enable" /\ pc' = AfterEnable /\ UNCHANGED <<task, host, before, ret, interfered>>
        /\ svc' = [svc EXCEPT !.unseen = TRUE]
    BY <1>11 DEF DryRunFails, Goto
  <2>2. svc' \in SvcRecord /\ svc'.action = svc.action /\ svc'.unseen
    BY <1>1, <2>1 DEF SvcRecord
  <2>3. ~CanEnable'
    BY <2>2 DEF CanEnable
  <2> QED BY <1>1, <2>1, <2>2, <2>3, EnableDone
<1>12. CASE OverrideWriteFails \/ SysvServiceEnable
  <2>1. pc = "enable" /\ pc' = "done" /\ ret' = MarkReturnFailed(ret)
        /\ UNCHANGED <<task, before, interfered, svc>>
    BY <1>12 DEF OverrideWriteFails, SysvServiceEnable
  <2>2. host' \in ServiceHost /\ host'.up = host.up /\ host'.status = host.status
        /\ host'.unit \in {host.unit, "known"} /\ host'.output = host.output
    BY <1>1, <1>12 DEF OverrideWriteFails, SysvServiceEnable, ServiceHost
  <2>3. ~interfered => host.up = before.up
    BY <2>1 DEF ServiceInv, AloneInv
  <2>4. ~interfered /\ AsWanted => host'.enabled = host.enabled
    <3>1. CASE SysvServiceEnable
      BY <1>1, <3>1 DEF SysvServiceEnable, ServiceHost
    <3>2. CASE OverrideWriteFails
      <4>1. host.enabled # Enable /\ task.enabled # "unset"
        BY <2>1, <3>2 DEF OverrideWriteFails, ServiceInv, ControlInv
      <4> QED BY <2>1, <4>1 DEF ServiceInv, AloneInv, AsWanted
    <3> QED BY <1>12, <3>1, <3>2
  <2> QED BY <2>1, <2>2, <2>3, <2>4, ServiceEnds
<1>13. CASE EnableCommand
  BY <1>5, <1>13 DEF EnableCommand
<1>14. CASE EnableCommandFails \/ ServiceLookupFails
  BY <1>2, <1>14 DEF EnableCommandFails, ServiceLookupFails
<1> QED BY <1>6, <1>7, <1>8, <1>9, <1>10, <1>11, <1>12, <1>13, <1>14

\* The state of the service is known, or known to be unknown.
LEMMA StatusKnown ==
  ASSUME IsService, ServiceInv, ("enabled" \in met => "enabled" \in met'),
         (pc # "stop" /\ "state" \in met => "state" \in met'),
         (task.state = "stopped") = (host.up # "up") => "state" \in met',
         pc = "state", Goto("decide"), svc' \in SvcRecord,
         svc'.action = svc.action, svc'.enableCmd = svc.enableCmd,
         \/ svc'.unseen
         \/ svc'.unseen = svc.unseen /\ (Tellable => svc'.running = YesNo(host.up = "up"))
  PROVE  ServiceInv'
<1> USE DEF ServiceInv
<1>1. pc' = "decide" /\ UNCHANGED <<task, host, before, ret, interfered>>
  BY DEF Goto
<1>2. (CanEnable' => CanEnable) /\ (Tellable' => Tellable) /\ (AsWanted' => AsWanted)
      /\ Enable' = Enable /\ IsService'
  BY <1>1 DEF CanEnable, Enable, IsService, AsWanted, Tellable
<1>3. Tellable' => svc'.running = YesNo(host.up = "up")
  BY <1>2 DEF Tellable
<1>4. ServiceType' /\ ControlInv'
  BY <1>1 DEF ServiceType, ControlInv, Controlling, ValidService
<1>5. MetInv'
  BY <1>1, <1>2, <1>3 DEF MetInv, Controlling, Succeeded, Done, YesNo
<1>6. AsWanted' => Tellable'
  BY DEF AsWanted
<1>7. AloneInv'
  BY <1>1, <1>2, <1>3, <1>6 DEF AloneInv, Controlling
<1>8. ServiceConverges' /\ BootSettingFirst'
  BY <1>1, <1>2 DEF ServiceConverges, BootSettingFirst, Succeeded, Done
<1> QED BY <1>4, <1>5, <1>7, <1>8

\* checkPs and getServiceStatus, whatever of them fails.
LEMMA StatusKeeps ==
  ASSUME IsService, ServiceInv, ("enabled" \in met => "enabled" \in met'),
         (pc # "stop" /\ "state" \in met => "state" \in met'),
         (task.state = "stopped") = (host'.up # "up") => "state" \in met',
         CheckPs \/ PsFails \/ GetServiceStatus \/ StatusUnclear \/ StatusFails
  PROVE  ServiceInv'
<1>1. svc \in SvcRecord /\ host.status = before.status /\ pc = "state"
  BY DEF ServiceInv, ServiceType, CheckPs, PsFails, GetServiceStatus, StatusUnclear, StatusFails
<1>2. CASE (Fail \/ Goto("crashed")) /\ UNCHANGED svc
  BY <1>1, <1>2, ServiceFails
<1>3. CASE Goto("decide") /\ svc' = [svc EXCEPT !.unseen = TRUE]
  <2>1. svc' \in SvcRecord /\ svc'.action = svc.action /\ svc'.enableCmd = svc.enableCmd
        /\ svc'.unseen
    BY <1>1, <1>3 DEF SvcRecord
  <2>2. host' = host
    BY <1>3 DEF Goto
  <2> QED BY <1>1, <1>3, <2>1, <2>2, StatusKnown
<1>4. CASE /\ Goto("decide")
           /\ \E b \in BOOLEAN, c \in BOOLEAN :
                /\ svc' = [svc EXCEPT !.running = YesNo(b), !.crashed = c]
                /\ Tellable => b = (host.up = "up")
  <2>1. PICK b \in BOOLEAN, c \in BOOLEAN :
               /\ svc' = [svc EXCEPT !.running = YesNo(b), !.crashed = c]
               /\ Tellable => b = (host.up = "up")
    BY <1>4
  <2>2. YesNo(b) \in {"yes", "no"}
    BY DEF YesNo
  <2>3. svc' \in SvcRecord /\ svc'.action = svc.action /\ svc'.enableCmd = svc.enableCmd
        /\ svc'.unseen = svc.unseen /\ svc'.running = YesNo(b)
    BY <1>1, <2>1, <2>2 DEF SvcRecord
  <2>4. host' = host
    BY <1>4 DEF Goto
  <2> QED BY <1>1, <1>4, <2>1, <2>3, <2>4, StatusKnown
<1>5. CASE CheckPs
  <2> DEFINE b == task.pattern = "loose" \/ host.up = "up"
  <2>1. Goto("decide") /\ svc' = [svc EXCEPT !.running = YesNo(b)]
    BY <1>5 DEF CheckPs, Answered
  <2>2. Tellable => b = (host.up = "up")
    BY DEF Tellable
  <2>3. svc' = [svc EXCEPT !.running = YesNo(b), !.crashed = svc.crashed] /\ svc.crashed \in BOOLEAN
    <3> HIDE DEF b
    <3> QED BY <1>1, <2>1 DEF SvcRecord
  <2> QED BY <1>4, <2>1, <2>2, <2>3
<1>6. CASE GetServiceStatus /\ ~(svc.svcCmd = "systemctl" \/ ~HasControl)
  <2> DEFINE b == IF svc.svcCmd = "rc-service" THEN host.up = "up" ELSE ~JobWaits /\ SaysUp(host)
             c == svc.svcCmd = "rc-service" /\ host.up = "crashed"
  <2>1. Goto("decide") /\ svc' = [svc EXCEPT !.running = YesNo(b), !.crashed = c]
    BY <1>6 DEF GetServiceStatus
  <2>2. b \in BOOLEAN /\ c \in BOOLEAN
    BY DEF SaysUp, JobWaits
  <2>3. Tellable => b = (host.up = "up")
    <3>1. Tellable => SaysUp(host) = (host.up = "up")
      BY <1>1 DEF Tellable, SaysUp
    <3>2. JobWaits => host.up # "up"
      BY DEF JobWaits
    <3> QED BY <3>1, <3>2
  <2> QED BY <1>4, <2>1, <2>2, <2>3
<1>7. CASE GetServiceStatus /\ (svc.svcCmd = "systemctl" \/ ~HasControl)
  BY <1>2, <1>7 DEF GetServiceStatus
<1>8. CASE PsFails \/ StatusUnclear \/ StatusFails
  BY <1>2, <1>3, <1>8 DEF PsFails, StatusUnclear, StatusFails
<1> QED BY <1>5, <1>6, <1>7, <1>8

\* What checkServiceChanged and modifyServiceState choose.
LEMMA Choices ==
  ASSUME task \in ServiceTasks, ValidService(task), task.state # "none",
         NEW r \in {"nil", "yes", "no"}
  PROVE  LET a == ActionFor(task.state, r) IN
         /\ a \in {"start", "stop", "reload", "restart"}
         /\ (a = "stop") <=> (task.state = "stopped")
         /\ a = "restart" => task.state = "restarted"
         /\ ~ServiceChanged(task.state, r) =>
              \/ task.state = "started" /\ r = "yes"
              \/ task.state = "stopped" /\ r # "yes"
<1>1. task.state \in {"started", "stopped", "reloaded", "restarted"}
  BY DEF ServiceTasks, ValidService
<1> QED BY <1>1 DEF ActionFor, ServiceChanged

\* checkServiceChanged and modifyServiceState.
LEMMA DecideKeeps ==
  ASSUME IsService, ServiceInv, ("enabled" \in met => "enabled" \in met'),
         (pc # "stop" /\ "state" \in met => "state" \in met'), Decide
  PROVE  ServiceInv'
<1> USE DEF ServiceInv
<1>1. pc = "decide" /\ UNCHANGED <<task, host, before, ret, interfered>>
  BY DEF Decide, Goto
<1>2. task \in ServiceTasks /\ ValidService(task) /\ task.state # "none" /\ svc.action = ""
      /\ ~ret.failed /\ svc \in SvcRecord /\ svc.running \in {"nil", "yes", "no"}
  BY <1>1 DEF ServiceType, ControlInv, Controlling, SvcRecord
<1>3. CASE ~ServiceChanged(task.state, svc.running)
  <2>1. pc' = "done" /\ svc' = svc
    BY <1>3 DEF Decide, Goto
  <2>2. AsWanted' = AsWanted /\ CanEnable' = CanEnable /\ Enable' = Enable /\ Tellable' = Tellable
        /\ IsService'
    BY <1>1, <2>1 DEF AsWanted, CanEnable, Enable, Tellable, IsService
  <2>3. Tellable => "state" \in met'
    BY <1>1, <1>2, <1>3, Choices DEF MetInv
  <2>4. ServiceType' /\ ControlInv'
    BY <1>1, <1>2, <2>1 DEF ServiceType, ControlInv, Controlling
  <2>5. MetInv' /\ AloneInv'
    BY <1>1, <2>1, <2>2, <2>3 DEF MetInv, AloneInv, Controlling, Succeeded, Done
  <2>6. ServiceConverges' /\ BootSettingFirst'
    BY <1>1, <2>1, <2>2, <2>3, <2>5 DEF MetInv, ServiceConverges, BootSettingFirst
  <2> QED BY <2>4, <2>5, <2>6
<1>4. CASE ServiceChanged(task.state, svc.running)
  <2> DEFINE a == ActionFor(task.state, svc.running)
  <2>1. svc' = [svc EXCEPT !.action = a]
        /\ pc' = IF a = "restart" /\ svc.svcCmd # "rc-service" THEN "stop" ELSE "control"
    BY <1>4 DEF Decide, Goto
  <2>2. a \in {"start", "stop", "reload", "restart"} /\ ((a = "stop") <=> (task.state = "stopped"))
        /\ (a = "restart" => task.state = "restarted")
    BY <1>2, Choices
  <2> HIDE DEF a
  <2>3. svc' \in SvcRecord /\ svc'.action = a /\ svc'.enableCmd = svc.enableCmd
        /\ svc'.unseen = svc.unseen
    BY <1>2, <2>1, <2>2 DEF SvcRecord
  <2>4. AsWanted' = AsWanted /\ CanEnable' = CanEnable /\ Enable' = Enable /\ Tellable' = Tellable
        /\ IsService'
    BY <1>1, <2>3 DEF AsWanted, CanEnable, Enable, Tellable, IsService
  <2>5. ~interfered => ~AsWanted
    <3> SUFFICES ASSUME ~interfered, AsWanted PROVE FALSE
      OBVIOUS
    <3>1. svc.running = YesNo(host.up = "up") /\ host.up = before.up
      BY <1>1 DEF AloneInv, ServiceConverges
    <3>2. task.state \in {"started", "stopped"} /\ ((task.state = "stopped") = (before.up # "up"))
      BY <1>2 DEF AsWanted
    <3> QED BY <1>4, <3>1, <3>2 DEF ServiceChanged, YesNo
  <2>6. ServiceType' /\ ControlInv'
    BY <1>1, <1>2, <2>1, <2>2, <2>3 DEF ServiceType, ControlInv, Controlling
  <2>7. MetInv' /\ AloneInv'
    BY <1>1, <2>1, <2>4, <2>5 DEF MetInv, AloneInv, Controlling, Succeeded, Done
  <2>8. ServiceConverges' /\ BootSettingFirst'
    BY <1>1, <2>1, <2>4, <2>5 DEF ServiceConverges, BootSettingFirst, Succeeded, Done
  <2> QED BY <2>6, <2>7, <2>8
<1> QED BY <1>3, <1>4

\* A control command is over; the last one left the service as asked for.
LEMMA Controls ==
  ASSUME IsService, ServiceInv, ("enabled" \in met => "enabled" \in met'),
         (pc # "stop" /\ "state" \in met => "state" \in met'),
         (task.state = "stopped") = (host'.up # "up") => "state" \in met',
         pc \in {"control", "stop", "start"},
         \/ pc' = "start" /\ task.state = "restarted"
         \/ /\ pc' \in {"done", "output"} /\ (task.state = "stopped") = (host'.up # "up")
            /\ host'.output = "held" => pc' = "output",
         pc' = "start" => host'.output # "held",
         UNCHANGED <<task, before, ret, interfered>>,
         host' \in ServiceHost, host'.status = host.status, host'.unit = host.unit,
         host'.enabled = host.enabled,
         svc' \in SvcRecord, svc'.enableCmd = svc.enableCmd, svc'.unseen = svc.unseen
  PROVE  ServiceInv'
<1> USE DEF ServiceInv
<1>1. ~ret.failed /\ ValidService(task) /\ task.state # "none"
  BY DEF ControlInv, Controlling
<1>2. AsWanted' = AsWanted /\ CanEnable' = CanEnable /\ Enable' = Enable /\ Tellable' = Tellable
      /\ IsService'
  BY DEF AsWanted, CanEnable, Enable, Tellable, IsService
<1>3. ~interfered => ~AsWanted
  BY DEF AloneInv
<1>4. ServiceType' /\ ControlInv'
  BY <1>1 DEF ServiceType, ControlInv, Controlling, ValidService
<1>5. MetInv'
  BY <1>2 DEF MetInv, Controlling, Succeeded, Done
<1>6. ~interfered /\ task.enabled # "unset" /\ CanEnable => host.enabled = Enable
  BY DEF AloneInv, Controlling
<1>7. AloneInv'
  BY <1>2, <1>3, <1>6 DEF AloneInv
<1>8. ServiceConverges' /\ BootSettingFirst'
  BY <1>2, <1>3, <1>5, <1>6 DEF MetInv, ServiceConverges, BootSettingFirst
<1> QED BY <1>4, <1>5, <1>7, <1>8

\* The control commands, and everything that can become of them.
LEMMA ControlKeeps ==
  ASSUME IsService, ServiceInv, ("enabled" \in met => "enabled" \in met'),
         (pc # "stop" /\ "state" \in met => "state" \in met'),
         (task.state = "stopped") = (host'.up # "up") => "state" \in met',
         \/ ControlCommand \/ ControlCommandFails \/ StopCommand \/ StopCommandFails
         \/ StartCommand \/ StartCommandFails \/ NoControl \/ ControlNotStarted
  PROVE  ServiceInv'
<1>1. host \in ServiceHost /\ svc \in SvcRecord /\ pc \in {"control", "stop", "start"}
      /\ host.output # "held"
  BY DEF ServiceInv, ServiceType, ControlInv, ControlCommand, ControlCommandFails, StopCommand,
         StopCommandFails, StartCommand, StartCommandFails, NoControl, ControlNotStarted
<1>2. CASE (Fail \/ Goto("crashed")) /\ UNCHANGED svc
  BY <1>1, <1>2, ServiceFails
<1>3. ASSUME NEW a, NEW l \in {"start", "done"}, pc \in {"control", "stop", "start"},
             l = "start" => task.state = "restarted" /\ a = "stop",
             l = "done" => a # "" /\ ((a = "stop") <=> (task.state = "stopped")),
             a \in {"start", "stop", "reload", "restart"},
             Control(a, l)
      PROVE  ServiceInv'
  <2>1. CASE Fail /\ UNCHANGED svc
    BY <1>2, <2>1
  <2>2. CASE /\ host' \in Controlled(host, a)
             /\ pc' = (IF host'.output = "held" THEN "output" ELSE l)
             /\ UNCHANGED <<task, before, ret, interfered>> /\ UNCHANGED svc
    <3>1. \/ /\ a \in {"start", "restart"}
             /\ host' = [host EXCEPT !.up = "up",
                                     !.output = IF host.output = "free" THEN host.output ELSE "held"]
          \/ a = "stop" /\ host' = [host EXCEPT !.up = "down"]
          \/ a \in {"start", "reload"} /\ host' = host /\ host.up = "up"
      BY <1>3, <2>2 DEF Controlled
    <3>2. host' \in ServiceHost /\ host'.status = host.status /\ host'.unit = host.unit
          /\ host'.enabled = host.enabled /\ ((host'.up # "up") <=> (a = "stop"))
          /\ (host'.output = "held" => a \in {"start", "restart"})
      BY <1>1, <3>1 DEF ServiceHost
    <3> QED BY <1>1, <1>3, <2>2, <3>2, Controls
  <2> QED BY <1>3, <2>1, <2>2 DEF Control
<1>4. CASE ControlCommand
  <2>1. pc = "control" /\ Control(svc.action, "done")
    BY <1>4 DEF ControlCommand
  <2>2. svc.action # "" /\ ((svc.action = "stop") <=> (task.state = "stopped"))
        /\ svc.action \in {"start", "stop", "reload", "restart"}
    BY <1>1, <2>1 DEF ServiceInv, ControlInv, SvcRecord
  <2> QED BY <1>3, <2>1, <2>2
<1>5. CASE StopCommand
  <2>1. pc = "stop" /\ Control("stop", "start") /\ task.state = "restarted"
    BY <1>5 DEF StopCommand, ServiceInv, ControlInv
  <2> QED BY <1>3, <2>1
<1>6. CASE StartCommand
  <2>1. pc = "start" /\ Control("start", "done") /\ task.state = "restarted"
    BY <1>6 DEF StartCommand, ServiceInv, ControlInv
  <2> QED BY <1>3, <2>1
<1>7. CASE StopCommandFails
  <2>1. pc = "stop" /\ pc' = "start" /\ UNCHANGED <<task, host, before, ret, interfered>>
        /\ task.state = "restarted" /\ svc' = [svc EXCEPT !.stopRc = 1]
    BY <1>7 DEF StopCommandFails, Goto, ServiceInv, ControlInv
  <2>2. svc' \in SvcRecord /\ svc'.enableCmd = svc.enableCmd /\ svc'.unseen = svc.unseen
    BY <1>1, <2>1 DEF SvcRecord
  <2> QED BY <1>1, <2>1, <2>2, Controls
<1>8. CASE /\ pc \in {"control", "start"} /\ host.up = "up" /\ Goto("done") /\ UNCHANGED svc
           /\ task.state # "stopped"
  <2>1. pc' = "done" /\ UNCHANGED <<task, host, before, ret, interfered>>
    BY <1>8 DEF Goto
  <2> QED BY <1>1, <1>8, <2>1, Controls
<1>9. CASE ControlCommandFails
  <2>1. CASE host.job /\ svc.action = "start" /\ host.up = "up" /\ Goto("done") /\ UNCHANGED svc
    BY <1>8, <1>9, <2>1 DEF ControlCommandFails, ServiceInv, ControlInv
  <2>2. CASE /\ svc.action = "restart" /\ host' = [host EXCEPT !.up = "down"]
             /\ ret' = MarkReturnFailed(ret) /\ pc' = "done"
             /\ UNCHANGED <<task, before, interfered, svc>>
    <3>1. pc = "control"
      BY <1>9 DEF ControlCommandFails
    <3>2. host' \in ServiceHost /\ host'.status = host.status /\ host'.unit = host.unit
          /\ host'.enabled = host.enabled /\ host'.output = host.output
      BY <1>1, <2>2 DEF ServiceHost
    <3>3. ~interfered => ~AsWanted
      BY <3>1 DEF ServiceInv, AloneInv
    <3>4. ~interfered /\ task.enabled # "unset" /\ CanEnable => host.enabled = Enable
      BY <3>1 DEF ServiceInv, AloneInv, Controlling
    <3> QED BY <2>2, <3>1, <3>2, <3>3, <3>4, ServiceEnds
  <2> QED BY <1>2, <1>9, <2>1, <2>2 DEF ControlCommandFails
<1>10. CASE StartCommandFails
  <2>1. pc = "start" /\ task.state # "stopped"
    BY <1>10 DEF StartCommandFails, ServiceInv, ControlInv
  <2> QED BY <1>2, <1>8, <1>10, <2>1 DEF StartCommandFails
<1>11. CASE NoControl \/ ControlNotStarted
  BY <1>2, <1>11 DEF NoControl, ControlNotStarted
<1> QED BY <1>4, <1>5, <1>6, <1>7, <1>9, <1>10, <1>11

\* The daemon that kept the output of a command is gone.
LEMMA OutputKeeps ==
  ASSUME IsService, ServiceInv, ("enabled" \in met => "enabled" \in met'),
         (pc # "stop" /\ "state" \in met => "state" \in met'),
         OutputClosed
  PROVE  ServiceInv'
<1> USE DEF ServiceInv
<1>1. pc = "output" /\ pc' = "done" /\ host.output # "held"
      /\ UNCHANGED <<task, host, before, ret, interfered, svc>>
  BY DEF OutputClosed, Goto
<1>2. AsWanted' = AsWanted /\ CanEnable' = CanEnable /\ Enable' = Enable /\ Tellable' = Tellable
      /\ IsService'
  BY <1>1 DEF AsWanted, CanEnable, Enable, Tellable, IsService
<1>3. ServiceType' /\ ControlInv'
  BY <1>1 DEF ServiceType, ControlInv, Controlling
<1>4. MetInv' /\ AloneInv'
  BY <1>1, <1>2 DEF MetInv, AloneInv, Controlling
<1>5. ServiceConverges' /\ BootSettingFirst'
  <2>1. task.state # "none" /\ ~(~interfered /\ AsWanted)
    BY <1>1 DEF ControlInv, Controlling, AloneInv
  <2> QED BY <1>1, <1>2, <1>4, <2>1 DEF MetInv, ServiceConverges, BootSettingFirst
<1> QED BY <1>3, <1>4, <1>5

\* The administrator's hand leaves nothing to promise about the host alone.
LEMMA AdminKeeps ==
  ASSUME IsService, ServiceInv, ("enabled" \in met => "enabled" \in met'),
         (pc # "stop" /\ "state" \in met => "state" \in met'), ServiceInterfere
  PROVE  ServiceInv'
<1> USE DEF ServiceInv
<1> DEFINE put(s) == [host EXCEPT !.up = s.up, !.enabled = s.enabled, !.output = s.output]
<1>1. PICK s \in [up: {"up", "down", "crashed"}, enabled: BOOLEAN, output: {host.output, "kept"}] :
             /\ s.output # host.output => host.output = "held"
             /\ put(s) \in ServiceHosts /\ host' = put(s)
  BY DEF ServiceInterfere, Interfere
<1>2. pc # "done" /\ interfered' = TRUE /\ UNCHANGED <<task, before, pc, ret, svc>>
  BY DEF ServiceInterfere, Interfere, Done
<1>3. host' \in ServiceHost
  BY <1>1 DEF ServiceHosts, ServiceHost
<1>4. host'.status = host.status /\ host'.unit = host.unit
      /\ (host'.output = "held" => host.output = "held")
  BY <1>1 DEF ServiceType, ServiceHost
<1>5. CanEnable' = CanEnable /\ Enable' = Enable /\ Tellable' = Tellable
  BY <1>2 DEF CanEnable, Enable, Tellable
<1>6. ServiceType' /\ ControlInv'
  BY <1>1, <1>2, <1>3, <1>4 DEF ServiceType, ControlInv
<1>7. MetInv' /\ AloneInv'
  BY <1>2, <1>5 DEF MetInv, AloneInv, Succeeded, Done
<1>8. ServiceConverges' /\ BootSettingFirst'
  BY <1>2 DEF ServiceConverges, BootSettingFirst, Succeeded, Done
<1> QED BY <1>6, <1>7, <1>8

\* Every step of a service task keeps its invariant.
LEMMA ServiceKeeps ==
  ASSUME IsService, ServiceInv, Remember, ServiceNext
  PROVE  ServiceInv' /\ IsService'
<1>1. task' = task
  BY DEF ServiceNext, ServiceStep, ServiceFault, ServiceParse, GetServiceTools, EnableUnknown,
         SystemdServiceEnable, InitctlServiceEnable, UpdateRcDServiceEnable, Defaults,
         InsservServiceEnable, SysvServiceEnable, EnableCommand, CheckPs, GetServiceStatus, Decide,
         ControlCommand, StopCommand, StartCommand, OutputClosed, NoControl, OverrideWriteFails, DryRunFails,
         EnableCommandFails, PsFails, StatusUnclear, StatusFails, ControlCommandFails,
         StopCommandFails, StartCommandFails, ControlNotStarted, ServiceLookupFails,
         ServiceInterfere, Interfere, Fail, Goto, Settled, SetEnabled, Answered, Control
<1>2. /\ "enabled" \in met => "enabled" \in met'
      /\ pc # "stop" /\ "state" \in met => "state" \in met'
      /\ (task.state = "stopped") = (host'.up # "up") => "state" \in met'
      /\ host'.enabled = Enable => "enabled" \in met'
  BY <1>1, MeetsService
<1>3. ServiceInv'
  BY <1>2, ToolsKeep, EnableKeeps, StatusKeeps, DecideKeeps, ControlKeeps, OutputKeeps,
     AdminKeeps
     DEF ServiceNext, ServiceStep, ServiceFault
<1> QED BY <1>1, <1>3 DEF IsService

\* A service task begins with the host as it is.
LEMMA ServiceBegins ==
  ASSUME ServiceInit
  PROVE  IsService /\ ServiceInv
<1>1. PICK t \in ServiceTasks : ExecuteModule(t, {h \in ServiceHosts : h.output # "held"})
  BY DEF ServiceInit
<1>2. task = t /\ host \in ServiceHosts /\ host.output # "held" /\ before = host /\ pc = "parse" /\ ret = NewReturn
      /\ interfered = FALSE /\ svc = Fresh
  BY <1>1 DEF ExecuteModule, ServiceInit
<1>3. IsService
  BY <1>2 DEF IsService, ServiceTasks
<1>4. host \in ServiceHost /\ svc \in SvcRecord
  <2>1. "" \in Commands
    BY DEF Commands
  <2> QED BY <1>2, <2>1 DEF ServiceHosts, ServiceHost, SvcRecord, Fresh
<1>5. ServiceType /\ ControlInv
  BY <1>2, <1>4, ReturnsTyped DEF ServiceType, ControlInv, Controlling, Fresh, NewReturn
<1>6. MetInv /\ AloneInv
  BY <1>2 DEF MetInv, AloneInv, Controlling, Succeeded, Done
<1>7. ServiceConverges /\ BootSettingFirst
  BY <1>2 DEF ServiceConverges, BootSettingFirst, Succeeded, Done, Fresh
<1> QED BY <1>3, <1>5, <1>6, <1>7 DEF ServiceInv

-----------------------------------------------------------------------------
(* Both.                                                                    *)

LEMMA Modules ==
  ~(IsService /\ IsGetUrl)
BY DEF IsService, IsGetUrl

\* Each module executes its own tasks.
LEMMA ServiceOnly ==
  ASSUME ServiceNext
  PROVE  IsService
BY DEF ServiceNext, ServiceStep, ServiceFault, ServiceParse, GetServiceTools, EnableUnknown,
       SystemdServiceEnable, InitctlServiceEnable, UpdateRcDServiceEnable, Defaults,
       InsservServiceEnable, SysvServiceEnable, EnableCommand, CheckPs, GetServiceStatus, Decide,
       ControlCommand, StopCommand, StartCommand, OutputClosed, NoControl, OverrideWriteFails, DryRunFails,
       EnableCommandFails, PsFails, StatusUnclear, StatusFails, ControlCommandFails,
       StopCommandFails, StartCommandFails, ControlNotStarted, ServiceLookupFails, ServiceInterfere

LEMMA GetUrlOnly ==
  ASSUME GetUrlNext
  PROVE  IsGetUrl
BY DEF GetUrlNext, GetUrlStep, GetUrlFault, GetUrlParse, HandleCheckSum, LookAtDest,
       HandleAuth, Request, Fetch, LookFails, NotModified, RequestFails, FetchFails, ServerSilent,
       CompareDigests, CompareFails, Backup, Move, MoveFails, Moved, Verify, Attributes,
       AttributesFail, ContextSpins, GetUrlInterfere

\* The inductive invariant holds of every task.
LEMMA SpecIInv ==
  Spec => []IInv
<1>1. Init => IInv
  BY DownloadInit, ServiceBegins DEF Init, IInv
<1>2. IInv /\ [Next]_vars => IInv'
  <2> SUFFICES ASSUME IInv, [Next]_vars PROVE IInv'
    OBVIOUS
  <2>1. CASE ServiceNext /\ Remember
    <3>1. IsService
      BY <2>1, ServiceOnly
    <3> QED BY <2>1, <3>1, Modules, ServiceKeeps DEF IInv
  <2>2. CASE GetUrlNext /\ Remember
    <3>1. IsGetUrl
      BY <2>2, GetUrlOnly
    <3>2. DownloadInv' /\ task' = task
      BY <2>2, <3>1, Modules, DownloadStep DEF IInv
    <3> QED BY <3>1, <3>2 DEF IInv, IsGetUrl
  <2>3. CASE UNCHANGED vars
    <3>1. UNCHANGED <<task, host, before, pc, ret, interfered, svc, lastMod, met>>
      BY <2>3 DEF vars, taskVars
    <3>2. DownloadInv' = DownloadInv
      BY <3>1 DEF DownloadInv, DownloadType, TmpInv, RetInv, DestInv, DownloadHonest, CleansUp, Done,
                  IsGetUrl, SafeMove
    <3>3. ServiceInv' = ServiceInv
      BY <3>1 DEF ServiceInv, ServiceType, ControlInv, MetInv, AloneInv, ServiceConverges,
                  BootSettingFirst, CanEnable, Succeeded, Done, Tellable, Enable, AsWanted, IsService
    <3> QED BY <3>1, <3>2, <3>3 DEF IInv, IsGetUrl, IsService
  <2> QED BY <2>1, <2>2, <2>3 DEF Next
<1> QED BY <1>1, <1>2, PTL DEF Spec

(***************************************************************************)
(* A service task that succeeds has seen or made what it was asked for,    *)
(* and one whose service is already as wanted leaves it alone (service.go, *)
(* Run): for every set of installations, every task and every host.        *)
(***************************************************************************)
THEOREM ServiceTruth == Spec => []ServiceConverges
<1>1. IInv => ServiceConverges
  <2>1. IsGetUrl /\ DownloadInv => ServiceConverges
    BY Modules DEF ServiceConverges, AsWanted
  <2> QED BY <2>1 DEF IInv, ServiceInv
<1> QED BY <1>1, SpecIInv, PTL

(***************************************************************************)
(* The service is not started, stopped or restarted before its boot        *)
(* setting is what the task says (service.go: serviceEnable comes first    *)
(* and its failure ends Run).                                              *)
(***************************************************************************)
THEOREM ServiceBootFirst == Spec => []BootSettingFirst
<1>1. IInv => BootSettingFirst
  BY Modules DEF IInv, ServiceInv, BootSettingFirst
<1> QED BY <1>1, SpecIInv, PTL

(***************************************************************************)
(* A download that succeeds has put the complete file in place, and one    *)
(* that fails and reports no change has not touched it (get_url.go, Run).  *)
(***************************************************************************)
THEOREM DownloadTruth == Spec => []DownloadHonest
<1>1. IInv => DownloadHonest
  BY Modules DEF IInv, DownloadInv, DownloadHonest
<1> QED BY <1>1, SpecIInv, PTL

(***************************************************************************)
(* What a finished download leaves behind (get_url.go: the deferred        *)
(* removals, and Close at the very end).                                   *)
(***************************************************************************)
THEOREM DownloadCleansUp == Spec => []CleansUp
<1>1. IInv => CleansUp
  BY Modules DEF IInv, DownloadInv, CleansUp
<1> QED BY <1>1, SpecIInv, PTL

-----------------------------------------------------------------------------
(* The refinement.                                                          *)

\* What a step of Run or of the administrator may do to the destination.
DestStep ==
  /\ host'.place = host.place
  /\ \/ host'.dest = host.dest
     \/ host.dest # "dir" /\ host'.dest \in {"other", "absent"}
     \/ host.dest # "dir" /\ Way = "rename" /\ host'.dest = "new"
     \/ host.dest # "dir" /\ Way = "write" /\ host'.dest = "empty"

\* The deferred removal of the source leaves the destination alone.
LEMMA RemovalFrame ==
  ASSUME NEW h \in FileHosts
  PROVE  RemoveSource(h).dest = h.dest /\ RemoveSource(h).place = h.place
BY DEF RemoveSource, FileHosts

\* Only AtomicMove and the administrator change the destination.
LEMMA StillSteps ==
  ASSUME IsGetUrl, DownloadInv,
         \/ GetUrlParse \/ HandleCheckSum \/ LookAtDest \/ HandleAuth \/ Request \/ Fetch
         \/ LookFails \/ NotModified \/ RequestFails \/ FetchFails \/ ServerSilent
         \/ CompareDigests \/ CompareFails \/ Backup \/ MoveFails \/ ContextSpins
         \/ Moved \/ Verify \/ Attributes \/ AttributesFail
  PROVE  host'.place = host.place /\ host'.dest = host.dest
<1>1. host \in FileHosts /\ task.owner \in BOOLEAN /\ task.tmpDest \in BOOLEAN
  BY DEF DownloadInv, DownloadType, GetUrlTasks
<1>2. ASSUME NEW h \in FileHosts, h.dest = host.dest, h.place = host.place,
             host' = h \/ FailMove(h) \/ FailLeaving(h) \/ \E l : MoveOn(h, l)
      PROVE  host'.place = host.place /\ host'.dest = host.dest
  BY <1>2, RemovalFrame DEF FailMove, FailLeaving, MoveOn
<1>3. CASE host' = host \/ FailMove(host) \/ Fail \/ \E l : Goto(l)
  BY <1>1, <1>2, <1>3 DEF Fail, Goto
<1>4. CASE GetUrlParse \/ HandleAuth \/ LookFails \/ NotModified \/ ServerSilent \/ CompareDigests
           \/ CompareFails \/ MoveFails \/ Moved \/ Verify
  BY <1>3, <1>4 DEF GetUrlParse, HandleAuth, LookFails, NotModified, ServerSilent, CompareDigests,
                    CompareFails, MoveFails, AtomicMoveFails, Moved, Verify
<1>5. CASE HandleCheckSum \/ Request \/ RequestFails
  <2> DEFINE d == TmpDir
             p == [TmpDir EXCEPT !.tmp = "part"]
  <2>1. d \in FileHosts /\ d.dest = host.dest /\ d.place = host.place
    BY <1>1 DEF TmpDir, FileHosts
  <2>2. p \in FileHosts /\ p.dest = host.dest /\ p.place = host.place
    BY <1>1 DEF TmpDir, FileHosts
  <2>3. Fail \/ (\E l : Goto(l)) \/ FailLeaving(d) \/ FailLeaving(p) \/ MoveOn(p, "fetch")
    BY <1>5 DEF HandleCheckSum, GetChecksumFromUrl, Request, RequestFails
  <2> HIDE DEF d, p
  <2> QED BY <1>2, <1>3, <2>1, <2>2, <2>3
<1>6. CASE Fetch \/ FetchFails
  <2> DEFINE n == [host EXCEPT !.tmp = "new"]
  <2>1. n \in FileHosts /\ n.dest = host.dest /\ n.place = host.place
    BY <1>1 DEF FileHosts
  <2>2. host' = n \/ FailMove(host) \/ FailLeaving(n)
    BY <1>6 DEF Fetch, FetchFails
  <2> HIDE DEF n
  <2> QED BY <1>2, <1>3, <2>1, <2>2
<1>7. CASE Backup
  <2> DEFINE b == [host EXCEPT !.backup = "empty"]
  <2>1. b \in FileHosts /\ b.dest = host.dest /\ b.place = host.place
    BY <1>1 DEF FileHosts
  <2>2. (\E l : Goto(l)) \/ FailMove(host) \/ FailMove(b) \/ MoveOn(b, "move")
    <3>1. CASE ~DestExists(host)
      BY <1>7, <3>1 DEF Backup
    <3>2. CASE FailMove(host)
      BY <3>2
    <3>3. CASE \E c \in Copy(host.dest) : MoveOn([host EXCEPT !.backup = c.content], "move")
                                          \/ FailMove([host EXCEPT !.backup = c.content])
      BY <3>3, CopyEmpties
    <3> QED BY <1>7, <3>1, <3>2, <3>3 DEF Backup, BackupLocal
  <2> HIDE DEF b
  <2> QED BY <1>2, <1>3, <2>1, <2>2
<1>8. CASE LookAtDest
  <2>1. CASE \E r \in SetFsAttributes(host, task.owner) : host' = r.host
    BY <1>1, <2>1, AttributesFrame
  <2> QED BY <1>3, <1>8, <2>1 DEF LookAtDest
<1>9. CASE Attributes
  <2>1. PICK r \in SetFsAttributes(host, task.owner) :
               host' = RemoveSource([r.host EXCEPT !.tmpDir = FALSE])
    BY <1>9 DEF Attributes
  <2> DEFINE k == [r.host EXCEPT !.tmpDir = FALSE]
  <2>2. r.host \in FileHosts /\ r.host.dest = host.dest /\ r.host.place = host.place
    BY <1>1, AttributesFrame
  <2>3. k \in FileHosts /\ k.dest = host.dest /\ k.place = host.place
    BY <2>2 DEF FileHosts
  <2> QED BY <2>1, <2>3, RemovalFrame
<1>10. CASE AttributesFail
  <2>1. PICK r \in SetFsAttributes(host, task.owner) : host' = RemoveSource(r.host)
    BY <1>10 DEF AttributesFail
  <2> QED BY <1>1, <2>1, AttributesFrame, RemovalFrame
<1>11. CASE ContextSpins
  BY <1>1, <1>2, <1>11 DEF ContextSpins, FindMountPoint
<1> QED BY <1>4, <1>5, <1>6, <1>7, <1>8, <1>9, <1>10, <1>11

\* AtomicMove replaces the destination by the complete file where the rename works,
\* and can only empty it where it does not.
LEMMA MoveSteps ==
  ASSUME IsGetUrl, DownloadInv, Move
  PROVE  DestStep
<1>1. host \in FileHosts /\ host.dest # "dir"
      /\ (pc \in {"workaround", "rename", "final", "cleanup"} => host.place \in Refused)
  BY DEF DownloadInv, DownloadType, DestInv, TmpInv, Moving, Move, AtomicMove
<1>2. ASSUME NEW h \in FileHosts, h.place = host.place, FailMove(h) \/ \E l : MoveOn(h, l),
             \/ h.dest = host.dest
             \/ Way = "rename" /\ h.dest = "new"
             \/ Way = "write" /\ h.dest = "empty"
      PROVE  DestStep
  BY <1>1, <1>2, RemovalFrame DEF FailMove, MoveOn, DestStep
<1>3. ASSUME NEW h \in FileHosts, h.place = host.place, h.dest = host.dest, task.unsafe,
             UnsafeCopy(h, "finish"), host.place \in Refused
      PROVE  DestStep
  <2> DEFINE k == [h EXCEPT !.dest = "empty"]
  <2>1. k \in FileHosts /\ k.dest = "empty" /\ k.place = host.place
    BY <1>3 DEF FileHosts
  <2>2. MoveOn(k, "finish") \/ FailMove(k) \/ FailMove(h)
    <3>1. CASE \E c \in Copy(h.tmp) : MoveOn([h EXCEPT !.dest = c.content], "finish")
                                      \/ FailMove([h EXCEPT !.dest = c.content])
      BY <3>1, CopyEmpties
    <3> QED BY <1>3, <3>1 DEF UnsafeCopy
  <2> HIDE DEF k
  <2>3. Way = "write"
    BY <1>3 DEF Way, SafeMove, Refused
  <2> QED BY <1>2, <1>3, <2>1, <2>2, <2>3
<1>4. CASE pc = "move"
  <2> DEFINE k == [host EXCEPT !.dest = host.tmp, !.tmp = "none",
                               !.owner = DestExists(host) /\ host.owner]
  <2>1. host.tmp = "new" /\ host.dest # "dir"
    BY <1>4 DEF DownloadInv, TmpInv, DestInv, Moving
  <2>2. k \in FileHosts /\ k.dest = "new" /\ k.place = host.place
    BY <1>1, <2>1 DEF FileHosts, DestExists
  <2>3. \/ MoveOn(k, "finish") /\ Way = "rename"
        \/ FailMove(host) \/ MoveOn(host, "workaround")
    BY <1>4 DEF Move, AtomicMove, RenameSource, Way
  <2> HIDE DEF k
  <2> QED BY <1>1, <1>2, <2>1, <2>2, <2>3
<1>5. CASE pc = "workaround"
  <2> DEFINE k == [host EXCEPT !.side = "empty"]
  <2>1. k \in FileHosts /\ k.dest = host.dest /\ k.place = host.place
    BY <1>1 DEF FileHosts
  <2>2. MoveOn(k, "rename") \/ FailMove(host) \/ (task.unsafe /\ UnsafeCopy(host, "finish"))
    BY <1>5 DEF Move, AtomicMove, TryRenameWorkarounds
  <2> HIDE DEF k
  <2> QED BY <1>1, <1>2, <1>3, <1>5, <2>1, <2>2
<1>6. CASE pc = "rename"
  <2> DEFINE k == [host EXCEPT !.side = host.tmp, !.tmp = "none"]
             e == [host EXCEPT !.dest = "empty"]
  <2>1. host.tmp = "new"
    BY <1>6 DEF DownloadInv, TmpInv
  <2>2. k \in FileHosts /\ k.dest = host.dest /\ k.place = host.place
    BY <1>1, <2>1 DEF FileHosts
  <2>3. e \in FileHosts /\ e.dest = "empty" /\ e.place = host.place
    BY <1>1 DEF FileHosts
  <2>4. \/ MoveOn(k, "final") \/ MoveOn(host, "cleanup")
        \/ host.place = "stuck" /\ \E l : MoveOn(e, l)
    <3>1. CASE /\ host.place = "stuck"
               /\ \E c \in Copy(host.tmp) : \E l : MoveOn([host EXCEPT !.dest = c.content], l)
      BY <3>1, CopyEmpties
    <3> QED BY <1>6, <3>1 DEF Move, AtomicMove, TryRenameWithTemp
  <2> HIDE DEF k, e
  <2>5. host.place = "stuck" => Way = "write"
    BY DEF Way, SafeMove, Refused
  <2> QED BY <1>1, <1>2, <2>2, <2>3, <2>4, <2>5
<1>7. CASE pc \in {"final", "finish"}
  <2>1. \E l : MoveOn(host, l)
    BY <1>7 DEF Move, AtomicMove, FinalRename, FindMountPoint
  <2> QED BY <1>1, <1>2, <2>1
<1>8. CASE pc = "cleanup"
  <2> DEFINE k == [host EXCEPT !.side = "none"]
  <2>1. k \in FileHosts /\ k.dest = host.dest /\ k.place = host.place
    BY <1>1 DEF FileHosts
  <2>2. (task.unsafe /\ UnsafeCopy(k, "finish")) \/ FailMove(k)
    BY <1>8 DEF Move, AtomicMove, CleanupSide
  <2> HIDE DEF k
  <2> QED BY <1>1, <1>2, <1>3, <1>8, <2>1, <2>2
<1> QED BY <1>4, <1>5, <1>6, <1>7, <1>8 DEF Move, AtomicMove

\* Every step of a download.
LEMMA DownloadSteps ==
  ASSUME IsGetUrl, DownloadInv, GetUrlNext
  PROVE  DestStep
<1>1. CASE GetUrlInterfere
  <2>1. host' \in {[host EXCEPT !.dest = "other"], [host EXCEPT !.dest = "absent"]}
        /\ host.dest # "dir" /\ host \in FileHosts
    BY <1>1 DEF GetUrlInterfere, Interfere, DownloadInv, DownloadType
  <2> QED BY <2>1 DEF DestStep, FileHosts
<1>2. CASE Move
  BY <1>2, MoveSteps
<1> QED BY <1>1, <1>2, StillSteps DEF GetUrlNext, GetUrlStep, GetUrlFault, DestStep

(***************************************************************************)
(* What AtomicMove does to a destination (gosible_module.go), for every    *)
(* task and host and with the remote program dying anywhere: one step from *)
(* the old content to the complete new one where the rename works; nothing *)
(* where it is refused, but for unsafe_writes and for a source that cannot *)
(* be moved, and these can only empty it.                                  *)
(***************************************************************************)
THEOREM DownloadReplaces == Spec => DestReplaced
<1>1. Init => Replacement!Init
  <2> SUFFICES ASSUME Init PROVE Replacement!Init
    OBVIOUS
  <2>1. CASE GetUrlInit
    <3>1. PICK t \in GetUrlTasks : ExecuteModule(t, GetUrlHosts(t))
      BY <2>1 DEF GetUrlInit
    <3>2. host.dest \in {"absent", "dir", "old", "new"}
      BY <3>1 DEF ExecuteModule, GetUrlHosts
    <3>3. Way \in {"rename", "write", "none"}
      BY DEF Way
    <3> QED BY <3>2, <3>3 DEF Replacement!Init
  <2>2. CASE ServiceInit
    <3>1. ~IsGetUrl
      BY <2>2, ServiceBegins, Modules
    <3> QED BY <3>1 DEF Replacement!Init
  <2> QED BY <2>1, <2>2 DEF Init
<1>2. IInv /\ [Next]_vars => [Replacement!Next]_(Replacement!absVars)
  <2> SUFFICES ASSUME IInv, [Next]_vars PROVE [Replacement!Next]_(Replacement!absVars)
    OBVIOUS
  <2>1. CASE GetUrlNext /\ Remember
    <3>1. IsGetUrl
      BY <2>1, GetUrlOnly
    <3>2. DownloadInv
      BY <3>1, Modules DEF IInv
    <3>3. task' = task /\ DestStep
      BY <2>1, <3>1, <3>2, DownloadStep, DownloadSteps
    <3>4. IsGetUrl' /\ Way' = Way
      BY <3>1, <3>3 DEF IsGetUrl, Way, SafeMove, DestStep
    <3> QED BY <3>1, <3>3, <3>4
            DEF DestStep, Replacement!Next, Replacement!absVars, Replacement!Replace,
                Replacement!Edit, Replacement!Empty
  <2>2. CASE ServiceNext /\ Remember
    <3>1. IsService
      BY <2>2, ServiceOnly
    <3>2. ~IsGetUrl /\ ~IsGetUrl'
      BY <2>2, <3>1, Modules, ServiceKeeps DEF IInv, IsGetUrl, IsService
    <3> QED BY <3>2 DEF Replacement!absVars
  <2>3. CASE UNCHANGED vars
    BY <2>3 DEF vars, taskVars, Replacement!absVars, IsGetUrl, Way, SafeMove
  <2> QED BY <2>1, <2>2, <2>3 DEF Next
<1> QED BY <1>1, <1>2, SpecIInv, PTL DEF Spec, DestReplaced, Replacement!Spec

=============================================================================
