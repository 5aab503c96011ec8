--------------------------- MODULE RemoteExecute ---------------------------
(***************************************************************************)
(* remote.Execute and the start of the remote client: several controllers  *)
(* (or several inventory hosts that are one machine) install the client    *)
(* binary in the same directory of the same home and start it.  A          *)
(* connection with a become user goes through a fresh mktemp directory     *)
(* instead.  The client renames its own file once it runs.                 *)
(*                                                                         *)
(* All controllers run the same gosible, so they agree on the digest that  *)
(* names the directory.  A connection may be lost at any point.            *)
(***************************************************************************)
EXTENDS Naturals, FiniteSets

CONSTANTS
    Home,       \* connections without a become user
    Become      \* connections with one

ASSUME RemoteAssumption == IsFiniteSet(Home) /\ IsFiniteSet(Become) /\ Home \cap Become = {}

Conns == Home \cup Become

VARIABLES
    pc,         \* "gather", "send", "sending", "exec", "dial", "ready", "failed"
    why,        \* why Execute failed: "none", "lost", "exists", "noent", "timeout"
    path,       \* what sendToRemote returned: "none", "bin", "tmp", "own"
    tmp, bin,   \* the two files in the shared directory: "absent", "partial", "whole"
    own,        \* the file in each mktemp directory
    proc,       \* remote process: "none", "started", "serving"
    image       \* what the process was started from

vars == <<pc, why, path, tmp, bin, own, proc, image>>
files == <<tmp, bin, own>>
remote == <<proc, image>>

Init ==
    /\ pc = [c \in Conns |-> "gather"]
    /\ why = [c \in Conns |-> "none"]
    /\ path = [c \in Conns |-> "none"]
    /\ tmp = "absent" /\ bin = "absent"
    /\ own = [c \in Conns |-> "absent"]
    /\ proc = [c \in Conns |-> "none"]
    /\ image = [c \in Conns |-> "absent"]

Fail(c, reason) ==
    /\ pc' = [pc EXCEPT ![c] = "failed"]
    /\ why' = [why EXCEPT ![c] = reason]

-----------------------------------------------------------------------------
(* The controller.                                                          *)

\* Mutant: an upload under way counts as the runner.
GatherEither(c) ==
    /\ pc[c] = "gather" /\ c \in Home
    /\ IF bin # "absent" \/ tmp # "absent"
       THEN /\ pc' = [pc EXCEPT ![c] = "exec"]
            /\ path' = [path EXCEPT ![c] = "bin"]
       ELSE pc' = [pc EXCEPT ![c] = "send"] /\ UNCHANGED path
    /\ UNCHANGED <<why, files, remote>>

\* gatherSystemInfo: one shell command makes the directory and says whether the
\* runner is there; if so nothing is sent.
Gather(c) ==
    /\ pc[c] = "gather" /\ c \in Home
    /\ IF bin # "absent"
       THEN /\ pc' = [pc EXCEPT ![c] = "exec"]
            /\ path' = [path EXCEPT ![c] = "bin"]
       ELSE pc' = [pc EXCEPT ![c] = "send"] /\ UNCHANGED path
    /\ UNCHANGED <<why, files, remote>>

\* getDirPathLegacy: a directory nobody else has.
MakeDir(c) ==
    /\ pc[c] = "gather" /\ c \in Become
    /\ pc' = [pc EXCEPT ![c] = "send"]
    /\ UNCHANGED <<why, path, files, remote>>

\* SendFile creates the file ...
SendStarts(c) ==
    /\ pc[c] = "send"
    /\ IF c \in Become
       THEN own' = [own EXCEPT ![c] = "partial"] /\ UNCHANGED tmp
       ELSE tmp = "absent" /\ tmp' = "partial" /\ UNCHANGED own
    /\ pc' = [pc EXCEPT ![c] = "sending"]
    /\ UNCHANGED <<why, path, bin, remote>>

\* Mutant: the directory counts as the file.
SendBreaksAlways(c) ==
    /\ pc[c] = "send"
    /\ c \in Home
    /\ Fail(c, "exists")
    /\ UNCHANGED <<path, files, remote>>

\* ... and breaks when it already exists ...
SendBreaks(c) ==
    /\ pc[c] = "send"
    /\ c \in Home /\ tmp # "absent"
    /\ Fail(c, "exists")
    /\ UNCHANGED <<path, files, remote>>

\* ... or gets to the end of it.
SendEnds(c) ==
    /\ pc[c] = "sending"
    /\ IF c \in Become
       THEN own' = [own EXCEPT ![c] = "whole"] /\ UNCHANGED tmp
       ELSE tmp' = "whole" /\ UNCHANGED own
    /\ path' = [path EXCEPT ![c] = IF c \in Become THEN "own" ELSE "tmp"]
    /\ pc' = [pc EXCEPT ![c] = "exec"]
    /\ UNCHANGED <<why, bin, remote>>

FileAt(c) == IF path[c] = "own" THEN own[c] ELSE IF path[c] = "bin" THEN bin ELSE tmp

\* ExecInteractiveCommand starts the remote process from the path, if there is
\* such a file.
Exec(c) ==
    /\ pc[c] = "exec"
    /\ IF FileAt(c) = "absent"
       THEN Fail(c, "noent") /\ UNCHANGED remote
       ELSE /\ pc' = [pc EXCEPT ![c] = "dial"]
            /\ proc' = [proc EXCEPT ![c] = "started"]
            /\ image' = [image EXCEPT ![c] = FileAt(c)]
            /\ UNCHANGED why
    /\ UNCHANGED <<path, files>>

\* grpc.DialContext blocks until the server answers ...
Dial(c) ==
    /\ pc[c] = "dial"
    /\ proc[c] = "serving"
    /\ pc' = [pc EXCEPT ![c] = "ready"]
    /\ UNCHANGED <<why, path, files, remote>>

\* ... or grpcDialTimeout has passed; the remote process goes on.
DialTimeout(c) ==
    /\ pc[c] = "dial"
    /\ Fail(c, "timeout")
    /\ UNCHANGED <<path, files, remote>>

\* Mutant: sendToRemote ignores SendFile's error.
LostIgnored(c) ==
    /\ pc[c] = "sending"
    /\ pc' = [pc EXCEPT ![c] = "exec"]
    /\ path' = [path EXCEPT ![c] = IF c \in Become THEN "own" ELSE "tmp"]
    /\ UNCHANGED <<why, files, remote>>

\* The connection is lost before the process was started; an upload stays as
\* far as it got.
Lost(c) ==
    /\ pc[c] \in {"gather", "send", "sending", "exec"}
    /\ Fail(c, "lost")
    /\ UNCHANGED <<path, files, remote>>

-----------------------------------------------------------------------------
(* The remote process: main.                                                *)

\* Mutant: the name the process was started from is not looked at.
RenameSelfAlways(c) ==
    /\ proc[c] = "started"
    /\ IF path[c] # "own"
       THEN bin' = tmp /\ tmp' = "absent"
       ELSE UNCHANGED <<bin, tmp>>
    /\ proc' = [proc EXCEPT ![c] = "serving"]
    /\ UNCHANGED <<pc, why, path, own, image>>

\* renameSelf: a process started from the temporary name gives its file the
\* final one; then the server is set up.
RenameSelf(c) ==
    /\ proc[c] = "started"
    /\ IF path[c] = "tmp"
       THEN bin' = tmp /\ tmp' = "absent"
       ELSE UNCHANGED <<bin, tmp>>
    /\ proc' = [proc EXCEPT ![c] = "serving"]
    /\ UNCHANGED <<pc, why, path, own, image>>

\* Its error is ignored.
RenameFails(c) ==
    /\ proc[c] = "started"
    /\ path[c] = "tmp"
    /\ proc' = [proc EXCEPT ![c] = "serving"]
    /\ UNCHANGED <<pc, why, path, files, image>>

Controller(c) ==
    \/ Gather(c) \/ MakeDir(c) \/ SendStarts(c) \/ SendBreaks(c) \/ SendEnds(c)
    \/ Exec(c) \/ Dial(c)
Process(c) == RenameSelf(c) \/ RenameFails(c)
Fault(c) == DialTimeout(c) \/ Lost(c)

Settled ==
    /\ \A c \in Conns : pc[c] \in {"ready", "failed"} /\ proc[c] # "started"
    /\ UNCHANGED vars

Next == (\E c \in Conns : Controller(c) \/ Process(c) \/ Fault(c)) \/ Settled

Spec ==
    /\ Init /\ [][Next]_vars
    /\ \A c \in Conns : WF_vars(Controller(c)) /\ WF_vars(Process(c))

-----------------------------------------------------------------------------
(* Properties.                                                              *)

FileState == {"absent", "partial", "whole"}

TypeOK ==
    /\ pc \in [Conns -> {"gather", "send", "sending", "exec", "dial", "ready", "failed"}]
    /\ why \in [Conns -> {"none", "lost", "exists", "noent", "timeout"}]
    /\ path \in [Conns -> {"none", "bin", "tmp", "own"}]
    /\ tmp \in FileState /\ bin \in FileState /\ own \in [Conns -> FileState]
    /\ proc \in [Conns -> {"none", "started", "serving"}]
    /\ image \in [Conns -> FileState]
    /\ \A c \in Conns : pc[c] = "failed" <=> why[c] # "none"

\* Whoever is interrupted while uploading, nobody ever runs a truncated client,
\* and the final name, which later runs trust without a check, never shows one.
NeverPartial ==
    /\ bin # "partial"
    /\ \A c \in Conns : proc[c] # "none" => image[c] = "whole"

\* The path sendToRemote returned is still there when it is executed: no
\* renameSelf of another client takes away a file that was just uploaded, and a
\* runner that was seen stays.
PathStays == \A c \in Conns : why[c] # "noent"

\* At most one connection at a time owns the temporary name, from creating the
\* file to renaming it: what RenameSelf renames is the file it was started from.
Owns(c) ==
    \/ pc[c] = "sending"
    \/ pc[c] = "exec" /\ path[c] = "tmp"
    \/ proc[c] = "started" /\ path[c] = "tmp"
OneOwner == \A c, d \in Home : Owns(c) /\ Owns(d) => c = d

\* Connections with a become user fail only with their connection.
BecomeIndependent == \A c \in Become : why[c] \in {"none", "lost", "timeout"}

\* The installed client is never lost again.
InstalledForGood == [][bin = "whole" => bin' = "whole"]_vars

\* Unless a connection is lost before its client runs, somebody gets to serve:
\* concurrent uploads that break one another cannot make all of them fail.
SomebodyServes ==
    Home # {} => <>(\E c \in Home : why[c] = "lost" \/ proc[c] = "serving")
=============================================================================
