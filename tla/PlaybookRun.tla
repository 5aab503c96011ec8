---------------------------- MODULE PlaybookRun ----------------------------
(***************************************************************************)
(* What running a playbook promises, without goroutines, channels or       *)
(* connections: plays run one after the other; inside a play every host    *)
(* works through the task list on its own, held back by the linear         *)
(* strategy until nobody is behind it; an erroneous host stops, and stops  *)
(* the playbook at the end of the play.  PlaybookExecutor is shown to      *)
(* implement this specification.                                           *)
(***************************************************************************)
EXTENDS Naturals, Sequences

CONSTANTS
    Hosts,      \* the hosts of the inventory
    Playbooks   \* the playbooks under consideration

VARIABLES
    pbook,      \* the playbook that was started
    playIdx,    \* index of the play being run
    done,       \* done[h]: how many tasks of this play h has completed
    failed,     \* hosts that returned an error in this play
    status      \* outcome of the whole run

absVars == <<pbook, playIdx, done, failed, status>>

Play == pbook[playIdx]

Init ==
    /\ pbook \in Playbooks
    /\ playIdx = 1
    /\ done = [h \in Hosts |-> 0]
    /\ failed = {}
    /\ status = IF pbook = <<>> THEN "ok" ELSE "running"

\* Under the linear strategy a host may only take its next task when no host
\* of the play is behind it.
MayAdvance(h) ==
    Play.strategy = "linear" => \A g \in Play.hosts : done[g] >= done[h]

Advance(h) ==
    /\ status = "running"
    /\ h \in Play.hosts \ failed
    /\ done[h] < Len(Play.tasks)
    /\ MayAdvance(h)
    /\ done' = [done EXCEPT ![h] = @ + 1]
    /\ UNCHANGED <<pbook, playIdx, failed, status>>

\* Only a host that still had a task to run can report an error.
Fail(h) ==
    /\ status = "running"
    /\ h \in Play.hosts \ failed
    /\ done[h] < Len(Play.tasks)
    /\ MayAdvance(h)
    /\ failed' = failed \cup {h}
    /\ UNCHANGED <<pbook, playIdx, done, status>>

\* The play succeeded on every host, and the next one (if any) begins.
NextPlay ==
    /\ status = "running"
    /\ failed = {}
    /\ \A h \in Play.hosts : done[h] = Len(Play.tasks)
    /\ playIdx' = playIdx + 1
    /\ done' = [h \in Hosts |-> 0]
    /\ status' = IF playIdx = Len(pbook) THEN "ok" ELSE "running"
    /\ UNCHANGED <<pbook, failed>>

\* Hosts that did not fail finish what they were given before the run ends:
\* the task the others failed on (linear), or the whole list (free).
NoHostInterrupted ==
    \A h \in Play.hosts \ failed :
        IF Play.strategy = "linear"
        THEN \A g \in failed : done[h] > done[g]
        ELSE done[h] = Len(Play.tasks)

Abort ==
    /\ status = "running"
    /\ \/ failed # {} /\ NoHostInterrupted
       \/ done = [h \in Hosts |-> 0] /\ failed = {}  \* the play never started
    /\ status' = "error"
    /\ UNCHANGED <<pbook, playIdx, done, failed>>

\* A panic in any goroutine ends the process, whatever the others are doing.
Panic ==
    /\ status = "running"
    /\ \E h \in Play.hosts : done[h] < Len(Play.tasks)
    /\ status' = "crashed"
    /\ UNCHANGED <<pbook, playIdx, done, failed>>

Next ==
    \/ \E h \in Hosts : Advance(h) \/ Fail(h)
    \/ NextPlay
    \/ Abort
    \/ Panic

Spec == Init /\ [][Next]_absVars
=============================================================================
