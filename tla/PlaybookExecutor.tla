------------------------- MODULE PlaybookExecutor -------------------------
(***************************************************************************)
(* executor/playbook_executor.go with utils/parallel and executor/conn:    *)
(* the main goroutine walks the plays and, for every batch of tasks, runs  *)
(* parallel.ForAll with one goroutine per host; each host goroutine runs   *)
(* its tasks over the connections of that host's connection manager.       *)
(*                                                                         *)
(* Results of templating, connecting and executing are chosen by the       *)
(* environment.  Meta tasks are left out: the playbook parser accepts no   *)
(* task whose action is "meta", so that branch is never entered.           *)
(***************************************************************************)
EXTENDS Naturals, Sequences, FiniteSets

CONSTANTS
    Hosts,      \* hosts of the inventory
    Users,      \* values of become_user
    Default,    \* stands for "no become": the manager's defaultConn
    Playbooks,  \* playbooks to run
    MaxItems    \* bound on the length of a loop

Principals == Users \cup {Default}

\* A task, as far as the executor looks at it: whom to become, whether it
\* loops, and whether its action is a local plugin or a remote module.
Task == [who : Principals, loop : BOOLEAN, plugin : BOOLEAN]
PlayRec == [strategy : {"linear", "free"}, hosts : SUBSET Hosts, tasks : Seq(Task)]

ASSUME ConstantAssumption ==
    /\ IsFiniteSet(Hosts)
    /\ Default \notin Users
    /\ MaxItems \in Nat
    /\ Playbooks \subseteq Seq(PlayRec)

VARIABLES
    \* main goroutine
    pbook,      \* the playbook being executed
    playIdx,    \* index of the current play
    pc,         \* "start", "batch", "forall", "closing", "end"
    first,      \* index of the first task of the current tasksExecutor
    status,     \* "running", "ok", "error", "crashed"
    \* parallel.ForAll
    ch,         \* hosts whose result sits in the buffered channel
    got,        \* hosts whose result combineErrors has received
    failed,     \* hosts whose result is an error
    \* host goroutines
    hpc,        \* where each host goroutine is
    task,       \* index of the task it is at
    nItems,     \* length of the list it loops over
    item,       \* index of its current loop item (0: before the first)
    env,        \* the "item" variable in the vars the action was given (0: unset)
    \* state shared between batches
    loopVar,    \* vars.Manager.hostLoopVars: the "item" variable of each host
    conn,       \* conn[h][p]: connection cached by the current manager of h
    leaked,     \* transports that no manager refers to any more, still open
    closers,    \* closing goroutines that have not returned, by host and user
    \* history
    done,       \* tasks each host has completed in this play
    dials,      \* dials[h][p]: connections created by the current manager
    failedAt    \* first task of this play whose result was a failure (0: none)

mainVars == <<pbook, playIdx, pc, first, status>>
forallVars == <<ch, got, failed>>
hostVars == <<hpc, task, nItems, item, env, loopVar>>
connVars == <<conn, leaked, closers, dials>>
histVars == <<done, failedAt>>
vars == <<mainVars, forallVars, hostVars, connVars, histVars>>

Play == pbook[playIdx]
NTasks == Len(Play.tasks)
TaskOf(h) == Play.tasks[task[h]]

\* Mutant: the strategy is ignored.
LastOfAll == NTasks

\* executeStrategy: one task per tasksExecutor (linear) or all of them (free).
Last == IF Play.strategy = "linear" THEN first ELSE NTasks

Working == {"banner", "connect", "loop", "item", "when", "action"}
InLoopBody == {"loop", "item", "when", "action"}
NoConn == [p \in Principals |-> "none"]

Init ==
    /\ pbook \in Playbooks
    /\ playIdx = 1
    /\ pc = IF pbook = <<>> THEN "end" ELSE "start"
    /\ status = IF pbook = <<>> THEN "ok" ELSE "running"
    /\ first = 1
    /\ ch = {} /\ got = {} /\ failed = {}
    /\ hpc = [h \in Hosts |-> "idle"]
    /\ task = [h \in Hosts |-> 1]
    /\ nItems = [h \in Hosts |-> 0]
    /\ item = [h \in Hosts |-> 0]
    /\ env = [h \in Hosts |-> 0]
    /\ loopVar = [h \in Hosts |-> 0]
    /\ conn = [h \in Hosts |-> NoConn]
    /\ leaked = {} /\ closers = {}
    /\ done = [h \in Hosts |-> 0]
    /\ dials = [h \in Hosts |-> [p \in Principals |-> 0]]
    /\ failedAt = [h \in Hosts |-> 0]

-----------------------------------------------------------------------------
(* The main goroutine.                                                      *)

\* playExecutor.execute up to executeStrategy: banner, hosts and one fresh
\* connection manager per host.
StartPlay ==
    /\ pc = "start"
    /\ pc' = "batch"
    /\ first' = 1
    /\ conn' = [h \in Hosts |-> NoConn]
    /\ dials' = [h \in Hosts |-> [p \in Principals |-> 0]]
    /\ UNCHANGED <<pbook, playIdx, status, forallVars, hostVars, leaked, closers, histVars>>

\* Mutant: the error is swallowed.
StartPlayFailsSilently ==
    /\ pc = "start"
    /\ pc' = "end"
    /\ status' = "ok"
    /\ UNCHANGED <<pbook, playIdx, first, forallVars, hostVars, connVars, histVars>>

\* Any of those three steps can fail before a connection exists: templating
\* the name, resolving the host pattern, collecting a host's variables.
StartPlayFails ==
    /\ pc = "start"
    /\ pc' = "end"
    /\ status' = "error"
    /\ UNCHANGED <<pbook, playIdx, first, forallVars, hostVars, connVars, histVars>>

\* tasksExecutor.execute: ForAll makes the channel and starts a goroutine per
\* host.  Without tasks the goroutines return at once.
StartBatch ==
    /\ pc = "batch"
    /\ Play.strategy = "linear" => first <= NTasks
    /\ pc' = "forall"
    /\ hpc' = [h \in Hosts |-> IF h \notin Play.hosts THEN "idle"
                               ELSE IF first <= Last THEN "banner" ELSE "returned"]
    /\ ch' = IF first <= Last THEN {} ELSE Play.hosts
    /\ got' = {}
    /\ task' = [h \in Hosts |-> first]
    /\ UNCHANGED <<pbook, playIdx, first, status, failed>>
    /\ UNCHANGED <<nItems, item, env, loopVar, connVars, histVars>>

\* Mutant: the managers of failed hosts are not closed.
ClosersOfOthers == {c \in (Hosts \ failed) \X Users : conn[c[1]][c[2]] = "open"}

\* CloseConnMgrs and Manager.Close: a goroutine per manager and one per entry of
\* its becomeConns at that moment; the default connection is not among them.
Closers == {c \in Hosts \X Users : conn[c[1]][c[2]] = "open"}

\* execute returns from executeStrategy: the deferred CloseConnMgrs begins.
LeaveStrategy == pc' = "closing" /\ closers' = Closers /\ UNCHANGED <<conn, leaked, dials>>

\* The linear strategy ran out of tasks: executeStrategy returns nil.
TasksExhausted ==
    /\ pc = "batch"
    /\ Play.strategy = "linear" /\ first > NTasks
    /\ LeaveStrategy
    /\ UNCHANGED <<pbook, playIdx, first, status, forallVars, hostVars, histVars>>

\* combineErrors receives one result.
Collect(h) ==
    /\ pc = "forall"
    /\ h \in ch
    /\ ch' = ch \ {h}
    /\ got' = got \cup {h}
    /\ UNCHANGED <<mainVars, failed, hostVars, connVars, histVars>>

AllReceived == Cardinality(got) = Cardinality(Play.hosts)

\* combineErrors has received count results; an error ends the play, no error
\* leads to the next task (linear) or the end of the play (free).
FinishBatch ==
    /\ pc = "forall"
    /\ AllReceived
    /\ IF failed = {} /\ Play.strategy = "linear"
       THEN pc' = "batch" /\ first' = first + 1 /\ UNCHANGED connVars
       ELSE LeaveStrategy /\ UNCHANGED first
    /\ UNCHANGED <<pbook, playIdx, status, forallVars, hostVars, histVars>>

\* A closing goroutine: ConnectionContext.Close, and its result is sent.
\* Whether that is an error makes no difference: execute has no named result to
\* store it in.
CloseConn(h, u) ==
    /\ pc = "closing"
    /\ <<h, u>> \in closers
    /\ closers' = closers \ {<<h, u>>}
    /\ conn' = [conn EXCEPT ![h][u] = "closed"]
    /\ UNCHANGED <<mainVars, forallVars, hostVars, leaked, dials, histVars>>

\* The connections that are still open when the managers are dropped.
Survivors ==
    {c \in [play : {playIdx}, host : Hosts, who : Principals, state : {"open"}] :
        conn[c.host][c.who] = "open"}

AtLastPlay == playIdx = Len(pbook)

\* The closing goroutines are joined and the managers are dropped.
EndPlay ==
    /\ pc = "closing"
    /\ closers = {}
    /\ leaked' = leaked \cup Survivors
    /\ IF failed = {}
       THEN /\ playIdx' = playIdx + 1
            /\ done' = [h \in Hosts |-> 0]
            /\ failedAt' = [h \in Hosts |-> 0]
            /\ IF AtLastPlay
               THEN pc' = "end" /\ status' = "ok"
               ELSE pc' = "start" /\ status' = "running"
       ELSE pc' = "end" /\ status' = "error" /\ UNCHANGED <<playIdx, histVars>>
    /\ UNCHANGED <<pbook, first, forallVars, hostVars, conn, closers, dials>>

-----------------------------------------------------------------------------
(* The goroutine of host h.                                                 *)

At(h, where) == status = "running" /\ h \in Play.hosts /\ hpc[h] = where

\* executeTasksOnHost goes on with the next task, or returns nil: the result
\* goes into the channel, which has room for every host.
FinishTask(h) ==
    /\ done' = [done EXCEPT ![h] = @ + 1]
    /\ task' = [task EXCEPT ![h] = @ + 1]
    /\ IF task[h] < Last
       THEN hpc' = [hpc EXCEPT ![h] = "banner"] /\ UNCHANGED ch
       ELSE hpc' = [hpc EXCEPT ![h] = "returned"] /\ ch' = ch \cup {h}

\* The task's error is returned at once.  If the loop had been entered, its
\* deferred ResetLoopContext clears the item.
FailTask(h) ==
    /\ failed' = failed \cup {h}
    /\ ch' = ch \cup {h}
    /\ hpc' = [hpc EXCEPT ![h] = "returned"]
    /\ loopVar' = IF TaskOf(h).loop /\ hpc[h] \in InLoopBody
                  THEN [loopVar EXCEPT ![h] = 0] ELSE loopVar
    /\ UNCHANGED <<mainVars, got, task, nItems, item, env, histVars>>

\* showTaskNameBanner: vars and name template are fine.
Banner(h) ==
    /\ At(h, "banner")
    /\ hpc' = [hpc EXCEPT ![h] = "connect"]
    /\ UNCHANGED <<mainVars, forallVars, task, nItems, item, env, loopVar, connVars, histVars>>

\* Collecting variables or templating fails in the banner, while preparing
\* the connection, in the loop expression, in the when conditions, or in the
\* arguments of a plugin.
TaskError(h) ==
    /\ \/ \E where \in {"banner", "connect", "loop", "when"} : At(h, where)
       \/ At(h, "action") /\ TaskOf(h).plugin
    /\ FailTask(h)
    /\ UNCHANGED connVars

AfterConnect(h) ==
    hpc' = [hpc EXCEPT ![h] = IF TaskOf(h).loop THEN "loop" ELSE "when"]

\* Mutant: any connection to the host will do.
ReuseAnyConn(h) ==
    /\ At(h, "connect")
    /\ \E p \in Principals : conn[h][p] # "none"
    /\ AfterConnect(h)
    /\ UNCHANGED <<mainVars, forallVars, task, nItems, item, env, loopVar, connVars, histVars>>

\* GetConnForTask finds a cached connection ...
ReuseConn(h) ==
    /\ At(h, "connect")
    /\ conn[h][TaskOf(h).who] # "none"
    /\ AfterConnect(h)
    /\ UNCHANGED <<mainVars, forallVars, task, nItems, item, env, loopVar, connVars, histVars>>

\* ... or creates one and caches it ...
CreateConn(h) ==
    /\ At(h, "connect")
    /\ conn[h][TaskOf(h).who] = "none"
    /\ conn' = [conn EXCEPT ![h][TaskOf(h).who] = "open"]
    /\ dials' = [dials EXCEPT ![h][TaskOf(h).who] = @ + 1]
    /\ AfterConnect(h)
    /\ UNCHANGED <<mainVars, forallVars, task, nItems, item, env, loopVar, leaked, closers, histVars>>

\* ... or fails: before the transport is up, or in remote.Execute, after which
\* the transport is neither closed nor remembered by the manager.
CreateConnFails(h) ==
    /\ At(h, "connect")
    /\ conn[h][TaskOf(h).who] = "none"
    /\ \/ UNCHANGED leaked
       \/ leaked' = leaked \cup {[play |-> playIdx, host |-> h,
                                 who |-> TaskOf(h).who, state |-> "half"]}
    /\ FailTask(h)
    /\ UNCHANGED <<conn, closers, dials>>

\* Nothing bounds the time a connection attempt takes (StartBecome waits for
\* a success marker without a deadline), so it may never return.
CreateConnHangs(h) ==
    /\ At(h, "connect")
    /\ conn[h][TaskOf(h).who] = "none"
    /\ hpc' = [hpc EXCEPT ![h] = "hung"]
    /\ UNCHANGED <<mainVars, forallVars, task, nItems, item, env, loopVar, connVars, histVars>>

\* runLoop: ResetLoopContext, then the loop items are computed.
EnterLoop(h) ==
    /\ At(h, "loop")
    /\ \E n \in 0..MaxItems : nItems' = [nItems EXCEPT ![h] = n]
    /\ item' = [item EXCEPT ![h] = 0]
    /\ loopVar' = [loopVar EXCEPT ![h] = 0]
    /\ hpc' = [hpc EXCEPT ![h] = "item"]
    /\ UNCHANGED <<mainVars, forallVars, task, env, connVars, histVars>>

\* SetLoopItem for the next item.
NextItem(h) ==
    /\ At(h, "item")
    /\ item[h] < nItems[h]
    /\ item' = [item EXCEPT ![h] = @ + 1]
    /\ loopVar' = [loopVar EXCEPT ![h] = item[h] + 1]
    /\ hpc' = [hpc EXCEPT ![h] = "when"]
    /\ UNCHANGED <<mainVars, forallVars, task, nItems, env, connVars, histVars>>

\* Mutant: the loop context is not reset.
LeaveLoopItemSet(h) ==
    /\ At(h, "item")
    /\ item[h] = nItems[h]
    /\ FinishTask(h)
    /\ UNCHANGED <<mainVars, got, failed, nItems, item, env, loopVar, connVars, failedAt>>

\* No items left: the deferred ResetLoopContext runs and the task is finished.
LeaveLoop(h) ==
    /\ At(h, "item")
    /\ item[h] = nItems[h]
    /\ loopVar' = [loopVar EXCEPT ![h] = 0]
    /\ FinishTask(h)
    /\ UNCHANGED <<mainVars, got, failed, nItems, item, env, connVars, failedAt>>

\* Mutant: the same item again.
AfterActionAgain(h) ==
    IF TaskOf(h).loop
    THEN hpc' = [hpc EXCEPT ![h] = "when"] /\ UNCHANGED <<task, ch, done>>
    ELSE FinishTask(h)

\* The end of executeActionIfWhenSatisfied: next item, or next task.
AfterAction(h) ==
    IF TaskOf(h).loop
    THEN hpc' = [hpc EXCEPT ![h] = "item"] /\ UNCHANGED <<task, ch, done>>
    ELSE FinishTask(h)

\* The variables are collected once and the conditions hold.
WhenSatisfied(h) ==
    /\ At(h, "when")
    /\ env' = [env EXCEPT ![h] = loopVar[h]]
    /\ hpc' = [hpc EXCEPT ![h] = "action"]
    /\ UNCHANGED <<mainVars, forallVars, task, nItems, item, loopVar, connVars, histVars>>

WhenNotSatisfied(h) ==
    /\ At(h, "when")
    /\ AfterAction(h)
    /\ UNCHANGED <<mainVars, got, failed, nItems, item, env, loopVar, connVars, failedAt>>

\* executeAction: the plugin ran, or the module was called.  Neither the error
\* of a module call nor a result marked as failed is looked at.
Execute(h) ==
    /\ At(h, "action")
    /\ \E ok \in BOOLEAN :
         failedAt' = IF ok \/ failedAt[h] # 0 THEN failedAt
                     ELSE [failedAt EXCEPT ![h] = task[h]]
    /\ AfterAction(h)
    /\ UNCHANGED <<mainVars, got, failed, nItems, item, env, loopVar, connVars>>

\* The result carries facts (set_fact, hostname): SaveFacts stores them in a
\* map that MakeManager never made, and the panic ends the process.
SaveFactsPanics(h) ==
    /\ At(h, "action")
    /\ status' = "crashed"
    /\ pc' = "end"
    /\ UNCHANGED <<pbook, playIdx, first, forallVars, hostVars, connVars, histVars>>

HostStep(h) ==
    \/ Banner(h) \/ TaskError(h)
    \/ ReuseConn(h) \/ CreateConn(h) \/ CreateConnFails(h) \/ CreateConnHangs(h)
    \/ EnterLoop(h) \/ NextItem(h) \/ LeaveLoop(h)
    \/ WhenSatisfied(h) \/ WhenNotSatisfied(h)
    \/ Execute(h) \/ SaveFactsPanics(h)

MainStep ==
    \/ StartPlay \/ StartPlayFails
    \/ StartBatch \/ TasksExhausted
    \/ \E h \in Hosts : Collect(h)
    \/ FinishBatch
    \/ \E h \in Hosts, u \in Users : CloseConn(h, u)
    \/ EndPlay

\* The process has ended, or waits for a goroutine that never returns.
Stopped ==
    /\ \/ pc = "end"
       \/ pc = "forall" /\ \E h \in Hosts : hpc[h] = "hung"
    /\ UNCHANGED vars

Next == MainStep \/ (\E h \in Hosts : HostStep(h)) \/ Stopped

Spec == Init /\ [][Next]_vars

\* Goroutines are scheduled; only a hanging connection attempt is not assumed
\* to end, and it is an outcome of its own above.
FairSpec == Spec /\ WF_vars(MainStep) /\ \A h \in Hosts : WF_vars(HostStep(h))

-----------------------------------------------------------------------------
(* Properties.                                                              *)

MainTypeOK ==
    /\ pbook \in Playbooks
    /\ playIdx \in 1..(Len(pbook) + 1)
    /\ pc \in {"start", "batch", "forall", "closing", "end"}
    /\ pc # "end" => playIdx <= Len(pbook)
    /\ pc = "end" <=> status # "running"
    /\ first \in Nat \ {0}
    /\ status \in {"running", "ok", "error", "crashed"}

ForAllTypeOK == ch \subseteq Hosts /\ got \subseteq Hosts /\ failed \subseteq Hosts

GoroutineTypeOK ==
    /\ hpc \in [Hosts -> Working \cup {"idle", "returned", "hung"}]
    /\ task \in [Hosts -> Nat \ {0}]

LoopTypeOK ==
    /\ nItems \in [Hosts -> 0..MaxItems]
    /\ item \in [Hosts -> 0..MaxItems]
    /\ env \in [Hosts -> 0..MaxItems]
    /\ loopVar \in [Hosts -> 0..MaxItems]

ConnTypeOK ==
    /\ conn \in [Hosts -> [Principals -> {"none", "open", "closed"}]]
    /\ dials \in [Hosts -> [Principals -> Nat]]
    /\ closers \subseteq Hosts \X Users
    /\ leaked \subseteq [play : Nat, host : Hosts, who : Principals, state : {"open", "half"}]

HistTypeOK == done \in [Hosts -> Nat] /\ failedAt \in [Hosts -> Nat]

\* Every variable stays in its set; in particular the play index stays inside
\* the playbook while there is something left to run.
TypeOK ==
    /\ MainTypeOK /\ ForAllTypeOK /\ GoroutineTypeOK
    /\ LoopTypeOK /\ ConnTypeOK /\ HistTypeOK

\* "Sync after each task" (executeStrategy): under the linear strategy no host
\* works on a task before every host of the play has completed all earlier
\* ones.
LinearBarrier ==
    pc # "end" /\ Play.strategy = "linear" =>
        \A h, g \in Play.hosts : hpc[h] \in Working => done[g] >= task[h] - 1

\* parallel.ForAll joins what it starts: outside the wait for its results no
\* host goroutine is left running (or hanging) that could use a manager while
\* it is closed or replaced.
ForAllJoins ==
    pc \in {"start", "batch", "closing"} =>
        \A h \in Hosts : hpc[h] \in {"idle", "returned"}

\* From setupConnection to the end of the task, the connection the task was
\* given is the one its become_user asked for, and it has not been closed.  A
\* manager never dials twice for the same user, however the tasks of its host
\* alternate between users.
ConnectionUsable ==
    /\ \A h \in Hosts :
        pc = "forall" /\ hpc[h] \in {"loop", "item", "when", "action"} =>
            conn[h][TaskOf(h).who] = "open"
    /\ \A h \in Hosts, p \in Principals : dials[h][p] <= 1

\* An action sees exactly the loop item of its own iteration: never the item
\* of an earlier loop, task or play, and none when the task does not loop.
OwnLoopItem ==
    \A h \in Hosts : pc = "forall" /\ hpc[h] = "action" =>
        env[h] = IF TaskOf(h).loop THEN item[h] ELSE 0

\* Nothing ever closes the default connection of a manager, nor a transport whose
\* remote.Execute failed, so a run leaves transports open; but only so many: of
\* every play that is over the default connections, never a become connection,
\* whenever and by whichever goroutine it was made; and of failed attempts one
\* for a host, because its goroutine makes no other, in the play that is the last.
LeaksBounded ==
    \A c \in leaked :
        \/ c.state = "half" /\ c.play = playIdx /\ c.host \in failed /\ hpc[c.host] = "returned"
        \/ c.state = "open" /\ c.who = Default /\ (c.play < playIdx \/ pc = "end")

\* The comment in executeTasksOnHost: "If a task fails, cease execution on the
\* host."  Once a task's result was a failure, the host works on no later one.
CeaseOnFailure ==
    \A h \in Hosts : pc = "forall" /\ hpc[h] \in Working /\ failedAt[h] # 0 =>
        task[h] = failedAt[h]

\* The goroutines, channels and connections implement the abstract run.
Run == INSTANCE PlaybookRun WITH
         Hosts <- Hosts, Playbooks <- Playbooks, pbook <- pbook, playIdx <- playIdx,
         done <- done, failed <- failed, status <- status
RefinesRun == Run!Spec

\* The playbook comes to an end unless a connection attempt hangs.  And then,
\* too, every host gets to the end of its batch whatever the other hosts do:
\* fail, or hang forever.  Only a panic takes it down with them.
EveryHostReturns ==
    /\ <>(pc = "end" \/ \E h \in Hosts : hpc[h] = "hung")
    /\ \A h \in Hosts :
        hpc[h] \in Working ~> hpc[h] \in {"returned", "hung"} \/ status = "crashed"
=============================================================================
