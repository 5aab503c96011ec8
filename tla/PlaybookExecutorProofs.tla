---------------------- MODULE PlaybookExecutorProofs ----------------------
(***************************************************************************)
(* For every inventory, playbook and loop bound: the executor is type      *)
(* correct, ForAll joins its goroutines, the linear strategy is a barrier, *)
(* the executor implements PlaybookRun, and a task has the connection of   *)
(* its user, the item of its iteration and nothing that outlives its play. *)
(***************************************************************************)
EXTENDS PlaybookExecutor, FiniteSetTheorems, TLAPS

\* Bounds of the batch a tasksExecutor was given.
BatchInv ==
    /\ pc = "batch" /\ Play.strategy = "free" => first = 1
    /\ pc = "batch" => first <= NTasks + 1
    /\ pc = "forall" /\ Play.strategy = "linear" => first <= NTasks
    /\ pc = "forall" /\ Play.strategy = "free" => first = 1

\* Which goroutines are where, and what ForAll knows about them.
JoinInv ==
    /\ pc = "forall" =>
        /\ ch \subseteq Play.hosts
        /\ got \subseteq Play.hosts
        /\ \A h \in Hosts : h \in ch \cup got => hpc[h] = "returned"
        /\ \A h \in Hosts : h \in failed => hpc[h] = "returned"
        /\ \A h \in Hosts : h \notin Play.hosts => hpc[h] = "idle"
        /\ \A h \in Play.hosts : hpc[h] # "idle"
    /\ ForAllJoins

\* How far every host of the play has come, in each phase of the main
\* goroutine.
HostProgress(h) ==
    /\ pc = "batch" => done[h] = first - 1
    /\ pc = "forall" /\ (hpc[h] # "returned" \/ h \in failed) =>
            task[h] \in first..Last /\ done[h] = task[h] - 1
    /\ pc = "forall" /\ hpc[h] = "returned" /\ h \notin failed => done[h] = Last
    /\ pc = "closing" /\ Play.strategy = "linear" /\ failed # {} =>
            done[h] = IF h \in failed THEN first - 1 ELSE first
    /\ pc = "closing" /\ (Play.strategy = "free" \/ failed = {}) /\ h \notin failed =>
            done[h] = NTasks

ProgressInv ==
    /\ pc \in {"start", "batch"} => failed = {}
    /\ pc = "start" => done = [h \in Hosts |-> 0]
    /\ pc # "end" => failed \subseteq Play.hosts
    /\ pc # "end" => \A h \in Play.hosts : HostProgress(h)

IInv == TypeOK /\ BatchInv /\ JoinInv /\ ProgressInv

-----------------------------------------------------------------------------
\* While a play is being run, it is one of the plays of the playbook.
LEMMA PlayTyped ==
    ASSUME TypeOK, pc # "end"
    PROVE  /\ Play \in PlayRec
           /\ NTasks \in Nat
           /\ Play.strategy \in {"linear", "free"}
           /\ Play.hosts \subseteq Hosts
           /\ IsFiniteSet(Play.hosts)
<1>1. pbook \in Seq(PlayRec)
  BY ConstantAssumption DEF TypeOK, MainTypeOK
<1>2. playIdx \in 1..Len(pbook)
  BY <1>1 DEF TypeOK, MainTypeOK
<1>3. Play \in PlayRec
  BY <1>1, <1>2 DEF Play
<1>4. Play.tasks \in Seq(Task) /\ Play.hosts \subseteq Hosts /\ Play.strategy \in {"linear", "free"}
  BY <1>3 DEF PlayRec
<1>5. NTasks \in Nat
  BY <1>4 DEF NTasks
<1>6. IsFiniteSet(Play.hosts)
  BY <1>4, ConstantAssumption, FS_Subset
<1> QED BY <1>3, <1>4, <1>5, <1>6

\* A host goroutine that has not returned is at a task of the play.
LEMMA TaskTyped ==
    ASSUME IInv, NEW h \in Hosts, pc = "forall", h \in Play.hosts, hpc[h] # "returned"
    PROVE  /\ task[h] \in 1..NTasks
           /\ TaskOf(h) \in Task
           /\ TaskOf(h).who \in Principals
           /\ TaskOf(h).loop \in BOOLEAN
<1>1. Play \in PlayRec /\ NTasks \in Nat /\ Play.strategy \in {"linear", "free"}
  BY PlayTyped DEF IInv
<1>2. task[h] \in first..Last /\ first \in Nat \ {0}
  BY DEF IInv, ProgressInv, HostProgress, TypeOK, MainTypeOK
<1>3. Last <= NTasks /\ Last \in Nat
  BY <1>1, <1>2 DEF IInv, BatchInv, Last
<1>4. task[h] \in 1..NTasks
  BY <1>1, <1>2, <1>3
<1>5. Play.tasks \in Seq(Task)
  BY <1>1 DEF PlayRec
<1>6. TaskOf(h) \in Task
  BY <1>4, <1>5 DEF TaskOf, NTasks
<1> QED BY <1>4, <1>6 DEF Task

\* A host goroutine moves only while the main goroutine waits in ForAll.
LEMMA HostMoves ==
    ASSUME IInv, NEW h \in Hosts, NEW where \in Working, At(h, where)
    PROVE  pc = "forall" /\ h \in Play.hosts /\ hpc[h] = where /\ h \notin failed
<1>1. pc # "end"
  BY DEF IInv, TypeOK, MainTypeOK, At
<1>2. where # "idle" /\ where # "returned"
  BY DEF Working
<1>3. pc = "forall"
  BY <1>1, <1>2 DEF IInv, TypeOK, MainTypeOK, JoinInv, ForAllJoins, At
<1> QED BY <1>2, <1>3 DEF IInv, JoinInv, At

-----------------------------------------------------------------------------
(* Three ways a step of a host goroutine changes what the invariant talks   *)
(* about: it moves on inside a task, it finishes a task, or it fails.       *)

Quiet(h) ==
    /\ \E x \in Working \cup {"hung"} : hpc' = [hpc EXCEPT ![h] = x]
    /\ UNCHANGED <<mainVars, forallVars, task, done>>

ControlInv == BatchInv /\ JoinInv /\ ProgressInv

\* A step inside a task disturbs neither the batch nor anyone's progress.
LEMMA QuietStep ==
    ASSUME IInv, NEW h \in Hosts, NEW where \in Working, At(h, where), Quiet(h)
    PROVE  ControlInv'
<1>1. pc = "forall" /\ h \in Play.hosts /\ hpc[h] = where /\ h \notin failed
  BY HostMoves
<1>2. /\ Play' = Play /\ NTasks' = NTasks /\ Last' = Last /\ pc' = pc /\ first' = first
      /\ ch' = ch /\ got' = got /\ failed' = failed /\ task' = task /\ done' = done
  BY DEF Quiet, mainVars, forallVars, Play, NTasks, Last
<1>3. PICK x \in Working \cup {"hung"} : hpc' = [hpc EXCEPT ![h] = x]
  BY DEF Quiet
<1>4. where # "returned" /\ where # "idle" /\ x # "returned" /\ x # "idle"
  BY DEF Working
<1>5. \A g \in Hosts : hpc'[g] = IF g = h THEN x ELSE hpc[g]
  BY <1>3 DEF IInv, TypeOK, GoroutineTypeOK
<1>6. BatchInv'
  BY <1>2 DEF IInv, BatchInv
<1>7. JoinInv'
  <2>1. Play.hosts \subseteq Hosts
    BY <1>1, PlayTyped DEF IInv
  <2> QED BY <1>1, <1>2, <1>4, <1>5, <2>1 DEF IInv, JoinInv, ForAllJoins
<1>8. \A g \in Play.hosts : HostProgress(g)'
  <2> SUFFICES ASSUME NEW g \in Play.hosts PROVE HostProgress(g)'
    OBVIOUS
  <2>1. g \in Hosts
    BY <1>1, PlayTyped DEF IInv
  <2>2. HostProgress(g)
    BY <1>1 DEF IInv, ProgressInv
  <2> QED BY <1>1, <1>2, <1>4, <1>5, <2>1, <2>2 DEF HostProgress
<1>9. ProgressInv'
  BY <1>1, <1>2, <1>8 DEF IInv, ProgressInv
<1> QED BY <1>6, <1>7, <1>9 DEF ControlInv

\* Completing a task moves the host to its next task or into the channel, in
\* both cases with exactly the tasks before it completed.
LEMMA FinishStep ==
    ASSUME IInv, NEW h \in Hosts, NEW where \in Working, At(h, where),
           FinishTask(h), UNCHANGED <<mainVars, got, failed>>
    PROVE  ControlInv'
<1>1. pc = "forall" /\ h \in Play.hosts /\ hpc[h] = where /\ h \notin failed
  BY HostMoves
<1>2. /\ Play' = Play /\ NTasks' = NTasks /\ Last' = Last /\ pc' = pc /\ first' = first
      /\ got' = got /\ failed' = failed
  BY DEF mainVars, Play, NTasks, Last
<1>3. where # "returned" /\ where # "idle"
  BY DEF Working
<1>4. task[h] \in first..Last /\ done[h] = task[h] - 1
  BY <1>1, <1>3 DEF IInv, ProgressInv, HostProgress
<1>5. \A g \in Hosts : /\ g # h => done'[g] = done[g] /\ task'[g] = task[g] /\ hpc'[g] = hpc[g]
                       /\ done'[h] = done[h] + 1 /\ task'[h] = task[h] + 1
  BY DEF IInv, TypeOK, GoroutineTypeOK, HistTypeOK, FinishTask
<1>6. \/ task[h] < Last /\ hpc'[h] = "banner" /\ ch' = ch
      \/ ~(task[h] < Last) /\ hpc'[h] = "returned" /\ ch' = ch \cup {h}
  BY DEF IInv, TypeOK, GoroutineTypeOK, HistTypeOK, FinishTask
<1>7. first \in Nat /\ task[h] \in Nat /\ done[h] \in Nat /\ NTasks \in Nat
      /\ Play.strategy \in {"linear", "free"} /\ Play.hosts \subseteq Hosts
  BY <1>1, PlayTyped DEF IInv, TypeOK, MainTypeOK, GoroutineTypeOK, HistTypeOK
<1>8. Last \in Nat
  BY <1>7 DEF Last
<1>9. BatchInv'
  BY <1>2 DEF IInv, BatchInv
<1>10. JoinInv'
  BY <1>1, <1>2, <1>3, <1>5, <1>6, <1>7 DEF IInv, JoinInv, ForAllJoins
<1>11. \A g \in Play.hosts : HostProgress(g)'
  <2> SUFFICES ASSUME NEW g \in Play.hosts PROVE HostProgress(g)'
    OBVIOUS
  <2>1. g \in Hosts /\ HostProgress(g)
    BY <1>1, <1>7 DEF IInv, ProgressInv
  <2>2. CASE g = h
    <3>1. CASE task[h] < Last
      BY <1>1, <1>2, <1>4, <1>5, <1>6, <1>7, <1>8, <2>2, <3>1 DEF HostProgress
    <3>2. CASE ~(task[h] < Last)
      BY <1>1, <1>2, <1>4, <1>5, <1>6, <1>7, <1>8, <2>2, <3>2 DEF HostProgress
    <3> QED BY <3>1, <3>2
  <2>3. CASE g # h
    BY <1>1, <1>2, <1>5, <2>1, <2>3 DEF HostProgress
  <2> QED BY <2>2, <2>3
<1>12. ProgressInv'
  BY <1>1, <1>2, <1>11 DEF IInv, ProgressInv
<1> QED BY <1>9, <1>10, <1>12 DEF ControlInv

\* A failing host goes into the channel and keeps its position.
LEMMA FailStep ==
    ASSUME IInv, NEW h \in Hosts, NEW where \in Working, At(h, where), FailTask(h)
    PROVE  ControlInv'
<1>1. pc = "forall" /\ h \in Play.hosts /\ hpc[h] = where /\ h \notin failed
  BY HostMoves
<1>2. /\ Play' = Play /\ NTasks' = NTasks /\ Last' = Last /\ pc' = pc /\ first' = first
      /\ got' = got /\ failed' = failed \cup {h} /\ ch' = ch \cup {h}
      /\ task' = task /\ done' = done
  BY DEF FailTask, mainVars, histVars, Play, NTasks, Last
<1>3. where # "returned" /\ where # "idle"
  BY DEF Working
<1>4. \A g \in Hosts : hpc'[g] = IF g = h THEN "returned" ELSE hpc[g]
  BY DEF IInv, TypeOK, GoroutineTypeOK, FailTask
<1>5. Play.hosts \subseteq Hosts
  BY <1>1, PlayTyped DEF IInv
<1>6. BatchInv'
  BY <1>2 DEF IInv, BatchInv
<1>7. JoinInv'
  BY <1>1, <1>2, <1>4, <1>5 DEF IInv, JoinInv, ForAllJoins
<1>8. \A g \in Play.hosts : HostProgress(g)'
  <2> SUFFICES ASSUME NEW g \in Play.hosts PROVE HostProgress(g)'
    OBVIOUS
  <2>1. g \in Hosts /\ HostProgress(g)
    BY <1>1, <1>5 DEF IInv, ProgressInv
  <2> QED BY <1>1, <1>2, <1>3, <1>4, <2>1 DEF HostProgress
<1>9. ProgressInv'
  BY <1>1, <1>2, <1>8 DEF IInv, ProgressInv
<1> QED BY <1>6, <1>7, <1>9 DEF ControlInv

-----------------------------------------------------------------------------
\* Initially no play has begun.
LEMMA InitIInv == Init => IInv
<1> SUFFICES ASSUME Init PROVE IInv
  OBVIOUS
<1>1. pbook \in Seq(PlayRec) /\ Len(pbook) \in Nat
  BY ConstantAssumption DEF Init
<1>2. pbook # <<>> => Len(pbook) >= 1
  BY <1>1
<1>3. MainTypeOK
  BY <1>1, <1>2 DEF Init, MainTypeOK
<1>4. ForAllTypeOK /\ GoroutineTypeOK /\ LoopTypeOK /\ HistTypeOK
  BY ConstantAssumption DEF Init, ForAllTypeOK, GoroutineTypeOK, LoopTypeOK, HistTypeOK
<1>5. ConnTypeOK
  BY DEF Init, ConnTypeOK, NoConn
<1>6. BatchInv
  BY DEF Init, BatchInv
<1>7. JoinInv
  BY DEF Init, JoinInv, ForAllJoins
<1>8. ProgressInv
  BY DEF Init, ProgressInv, HostProgress
<1> QED BY <1>3, <1>4, <1>5, <1>6, <1>7, <1>8 DEF IInv, TypeOK

\* Every step keeps every variable in its set; the only subtle ones index the
\* task list, which TaskTyped justifies.
LEMMA HostStepType ==
    ASSUME IInv, NEW h \in Hosts, HostStep(h)
    PROVE  TypeOK'
<1> USE DEF mainVars, forallVars, hostVars, connVars, histVars
<1>1. ASSUME UNCHANGED mainVars PROVE MainTypeOK'
  BY <1>1 DEF IInv, TypeOK, MainTypeOK
<1>2. ASSUME FailTask(h) PROVE ForAllTypeOK' /\ GoroutineTypeOK' /\ LoopTypeOK' /\ HistTypeOK'
  <2>1. ForAllTypeOK' /\ GoroutineTypeOK' /\ HistTypeOK'
    BY <1>2 DEF IInv, TypeOK, FailTask, ForAllTypeOK, GoroutineTypeOK, HistTypeOK
  <2>2. LoopTypeOK'
    BY <1>2, ConstantAssumption DEF IInv, TypeOK, FailTask, LoopTypeOK
  <2> QED BY <2>1, <2>2
<1>3. ASSUME FinishTask(h), UNCHANGED <<got, failed>>
      PROVE  ForAllTypeOK' /\ GoroutineTypeOK' /\ done' \in [Hosts -> Nat]
  <2>1. ForAllTypeOK'
    BY <1>3 DEF IInv, TypeOK, FinishTask, ForAllTypeOK
  <2>2. hpc' \in [Hosts -> Working \cup {"idle", "returned", "hung"}]
    BY <1>3 DEF IInv, TypeOK, FinishTask, GoroutineTypeOK, Working
  <2>3. task' \in [Hosts -> Nat \ {0}]
    BY <1>3 DEF IInv, TypeOK, FinishTask, GoroutineTypeOK
  <2>4. done' \in [Hosts -> Nat]
    BY <1>3 DEF IInv, TypeOK, FinishTask, HistTypeOK
  <2> QED BY <2>1, <2>2, <2>3, <2>4 DEF GoroutineTypeOK
<1>4. ASSUME AfterAction(h), UNCHANGED <<got, failed>>
      PROVE  ForAllTypeOK' /\ GoroutineTypeOK' /\ done' \in [Hosts -> Nat]
  <2>1. CASE TaskOf(h).loop
    BY <1>4, <2>1 DEF IInv, TypeOK, AfterAction, ForAllTypeOK, GoroutineTypeOK, HistTypeOK, Working
  <2>2. CASE ~TaskOf(h).loop
    BY <1>3, <1>4, <2>2 DEF AfterAction
  <2> QED BY <2>1, <2>2
<1>5. ASSUME UNCHANGED connVars PROVE ConnTypeOK'
  BY <1>5 DEF IInv, TypeOK, ConnTypeOK
<1>6. ASSUME UNCHANGED <<nItems, item, env, loopVar>> PROVE LoopTypeOK'
  BY <1>6 DEF IInv, TypeOK, LoopTypeOK
<1>7. ASSUME UNCHANGED <<forallVars, task, histVars>>,
             NEW x \in Working \cup {"hung"}, hpc' = [hpc EXCEPT ![h] = x]
      PROVE  ForAllTypeOK' /\ GoroutineTypeOK' /\ HistTypeOK'
  BY <1>7 DEF IInv, TypeOK, ForAllTypeOK, GoroutineTypeOK, HistTypeOK
<1>8. CASE Banner(h)
  BY <1>1, <1>5, <1>6, <1>7, <1>8 DEF Banner, Working, TypeOK
<1>9. CASE TaskError(h)
  BY <1>1, <1>2, <1>5, <1>9 DEF TaskError, FailTask, TypeOK
<1>10. CASE ReuseConn(h)
  BY <1>1, <1>5, <1>6, <1>7, <1>10 DEF ReuseConn, AfterConnect, Working, TypeOK
<1>11. CASE CreateConn(h)
  <2>1. ConnTypeOK'
    <3> DEFINE p == TaskOf(h).who
    <3>1. p \in Principals
      BY <1>11, HostMoves, TaskTyped DEF CreateConn, Working
    <3>2. conn' = [conn EXCEPT ![h][p] = "open"] /\ dials' = [dials EXCEPT ![h][p] = @ + 1]
          /\ UNCHANGED <<leaked, closers>>
      BY <1>11 DEF CreateConn
    <3> HIDE DEF p
    <3> QED BY <3>1, <3>2 DEF IInv, TypeOK, ConnTypeOK
  <2> QED BY <1>1, <1>6, <1>7, <1>11, <2>1 DEF CreateConn, AfterConnect, Working, TypeOK
<1>12. CASE CreateConnFails(h)
  <2>1. TaskOf(h).who \in Principals
    BY <1>12, HostMoves, TaskTyped DEF CreateConnFails, Working
  <2>2. playIdx \in Nat
    BY <1>12 DEF IInv, TypeOK, MainTypeOK
  <2>3. ConnTypeOK'
    BY <1>12, <2>1, <2>2 DEF IInv, TypeOK, ConnTypeOK, CreateConnFails
  <2> QED BY <1>1, <1>2, <1>12, <2>3 DEF CreateConnFails, FailTask, TypeOK
<1>13. CASE CreateConnHangs(h)
  BY <1>1, <1>5, <1>6, <1>7, <1>13 DEF CreateConnHangs, TypeOK
<1>14. CASE EnterLoop(h)
  <2>1. LoopTypeOK'
    BY <1>14, ConstantAssumption DEF IInv, TypeOK, LoopTypeOK, EnterLoop
  <2> QED BY <1>1, <1>5, <1>7, <1>14, <2>1 DEF EnterLoop, Working, TypeOK
<1>15. CASE NextItem(h)
  <2>1. LoopTypeOK'
    BY <1>15, ConstantAssumption DEF IInv, TypeOK, LoopTypeOK, NextItem
  <2> QED BY <1>1, <1>5, <1>7, <1>15, <2>1 DEF NextItem, Working, TypeOK
<1>16. CASE LeaveLoop(h)
  <2>1. LoopTypeOK'
    BY <1>16, ConstantAssumption DEF IInv, TypeOK, LoopTypeOK, LeaveLoop
  <2>2. HistTypeOK'
    BY <1>3, <1>16 DEF IInv, TypeOK, HistTypeOK, LeaveLoop
  <2> QED BY <1>1, <1>3, <1>5, <1>16, <2>1, <2>2 DEF LeaveLoop, TypeOK
<1>17. CASE WhenSatisfied(h)
  <2>1. LoopTypeOK'
    BY <1>17 DEF IInv, TypeOK, LoopTypeOK, WhenSatisfied
  <2> QED BY <1>1, <1>5, <1>7, <1>17, <2>1 DEF WhenSatisfied, Working, TypeOK
<1>18. CASE WhenNotSatisfied(h)
  <2>1. HistTypeOK'
    BY <1>4, <1>18 DEF IInv, TypeOK, HistTypeOK, WhenNotSatisfied
  <2> QED BY <1>1, <1>4, <1>5, <1>6, <1>18, <2>1 DEF WhenNotSatisfied, TypeOK
<1>19. CASE Execute(h)
  <2>1. failedAt' \in [Hosts -> Nat]
    BY <1>19 DEF IInv, TypeOK, GoroutineTypeOK, HistTypeOK, Execute
  <2>2. HistTypeOK'
    BY <1>4, <1>19, <2>1 DEF HistTypeOK, Execute
  <2> QED BY <1>1, <1>4, <1>5, <1>6, <1>19, <2>2 DEF Execute, TypeOK
<1>20. CASE SaveFactsPanics(h)
  <2>1. MainTypeOK'
    BY <1>20 DEF IInv, TypeOK, MainTypeOK, SaveFactsPanics
  <2>2. ForAllTypeOK' /\ GoroutineTypeOK' /\ HistTypeOK'
    BY <1>20 DEF IInv, TypeOK, ForAllTypeOK, GoroutineTypeOK, HistTypeOK, SaveFactsPanics
  <2> QED BY <1>5, <1>6, <1>20, <2>1, <2>2 DEF SaveFactsPanics, TypeOK
<1> QED BY <1>8, <1>9, <1>10, <1>11, <1>12, <1>13, <1>14, <1>15, <1>16, <1>17, <1>18, <1>19, <1>20
        DEF HostStep

\* Every step of a host goroutine is of one of the three kinds above, except
\* the panic, after which the main goroutine is gone.
LEMMA HostStepControl ==
    ASSUME IInv, NEW h \in Hosts, HostStep(h)
    PROVE  ControlInv'
<1> USE DEF mainVars, forallVars, hostVars, connVars, histVars
<1>1. CASE Banner(h) \/ ReuseConn(h) \/ CreateConn(h) \/ CreateConnHangs(h)
  <2>1. At(h, "banner") \/ At(h, "connect")
    BY <1>1 DEF Banner, ReuseConn, CreateConn, CreateConnHangs
  <2>2. Quiet(h)
    BY <1>1 DEF Banner, ReuseConn, CreateConn, CreateConnHangs, AfterConnect, Quiet, Working
  <2> QED BY <2>1, <2>2, QuietStep DEF Working
<1>2. CASE EnterLoop(h) \/ NextItem(h) \/ WhenSatisfied(h)
  <2>1. At(h, "loop") \/ At(h, "item") \/ At(h, "when")
    BY <1>2 DEF EnterLoop, NextItem, WhenSatisfied
  <2>2. Quiet(h)
    BY <1>2 DEF EnterLoop, NextItem, WhenSatisfied, Quiet, Working
  <2> QED BY <2>1, <2>2, QuietStep DEF Working
<1>3. CASE TaskError(h) \/ CreateConnFails(h)
  <2>1. PICK where \in Working : At(h, where)
    BY <1>3 DEF TaskError, CreateConnFails, Working
  <2> QED BY <1>3, <2>1, FailStep DEF TaskError, CreateConnFails
<1>4. CASE LeaveLoop(h)
  BY <1>4, FinishStep DEF LeaveLoop, Working
<1>5. CASE WhenNotSatisfied(h) \/ Execute(h)
  <2>1. PICK where \in Working : At(h, where)
    BY <1>5 DEF WhenNotSatisfied, Execute, Working
  <2>2. AfterAction(h) /\ UNCHANGED <<mainVars, got, failed>>
    BY <1>5 DEF WhenNotSatisfied, Execute
  <2>3. CASE TaskOf(h).loop
    <3>1. Quiet(h)
      BY <2>2, <2>3 DEF AfterAction, Quiet, Working
    <3> QED BY <2>1, <3>1, QuietStep
  <2>4. CASE ~TaskOf(h).loop
    BY <2>1, <2>2, <2>4, FinishStep DEF AfterAction
  <2> QED BY <2>3, <2>4
<1>6. CASE SaveFactsPanics(h)
  BY <1>6 DEF SaveFactsPanics, ControlInv, BatchInv, JoinInv, ForAllJoins, ProgressInv
<1> QED BY <1>1, <1>2, <1>3, <1>4, <1>5, <1>6 DEF HostStep

\* The main goroutine's steps keep the types.
LEMMA MainStepType ==
    ASSUME IInv, MainStep
    PROVE  TypeOK'
<1> USE DEF mainVars, forallVars, hostVars, connVars, histVars
<1>1. pbook \in Seq(PlayRec) /\ Len(pbook) \in Nat
  BY ConstantAssumption DEF IInv, TypeOK, MainTypeOK
<1>2. ASSUME UNCHANGED forallVars PROVE ForAllTypeOK'
  BY <1>2 DEF IInv, TypeOK, ForAllTypeOK
<1>3. ASSUME UNCHANGED hostVars PROVE GoroutineTypeOK' /\ LoopTypeOK'
  BY <1>3 DEF IInv, TypeOK, GoroutineTypeOK, LoopTypeOK
<1>4. ASSUME UNCHANGED connVars PROVE ConnTypeOK'
  BY <1>4 DEF IInv, TypeOK, ConnTypeOK
<1>5. ASSUME UNCHANGED histVars PROVE HistTypeOK'
  BY <1>5 DEF IInv, TypeOK, HistTypeOK
<1>14. ASSUME LeaveStrategy PROVE ConnTypeOK'
  BY <1>14 DEF IInv, TypeOK, ConnTypeOK, LeaveStrategy, Closers
<1>6. CASE StartPlay
  <2>1. MainTypeOK'
    BY <1>6 DEF IInv, TypeOK, MainTypeOK, StartPlay
  <2>2. ConnTypeOK'
    BY <1>6 DEF IInv, TypeOK, ConnTypeOK, StartPlay, NoConn
  <2> QED BY <1>2, <1>3, <1>5, <1>6, <2>1, <2>2 DEF StartPlay, TypeOK
<1>7. CASE StartPlayFails
  <2>1. MainTypeOK'
    BY <1>7 DEF IInv, TypeOK, MainTypeOK, StartPlayFails
  <2> QED BY <1>2, <1>3, <1>4, <1>5, <1>7, <2>1 DEF StartPlayFails, TypeOK
<1>8. CASE StartBatch
  <2>1. MainTypeOK'
    BY <1>8 DEF IInv, TypeOK, MainTypeOK, StartBatch
  <2>2. Play.hosts \subseteq Hosts
    BY <1>8, PlayTyped DEF IInv, StartBatch
  <2>3. ForAllTypeOK'
    BY <1>8, <2>2 DEF IInv, TypeOK, ForAllTypeOK, StartBatch
  <2>4. GoroutineTypeOK'
    BY <1>8 DEF IInv, TypeOK, MainTypeOK, GoroutineTypeOK, StartBatch, Working
  <2>5. LoopTypeOK'
    BY <1>8 DEF IInv, TypeOK, LoopTypeOK, StartBatch
  <2> QED BY <1>4, <1>5, <1>8, <2>1, <2>3, <2>4, <2>5 DEF StartBatch, TypeOK
<1>9. CASE TasksExhausted
  <2>1. MainTypeOK'
    BY <1>9 DEF IInv, TypeOK, MainTypeOK, TasksExhausted, LeaveStrategy
  <2> QED BY <1>2, <1>3, <1>5, <1>9, <1>14, <2>1 DEF TasksExhausted, TypeOK
<1>10. ASSUME NEW h \in Hosts, Collect(h) PROVE TypeOK'
  <2>1. MainTypeOK' /\ ForAllTypeOK'
    BY <1>10 DEF IInv, TypeOK, MainTypeOK, ForAllTypeOK, Collect
  <2> QED BY <1>3, <1>4, <1>5, <1>10, <2>1 DEF Collect, TypeOK
<1>11. CASE FinishBatch
  <2>1. MainTypeOK'
    BY <1>11 DEF IInv, TypeOK, MainTypeOK, FinishBatch, LeaveStrategy
  <2> QED BY <1>2, <1>3, <1>4, <1>5, <1>11, <1>14, <2>1 DEF FinishBatch, TypeOK
<1>12. ASSUME NEW h \in Hosts, NEW u \in Users, CloseConn(h, u) PROVE TypeOK'
  <2>1. MainTypeOK'
    BY <1>12 DEF IInv, TypeOK, MainTypeOK, CloseConn
  <2>2. ConnTypeOK'
    BY <1>12 DEF IInv, TypeOK, ConnTypeOK, CloseConn, Principals
  <2> QED BY <1>2, <1>3, <1>5, <1>12, <2>1, <2>2 DEF CloseConn, TypeOK
<1>13. CASE EndPlay
  <2>1. MainTypeOK'
    BY <1>1, <1>13 DEF IInv, TypeOK, MainTypeOK, EndPlay, AtLastPlay
  <2>2. playIdx \in Nat
    BY <1>1 DEF IInv, TypeOK, MainTypeOK
  <2>3. ConnTypeOK'
    BY <1>13, <2>2 DEF IInv, TypeOK, ConnTypeOK, EndPlay, Survivors
  <2>4. HistTypeOK'
    BY <1>13 DEF IInv, TypeOK, HistTypeOK, EndPlay
  <2> QED BY <1>2, <1>3, <1>13, <2>1, <2>3, <2>4 DEF EndPlay, TypeOK
<1> QED BY <1>6, <1>7, <1>8, <1>9, <1>10, <1>11, <1>12, <1>13 DEF MainStep

\* When combineErrors has counted to the number of hosts it has heard from
\* every one of them.
LEMMA AllCollected ==
    ASSUME IInv, pc = "forall", Cardinality(got) = Cardinality(Play.hosts)
    PROVE  got = Play.hosts /\ \A h \in Play.hosts : hpc[h] = "returned"
<1>1. got \subseteq Play.hosts /\ IsFiniteSet(Play.hosts) /\ Play.hosts \subseteq Hosts
  BY PlayTyped DEF IInv, JoinInv
<1>2. got = Play.hosts
  BY <1>1, FS_Subset
<1> QED BY <1>1, <1>2 DEF IInv, JoinInv

\* The main goroutine's steps keep the control part of the invariant.
LEMMA MainStepControl ==
    ASSUME IInv, MainStep
    PROVE  ControlInv'
<1> USE DEF mainVars, forallVars, hostVars, connVars, histVars
<1>1. pc # "end"
  BY DEF MainStep, StartPlay, StartPlayFails, StartBatch, TasksExhausted, LeaveStrategy, Collect,
         FinishBatch, CloseConn, EndPlay
<1>2. /\ NTasks \in Nat /\ Play.strategy \in {"linear", "free"} /\ first \in Nat \ {0}
      /\ Play.hosts \subseteq Hosts /\ done \in [Hosts -> Nat] /\ failed \subseteq Play.hosts
  BY <1>1, PlayTyped DEF IInv, TypeOK, MainTypeOK, HistTypeOK, ProgressInv
<1>3. CASE StartPlay
  <2>1. Play' = Play /\ NTasks' = NTasks
    BY <1>3 DEF StartPlay, Play, NTasks
  <2>2. BatchInv' /\ JoinInv'
    BY <1>2, <1>3, <2>1 DEF IInv, JoinInv, ForAllJoins, BatchInv, StartPlay
  <2>3. ProgressInv'
    BY <1>2, <1>3, <2>1 DEF IInv, ProgressInv, HostProgress, StartPlay
  <2> QED BY <2>2, <2>3 DEF ControlInv
<1>4. CASE StartPlayFails
  BY <1>4 DEF StartPlayFails, ControlInv, BatchInv, JoinInv, ForAllJoins, ProgressInv
<1>5. CASE StartBatch
  <2>1. Play' = Play /\ NTasks' = NTasks /\ Last' = Last /\ pc = "batch" /\ pc' = "forall"
        /\ first' = first /\ done' = done /\ failed' = failed /\ failed = {}
    BY <1>5 DEF StartBatch, Play, NTasks, Last, IInv, ProgressInv
  <2>2. BatchInv'
    BY <1>5, <2>1 DEF IInv, BatchInv, StartBatch
  <2>3. JoinInv'
    <3>1. \A h \in Hosts : hpc'[h] = IF h \notin Play.hosts THEN "idle"
                                    ELSE IF first <= Last THEN "banner" ELSE "returned"
      BY <1>5 DEF StartBatch
    <3>2. got' = {} /\ ch' = IF first <= Last THEN {} ELSE Play.hosts
      BY <1>5 DEF StartBatch
    <3>3. \A h \in Hosts : h \in ch' \cup got' => hpc'[h] = "returned"
      BY <3>1, <3>2
    <3> QED BY <1>2, <2>1, <3>1, <3>2, <3>3 DEF JoinInv, ForAllJoins
  <2>4. \A h \in Play.hosts : HostProgress(h)'
    <3> SUFFICES ASSUME NEW h \in Play.hosts PROVE HostProgress(h)'
      OBVIOUS
    <3>1. h \in Hosts /\ done[h] = first - 1 /\ task'[h] = first
      BY <1>2, <1>5, <2>1 DEF IInv, ProgressInv, HostProgress, StartBatch
    <3>2. CASE first <= Last
      BY <1>2, <1>5, <2>1, <3>1, <3>2 DEF HostProgress, StartBatch, Last
    <3>3. CASE ~(first <= Last)
      <4>1. Play.strategy = "free" /\ first = 1 /\ Last = 0
        BY <1>2, <2>1, <3>3 DEF Last, IInv, BatchInv
      <4> QED BY <1>2, <1>5, <2>1, <3>1, <3>3, <4>1 DEF HostProgress, StartBatch
    <3> QED BY <3>2, <3>3
  <2>5. ProgressInv'
    BY <1>2, <2>1, <2>4 DEF IInv, ProgressInv
  <2> QED BY <2>2, <2>3, <2>5 DEF ControlInv
<1>6. CASE TasksExhausted
  <2>1. Play' = Play /\ NTasks' = NTasks /\ pc = "batch" /\ pc' = "closing" /\ failed = {}
        /\ failed' = failed /\ hpc' = hpc /\ done' = done /\ first' = first
    BY <1>6 DEF TasksExhausted, LeaveStrategy, Play, NTasks, IInv, ProgressInv
  <2>2. first = NTasks + 1
    BY <1>2, <1>6 DEF IInv, BatchInv, TasksExhausted, LeaveStrategy
  <2>3. BatchInv' /\ JoinInv'
    BY <2>1 DEF IInv, JoinInv, ForAllJoins, BatchInv
  <2>4. \A h \in Play.hosts : done[h] = NTasks
    BY <1>2, <2>1, <2>2 DEF IInv, ProgressInv, HostProgress
  <2>5. ProgressInv'
    BY <1>2, <2>1, <2>4 DEF ProgressInv, HostProgress
  <2> QED BY <2>3, <2>5 DEF ControlInv
<1>7. ASSUME NEW h \in Hosts, Collect(h) PROVE ControlInv'
  <2>1. Play' = Play /\ NTasks' = NTasks /\ Last' = Last
    BY <1>7 DEF Collect, Play, NTasks, Last
  <2>2. BatchInv' /\ JoinInv'
    BY <1>7, <2>1 DEF IInv, JoinInv, ForAllJoins, BatchInv, Collect
  <2>3. ProgressInv'
    BY <1>7, <2>1 DEF IInv, ProgressInv, HostProgress, Collect
  <2> QED BY <2>2, <2>3 DEF ControlInv
<1>8. CASE FinishBatch
  <2>1. Play' = Play /\ NTasks' = NTasks /\ pc = "forall" /\ failed' = failed /\ hpc' = hpc
        /\ done' = done /\ task' = task
    BY <1>8 DEF FinishBatch, LeaveStrategy, Play, NTasks
  <2>2. \A h \in Play.hosts : hpc[h] = "returned"
    BY <1>8, AllCollected DEF FinishBatch, LeaveStrategy, AllReceived
  <2>3. \A h \in Hosts : hpc[h] \in {"idle", "returned"}
    BY <2>1, <2>2 DEF IInv, JoinInv
  <2>4. \A h \in Play.hosts :
           /\ h \notin failed => done[h] = Last
           /\ h \in failed => task[h] \in first..Last /\ done[h] = task[h] - 1
    BY <2>1, <2>2 DEF IInv, ProgressInv, HostProgress
  <2>5. CASE failed = {} /\ Play.strategy = "linear"
    <3>1. pc' = "batch" /\ first' = first + 1 /\ first <= NTasks /\ Last = first
      BY <1>8, <2>1, <2>5 DEF FinishBatch, LeaveStrategy, IInv, BatchInv, Last
    <3>2. BatchInv' /\ JoinInv'
      BY <1>2, <2>1, <2>3, <2>5, <3>1 DEF JoinInv, ForAllJoins, BatchInv
    <3>3. ProgressInv'
      BY <1>2, <2>1, <2>4, <2>5, <3>1 DEF ProgressInv, HostProgress
    <3> QED BY <3>2, <3>3 DEF ControlInv
  <2>6. CASE ~(failed = {} /\ Play.strategy = "linear")
    <3>1. pc' = "closing" /\ first' = first
      BY <1>8, <2>6 DEF FinishBatch, LeaveStrategy
    <3>2. BatchInv' /\ JoinInv'
      BY <2>1, <2>3, <3>1 DEF JoinInv, ForAllJoins, BatchInv
    <3>3. CASE Play.strategy = "linear"
      BY <1>2, <2>1, <2>4, <2>6, <3>1, <3>2, <3>3 DEF ProgressInv, HostProgress, Last, ControlInv
    <3>4. CASE Play.strategy = "free"
      BY <1>2, <2>1, <2>4, <3>1, <3>2, <3>4 DEF ProgressInv, HostProgress, Last, ControlInv
    <3> QED BY <1>2, <3>3, <3>4
  <2> QED BY <2>5, <2>6
<1>9. ASSUME NEW h \in Hosts, NEW u \in Users, CloseConn(h, u) PROVE ControlInv'
  <2>1. Play' = Play /\ NTasks' = NTasks /\ Last' = Last
    BY <1>9 DEF CloseConn, Play, NTasks, Last
  <2>2. BatchInv' /\ JoinInv'
    BY <1>9, <2>1 DEF IInv, JoinInv, ForAllJoins, BatchInv, CloseConn
  <2>3. ProgressInv'
    BY <1>9, <2>1 DEF IInv, ProgressInv, HostProgress, CloseConn
  <2> QED BY <2>2, <2>3 DEF ControlInv
<1>10. CASE EndPlay
  <2>1. CASE pc' = "end"
    BY <2>1 DEF ControlInv, BatchInv, JoinInv, ForAllJoins, ProgressInv
  <2>2. CASE pc' # "end"
    <3>1. pc = "closing" /\ pc' = "start" /\ failed = {} /\ failed' = {} /\ hpc' = hpc
          /\ done' = [h \in Hosts |-> 0]
      BY <1>10, <2>2 DEF EndPlay, AtLastPlay
    <3>2. BatchInv' /\ JoinInv'
      BY <3>1 DEF IInv, JoinInv, ForAllJoins, BatchInv
    <3>3. ProgressInv'
      BY <3>1 DEF ProgressInv, HostProgress
    <3> QED BY <3>2, <3>3 DEF ControlInv
  <2> QED BY <2>1, <2>2
<1> QED BY <1>3, <1>4, <1>5, <1>6, <1>7, <1>8, <1>9, <1>10 DEF MainStep

\* The inductive invariant holds throughout.
LEMMA SpecIInv == Spec => []IInv
<1>1. IInv /\ [Next]_vars => IInv'
  <2> SUFFICES ASSUME IInv, [Next]_vars PROVE IInv'
    OBVIOUS
  <2>1. CASE MainStep
    BY <2>1, MainStepType, MainStepControl DEF IInv, ControlInv
  <2>2. ASSUME NEW h \in Hosts, HostStep(h) PROVE IInv'
    BY <2>2, HostStepType, HostStepControl DEF IInv, ControlInv
  <2>3. CASE UNCHANGED vars
    <3> USE <2>3 DEF vars, mainVars, forallVars, hostVars, connVars, histVars
    <3>1. MainTypeOK' /\ ForAllTypeOK' /\ GoroutineTypeOK'
      BY DEF IInv, TypeOK, MainTypeOK, ForAllTypeOK, GoroutineTypeOK
    <3>2. LoopTypeOK' /\ ConnTypeOK' /\ HistTypeOK'
      BY DEF IInv, TypeOK, LoopTypeOK, ConnTypeOK, HistTypeOK
    <3>3. Play' = Play /\ NTasks' = NTasks /\ Last' = Last
      BY DEF Play, NTasks, Last
    <3>4. BatchInv' /\ JoinInv'
      BY <3>3 DEF IInv, BatchInv, JoinInv, ForAllJoins
    <3>5. ProgressInv'
      BY <3>3 DEF IInv, ProgressInv, HostProgress
    <3> QED BY <3>1, <3>2, <3>4, <3>5 DEF IInv, TypeOK
  <2> QED BY <2>1, <2>2, <2>3 DEF Next, Stopped
<1> QED BY <1>1, InitIInv, PTL DEF Spec

\* Type correctness of the executor, for every playbook and inventory.
THEOREM ExecutorTypeCorrect == Spec => []TypeOK
<1>1. IInv => TypeOK
  BY DEF IInv
<1> QED BY <1>1, SpecIInv, PTL

\* parallel.ForAll never returns while a host goroutine it started is still
\* running.
THEOREM ExecutorJoins == Spec => []ForAllJoins
<1>1. IInv => ForAllJoins
  BY DEF IInv, JoinInv
<1> QED BY <1>1, SpecIInv, PTL

\* The linear strategy: no host works on a task before every host of the play
\* has completed all earlier ones.
THEOREM ExecutorBarrier == Spec => []LinearBarrier
<1>1. IInv => LinearBarrier
  <2> SUFFICES ASSUME IInv, pc # "end", Play.strategy = "linear",
                      NEW h \in Play.hosts, NEW g \in Play.hosts, hpc[h] \in Working
               PROVE  done[g] >= task[h] - 1
    BY DEF LinearBarrier
  <2>1. g \in Hosts /\ h \in Hosts /\ hpc[h] # "idle" /\ hpc[h] # "returned"
    BY PlayTyped DEF IInv, Working
  <2>2. pc = "forall"
    BY <2>1 DEF IInv, JoinInv, ForAllJoins, TypeOK, MainTypeOK
  <2>3. Last = first /\ first \in Nat /\ done[g] \in Nat /\ task[h] \in Nat /\ task[g] \in Nat
    BY <2>1 DEF Last, IInv, TypeOK, MainTypeOK, HistTypeOK, GoroutineTypeOK
  <2>4. task[h] = first
    BY <2>1, <2>2, <2>3 DEF IInv, ProgressInv, HostProgress
  <2>5. done[g] >= first - 1
    BY <2>1, <2>2, <2>3 DEF IInv, ProgressInv, HostProgress
  <2> QED BY <2>3, <2>4, <2>5
<1> QED BY <1>1, SpecIInv, PTL

-----------------------------------------------------------------------------
(* Refinement: the host goroutines' finishing and failing steps and the end *)
(* of a play are the abstract steps; everything else stutters.              *)

\* A working host is one the abstract run lets move on.
LEMMA MayRun ==
    ASSUME IInv, NEW h \in Hosts, NEW where \in Working, At(h, where)
    PROVE  /\ status = "running" /\ h \in Run!Play.hosts \ failed
           /\ done[h] < Len(Run!Play.tasks) /\ Run!MayAdvance(h)
<1>1. pc = "forall" /\ h \in Play.hosts /\ hpc[h] = where /\ h \notin failed
  BY HostMoves
<1>2. /\ NTasks \in Nat /\ Play.strategy \in {"linear", "free"} /\ Play.hosts \subseteq Hosts
      /\ first \in Nat \ {0} /\ task \in [Hosts -> Nat \ {0}] /\ done \in [Hosts -> Nat]
  BY <1>1, PlayTyped DEF IInv, TypeOK, MainTypeOK, GoroutineTypeOK, HistTypeOK
<1>3. where # "returned"
  BY DEF Working
<1>4. task[h] \in first..Last /\ done[h] = task[h] - 1
  BY <1>1, <1>3 DEF IInv, ProgressInv, HostProgress
<1>5. task[h] \in 1..NTasks
  BY <1>1, <1>3, TaskTyped
<1>6. done[h] < NTasks
  BY <1>2, <1>4, <1>5
<1>7. ASSUME Play.strategy = "linear", NEW g \in Play.hosts PROVE done[g] >= done[h]
  <2>1. Last = first /\ done[h] = first - 1
    BY <1>2, <1>4, <1>7 DEF Last
  <2>2. done[g] = first \/ done[g] = first - 1
    BY <1>1, <1>2, <1>7, <2>1 DEF IInv, ProgressInv, HostProgress
  <2> QED BY <1>2, <2>1, <2>2
<1> QED BY <1>1, <1>6, <1>7 DEF Run!Play, Run!MayAdvance, Play, NTasks, At

\* Every step of a host goroutine is an abstract step or a stutter.
LEMMA HostStepRefines ==
    ASSUME IInv, NEW h \in Hosts, HostStep(h)
    PROVE  [Run!Next]_(Run!absVars)
<1> USE DEF mainVars, forallVars, hostVars, connVars, histVars
<1>1. ASSUME NEW where \in Working, At(h, where), FinishTask(h), UNCHANGED <<mainVars, got, failed>>
      PROVE  Run!Next
  BY <1>1, MayRun DEF FinishTask, Run!Advance, Run!Next
<1>2. ASSUME NEW where \in Working, At(h, where), FailTask(h)
      PROVE  Run!Next
  BY <1>2, MayRun DEF FailTask, Run!Fail, Run!Next
<1>3. CASE Banner(h) \/ ReuseConn(h) \/ CreateConn(h) \/ CreateConnHangs(h)
  BY <1>3 DEF Banner, ReuseConn, CreateConn, CreateConnHangs, Run!absVars
<1>4. CASE EnterLoop(h) \/ NextItem(h) \/ WhenSatisfied(h)
  BY <1>4 DEF EnterLoop, NextItem, WhenSatisfied, Run!absVars
<1>5. CASE TaskError(h) \/ CreateConnFails(h)
  BY <1>2, <1>5 DEF TaskError, CreateConnFails, Working
<1>6. CASE LeaveLoop(h)
  BY <1>1, <1>6 DEF LeaveLoop, Working
<1>7. CASE WhenNotSatisfied(h) \/ Execute(h)
  <2>1. PICK where \in Working : At(h, where)
    BY <1>7 DEF WhenNotSatisfied, Execute, Working
  <2>2. AfterAction(h) /\ UNCHANGED <<mainVars, got, failed>>
    BY <1>7 DEF WhenNotSatisfied, Execute
  <2>3. CASE TaskOf(h).loop
    BY <2>2, <2>3 DEF AfterAction, Run!absVars
  <2>4. CASE ~TaskOf(h).loop
    BY <1>1, <2>1, <2>2, <2>4 DEF AfterAction
  <2> QED BY <2>3, <2>4
<1>8. CASE SaveFactsPanics(h)
  BY <1>8, MayRun DEF SaveFactsPanics, Working, Run!Panic, Run!Next
<1> QED BY <1>3, <1>4, <1>5, <1>6, <1>7, <1>8 DEF HostStep

\* So is every step of the main goroutine.
LEMMA MainStepRefines ==
    ASSUME IInv, MainStep
    PROVE  [Run!Next]_(Run!absVars)
<1> USE DEF mainVars, forallVars, hostVars, connVars, histVars
<1>1. CASE StartPlay \/ StartBatch \/ TasksExhausted \/ FinishBatch
  BY <1>1 DEF StartPlay, StartBatch, TasksExhausted, LeaveStrategy, FinishBatch, Run!absVars
<1>2. CASE (\E h \in Hosts : Collect(h)) \/ (\E h \in Hosts, u \in Users : CloseConn(h, u))
  BY <1>2 DEF Collect, CloseConn, Run!absVars
<1>3. CASE StartPlayFails
  BY <1>3 DEF StartPlayFails, IInv, TypeOK, MainTypeOK, ProgressInv, Run!Abort, Run!Next
<1>4. CASE EndPlay
  <2>1. pc = "closing" /\ status = "running" /\ Play.strategy \in {"linear", "free"}
        /\ first \in Nat \ {0} /\ Play.hosts \subseteq Hosts /\ failed \subseteq Play.hosts
    BY <1>4, PlayTyped DEF EndPlay, IInv, TypeOK, MainTypeOK, ProgressInv
  <2>2. CASE failed = {}
    <3>1. \A h \in Play.hosts : done[h] = NTasks
      BY <2>1, <2>2 DEF IInv, ProgressInv, HostProgress
    <3> QED BY <1>4, <2>1, <2>2, <3>1 DEF EndPlay, AtLastPlay, Run!NextPlay, Run!Next, Run!Play, Play, NTasks
  <2>3. CASE failed # {}
    <3>1. Run!NoHostInterrupted
      <4>1. CASE Play.strategy = "linear"
        <5>1. \A h \in Play.hosts : done[h] = IF h \in failed THEN first - 1 ELSE first
          BY <2>1, <2>3, <4>1 DEF IInv, ProgressInv, HostProgress
        <5> QED BY <2>1, <4>1, <5>1 DEF Run!NoHostInterrupted, Run!Play, Play
      <4>2. CASE Play.strategy = "free"
        <5>1. \A h \in Play.hosts \ failed : done[h] = NTasks
          BY <2>1, <4>2 DEF IInv, ProgressInv, HostProgress
        <5> QED BY <4>2, <5>1 DEF Run!NoHostInterrupted, Run!Play, Play, NTasks
      <4> QED BY <2>1, <4>1, <4>2
    <3> QED BY <1>4, <2>1, <2>3, <3>1 DEF EndPlay, Run!Abort, Run!Next
  <2> QED BY <2>2, <2>3
<1> QED BY <1>1, <1>2, <1>3, <1>4 DEF MainStep

\* The executor implements the abstract run: plays in order, the barrier, no
\* host interrupted by another host's error, an error reported if and only if
\* a host failed or the play could not start.
THEOREM ExecutorRefinesRun == Spec => RefinesRun
<1>1. Init => Run!Init
  BY DEF Init, Run!Init
<1>2. IInv /\ [Next]_vars => [Run!Next]_(Run!absVars)
  <2> SUFFICES ASSUME IInv, [Next]_vars PROVE [Run!Next]_(Run!absVars)
    OBVIOUS
  <2>1. CASE UNCHANGED vars
    BY <2>1 DEF vars, mainVars, forallVars, histVars, Run!absVars
  <2> QED BY <2>1, MainStepRefines, HostStepRefines DEF Next, Stopped
<1> QED BY <1>1, <1>2, SpecIInv, PTL DEF Spec, RefinesRun, Run!Spec

-----------------------------------------------------------------------------
(* Connections and loop variables.  What a goroutine holds on to between its *)
(* steps: the connection it was given and the loop item of its iteration.    *)

\* The current managers: nothing is closed while a batch may use it, a task
\* that is past setupConnection has its connection, and a connection exists
\* exactly when it was dialled once.
HostConn(h) ==
    /\ pc \in {"batch", "forall"} => \A p \in Principals : conn[h][p] # "closed"
    /\ pc = "forall" /\ hpc[h] \in InLoopBody => conn[h][TaskOf(h).who] = "open"
    /\ \A p \in Principals : dials[h][p] = IF conn[h][p] = "none" THEN 0 ELSE 1

\* The loop context of a host is empty outside the body of a loop; inside it is
\* the item of the iteration, and the action got the same one.
HostLoop(h) ==
    /\ pc # "end" /\ hpc[h] \notin {"item", "when", "action"} => loopVar[h] = 0
    /\ pc = "forall" /\ hpc[h] \in {"loop", "item"} => TaskOf(h).loop
    /\ pc = "forall" /\ hpc[h] \in {"when", "action"} =>
            loopVar[h] = IF TaskOf(h).loop THEN item[h] ELSE 0
    /\ pc = "forall" /\ hpc[h] = "action" => env[h] = loopVar[h]

\* While the managers are closed, every open become connection has a closing
\* goroutine that has not returned.
CloseInv ==
    pc = "closing" => \A h \in Hosts, u \in Users : conn[h][u] = "open" <=> <<h, u>> \in closers

HoldInv ==
    /\ \A h \in Hosts : HostConn(h) /\ HostLoop(h)
    /\ CloseInv
    /\ LeaksBounded

\* A step of one goroutine leaves the task, the loop and the connections of
\* every other host alone.
LEMMA OtherHosts ==
    ASSUME IInv, NEW h \in Hosts, HostStep(h), NEW g \in Hosts, g # h
    PROVE  /\ pc' = pc \/ pc' = "end"
           /\ hpc'[g] = hpc[g] /\ item'[g] = item[g] /\ env'[g] = env[g]
           /\ loopVar'[g] = loopVar[g] /\ conn'[g] = conn[g] /\ dials'[g] = dials[g]
           /\ TaskOf(g)' = TaskOf(g)
<1> USE DEF mainVars, forallVars, hostVars, connVars, histVars, IInv, TypeOK, GoroutineTypeOK,
            LoopTypeOK, ConnTypeOK
<1>1. ASSUME FinishTask(h) PROVE hpc'[g] = hpc[g] /\ task'[g] = task[g]
  BY <1>1 DEF FinishTask
<1>2. ASSUME AfterAction(h) PROVE hpc'[g] = hpc[g] /\ task'[g] = task[g]
  BY <1>1, <1>2 DEF AfterAction
<1>3. ASSUME FailTask(h)
      PROVE  /\ UNCHANGED mainVars /\ hpc'[g] = hpc[g] /\ loopVar'[g] = loopVar[g]
             /\ UNCHANGED <<task, item, env>>
  BY <1>3 DEF FailTask
<1>4. /\ pbook' = pbook /\ playIdx' = playIdx /\ (pc' = pc \/ pc' = "end")
      /\ hpc'[g] = hpc[g] /\ item'[g] = item[g] /\ env'[g] = env[g] /\ loopVar'[g] = loopVar[g]
      /\ conn'[g] = conn[g] /\ dials'[g] = dials[g] /\ task'[g] = task[g]
  <2>1. CASE Banner(h)
    BY <2>1 DEF Banner
  <2>2. CASE TaskError(h)
    BY <1>3, <2>2 DEF TaskError
  <2>3. CASE ReuseConn(h)
    BY <2>3 DEF ReuseConn, AfterConnect
  <2>4. CASE CreateConn(h)
    BY <2>4 DEF CreateConn, AfterConnect
  <2>5. CASE CreateConnFails(h)
    BY <1>3, <2>5 DEF CreateConnFails
  <2>6. CASE CreateConnHangs(h)
    BY <2>6 DEF CreateConnHangs
  <2>7. CASE EnterLoop(h)
    BY <2>7 DEF EnterLoop
  <2>8. CASE NextItem(h)
    BY <2>8 DEF NextItem
  <2>9. CASE LeaveLoop(h)
    BY <1>1, <2>9 DEF LeaveLoop
  <2>10. CASE WhenSatisfied(h)
    BY <2>10 DEF WhenSatisfied
  <2>11. CASE WhenNotSatisfied(h)
    BY <1>2, <2>11 DEF WhenNotSatisfied
  <2>12. CASE Execute(h)
    BY <1>2, <2>12 DEF Execute
  <2>13. CASE SaveFactsPanics(h)
    BY <2>13 DEF SaveFactsPanics
  <2> QED BY <2>1, <2>2, <2>3, <2>4, <2>5, <2>6, <2>7, <2>8, <2>9, <2>10, <2>11, <2>12, <2>13
             DEF HostStep
<1> QED BY <1>4 DEF TaskOf, Play

\* The goroutine itself keeps its connection and its loop item consistent.
LEMMA OwnStep ==
    ASSUME IInv, HoldInv, NEW h \in Hosts, HostStep(h)
    PROVE  HostConn(h)' /\ HostLoop(h)'
<1> USE DEF mainVars, forallVars, hostVars, connVars, histVars, HostConn, HostLoop
<1>1. PICK where \in Working : At(h, where)
  BY DEF HostStep, Banner, TaskError, ReuseConn, CreateConn, CreateConnFails, CreateConnHangs,
         EnterLoop, NextItem, LeaveLoop, WhenSatisfied, WhenNotSatisfied, Execute, SaveFactsPanics,
         Working
<1>2. pc = "forall" /\ h \in Play.hosts /\ hpc[h] = where
  BY <1>1, HostMoves
<1>3. hpc[h] # "returned" /\ hpc[h] # "idle"
  BY <1>2 DEF Working
<1>4. TaskOf(h).who \in Principals /\ TaskOf(h).loop \in BOOLEAN
  BY <1>2, <1>3, TaskTyped
<1>5. HostConn(h) /\ HostLoop(h)
  BY DEF HoldInv
<1>6. /\ hpc \in [Hosts -> Working \cup {"idle", "returned", "hung"}]
      /\ item \in [Hosts -> 0..MaxItems] /\ env \in [Hosts -> 0..MaxItems]
      /\ loopVar \in [Hosts -> 0..MaxItems]
      /\ conn \in [Hosts -> [Principals -> {"none", "open", "closed"}]]
      /\ dials \in [Hosts -> [Principals -> Nat]]
  BY DEF IInv, TypeOK, GoroutineTypeOK, LoopTypeOK, ConnTypeOK
<1>7. ASSUME UNCHANGED <<pbook, playIdx, task>> PROVE TaskOf(h)' = TaskOf(h)
  BY <1>7 DEF TaskOf, Play
<1>8. ASSUME FailTask(h), UNCHANGED <<conn, dials>> PROVE HostConn(h)' /\ HostLoop(h)'
  <2>1. hpc'[h] = "returned" /\ pc' = pc
    BY <1>6, <1>8 DEF FailTask
  <2>2. loopVar'[h] = 0
    <3>1. CASE TaskOf(h).loop /\ hpc[h] \in InLoopBody
      BY <1>6, <1>8, <3>1 DEF FailTask
    <3>2. CASE ~(TaskOf(h).loop /\ hpc[h] \in InLoopBody)
      <4>1. loopVar'[h] = loopVar[h]
        BY <1>8, <3>2 DEF FailTask
      <4>2. CASE hpc[h] \in {"when", "action"}
        BY <1>2, <1>5, <3>2, <4>1, <4>2 DEF InLoopBody
      <4>3. CASE hpc[h] = "item"
        BY <1>2, <1>5, <3>2, <4>3 DEF InLoopBody
      <4>4. CASE hpc[h] \notin {"item", "when", "action"}
        BY <1>2, <1>5, <4>1, <4>4
      <4> QED BY <4>2, <4>3, <4>4
    <3> QED BY <3>1, <3>2
  <2> QED BY <1>2, <1>5, <1>8, <2>1, <2>2 DEF InLoopBody
<1>9. ASSUME FinishTask(h), UNCHANGED <<mainVars, conn, dials>>, loopVar'[h] = 0
      PROVE  HostConn(h)' /\ HostLoop(h)'
  <2>1. hpc'[h] \in {"banner", "returned"} /\ pc' = pc
    BY <1>6, <1>9 DEF FinishTask
  <2> QED BY <1>2, <1>5, <1>9, <2>1 DEF InLoopBody
<1>10. ASSUME AfterAction(h), UNCHANGED <<mainVars, conn, dials, loopVar, item, env>>,
              hpc[h] \in {"when", "action"}
       PROVE  HostConn(h)' /\ HostLoop(h)'
  <2>1. CASE TaskOf(h).loop
    <3>1. hpc'[h] = "item" /\ TaskOf(h)' = TaskOf(h) /\ pc' = pc
      BY <1>6, <1>7, <1>10, <2>1 DEF AfterAction
    <3> QED BY <1>2, <1>5, <1>10, <2>1, <3>1 DEF InLoopBody
  <2>2. CASE ~TaskOf(h).loop
    <3>1. loopVar'[h] = 0
      BY <1>2, <1>5, <1>10, <2>2
    <3> QED BY <1>9, <1>10, <2>2, <3>1 DEF AfterAction
  <2> QED BY <2>1, <2>2
<1>11. CASE Banner(h)
  BY <1>2, <1>5, <1>6, <1>11 DEF Banner, At, InLoopBody
<1>12. CASE TaskError(h)
  BY <1>8, <1>12 DEF TaskError
<1>13. CASE ReuseConn(h)
  <2>1. TaskOf(h)' = TaskOf(h) /\ pc' = pc /\ hpc[h] = "connect"
        /\ hpc'[h] = IF TaskOf(h).loop THEN "loop" ELSE "when"
    BY <1>6, <1>7, <1>13 DEF ReuseConn, AfterConnect, At
  <2>2. conn[h][TaskOf(h).who] = "open"
    BY <1>2, <1>4, <1>5, <1>6, <1>13 DEF ReuseConn
  <2> QED BY <1>2, <1>4, <1>5, <1>13, <2>1, <2>2 DEF ReuseConn, InLoopBody
<1>14. CASE CreateConn(h)
  <2> DEFINE w == TaskOf(h).who
  <2>1. TaskOf(h)' = TaskOf(h) /\ pc' = pc /\ hpc[h] = "connect"
        /\ hpc'[h] = IF TaskOf(h).loop THEN "loop" ELSE "when"
    BY <1>6, <1>7, <1>14 DEF CreateConn, AfterConnect, At
  <2>2. w \in Principals /\ conn[h][w] = "none" /\ dials[h][w] = 0
    BY <1>4, <1>5, <1>14 DEF CreateConn
  <2>3. conn' = [conn EXCEPT ![h][w] = "open"] /\ dials' = [dials EXCEPT ![h][w] = @ + 1]
    BY <1>14 DEF CreateConn
  <2> HIDE DEF w
  <2>4. \A p \in Principals : /\ conn'[h][p] = IF p = w THEN "open" ELSE conn[h][p]
                              /\ dials'[h][p] = IF p = w THEN 1 ELSE dials[h][p]
    BY <1>6, <2>2, <2>3
  <2>5. HostConn(h)'
    <3>1. conn'[h][TaskOf(h)'.who] = "open"
      BY <2>1, <2>2, <2>4 DEF w
    <3> QED BY <1>2, <1>5, <2>1, <2>4, <3>1
  <2>6. HostLoop(h)'
    BY <1>2, <1>4, <1>5, <1>14, <2>1 DEF CreateConn
  <2> QED BY <2>5, <2>6
<1>15. CASE CreateConnFails(h)
  BY <1>8, <1>15 DEF CreateConnFails
<1>16. CASE CreateConnHangs(h)
  BY <1>2, <1>5, <1>6, <1>16 DEF CreateConnHangs, At, InLoopBody
<1>17. CASE EnterLoop(h)
  <2>1. TaskOf(h)' = TaskOf(h) /\ pc' = pc /\ hpc[h] = "loop" /\ hpc'[h] = "item"
    BY <1>6, <1>7, <1>17 DEF EnterLoop, At
  <2> QED BY <1>2, <1>5, <1>17, <2>1 DEF EnterLoop, InLoopBody
<1>18. CASE NextItem(h)
  <2>1. TaskOf(h)' = TaskOf(h) /\ pc' = pc /\ hpc[h] = "item" /\ hpc'[h] = "when"
        /\ loopVar'[h] = item'[h]
    BY <1>6, <1>7, <1>18 DEF NextItem, At
  <2> QED BY <1>2, <1>5, <1>18, <2>1 DEF NextItem, InLoopBody
<1>19. CASE LeaveLoop(h)
  BY <1>6, <1>9, <1>19 DEF LeaveLoop
<1>20. CASE WhenSatisfied(h)
  <2>1. TaskOf(h)' = TaskOf(h) /\ pc' = pc /\ hpc[h] = "when" /\ hpc'[h] = "action"
        /\ env'[h] = loopVar[h]
    BY <1>6, <1>7, <1>20 DEF WhenSatisfied, At
  <2> QED BY <1>2, <1>5, <1>20, <2>1 DEF WhenSatisfied, InLoopBody
<1>21. CASE WhenNotSatisfied(h)
  BY <1>10, <1>21 DEF WhenNotSatisfied, At
<1>22. CASE Execute(h)
  BY <1>10, <1>22 DEF Execute, At
<1>23. CASE SaveFactsPanics(h)
  BY <1>5, <1>23 DEF SaveFactsPanics
<1> QED BY <1>11, <1>12, <1>13, <1>14, <1>15, <1>16, <1>17, <1>18, <1>19, <1>20, <1>21, <1>22,
           <1>23 DEF HostStep

\* A host step stays in the play.
LEMMA HostStepPlay ==
    ASSUME IInv, NEW h \in Hosts, HostStep(h)
    PROVE  playIdx' = playIdx /\ (pc' = pc \/ pc' = "end")
<1> USE DEF mainVars
<1>1. FailTask(h) => UNCHANGED mainVars
  BY DEF FailTask
<1> QED BY <1>1 DEF HostStep, Banner, TaskError, ReuseConn, CreateConn, CreateConnFails,
           CreateConnHangs, EnterLoop, NextItem, LeaveLoop, WhenSatisfied, WhenNotSatisfied,
           Execute, SaveFactsPanics

\* What a host step adds to the transports nobody refers to is one whose
\* remote.Execute failed, and the goroutine returns with that.
LEMMA HostStepHold ==
    ASSUME IInv, HoldInv, NEW h \in Hosts, HostStep(h)
    PROVE  HoldInv'
<1>1. \A g \in Hosts : HostConn(g)' /\ HostLoop(g)'
  <2> SUFFICES ASSUME NEW g \in Hosts PROVE HostConn(g)' /\ HostLoop(g)'
    OBVIOUS
  <2>1. CASE g = h
    BY <2>1, OwnStep
  <2>2. CASE g # h
    <3>1. HostConn(g) /\ HostLoop(g)
      BY DEF HoldInv
    <3> QED BY <2>2, <3>1, OtherHosts DEF HostConn, HostLoop
  <2> QED BY <2>1, <2>2
<1>2. PICK where \in Working : At(h, where)
  BY DEF HostStep, Banner, TaskError, ReuseConn, CreateConn, CreateConnFails, CreateConnHangs,
         EnterLoop, NextItem, LeaveLoop, WhenSatisfied, WhenNotSatisfied, Execute, SaveFactsPanics,
         Working
<1>3. pc = "forall" /\ hpc[h] # "returned"
  BY <1>2, HostMoves DEF Working
<1>4. /\ pc' \in {"forall", "end"} /\ playIdx' = playIdx
      /\ \A g \in Hosts : g # h => hpc'[g] = hpc[g]
  BY <1>3, OtherHosts, HostStepPlay
<1>5. failed \subseteq failed'
  BY DEF HostStep, Banner, TaskError, ReuseConn, CreateConn, CreateConnFails, CreateConnHangs,
         EnterLoop, NextItem, LeaveLoop, WhenSatisfied, WhenNotSatisfied, Execute, SaveFactsPanics,
         FailTask, forallVars
<1>6. leaked' = leaked \/
        (/\ \E w \in {TaskOf(h).who} :
              leaked' = leaked \cup {[play |-> playIdx, host |-> h, who |-> w, state |-> "half"]}
         /\ FailTask(h))
  BY DEF HostStep, Banner, TaskError, ReuseConn, CreateConn, CreateConnFails, CreateConnHangs,
         EnterLoop, NextItem, LeaveLoop, WhenSatisfied, WhenNotSatisfied, Execute, SaveFactsPanics,
         connVars
<1>7. hpc \in [Hosts -> Working \cup {"idle", "returned", "hung"}]
      /\ leaked \subseteq [play : Nat, host : Hosts, who : Principals, state : {"open", "half"}]
  BY DEF IInv, TypeOK, GoroutineTypeOK, ConnTypeOK
<1>8. LeaksBounded'
  <2>1. \A c \in leaked :
          \/ c.state = "half" /\ c.play = playIdx' /\ c.host \in failed' /\ hpc'[c.host] = "returned"
          \/ c.state = "open" /\ c.who = Default /\ (c.play < playIdx' \/ pc' = "end")
    <3> SUFFICES ASSUME NEW c \in leaked
                 PROVE  \/ /\ c.state = "half" /\ c.play = playIdx' /\ c.host \in failed'
                           /\ hpc'[c.host] = "returned"
                        \/ c.state = "open" /\ c.who = Default /\ (c.play < playIdx' \/ pc' = "end")
      OBVIOUS
    <3>1. c.host \in Hosts
      BY <1>7
    <3> QED BY <1>3, <1>4, <1>5, <3>1 DEF HoldInv, LeaksBounded
  <2>2. FailTask(h) => h \in failed' /\ hpc'[h] = "returned"
    BY <1>7 DEF FailTask
  <2> QED BY <1>4, <1>6, <2>1, <2>2 DEF LeaksBounded
<1>9. CloseInv'
  BY <1>4 DEF CloseInv
<1> QED BY <1>1, <1>8, <1>9 DEF HoldInv

\* The main goroutine replaces and closes managers only when nobody holds on
\* to a connection, and drops them when only default connections are open.
LEMMA MainStepHold ==
    ASSUME IInv, HoldInv, MainStep
    PROVE  HoldInv'
<1> USE DEF mainVars, forallVars, hostVars, connVars, histVars
<1>1. \A h \in Hosts : HostConn(h) /\ HostLoop(h)
  BY DEF HoldInv
<1>2. LeaksBounded /\ CloseInv
  BY DEF HoldInv
<1>3. ASSUME UNCHANGED <<leaked, playIdx>>, pc # "end", failed = {} \/ UNCHANGED <<failed, hpc>>
      PROVE  LeaksBounded'
  BY <1>2, <1>3 DEF LeaksBounded
<1>17. pc \in {"start", "batch"} => failed = {}
  BY DEF IInv, ProgressInv
<1>18. ASSUME pc' # "closing" PROVE CloseInv'
  BY <1>18 DEF CloseInv
<1>4. /\ hpc \in [Hosts -> Working \cup {"idle", "returned", "hung"}]
      /\ conn \in [Hosts -> [Principals -> {"none", "open", "closed"}]]
      /\ dials \in [Hosts -> [Principals -> Nat]]
  BY DEF IInv, TypeOK, GoroutineTypeOK, ConnTypeOK
<1>5. pc # "forall" /\ pc # "end" => \A h \in Hosts : loopVar[h] = 0
  BY <1>1 DEF HostLoop, IInv, JoinInv, ForAllJoins, TypeOK, MainTypeOK
<1>19. ASSUME LeaveStrategy PROVE CloseInv'
  BY <1>19 DEF LeaveStrategy, Closers, CloseInv
<1>20. ASSUME pc = "closing" PROVE \A h \in Hosts, u \in Users : <<h, u>> \in closers => conn[h][u] = "open"
  BY <1>20 DEF HoldInv, CloseInv
<1>6. CASE StartPlay
  <2>1. \A h \in Hosts : HostConn(h)'
    BY <1>6 DEF StartPlay, HostConn, NoConn
  <2>2. \A h \in Hosts : HostLoop(h)'
    BY <1>1, <1>6 DEF StartPlay, HostLoop
  <2> QED BY <1>3, <1>6, <1>18, <2>1, <2>2 DEF StartPlay, HoldInv
<1>7. CASE StartPlayFails
  <2>1. \A h \in Hosts : HostConn(h)' /\ HostLoop(h)'
    BY <1>1, <1>7 DEF StartPlayFails, HostConn, HostLoop
  <2> QED BY <1>3, <1>7, <1>18, <2>1 DEF StartPlayFails, HoldInv
<1>8. CASE StartBatch
  <2>1. \A h \in Hosts : hpc'[h] \in {"idle", "banner", "returned"}
    BY <1>8 DEF StartBatch
  <2>2. \A h \in Hosts : HostConn(h)'
    BY <1>1, <1>8, <2>1 DEF StartBatch, HostConn, InLoopBody
  <2>3. \A h \in Hosts : HostLoop(h)'
    BY <1>5, <1>8, <2>1 DEF StartBatch, HostLoop
  <2> QED BY <1>3, <1>8, <1>17, <1>18, <2>2, <2>3 DEF StartBatch, HoldInv
<1>9. CASE TasksExhausted
  <2>1. \A h \in Hosts : HostConn(h)' /\ HostLoop(h)'
    BY <1>1, <1>9 DEF TasksExhausted, LeaveStrategy, HostConn, HostLoop
  <2> QED BY <1>3, <1>9, <1>19, <2>1 DEF TasksExhausted, LeaveStrategy, HoldInv
<1>10. ASSUME NEW g \in Hosts, Collect(g) PROVE HoldInv'
  <2>1. \A h \in Hosts : TaskOf(h)' = TaskOf(h)
    BY <1>10 DEF Collect, TaskOf, Play
  <2>2. \A h \in Hosts : HostConn(h)' /\ HostLoop(h)'
    BY <1>1, <1>10, <2>1 DEF Collect, HostConn, HostLoop
  <2> QED BY <1>3, <1>10, <1>18, <2>2 DEF Collect, HoldInv
<1>11. CASE FinishBatch
  <2>1. \A h \in Hosts : hpc[h] \in {"idle", "returned"}
    BY <1>11, AllCollected DEF FinishBatch, AllReceived, IInv, JoinInv
  <2>2. pc = "forall" /\ pc' \in {"batch", "closing"}
    BY <1>11 DEF FinishBatch, LeaveStrategy
  <2>3. \A h \in Hosts : HostConn(h)' /\ HostLoop(h)'
    BY <1>1, <1>11, <2>1, <2>2 DEF FinishBatch, LeaveStrategy, HostConn, HostLoop
  <2>4. CloseInv'
    BY <1>11, <1>18, <1>19 DEF FinishBatch
  <2> QED BY <1>3, <1>11, <2>3, <2>4 DEF FinishBatch, LeaveStrategy, HoldInv
<1>12. ASSUME NEW g \in Hosts, NEW u \in Users, CloseConn(g, u) PROVE HoldInv'
  <2>1. pc = "closing" /\ pc' = "closing" /\ u \in Principals /\ conn[g][u] # "none"
    BY <1>12, <1>20 DEF CloseConn, Principals
  <2>2. \A h \in Hosts, p \in Principals : (conn'[h][p] = "none") <=> (conn[h][p] = "none")
    BY <1>4, <1>12, <2>1 DEF CloseConn
  <2>3. \A h \in Hosts : HostConn(h)'
    BY <1>1, <1>12, <2>1, <2>2 DEF CloseConn, HostConn
  <2>4. \A h \in Hosts : HostLoop(h)'
    BY <1>1, <1>12, <2>1 DEF CloseConn, HostLoop
  <2>5. CloseInv'
    <3> SUFFICES ASSUME NEW h \in Hosts, NEW v \in Users
                 PROVE  conn'[h][v] = "open" <=> <<h, v>> \in closers'
      BY DEF CloseInv
    <3>1. v \in Principals /\ u \in Principals
      BY DEF Principals
    <3>2. conn'[h][v] = IF h = g /\ v = u THEN "closed" ELSE conn[h][v]
      BY <1>4, <1>12, <3>1 DEF CloseConn
    <3>3. closers' = closers \ {<<g, u>>} /\ (conn[h][v] = "open" <=> <<h, v>> \in closers)
      BY <1>2, <1>12, <2>1 DEF CloseConn, CloseInv
    <3> QED BY <3>2, <3>3
  <2> QED BY <1>3, <1>12, <2>3, <2>4, <2>5 DEF CloseConn, HoldInv
<1>13. CASE EndPlay
  <2>1. pc = "closing" /\ pc' \in {"start", "end"}
    BY <1>13 DEF EndPlay, AtLastPlay
  <2>2. \A h \in Hosts : HostConn(h)' /\ HostLoop(h)'
    BY <1>1, <1>13, <2>1 DEF EndPlay, HostConn, HostLoop
  <2>3. \A c \in Survivors : c.who = Default
    BY <1>2, <1>13 DEF EndPlay, Survivors, CloseInv, Principals
  <2>4. \A c \in Survivors : c.state = "open" /\ c.play = playIdx
    BY DEF Survivors
  <2>5. UNCHANGED <<failed, hpc>> /\ leaked' = leaked \cup Survivors
    BY <1>13 DEF EndPlay
  <2>6. \/ failed = {} /\ playIdx' = playIdx + 1
        \/ failed # {} /\ playIdx' = playIdx /\ pc' = "end"
    BY <1>13 DEF EndPlay
  <2>7. playIdx \in Nat /\ \A c \in leaked : c.play \in Nat
    BY DEF IInv, TypeOK, MainTypeOK, ConnTypeOK
  <2>8. LeaksBounded'
    <3> SUFFICES ASSUME NEW c \in leaked \cup Survivors
                 PROVE  \/ /\ c.state = "half" /\ c.play = playIdx' /\ c.host \in failed'
                           /\ hpc'[c.host] = "returned"
                        \/ c.state = "open" /\ c.who = Default /\ (c.play < playIdx' \/ pc' = "end")
      BY <2>5 DEF LeaksBounded
    <3>1. CASE c \in Survivors
      BY <2>3, <2>4, <2>6, <2>7, <3>1
    <3>2. CASE c \in leaked
      BY <1>2, <2>1, <2>5, <2>6, <2>7, <3>2 DEF LeaksBounded
    <3> QED BY <3>1, <3>2
  <2>9. CloseInv'
    BY <1>18, <2>1
  <2> QED BY <2>2, <2>8, <2>9 DEF HoldInv
<1> QED BY <1>6, <1>7, <1>8, <1>9, <1>10, <1>11, <1>12, <1>13 DEF MainStep

\* What goroutines hold on to is consistent throughout.
LEMMA SpecHold == Spec => []HoldInv
<1>1. Init => HoldInv
  BY DEF Init, HoldInv, HostConn, HostLoop, NoConn, CloseInv, LeaksBounded
<1>2. IInv /\ HoldInv /\ [Next]_vars => HoldInv'
  <2> SUFFICES ASSUME IInv, HoldInv, [Next]_vars PROVE HoldInv'
    OBVIOUS
  <2>1. CASE UNCHANGED vars
    <3> USE <2>1 DEF vars, mainVars, forallVars, hostVars, connVars
    <3>1. \A h \in Hosts : TaskOf(h)' = TaskOf(h)
      BY DEF TaskOf, Play
    <3> QED BY <3>1 DEF HoldInv, HostConn, HostLoop, CloseInv, LeaksBounded
  <2> QED BY <2>1, MainStepHold, HostStepHold DEF Next, Stopped
<1> QED BY <1>1, <1>2, SpecIInv, PTL DEF Spec

\* A task that is past setupConnection works over an open connection of the
\* user it asked for, and a manager dials at most once for a user.
THEOREM ExecutorConnections == Spec => []ConnectionUsable
<1>1. HoldInv => ConnectionUsable
  BY DEF HoldInv, HostConn, ConnectionUsable, InLoopBody
<1> QED BY <1>1, SpecHold, PTL

\* An action is given the loop item of its own iteration, and none outside a
\* loop.
THEOREM ExecutorLoopItem == Spec => []OwnLoopItem
<1>1. HoldInv => OwnLoopItem
  BY DEF HoldInv, HostLoop, OwnLoopItem
<1> QED BY <1>1, SpecHold, PTL

(***************************************************************************)
(* What a run leaves open is bounded, for any playbook, hosts and users:   *)
(* the default connections of the plays that are over (Manager.Close skips *)
(* them), and for a host that failed in the last play at most the one      *)
(* transport whose remote.Execute failed (createConnection does not close  *)
(* it).  Every become connection is closed: ForAll has joined the hosts    *)
(* before the closing goroutines are counted out, so none is made later.   *)
(***************************************************************************)
THEOREM ExecutorLeaks == Spec => []LeaksBounded
<1>1. HoldInv => LeaksBounded
  BY DEF HoldInv
<1> QED BY <1>1, SpecHold, PTL
=============================================================================
