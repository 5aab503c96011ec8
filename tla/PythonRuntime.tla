--------------------------- MODULE PythonRuntime ---------------------------
(***************************************************************************)
(* Python modules on the managed host: moduleExecutor calls ExecuteModule  *)
(* over gRPC with a deadline and retries once with the Python runtime; the *)
(* server handles every call in a goroutine of its own; PythonModule,      *)
(* PythonExecutorManager and PythonExecutor share one Python process per   *)
(* server without a lock; py_runtime.py answers one request after the      *)
(* other.                                                                  *)
(*                                                                         *)
(* The client issues one call at a time, but a call it gave up on keeps    *)
(* running on the server, so handlers overlap.                             *)
(***************************************************************************)
EXTENDS Naturals, Sequences

CONSTANTS
    NCalls,     \* number of tasks the client runs
    Timeouts    \* whether the deadline may expire before the answer

ASSUME RuntimeAssumption ==
    NCalls \in Nat \ {0} /\ Timeouts \in BOOLEAN

Calls == 1..NCalls
Handlers == Calls \X {1, 2}     \* the second attempt carries the runtime
Procs == 1..(2 * NCalls)        \* a handler starts at most one process

VARIABLES
    \* client
    call,       \* the current call
    attempt,    \* 1, or 2 after NeedsPythonRuntime
    result,     \* result[c]: what the client got for call c
    \* server
    hpc,        \* where each handler is
    hproc,      \* the executor it uses
    htag,       \* the tag of its request
    current,    \* PythonExecutorManager.current (0: nil)
    zip,        \* py_runtime.zip: "absent", "partial", "whole"
    \* Python processes and their executors
    started,    \* number of processes started
    alive, invalid, nextTag,
    stdin, stdout,
    request,    \* the request a process works on
    \* history
    ran,        \* ran[c]: how often the module of call c was executed
    faults      \* calls whose handler met an error of the host, and processes that
                \* died by themselves: <<"call", c>>, <<"proc", p>>

clientVars == <<call, attempt, result>>
handlerVars == <<hpc, hproc, htag>>
managerVars == <<current, zip>>
procVars == <<started, alive, invalid, nextTag, stdin, stdout, request>>
vars == <<clientVars, handlerVars, managerVars, procVars, ran, faults>>

NoRequest == [cmd |-> "none", call |-> 0, tag |-> 0]
Import == [cmd |-> "import", call |-> 0, tag |-> 0]     \* a process starting up
Done == {"own", "other", "empty", "exception", "failed", "noruntime"}

Init ==
    /\ call = 1 /\ attempt = 1
    /\ result = [c \in Calls |-> "pending"]
    /\ hpc = [x \in Handlers |-> "none"]
    /\ hproc = [x \in Handlers |-> 0]
    /\ htag = [x \in Handlers |-> 0]
    /\ current = 0
    /\ zip \in {"absent", "partial", "whole"}      \* as the last run left it
    /\ started = 0
    /\ alive = [p \in Procs |-> FALSE]
    /\ invalid = [p \in Procs |-> FALSE]
    /\ nextTag = [p \in Procs |-> 1]
    /\ stdin = [p \in Procs |-> <<>>]
    /\ stdout = [p \in Procs |-> <<>>]
    /\ request = [p \in Procs |-> NoRequest]
    /\ ran = [c \in Calls |-> 0]
    /\ faults = {}

-----------------------------------------------------------------------------
(* The client: executeRemoteModuleTask.                                     *)

\* The request reaches the server, which starts a handler for it.
Send ==
    /\ call \in Calls
    /\ hpc[<<call, attempt>>] = "none"
    /\ hpc' = [hpc EXCEPT ![<<call, attempt>>] = IF attempt = 2 THEN "truncate" ELSE "get"]
    /\ UNCHANGED <<clientVars, hproc, htag, managerVars, procVars, ran, faults>>

\* Mutant: whatever fails is tried again.
RetryAnything(outcome) == outcome \in {"noruntime", "failed", "exception"} /\ attempt = 1

NeedsPythonRuntime(outcome) == outcome = "noruntime" /\ attempt = 1

\* The answer arrives in time.  NeedsPythonRuntime leads to one retry that
\* uploads the runtime; anything else is final.
Answer ==
    /\ call \in Calls
    /\ LET x == <<call, attempt>> IN
       /\ hpc[x] \in Done
       /\ IF NeedsPythonRuntime(hpc[x])
          THEN attempt' = 2 /\ UNCHANGED <<call, result>>
          ELSE /\ result' = [result EXCEPT ![call] = hpc[x]]
               /\ call' = call + 1
               /\ attempt' = 1
    /\ UNCHANGED <<handlerVars, managerVars, procVars, ran, faults>>

\* The deadline expires.  The server ignores its context, so the handler
\* goes on; the client continues with the next task.
Timeout ==
    /\ Timeouts
    /\ call \in Calls
    /\ hpc[<<call, attempt>>] # "none"
    /\ result' = [result EXCEPT ![call] = "timeout"]
    /\ call' = call + 1
    /\ attempt' = 1
    /\ UNCHANGED <<handlerVars, managerVars, procVars, ran, faults>>

-----------------------------------------------------------------------------
(* A handler: PythonModule.Run.                                             *)

Goto(x, where) == hpc' = [hpc EXCEPT ![x] = where]

\* Its error return without an executor: the host has no room, no pipe, no process.
Fault(x) ==
    /\ Goto(x, "failed")
    /\ faults' = faults \cup {<<"call", x[1]>>}
    /\ UNCHANGED <<clientVars, hproc, htag, managerVars, procVars, ran>>

\* SaveRuntimeData: os.WriteFile truncates the file and then fills it.
Truncate(x) ==
    /\ hpc[x] = "truncate"
    /\ zip' = "partial"
    /\ Goto(x, "fill")
    /\ UNCHANGED <<clientVars, hproc, htag, current, procVars, ran, faults>>

Fill(x) ==
    /\ hpc[x] = "fill"
    /\ zip' = "whole"
    /\ Goto(x, "get")
    /\ UNCHANGED <<clientVars, hproc, htag, current, procVars, ran, faults>>

\* os.WriteFile fails, before or after it has truncated the file.
SaveFails(x) == hpc[x] \in {"truncate", "fill"} /\ Fault(x)

\* Mutant: an invalidated executor is handed out again.
UsableAnyway == current # 0

Usable == IF current = 0 THEN FALSE ELSE ~invalid[current]

\* getExecutor: reuse the current executor, report the missing runtime, or
\* start a process and greet it.
GetCurrent(x) ==
    /\ hpc[x] = "get"
    /\ Usable
    /\ hproc' = [hproc EXCEPT ![x] = current]
    /\ Goto(x, "tag")
    /\ UNCHANGED <<clientVars, htag, managerVars, procVars, ran, faults>>

NoRuntime(x) ==
    /\ hpc[x] = "get"
    /\ ~Usable
    /\ zip = "absent"
    /\ Goto(x, "noruntime")
    /\ UNCHANGED <<clientVars, hproc, htag, managerVars, procVars, ran, faults>>

StartProcess(x) ==
    /\ hpc[x] = "get"
    /\ ~Usable
    /\ zip # "absent"
    /\ LET p == started + 1 IN
       /\ started' = p
       /\ hproc' = [hproc EXCEPT ![x] = p]
       /\ alive' = [alive EXCEPT ![p] = TRUE]
       /\ request' = [request EXCEPT ![p] = Import]
       /\ nextTag' = [nextTag EXCEPT ![p] = 2]
       /\ stdin' = [stdin EXCEPT ![p] = <<[cmd |-> "hello", call |-> 0, tag |-> 1],
                                          [cmd |-> "data", call |-> 0, tag |-> 0]>>]
    /\ Goto(x, "hello")
    /\ UNCHANGED <<clientVars, htag, managerVars, invalid, stdout, ran, faults>>

\* StdinPipe, StdoutPipe or Start fails.
StartProcessFails(x) == hpc[x] = "get" /\ ~Usable /\ zip # "absent" /\ Fault(x)

\* invalidate.
Kill(p) ==
    /\ invalid' = [invalid EXCEPT ![p] = TRUE]
    /\ alive' = [alive EXCEPT ![p] = FALSE]

\* The greeting of a fresh executor is read by nobody else: both lines, or
\* the end of file of a process that is gone.
Hello(x) ==
    LET p == hproc[x] IN
    /\ hpc[x] = "hello"
    /\ \/ /\ Len(stdout[p]) >= 2
          /\ stdout' = [stdout EXCEPT ![p] = SubSeq(@, 3, Len(@))]
          /\ current' = p
          /\ Goto(x, "tag")
          /\ UNCHANGED <<alive, invalid>>
       \/ /\ ~alive[p] /\ stdout[p] = <<>>
          /\ Kill(p)
          /\ Goto(x, "failed")
          /\ UNCHANGED <<current, stdout>>
    /\ UNCHANGED <<clientVars, hproc, htag, zip, started, nextTag, stdin, request, ran, faults>>

\* executeCommand takes the next tag, unless the executor was invalidated in
\* the meantime.
TakeTag(x) ==
    LET p == hproc[x] IN
    /\ hpc[x] = "tag"
    /\ IF invalid[p]
       THEN Goto(x, "failed") /\ UNCHANGED <<htag, nextTag>>
       ELSE /\ htag' = [htag EXCEPT ![x] = nextTag[p]]
            /\ UNCHANGED nextTag
            /\ Goto(x, "bump")
    /\ UNCHANGED <<clientVars, hproc, managerVars, started, alive, invalid, stdin, stdout, request, ran, faults>>

BumpTag(x) ==
    /\ hpc[x] = "bump"
    /\ nextTag' = [nextTag EXCEPT ![hproc[x]] = @ + 1]
    /\ Goto(x, "hdr")
    /\ UNCHANGED <<clientVars, hproc, htag, managerVars, started, alive, invalid, stdin, stdout, request, ran, faults>>

\* writeLine: a dead process breaks the pipe.
Write(x, line, next) ==
    LET p == hproc[x] IN
    /\ IF alive[p]
       THEN /\ stdin' = [stdin EXCEPT ![p] = Append(@, line)]
            /\ Goto(x, next)
            /\ UNCHANGED <<alive, invalid>>
       ELSE /\ Kill(p)
            /\ Goto(x, "failed")
            /\ UNCHANGED stdin
    /\ UNCHANGED <<clientVars, hproc, htag, managerVars, started, nextTag, stdout, request, ran, faults>>

WriteHdr(x) ==
    hpc[x] = "hdr" /\ Write(x, [cmd |-> "execute", call |-> x[1], tag |-> htag[x]], "data")

\* Mutant: the request's data stays in a buffer.
WriteDataUnflushed(x) ==
    /\ hpc[x] = "data"
    /\ Goto(x, "rhdr")
    /\ UNCHANGED <<clientVars, hproc, htag, managerVars, procVars, ran, faults>>

WriteData(x) ==
    hpc[x] = "data" /\ Write(x, [cmd |-> "data", call |-> x[1], tag |-> 0], "rhdr")

\* Two handlers inside Scan at once race on the scanner's buffer.
Racing(x) ==
    \E y \in Handlers \ {x} : hproc[y] = hproc[x] /\ hpc[y] \in {"rhdr", "rdata"}

Garbage == [cmd |-> "garbage", call |-> 0, tag |-> 0]

\* A line too long for the scanner's buffer: Scan fails at it, now and ever
\* after.
Stuck(p) == stdout[p] # <<>> /\ Head(stdout[p]).cmd = "long"

\* What Scan can return: the next line, perhaps spoilt by another reader, or
\* the end of file once the process is gone and everything was read.
Lines(x) ==
    LET p == hproc[x] IN
    IF Stuck(p) THEN {Garbage}
    ELSE IF stdout[p] # <<>> THEN {Head(stdout[p])} \cup IF Racing(x) THEN {Garbage} ELSE {}
    ELSE IF alive[p] THEN {} ELSE {Garbage}

\* readLine: a line that cannot be used, or none, invalidates the executor.
ReadLine(x, next) ==
    LET p == hproc[x] IN
    /\ stdout' = [stdout EXCEPT ![p] = IF @ = <<>> \/ Stuck(p) THEN @ ELSE Tail(@)]
    /\ Goto(x, next)
    /\ IF next = "failed" THEN Kill(p) ELSE UNCHANGED <<alive, invalid>>
    /\ UNCHANGED <<clientVars, hproc, htag, managerVars, started, nextTag, stdin, request, ran, faults>>

\* A response body decoded as a header has tag 0.
ReadHdr(x) ==
    /\ hpc[x] = "rhdr"
    /\ \E line \in Lines(x) :
         ReadLine(x, IF line.cmd # "garbage" /\ line.tag = htag[x] THEN "rdata" ELSE "failed")

\* A header decoded as a response body is an empty, successful response.
ReadData(x) ==
    /\ hpc[x] = "rdata"
    /\ \E line \in Lines(x) :
         ReadLine(x, CASE line.cmd = "garbage" -> "failed"
                       [] line.cmd = "header" -> "empty"
                       [] line.cmd = "exception" -> "exception"
                       [] OTHER -> IF line.call = x[1] THEN "own" ELSE "other")

-----------------------------------------------------------------------------
(* py_runtime.py.                                                           *)

\* The process dies by itself, in the middle of a module or of nothing at all.
PyDies(p) ==
    /\ alive[p]
    /\ alive' = [alive EXCEPT ![p] = FALSE]
    /\ faults' = faults \cup {<<"proc", p>>}
    /\ UNCHANGED <<clientVars, handlerVars, managerVars, started, invalid, nextTag, stdin, stdout,
                   request, ran>>

\* Python imports the runtime from the zip file; from a part of it it cannot.
PyImport(p) ==
    /\ alive[p] /\ request[p] = Import
    /\ zip = "whole"
    /\ request' = [request EXCEPT ![p] = NoRequest]
    /\ UNCHANGED <<clientVars, handlerVars, managerVars, started, alive, invalid, nextTag, stdin,
                   stdout, ran, faults>>

PyImportFails(p) ==
    /\ request[p] = Import
    /\ zip # "whole"
    /\ PyDies(p)

\* It reads a header and a data line; a line that is no header kills it.
PyRead(p) ==
    /\ alive[p] /\ request[p] = NoRequest
    /\ Len(stdin[p]) >= 2
    /\ stdin' = [stdin EXCEPT ![p] = SubSeq(@, 3, Len(@))]
    /\ IF stdin[p][1].cmd = "data"
       THEN alive' = [alive EXCEPT ![p] = FALSE] /\ UNCHANGED request
       ELSE /\ request' = [request EXCEPT ![p] =
                 [cmd |-> IF stdin[p][1].cmd = "execute" /\ stdin[p][2].cmd # "data"
                          THEN "malformed" ELSE stdin[p][1].cmd,
                  call |-> stdin[p][2].call, tag |-> stdin[p][1].tag]]
            /\ UNCHANGED alive
    /\ UNCHANGED <<clientVars, handlerVars, managerVars, started, invalid, nextTag, stdout, ran, faults>>

\* handle_execute catches the exceptions of the module and of a request that
\* is none.  A result has any length: "long" is one above the scanner's limit.
Bodies(cmd) ==
    IF cmd = "execute" THEN {"result", "exception", "long"}
    ELSE IF cmd = "malformed" THEN {"exception"} ELSE {"result"}

\* It has run the module, if that was the request.
PyRuns(p) ==
    /\ alive[p] /\ request[p] \notin {NoRequest, Import}
    /\ ran' = IF request[p].cmd = "execute" THEN [ran EXCEPT ![request[p].call] = @ + 1] ELSE ran
    /\ request' = [request EXCEPT ![p] = NoRequest]
    /\ UNCHANGED <<clientVars, handlerVars, managerVars, started, invalid, nextTag, stdin>>

HeaderFor(p) == [cmd |-> "header", call |-> 0, tag |-> request[p].tag]

\* It prints both lines of the answer with one flush.
PyAnswer(p) ==
    /\ PyRuns(p)
    /\ \E body \in Bodies(request[p].cmd) :
         stdout' = [stdout EXCEPT ![p] = @ \o <<HeaderFor(p),
                                               [cmd |-> body, call |-> request[p].call, tag |-> 0]>>]
    /\ UNCHANGED <<alive, faults>>

\* jsonify raises on what the module returned: the interpreter ends, and on its
\* way out flushes the header.
PyRaises(p) ==
    /\ PyRuns(p)
    /\ request[p].cmd = "execute"
    /\ stdout' = [stdout EXCEPT ![p] = Append(@, HeaderFor(p))]
    /\ alive' = [alive EXCEPT ![p] = FALSE]
    /\ faults' = faults \cup {<<"proc", p>>}

ClientStep == Send \/ Answer \/ Timeout
HandlerStep(x) ==
    \/ Truncate(x) \/ Fill(x) \/ SaveFails(x)
    \/ GetCurrent(x) \/ NoRuntime(x) \/ StartProcess(x) \/ StartProcessFails(x) \/ Hello(x)
    \/ TakeTag(x) \/ BumpTag(x) \/ WriteHdr(x) \/ WriteData(x)
    \/ ReadHdr(x) \/ ReadData(x)
ProcStep(p) ==
    PyImport(p) \/ PyImportFails(p) \/ PyRead(p) \/ PyAnswer(p) \/ PyRaises(p)

\* The client is done, and so is everyone else.
Finished == call > NCalls /\ UNCHANGED vars

Next ==
    \/ ClientStep
    \/ \E x \in Handlers : HandlerStep(x)
    \/ \E p \in Procs : ProcStep(p) \/ PyDies(p)
    \/ Finished

Spec ==
    /\ Init /\ [][Next]_vars
    /\ WF_vars(Send \/ Answer)
    /\ \A x \in Handlers : WF_vars(HandlerStep(x))
    /\ \A p \in Procs : WF_vars(ProcStep(p))

-----------------------------------------------------------------------------
(* Properties.                                                              *)

TimedOut(cs) == \E c \in cs : result[c] = "timeout"

\* What the check in executeCommand ("response header tag doesn't match") is
\* there for: a call never returns what was not the answer to its request.
NoForeignAnswer == \A c \in Calls : result[c] \notin {"other", "empty"}

\* The answer to call c does not fit into the buffer of the scanner.
TooLong(c) ==
    \E p \in Procs : \E i \in 1..Len(stdout[p]) :
        stdout[p][i].cmd = "long" /\ stdout[p][i].call = c

\* Something outside of the protocol went wrong for call c itself: its handler met
\* an error of the host, or the process it was given died by itself.
Excused(c) ==
    \/ <<"call", c>> \in faults
    \/ \E k \in {1, 2} : <<"proc", hproc[<<c, k>>]>> \in faults

\* While no call is given up on, requests and answers stay in step: every call
\* returns the answer to its own request or its own exception.  It fails only for
\* a reason of its own: its answer is above the limit of bufio.Scanner, its
\* runtime could not be saved or its process not be started, or that process died.
\* What an earlier call ran into (an executor invalidated in the middle of an
\* answer, left-over lines, a header without its body) never reaches it.
InStep ==
    \A c \in Calls : result[c] \in {"other", "empty", "failed"} =>
        TimedOut(1..(c - 1)) \/ (result[c] = "failed" /\ (TooLong(c) \/ Excused(c)))

\* No request is executed twice on the host, though moduleExecutor retries: the
\* retry follows only an answer that says nothing was run.  And a result is
\* returned only for a request that was executed: lines of two requests
\* interleaved on stdin are never run as something nobody asked.
RunsOnce ==
    \A c \in Calls : ran[c] <= 1 /\ (result[c] = "own" => ran[c] = 1)

\* Every call is answered though handlers of abandoned calls may take lines
\* meant for it, and even without counting on the deadline: whoever finds the
\* stream out of step kills the process, and the others see its end of file.
AllAnswered == <>(call > NCalls)
=============================================================================
