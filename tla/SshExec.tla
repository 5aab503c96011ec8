------------------------------ MODULE SshExec ------------------------------
(***************************************************************************)
(* ssh.Connection.ExecInteractiveCommand and connection.                   *)
(* DefaultExecCommandImpl: the caller waits on the channel "done" while a  *)
(* goroutine runs the session; both share the named results err, pipes and *)
(* closer without a lock.  A caller either drains the output (ExecCommand) *)
(* or keeps the pipes (gRPC), of which only stdout is read from then on,   *)
(* and calls the closer at the end of stdout or while the command runs.    *)
(*                                                                         *)
(* The remote command and the ssh transport are external: output is        *)
(* counted in units, and the transport buffers at most Window of them,     *)
(* shared between stdout and stderr, until the client reads them.          *)
(***************************************************************************)
EXTENDS Naturals

CONSTANTS
    MaxOut,     \* largest number of units the command writes to stdout
    MaxErr,     \* ... and to stderr
    Window      \* transport window, in units

ASSUME SshAssumption == MaxOut \in Nat /\ MaxErr \in Nat /\ Window \in Nat \ {0}

VARIABLES
    mode,       \* "exec": ExecCommand, "interactive": pipes are kept
    outLen, errLen,     \* what the command will write
    exitErr,    \* the command exits with a non-zero status
    cpc,        \* caller: "wait", "return", "stderr", "stdout", "done", "use", "closed"
    gpc,        \* goroutine: "session", "handler", "notify", "wait", "assign", "notify2", "exit"
    done,       \* tokens in the channel (capacity 1)
    err,        \* the shared named result: "nil", "start", "exit"
    pending,    \* what conn.Session is about to return
    pipes,      \* the shared named result is set
    retErr,     \* the err the caller got from ExecInteractiveCommand
    closeErr,   \* what the closer returned
    rpc,        \* remote command: "none", "running", "exited"
    wout, werr, \* units written so far
    rout, rerr  \* units the caller has read

execVars == <<mode, outLen, errLen, exitErr, cpc, gpc, done, err, pending, pipes,
          retErr, closeErr, rpc, wout, werr, rout, rerr>>
fixed == <<mode, outLen, errLen, exitErr>>
writes == <<rpc, wout, werr>>
reads == <<rout, rerr>>

ChanCap == 1

ExecInit ==
    /\ mode \in {"exec", "interactive"}
    /\ outLen \in 0..MaxOut /\ errLen \in 0..MaxErr
    /\ exitErr \in BOOLEAN
    /\ cpc = "wait" /\ gpc = "session"
    /\ done = 0
    /\ err = "nil" /\ pending = "nil" /\ retErr = "nil" /\ closeErr = "none"
    /\ pipes = FALSE
    /\ rpc = "none"
    /\ wout = 0 /\ werr = 0 /\ rout = 0 /\ rerr = 0

-----------------------------------------------------------------------------
(* The goroutine.                                                           *)

\* conn.Conn.Session opens the session and calls the handler ...
OpenSession ==
    /\ gpc = "session"
    /\ gpc' = "handler"
    /\ UNCHANGED <<fixed, cpc, done, err, pending, pipes, retErr, closeErr, writes, reads>>

\* ... unless that fails.
OpenSessionFails ==
    /\ gpc = "session"
    /\ pending' = "start"
    /\ gpc' = "assign"
    /\ UNCHANGED <<fixed, cpc, done, err, pipes, retErr, closeErr, writes, reads>>

\* Mutant: the caller is woken before the pipes are set.
StartCommandLater ==
    /\ gpc = "handler"
    /\ rpc' = "running"
    /\ gpc' = "notify"
    /\ UNCHANGED <<fixed, cpc, done, err, pending, pipes, retErr, closeErr, wout, werr, reads>>

\* The handler gets the pipes and starts the command.
StartCommand ==
    /\ gpc = "handler"
    /\ pipes' = TRUE
    /\ rpc' = "running"
    /\ gpc' = "notify"
    /\ UNCHANGED <<fixed, cpc, done, err, pending, retErr, closeErr, wout, werr, reads>>

\* No pipes, a failing become handshake, or a command that does not start.
StartCommandFails ==
    /\ gpc = "handler"
    /\ err' = "start"
    /\ pending' = "start"
    /\ gpc' = "assign"
    /\ UNCHANGED <<fixed, cpc, done, pipes, retErr, closeErr, writes, reads>>

\* done <- true, then session.Wait().
Notify ==
    /\ gpc = "notify"
    /\ done < ChanCap
    /\ done' = done + 1
    /\ gpc' = "wait"
    /\ UNCHANGED <<fixed, cpc, err, pending, pipes, retErr, closeErr, writes, reads>>

\* session.Wait returns when the command has exited; a session that was closed
\* under the command may have lost the exit status, which is an error too.
WaitReturns ==
    /\ gpc = "wait"
    /\ rpc = "exited"
    /\ \/ pending' = IF exitErr THEN "exit" ELSE "nil"
       \/ cpc = "closed" /\ pending' = "exit"
    /\ gpc' = "assign"
    /\ UNCHANGED <<fixed, cpc, done, err, pipes, retErr, closeErr, writes, reads>>

\* err = conn.Conn.Session(...)
AssignErr ==
    /\ gpc = "assign"
    /\ err' = pending
    /\ gpc' = "notify2"
    /\ UNCHANGED <<fixed, cpc, done, pending, pipes, retErr, closeErr, writes, reads>>

\* Mutant: only the handler wakes the caller.
NotifyOnce ==
    /\ gpc = "notify2"
    /\ gpc' = "exit"
    /\ UNCHANGED <<fixed, cpc, done, err, pending, pipes, retErr, closeErr, writes, reads>>

\* The second done <- true, and the goroutine ends.
NotifyAgain ==
    /\ gpc = "notify2"
    /\ done < ChanCap
    /\ done' = done + 1
    /\ gpc' = "exit"
    /\ UNCHANGED <<fixed, cpc, err, pending, pipes, retErr, closeErr, writes, reads>>

-----------------------------------------------------------------------------
(* The caller.                                                              *)

\* <-done
Receive ==
    /\ cpc = "wait"
    /\ done > 0
    /\ done' = done - 1
    /\ cpc' = "return"
    /\ UNCHANGED <<fixed, gpc, err, pending, pipes, retErr, closeErr, writes, reads>>

\* return: the named results are read, possibly while AssignErr writes err.
Return ==
    /\ cpc = "return"
    /\ retErr' = err
    /\ cpc' = IF err # "nil" THEN "done" ELSE IF mode = "exec" THEN "stderr" ELSE "use"
    /\ UNCHANGED <<fixed, gpc, done, err, pending, pipes, closeErr, writes, reads>>

\* DefaultExecCommandImpl reads stderr to its end first ...
ReadStderr ==
    /\ cpc = "stderr"
    /\ IF rerr < werr
       THEN rerr' = rerr + 1 /\ UNCHANGED cpc
       ELSE rpc = "exited" /\ cpc' = "stdout" /\ UNCHANGED rerr
    /\ UNCHANGED <<fixed, gpc, done, err, pending, pipes, retErr, closeErr, writes, rout>>

\* Mutant: stdout is read until it is empty, not until its end.
ReadStdoutOnce ==
    /\ cpc = "stdout"
    /\ cpc' = "done"
    /\ rout' = IF rout < wout THEN rout + 1 ELSE rout
    /\ UNCHANGED <<fixed, gpc, done, err, pending, pipes, retErr, closeErr, writes, rerr>>

\* ... and stdout after that.
ReadStdout ==
    /\ cpc = "stdout"
    /\ IF rout < wout
       THEN rout' = rout + 1 /\ UNCHANGED cpc
       ELSE rpc = "exited" /\ cpc' = "done" /\ UNCHANGED rout
    /\ UNCHANGED <<fixed, gpc, done, err, pending, pipes, retErr, closeErr, writes, rerr>>

\* gRPC reads the StdIoConn, whose in is Stdout: nobody reads stderr.
UseRead ==
    /\ cpc = "use"
    /\ rout < wout /\ rout' = rout + 1
    /\ UNCHANGED <<fixed, cpc, gpc, done, err, pending, pipes, retErr, closeErr, writes, rerr>>

\* StdIoConn.Close calls the customCloser: an error in err wins over the
\* session's own.
Close ==
    /\ cpc = "use"
    /\ closeErr' = err
    /\ cpc' = "closed"
    /\ UNCHANGED <<fixed, gpc, done, err, pending, pipes, retErr, writes, reads>>

\* gRPC closes its transport when a read finds the end of stdout.  It also does
\* when ConnectionContext.Close or the dial timeout says so, at any moment.
CloseAtEnd == rpc = "exited" /\ rout = wout /\ Close

-----------------------------------------------------------------------------
(* The remote command, blocked while the window is full.  Once the session  *)
(* is closed, its input ends and its writes fail, and it may stop anywhere. *)

Buffered == (wout - rout) + (werr - rerr)

RemoteWrite ==
    /\ rpc = "running"
    /\ Buffered < Window
    /\ \/ wout < outLen /\ wout' = wout + 1 /\ UNCHANGED werr
       \/ werr < errLen /\ werr' = werr + 1 /\ UNCHANGED wout
    /\ UNCHANGED <<fixed, cpc, gpc, done, err, pending, pipes, retErr, closeErr, rpc, reads>>

RemoteExit ==
    /\ rpc = "running"
    /\ (wout = outLen /\ werr = errLen) \/ cpc = "closed"
    /\ rpc' = "exited"
    /\ UNCHANGED <<fixed, cpc, gpc, done, err, pending, pipes, retErr, closeErr, wout, werr, reads>>

Goroutine ==
    \/ OpenSession \/ OpenSessionFails \/ StartCommand \/ StartCommandFails
    \/ Notify \/ WaitReturns \/ AssignErr \/ NotifyAgain
Caller == Receive \/ Return \/ ReadStderr \/ ReadStdout \/ UseRead \/ CloseAtEnd
Remote == RemoteWrite \/ RemoteExit

\* Everybody is finished, or waits.
ExecSettled == ~ENABLED (Goroutine \/ Caller \/ Close \/ Remote) /\ UNCHANGED execVars

ExecNext == Goroutine \/ Caller \/ Close \/ Remote \/ ExecSettled

\* Nothing makes anyone close a session before its end.
ExecSpec ==
    /\ ExecInit /\ [][ExecNext]_execVars
    /\ WF_execVars(Goroutine) /\ WF_execVars(Caller) /\ WF_execVars(Remote)

-----------------------------------------------------------------------------
(* Properties.                                                              *)

\* remote.execute and DefaultExecCommandImpl use the pipes without checking
\* them: however the accesses to err, pipes and the channel interleave, a caller
\* that got no error has pipes of a command that was started.
PipesWithoutError == cpc \in {"stderr", "stdout", "use"} => pipes /\ rpc # "none"

\* ExecCommand without an error returns everything the command wrote.
OutputComplete ==
    cpc = "done" /\ retErr = "nil" => rout = outLen /\ rerr = errLen

\* The caller gets its answer as long as the stream it does not read yet cannot
\* fill the transport window: ExecCommand reads all of stderr first, and a command
\* that waits for room on stdout never ends its stderr; gRPC never reads stderr,
\* and a client that writes too much there stops answering.  Under the same
\* condition the goroutine does not stay behind in its second send, for which
\* nobody receives; nor does it, whatever was written, once the session is closed,
\* even while the command runs.
ExecReturns ==
    /\ (IF mode = "exec" THEN outLen ELSE errLen) < Window =>
           <>(cpc \in {"done", "closed"} /\ gpc = "exit")
    /\ cpc = "closed" ~> gpc = "exit"
=============================================================================
