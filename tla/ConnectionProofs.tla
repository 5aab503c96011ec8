-------------------------- MODULE ConnectionProofs --------------------------
(***************************************************************************)
(* What a connection to a host promises, for all values of the constants.  *)
(*                                                                         *)
(* ssh session: however the goroutine and the caller of                    *)
(* ExecInteractiveCommand interleave, a caller without an error has pipes, *)
(* and ExecCommand without one has everything the command wrote.           *)
(*                                                                         *)
(* become handshake: however the bytes of the remote end are split, the    *)
(* password goes only to a command that asked, and success is reported     *)
(* only when the command runs as the other user.                           *)
(*                                                                         *)
(* remote client: for any number of connections no truncated client is     *)
(* ever run or installed, a path that was returned stays, the temporary    *)
(* name has one owner, become connections are independent, and an          *)
(* installed client stays.                                                 *)
(***************************************************************************)
EXTENDS RemoteExecute, SshExec, StartBecome, TLAPS

-----------------------------------------------------------------------------
(* The ssh session.                                                         *)

\* The types of the session.
ExecTypeOK ==
    /\ mode \in {"exec", "interactive"} /\ exitErr \in BOOLEAN /\ pipes \in BOOLEAN
    /\ cpc \in {"wait", "return", "stderr", "stdout", "done", "use", "closed"}
    /\ gpc \in {"session", "handler", "notify", "wait", "assign", "notify2", "exit"}
    /\ done \in 0..ChanCap
    /\ err \in {"nil", "start", "exit"} /\ pending \in {"nil", "start", "exit"}
    /\ retErr \in {"nil", "start", "exit"} /\ closeErr \in {"none", "nil", "start", "exit"}
    /\ rpc \in {"none", "running", "exited"}
    /\ outLen \in Nat /\ errLen \in Nat
    /\ wout \in Nat /\ werr \in Nat /\ rout \in Nat /\ rerr \in Nat

\* Without pipes the caller is not woken before the error is in its place, and
\* the error stays there.
WakeInv ==
    /\ pipes <=> rpc # "none"
    /\ gpc \in {"session", "handler"} => ~pipes
    /\ gpc \in {"notify", "wait"} => pipes
    /\ ~pipes =>
         /\ cpc \in {"wait", "return", "done"}
         /\ gpc # "exit" => cpc = "wait" /\ done = 0
         /\ gpc \in {"assign", "notify2", "exit"} => pending = "start"
         /\ gpc \in {"notify2", "exit"} => err = "start"

\* The streams: nothing is read that was not written, and unless the session was
\* closed under it, the command ends when it has written everything.
StreamInv ==
    /\ rout <= wout /\ wout <= outLen /\ rerr <= werr /\ werr <= errLen
    /\ rpc = "exited" => cpc = "closed" \/ (wout = outLen /\ werr = errLen)
    /\ cpc = "stdout" => rpc = "exited" /\ rerr = werr

\* The inductive invariant of the session.
ExecInv == ExecTypeOK /\ WakeInv /\ StreamInv /\ OutputComplete

-----------------------------------------------------------------------------
\* Nothing was started, sent or read at the beginning.
LEMMA ExecInitInv == ExecInit => ExecInv
<1> SUFFICES ASSUME ExecInit PROVE ExecInv
  OBVIOUS
<1>1. outLen \in Nat /\ errLen \in Nat
  BY SshAssumption DEF ExecInit
<1>2. ExecTypeOK
  <2>1. done \in 0..ChanCap /\ wout \in Nat /\ werr \in Nat /\ rout \in Nat /\ rerr \in Nat
    BY DEF ExecInit, ChanCap
  <2> QED BY <1>1, <2>1 DEF ExecInit, ExecTypeOK
<1>4. WakeInv
  BY DEF ExecInit, WakeInv
<1>3. StreamInv /\ OutputComplete
  BY <1>1 DEF ExecInit, StreamInv, OutputComplete
<1> QED BY <1>2, <1>3, <1>4 DEF ExecInv

\* The goroutine: it sets the pipes before the first token is sent, and an error
\* that comes instead of them before the second.
LEMMA GoroutineStep ==
  ASSUME ExecInv, Goroutine
  PROVE  ExecInv'
<1> USE DEF ExecInv, fixed, writes, reads
<1>1. UNCHANGED <<mode, outLen, errLen, exitErr, cpc, retErr, closeErr, wout, werr, rout, rerr>>
  BY DEF Goroutine, OpenSession, OpenSessionFails, StartCommand, StartCommandFails, Notify,
         WaitReturns, AssignErr, NotifyAgain
<1>2. rpc' = rpc \/ (rpc = "none" /\ rpc' = "running" /\ cpc = "wait")
  BY DEF Goroutine, OpenSession, OpenSessionFails, StartCommand, StartCommandFails, Notify,
         WaitReturns, AssignErr, NotifyAgain, WakeInv
<1>3. StreamInv' /\ OutputComplete'
  BY <1>1, <1>2 DEF StreamInv, OutputComplete
<1>4. CASE OpenSession \/ OpenSessionFails
  BY <1>4 DEF OpenSession, OpenSessionFails, ExecTypeOK, WakeInv, StreamInv, OutputComplete
<1>5. CASE StartCommand \/ StartCommandFails
  <2>1. ExecTypeOK'
    BY <1>5 DEF StartCommand, StartCommandFails, ExecTypeOK
  <2>2. CASE StartCommand
    <3>1. WakeInv'
      BY <2>2 DEF StartCommand, WakeInv
    <3> QED BY <1>3, <2>1, <3>1
  <2>3. CASE StartCommandFails
    <3>1. WakeInv'
      BY <2>3 DEF StartCommandFails, WakeInv
    <3> QED BY <1>3, <2>1, <3>1
  <2> QED BY <1>5, <2>2, <2>3
<1>6. CASE Notify \/ NotifyAgain
  <2>1. done' \in 0..ChanCap
    BY <1>6 DEF Notify, NotifyAgain, ExecTypeOK, ChanCap
  <2>2. ExecTypeOK' /\ WakeInv'
    BY <1>6, <2>1 DEF Notify, NotifyAgain, ExecTypeOK, WakeInv
  <2> QED BY <1>3, <2>2
<1>7. CASE WaitReturns \/ AssignErr
  <2>1. ExecTypeOK' /\ WakeInv'
    BY <1>7 DEF WaitReturns, AssignErr, ExecTypeOK, WakeInv
  <2> QED BY <1>3, <2>1
<1> QED BY <1>4, <1>5, <1>6, <1>7 DEF Goroutine

\* The caller reads the shared results at any moment after its token.
LEMMA CallerStep ==
  ASSUME ExecInv, Caller
  PROVE  ExecInv'
<1> USE DEF ExecInv, fixed, writes, reads
<1>1. CASE Receive
  <2>1. done' \in 0..ChanCap
    BY <1>1 DEF Receive, ExecTypeOK, ChanCap
  <2>2. ExecTypeOK' /\ WakeInv'
    BY <1>1, <2>1 DEF Receive, ExecTypeOK, WakeInv
  <2> QED BY <1>1, <2>2 DEF Receive, StreamInv, OutputComplete
<1>2. CASE Return
  <2>1. cpc = "return" /\ retErr' = err /\ (err # "nil" => cpc' = "done")
        /\ (err = "nil" => cpc' \in {"stderr", "use"})
    BY <1>2 DEF Return
  <2>2. ExecTypeOK'
    BY <1>2, <2>1 DEF Return, ExecTypeOK
  <2>3. WakeInv'
    BY <1>2, <2>1 DEF Return, ExecTypeOK, WakeInv
  <2>4. StreamInv' /\ OutputComplete'
    BY <1>2, <2>1 DEF Return, StreamInv, OutputComplete
  <2> QED BY <2>2, <2>3, <2>4
<1>3. CASE ReadStderr
  <2>1. ExecTypeOK' /\ WakeInv'
    BY <1>3 DEF ReadStderr, ExecTypeOK, WakeInv
  <2>2. StreamInv' /\ OutputComplete'
    BY <1>3 DEF ReadStderr, ExecTypeOK, StreamInv, OutputComplete
  <2> QED BY <2>1, <2>2
<1>4. CASE ReadStdout
  <2>1. ExecTypeOK' /\ WakeInv'
    BY <1>4 DEF ReadStdout, ExecTypeOK, WakeInv
  <2>2. StreamInv' /\ OutputComplete'
    BY <1>4 DEF ReadStdout, ExecTypeOK, StreamInv, OutputComplete
  <2> QED BY <2>1, <2>2
<1>5. CASE UseRead \/ CloseAtEnd
  <2>1. ExecTypeOK' /\ WakeInv'
    BY <1>5 DEF UseRead, CloseAtEnd, Close, ExecTypeOK, WakeInv
  <2>2. StreamInv' /\ OutputComplete'
    BY <1>5 DEF UseRead, CloseAtEnd, Close, ExecTypeOK, StreamInv, OutputComplete
  <2> QED BY <2>1, <2>2
<1> QED BY <1>1, <1>2, <1>3, <1>4, <1>5 DEF Caller

\* The session is closed, whatever the command does.
LEMMA CloseStep ==
  ASSUME ExecInv, Close
  PROVE  ExecInv'
<1> USE DEF ExecInv, fixed, writes, reads
<1>1. ExecTypeOK' /\ WakeInv'
  BY DEF Close, ExecTypeOK, WakeInv
<1>2. StreamInv' /\ OutputComplete'
  BY DEF Close, ExecTypeOK, StreamInv, OutputComplete
<1> QED BY <1>1, <1>2

\* The command writes no more than it has, and nothing after its end.
LEMMA CommandStep ==
  ASSUME ExecInv, Remote
  PROVE  ExecInv'
<1> USE DEF ExecInv, fixed, reads
<1>1. rpc = "running" /\ UNCHANGED <<mode, outLen, errLen, exitErr, cpc, gpc, done, err, pending,
                                     pipes, retErr, closeErr, rout, rerr>>
  BY DEF Remote, RemoteWrite, RemoteExit
<1>2. ExecTypeOK' /\ WakeInv'
  BY DEF Remote, RemoteWrite, RemoteExit, ExecTypeOK, WakeInv
<1>3. StreamInv'
  BY DEF Remote, RemoteWrite, RemoteExit, ExecTypeOK, StreamInv
<1>4. OutputComplete'
  BY <1>1 DEF OutputComplete
<1> QED BY <1>2, <1>3, <1>4

\* The invariant holds in every interleaving.
LEMMA ExecAlways == ExecSpec => []ExecInv
<1>1. ExecInv /\ [ExecNext]_execVars => ExecInv'
  <2> SUFFICES ASSUME ExecInv, [ExecNext]_execVars PROVE ExecInv'
    OBVIOUS
  <2>1. CASE UNCHANGED execVars
    BY <2>1 DEF execVars, ExecInv, ExecTypeOK, WakeInv, StreamInv, OutputComplete, ChanCap
  <2>2. ExecSettled => UNCHANGED execVars
    BY DEF ExecSettled
  <2> QED BY <2>1, <2>2, GoroutineStep, CallerStep, CloseStep, CommandStep DEF ExecNext
<1> QED BY <1>1, ExecInitInv, PTL DEF ExecSpec

(***************************************************************************)
(* remote.execute and DefaultExecCommandImpl use the pipes without         *)
(* checking them: a caller that got no error from ExecInteractiveCommand   *)
(* (ssh/connection.go) has pipes of a command that was started, although   *)
(* err, pipes and closer are shared with the goroutine without a lock.     *)
(***************************************************************************)
THEOREM ExecPipes == ExecSpec => []PipesWithoutError
<1>1. ExecInv => PipesWithoutError
  BY DEF ExecInv, ExecTypeOK, WakeInv, PipesWithoutError
<1> QED BY <1>1, ExecAlways, PTL

(***************************************************************************)
(* ExecCommand (DefaultExecCommandImpl, connection/connection.go) without  *)
(* an error returns everything the command wrote to both streams, for      *)
(* every amount of it and every window of the transport.                   *)
(***************************************************************************)
THEOREM ExecOutput == ExecSpec => []OutputComplete
BY ExecAlways, PTL DEF ExecInv

-----------------------------------------------------------------------------
(* The become handshake.                                                    *)

\* What a stream is made of: the marker and the prompt in parts, so that a read may
\* split them, the answer to a wrong password, the line end, and a buffer not yet filled.
Bytes == {"0", "s1", "s2", "p1", "p2", "p3", "p4", "fail", "\n"}

\* The symbols of a text.
Symbols(s) == {s[i] : i \in 1..Len(s)}

\* Everything the client has seen or will see of what was said so far.
Heard == Symbols(net) \cup Symbols(buffer) \cup Symbols(output)

\* The marker is said by the command that runs as the other user and by nothing else,
\* a prompt only by a command that asks, and nothing before the command was started.
HeardInv ==
    /\ command # "running" => "s1" \notin Heard
    /\ ~asks => "p1" \notin Heard
    /\ command = "begin" => net = <<>> /\ output = <<>>

\* The types of the handshake; the buffer keeps the length of one read.
BecomeTypeOK ==
    /\ method \in {"sudo", "su"} /\ pass \in {"none", "right", "wrong"} /\ asks \in BOOLEAN
    /\ client \in {"begin", "await", "confirm", "ok", "error"}
    /\ command \in {"begin", "asking", "running", "exited"}
    /\ written \in Nat /\ tries \in Nat /\ torn \in BOOLEAN
    /\ output \in Seq(Bytes) /\ net \in Seq(Bytes)
    /\ buffer \in Seq(Bytes) /\ Len(buffer) = ReadLen

\* The inductive invariant: what was heard, that only a command that asks can wait or
\* give up, and the two properties.
BecomeInv ==
    /\ BecomeTypeOK
    /\ HeardInv
    /\ ~asks => command \in {"begin", "running"}
    /\ PasswordOnlyWhenAsked
    /\ SuccessIsReal

\* A concatenation has the symbols of both parts ...
LEMMA SymbolsOfConcat ==
    ASSUME NEW s \in Seq(Bytes), NEW t \in Seq(Bytes)
    PROVE  /\ s \o t \in Seq(Bytes) /\ Len(s \o t) = Len(s) + Len(t)
           /\ Symbols(s \o t) = Symbols(s) \cup Symbols(t)
<1>0. s \o t \in Seq(Bytes) /\ Len(s \o t) = Len(s) + Len(t)
  OBVIOUS
<1>1. ASSUME NEW i \in 1..Len(s \o t) PROVE (s \o t)[i] \in Symbols(s) \cup Symbols(t)
  <2>1. CASE i <= Len(s)
    BY <2>1 DEF Symbols
  <2>2. CASE i > Len(s)
    <3>1. i - Len(s) \in 1..Len(t) /\ (s \o t)[i] = t[i - Len(s)]
      BY <2>2
    <3> QED BY <3>1 DEF Symbols
  <2> QED BY <2>1, <2>2
<1>2. ASSUME NEW i \in 1..Len(s) PROVE s[i] \in Symbols(s \o t)
  <2>1. i \in 1..Len(s \o t) /\ (s \o t)[i] = s[i]
    OBVIOUS
  <2> QED BY <2>1 DEF Symbols
<1>3. ASSUME NEW i \in 1..Len(t) PROVE t[i] \in Symbols(s \o t)
  <2>1. Len(s) + i \in 1..Len(s \o t) /\ (s \o t)[Len(s) + i] = t[i]
    OBVIOUS
  <2> QED BY <2>1 DEF Symbols
<1>4. Symbols(s \o t) = Symbols(s) \cup Symbols(t)
  BY <1>1, <1>2, <1>3 DEF Symbols
<1> QED BY <1>0, <1>4

\* ... and a part of a text no others.
LEMMA SymbolsOfPart ==
    ASSUME NEW s \in Seq(Bytes), NEW a \in 1..(Len(s) + 1), NEW b \in 0..Len(s)
    PROVE  SubSeq(s, a, b) \in Seq(Bytes) /\ Symbols(SubSeq(s, a, b)) \subseteq Symbols(s)
<1>1. SubSeq(s, a, b) \in Seq(Bytes)
  OBVIOUS
<1>2. ASSUME NEW i \in 1..Len(SubSeq(s, a, b)) PROVE SubSeq(s, a, b)[i] \in Symbols(s)
  <2>1. a + i - 1 \in 1..Len(s) /\ SubSeq(s, a, b)[i] = s[a + i - 1]
    OBVIOUS
  <2> QED BY <2>1 DEF Symbols
<1> QED BY <1>1, <1>2 DEF Symbols

\* The texts of the remote command.
LEMMA Texts ==
    /\ Success \in Seq(Bytes) /\ Symbols(Success) = {"s1", "s2"}
    /\ Prompt \in Seq(Bytes) /\ Symbols(Prompt) = {"p1", "p2", "p3", "p4"}
    /\ <<"fail", "\n">> \in Seq(Bytes) /\ Symbols(<<"fail", "\n">>) = {"fail", "\n"}
    /\ <<"\n">> \in Seq(Bytes) /\ Symbols(<<"\n">>) = {"\n"}
<1>1. /\ Success \in Seq(Bytes) /\ Prompt \in Seq(Bytes)
      /\ <<"fail", "\n">> \in Seq(Bytes) /\ <<"\n">> \in Seq(Bytes)
  BY DEF Success, Prompt, Bytes
<1>2. Symbols(Success) = {"s1", "s2"} /\ Symbols(<<"\n">>) = {"\n"}
  BY DEF Success, Symbols
<1>3. Symbols(<<"fail", "\n">>) = {"fail", "\n"}
  BY DEF Symbols
<1>4. Symbols(Prompt) = {"p1", "p2", "p3", "p4"}
  <2>1. Len(Prompt) = 4 /\ Prompt[1] = "p1" /\ Prompt[2] = "p2" /\ Prompt[3] = "p3" /\ Prompt[4] = "p4"
    BY DEF Prompt
  <2>2. 1..4 = {1, 2, 3, 4}
    OBVIOUS
  <2> QED BY <2>1, <2>2 DEF Symbols
<1> QED BY <1>1, <1>2, <1>3, <1>4

\* A text that is found starts with its first symbol.
LEMMA ContainsFirst ==
    ASSUME NEW s \in Seq(Bytes), NEW m \in Seq(Bytes), Len(m) > 0, Contains(s, m)
    PROVE  m[1] \in Symbols(s)
<1>1. PICK i \in 0..(Len(s) - Len(m)) : SubSeq(s, i + 1, i + Len(m)) = m
  BY DEF Contains
<1>2. i + 1 \in 1..Len(s) /\ SubSeq(s, i + 1, i + Len(m))[1] = s[i + 1]
  OBVIOUS
<1> QED BY <1>1, <1>2 DEF Symbols

\* CheckSuccess needs the marker to have been said ...
LEMMA SuccessHeard ==
    ASSUME output \in Seq(Bytes), CheckSuccess(output) PROVE "s1" \in Symbols(output)
<1>1. Success \in Seq(Bytes) /\ Len(Success) > 0 /\ Success[1] = "s1"
  BY DEF Success, Bytes
<1> QED BY <1>1, ContainsFirst DEF CheckSuccess

\* ... and CheckPasswordPrompt, of sudo and of su, the beginning of a prompt.
LEMMA PromptHeard ==
    ASSUME output \in Seq(Bytes), CheckPasswordPrompt(output) PROVE "p1" \in Symbols(output)
<1>1. Prompt \in Seq(Bytes) /\ Len(Prompt) > 0 /\ Prompt[1] = "p1"
  BY DEF Prompt, Bytes
<1>2. SubSeq(Prompt, 1, 2) \in Seq(Bytes) /\ Len(SubSeq(Prompt, 1, 2)) > 0 /\ SubSeq(Prompt, 1, 2)[1] = "p1"
  BY DEF Prompt, Bytes
<1> QED BY <1>1, <1>2, ContainsFirst DEF CheckPasswordPrompt

\* StartBecome begins with an empty output and a buffer of zeros.
LEMMA BecomeInitInv == BecomeInit => BecomeInv
<1> SUFFICES ASSUME BecomeInit PROVE BecomeInv
  OBVIOUS
<1>1. ReadLen \in {1, 3}
  BY DEF ReadLen, Success
<1>2. buffer \in Seq(Bytes) /\ Len(buffer) = ReadLen /\ Symbols(buffer) \subseteq {"0"}
  <2>1. buffer = [i \in 1..ReadLen |-> "0"] /\ ReadLen \in Nat /\ "0" \in Bytes
    BY <1>1 DEF BecomeInit, Bytes
  <2>2. buffer \in [1..ReadLen -> Bytes]
    BY <2>1
  <2>3. buffer \in Seq(Bytes) /\ Len(buffer) = ReadLen
    BY <2>1, <2>2
  <2> QED BY <2>1, <2>3 DEF Symbols
<1>3. BecomeTypeOK
  <2>1. method \in {"sudo", "su"} /\ pass \in {"none", "right", "wrong"}
    BY BecomeAssumption DEF BecomeInit
  <2>2. output \in Seq(Bytes) /\ net \in Seq(Bytes) /\ written \in Nat /\ tries \in Nat
    BY DEF BecomeInit
  <2>3. /\ asks \in BOOLEAN /\ torn \in BOOLEAN /\ client \in {"begin", "await", "confirm", "ok", "error"}
        /\ command \in {"begin", "asking", "running", "exited"}
    BY DEF BecomeInit
  <2> QED BY <1>2, <2>1, <2>2, <2>3 DEF BecomeTypeOK
<1>4. Symbols(net) = {} /\ Symbols(output) = {}
  BY DEF BecomeInit, Symbols
<1>5. HeardInv
  BY <1>2, <1>4 DEF BecomeInit, HeardInv, Heard
<1> QED BY <1>3, <1>5 DEF BecomeInit, BecomeInv, PasswordOnlyWhenAsked, SuccessIsReal

\* What the remote command changes by saying a text, and another one after it.
LEMMA Says ==
    ASSUME BecomeTypeOK, NEW a \in Seq(Bytes), NEW b \in Seq(Bytes),
           net' = net \o a \/ net' = net \o a \o b, UNCHANGED <<buffer, output>>
    PROVE  net' \in Seq(Bytes) /\ Heard' \subseteq Heard \cup Symbols(a) \cup Symbols(b)
<1>1. net \in Seq(Bytes)
  BY DEF BecomeTypeOK
<1>2. net \o a \in Seq(Bytes) /\ Symbols(net \o a) = Symbols(net) \cup Symbols(a)
  BY <1>1, SymbolsOfConcat
<1>3. net \o a \o b \in Seq(Bytes) /\ Symbols(net \o a \o b) = Symbols(net \o a) \cup Symbols(b)
  <2> DEFINE c == net \o a
  <2>1. c \in Seq(Bytes)
    BY <1>2
  <2> HIDE DEF c
  <2>2. c \o b \in Seq(Bytes) /\ Symbols(c \o b) = Symbols(c) \cup Symbols(b)
    BY <2>1, SymbolsOfConcat
  <2> QED BY <2>2 DEF c
<1>4. Symbols(net') = Symbols(net \o a) \/ Symbols(net') = Symbols(net \o a \o b)
  OBVIOUS
<1>5. Heard' = Symbols(net') \cup Symbols(buffer) \cup Symbols(output)
  BY DEF Heard, Symbols
<1> QED BY <1>2, <1>3, <1>4, <1>5 DEF Heard

\* The bytes of one read come from what was on its way and from the buffer.
LEMMA Reads ==
    ASSUME BecomeTypeOK, NEW n \in 1..ReadLen, ClientRead(n)
    PROVE  /\ net' \in Seq(Bytes) /\ output' \in Seq(Bytes) /\ buffer' \in Seq(Bytes)
           /\ Len(buffer') = ReadLen /\ Heard' \subseteq Heard /\ net # <<>>
<1> DEFINE got == SubSeq(net, 1, n)
           old == SubSeq(buffer, n + 1, ReadLen)
           rest == SubSeq(net, n + 1, Len(net))
<1>0. ReadLen \in Nat
  BY DEF ReadLen, Success
<1>1. net \in Seq(Bytes) /\ output \in Seq(Bytes) /\ buffer \in Seq(Bytes) /\ Len(buffer) = ReadLen /\ n <= Len(net)
  BY DEF BecomeTypeOK, ClientRead
<1>2. got \in Seq(Bytes) /\ Symbols(got) \subseteq Symbols(net) /\ Len(got) = n
  <2>1. 1 \in 1..(Len(net) + 1) /\ n \in 0..Len(net)
    BY <1>0, <1>1
  <2>2. Len(got) = n
    BY <1>0, <1>1
  <2> HIDE DEF got
  <2> QED BY <1>1, <2>1, <2>2, SymbolsOfPart DEF got
<1>3. old \in Seq(Bytes) /\ Symbols(old) \subseteq Symbols(buffer) /\ Len(old) = ReadLen - n
  <2>1. n + 1 \in 1..(Len(buffer) + 1) /\ ReadLen \in 0..Len(buffer)
    BY <1>0, <1>1
  <2>2. Len(old) = ReadLen - n
    BY <1>0, <1>1
  <2> QED BY <1>1, <2>1, <2>2, SymbolsOfPart
<1>4. rest \in Seq(Bytes) /\ Symbols(rest) \subseteq Symbols(net)
  <2>1. n + 1 \in 1..(Len(net) + 1) /\ Len(net) \in 0..Len(net)
    BY <1>0, <1>1
  <2> QED BY <1>1, <2>1, SymbolsOfPart
<1>5. buffer' = got \o old /\ output' = output \o buffer' /\ net' = rest
  BY DEF ClientRead
<1> HIDE DEF got, old, rest
<1>6. buffer' \in Seq(Bytes) /\ Len(buffer') = ReadLen
  <2>1. got \o old \in Seq(Bytes) /\ Len(got \o old) = Len(got) + Len(old)
    BY <1>2, <1>3, SymbolsOfConcat
  <2>2. Len(got) + Len(old) = ReadLen
    BY <1>0, <1>2, <1>3
  <2> QED BY <1>5, <2>1, <2>2
<1>7. Symbols(buffer') = Symbols(got) \cup Symbols(old)
  BY <1>2, <1>3, <1>5, SymbolsOfConcat
<1>8. output' \in Seq(Bytes) /\ Symbols(output') = Symbols(output) \cup Symbols(buffer')
  <2> DEFINE fresh == buffer'
  <2>1. fresh \in Seq(Bytes)
    BY <1>6
  <2> HIDE DEF fresh
  <2>2. output \o fresh \in Seq(Bytes) /\ Symbols(output \o fresh) = Symbols(output) \cup Symbols(fresh)
    BY <1>1, <2>1, SymbolsOfConcat
  <2> QED BY <1>5, <2>2 DEF fresh
<1>9. Heard' = Symbols(net') \cup Symbols(buffer') \cup Symbols(output')
  BY DEF Heard, Symbols
<1>10. Heard' \subseteq Heard
  BY <1>2, <1>3, <1>4, <1>5, <1>7, <1>8, <1>9 DEF Heard
<1>11. net # <<>>
  BY <1>0, <1>1
<1> QED BY <1>4, <1>5, <1>6, <1>8, <1>10, <1>11

\* Every step of the client and of the command keeps it.
LEMMA BecomeNextInv == BecomeInv /\ [BecomeNext]_becomeVars => BecomeInv'
<1> SUFFICES ASSUME BecomeInv, [BecomeNext]_becomeVars PROVE BecomeInv'
  OBVIOUS
<1>0. BecomeTypeOK /\ HeardInv /\ PasswordOnlyWhenAsked /\ SuccessIsReal
  BY DEF BecomeInv
<1>1. CASE RemoteStart
  <2>1. UNCHANGED <<method, pass, asks, client, output, buffer, written, torn, tries>> /\ command = "begin"
    BY <1>1 DEF RemoteStart, fixedVars, clientVars
  <2>2. CASE asks
    <3>1. command' = "asking" /\ net' = net \o Prompt
      BY <1>1, <2>2 DEF RemoteStart
    <3>2. net' \in Seq(Bytes) /\ Heard' \subseteq Heard \cup Symbols(Prompt)
      BY <1>0, <2>1, <3>1, Texts, Says
    <3>3. HeardInv'
      BY <1>0, <2>1, <2>2, <3>1, <3>2, Texts DEF HeardInv
    <3>4. BecomeTypeOK'
      BY <1>0, <2>1, <3>1, <3>2 DEF BecomeTypeOK, ReadLen
    <3> QED BY <1>0, <2>1, <2>2, <3>1, <3>3, <3>4 DEF BecomeInv, PasswordOnlyWhenAsked, SuccessIsReal, ExpectPrompt
  <2>3. CASE ~asks
    <3>1. command' = "running" /\ net' = net \o Success \o <<"\n">>
      BY <1>1, <2>3 DEF RemoteStart
    <3>2. net' \in Seq(Bytes) /\ Heard' \subseteq Heard \cup Symbols(Success) \cup Symbols(<<"\n">>)
      BY <1>0, <2>1, <3>1, Texts, Says
    <3>3. HeardInv'
      BY <1>0, <2>1, <2>3, <3>1, <3>2, Texts DEF HeardInv
    <3>4. BecomeTypeOK'
      BY <1>0, <2>1, <3>1, <3>2 DEF BecomeTypeOK, ReadLen
    <3> QED BY <1>0, <2>1, <2>3, <3>1, <3>3, <3>4 DEF BecomeInv, PasswordOnlyWhenAsked, SuccessIsReal, ExpectPrompt
  <2> QED BY <2>2, <2>3
<1>2. CASE RemotePassword
  <2>1. /\ UNCHANGED <<method, pass, asks, client, output, buffer, written, torn>> /\ command = "asking"
        /\ tries' = tries + 1 /\ asks
    BY <1>2 DEF RemotePassword, fixedVars, clientVars, BecomeInv, BecomeTypeOK
  <2>2. \/ command' = "running" /\ net' = net \o Success \o <<"\n">>
        \/ command' = "exited" /\ net' = net \o <<"fail", "\n">>
        \/ command' = "asking" /\ net' = net \o <<"fail", "\n">> \o Prompt
    BY <1>2 DEF RemotePassword
  <2>3. /\ net' \in Seq(Bytes)
        /\ command' # "running" => "s1" \notin Heard'
    <3>1. CASE command' = "running" /\ net' = net \o Success \o <<"\n">>
      BY <1>0, <2>1, <3>1, Texts, Says
    <3>2. CASE command' # "running" /\ (net' = net \o <<"fail", "\n">> \/ net' = net \o <<"fail", "\n">> \o Prompt)
      <4>1. net' \in Seq(Bytes) /\ Heard' \subseteq Heard \cup Symbols(<<"fail", "\n">>) \cup Symbols(Prompt)
        BY <1>0, <2>1, <3>2, Texts, Says
      <4> QED BY <1>0, <2>1, <4>1, Texts DEF HeardInv
    <3> QED BY <2>2, <3>1, <3>2
  <2>4. BecomeTypeOK'
    BY <1>0, <2>1, <2>2, <2>3 DEF BecomeTypeOK, ReadLen
  <2>5. HeardInv'
    BY <1>0, <2>1, <2>2, <2>3 DEF HeardInv
  <2> QED BY <1>0, <2>1, <2>2, <2>4, <2>5 DEF BecomeInv, PasswordOnlyWhenAsked, SuccessIsReal, ExpectPrompt
<1>3. ASSUME NEW n \in 1..ReadLen, ClientRead(n) PROVE BecomeInv'
  <2>1. UNCHANGED <<method, pass, asks, command, tries, client, written>> /\ torn' \in BOOLEAN
    BY <1>3 DEF ClientRead, fixedVars, remoteVars
  <2>2. /\ net' \in Seq(Bytes) /\ output' \in Seq(Bytes) /\ buffer' \in Seq(Bytes)
        /\ Len(buffer') = ReadLen /\ Heard' \subseteq Heard /\ net # <<>>
    BY <1>0, <1>3, Reads
  <2>3. BecomeTypeOK'
    BY <1>0, <2>1, <2>2 DEF BecomeTypeOK, ReadLen
  <2>4. HeardInv'
    BY <1>0, <2>1, <2>2 DEF HeardInv
  <2> QED BY <2>1, <2>3, <2>4 DEF BecomeInv, PasswordOnlyWhenAsked, SuccessIsReal, ExpectPrompt
<1>4. ASSUME UNCHANGED <<method, pass, asks, command, tries, net, buffer, torn>>,
             client' \in {"begin", "await", "confirm", "ok", "error"}, written' \in Nat,
             output' \in {output, <<>>},
             written' > 0 => written > 0 \/ (asks /\ command # "begin"),
             client' = "ok" => client = "ok" \/ ~ExpectPrompt \/ command = "running"
      PROVE  BecomeInv'
  <2>1. Symbols(<<>>) = {} /\ <<>> \in Seq(Bytes)
    BY DEF Symbols
  <2>2. Heard' \subseteq Heard /\ output' \in Seq(Bytes)
    <3>1. Heard' = Symbols(net) \cup Symbols(buffer) \cup Symbols(output')
      BY <1>4 DEF Heard, Symbols
    <3>2. Symbols(output') \subseteq Symbols(output)
      BY <1>4, <2>1
    <3> QED BY <1>0, <1>4, <2>1, <3>1, <3>2 DEF Heard, BecomeTypeOK
  <2>3. BecomeTypeOK'
    BY <1>0, <1>4, <2>2 DEF BecomeTypeOK, ReadLen
  <2>4. HeardInv'
    BY <1>0, <1>4, <2>2 DEF HeardInv
  <2> QED BY <1>0, <1>4, <2>3, <2>4 DEF BecomeInv, PasswordOnlyWhenAsked, SuccessIsReal, ExpectPrompt
<1>5. CASE ClientStart \/ ClientStartFails \/ ClientEof
  BY <1>0, <1>4, <1>5 DEF ClientStart, ClientStartFails, ClientEof, fixedVars, remoteVars, BecomeTypeOK
<1>6. ASSUME CheckSuccess(output) PROVE command = "running"
  BY <1>0, <1>6, SuccessHeard DEF HeardInv, Heard, BecomeTypeOK
<1>7. ASSUME CheckPasswordPrompt(output) PROVE asks /\ command # "begin"
  <2>1. "p1" \in Symbols(output)
    BY <1>0, <1>7, PromptHeard DEF BecomeTypeOK
  <2>2. output # <<>>
    BY <2>1 DEF Symbols
  <2> QED BY <1>0, <2>1, <2>2 DEF HeardInv, Heard
<1>8. CASE ClientAnswer
  <2>1. UNCHANGED <<method, pass, asks, command, tries, net, buffer, torn>>
    BY <1>8 DEF ClientAnswer, fixedVars, remoteVars
  <2>2. CASE CheckSuccess(output)
    BY <1>0, <1>4, <1>6, <1>8, <2>1, <2>2 DEF ClientAnswer, BecomeTypeOK
  <2>3. CASE ~CheckSuccess(output)
    <3>1. CheckPasswordPrompt(output) /\ client' = "confirm" /\ written' = written + 1 /\ output' = <<>>
      BY <1>8, <2>3 DEF ClientAnswer, Satisfied
    <3> QED BY <1>0, <1>4, <1>7, <2>1, <3>1 DEF BecomeTypeOK
  <2> QED BY <2>2, <2>3
<1>9. CASE ClientConfirmed
  BY <1>0, <1>4, <1>6, <1>9 DEF ClientConfirmed, fixedVars, remoteVars, BecomeTypeOK
<1>10. CASE UNCHANGED becomeVars
  BY <1>0, <1>4, <1>10 DEF becomeVars, BecomeTypeOK
<1> QED BY <1>1, <1>2, <1>3, <1>5, <1>8, <1>9, <1>10
        DEF BecomeNext, ClientStep, RemoteStep, BecomeSettled

\* The invariant holds from the start of the handshake to its end.
LEMMA BecomeAlways == BecomeSpec => []BecomeInv
BY BecomeInitInv, BecomeNextInv, PTL DEF BecomeSpec

\* However often the remote end asks and however its bytes are split, the password goes
\* only to a command that asked for one.
THEOREM BecomePassword == BecomeSpec => []PasswordOnlyWhenAsked
<1>1. BecomeInv => PasswordOnlyWhenAsked
  BY DEF BecomeInv
<1> QED BY <1>1, BecomeAlways, PTL

\* When StartBecome has seen the marker the command runs as the other user.
THEOREM BecomeSuccess == BecomeSpec => []SuccessIsReal
<1>1. BecomeInv => SuccessIsReal
  BY DEF BecomeInv
<1> QED BY <1>1, BecomeAlways, PTL

-----------------------------------------------------------------------------
(* The remote client.                                                       *)

\* Before its file is in place a connection has neither a path nor a process.
NothingYet(c) ==
    pc[c] \in {"gather", "send", "sending"} => path[c] = "none" /\ proc[c] = "none"

\* Until it is executed there is no process; a process has a path.
PathInv(c) ==
    /\ pc[c] = "exec" => proc[c] = "none" /\ path[c] # "none"
    /\ proc[c] # "none" => path[c] # "none" /\ image[c] = "whole"
    /\ path[c] = "own" => c \in Become /\ own[c] = "whole"
    /\ path[c] = "bin" => bin = "whole"
    /\ path[c] \in {"bin", "tmp"} => c \in Home

\* What the owner of the temporary name knows about it.
OwnerInv(c) ==
    c \in Home /\ Owns(c) => tmp = IF pc[c] = "sending" THEN "partial" ELSE "whole"

\* The inductive invariant: the properties, and what makes them inductive.
RemoteInv ==
    /\ TypeOK
    /\ \A c \in Conns : NothingYet(c) /\ PathInv(c) /\ OwnerInv(c)
    /\ OneOwner
    /\ bin # "partial"
    /\ PathStays
    /\ BecomeIndependent

USE DEF Conns, FileState

LEMMA RemoteInitInv == Init => RemoteInv
BY DEF Init, RemoteInv, TypeOK, NothingYet, PathInv, OwnerInv, Owns, OneOwner, PathStays,
       BecomeIndependent

LEMMA GatherStep ==
    ASSUME NEW c \in Conns, RemoteInv, Gather(c) \/ MakeDir(c) PROVE RemoteInv'
BY RemoteAssumption DEF Gather, MakeDir, files, remote, RemoteInv, TypeOK, NothingYet, PathInv, OwnerInv, Owns, OneOwner,
       PathStays, BecomeIndependent

LEMMA SendStartsStep ==
    ASSUME NEW c \in Conns, RemoteInv, SendStarts(c) PROVE RemoteInv'
BY RemoteAssumption DEF SendStarts, remote, RemoteInv, TypeOK, NothingYet, PathInv, OwnerInv, Owns, OneOwner,
       PathStays, BecomeIndependent

LEMMA SendEndsStep ==
    ASSUME NEW c \in Conns, RemoteInv, SendEnds(c) PROVE RemoteInv'
BY RemoteAssumption DEF SendEnds, remote, RemoteInv, TypeOK, NothingYet, PathInv, OwnerInv, Owns, OneOwner,
       PathStays, BecomeIndependent

LEMMA ExecStep ==
    ASSUME NEW c \in Conns, RemoteInv, Exec(c) PROVE RemoteInv'
BY RemoteAssumption DEF Exec, Fail, FileAt, files, remote, RemoteInv, TypeOK, NothingYet, PathInv, OwnerInv, Owns, OneOwner,
       PathStays, BecomeIndependent

LEMMA FailStep ==
    ASSUME NEW c \in Conns, RemoteInv, SendBreaks(c) \/ DialTimeout(c) \/ Lost(c) PROVE RemoteInv'
BY RemoteAssumption DEF SendBreaks, DialTimeout, Lost, Fail, files, remote, RemoteInv, TypeOK, NothingYet, PathInv,
       OwnerInv, Owns, OneOwner, PathStays, BecomeIndependent

LEMMA DialStep ==
    ASSUME NEW c \in Conns, RemoteInv, Dial(c) PROVE RemoteInv'
BY RemoteAssumption DEF Dial, files, remote, RemoteInv, TypeOK, NothingYet, PathInv, OwnerInv, Owns, OneOwner,
       PathStays, BecomeIndependent

LEMMA RenameStep ==
    ASSUME NEW c \in Conns, RemoteInv, RenameSelf(c) \/ RenameFails(c) PROVE RemoteInv'
BY RemoteAssumption DEF RenameSelf, RenameFails, files, RemoteInv, TypeOK, NothingYet, PathInv, OwnerInv, Owns, OneOwner,
       PathStays, BecomeIndependent

LEMMA RemoteNextInv == RemoteInv /\ [Next]_vars => RemoteInv'
<1> SUFFICES ASSUME RemoteInv, [Next]_vars PROVE RemoteInv'
  OBVIOUS
<1>1. CASE UNCHANGED vars
  BY <1>1 DEF vars, RemoteInv, TypeOK, NothingYet, PathInv, OwnerInv, Owns, OneOwner, PathStays,
             BecomeIndependent
<1>2. CASE \E c \in Conns : Controller(c) \/ Process(c) \/ Fault(c)
  BY <1>2, GatherStep, SendStartsStep, SendEndsStep, ExecStep, FailStep, DialStep, RenameStep
     DEF Controller, Process, Fault
<1> QED BY <1>1, <1>2 DEF Next, Settled

\* Every reachable state satisfies the inductive invariant.
LEMMA RemoteAlways == Spec => []RemoteInv
<1>1. Init => RemoteInv BY RemoteInitInv
<1>2. RemoteInv /\ [Next]_vars => RemoteInv' BY RemoteNextInv
<1> QED BY <1>1, <1>2, PTL DEF Spec

\* The model is well typed for any sets of connections.
THEOREM RemoteTypeCorrect == Spec => []TypeOK
<1>1. RemoteInv => TypeOK BY DEF RemoteInv
<1> QED BY <1>1, RemoteAlways, PTL

\* remote.Execute never runs or installs a truncated client, however many
\* controllers upload at the same time and wherever they are cut off.
THEOREM RemoteNeverPartial == Spec => []NeverPartial
<1>1. RemoteInv => NeverPartial BY DEF RemoteInv, NeverPartial, PathInv
<1> QED BY <1>1, RemoteAlways, PTL

\* A path returned by sendToRemote is there when it is executed.
THEOREM RemotePathStays == Spec => []PathStays
<1>1. RemoteInv => PathStays BY DEF RemoteInv
<1> QED BY <1>1, RemoteAlways, PTL

\* One connection at a time owns the temporary name.
THEOREM RemoteOneOwner == Spec => []OneOwner
<1>1. RemoteInv => OneOwner BY DEF RemoteInv
<1> QED BY <1>1, RemoteAlways, PTL

\* Connections with a become user fail only with their connection.
THEOREM RemoteBecomeIndependent == Spec => []BecomeIndependent
<1>1. RemoteInv => BecomeIndependent BY DEF RemoteInv
<1> QED BY <1>1, RemoteAlways, PTL

\* No step takes an installed client away: renameSelf replaces it only by a
\* whole one.
THEOREM RemoteInstalledForGood == Spec => InstalledForGood
<1>1. RemoteInv /\ [Next]_vars => [bin = "whole" => bin' = "whole"]_vars
  <2> SUFFICES ASSUME RemoteInv, Next, bin = "whole" PROVE bin' = "whole"
    BY DEF vars
  <2>1. ASSUME NEW c \in Conns, RenameSelf(c) PROVE bin' = "whole"
    BY <2>1 DEF RenameSelf, RemoteInv, OwnerInv, PathInv, NothingYet, Owns
  <2> QED
    BY <2>1 DEF Next, Controller, Process, Fault, Settled, Gather, MakeDir, SendStarts, SendBreaks,
                SendEnds, Exec, Dial, DialTimeout, Lost, RenameFails, files, vars
<1> QED BY <1>1, RemoteAlways, PTL DEF Spec, InstalledForGood
=============================================================================
