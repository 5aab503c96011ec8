---------------------------- MODULE StartBecome ----------------------------
(***************************************************************************)
(* connection.StartBecome with the sudo and su plugins: the client starts  *)
(* the become command, watches its stderr for the password prompt or the   *)
(* success marker, and types the password.                                 *)
(*                                                                         *)
(* Texts are short sequences of symbols, with the lengths that matter kept *)
(* in proportion: sudo's prompt is longer than the read buffer, which is   *)
(* one longer than the success marker; su reads one byte at a time.        *)
(* The remote end (sudo, su) is external.                                  *)
(***************************************************************************)
EXTENDS Naturals, Sequences

CONSTANTS
    Methods,    \* become methods under consideration, a subset of {"sudo", "su"}
    Passwords,  \* kinds of become_pass: a subset of {"none", "right", "wrong"}
    MaxTries    \* passwords sudo asks for before it gives up

ASSUME BecomeAssumption ==
    /\ Methods \subseteq {"sudo", "su"}
    /\ Passwords \subseteq {"none", "right", "wrong"}
    /\ MaxTries \in Nat \ {0}

VARIABLES
    method, pass,
    asks,       \* the remote policy wants a password from us
    client,     \* client: "begin", "await", "confirm", "ok", "error"
    output,     \* what StartBecome has appended so far
    buffer,     \* its read buffer, stale bytes included
    written,    \* passwords the client has typed
    command,    \* remote: "begin", "asking", "running", "exited"
    tries,      \* passwords the remote has read
    net,        \* stderr bytes on their way to the client
    torn        \* history: a read returned less than had been written and would fit

becomeVars == <<method, pass, asks, client, output, buffer, written, command, tries, net, torn>>
clientVars == <<client, output, buffer, written, torn>>
remoteVars == <<command, tries>>
fixedVars == <<method, pass, asks>>

Success == <<"s1", "s2">>
Prompt == <<"p1", "p2", "p3", "p4">>

\* BuildBecomeCommand returns how much to read at a time.
ReadLen == IF method = "sudo" THEN Len(Success) + 1 ELSE 1

\* Sudo has a prompt only with a password; su always has one, and an empty
\* become_pass is not nil.
ExpectPrompt == method = "su" \/ pass # "none"

Contains(s, m) == \E i \in 0..(Len(s) - Len(m)) : SubSeq(s, i + 1, i + Len(m)) = m

\* Mutant: a finished line of output counts as the marker.
CheckSuccessLine(out) == Contains(out, <<"\n">>)

CheckSuccess(out) == Contains(out, Success)

\* Mutant: any output counts as the prompt.
CheckAnyOutput(out) == out # <<>>

\* For su only the last alternative of the expression includes the colon.
CheckPasswordPrompt(out) ==
    IF method = "sudo" THEN Contains(out, Prompt) ELSE Contains(out, SubSeq(Prompt, 1, 2))

BecomeInit ==
    /\ method \in Methods
    /\ pass \in Passwords
    /\ asks \in BOOLEAN
    /\ client = "begin"
    /\ output = <<>>
    /\ buffer = [i \in 1..ReadLen |-> "0"]
    /\ written = 0
    /\ command = "begin"
    /\ tries = 0
    /\ net = <<>>
    /\ torn = FALSE

-----------------------------------------------------------------------------
(* The remote command.                                                      *)

\* The become command was started: it either runs the wrapped command, whose
\* first act is to echo the marker, or asks for a password.
RemoteStart ==
    /\ command = "begin" /\ client \notin {"begin", "error"}
    /\ IF asks THEN command' = "asking" /\ net' = net \o Prompt
               ELSE command' = "running" /\ net' = net \o Success \o <<"\n">>
    /\ UNCHANGED <<fixedVars, clientVars, tries>>

\* It reads a password.  Su exits on a wrong one, sudo asks again until the
\* tries are used up.
RemotePassword ==
    /\ command = "asking"
    /\ tries < written
    /\ tries' = tries + 1
    /\ IF pass = "right"
       THEN command' = "running" /\ net' = net \o Success \o <<"\n">>
       ELSE IF method = "su" \/ tries + 1 = MaxTries
            THEN command' = "exited" /\ net' = net \o <<"fail", "\n">>
            ELSE command' = "asking" /\ net' = net \o <<"fail", "\n">> \o Prompt
    /\ UNCHANGED <<fixedVars, clientVars>>

-----------------------------------------------------------------------------
(* StartBecome.                                                             *)

\* The session is started; without an expected prompt nobody waits for the
\* marker.
ClientStart ==
    /\ client = "begin"
    /\ client' = IF ExpectPrompt THEN "await" ELSE "ok"
    /\ UNCHANGED <<fixedVars, remoteVars, net, output, buffer, written, torn>>

\* No pipes, no such plugin, unbalanced quotes in become_flags, or the session
\* does not start.
ClientStartFails ==
    /\ client = "begin"
    /\ client' = "error"
    /\ UNCHANGED <<fixedVars, remoteVars, net, output, buffer, written, torn>>

\* The loop conditions of the two loops.
Satisfied ==
    \/ CheckSuccess(output)
    \/ client = "await" /\ CheckPasswordPrompt(output)

\* Mutant: only the latest buffer is kept.
ClientReadForgets(n) ==
    /\ client \in {"await", "confirm"}
    /\ ~Satisfied
    /\ n <= Len(net)
    /\ buffer' = SubSeq(net, 1, n) \o SubSeq(buffer, n + 1, ReadLen)
    /\ output' = buffer'
    /\ net' = SubSeq(net, n + 1, Len(net))
    /\ torn' = (torn \/ (n < ReadLen /\ n < Len(net)))
    /\ UNCHANGED <<fixedVars, remoteVars, client, written>>

\* One Read: the transport hands over some of the bytes that have arrived, at
\* most a buffer full, and the WHOLE buffer is appended.
ClientRead(n) ==
    /\ client \in {"await", "confirm"}
    /\ ~Satisfied
    /\ n <= Len(net)
    /\ buffer' = SubSeq(net, 1, n) \o SubSeq(buffer, n + 1, ReadLen)
    /\ output' = output \o buffer'
    /\ net' = SubSeq(net, n + 1, Len(net))
    /\ torn' = (torn \/ (n < ReadLen /\ n < Len(net)))
    /\ UNCHANGED <<fixedVars, remoteVars, client, written>>

\* The remote end is gone and everything it said was read.
ClientEof ==
    /\ client \in {"await", "confirm"}
    /\ ~Satisfied
    /\ net = <<>> /\ command = "exited"
    /\ client' = "error"
    /\ UNCHANGED <<fixedVars, remoteVars, net, output, buffer, written, torn>>

\* The first loop ended: with the marker, or with a prompt to answer.
ClientAnswer ==
    /\ client = "await"
    /\ Satisfied
    /\ IF CheckSuccess(output)
       THEN client' = "ok" /\ UNCHANGED <<written, output>>
       ELSE client' = "confirm" /\ written' = written + 1 /\ output' = <<>>
    /\ UNCHANGED <<fixedVars, remoteVars, net, buffer, torn>>

\* The second loop ended.
ClientConfirmed ==
    /\ client = "confirm"
    /\ CheckSuccess(output)
    /\ client' = "ok"
    /\ UNCHANGED <<fixedVars, remoteVars, net, output, buffer, written, torn>>

ClientStep ==
    \/ ClientStart \/ ClientStartFails
    \/ \E n \in 1..ReadLen : ClientRead(n)
    \/ ClientEof \/ ClientAnswer \/ ClientConfirmed

RemoteStep == RemoteStart \/ RemotePassword

\* StartBecome has returned, or everybody waits for somebody else.
BecomeSettled ==
    /\ ~ENABLED (ClientStep \/ RemoteStep)
    /\ UNCHANGED becomeVars

BecomeNext == ClientStep \/ RemoteStep \/ BecomeSettled

BecomeSpec == BecomeInit /\ [][BecomeNext]_becomeVars /\ WF_becomeVars(ClientStep) /\ WF_becomeVars(RemoteStep)

-----------------------------------------------------------------------------
(* Properties.                                                              *)

\* The password is typed only at a command that asked for one, never at the
\* program that runs behind it and speaks gRPC on the same stdin.
PasswordOnlyWhenAsked == written > 0 => asks /\ command # "begin"

\* When StartBecome waited for the marker and returns pipes, the command really
\* runs as the other user: no mix of stale and fresh bytes passes for it.
SuccessIsReal == client = "ok" /\ ExpectPrompt => command = "running"

\* With su every handshake ends, also with a wrong password, and however the transport
\* splits the bytes.  With sudo and the right password (or none wanted) it ends unless
\* the transport tore a text apart: only then do the stale bytes of the appended
\* buffer hide the marker or the prompt.
HandshakeReturns ==
    <>(\/ client \in {"ok", "error"}
       \/ method = "sudo" /\ (torn \/ (pass = "wrong" /\ asks)))
=============================================================================
