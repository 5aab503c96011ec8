------------------------ MODULE PythonRuntimeProofs ------------------------
(***************************************************************************)
(* For every number of calls, with and without deadlines: no request is    *)
(* executed twice, a result is returned only for a request that was        *)
(* executed, and as long as no call was given up on, requests and answers  *)
(* stay in step.                                                           *)
(***************************************************************************)
EXTENDS PythonRuntime, FiniteSetTheorems, SequenceTheorems, TLAPS

Before == {"none", "truncate", "fill", "get", "noruntime"}      \* without an executor
Using == {"hello", "tag", "bump", "hdr", "data", "rhdr", "rdata"}
Finals == {"own", "other", "empty", "exception", "failed"}
Sent == {"rhdr", "rdata"} \cup Finals       \* the data line may have been written

InCmds == {"hello", "execute", "data"}
OutCmds == {"header", "result", "exception", "long"}
Line(cmds) == [cmd: cmds, call: Calls \cup {0}, tag: Nat]

TypeOK ==
    /\ call \in Nat \ {0} /\ attempt \in {1, 2}
    /\ result \in [Calls -> {"pending", "timeout"} \cup Done]
    /\ hpc \in [Handlers -> Before \cup Using \cup Finals]
    /\ hproc \in [Handlers -> Procs \cup {0}]
    /\ htag \in [Handlers -> Nat]
    /\ current \in Procs \cup {0} /\ zip \in {"absent", "partial", "whole"}
    /\ started \in Nat
    /\ alive \in [Procs -> BOOLEAN] /\ invalid \in [Procs -> BOOLEAN]
    /\ nextTag \in [Procs -> Nat]
    /\ stdin \in [Procs -> Seq(Line(InCmds))]
    /\ stdout \in [Procs -> Seq(Line(OutCmds))]
    /\ request \in [Procs -> Line({"none", "import", "hello", "execute", "malformed"})]
    /\ ran \in [Calls -> Nat]

\* A handler starts at most one process, and the processes that were not started
\* yet are untouched.
StartInv ==
    /\ started <= Cardinality({x \in Handlers : hpc[x] \notin Before})
    /\ current <= started
    /\ \A x \in Handlers : /\ hproc[x] <= started
                           /\ hpc[x] \in Using => hproc[x] # 0
    /\ \A p \in Procs : p > started =>
         ~alive[p] /\ ~invalid[p] /\ stdin[p] = <<>> /\ stdout[p] = <<>> /\ request[p] = NoRequest

\* The second attempt follows an answer that says nothing was run; results are
\* there for the calls that are over.
RetryInv ==
    /\ \A c \in Calls : hpc[<<c, 2>>] # "none" => hpc[<<c, 1>>] = "noruntime"
    /\ attempt = 2 => call \in Calls /\ hpc[<<call, 1>>] = "noruntime"
    /\ \A c \in Calls : c >= call => result[c] = "pending"

\* The data line of call c, and a process that works on it.
DataAt(p, i, c) == i \in 1..Len(stdin[p]) /\ stdin[p][i].cmd = "data" /\ stdin[p][i].call = c
Runs(p, c) == request[p].cmd = "execute" /\ request[p].call = c

\* Each call is in one place: not yet written, on stdin, worked on, or executed.
OnePlace(c) ==
    /\ \A p, q \in Procs : \A i, j \in Nat : DataAt(p, i, c) /\ DataAt(q, j, c) => p = q /\ i = j
    /\ \A p, q \in Procs : Runs(p, c) /\ Runs(q, c) => p = q
    /\ \A p, q \in Procs : \A i \in Nat : ~(DataAt(p, i, c) /\ Runs(q, c))
    /\ ran[c] <= 1
    /\ ran[c] = 1 => \A p \in Procs : ~Runs(p, c) /\ \A i \in Nat : ~DataAt(p, i, c)

Unused(c) == ran[c] = 0 /\ \A p \in Procs : ~Runs(p, c) /\ \A i \in Nat : ~DataAt(p, i, c)

TokenInv ==
    \A c \in Calls : OnePlace(c) /\ (Unused(c) \/ \E k \in {1, 2} : hpc[<<c, k>>] \in Sent)

\* A result on stdout, at a handler or at the client is one of a call that ran;
\* the greeting is the first thing a process reads.
ResultInv ==
    /\ \A p \in Procs : \A i \in 1..Len(stdin[p]) : stdin[p][i].cmd = "hello" =>
         i = 1 /\ Len(stdin[p]) >= 2 /\ stdin[p][2].call = 0
    /\ \A p \in Procs : request[p].cmd \notin {"execute", "malformed"} => request[p].call = 0
    /\ \A p \in Procs : \A i \in 1..Len(stdout[p]) :
         stdout[p][i].cmd \in {"result", "long"} /\ stdout[p][i].call # 0 => ran[stdout[p][i].call] = 1
    /\ \A x \in Handlers : hpc[x] = "own" => ran[x[1]] = 1
    /\ \A c \in Calls : result[c] = "own" => ran[c] = 1

OnceInv == TypeOK /\ StartInv /\ RetryInv /\ TokenInv /\ ResultInv

-----------------------------------------------------------------------------
\* No call was given up on.
Quiet == \A c \in Calls : c < call => result[c] # "timeout"

\* The line a process cannot get past.
LongFor(c) ==
    \E p \in Procs : stdout[p] # <<>> /\ Head(stdout[p]).cmd = "long" /\ Head(stdout[p]).call = c

\* A process is private to its starter until it has greeted.
Private(x) ==
    LET p == hproc[x] IN
    /\ current # p
    /\ \A y \in Handlers \ {x} : hproc[y] # p
    /\ request[p].call = 0
    /\ \A i \in 1..Len(stdin[p]) : stdin[p][i].call = 0
    /\ \A i \in 1..Len(stdout[p]) : stdout[p][i].call = 0

HelloInv == \A x \in Handlers : hpc[x] = "hello" => Private(x)

\* The client has not sent anything beyond the attempt it is at.
FutureInv ==
    \A x \in Handlers : x[1] > call \/ (x[1] = call /\ x[2] > attempt) => hpc[x] = "none"

HelloLines == <<[cmd |-> "hello", call |-> 0, tag |-> 1], [cmd |-> "data", call |-> 0, tag |-> 0]>>
ExecuteLine(c, t) == [cmd |-> "execute", call |-> c, tag |-> t]
DataLine(c) == [cmd |-> "data", call |-> c, tag |-> 0]
HeaderLine(t) == [cmd |-> "header", call |-> 0, tag |-> t]
BodyLine(b, c) == [cmd |-> b, call |-> c, tag |-> 0]

\* A process that died by itself, and what is known of it.
Died(p) == <<"proc", p>> \in faults

\* What it left behind is nobody's who has no process yet.
DeadInv ==
    /\ \A p \in Procs : Died(p) => ~alive[p] /\ p <= started
    /\ ~Died(0)
    /\ \A x \in Handlers : hpc[x] \in Before => hproc[x] = 0

\* The steps of a process that does not just die.
Works(p) == PyImport(p) \/ PyRead(p) \/ PyAnswer(p) \/ PyRaises(p)
ProcMoves(p) == Works(p) \/ PyDies(p)

\* Process p was not killed by a handler and has these lines to read, this request
\* and these lines to be read; they stay when it dies by itself.
State(p, in, r, out) ==
    /\ alive[p] \/ Died(p)
    /\ ~invalid[p] /\ stdin[p] = in /\ request[p] = r /\ stdout[p] = out

Idle(p) == State(p, <<>>, NoRequest, <<>>)

Greeting(p) ==
    \/ \E r \in {Import, NoRequest} : State(p, HelloLines, r, <<>>)
    \/ State(p, <<>>, [cmd |-> "hello", call |-> 0, tag |-> 1], <<>>)
    \/ State(p, <<>>, NoRequest, <<HeaderLine(1), BodyLine("result", 0)>>)

Exchange(p, c, t) ==
    \/ State(p, <<ExecuteLine(c, t), DataLine(c)>>, NoRequest, <<>>)
    \/ State(p, <<>>, ExecuteLine(c, t), <<>>)
    \/ \E b \in {"result", "exception", "long"} :
         State(p, <<>>, NoRequest, <<HeaderLine(t), BodyLine(b, c)>>)
    \/ Died(p) /\ State(p, <<>>, NoRequest, <<HeaderLine(t)>>)

\* Where the only handler at work is, its process is one step further.
StepInv(x) ==
    LET p == hproc[x] IN
    /\ hpc[x] \in Using \ {"hello"} => current = p
    /\ hpc[x] = "hello" => ~Usable /\ Greeting(p)
    /\ hpc[x] \in {"tag", "bump", "hdr"} => Idle(p)
    /\ hpc[x] = "data" => State(p, <<ExecuteLine(x[1], htag[x])>>, NoRequest, <<>>)
    /\ hpc[x] = "rhdr" => Exchange(p, x[1], htag[x])
    /\ hpc[x] = "rdata" =>
         \/ \E b \in {"result", "exception", "long"} : State(p, <<>>, NoRequest, <<BodyLine(b, x[1])>>)
         \/ Died(p) /\ Idle(p)
    /\ hpc[x] \notin {"other", "empty"}
    /\ hpc[x] = "failed" => LongFor(x[1]) \/ Excused(x[1])

\* Between two requests the process that will be used again is idle.
Good(x) ==
    /\ StepInv(x)
    /\ Usable /\ hpc[x] \notin Using => Idle(current)

Alone(x) == \A y \in Handlers : y # x => hpc[y] \in Done \cup {"none"}

QuietInv ==
    Quiet => LET x == <<call, attempt>> IN
      /\ Alone(x)
      /\ IF call \in Calls THEN Good(x) ELSE Usable => Idle(current)

\* InStep, with the place where the long line is.
LongInv ==
    \A c \in Calls : result[c] \in {"other", "empty", "failed"} =>
        TimedOut(1..(c - 1)) \/ (result[c] = "failed" /\ (LongFor(c) \/ Excused(c)))

IInv == OnceInv /\ HelloInv /\ FutureInv /\ DeadInv /\ QuietInv /\ LongInv

-----------------------------------------------------------------------------
(* Sets and sequences.                                                      *)

LEMMA HandlerFacts ==
  /\ \A c \in Calls : c \in Nat /\ c # 0 /\ <<c, 1>> \in Handlers /\ <<c, 2>> \in Handlers
  /\ \A x \in Handlers : x[1] \in Calls /\ x[2] \in {1, 2} /\ x = <<x[1], x[2]>>
  /\ \A p \in Procs : p \in Nat /\ p # 0
BY RuntimeAssumption DEF Calls, Handlers, Procs

LEMMA HandlersFinite == IsFiniteSet(Handlers) /\ Cardinality(Handlers) = 2 * NCalls
<1>1. IsFiniteSet(Calls) /\ Cardinality(Calls) = NCalls
  BY RuntimeAssumption, FS_Interval DEF Calls
<1>2. IsFiniteSet({1, 2}) /\ Cardinality({1, 2}) = 2
  <2>1. {1, 2} = 1..2
    OBVIOUS
  <2>2. IsFiniteSet(1..2) /\ Cardinality(1..2) = 2
    BY FS_Interval, 1 \in Int, 2 \in Int, ~(1 > 2), 2 - 1 + 1 = 2, Zenon
  <2> QED BY <2>1, <2>2
<1> QED BY <1>1, <1>2, FS_Product, RuntimeAssumption DEF Handlers

LEMMA TwoOff ==
  ASSUME NEW S, NEW s \in Seq(S), Len(s) >= 2
  PROVE  LET t == SubSeq(s, 3, Len(s)) IN
         t \in Seq(S) /\ Len(t) = Len(s) - 2 /\ \A i \in 1..Len(t) : t[i] = s[i + 2]
<1>1. Len(s) \in Nat /\ \A i \in 3..Len(s) : s[i] \in S
  OBVIOUS
<1> DEFINE n == Len(s)
           t == SubSeq(s, 3, n)
<1>2. /\ t \in Seq(S)
      /\ Len(t) = IF 3 <= n THEN n - 3 + 1 ELSE 0
      /\ \A i \in 1..(n - 3 + 1) : t[i] = s[3 + i - 1]
  BY <1>1, SubSeqProperties
<1>3. n \in Nat /\ n >= 2
  BY <1>1
<1> HIDE DEF n, t
<1>4. Len(t) = n - 2
  <2>1. CASE 3 <= n
    BY <1>2, <1>3, <2>1
  <2>2. CASE ~(3 <= n)
    BY <1>2, <1>3, <2>2
  <2> QED BY <2>1, <2>2
<1>5. \A i \in 1..(n - 2) : t[i] = s[i + 2]
  <2> SUFFICES ASSUME NEW i \in 1..(n - 2) PROVE t[i] = s[i + 2]
    OBVIOUS
  <2>1. i \in 1..(n - 3 + 1) /\ 3 + i - 1 = i + 2
    BY <1>3
  <2> QED BY <1>2, <2>1
<1> QED BY <1>2, <1>4, <1>5, Zenon DEF n, t

LEMMA OneMore ==
  ASSUME NEW S, NEW s \in Seq(S), NEW e \in S
  PROVE  LET t == Append(s, e) IN
         /\ t \in Seq(S) /\ Len(t) = Len(s) + 1
         /\ \A i \in 1..Len(t) : t[i] = IF i <= Len(s) THEN s[i] ELSE e
OBVIOUS

LEMMA TwoMore ==
  ASSUME NEW S, NEW s \in Seq(S), NEW d \in S, NEW e \in S
  PROVE  LET t == s \o <<d, e>> IN
         /\ t \in Seq(S) /\ Len(t) = Len(s) + 2
         /\ \A i \in 1..Len(t) : t[i] = IF i <= Len(s) THEN s[i] ELSE IF i = Len(s) + 1 THEN d ELSE e
OBVIOUS

LEMMA TailOff ==
  ASSUME NEW S, NEW s \in Seq(S), s # <<>>
  PROVE  /\ Tail(s) \in Seq(S) /\ Len(Tail(s)) = Len(s) - 1 /\ Len(s) >= 1
         /\ \A i \in 1..Len(Tail(s)) : Tail(s)[i] = s[i + 1]
         /\ Head(s) = s[1] /\ Head(s) \in S
OBVIOUS

-----------------------------------------------------------------------------
(* Steps of a handler that leave most of the state alone.                   *)

Moves(x, l) == hpc' = [hpc EXCEPT ![x] = l]

\* A handler that has been started and is not over stays started.
LEMMA RetryMoves ==
  ASSUME TypeOK, RetryInv, NEW x \in Handlers, NEW l, Moves(x, l),
         hpc[x] \notin {"none", "noruntime"}, l # "none", UNCHANGED clientVars
  PROVE  RetryInv'
<1>1. \A y \in Handlers : hpc'[y] = IF y = x THEN l ELSE hpc[y]
  BY DEF Moves, TypeOK
<1>2. UNCHANGED <<call, attempt, result>>
  BY DEF clientVars
<1> QED BY <1>1, <1>2, HandlerFacts DEF RetryInv

LEMMA TokenMoves ==
  ASSUME TypeOK, TokenInv, NEW x \in Handlers, NEW l, Moves(x, l),
         hpc[x] \in Sent => l \in Sent, UNCHANGED <<stdin, request, ran>>
  PROVE  TokenInv'
<1>1. \A y \in Handlers : hpc[y] \in Sent => hpc'[y] \in Sent
  BY DEF Moves, TypeOK
<1>2. \A c \in Calls : OnePlace(c)' = OnePlace(c) /\ Unused(c)' = Unused(c)
  BY DEF OnePlace, Unused, DataAt, Runs
<1> QED BY <1>1, <1>2, HandlerFacts DEF TokenInv

LEMMA TokenSame ==
  ASSUME TokenInv, UNCHANGED <<hpc, stdin, request, ran>>
  PROVE  TokenInv'
<1>1. \A c \in Calls : OnePlace(c)' = OnePlace(c) /\ Unused(c)' = Unused(c)
  BY DEF OnePlace, Unused, DataAt, Runs
<1> QED BY <1>1 DEF TokenInv

LEMMA ResultMoves ==
  ASSUME TypeOK, ResultInv, NEW x \in Handlers, NEW l, Moves(x, l), l = "own" => ran[x[1]] = 1,
         UNCHANGED <<stdin, request, ran, result>>,
         \A q \in Procs : \A i \in 1..Len(stdout'[q]) :
           \E j \in 1..Len(stdout[q]) : stdout'[q][i] = stdout[q][j]
  PROVE  ResultInv'
<1>1. \A y \in Handlers : hpc'[y] = IF y = x THEN l ELSE hpc[y]
  BY DEF Moves, TypeOK
<1>2. \A y \in Handlers : hpc'[y] = "own" => ran'[y[1]] = 1
  BY <1>1 DEF ResultInv
<1>3. \A q \in Procs : \A i \in 1..Len(stdout'[q]) :
        stdout'[q][i].cmd \in {"result", "long"} /\ stdout'[q][i].call # 0 =>
          ran'[stdout'[q][i].call] = 1
  <2> SUFFICES ASSUME NEW q \in Procs, NEW i \in 1..Len(stdout'[q]),
                      stdout'[q][i].cmd \in {"result", "long"}, stdout'[q][i].call # 0
               PROVE  ran'[stdout'[q][i].call] = 1
    OBVIOUS
  <2>1. PICK j \in 1..Len(stdout[q]) : stdout'[q][i] = stdout[q][j]
    OBVIOUS
  <2> QED BY <2>1 DEF ResultInv
<1> QED BY <1>2, <1>3 DEF ResultInv

\* Once a handler has an executor it keeps counting.
LEMMA StartMoves ==
  ASSUME TypeOK, StartInv, NEW x \in Handlers, NEW l, Moves(x, l),
         l \in Before => hpc[x] \in Before, started' = started, current' <= started,
         \A y \in Handlers : hproc'[y] <= started /\ (hpc'[y] \in Using => hproc'[y] # 0),
         \A p \in Procs : p > started =>
           alive'[p] = alive[p] /\ invalid'[p] = invalid[p] /\ stdin'[p] = stdin[p]
           /\ stdout'[p] = stdout[p] /\ request'[p] = request[p]
  PROVE  StartInv'
<1> DEFINE Busy == {y \in Handlers : hpc[y] \notin Before}
           Busy2 == {y \in Handlers : hpc'[y] \notin Before}
<1>1. Busy \subseteq Busy2
  BY DEF Moves, TypeOK
<1>2. IsFiniteSet(Busy2) /\ IsFiniteSet(Busy)
  BY HandlersFinite, FS_Subset
<1>3. Cardinality(Busy) <= Cardinality(Busy2) /\ Cardinality(Busy) \in Nat /\ Cardinality(Busy2) \in Nat
  BY <1>1, <1>2, FS_Subset, FS_CardinalityType
<1>4. started' <= Cardinality(Busy2)
  BY <1>3 DEF StartInv, TypeOK
<1> QED BY <1>4 DEF StartInv

-----------------------------------------------------------------------------
(* OnceInv: the handlers.                                                   *)

\* A step that writes nothing to a process and reads at most lines of one.
LEMMA ReadingOnce ==
  ASSUME OnceInv, NEW x \in Handlers, NEW l \in Before \cup Using \cup Finals, Moves(x, l),
         hpc[x] \notin {"none", "noruntime"}, l # "none", l \in Before => hpc[x] \in Before,
         hpc[x] \in Sent => l \in Sent, l = "own" => ran[x[1]] = 1,
         UNCHANGED <<clientVars, started, stdin, request, ran>>,
         hproc' = hproc \/ hproc' = [hproc EXCEPT ![x] = current],
         l \in Using => hproc'[x] # 0,
         current' \in {current, hproc[x]}, zip' \in {"absent", "partial", "whole"},
         alive' \in [Procs -> BOOLEAN], invalid' \in [Procs -> BOOLEAN],
         nextTag' \in [Procs -> Nat], htag' \in [Handlers -> Nat],
         stdout' \in [Procs -> Seq(Line(OutCmds))],
         \A q \in Procs : q > started =>
           alive'[q] = alive[q] /\ invalid'[q] = invalid[q] /\ stdout'[q] = stdout[q],
         \A q \in Procs : \A i \in 1..Len(stdout'[q]) :
           \E j \in 1..Len(stdout[q]) : stdout'[q][i] = stdout[q][j]
  PROVE  OnceInv'
<1> USE DEF OnceInv
<1>1. UNCHANGED <<call, attempt, result>>
  BY DEF clientVars
<1>2. \A y \in Handlers : /\ hpc'[y] = IF y = x THEN l ELSE hpc[y]
                          /\ hproc'[y] \in {hproc[y], current}
                          /\ y # x => hproc'[y] = hproc[y]
  BY DEF Moves, TypeOK
<1>3. TypeOK'
  <2>1. hpc' \in [Handlers -> Before \cup Using \cup Finals]
    BY DEF TypeOK, Moves
  <2>2. current \in Procs \cup {0} /\ hproc' \in [Handlers -> Procs \cup {0}]
    BY DEF TypeOK
  <2>3. current' \in Procs \cup {0}
    BY DEF TypeOK
  <2> QED BY <1>1, <2>1, <2>2, <2>3 DEF TypeOK
<1>4. current' <= started /\ \A y \in Handlers : hproc'[y] <= started
  BY <1>2 DEF StartInv
<1>5. \A y \in Handlers : hpc'[y] \in Using => hproc'[y] # 0
  BY <1>2 DEF StartInv
<1>6. StartInv'
  BY <1>4, <1>5, StartMoves
<1>7. RetryInv'
  BY RetryMoves
<1>8. TokenInv'
  BY TokenMoves
<1>9. ResultInv'
  BY <1>1, ResultMoves
<1> QED BY <1>3, <1>6, <1>7, <1>8, <1>9

\* Kill changes a process that has been started.
LEMMA KillTyped ==
  ASSUME TypeOK, NEW p \in Procs, Kill(p)
  PROVE  /\ alive' \in [Procs -> BOOLEAN] /\ invalid' \in [Procs -> BOOLEAN]
         /\ \A q \in Procs : q # p => invalid'[q] = invalid[q] /\ alive'[q] = alive[q]
         /\ invalid'[p] /\ ~alive'[p]
BY DEF TypeOK, Kill

\* The process of a handler that uses one.
LEMMA ProcOf ==
  ASSUME TypeOK, StartInv, NEW x \in Handlers, hpc[x] \in Using
  PROVE  hproc[x] \in Procs /\ hproc[x] <= started
BY DEF TypeOK, StartInv

LEMMA SimpleOnce ==
  ASSUME OnceInv, NEW x \in Handlers,
         \/ Truncate(x) \/ Fill(x) \/ GetCurrent(x) \/ NoRuntime(x) \/ TakeTag(x) \/ BumpTag(x)
         \/ SaveFails(x) \/ StartProcessFails(x)
  PROVE  OnceInv'
<1> USE DEF OnceInv
<1>1. \A q \in Procs : \A i \in 1..Len(stdout[q]) :
        \E j \in 1..Len(stdout[q]) : stdout[q][i] = stdout[q][j]
  OBVIOUS
<1>2. /\ zip \in {"absent", "partial", "whole"}
      /\ alive \in [Procs -> BOOLEAN] /\ invalid \in [Procs -> BOOLEAN]
      /\ nextTag \in [Procs -> Nat] /\ htag \in [Handlers -> Nat]
      /\ stdout \in [Procs -> Seq(Line(OutCmds))]
  BY DEF TypeOK
<1>3. ASSUME NEW l \in Before \cup Using \cup Finals, Moves(x, l),
             hpc[x] \notin {"none", "noruntime"} \cup Sent, l \notin {"none", "own"},
             l \in Before => hpc[x] \in Before,
             hproc' = hproc \/ hproc' = [hproc EXCEPT ![x] = current],
             l \in Using => hproc'[x] # 0,
             UNCHANGED <<clientVars, current, started, alive, invalid, stdin, stdout, request, ran>>,
             zip' \in {"absent", "partial", "whole"},
             nextTag' \in [Procs -> Nat], htag' \in [Handlers -> Nat]
      PROVE  OnceInv'
  BY <1>1, <1>2, <1>3, ReadingOnce
<1>4. CASE Truncate(x) \/ Fill(x) \/ NoRuntime(x)
  <2>1. PICK l \in {"fill", "get", "noruntime"} : Moves(x, l)
    BY <1>4 DEF Truncate, Fill, NoRuntime, Goto, Moves
  <2>2. hpc[x] \in {"truncate", "fill", "get"} /\ zip' \in {"absent", "partial", "whole"}
        /\ UNCHANGED <<clientVars, hproc, htag, current, procVars, ran>>
    BY <1>2, <1>4 DEF Truncate, Fill, NoRuntime, managerVars
  <2> QED BY <1>2, <1>3, <2>1, <2>2 DEF Before, Using, Sent, Finals, procVars
<1>5. CASE GetCurrent(x)
  <2>1. Moves(x, "tag") /\ hpc[x] = "get" /\ hproc' = [hproc EXCEPT ![x] = current]
        /\ UNCHANGED <<clientVars, htag, managerVars, procVars, ran>>
    BY <1>5 DEF GetCurrent, Goto, Moves
  <2>2. hproc'[x] # 0
    BY <1>5, <2>1 DEF GetCurrent, Usable, TypeOK
  <2> QED BY <1>2, <1>3, <2>1, <2>2 DEF Before, Using, Sent, Finals, procVars, managerVars
<1>6. CASE TakeTag(x)
  <2>1. hpc[x] = "tag" /\ UNCHANGED <<clientVars, hproc, current, zip, started, alive, invalid, nextTag,
                                       stdin, stdout, request, ran>>
    BY <1>6 DEF TakeTag, managerVars
  <2>2. hproc[x] \in Procs
    BY <2>1, ProcOf DEF Using
  <2>3. PICK l \in {"failed", "bump"} : Moves(x, l)
    BY <1>6 DEF TakeTag, Goto, Moves
  <2>4. htag' \in [Handlers -> Nat]
    BY <1>2, <1>6, <2>2 DEF TakeTag
  <2>5. hproc'[x] # 0
    BY <2>1, <2>2, HandlerFacts
  <2> QED BY <1>2, <1>3, <2>1, <2>3, <2>4, <2>5 DEF Before, Using, Sent, Finals
<1>7. CASE BumpTag(x)
  <2>1. hpc[x] = "bump" /\ Moves(x, "hdr")
        /\ UNCHANGED <<clientVars, hproc, htag, current, zip, started, alive, invalid,
                       stdin, stdout, request, ran>>
    BY <1>7 DEF BumpTag, managerVars, Goto, Moves
  <2>2. hproc[x] \in Procs
    BY <2>1, ProcOf DEF Using
  <2>3. nextTag' \in [Procs -> Nat]
    BY <1>2, <1>7, <2>2 DEF BumpTag
  <2>4. hproc'[x] # 0
    BY <2>1, <2>2, HandlerFacts
  <2> QED BY <1>2, <1>3, <2>1, <2>3, <2>4 DEF Before, Using, Sent, Finals
<1>8. CASE SaveFails(x) \/ StartProcessFails(x)
  <2>1. Moves(x, "failed") /\ hpc[x] \in {"truncate", "fill", "get"}
        /\ UNCHANGED <<clientVars, hproc, htag, managerVars, procVars, ran>>
    BY <1>8 DEF SaveFails, StartProcessFails, Fault, Goto, Moves
  <2> QED BY <1>2, <1>3, <2>1 DEF Before, Using, Sent, Finals, procVars, managerVars
<1> QED BY <1>4, <1>5, <1>6, <1>7, <1>8

\* What is left of stdout after a line or the greeting was read.
LEMMA HelloOnce ==
  ASSUME OnceInv, NEW x \in Handlers, Hello(x)
  PROVE  OnceInv'
<1> USE DEF OnceInv
<1> DEFINE p == hproc[x]
<1>1. hpc[x] = "hello" /\ UNCHANGED <<clientVars, hproc, htag, zip, started, nextTag, stdin, request, ran>>
  BY DEF Hello
<1>2. p \in Procs /\ p <= started /\ p # 0
  BY <1>1, ProcOf, HandlerFacts DEF Using
<1>3. CASE /\ Len(stdout[p]) >= 2 /\ stdout' = [stdout EXCEPT ![p] = SubSeq(@, 3, Len(@))]
           /\ current' = p /\ Goto(x, "tag") /\ UNCHANGED <<alive, invalid>>
  <2>1. stdout[p] \in Seq(Line(OutCmds))
    BY <1>2 DEF TypeOK
  <2> DEFINE t == SubSeq(stdout[p], 3, Len(stdout[p]))
  <2>2. t \in Seq(Line(OutCmds)) /\ Len(t) = Len(stdout[p]) - 2
        /\ \A i \in 1..Len(t) : t[i] = stdout[p][i + 2]
    BY <1>3, <2>1, TwoOff
  <2>3. stdout' = [stdout EXCEPT ![p] = t]
    BY <1>3
  <2> HIDE DEF t
  <2>4. stdout' \in [Procs -> Seq(Line(OutCmds))]
        /\ \A q \in Procs : stdout'[q] = IF q = p THEN t ELSE stdout[q]
    BY <1>2, <2>2, <2>3 DEF TypeOK
  <2>5. \A q \in Procs : \A i \in 1..Len(stdout'[q]) :
          \E j \in 1..Len(stdout[q]) : stdout'[q][i] = stdout[q][j]
    <3> SUFFICES ASSUME NEW q \in Procs, NEW i \in 1..Len(stdout'[q])
                 PROVE  \E j \in 1..Len(stdout[q]) : stdout'[q][i] = stdout[q][j]
      OBVIOUS
    <3>1. CASE q = p
      <4>1. Len(stdout[p]) \in Nat
        BY <2>1
      <4>2. i + 2 \in 1..Len(stdout[p]) /\ stdout'[q][i] = stdout[p][i + 2]
        BY <2>2, <2>4, <3>1, <4>1
      <4> QED BY <3>1, <4>2
    <3>2. CASE q # p
      BY <2>4, <3>2
    <3> QED BY <3>1, <3>2
  <2>6. \A q \in Procs : q > started =>
        alive'[q] = alive[q] /\ invalid'[q] = invalid[q] /\ stdout'[q] = stdout[q]
    BY <1>2, <1>3, <2>4, HandlerFacts DEF TypeOK
  <2>7. Moves(x, "tag") /\ current' = hproc[x] /\ hproc'[x] # 0
    BY <1>1, <1>2, <1>3 DEF Goto, Moves
  <2> QED BY <1>1, <1>3, <2>4, <2>5, <2>6, <2>7, ReadingOnce
          DEF Before, Using, Sent, Finals, TypeOK
<1>4. CASE /\ Kill(p) /\ Goto(x, "failed") /\ UNCHANGED <<current, stdout>>
  <2>1. \A q \in Procs : q > started =>
        alive'[q] = alive[q] /\ invalid'[q] = invalid[q] /\ stdout'[q] = stdout[q]
    <3>1. \A q \in Procs : q # p => invalid'[q] = invalid[q] /\ alive'[q] = alive[q]
      BY <1>2, <1>4, KillTyped
    <3>2. \A q \in Procs : q > started => q # p
      BY <1>2, HandlerFacts DEF TypeOK
    <3> QED BY <1>4, <3>1, <3>2
  <2>2. Moves(x, "failed")
    BY <1>4 DEF Goto, Moves
  <2>3. alive' \in [Procs -> BOOLEAN] /\ invalid' \in [Procs -> BOOLEAN]
    BY <1>2, <1>4, KillTyped
  <2> QED BY <1>1, <1>4, <2>1, <2>2, <2>3, ReadingOnce
          DEF Before, Using, Sent, Finals, TypeOK
<1> QED BY <1>3, <1>4 DEF Hello

\* readLine: at most the first line is gone; what makes the handler succeed was
\* a result on stdout.
LEMMA ReadLineOnce ==
  ASSUME OnceInv, NEW x \in Handlers, hpc[x] \in {"rhdr", "rdata"},
         NEW l \in {"rdata"} \cup Finals, ReadLine(x, l), l = "own" => ran[x[1]] = 1
  PROVE  OnceInv'
<1> USE DEF OnceInv
<1> DEFINE p == hproc[x]
<1>1. p \in Procs /\ p <= started /\ p # 0
  BY ProcOf, HandlerFacts DEF Using
<1>2. UNCHANGED <<clientVars, hproc, htag, current, zip, started, nextTag, stdin, request, ran>>
      /\ Moves(x, l)
  BY DEF ReadLine, managerVars, Goto, Moves
<1>3. stdout[p] \in Seq(Line(OutCmds))
  BY <1>1 DEF TypeOK
<1> DEFINE t == IF stdout[p] = <<>> \/ Stuck(p) THEN stdout[p] ELSE Tail(stdout[p])
<1>4. stdout' = [stdout EXCEPT ![p] = t]
  BY DEF ReadLine
<1>5. t \in Seq(Line(OutCmds)) /\ \A i \in 1..Len(t) : \E j \in 1..Len(stdout[p]) : t[i] = stdout[p][j]
  <2>1. CASE t = stdout[p]
    BY <1>3, <2>1
  <2>2. CASE t = Tail(stdout[p]) /\ stdout[p] # <<>>
    <3> DEFINE s == stdout[p]
    <3>1. Tail(s) \in Seq(Line(OutCmds)) /\ Len(Tail(s)) = Len(s) - 1 /\ Len(s) \in Nat
          /\ \A i \in 1..Len(Tail(s)) : Tail(s)[i] = s[i + 1]
      BY <1>3, <2>2, TailOff
    <3>2. \A i \in 1..Len(Tail(s)) : i + 1 \in 1..Len(s)
      BY <3>1
    <3> QED BY <2>2, <3>1, <3>2
  <2> QED BY <2>1, <2>2
<1> HIDE DEF t
<1>6. stdout' \in [Procs -> Seq(Line(OutCmds))]
      /\ \A q \in Procs : stdout'[q] = IF q = p THEN t ELSE stdout[q]
  BY <1>1, <1>4, <1>5 DEF TypeOK
<1>7. \A q \in Procs : \A i \in 1..Len(stdout'[q]) :
        \E j \in 1..Len(stdout[q]) : stdout'[q][i] = stdout[q][j]
  BY <1>5, <1>6
<1>8. alive' \in [Procs -> BOOLEAN] /\ invalid' \in [Procs -> BOOLEAN]
      /\ \A q \in Procs : q # p => invalid'[q] = invalid[q] /\ alive'[q] = alive[q]
  <2>1. CASE Kill(p)
    BY <1>1, <2>1, KillTyped
  <2>2. CASE UNCHANGED <<alive, invalid>>
    BY <2>2 DEF TypeOK
  <2> QED BY <2>1, <2>2 DEF ReadLine
<1>9. \A q \in Procs : q > started =>
        alive'[q] = alive[q] /\ invalid'[q] = invalid[q] /\ stdout'[q] = stdout[q]
  <2>1. \A q \in Procs : q > started => q # p
    BY <1>1, HandlerFacts DEF TypeOK
  <2> QED BY <1>6, <1>8, <2>1
<1>10. /\ zip \in {"absent", "partial", "whole"}
       /\ nextTag \in [Procs -> Nat] /\ htag \in [Handlers -> Nat]
  BY DEF TypeOK
<1> QED BY <1>1, <1>2, <1>6, <1>7, <1>8, <1>9, <1>10, ReadingOnce DEF Before, Using, Sent, Finals

\* The header and the body of an answer.
LEMMA AnswerOnce ==
  ASSUME OnceInv, NEW x \in Handlers, ReadHdr(x) \/ ReadData(x)
  PROVE  OnceInv'
<1> USE DEF OnceInv
<1>1. CASE ReadHdr(x)
  <2>1. PICK l \in {"rdata", "failed"} : ReadLine(x, l)
    BY <1>1 DEF ReadHdr
  <2> QED BY <1>1, <2>1, ReadLineOnce DEF ReadHdr, Finals
<1>2. CASE ReadData(x)
  <2>1. PICK line \in Lines(x) :
          \E l \in Finals : ReadLine(x, l) /\ (l = "own" => line.cmd \notin {"garbage", "header", "exception"}
                                                           /\ line.call = x[1])
    BY <1>2 DEF ReadData, Finals
  <2>2. PICK l \in Finals : ReadLine(x, l) /\ (l = "own" => line.cmd \notin {"garbage", "header", "exception"}
                                                            /\ line.call = x[1])
    BY <2>1
  <2>3. l = "own" => ran[x[1]] = 1
    <3> SUFFICES ASSUME l = "own" PROVE ran[x[1]] = 1
      OBVIOUS
    <3>1. hproc[x] \in Procs
      BY <1>2, ProcOf DEF ReadData, Using
    <3>2. stdout[hproc[x]] # <<>> /\ line = Head(stdout[hproc[x]])
      BY <2>2 DEF Lines, Garbage
    <3> DEFINE s == stdout[hproc[x]]
    <3>3. s \in Seq(Line(OutCmds))
      BY <3>1 DEF TypeOK
    <3>4. Len(s) >= 1 /\ line = s[1] /\ line \in Line(OutCmds) /\ Len(s) \in Nat
      BY <3>2, <3>3, TailOff
    <3>5. line.cmd \in OutCmds
      BY <3>4 DEF Line
    <3>6. line.cmd \in {"result", "long"}
      BY <2>2, <3>5 DEF OutCmds
    <3>7. line.call = x[1] /\ x[1] # 0
      BY <2>2, HandlerFacts, Zenon
    <3>8. 1 \in 1..Len(s)
      BY <3>4
    <3> QED BY <3>1, <3>4, <3>6, <3>7, <3>8 DEF ResultInv
  <2> QED BY <1>2, <2>2, <2>3, ReadLineOnce DEF ReadData
<1> QED BY <1>1, <1>2

-----------------------------------------------------------------------------
(* OnceInv: what is written.                                                *)

\* A call whose data lines only move towards the head of stdin, or disappear.
LEMMA TokenFrame ==
  ASSUME NEW c, NEW d \in [Procs -> Nat],
         \A q \in Procs : \A i \in Nat : DataAt(q, i, c)' => DataAt(q, i + d[q], c),
         \A q \in Procs : Runs(q, c)' => Runs(q, c),
         ran'[c] = ran[c]
  PROVE  (OnePlace(c) => OnePlace(c)') /\ (Unused(c) => Unused(c)')
<1>1. \A q \in Procs : \A i, j \in Nat : i + d[q] \in Nat /\ (i + d[q] = j + d[q] => i = j)
  OBVIOUS
<1>2. Unused(c) => Unused(c)'
  BY <1>1 DEF Unused
<1>3. ASSUME OnePlace(c) PROVE OnePlace(c)'
  <2>1. \A p, q \in Procs : \A i, j \in Nat : DataAt(p, i, c)' /\ DataAt(q, j, c)' => p = q /\ i = j
    BY <1>1, <1>3 DEF OnePlace
  <2>2. \A p, q \in Procs : Runs(p, c)' /\ Runs(q, c)' => p = q
    BY <1>3 DEF OnePlace
  <2>3. \A p, q \in Procs : \A i \in Nat : ~(DataAt(p, i, c)' /\ Runs(q, c)')
    BY <1>1, <1>3 DEF OnePlace
  <2>4. ran'[c] <= 1
        /\ (ran'[c] = 1 => \A p \in Procs : ~Runs(p, c)' /\ \A i \in Nat : ~DataAt(p, i, c)')
    BY <1>1, <1>3 DEF OnePlace
  <2> QED BY <2>1, <2>2, <2>3, <2>4 DEF OnePlace
<1> QED BY <1>2, <1>3

\* writeLine to a process that is gone.
LEMMA WriteDead ==
  ASSUME OnceInv, NEW x \in Handlers, hpc[x] \in {"hdr", "data"}, Kill(hproc[x]), Moves(x, "failed"),
         UNCHANGED <<clientVars, hproc, htag, managerVars, started, nextTag, stdin, stdout, request, ran>>
  PROVE  OnceInv'
<1> USE DEF OnceInv
<1> DEFINE p == hproc[x]
<1>1. p \in Procs /\ p <= started
  BY ProcOf DEF Using
<1>2. alive' \in [Procs -> BOOLEAN] /\ invalid' \in [Procs -> BOOLEAN]
      /\ \A q \in Procs : q # p => invalid'[q] = invalid[q] /\ alive'[q] = alive[q]
  BY <1>1, KillTyped
<1>3. \A q \in Procs : q > started => q # p
  BY <1>1, HandlerFacts DEF TypeOK
<1>4. \A q \in Procs : q > started =>
        alive'[q] = alive[q] /\ invalid'[q] = invalid[q] /\ stdout'[q] = stdout[q]
  BY <1>2, <1>3
<1>5. \A q \in Procs : \A i \in 1..Len(stdout'[q]) :
        \E j \in 1..Len(stdout[q]) : stdout'[q][i] = stdout[q][j]
  OBVIOUS
<1>6. UNCHANGED <<current, zip>>
  BY DEF managerVars
<1> QED BY <1>2, <1>4, <1>5, <1>6, ReadingOnce DEF Before, Using, Sent, Finals, TypeOK

\* writeLine to a process that lives, but for what becomes of the call.
LEMMA WriteAlive ==
  ASSUME OnceInv, NEW x \in Handlers, hpc[x] \in {"hdr", "data"}, NEW l \in {"data", "rhdr"},
         Moves(x, l), NEW e \in Line(InCmds), e.cmd # "hello",
         stdin' = [stdin EXCEPT ![hproc[x]] = Append(@, e)],
         UNCHANGED <<clientVars, hproc, htag, managerVars, started, alive, invalid, nextTag, stdout, request, ran>>,
         TokenInv'
  PROVE  OnceInv'
<1> USE DEF OnceInv
<1> DEFINE p == hproc[x]
           s == stdin[p]
           t == Append(s, e)
<1>1. p \in Procs /\ p <= started /\ p # 0
  BY ProcOf, HandlerFacts DEF Using
<1>2. UNCHANGED <<call, attempt, result, current, zip>>
  BY DEF clientVars, managerVars
<1>3. s \in Seq(Line(InCmds)) /\ Len(s) \in Nat
  BY <1>1 DEF TypeOK
<1>4. /\ t \in Seq(Line(InCmds)) /\ Len(t) = Len(s) + 1
      /\ \A i \in 1..Len(t) : t[i] = IF i <= Len(s) THEN s[i] ELSE e
  BY <1>3, OneMore
<1>5. stdin' = [stdin EXCEPT ![p] = t]
  OBVIOUS
<1> HIDE DEF t
<1>6. stdin' \in [Procs -> Seq(Line(InCmds))]
      /\ \A q \in Procs : stdin'[q] = IF q = p THEN t ELSE stdin[q]
  <2>1. stdin \in [Procs -> Seq(Line(InCmds))]
    BY DEF TypeOK
  <2> QED BY <1>1, <1>4, <1>5, <2>1
<1>7. \A y \in Handlers : hpc'[y] = IF y = x THEN l ELSE hpc[y]
  BY DEF Moves, TypeOK
<1>8. TypeOK'
  <2>1. hpc' \in [Handlers -> Before \cup Using \cup Finals]
    BY DEF TypeOK, Moves, Using
  <2> QED BY <1>2, <1>6, <2>1 DEF TypeOK
<1>9. StartInv'
  <2>1. \A q \in Procs : q > started => q # p
    BY <1>1, HandlerFacts DEF TypeOK
  <2>2. \A q \in Procs : q > started => stdin'[q] = stdin[q]
    BY <1>6, <2>1
  <2>3. l \notin Before
    BY DEF Before
  <2>4. \A y \in Handlers : hproc'[y] <= started /\ (hpc'[y] \in Using => hproc'[y] # 0)
    BY <1>1, <1>7 DEF StartInv
  <2>5. current' <= started
    BY <1>2 DEF StartInv
  <2> QED BY <2>2, <2>3, <2>4, <2>5, StartMoves
<1>10. RetryInv'
  BY RetryMoves
<1>11. ResultInv'
  <2>1. ASSUME NEW q \in Procs, NEW i \in 1..Len(stdin'[q]), stdin'[q][i].cmd = "hello"
        PROVE  i = 1 /\ Len(stdin'[q]) >= 2 /\ stdin'[q][2].call = 0
    <3>1. CASE q # p
      BY <1>6, <2>1, <3>1 DEF ResultInv
    <3>2. CASE q = p
      <4>1. stdin'[q] = t
        BY <1>6, <3>2
      <4>2. i \in 1..Len(s) /\ s[i].cmd = "hello"
        BY <1>3, <1>4, <2>1, <4>1
      <4>3. i = 1 /\ Len(s) >= 2 /\ s[2].call = 0
        BY <1>1, <4>2 DEF ResultInv
      <4>4. Len(t) >= 2 /\ t[2] = s[2]
        BY <1>3, <1>4, <4>3
      <4> QED BY <4>1, <4>3, <4>4
    <3> QED BY <3>1, <3>2
  <2>2. \A y \in Handlers : hpc'[y] = "own" => ran'[y[1]] = 1
    BY <1>7 DEF ResultInv
  <2> QED BY <1>2, <2>1, <2>2 DEF ResultInv
<1> QED BY <1>8, <1>9, <1>10, <1>11

\* Where the data lines are after a line was written.
LEMMA DataAppend ==
  ASSUME TypeOK, NEW p \in Procs, NEW e \in Line(InCmds), stdin' = [stdin EXCEPT ![p] = Append(@, e)],
         NEW q \in Procs, NEW i \in Nat, NEW c, DataAt(q, i, c)'
  PROVE  \/ DataAt(q, i, c)
         \/ q = p /\ i = Len(stdin[p]) + 1 /\ e.cmd = "data" /\ e.call = c
<1> DEFINE s == stdin[p]
           t == Append(s, e)
<1>1. s \in Seq(Line(InCmds)) /\ Len(s) \in Nat
  BY DEF TypeOK
<1>2. Len(t) = Len(s) + 1 /\ \A j \in 1..Len(t) : t[j] = IF j <= Len(s) THEN s[j] ELSE e
  BY <1>1, OneMore
<1>3. stdin'[q] = IF q = p THEN t ELSE stdin[q]
  BY DEF TypeOK
<1> HIDE DEF t
<1>4. CASE q # p
  BY <1>3, <1>4 DEF DataAt
<1>5. CASE q = p
  <2>1. i \in 1..Len(t) /\ t[i].cmd = "data" /\ t[i].call = c
    BY <1>3, <1>5 DEF DataAt
  <2>2. CASE i <= Len(s)
    BY <1>1, <1>2, <1>5, <2>1, <2>2 DEF DataAt
  <2>3. CASE ~(i <= Len(s))
    <3>1. i = Len(s) + 1
      BY <1>1, <1>2, <2>1, <2>3
    <3>2. t[i] = e
      BY <1>2, <2>1, <2>3
    <3> QED BY <1>5, <2>1, <3>1, <3>2
  <2> QED BY <2>2, <2>3
<1> QED BY <1>4, <1>5

\* A call whose data lines stay where they are.
LEMMA TokenStays ==
  ASSUME NEW c, \A q \in Procs : \A i \in Nat : DataAt(q, i, c)' => DataAt(q, i, c),
         \A q \in Procs : Runs(q, c)' => Runs(q, c), ran'[c] = ran[c]
  PROVE  (OnePlace(c) => OnePlace(c)') /\ (Unused(c) => Unused(c)')
<1> DEFINE d == [q \in Procs |-> 0]
<1>1. \A q \in Procs : \A i \in Nat : i + d[q] = i
  OBVIOUS
<1>2. \A q \in Procs : \A i \in Nat : DataAt(q, i, c)' => DataAt(q, i + d[q], c)
  BY <1>1
<1>3. d \in [Procs -> Nat]
  OBVIOUS
<1> HIDE DEF d
<1> QED BY <1>2, <1>3, TokenFrame

\* A call that an appended line does not belong to.
LEMMA OtherCall ==
  ASSUME TypeOK, NEW p \in Procs, NEW e \in Line(InCmds), stdin' = [stdin EXCEPT ![p] = Append(@, e)],
         UNCHANGED <<request, ran>>, NEW c, ~(e.cmd = "data" /\ e.call = c)
  PROVE  (OnePlace(c) => OnePlace(c)') /\ (Unused(c) => Unused(c)')
<1>1. \A q \in Procs : \A i \in Nat : DataAt(q, i, c)' => DataAt(q, i, c)
  BY DataAppend
<1>2. \A q \in Procs : Runs(q, c)' => Runs(q, c)
  BY DEF Runs
<1> QED BY <1>1, <1>2, TokenStays

LEMMA HdrOnce ==
  ASSUME OnceInv, NEW x \in Handlers, WriteHdr(x)
  PROVE  OnceInv'
<1> USE DEF OnceInv
<1> DEFINE e == [cmd |-> "execute", call |-> x[1], tag |-> htag[x]]
<1>1. hpc[x] = "hdr" /\ Write(x, e, "data")
  BY DEF WriteHdr
<1>2. e \in Line(InCmds) /\ e.cmd = "execute"
  <2>1. x[1] \in Calls /\ htag[x] \in Nat
    BY HandlerFacts DEF TypeOK
  <2> QED BY <2>1 DEF Line, InCmds
<1>3. hproc[x] \in Procs
  BY <1>1, ProcOf DEF Using
<1> HIDE DEF e
<1>4. CASE ~alive[hproc[x]]
  BY <1>1, <1>4, WriteDead DEF Write, Goto, Moves
<1>5. CASE alive[hproc[x]]
  <2>1. /\ stdin' = [stdin EXCEPT ![hproc[x]] = Append(@, e)] /\ Moves(x, "data")
        /\ UNCHANGED <<clientVars, hproc, htag, managerVars, started, alive, invalid, nextTag, stdout, request, ran>>
    BY <1>1, <1>5 DEF Write, Goto, Moves
  <2>2. \A c \in Calls : (OnePlace(c) => OnePlace(c)') /\ (Unused(c) => Unused(c)')
    BY <1>2, <1>3, <2>1, OtherCall
  <2>3. \A y \in Handlers : hpc[y] \in Sent => hpc'[y] \in Sent
    BY <1>1, <2>1 DEF Moves, TypeOK, Sent, Finals
  <2>4. TokenInv'
    BY <2>2, <2>3, HandlerFacts DEF TokenInv
  <2> QED BY <1>1, <1>2, <2>1, <2>4, WriteAlive
<1> QED BY <1>4, <1>5

\* A call whose request a handler is about to write was not written before: the
\* other attempt wrote nothing.
LEMMA NotYetWritten ==
  ASSUME OnceInv, NEW x \in Handlers, hpc[x] = "data"
  PROVE  Unused(x[1])
<1> DEFINE c == x[1]
<1>1. c \in Calls /\ x \in {<<c, 1>>, <<c, 2>>}
  BY HandlerFacts
<1>2. \A k \in {1, 2} : hpc[<<c, k>>] \notin Sent
  BY <1>1 DEF OnceInv, RetryInv, Sent, Finals
<1> QED BY <1>1, <1>2 DEF OnceInv, TokenInv

LEMMA DataOnce ==
  ASSUME OnceInv, NEW x \in Handlers, WriteData(x)
  PROVE  OnceInv'
<1> USE DEF OnceInv
<1> DEFINE p == hproc[x]
           n == Len(stdin[p]) + 1
           e == [cmd |-> "data", call |-> x[1], tag |-> 0]
<1>1. hpc[x] = "data" /\ Write(x, e, "rhdr")
  BY DEF WriteData
<1>2. e \in Line(InCmds) /\ e.cmd = "data" /\ e.call = x[1] /\ x[1] \in Calls
  <2>1. x[1] \in Calls
    BY HandlerFacts
  <2> QED BY <2>1 DEF Line, InCmds
<1>3. p \in Procs
  BY <1>1, ProcOf DEF Using
<1> HIDE DEF e
<1>4. CASE ~alive[p]
  BY <1>1, <1>4, WriteDead DEF Write, Goto, Moves
<1>5. CASE alive[p]
  <2>1. /\ stdin' = [stdin EXCEPT ![p] = Append(@, e)] /\ Moves(x, "rhdr")
        /\ UNCHANGED <<clientVars, hproc, htag, managerVars, started, alive, invalid, nextTag, stdout, request, ran>>
    BY <1>1, <1>5 DEF Write, Goto, Moves
  <2>2. \A c \in Calls : c # x[1] => (OnePlace(c) => OnePlace(c)') /\ (Unused(c) => Unused(c)')
    BY <1>2, <1>3, <2>1, OtherCall
  <2>3. \A y \in Handlers : hpc'[y] = IF y = x THEN "rhdr" ELSE hpc[y]
    BY <2>1 DEF Moves, TypeOK
  <2>4. OnePlace(x[1])'
    <3>1. Unused(x[1])
      BY <1>1, NotYetWritten
    <3>2. \A q \in Procs : ~Runs(q, x[1])'
      BY <2>1, <3>1 DEF Unused, Runs
    <3>3. \A q \in Procs : \A i \in Nat : DataAt(q, i, x[1])' => q = p /\ i = n
      <4> SUFFICES ASSUME NEW q \in Procs, NEW i \in Nat, DataAt(q, i, x[1])'
                   PROVE  q = p /\ i = n
        OBVIOUS
      <4>1. ~DataAt(q, i, x[1])
        BY <3>1 DEF Unused
      <4>2. /\ stdin' = [stdin EXCEPT ![p] = Append(@, e)] /\ p \in Procs /\ TypeOK
            /\ e \in Line(InCmds) /\ q \in Procs /\ i \in Nat /\ DataAt(q, i, x[1])'
        BY <1>2, <1>3, <2>1
      <4> HIDE DEF p, OnceInv
      <4>3. \/ DataAt(q, i, x[1])
            \/ q = p /\ i = Len(stdin[p]) + 1 /\ e.cmd = "data" /\ e.call = x[1]
        BY ONLY <4>2, DataAppend
      <4> QED BY <4>1, <4>3
    <3>4. ran'[x[1]] = 0
      BY <2>1, <3>1 DEF Unused
    <3> HIDE DEF n, p
    <3> QED BY <3>2, <3>3, <3>4 DEF OnePlace
  <2>5. \A c \in Calls : OnePlace(c)'
    BY <2>2, <2>4 DEF TokenInv
  <2>6. \A c \in Calls : Unused(c)' \/ \E k \in {1, 2} : hpc'[<<c, k>>] \in Sent
    <3>1. hpc'[<<x[1], x[2]>>] \in Sent /\ x[2] \in {1, 2}
      BY <2>3, HandlerFacts DEF Sent
    <3>2. \A y \in Handlers : hpc[y] \in Sent => hpc'[y] \in Sent
      BY <2>3 DEF Sent
    <3>3. \A c \in Calls : c # x[1] => Unused(c)' \/ \E k \in {1, 2} : hpc'[<<c, k>>] \in Sent
      BY <2>2, <3>2, HandlerFacts DEF TokenInv
    <3> QED BY <3>1, <3>3
  <2>7. TokenInv'
    BY <2>5, <2>6 DEF TokenInv
  <2> QED BY <1>1, <1>2, <2>1, <2>7, WriteAlive
<1> QED BY <1>4, <1>5


-----------------------------------------------------------------------------
(* OnceInv: the processes.                                                  *)

\* There is room for another process: the handler that starts it has none yet.
LEMMA StartRoom ==
  ASSUME TypeOK, StartInv, NEW x \in Handlers, hpc[x] \in Before, NEW l, l \notin Before, Moves(x, l)
  PROVE  /\ started + 1 \in Procs
         /\ started + 1 <= Cardinality({y \in Handlers : hpc'[y] \notin Before})
<1> DEFINE Busy == {y \in Handlers : hpc[y] \notin Before}
           Busy2 == {y \in Handlers : hpc'[y] \notin Before}
<1>1. IsFiniteSet(Busy) /\ IsFiniteSet(Busy2)
  BY HandlersFinite, FS_Subset
<1>2. Busy2 = Busy \cup {x} /\ x \notin Busy
  BY DEF Moves, TypeOK
<1>3. Cardinality(Busy2) = Cardinality(Busy) + 1 /\ Cardinality(Busy) \in Nat
  BY <1>1, <1>2, FS_AddElement, FS_CardinalityType
<1>4. Cardinality(Busy2) <= 2 * NCalls
  <2>1. Busy2 \subseteq Handlers
    OBVIOUS
  <2> QED BY <2>1, HandlersFinite, FS_Subset
<1>5. started \in Nat /\ started <= Cardinality(Busy)
  BY DEF StartInv, TypeOK
<1> HIDE DEF Busy, Busy2
<1>6. started + 1 <= Cardinality(Busy2)
  BY <1>3, <1>5
<1>7. started + 1 \in Procs
  BY <1>3, <1>4, <1>5, RuntimeAssumption DEF Procs
<1> QED BY <1>6, <1>7 DEF Busy2

LEMMA StartOnce ==
  ASSUME OnceInv, NEW x \in Handlers, StartProcess(x)
  PROVE  OnceInv'
<1> USE DEF OnceInv
<1> DEFINE p == started + 1
<1>1. /\ hpc[x] = "get" /\ Moves(x, "hello") /\ started' = p
      /\ hproc' = [hproc EXCEPT ![x] = p] /\ alive' = [alive EXCEPT ![p] = TRUE]
      /\ request' = [request EXCEPT ![p] = Import] /\ nextTag' = [nextTag EXCEPT ![p] = 2]
      /\ stdin' = [stdin EXCEPT ![p] = HelloLines]
      /\ UNCHANGED <<clientVars, htag, managerVars, invalid, stdout, ran>>
  BY DEF StartProcess, Goto, Moves, HelloLines
<1>2. UNCHANGED <<call, attempt, result, current, zip>>
  BY <1>1 DEF clientVars, managerVars
<1>3. p \in Procs /\ p <= Cardinality({y \in Handlers : hpc'[y] \notin Before})
  BY <1>1, StartRoom DEF Before
<1>4. started \in Nat /\ p \in Nat /\ p > started /\ p # 0 /\ \A n \in Nat : n <= started => n <= p
  BY DEF TypeOK
<1> HIDE DEF p
<1>5. /\ HelloLines \in Seq(Line(InCmds)) /\ Len(HelloLines) = 2
      /\ HelloLines[1].cmd = "hello" /\ HelloLines[1].call = 0
      /\ HelloLines[2].cmd = "data" /\ HelloLines[2].call = 0
  BY DEF HelloLines, Line, InCmds
<1> HIDE DEF HelloLines
<1>6. /\ \A q \in Procs : stdin'[q] = IF q = p THEN HelloLines ELSE stdin[q]
      /\ \A q \in Procs : request'[q] = IF q = p THEN Import ELSE request[q]
  BY <1>1, <1>3 DEF TypeOK
<1>7. \A y \in Handlers : hpc'[y] = IF y = x THEN "hello" ELSE hpc[y]
  BY <1>1 DEF Moves, TypeOK
<1>8. TypeOK'
  <2>1. hpc' \in [Handlers -> Before \cup Using \cup Finals]
    BY <1>1 DEF TypeOK, Moves, Using
  <2>2. stdin' \in [Procs -> Seq(Line(InCmds))]
    BY <1>1, <1>3, <1>5 DEF TypeOK
  <2>3. Import \in Line({"none", "import", "hello", "execute", "malformed"})
    BY DEF Import, Line
  <2>4. request' \in [Procs -> Line({"none", "import", "hello", "execute", "malformed"})]
    BY <1>1, <2>3 DEF TypeOK
  <2>5. hproc' \in [Handlers -> Procs \cup {0}]
    BY <1>1, <1>3 DEF TypeOK
  <2>6. alive' \in [Procs -> BOOLEAN] /\ nextTag' \in [Procs -> Nat]
    BY <1>1 DEF TypeOK
  <2> QED BY <1>1, <1>2, <1>4, <2>1, <2>2, <2>4, <2>5, <2>6 DEF TypeOK
<1>9. StartInv'
  <2>1. \A y \in Handlers : hproc'[y] = IF y = x THEN p ELSE hproc[y]
    BY <1>1 DEF TypeOK
  <2>2. \A n \in Procs \cup {0} : n <= started => n <= p
    BY <1>4, HandlerFacts
  <2>3. \A y \in Handlers : hproc'[y] <= started' /\ (hpc'[y] \in Using => hproc'[y] # 0)
    BY <1>1, <1>4, <1>7, <2>1, <2>2 DEF StartInv, TypeOK
  <2>4. current' <= started'
    BY <1>1, <1>2, <2>2 DEF StartInv, TypeOK
  <2>5. \A q \in Procs : q > started' => q > started /\ q # p
    BY <1>1, <1>4, HandlerFacts DEF p
  <2>6. \A q \in Procs : q # p => alive'[q] = alive[q]
    BY <1>1 DEF TypeOK
  <2>7. \A q \in Procs : q > started' =>
          ~alive'[q] /\ ~invalid'[q] /\ stdin'[q] = <<>> /\ stdout'[q] = <<>> /\ request'[q] = NoRequest
    BY <1>1, <1>6, <2>5, <2>6 DEF StartInv
  <2> QED BY <1>1, <1>3, <2>3, <2>4, <2>7 DEF StartInv
<1>10. RetryInv'
  BY <1>1, RetryMoves
<1>11. TokenInv'
  <2>1. \A c \in Calls : \A q \in Procs : \A i \in Nat : DataAt(q, i, c)' => DataAt(q, i, c)
    <3> SUFFICES ASSUME NEW c \in Calls, NEW q \in Procs, NEW i \in Nat, DataAt(q, i, c)'
                 PROVE  DataAt(q, i, c)
      OBVIOUS
    <3>1. CASE q # p
      BY <1>6, <3>1 DEF DataAt
    <3>2. CASE q = p
      <4>1. i \in 1..2 /\ HelloLines[i].call = c
        BY <1>5, <1>6, <3>2 DEF DataAt
      <4>2. c = 0
        BY <1>5, <4>1
      <4> QED BY <4>2, HandlerFacts
    <3> QED BY <3>1, <3>2
  <2>2. \A c \in Calls : \A q \in Procs : Runs(q, c)' => Runs(q, c)
    BY <1>6 DEF Runs, Import
  <2>3. \A c \in Calls : (OnePlace(c) => OnePlace(c)') /\ (Unused(c) => Unused(c)')
    BY <1>1, <2>1, <2>2, TokenStays
  <2>4. \A y \in Handlers : hpc[y] \in Sent => hpc'[y] \in Sent
    BY <1>1, <1>7 DEF Sent, Finals
  <2> QED BY <2>3, <2>4, HandlerFacts DEF TokenInv
<1>12. ResultInv'
  <2>1. ASSUME NEW q \in Procs, NEW i \in 1..Len(stdin'[q]), stdin'[q][i].cmd = "hello"
        PROVE  i = 1 /\ Len(stdin'[q]) >= 2 /\ stdin'[q][2].call = 0
    <3>1. CASE q # p
      BY <1>6, <2>1, <3>1 DEF ResultInv
    <3>2. CASE q = p
      BY <1>5, <1>6, <2>1, <3>2
    <3> QED BY <3>1, <3>2
  <2>2. \A y \in Handlers : hpc'[y] = "own" => ran'[y[1]] = 1
    BY <1>1, <1>7 DEF ResultInv
  <2>3. \A q \in Procs : request'[q].cmd \notin {"execute", "malformed"} => request'[q].call = 0
    BY <1>6 DEF ResultInv, Import
  <2> QED BY <1>1, <1>2, <2>1, <2>2, <2>3 DEF ResultInv
<1> QED BY <1>8, <1>9, <1>10, <1>11, <1>12


Requests == Line({"none", "import", "hello", "execute", "malformed"})

\* A process changes only what is its own.
LEMMA ProcFrame ==
  ASSUME OnceInv, NEW p \in Procs, alive[p],
         UNCHANGED <<clientVars, handlerVars, managerVars, started, invalid, nextTag>>,
         alive' \in [Procs -> BOOLEAN], request' \in [Procs -> Requests],
         stdin' \in [Procs -> Seq(Line(InCmds))], stdout' \in [Procs -> Seq(Line(OutCmds))],
         ran' \in [Calls -> Nat],
         \A q \in Procs : q # p => alive'[q] = alive[q] /\ stdin'[q] = stdin[q]
                                   /\ stdout'[q] = stdout[q] /\ request'[q] = request[q]
  PROVE  /\ TypeOK' /\ StartInv' /\ RetryInv'
         /\ UNCHANGED <<call, attempt, result, hpc, hproc, htag, current, zip>>
<1> USE DEF OnceInv
<1>1. UNCHANGED <<call, attempt, result, hpc, hproc, htag, current, zip>>
  BY DEF clientVars, handlerVars, managerVars
<1>2. TypeOK'
  BY <1>1 DEF TypeOK, Requests
<1>3. \A q \in Procs : q > started => q # p
  BY DEF StartInv
<1>4. StartInv'
  BY <1>1, <1>3 DEF StartInv
<1>5. RetryInv'
  BY <1>1 DEF RetryInv
<1> QED BY <1>1, <1>2, <1>4, <1>5

LEMMA ImportOnce ==
  ASSUME OnceInv, NEW p \in Procs, PyImport(p)
  PROVE  OnceInv'
<1> USE DEF OnceInv
<1>1. /\ alive[p] /\ request' = [request EXCEPT ![p] = NoRequest]
      /\ UNCHANGED <<clientVars, handlerVars, managerVars, started, alive, invalid, nextTag, stdin,
                     stdout, ran>>
  BY DEF PyImport
<1>2. NoRequest \in Requests
  BY DEF NoRequest, Requests, Line
<1>3. request' \in [Procs -> Requests] /\ \A q \in Procs : request'[q] = IF q = p THEN NoRequest ELSE request[q]
  BY <1>1, <1>2 DEF TypeOK, Requests
<1>4. alive' \in [Procs -> BOOLEAN] /\ \A q \in Procs : q # p => alive'[q] = alive[q]
  BY <1>1 DEF TypeOK
<1>5. /\ stdin \in [Procs -> Seq(Line(InCmds))] /\ stdout \in [Procs -> Seq(Line(OutCmds))]
      /\ ran \in [Calls -> Nat]
  BY DEF TypeOK
<1>6. /\ TypeOK' /\ StartInv' /\ RetryInv'
      /\ UNCHANGED <<call, attempt, result, hpc, hproc, htag, current, zip>>
  BY <1>1, <1>3, <1>4, <1>5, ProcFrame
<1>7. TokenInv'
  <2>1. \A c \in Calls : \A q \in Procs : Runs(q, c)' => Runs(q, c)
    BY <1>3 DEF Runs, NoRequest
  <2>2. \A c \in Calls : \A q \in Procs : \A i \in Nat : DataAt(q, i, c)' => DataAt(q, i, c)
    BY <1>1 DEF DataAt
  <2>3. \A c \in Calls : (OnePlace(c) => OnePlace(c)') /\ (Unused(c) => Unused(c)')
    BY <1>1, <2>1, <2>2, TokenStays
  <2> QED BY <1>6, <2>3 DEF TokenInv
<1>8. ResultInv'
  <2>1. \A q \in Procs : request'[q].cmd \notin {"execute", "malformed"} => request'[q].call = 0
    BY <1>3 DEF ResultInv, NoRequest
  <2> QED BY <1>1, <1>6, <2>1 DEF ResultInv
<1> QED BY <1>6, <1>7, <1>8

\* What a process reads: two lines, and the second one is the call it works on.
LEMMA ReadOnce ==
  ASSUME OnceInv, NEW p \in Procs, PyRead(p)
  PROVE  OnceInv'
<1> USE DEF OnceInv
<1> DEFINE s == stdin[p]
           t == SubSeq(s, 3, Len(s))
<1>1. /\ alive[p] /\ request[p] = NoRequest /\ Len(s) >= 2
      /\ stdin' = [stdin EXCEPT ![p] = t]
      /\ UNCHANGED <<clientVars, handlerVars, managerVars, started, invalid, nextTag, stdout, ran>>
  BY DEF PyRead
<1>2. s \in Seq(Line(InCmds)) /\ Len(s) \in Nat
  BY DEF TypeOK
<1>3. t \in Seq(Line(InCmds)) /\ Len(t) = Len(s) - 2 /\ \A i \in 1..Len(t) : t[i] = s[i + 2]
  BY <1>1, <1>2, TwoOff
<1> HIDE DEF t
<1>4. s[1] \in Line(InCmds) /\ s[2] \in Line(InCmds)
  BY <1>1, <1>2
<1>5. stdin' \in [Procs -> Seq(Line(InCmds))]
      /\ \A q \in Procs : stdin'[q] = IF q = p THEN t ELSE stdin[q]
  BY <1>1, <1>3 DEF TypeOK
<1> DEFINE r == [cmd |-> IF s[1].cmd = "execute" /\ s[2].cmd # "data" THEN "malformed" ELSE s[1].cmd,
                 call |-> s[2].call, tag |-> s[1].tag]
<1>6. \/ s[1].cmd = "data" /\ alive' = [alive EXCEPT ![p] = FALSE] /\ UNCHANGED request
      \/ s[1].cmd # "data" /\ request' = [request EXCEPT ![p] = r] /\ UNCHANGED alive
  BY DEF PyRead
<1>7. s[1].cmd # "data" => r \in Requests
  <2>1. s[1].cmd \in InCmds /\ s[2].call \in Calls \cup {0} /\ s[1].tag \in Nat
    BY <1>4 DEF Line
  <2> QED BY <2>1 DEF Line, Requests, InCmds
<1>8. /\ r.call = s[2].call
      /\ r.cmd = "execute" => s[1].cmd = "execute" /\ s[2].cmd = "data"
      /\ s[1].cmd # "data" => r.cmd \in {"execute", "malformed"} \/ s[1].cmd = "hello"
  <2>1. s[1].cmd \in InCmds
    BY <1>4 DEF Line
  <2> QED BY <2>1 DEF InCmds
<1> HIDE DEF r
<1>9. /\ request' \in [Procs -> Requests] /\ alive' \in [Procs -> BOOLEAN]
      /\ \A q \in Procs : q # p => request'[q] = request[q] /\ alive'[q] = alive[q]
      /\ request'[p] \in {request[p], r} /\ (request'[p] = r => request'[p] = request[p] \/ s[1].cmd # "data")
  <2>1. CASE s[1].cmd = "data" /\ alive' = [alive EXCEPT ![p] = FALSE] /\ UNCHANGED request
    BY <2>1 DEF TypeOK, Requests
  <2>2. CASE s[1].cmd # "data" /\ request' = [request EXCEPT ![p] = r] /\ UNCHANGED alive
    BY <1>7, <2>2 DEF TypeOK, Requests
  <2> QED BY <1>6, <2>1, <2>2
<1>10. stdout \in [Procs -> Seq(Line(OutCmds))] /\ ran \in [Calls -> Nat]
  BY DEF TypeOK
<1>11. /\ TypeOK' /\ StartInv' /\ RetryInv'
       /\ UNCHANGED <<call, attempt, result, hpc, hproc, htag, current, zip>>
  BY <1>1, <1>5, <1>9, <1>10, ProcFrame
<1>12. ASSUME NEW c \in Calls, NEW q \in Procs, NEW i \in Nat, DataAt(q, i, c)'
       PROVE  DataAt(q, i + (IF q = p THEN 2 ELSE 0), c) /\ i # 0
  <2>1. CASE q # p
    <3>1. i + 0 = i
      OBVIOUS
    <3>2. i \in 1..Len(stdin[q]) /\ DataAt(q, i, c)
      BY <1>5, <1>12, <2>1 DEF DataAt
    <3> QED BY <2>1, <3>1, <3>2
  <2>2. CASE q = p
    <3>1. i \in 1..Len(t) /\ t[i].cmd = "data" /\ t[i].call = c
      BY <1>5, <1>12, <2>2 DEF DataAt
    <3>2. i + 2 \in 1..Len(s) /\ t[i] = s[i + 2] /\ i # 0
      BY <1>2, <1>3, <3>1
    <3> QED BY <2>2, <3>1, <3>2 DEF DataAt
  <2> QED BY <2>1, <2>2
<1>13. ASSUME NEW c \in Calls, \A q \in Procs : Runs(q, c)' => Runs(q, c)
       PROVE  (OnePlace(c) => OnePlace(c)') /\ (Unused(c) => Unused(c)')
  <2> DEFINE d == [q \in Procs |-> IF q = p THEN 2 ELSE 0]
  <2>1. \A q \in Procs : \A i \in Nat : DataAt(q, i, c)' => DataAt(q, i + d[q], c)
    BY <1>12
  <2>2. d \in [Procs -> Nat]
    OBVIOUS
  <2> HIDE DEF d
  <2> QED BY <1>1, <1>13, <2>1, <2>2, TokenFrame
<1>14. TokenInv'
  <2> SUFFICES ASSUME NEW c \in Calls
               PROVE  OnePlace(c)' /\ (Unused(c)' \/ \E k \in {1, 2} : hpc'[<<c, k>>] \in Sent)
    BY DEF TokenInv
  <2>1. OnePlace(c) /\ (Unused(c) \/ \E k \in {1, 2} : hpc'[<<c, k>>] \in Sent)
    BY <1>11 DEF TokenInv
  <2>2. CASE \A q \in Procs : Runs(q, c)' => Runs(q, c)
    BY <1>13, <2>1, <2>2
  <2>3. CASE \E q \in Procs : Runs(q, c)' /\ ~Runs(q, c)
    <3>1. Runs(p, c)' /\ request'[p] = r
      BY <1>9, <2>3 DEF Runs
    <3>2. s[2].cmd = "data" /\ s[2].call = c
      BY <1>8, <3>1 DEF Runs
    <3>3. DataAt(p, 2, c)
      BY <1>1, <1>2, <3>2 DEF DataAt
    <3>4. \A q \in Procs : \A i \in Nat : ~DataAt(q, i, c)'
      <4> SUFFICES ASSUME NEW q \in Procs, NEW i \in Nat, DataAt(q, i, c)' PROVE FALSE
        OBVIOUS
      <4>1. DataAt(q, i + (IF q = p THEN 2 ELSE 0), c) /\ i # 0
        BY <1>12
      <4>2. q = p /\ i + (IF q = p THEN 2 ELSE 0) = 2
        BY <2>1, <3>3, <4>1 DEF OnePlace
      <4> QED BY <4>1, <4>2
    <3>5. \A q \in Procs : Runs(q, c)' => q = p
      BY <1>9, <2>1, <3>3 DEF OnePlace, Runs
    <3>6. ran'[c] <= 1 /\ ran'[c] # 1
      BY <1>1, <2>1, <3>3 DEF OnePlace
    <3>7. OnePlace(c)'
      BY <3>4, <3>5, <3>6 DEF OnePlace
    <3>8. ~Unused(c)
      BY <3>3 DEF Unused
    <3> QED BY <2>1, <3>7, <3>8
  <2> QED BY <2>2, <2>3
<1>15. ResultInv'
  <2>1. ASSUME NEW q \in Procs, NEW i \in 1..Len(stdin'[q]), stdin'[q][i].cmd = "hello"
        PROVE  i = 1 /\ Len(stdin'[q]) >= 2 /\ stdin'[q][2].call = 0
    <3>1. CASE q # p
      BY <1>5, <2>1, <3>1 DEF ResultInv
    <3>2. CASE q = p
      <4>1. i \in 1..Len(t) /\ t[i].cmd = "hello"
        BY <1>5, <2>1, <3>2
      <4>2. i + 2 \in 1..Len(s) /\ s[i + 2].cmd = "hello" /\ i + 2 # 1
        BY <1>2, <1>3, <4>1
      <4> QED BY <4>2 DEF ResultInv
    <3> QED BY <3>1, <3>2
  <2>2. \A q \in Procs : request'[q].cmd \notin {"execute", "malformed"} => request'[q].call = 0
    <3>1. 1 \in 1..Len(s) /\ (s[1].cmd = "hello" => s[2].call = 0)
      <4>1. 1 \in 1..Len(s)
        BY <1>1, <1>2
      <4> QED BY <4>1 DEF ResultInv
    <3>2. CASE request'[p] = request[p]
      BY <1>9, <3>2 DEF ResultInv
    <3>3. CASE request'[p] = r /\ s[1].cmd # "data"
      <4>1. request'[p].cmd \notin {"execute", "malformed"} => request'[p].call = 0
        BY <1>8, <3>1, <3>3
      <4> QED BY <1>9, <4>1 DEF ResultInv
    <3> QED BY <1>9, <3>2, <3>3
  <2> QED BY <1>1, <1>11, <2>1, <2>2 DEF ResultInv
<1> QED BY <1>11, <1>14, <1>15


\* A process that dies by itself leaves everything as it is.
LEMMA DiesOnce ==
  ASSUME OnceInv, NEW p \in Procs, PyDies(p)
  PROVE  OnceInv'
<1> USE DEF OnceInv
<1>1. /\ alive[p] /\ alive' = [alive EXCEPT ![p] = FALSE]
      /\ UNCHANGED <<clientVars, handlerVars, managerVars, started, invalid, nextTag, stdin, stdout,
                     request, ran>>
  BY DEF PyDies
<1>2. alive' \in [Procs -> BOOLEAN] /\ \A q \in Procs : q # p => alive'[q] = alive[q]
  BY <1>1 DEF TypeOK
<1>3. /\ stdin \in [Procs -> Seq(Line(InCmds))] /\ stdout \in [Procs -> Seq(Line(OutCmds))]
      /\ ran \in [Calls -> Nat] /\ request \in [Procs -> Requests]
  BY DEF TypeOK, Requests
<1>4. /\ TypeOK' /\ StartInv' /\ RetryInv'
      /\ UNCHANGED <<call, attempt, result, hpc, hproc, htag, current, zip>>
  BY <1>1, <1>2, <1>3, ProcFrame
<1>5. TokenInv'
  BY <1>1, <1>4, TokenSame
<1>6. ResultInv'
  BY <1>1, <1>4 DEF ResultInv
<1> QED BY <1>4, <1>5, <1>6

\* A line that is no result of another call than the one that was worked on.
Fits(line, r) ==
    line.cmd \in {"result", "long"} /\ line.call # 0 => r.cmd = "execute" /\ line.call = r.call

\* A process has run the module: the call it worked on has been executed, once.
LEMMA PyRunsOnce ==
  ASSUME OnceInv, NEW p \in Procs, PyRuns(p),
         alive' \in [Procs -> BOOLEAN], \A q \in Procs : q # p => alive'[q] = alive[q],
         NEW t \in Seq(Line(OutCmds)), stdout' = [stdout EXCEPT ![p] = t],
         \A i \in 1..Len(t) : \/ i \in 1..Len(stdout[p]) /\ t[i] = stdout[p][i]
                              \/ Fits(t[i], request[p])
  PROVE  OnceInv'
<1> USE DEF OnceInv
<1> DEFINE r == request[p]
           s == stdout[p]
<1>1. /\ alive[p] /\ r \in Requests
      /\ request' = [request EXCEPT ![p] = NoRequest]
      /\ ran' = IF r.cmd = "execute" THEN [ran EXCEPT ![r.call] = @ + 1] ELSE ran
      /\ UNCHANGED <<clientVars, handlerVars, managerVars, started, invalid, nextTag, stdin>>
  BY DEF PyRuns, TypeOK, Requests
<1>3. r.call \in Calls \cup {0} /\ r.tag \in Nat
  BY <1>1 DEF Requests, Line
<1>9. stdout' \in [Procs -> Seq(Line(OutCmds))] /\ \A q \in Procs : stdout'[q] = IF q = p THEN t ELSE stdout[q]
  BY DEF TypeOK
<1>10. NoRequest \in Requests
  BY DEF NoRequest, Requests, Line
<1>11. request' \in [Procs -> Requests] /\ \A q \in Procs : request'[q] = IF q = p THEN NoRequest ELSE request[q]
  BY <1>1, <1>10 DEF TypeOK, Requests
<1>12. ran' \in [Calls -> Nat]
  <2>1. ran \in [Calls -> Nat]
    BY DEF TypeOK
  <2>2. CASE r.cmd = "execute"
    <3> DEFINE k == r.call
    <3>1. ran' = [ran EXCEPT ![k] = ran[k] + 1]
      BY <1>1, <2>2
    <3> HIDE DEF k
    <3>2. ran' = [c \in Calls |-> IF c = k THEN ran[k] + 1 ELSE ran[c]]
      BY <2>1, <3>1
    <3>3. \A c \in Calls : (IF c = k THEN ran[k] + 1 ELSE ran[c]) \in Nat
      BY <2>1
    <3> QED BY <3>2, <3>3, Zenon
  <2>3. CASE r.cmd # "execute"
    BY <1>1, <2>1, <2>3
  <2> QED BY <2>2, <2>3
<1>13. stdin \in [Procs -> Seq(Line(InCmds))]
  BY DEF TypeOK
<1>14. /\ TypeOK' /\ StartInv' /\ RetryInv'
       /\ UNCHANGED <<call, attempt, result, hpc, hproc, htag, current, zip>>
  BY <1>1, <1>9, <1>11, <1>12, <1>13, ProcFrame
<1>15. \A c \in Calls : ran'[c] = IF Runs(p, c) THEN ran[c] + 1 ELSE ran[c]
  BY <1>1 DEF TypeOK, Runs
<1>16. \A c \in Calls : \A q \in Procs : \A i \in Nat : DataAt(q, i, c)' => DataAt(q, i, c)
  BY <1>1 DEF DataAt
<1>17. \A c \in Calls : \A q \in Procs : Runs(q, c)' => Runs(q, c) /\ q # p
  BY <1>11 DEF Runs, NoRequest
<1>18. \A c \in Calls : Runs(p, c) => ran[c] = 0 /\ ran'[c] = 1
  <2> SUFFICES ASSUME NEW c \in Calls, Runs(p, c) PROVE ran[c] = 0 /\ ran'[c] = 1
    OBVIOUS
  <2>1. ran[c] \in Nat /\ ran[c] <= 1 /\ ran[c] # 1
    BY DEF TypeOK, TokenInv, OnePlace
  <2> QED BY <1>15, <2>1
<1>19. TokenInv'
  <2> SUFFICES ASSUME NEW c \in Calls
               PROVE  OnePlace(c)' /\ (Unused(c)' \/ \E k \in {1, 2} : hpc'[<<c, k>>] \in Sent)
    BY DEF TokenInv
  <2>1. OnePlace(c) /\ (Unused(c) \/ \E k \in {1, 2} : hpc'[<<c, k>>] \in Sent)
    BY <1>14 DEF TokenInv
  <2>2. CASE ~Runs(p, c)
    BY <1>15, <1>16, <1>17, <2>1, <2>2, TokenStays
  <2>3. CASE Runs(p, c)
    <3>1. \A q \in Procs : ~Runs(q, c)' /\ \A i \in Nat : ~DataAt(q, i, c)'
      BY <1>16, <1>17, <2>1, <2>3 DEF OnePlace
    <3>2. OnePlace(c)'
      BY <1>18, <2>3, <3>1 DEF OnePlace
    <3>3. ~Unused(c)
      BY <2>3 DEF Unused
    <3> QED BY <2>1, <3>2, <3>3
  <2> QED BY <2>2, <2>3
<1>20. \A c \in Calls : ran[c] = 1 => ran'[c] = 1
  BY <1>15, <1>18
<1>21. ResultInv'
  <2>1. \A q \in Procs : request'[q].cmd \notin {"execute", "malformed"} => request'[q].call = 0
    BY <1>11 DEF ResultInv, NoRequest
  <2>2. ASSUME NEW q \in Procs, NEW i \in 1..Len(stdout'[q]),
               stdout'[q][i].cmd \in {"result", "long"}, stdout'[q][i].call # 0
        PROVE  ran'[stdout'[q][i].call] = 1
    <3>1. ASSUME i \in 1..Len(stdout[q]), stdout'[q][i] = stdout[q][i] PROVE ran'[stdout'[q][i].call] = 1
      <4>1. stdout[q][i] \in Line(OutCmds)
        BY <3>1 DEF TypeOK
      <4>2. stdout[q][i].call \in Calls
        BY <2>2, <3>1, <4>1 DEF Line
      <4>3. ran[stdout[q][i].call] = 1
        BY <2>2, <3>1 DEF ResultInv
      <4> QED BY <1>20, <3>1, <4>2, <4>3
    <3>2. CASE q # p
      BY <1>9, <3>1, <3>2
    <3>3. CASE q = p /\ i \in 1..Len(s) /\ t[i] = s[i]
      BY <1>9, <3>1, <3>3
    <3>4. CASE q = p /\ Fits(t[i], r)
      <4>1. stdout'[q][i] = t[i]
        BY <1>9, <3>4
      <4>2. r.cmd = "execute" /\ t[i].call = r.call /\ r.call # 0
        BY <2>2, <3>4, <4>1 DEF Fits
      <4>3. r.call \in Calls
        BY <1>3, <4>2
      <4>4. Runs(p, r.call)
        BY <4>2 DEF Runs
      <4> QED BY <1>18, <4>1, <4>2, <4>3, <4>4
    <3>5. q = p => i \in 1..Len(t)
      BY <1>9, <2>2
    <3> QED BY <3>2, <3>3, <3>4, <3>5
  <2>3. \A y \in Handlers : hpc'[y] = "own" => ran'[y[1]] = 1
    <3>1. \A y \in Handlers : y[1] \in Calls
      BY HandlerFacts
    <3> QED BY <1>14, <1>20, <3>1 DEF ResultInv
  <2>4. \A c \in Calls : result'[c] = "own" => ran'[c] = 1
    BY <1>14, <1>20 DEF ResultInv
  <2> QED BY <1>1, <2>1, <2>2, <2>3, <2>4 DEF ResultInv
<1> QED BY <1>14, <1>19, <1>21

\* It answers, or fails to say what the result was.
LEMMA PyAnswerOnce ==
  ASSUME OnceInv, NEW p \in Procs, PyAnswer(p) \/ PyRaises(p)
  PROVE  OnceInv'
<1> USE DEF OnceInv
<1> DEFINE r == request[p]
           s == stdout[p]
<1>1. PyRuns(p) /\ r \in Requests
  BY DEF PyAnswer, PyRaises, TypeOK, Requests
<1>2. r.call \in Calls \cup {0} /\ r.tag \in Nat
  BY <1>1 DEF Requests, Line
<1>3. s \in Seq(Line(OutCmds)) /\ Len(s) \in Nat
  BY DEF TypeOK
<1>4. HeaderFor(p) = HeaderLine(r.tag) /\ HeaderLine(r.tag) \in Line(OutCmds)
      /\ Fits(HeaderLine(r.tag), r)
  BY <1>2 DEF HeaderFor, HeaderLine, Line, OutCmds, Fits
<1>5. CASE PyAnswer(p)
  <2>1. PICK b \in Bodies(r.cmd) :
          stdout' = [stdout EXCEPT ![p] = s \o <<HeaderLine(r.tag), BodyLine(b, r.call)>>]
    BY <1>4, <1>5 DEF PyAnswer, BodyLine
  <2>2. b \in {"result", "exception", "long"} /\ (r.cmd = "malformed" => b = "exception")
    BY <2>1 DEF Bodies
  <2>3. r.cmd \notin {"execute", "malformed"} => r.call = 0
    BY DEF ResultInv
  <2>4. BodyLine(b, r.call) \in Line(OutCmds) /\ Fits(BodyLine(b, r.call), r)
    BY <1>2, <2>2, <2>3 DEF BodyLine, Line, OutCmds, Fits
  <2> DEFINE t == s \o <<HeaderLine(r.tag), BodyLine(b, r.call)>>
  <2>5. /\ t \in Seq(Line(OutCmds)) /\ Len(t) = Len(s) + 2
        /\ \A i \in 1..Len(t) : t[i] = IF i <= Len(s) THEN s[i]
                                       ELSE IF i = Len(s) + 1 THEN HeaderLine(r.tag) ELSE BodyLine(b, r.call)
    BY <1>3, <1>4, <2>4, TwoMore
  <2>6. \A i \in 1..Len(t) : \/ i \in 1..Len(s) /\ t[i] = s[i]
                             \/ Fits(t[i], r)
    <3> HIDE DEF t, r, s
    <3> QED BY <1>3, <1>4, <2>4, <2>5
  <2>7. alive' = alive /\ alive \in [Procs -> BOOLEAN]
    BY <1>5 DEF PyAnswer, TypeOK
  <2>8. stdout' = [stdout EXCEPT ![p] = t]
    BY <2>1
  <2> HIDE DEF t
  <2> QED BY <1>1, <2>5, <2>6, <2>7, <2>8, PyRunsOnce
<1>6. CASE PyRaises(p)
  <2> DEFINE t == Append(s, HeaderLine(r.tag))
  <2>1. /\ t \in Seq(Line(OutCmds)) /\ Len(t) = Len(s) + 1
        /\ \A i \in 1..Len(t) : t[i] = IF i <= Len(s) THEN s[i] ELSE HeaderLine(r.tag)
    BY <1>3, <1>4, OneMore
  <2>2. \A i \in 1..Len(t) : \/ i \in 1..Len(s) /\ t[i] = s[i]
                             \/ Fits(t[i], r)
    <3> HIDE DEF t, r, s
    <3> QED BY <1>3, <1>4, <2>1
  <2>3. alive' \in [Procs -> BOOLEAN] /\ \A q \in Procs : q # p => alive'[q] = alive[q]
    BY <1>6 DEF PyRaises, TypeOK
  <2>4. stdout' = [stdout EXCEPT ![p] = t]
    BY <1>4, <1>6 DEF PyRaises
  <2> HIDE DEF t
  <2> QED BY <1>1, <2>1, <2>2, <2>3, <2>4, PyRunsOnce
<1> QED BY <1>5, <1>6

-----------------------------------------------------------------------------
(* OnceInv: the client.                                                     *)

LEMMA SendOnce ==
  ASSUME OnceInv, Send
  PROVE  OnceInv'
<1> USE DEF OnceInv
<1> DEFINE x == <<call, attempt>>
           l == IF attempt = 2 THEN "truncate" ELSE "get"
<1>1. call \in Calls /\ x \in Handlers /\ hpc[x] = "none" /\ Moves(x, l) /\ attempt \in {1, 2}
  BY HandlerFacts DEF Send, Moves, TypeOK
<1>2. UNCHANGED <<call, attempt, result, hproc, htag, current, zip, started, alive, invalid, nextTag,
                  stdin, stdout, request, ran>>
  BY DEF Send, clientVars, managerVars, procVars
<1>3. l \in Before /\ l \notin {"none", "noruntime", "own"}
  BY DEF Before
<1>4. \A y \in Handlers : hpc'[y] = IF y = x THEN l ELSE hpc[y]
  BY <1>1 DEF Moves, TypeOK
<1>5. TypeOK'
  <2>1. hpc' \in [Handlers -> Before \cup Using \cup Finals]
    BY <1>1, <1>3 DEF TypeOK, Moves
  <2> QED BY <1>2, <2>1 DEF TypeOK
<1>6. StartInv'
  <2>1. l \notin Using /\ "none" \in Before
    BY DEF Using, Before
  <2>2. \A y \in Handlers : hproc'[y] <= started /\ (hpc'[y] \in Using => hproc'[y] # 0)
    BY <1>2, <1>4, <2>1 DEF StartInv
  <2>3. current' <= started
    BY <1>2 DEF StartInv
  <2> HIDE DEF l
  <2> QED BY <1>1, <1>2, <2>1, <2>2, <2>3, StartMoves
<1>7. RetryInv'
  <2>1. CASE attempt = 1
    <3>1. hpc[<<call, 2>>] = "none"
      BY <1>1, <2>1 DEF RetryInv
    <3>2. \A c \in Calls : hpc'[<<c, 2>>] # "none" => hpc'[<<c, 1>>] = "noruntime"
      BY <1>4, <2>1, <3>1, HandlerFacts DEF RetryInv
    <3> QED BY <1>2, <2>1, <3>2 DEF RetryInv
  <2>2. CASE attempt = 2
    <3>1. hpc[<<call, 1>>] = "noruntime"
      BY <2>2 DEF RetryInv
    <3>2. \A c \in Calls : hpc'[<<c, 1>>] = hpc[<<c, 1>>] /\ (c # call => hpc'[<<c, 2>>] = hpc[<<c, 2>>])
      <4>1. \A c \in Calls : <<c, 1>> \in Handlers /\ <<c, 2>> \in Handlers
        BY HandlerFacts
      <4>2. \A c \in Calls : <<c, 1>> # x /\ (c # call => <<c, 2>> # x)
        BY <2>2
      <4> HIDE DEF x
      <4> QED BY <1>4, <4>1, <4>2
    <3>3. \A c \in Calls : hpc'[<<c, 2>>] # "none" => hpc'[<<c, 1>>] = "noruntime"
      BY <3>1, <3>2 DEF RetryInv
    <3> QED BY <1>1, <1>2, <3>1, <3>2, <3>3 DEF RetryInv
  <2> QED BY <1>1, <2>1, <2>2
<1>8. TokenInv'
  <2>1. hpc[x] \notin Sent
    BY <1>1 DEF Sent, Finals
  <2> HIDE DEF l
  <2> QED BY <1>1, <1>2, <2>1, TokenMoves
<1>9. ResultInv'
  <2>1. \A q \in Procs : \A i \in 1..Len(stdout'[q]) :
          \E j \in 1..Len(stdout[q]) : stdout'[q][i] = stdout[q][j]
    BY <1>2
  <2> HIDE DEF l
  <2> QED BY <1>1, <1>2, <1>3, <2>1, ResultMoves
<1> QED BY <1>5, <1>6, <1>7, <1>8, <1>9

\* Answer and Timeout change the client's own variables.
LEMMA ClientOnce ==
  ASSUME OnceInv, Answer \/ Timeout
  PROVE  OnceInv'
<1> USE DEF OnceInv
<1> DEFINE x == <<call, attempt>>
<1>1. call \in Calls /\ x \in Handlers /\ call \in Nat
  BY HandlerFacts DEF Answer, Timeout, TypeOK
<1>2. UNCHANGED <<hpc, hproc, htag, current, zip, started, alive, invalid, nextTag, stdin, stdout, request, ran>>
  BY DEF Answer, Timeout, handlerVars, managerVars, procVars
<1>3. StartInv'
  BY <1>2 DEF StartInv
<1>4. TokenInv'
  BY <1>2, TokenSame
<1>5. CASE attempt = 1 /\ hpc[x] = "noruntime" /\ attempt' = 2 /\ UNCHANGED <<call, result>>
  <2>1. TypeOK'
    BY <1>2, <1>5 DEF TypeOK
  <2>2. RetryInv'
    BY <1>1, <1>2, <1>5 DEF RetryInv
  <2>3. ResultInv'
    BY <1>2, <1>5 DEF ResultInv
  <2> QED BY <1>3, <1>4, <2>1, <2>2, <2>3
<1>6. ASSUME NEW v \in {"timeout"} \cup Done, v = "own" => hpc[x] = "own",
             result' = [result EXCEPT ![call] = v], call' = call + 1, attempt' = 1
      PROVE  OnceInv'
  <2>1. TypeOK'
    <3>1. result' \in [Calls -> {"pending", "timeout"} \cup Done]
      BY <1>6 DEF TypeOK
    <3>2. call' \in Nat \ {0} /\ attempt' \in {1, 2}
      BY <1>1, <1>6
    <3> QED BY <1>2, <3>1, <3>2 DEF TypeOK
  <2>2. \A c \in Calls : result'[c] = IF c = call THEN v ELSE result[c]
    BY <1>6 DEF TypeOK
  <2>3. RetryInv'
    <3>1. \A c \in Calls : c >= call' => c >= call /\ c # call
      <4>1. \A c \in Calls : c \in Nat
        BY HandlerFacts
      <4> QED BY <1>1, <1>6, <4>1
    <3> QED BY <1>2, <1>6, <2>2, <3>1 DEF RetryInv
  <2>4. ResultInv'
    <3>1. hpc[x] = "own" => ran[call] = 1
      BY <1>1 DEF ResultInv
    <3>2. \A c \in Calls : result'[c] = "own" => ran'[c] = 1
      BY <1>2, <1>6, <2>2, <3>1 DEF ResultInv
    <3> QED BY <1>2, <3>2 DEF ResultInv
  <2> QED BY <1>3, <1>4, <2>1, <2>3, <2>4
<1>7. CASE Answer
  <2>1. hpc[x] \in Done
    BY <1>7 DEF Answer
  <2>2. \/ attempt = 1 /\ hpc[x] = "noruntime" /\ attempt' = 2 /\ UNCHANGED <<call, result>>
        \/ result' = [result EXCEPT ![call] = hpc[x]] /\ call' = call + 1 /\ attempt' = 1
    BY <1>7 DEF Answer, NeedsPythonRuntime
  <2> QED BY <1>5, <1>6, <2>1, <2>2
<1>8. CASE Timeout
  <2>1. result' = [result EXCEPT ![call] = "timeout"] /\ call' = call + 1 /\ attempt' = 1
    BY <1>8 DEF Timeout
  <2> QED BY <1>6, <2>1
<1> QED BY <1>7, <1>8

-----------------------------------------------------------------------------
(* OnceInv is inductive.                                                    *)

LEMMA InitOnce == Init => OnceInv
<1> SUFFICES ASSUME Init PROVE OnceInv
  OBVIOUS
<1>1. TypeOK
  <2>1. \A S : <<>> \in Seq(S)
    OBVIOUS
  <2>2. NoRequest \in Line({"none", "import", "hello", "execute", "malformed"})
    BY DEF NoRequest, Line
  <2> QED BY <2>1, <2>2 DEF Init, TypeOK, Before
<1>2. StartInv
  <2>1. {x \in Handlers : hpc[x] \notin Before} = {}
    BY DEF Init, Before
  <2>2. started <= Cardinality({x \in Handlers : hpc[x] \notin Before})
    <3>1. Cardinality({}) = 0 /\ started = 0
      BY FS_EmptySet DEF Init
    <3> QED BY <2>1, <3>1
  <2> QED BY <2>2 DEF Init, StartInv, Using
<1>3. RetryInv
  BY HandlerFacts DEF Init, RetryInv
<1>4. TokenInv
  <2>1. \A p \in Procs : \A i \in Nat : \A c \in Calls : ~DataAt(p, i, c) /\ ~Runs(p, c)
    BY DEF Init, DataAt, Runs, NoRequest
  <2>2. \A c \in Calls : ran[c] = 0
    BY DEF Init
  <2> QED BY <2>1, <2>2 DEF TokenInv, OnePlace, Unused
<1>5. ResultInv
  BY DEF Init, ResultInv, NoRequest
<1> QED BY <1>1, <1>2, <1>3, <1>4, <1>5 DEF OnceInv

LEMMA StepOnce == OnceInv /\ [Next]_vars => OnceInv'
<1> SUFFICES ASSUME OnceInv, [Next]_vars PROVE OnceInv'
  OBVIOUS
<1>1. CASE UNCHANGED vars
  <2>1. UNCHANGED <<call, attempt, result, hpc, hproc, htag, current, zip, started, alive, invalid, nextTag,
                    stdin, stdout, request, ran>>
    BY <1>1 DEF vars, clientVars, handlerVars, managerVars, procVars
  <2>2. TypeOK' /\ StartInv'
    BY <2>1 DEF OnceInv, TypeOK, StartInv
  <2>3. RetryInv' /\ ResultInv'
    BY <2>1 DEF OnceInv, RetryInv, ResultInv
  <2>4. TokenInv'
    BY <2>1, TokenSame DEF OnceInv
  <2> QED BY <2>2, <2>3, <2>4 DEF OnceInv
<1>2. CASE ClientStep
  BY <1>2, SendOnce, ClientOnce DEF ClientStep
<1>3. ASSUME NEW x \in Handlers, HandlerStep(x) PROVE OnceInv'
  BY <1>3, SimpleOnce, StartOnce, HelloOnce, HdrOnce, DataOnce, AnswerOnce DEF HandlerStep
<1>4. ASSUME NEW p \in Procs, ProcStep(p) \/ PyDies(p) PROVE OnceInv'
  BY <1>4, ImportOnce, ReadOnce, PyAnswerOnce, DiesOnce DEF ProcStep, PyImportFails
<1> QED BY <1>1, <1>2, <1>3, <1>4 DEF Next, Finished

\* No request is executed twice on the managed host though moduleExecutor
\* retries, and the client is given a result only for a request that was
\* executed, whatever calls it gave up on and however their handlers overlap.
THEOREM RuntimeRunsOnce == Spec => []RunsOnce
<1>1. OnceInv => RunsOnce
  BY DEF OnceInv, TokenInv, OnePlace, ResultInv, RunsOnce
<1> QED BY <1>1, InitOnce, StepOnce, PTL DEF Spec


-----------------------------------------------------------------------------
(* A process that has not greeted yet.                                      *)

\* Steps of others leave it alone.
LEMMA PrivateFrame ==
  ASSUME HelloInv, NEW z \in Handlers, hpc[z] = "hello", hproc'[z] = hproc[z],
         \A y \in Handlers \ {z} : hproc'[y] # hproc[z], current' # hproc[z],
         request'[hproc[z]] = request[hproc[z]], stdin'[hproc[z]] = stdin[hproc[z]],
         stdout'[hproc[z]] = stdout[hproc[z]]
  PROVE  Private(z)'
BY DEF HelloInv, Private

\* What a handler can change.
LEMMA HandlerChanges ==
  ASSUME OnceInv, NEW x \in Handlers, HandlerStep(x)
  PROVE  /\ UNCHANGED <<call, attempt, result, ran>>
         /\ hpc[x] \notin Done \cup {"none"}
         /\ \A y \in Handlers : y # x => hpc'[y] = hpc[y] /\ hproc'[y] = hproc[y]
         /\ hproc'[x] # hproc[x] => hpc[x] = "get"
<1>1. UNCHANGED clientVars /\ UNCHANGED ran /\ hpc[x] \notin Done \cup {"none"}
  <2>1. CASE Truncate(x) \/ Fill(x) \/ GetCurrent(x) \/ NoRuntime(x) \/ StartProcess(x)
    BY <2>1 DEF Truncate, Fill, GetCurrent, NoRuntime, StartProcess, Done
  <2>2. CASE Hello(x) \/ TakeTag(x) \/ BumpTag(x)
    BY <2>2 DEF Hello, TakeTag, BumpTag, Done
  <2>3. CASE WriteHdr(x) \/ WriteData(x)
    BY <2>3 DEF WriteHdr, WriteData, Write, Done
  <2>4. CASE ReadHdr(x) \/ ReadData(x)
    BY <2>4 DEF ReadHdr, ReadData, ReadLine, Done
  <2>5. CASE SaveFails(x) \/ StartProcessFails(x)
    BY <2>5 DEF SaveFails, StartProcessFails, Fault, Done
  <2> QED BY <2>1, <2>2, <2>3, <2>4, <2>5 DEF HandlerStep
<1>2. \E l : Goto(x, l)
  <2>1. CASE Truncate(x) \/ Fill(x) \/ GetCurrent(x) \/ NoRuntime(x) \/ StartProcess(x)
    BY <2>1 DEF Truncate, Fill, GetCurrent, NoRuntime, StartProcess
  <2>2. CASE Hello(x) \/ TakeTag(x) \/ BumpTag(x)
    BY <2>2 DEF Hello, TakeTag, BumpTag
  <2>3. CASE WriteHdr(x) \/ WriteData(x)
    BY <2>3 DEF WriteHdr, WriteData, Write
  <2>4. CASE ReadHdr(x) \/ ReadData(x)
    BY <2>4 DEF ReadHdr, ReadData, ReadLine
  <2>5. CASE SaveFails(x) \/ StartProcessFails(x)
    BY <2>5 DEF SaveFails, StartProcessFails, Fault
  <2> QED BY <2>1, <2>2, <2>3, <2>4, <2>5 DEF HandlerStep
<1>3. (\E n : hproc' = [hproc EXCEPT ![x] = n]) /\ (hproc' = hproc \/ hpc[x] = "get")
  <2>1. CASE GetCurrent(x) \/ StartProcess(x)
    BY <2>1 DEF GetCurrent, StartProcess
  <2>2. CASE UNCHANGED hproc
    BY <2>2 DEF OnceInv, TypeOK
  <2>5. CASE SaveFails(x) \/ StartProcessFails(x)
    BY <2>2, <2>5 DEF SaveFails, StartProcessFails, Fault
  <2>3. CASE Truncate(x) \/ Fill(x) \/ NoRuntime(x) \/ Hello(x) \/ TakeTag(x) \/ BumpTag(x)
    BY <2>2, <2>3 DEF Truncate, Fill, NoRuntime, Hello, TakeTag, BumpTag
  <2>4. CASE WriteHdr(x) \/ WriteData(x) \/ ReadHdr(x) \/ ReadData(x)
    BY <2>2, <2>4 DEF WriteHdr, WriteData, Write, ReadHdr, ReadData, ReadLine
  <2> QED BY <2>1, <2>3, <2>4, <2>5 DEF HandlerStep
<1> QED BY <1>1, <1>2, <1>3 DEF clientVars, Goto, OnceInv, TypeOK

\* The processes a handler leaves alone: all but the one it uses or starts.
LEMMA HandlerFrame ==
  ASSUME OnceInv, NEW x \in Handlers, HandlerStep(x), NEW q \in Procs, q <= started,
         hpc[x] \in Using => hproc[x] # q
  PROVE  /\ alive'[q] = alive[q] /\ invalid'[q] = invalid[q]
         /\ stdin'[q] = stdin[q] /\ stdout'[q] = stdout[q] /\ request'[q] = request[q]
         /\ current # q => current' # q
         /\ current # q /\ hproc[x] # q => hproc'[x] # q
<1> USE DEF OnceInv
<1>1. CASE Truncate(x) \/ Fill(x) \/ GetCurrent(x) \/ NoRuntime(x) \/ SaveFails(x) \/ StartProcessFails(x)
  <2>1. UNCHANGED <<procVars, current>> /\ hproc' \in {hproc, [hproc EXCEPT ![x] = current]}
    BY <1>1 DEF Truncate, Fill, GetCurrent, NoRuntime, SaveFails, StartProcessFails, Fault, managerVars
  <2> QED BY <2>1 DEF procVars, TypeOK
<1>2. CASE StartProcess(x)
  <2> DEFINE p == started + 1
  <2>1. q # p
    BY HandlerFacts DEF TypeOK
  <2>2. /\ alive' = [alive EXCEPT ![p] = TRUE] /\ request' = [request EXCEPT ![p] = Import]
        /\ stdin' = [stdin EXCEPT ![p] = HelloLines] /\ hproc' = [hproc EXCEPT ![x] = p]
        /\ UNCHANGED <<current, invalid, stdout>>
    BY <1>2 DEF StartProcess, HelloLines, managerVars
  <2> HIDE DEF p
  <2> QED BY <2>1, <2>2 DEF TypeOK
<1>3. CASE Hello(x) \/ TakeTag(x) \/ BumpTag(x) \/ WriteHdr(x) \/ WriteData(x) \/ ReadHdr(x) \/ ReadData(x)
  <2>1. hpc[x] \in Using
    BY <1>3 DEF Using, Hello, TakeTag, BumpTag, WriteHdr, WriteData, ReadHdr, ReadData
  <2> DEFINE p == hproc[x]
  <2>2. p \in Procs /\ p # q
    BY <2>1, ProcOf
  <2>3. \A n \in Procs : Kill(n) /\ n # q => alive'[q] = alive[q] /\ invalid'[q] = invalid[q]
    BY KillTyped
  <2>4. CASE Hello(x)
    <3>1. /\ UNCHANGED <<hproc, stdin, request>> /\ current' \in {current, p}
          /\ UNCHANGED <<alive, invalid>> \/ Kill(p)
          /\ stdout' = stdout \/ \E t : stdout' = [stdout EXCEPT ![p] = t]
      BY <2>4 DEF Hello
    <3> QED BY <2>2, <2>3, <3>1 DEF TypeOK
  <2>5. CASE TakeTag(x) \/ BumpTag(x)
    BY <2>2, <2>5 DEF TakeTag, BumpTag, managerVars
  <2>6. CASE WriteHdr(x) \/ WriteData(x)
    <3>1. /\ UNCHANGED <<hproc, stdout, request, current>>
          /\ UNCHANGED <<alive, invalid>> \/ Kill(p)
          /\ stdin' = stdin \/ \E t : stdin' = [stdin EXCEPT ![p] = t]
      BY <2>6 DEF WriteHdr, WriteData, Write, managerVars
    <3> QED BY <2>2, <2>3, <3>1 DEF TypeOK
  <2>7. CASE ReadHdr(x) \/ ReadData(x)
    <3>1. /\ UNCHANGED <<hproc, stdin, request, current>>
          /\ UNCHANGED <<alive, invalid>> \/ Kill(p)
          /\ \E t : stdout' = [stdout EXCEPT ![p] = t]
      BY <2>7 DEF ReadHdr, ReadData, ReadLine, managerVars
    <3> QED BY <2>2, <2>3, <3>1 DEF TypeOK
  <2> QED BY <1>3, <2>4, <2>5, <2>6, <2>7
<1> QED BY <1>1, <1>2, <1>3 DEF HandlerStep


\* What a process can change.
LEMMA ProcChanges ==
  ASSUME OnceInv, NEW p \in Procs, ProcMoves(p)
  PROVE  /\ UNCHANGED <<call, attempt, result, hpc, hproc, htag, current, zip, started, invalid>>
         /\ alive[p]
         /\ \A q \in Procs : q # p => alive'[q] = alive[q] /\ stdin'[q] = stdin[q]
                                      /\ stdout'[q] = stdout[q] /\ request'[q] = request[q]
<1> USE DEF OnceInv, clientVars, handlerVars, managerVars
<1>1. CASE PyImport(p)
  BY <1>1 DEF PyImport, TypeOK
<1>2. CASE PyRead(p)
  <2>1. /\ UNCHANGED <<clientVars, handlerVars, managerVars, started, invalid, stdout>> /\ alive[p]
        /\ \E t : stdin' = [stdin EXCEPT ![p] = t]
        /\ alive' = alive \/ alive' = [alive EXCEPT ![p] = FALSE]
        /\ request' = request \/ \E t : request' = [request EXCEPT ![p] = t]
    BY <1>2 DEF PyRead
  <2> QED BY <2>1 DEF TypeOK
<1>3. CASE PyAnswer(p)
  <2>1. /\ UNCHANGED <<clientVars, handlerVars, managerVars, started, invalid, stdin, alive>> /\ alive[p]
        /\ \E t : stdout' = [stdout EXCEPT ![p] = t]
        /\ request' = [request EXCEPT ![p] = NoRequest]
    BY <1>3 DEF PyAnswer, PyRuns
  <2> QED BY <2>1 DEF TypeOK
<1>4. CASE PyRaises(p)
  <2>1. /\ UNCHANGED <<clientVars, handlerVars, managerVars, started, invalid, stdin>> /\ alive[p]
        /\ \E t : stdout' = [stdout EXCEPT ![p] = t]
        /\ request' = [request EXCEPT ![p] = NoRequest]
        /\ alive' = [alive EXCEPT ![p] = FALSE]
    BY <1>4 DEF PyRaises, PyRuns
  <2> QED BY <2>1 DEF TypeOK
<1>5. CASE PyDies(p)
  BY <1>5 DEF PyDies, TypeOK
<1> QED BY <1>1, <1>2, <1>3, <1>4, <1>5 DEF ProcMoves, Works

LEMMA ProcStepMoves ==
  ASSUME NEW p, ProcStep(p) \/ PyDies(p)
  PROVE  ProcMoves(p)
BY DEF ProcStep, PyImportFails, ProcMoves, Works

\* A process nobody has sent a request to works on none.
LEMMA PrivateProc ==
  ASSUME OnceInv, HelloInv, NEW p \in Procs, ProcMoves(p), NEW z \in Handlers, hpc[z] = "hello", hproc[z] = p
  PROVE  Private(z)'
<1> USE DEF OnceInv
<1>1. Private(z)
  BY DEF HelloInv
<1>2. hproc' = hproc /\ current' = current
  BY ProcChanges
<1> SUFFICES /\ request'[p].call = 0
             /\ \A i \in 1..Len(stdin'[p]) : stdin'[p][i].call = 0
             /\ \A i \in 1..Len(stdout'[p]) : stdout'[p][i].call = 0
  BY <1>1, <1>2 DEF Private
<1>3. /\ request[p].call = 0
      /\ \A i \in 1..Len(stdin[p]) : stdin[p][i].call = 0
      /\ \A i \in 1..Len(stdout[p]) : stdout[p][i].call = 0
  BY <1>1 DEF Private
<1>4. CASE PyImport(p)
  <2>1. request'[p] = NoRequest /\ UNCHANGED <<stdin, stdout>>
    BY <1>4 DEF PyImport, TypeOK
  <2> QED BY <1>3, <2>1 DEF NoRequest
<1>5. CASE PyRead(p)
  <2> DEFINE s == stdin[p]
             t == SubSeq(s, 3, Len(s))
  <2>1. Len(s) >= 2 /\ stdin' = [stdin EXCEPT ![p] = t] /\ UNCHANGED stdout
    BY <1>5 DEF PyRead
  <2>2. s \in Seq(Line(InCmds)) /\ Len(s) \in Nat
    BY DEF TypeOK
  <2>3. Len(t) = Len(s) - 2 /\ \A i \in 1..Len(t) : t[i] = s[i + 2]
    BY <2>1, <2>2, TwoOff
  <2> HIDE DEF t
  <2>4. stdin'[p] = t
    BY <2>1 DEF TypeOK
  <2>5. \A i \in 1..Len(t) : t[i].call = 0
    <3>1. \A i \in 1..Len(t) : i + 2 \in 1..Len(s)
      BY <2>2, <2>3
    <3> QED BY <1>3, <2>3, <3>1
  <2>6. request'[p].call = 0
    <3>1. s[2].call = 0
      BY <1>3, <2>1, <2>2
    <3>2. request' = request \/ request'[p].call = s[2].call
      BY <1>5 DEF PyRead, TypeOK
    <3> QED BY <1>3, <3>1, <3>2
  <2> QED BY <1>3, <2>1, <2>4, <2>5, <2>6
<1>6. CASE PyAnswer(p)
  <2> DEFINE r == request[p]
             s == stdout[p]
  <2>1. PICK b \in Bodies(r.cmd) : stdout' = [stdout EXCEPT ![p] = s \o <<HeaderLine(r.tag), BodyLine(b, r.call)>>]
    BY <1>6 DEF PyAnswer, HeaderFor, HeaderLine, BodyLine
  <2>2. request'[p] = NoRequest /\ UNCHANGED stdin
    BY <1>6 DEF PyAnswer, PyRuns, TypeOK
  <2> DEFINE S == {s[i] : i \in 1..Len(s)} \cup {HeaderLine(r.tag), BodyLine(b, r.call)}
             t == s \o <<HeaderLine(r.tag), BodyLine(b, r.call)>>
  <2>3. s \in Seq(Line(OutCmds)) /\ Len(s) \in Nat
    BY DEF TypeOK
  <2>4. s \in Seq(S) /\ HeaderLine(r.tag) \in S /\ BodyLine(b, r.call) \in S
    <3>1. s = [i \in 1..Len(s) |-> s[i]]
      BY <2>3
    <3> QED BY <2>3, <3>1
  <2>5. \A e \in S : e.call = 0
    BY <1>3 DEF HeaderLine, BodyLine
  <2> HIDE DEF S
  <2>6. t \in Seq(S)
    BY <2>4, TwoMore
  <2>7. stdout'[p] = t
    BY <2>1 DEF TypeOK
  <2> HIDE DEF t
  <2>8. \A i \in 1..Len(t) : t[i] \in S
    BY <2>6
  <2> QED BY <1>3, <2>2, <2>5, <2>7, <2>8 DEF NoRequest
<1>7. CASE PyDies(p)
  BY <1>3, <1>7 DEF PyDies
<1>8. CASE PyRaises(p)
  <2> DEFINE h == HeaderFor(p)
             s == stdout[p]
             t == Append(s, h)
  <2>1. stdout' = [stdout EXCEPT ![p] = t]
    BY <1>8 DEF PyRaises
  <2>2. request'[p] = NoRequest /\ UNCHANGED stdin
    BY <1>8 DEF PyRaises, PyRuns, TypeOK
  <2> DEFINE S == {s[i] : i \in 1..Len(s)} \cup {h}
  <2>3. s \in Seq(Line(OutCmds)) /\ Len(s) \in Nat
    BY DEF TypeOK
  <2>4. s \in Seq(S) /\ h \in S
    <3>1. s = [i \in 1..Len(s) |-> s[i]]
      BY <2>3
    <3> HIDE DEF h
    <3> QED BY <2>3, <3>1
  <2>5. \A e \in S : e.call = 0
    BY <1>3 DEF HeaderFor
  <2> HIDE DEF S, h
  <2>6. t \in Seq(S)
    BY <2>4
  <2>7. stdout'[p] = t
    BY <2>1 DEF TypeOK
  <2> HIDE DEF t
  <2>8. \A i \in 1..Len(t) : t[i] \in S
    BY <2>6
  <2> QED BY <1>3, <2>2, <2>5, <2>7, <2>8 DEF NoRequest
<1> QED BY <1>4, <1>5, <1>6, <1>7, <1>8 DEF ProcMoves, Works

LEMMA HelloStep ==
  ASSUME OnceInv, HelloInv, Next
  PROVE  HelloInv'
<1> USE DEF OnceInv
<1> SUFFICES ASSUME NEW z \in Handlers, hpc'[z] = "hello" PROVE Private(z)'
  BY DEF HelloInv
<1> DEFINE p == hproc[z]
<1>1. hpc[z] = "hello" => p \in Procs /\ p <= started /\ Private(z)
  BY ProcOf DEF Using, HelloInv
<1>2. ASSUME NEW x \in Handlers, HandlerStep(x) PROVE Private(z)'
  <2>1. CASE hpc[z] # "hello"
    <3>1. x = z
      BY <1>2, <2>1, HandlerChanges
    <3>2. CASE StartProcess(z)
      <4> DEFINE n == started + 1
      <4>1. /\ n \in Procs
        <5>1. hpc[z] = "get" /\ Moves(z, "hello")
          BY <3>2 DEF StartProcess, Goto, Moves
        <5> QED BY <5>1, StartRoom DEF Before
      <4>2. /\ hproc' = [hproc EXCEPT ![z] = n] /\ request' = [request EXCEPT ![n] = Import]
            /\ stdin' = [stdin EXCEPT ![n] = HelloLines] /\ UNCHANGED <<current, stdout>>
        BY <3>2 DEF StartProcess, HelloLines, managerVars
      <4>3. n > started /\ \A m \in Procs \cup {0} : m <= started => m # n
        BY HandlerFacts DEF TypeOK
      <4> HIDE DEF n
      <4>4. hproc'[z] = n /\ \A y \in Handlers \ {z} : hproc'[y] # n
        BY <4>2, <4>3 DEF TypeOK, StartInv
      <4>5. current' # n /\ stdout'[n] = <<>>
        BY <4>1, <4>2, <4>3 DEF TypeOK, StartInv
      <4>6. request'[n].call = 0 /\ stdin'[n] = HelloLines
        BY <4>1, <4>2 DEF TypeOK, Import
      <4>7. \A i \in 1..Len(HelloLines) : HelloLines[i].call = 0
        BY DEF HelloLines
      <4>8. \A i \in 1..Len(<<>>) : <<>>[i].call = 0
        OBVIOUS
      <4> QED BY <4>4, <4>5, <4>6, <4>7, <4>8 DEF Private
    <3>3. ASSUME NEW l, Moves(z, l) PROVE hpc'[z] = l
      BY <3>3 DEF Moves, TypeOK
    <3>4. CASE ~StartProcess(z)
      <4>1. \E l : Moves(z, l) /\ l # "hello"
        <5>1. CASE Truncate(z) \/ Fill(z) \/ GetCurrent(z) \/ NoRuntime(z)
          BY <5>1 DEF Truncate, Fill, GetCurrent, NoRuntime, Goto, Moves
        <5>2. CASE Hello(z) \/ TakeTag(z) \/ BumpTag(z)
          <6>1. \E l \in {"tag", "failed", "bump", "hdr"} : Goto(z, l)
            BY <5>2 DEF Hello, TakeTag, BumpTag
          <6> QED BY <6>1 DEF Goto, Moves
        <5>3. CASE WriteHdr(z) \/ WriteData(z)
          BY <5>3 DEF WriteHdr, WriteData, Write, Goto, Moves
        <5>4. CASE ReadHdr(z)
          BY <5>4 DEF ReadHdr, ReadLine, Goto, Moves
        <5>5. CASE ReadData(z)
          <6>1. PICK l \in {"failed", "empty", "exception", "own", "other"} : ReadLine(z, l)
            BY <5>5 DEF ReadData
          <6> QED BY <6>1 DEF ReadLine, Goto, Moves
        <5>6. CASE SaveFails(z) \/ StartProcessFails(z)
          BY <5>6 DEF SaveFails, StartProcessFails, Fault, Goto, Moves
        <5> QED BY <1>2, <3>1, <3>4, <5>1, <5>2, <5>3, <5>4, <5>5, <5>6 DEF HandlerStep
      <4> QED BY <3>3, <4>1
    <3> QED BY <3>2, <3>4
  <2>2. CASE hpc[z] = "hello" /\ x # z
    <3>1. hproc[x] # p /\ current # p
      BY <1>1, <2>2 DEF Private
    <3>2. /\ stdin'[p] = stdin[p] /\ stdout'[p] = stdout[p] /\ request'[p] = request[p]
          /\ current' # p /\ hproc'[x] # p
      BY <1>1, <1>2, <2>2, <3>1, HandlerFrame
    <3>3. \A y \in Handlers : y # x => hproc'[y] = hproc[y]
      BY <1>2, HandlerChanges
    <3>4. \A y \in Handlers \ {z} : hproc'[y] # p
      BY <1>1, <2>2, <3>2, <3>3 DEF Private
    <3> QED BY <2>2, <3>2, <3>3, <3>4, PrivateFrame
  <2>3. CASE hpc[z] = "hello" /\ x = z
    <3>1. Hello(z)
      BY <1>2, <2>3 DEF HandlerStep, Truncate, Fill, GetCurrent, NoRuntime, StartProcess,
         TakeTag, BumpTag, WriteHdr, WriteData, ReadHdr, ReadData, SaveFails, StartProcessFails
    <3>2. hpc'[z] \in {"tag", "failed"}
      BY <3>1 DEF Hello, Goto, TypeOK
    <3> QED BY <3>2
  <2> QED BY <2>1, <2>2, <2>3
<1>3. ASSUME NEW q \in Procs, ProcMoves(q) PROVE Private(z)'
  <2>1. hpc[z] = "hello" /\ hproc' = hproc /\ current' = current
    BY <1>3, ProcChanges
  <2>2. CASE q = p
    BY <1>3, <2>1, <2>2, PrivateProc
  <2>3. CASE q # p
    <3>1. stdin'[p] = stdin[p] /\ stdout'[p] = stdout[p] /\ request'[p] = request[p]
      BY <1>1, <1>3, <2>1, <2>3, ProcChanges
    <3>2. current # p /\ \A y \in Handlers \ {z} : hproc[y] # p
      BY <1>1, <2>1 DEF Private
    <3> QED BY <2>1, <3>1, <3>2, PrivateFrame
  <2> QED BY <2>2, <2>3
<1>4. CASE ClientStep \/ UNCHANGED vars
  <2>1. UNCHANGED <<hproc, current, request, stdin, stdout>>
    BY <1>4 DEF ClientStep, Send, Answer, Timeout, vars, handlerVars, managerVars, procVars
  <2>2. hpc[z] = "hello"
    <3>1. CASE Send
      <4>1. \E x, l : Moves(x, l) /\ l # "hello"
        <5> DEFINE m == IF attempt = 2 THEN "truncate" ELSE "get"
        <5>1. Moves(<<call, attempt>>, m)
          BY <3>1 DEF Send, Moves
        <5>2. m # "hello"
          OBVIOUS
        <5> HIDE DEF m
        <5> QED BY <5>1, <5>2
      <4> QED BY <4>1 DEF Moves, TypeOK
    <3>2. CASE ~Send
      BY <1>4, <3>2 DEF ClientStep, Answer, Timeout, vars, handlerVars
    <3> QED BY <3>1, <3>2
  <2>3. current # p /\ \A y \in Handlers \ {z} : hproc[y] # p
    BY <1>1, <2>2 DEF Private
  <2> QED BY <2>1, <2>2, <2>3, PrivateFrame
<1> QED BY <1>2, <1>3, <1>4, ProcStepMoves DEF Next, Finished


-----------------------------------------------------------------------------
(* The client goes on from call to call, and lines too long stay.           *)

LEMMA FutureStep ==
  ASSUME OnceInv, FutureInv, Next
  PROVE  FutureInv'
<1> USE DEF OnceInv
<1>1. call \in Nat /\ attempt \in {1, 2} /\ \A x \in Handlers : x[1] \in Nat /\ x[2] \in {1, 2}
  BY HandlerFacts DEF TypeOK
<1> SUFFICES ASSUME NEW x \in Handlers, x[1] > call' \/ (x[1] = call' /\ x[2] > attempt')
             PROVE  hpc'[x] = "none"
  BY DEF FutureInv
<1>2. ASSUME NEW y \in Handlers, HandlerStep(y) PROVE hpc'[x] = "none"
  BY <1>2, HandlerChanges DEF FutureInv
<1>3. ASSUME NEW q \in Procs, ProcMoves(q) PROVE hpc'[x] = "none"
  BY <1>3, ProcChanges DEF FutureInv
<1>4. CASE UNCHANGED vars
  BY <1>4 DEF FutureInv, vars, clientVars, handlerVars
<1>5. CASE Send
  <2>1. UNCHANGED <<call, attempt>> /\ hpc[x] = "none"
    BY <1>5 DEF Send, clientVars, FutureInv
  <2>2. x # <<call, attempt>>
    BY <1>1, <2>1
  <2> QED BY <1>5, <2>1, <2>2 DEF Send, TypeOK
<1>6. CASE Answer \/ Timeout
  <2>1. hpc' = hpc
    BY <1>6 DEF Answer, Timeout, handlerVars
  <2>2. call' = call + 1 \/ (call' = call /\ attempt = 1 /\ attempt' = 2)
    BY <1>6 DEF Answer, Timeout, NeedsPythonRuntime
  <2>3. x[1] > call \/ (x[1] = call /\ x[2] > attempt)
    BY <1>1, <2>2
  <2> QED BY <2>1, <2>3 DEF FutureInv
<1> QED BY <1>2, <1>3, <1>4, <1>5, <1>6, ProcStepMoves DEF Next, ClientStep, Finished

\* Nobody gets past a line that is too long.
LEMMA LongStays ==
  ASSUME OnceInv, HelloInv, Next, NEW c \in Calls, LongFor(c)
  PROVE  LongFor(c)'
<1> USE DEF OnceInv
<1>1. PICK p \in Procs : stdout[p] # <<>> /\ Head(stdout[p]).cmd = "long" /\ Head(stdout[p]).call = c
  BY DEF LongFor
<1>2. stdout[p] \in Seq(Line(OutCmds)) /\ Stuck(p)
  BY <1>1 DEF TypeOK, Stuck
<1> SUFFICES stdout'[p] # <<>> /\ Head(stdout'[p]) = Head(stdout[p])
  BY <1>1 DEF LongFor
<1>3. CASE stdout'[p] = stdout[p]
  BY <1>1, <1>3
<1>4. ASSUME NEW x \in Handlers, HandlerStep(x) PROVE stdout'[p] = stdout[p]
  <2>1. CASE Hello(x)
    <3>1. hproc[x] # p
      <4> SUFFICES ASSUME hproc[x] = p PROVE FALSE
        OBVIOUS
      <4>1. \A i \in 1..Len(stdout[p]) : stdout[p][i].call = 0
        BY <2>1 DEF Hello, HelloInv, Private
      <4>2. Len(stdout[p]) >= 1 /\ Len(stdout[p]) \in Nat /\ Head(stdout[p]) = stdout[p][1]
        BY <1>1, <1>2, TailOff
      <4>3. stdout[p][1].call = 0
        BY <4>1, <4>2
      <4> QED BY <1>1, <4>2, <4>3, HandlerFacts
    <3> QED BY <2>1, <3>1 DEF Hello, TypeOK
  <2>2. CASE ReadHdr(x) \/ ReadData(x)
    <3>1. stdout' = [stdout EXCEPT ![hproc[x]] = IF @ = <<>> \/ Stuck(hproc[x]) THEN @ ELSE Tail(@)]
      BY <2>2 DEF ReadHdr, ReadData, ReadLine
    <3>2. CASE hproc[x] = p
      BY <1>2, <3>1, <3>2 DEF TypeOK
    <3>3. CASE hproc[x] # p
      BY <3>1, <3>3 DEF TypeOK
    <3> QED BY <3>2, <3>3
  <2>3. CASE WriteHdr(x) \/ WriteData(x) \/ StartProcess(x) \/ TakeTag(x) \/ BumpTag(x)
    BY <2>3 DEF WriteHdr, WriteData, Write, StartProcess, TakeTag, BumpTag
  <2>4. CASE Truncate(x) \/ Fill(x) \/ GetCurrent(x) \/ NoRuntime(x) \/ SaveFails(x) \/ StartProcessFails(x)
    BY <2>4 DEF Truncate, Fill, GetCurrent, NoRuntime, SaveFails, StartProcessFails, Fault, procVars
  <2> QED BY <1>4, <2>1, <2>2, <2>3, <2>4 DEF HandlerStep
<1>5. CASE ClientStep \/ UNCHANGED vars
  BY <1>3, <1>5 DEF ClientStep, Send, Answer, Timeout, vars, procVars
<1>6. ASSUME NEW q \in Procs, ProcMoves(q)
      PROVE  stdout'[p] # <<>> /\ Head(stdout'[p]) = Head(stdout[p])
  <2>1. CASE q # p
    BY <1>3, <1>6, <2>1, ProcChanges
  <2>2. CASE q = p /\ ~PyAnswer(q) /\ ~PyRaises(q)
    BY <1>3, <1>6, <2>2 DEF ProcMoves, Works, PyImport, PyRead, PyDies
  <2>3. CASE q = p /\ PyAnswer(p)
    <3>1. PICK d, e : stdout' = [stdout EXCEPT ![p] = stdout[p] \o <<d, e>>]
      BY <2>3 DEF PyAnswer
    <3>2. stdout'[p] = stdout[p] \o <<d, e>>
      <4> DEFINE u == stdout[p] \o <<d, e>>
      <4>1. stdout' = [stdout EXCEPT ![p] = u]
        BY <3>1
      <4> HIDE DEF u
      <4>2. stdout'[p] = u
        BY <4>1 DEF TypeOK
      <4> QED BY <4>2 DEF u
    <3>3. /\ Len(stdout[p]) >= 1 /\ Len(stdout[p]) \in Nat /\ Head(stdout[p]) = stdout[p][1]
      BY <1>1, <1>2, TailOff
    <3> DEFINE s == stdout[p]
               t == s \o <<d, e>>
               S == Line(OutCmds) \cup {d, e}
    <3>4. s \in Seq(S) /\ d \in S /\ e \in S
      BY <1>2
    <3>5. t \in Seq(S) /\ Len(t) = Len(s) + 2 /\ \A i \in 1..Len(t) : i <= Len(s) => t[i] = s[i]
      <4> HIDE DEF S
      <4>1. /\ t \in Seq(S) /\ Len(t) = Len(s) + 2
            /\ \A i \in 1..Len(t) : t[i] = IF i <= Len(s) THEN s[i] ELSE IF i = Len(s) + 1 THEN d ELSE e
        BY <3>4, TwoMore
      <4> HIDE DEF t
      <4> QED BY <4>1
    <3> HIDE DEF t, S
    <3>6. Len(t) >= 1 /\ t[1] = s[1]
      BY <3>3, <3>5
    <3>7. t # <<>> /\ Head(t) = t[1]
      BY <3>5, <3>6
    <3> QED BY <3>2, <3>3, <3>6, <3>7 DEF t
  <2>4. CASE q = p /\ PyRaises(p)
    <3> DEFINE s == stdout[p]
               d == HeaderFor(p)
               t == Append(s, d)
               S == Line(OutCmds) \cup {d}
    <3>1. stdout' = [stdout EXCEPT ![p] = t]
      BY <2>4 DEF PyRaises
    <3>2. Len(s) >= 1 /\ Len(s) \in Nat /\ Head(s) = s[1]
      BY <1>1, <1>2, TailOff
    <3>3. s \in Seq(S) /\ d \in S
      BY <1>2
    <3> HIDE DEF S, d
    <3>4. t \in Seq(S) /\ Len(t) = Len(s) + 1 /\ t[1] = s[1]
      BY <3>2, <3>3
    <3>5. stdout'[p] = t
      <4> HIDE DEF t
      <4> QED BY <3>1 DEF TypeOK
    <3> HIDE DEF t
    <3>6. t # <<>> /\ Head(t) = t[1]
      BY <3>2, <3>4
    <3> QED BY <3>2, <3>4, <3>5, <3>6
  <2> QED BY <1>6, <2>1, <2>2, <2>3, <2>4
<1> QED BY <1>3, <1>4, <1>5, <1>6, ProcStepMoves DEF Next, Finished

\* A process that died stays dead, and a handler keeps its process.
LEMMA DeadStep ==
  ASSUME OnceInv, DeadInv, Next
  PROVE  DeadInv' /\ \A c \in Calls : Excused(c) => Excused(c)'
<1> USE DEF OnceInv
<1>1. ASSUME NEW x \in Handlers, HandlerStep(x)
      PROVE  /\ faults' = faults \/ faults' = faults \cup {<<"call", x[1]>>}
             /\ started <= started'
             /\ \A p \in Procs : p <= started /\ ~alive[p] => ~alive'[p]
             /\ hpc'[x] \in Before => UNCHANGED hproc /\ hpc[x] \in Before
  <2>0. \A p, q \in Procs : Kill(p) /\ ~alive[q] => ~alive'[q]
    BY DEF Kill, TypeOK
  <2>1. CASE Truncate(x) \/ Fill(x) \/ NoRuntime(x)
    BY <2>1, HandlerFacts DEF Truncate, Fill, NoRuntime, procVars, Before, TypeOK
  <2>2. CASE SaveFails(x) \/ StartProcessFails(x)
    BY <2>2 DEF SaveFails, StartProcessFails, Fault, Goto, procVars, Before, TypeOK
  <2>3. CASE GetCurrent(x)
    BY <2>3 DEF GetCurrent, Goto, procVars, Before, TypeOK
  <2>4. CASE StartProcess(x)
    <3>1. /\ started' = started + 1 /\ alive' = [alive EXCEPT ![started + 1] = TRUE]
          /\ UNCHANGED faults /\ hpc'[x] = "hello"
      BY <2>4 DEF StartProcess, Goto, TypeOK
    <3>2. \A p \in Procs : p <= started => p # started + 1
      BY HandlerFacts DEF TypeOK
    <3>3. started <= started'
      BY <3>1 DEF TypeOK
    <3> QED BY <3>1, <3>2, <3>3 DEF Before, TypeOK
  <2>5. CASE Hello(x) \/ TakeTag(x) \/ BumpTag(x)
    <3>1. hproc[x] \in Procs
      BY <2>5, ProcOf DEF Using, Hello, TakeTag, BumpTag
    <3>2. UNCHANGED <<faults, started>> /\ (alive' = alive \/ Kill(hproc[x]))
      BY <2>5 DEF Hello, TakeTag, BumpTag
    <3>3. hpc'[x] \in {"tag", "failed", "bump", "hdr"}
      BY <2>5 DEF Hello, TakeTag, BumpTag, Goto, TypeOK
    <3> QED BY <2>0, <3>1, <3>2, <3>3 DEF Before, TypeOK
  <2>6. CASE WriteHdr(x) \/ WriteData(x)
    <3>1. hproc[x] \in Procs
      BY <2>6, ProcOf DEF Using, WriteHdr, WriteData
    <3>2. UNCHANGED <<faults, started>> /\ (alive' = alive \/ Kill(hproc[x]))
      BY <2>6 DEF WriteHdr, WriteData, Write
    <3>3. hpc'[x] \in {"data", "failed", "rhdr"}
      BY <2>6 DEF WriteHdr, WriteData, Write, Goto, TypeOK
    <3> QED BY <2>0, <3>1, <3>2, <3>3 DEF Before, TypeOK
  <2>7. CASE ReadHdr(x) \/ ReadData(x)
    <3>1. hproc[x] \in Procs
      BY <2>7, ProcOf DEF Using, ReadHdr, ReadData
    <3>2. PICK l \in {"rdata", "failed", "empty", "exception", "own", "other"} : ReadLine(x, l)
      BY <2>7 DEF ReadHdr, ReadData
    <3>3. UNCHANGED <<faults, started>> /\ (alive' = alive \/ Kill(hproc[x]))
      BY <3>2 DEF ReadLine
    <3>4. hpc'[x] = l
      BY <3>2 DEF ReadLine, Goto, TypeOK
    <3> QED BY <2>0, <3>1, <3>3, <3>4 DEF Before, TypeOK
  <2> QED BY <1>1, <2>1, <2>2, <2>3, <2>4, <2>5, <2>6, <2>7 DEF HandlerStep
<1>2. ASSUME NEW q \in Procs, ProcMoves(q)
      PROVE  /\ faults' = faults \/ (faults' = faults \cup {<<"proc", q>>} /\ ~alive'[q])
             /\ \A p \in Procs : ~alive[p] => ~alive'[p]
  <2>1. CASE PyImport(q)
    BY <2>1 DEF PyImport
  <2>2. CASE PyRead(q)
    BY <2>2 DEF PyRead, TypeOK
  <2>3. CASE PyAnswer(q)
    BY <2>3 DEF PyAnswer
  <2>4. CASE PyRaises(q)
    BY <2>4 DEF PyRaises, TypeOK
  <2>5. CASE PyDies(q)
    BY <2>5 DEF PyDies, TypeOK
  <2> QED BY <1>2, <2>1, <2>2, <2>3, <2>4, <2>5 DEF ProcMoves, Works
<1>3. \A n : <<"proc", n>> # <<"call", 0>> /\ \A x \in Handlers : <<"proc", n>> # <<"call", x[1]>>
  OBVIOUS
<1>4. \A c \in Calls : <<c, 1>> \in Handlers /\ <<c, 2>> \in Handlers
  BY DEF Handlers
<1>5. CASE \E x \in Handlers : HandlerStep(x)
  <2>1. PICK x \in Handlers : HandlerStep(x)
    BY <1>5
  <2>2. faults \subseteq faults' /\ \A n : Died(n)' <=> Died(n)
    BY <1>1, <1>3, <2>1 DEF Died
  <2>3. \A y \in Handlers : y # x => hpc'[y] = hpc[y] /\ hproc'[y] = hproc[y]
    BY <2>1, HandlerChanges
  <2>4. \A y \in Handlers : hpc'[y] \in Before => hproc'[y] = 0
    BY <1>1, <2>1, <2>3 DEF DeadInv
  <2>5. \A p \in Procs : Died(p)' => ~alive'[p] /\ p <= started'
    <3>1. started \in Nat /\ started' \in Nat /\ \A p \in Procs : p \in Nat
      BY <2>1, StepOnce, HandlerFacts DEF TypeOK
    <3> QED BY <1>1, <2>1, <2>2, <3>1 DEF DeadInv
  <2>6. \A y \in Handlers : <<"proc", hproc[y]>> \in faults => <<"proc", hproc'[y]>> \in faults'
    <3>1. \A y \in Handlers : <<"proc", hproc[y]>> \in faults => hproc'[y] = hproc[y]
      BY <2>1, <2>3, HandlerChanges DEF DeadInv, Before, Died
    <3> QED BY <2>2, <3>1
  <2>7. \A c \in Calls : Excused(c) => Excused(c)'
    <3>1. \A c \in Calls : <<"call", c>> \in faults => <<"call", c>> \in faults'
      BY <2>2
    <3>2. \A c \in Calls : \A k \in {1, 2} :
            <<"proc", hproc[<<c, k>>]>> \in faults => <<"proc", hproc'[<<c, k>>]>> \in faults'
      BY <1>4, <2>6
    <3> QED BY <3>1, <3>2 DEF Excused
  <2> QED BY <2>2, <2>4, <2>5, <2>7 DEF DeadInv
<1>6. CASE \E q \in Procs : ProcMoves(q)
  <2>1. PICK q \in Procs : ProcMoves(q)
    BY <1>6
  <2>2. UNCHANGED <<hpc, hproc, started>> /\ alive[q]
    BY <2>1, ProcChanges
  <2>3. faults \subseteq faults' /\ \A n : Died(n)' => Died(n) \/ (n = q /\ ~alive'[q])
    BY <1>2, <2>1 DEF Died
  <2>4. q <= started /\ q # 0
    BY <2>2, HandlerFacts DEF StartInv, TypeOK
  <2>5. DeadInv'
    BY <1>2, <2>1, <2>2, <2>3, <2>4 DEF DeadInv
  <2>6. \A c \in Calls : Excused(c) => Excused(c)'
    BY <2>2, <2>3 DEF Excused
  <2> QED BY <2>5, <2>6
<1>7. CASE ClientStep \/ UNCHANGED vars
  <2>1. UNCHANGED <<hproc, started, alive, faults>>
    BY <1>7 DEF ClientStep, Send, Answer, Timeout, vars, handlerVars, procVars
  <2>2. \A y \in Handlers : hpc'[y] \in Before => hpc[y] \in Before
    <3>1. CASE Send
      BY <3>1 DEF Send, Before, TypeOK
    <3>2. CASE ~Send
      BY <1>7, <3>2 DEF ClientStep, Answer, Timeout, vars, handlerVars
    <3> QED BY <3>1, <3>2
  <2>3. DeadInv'
    BY <2>1, <2>2 DEF DeadInv, Died
  <2> QED BY <2>1, <2>3 DEF Excused
<1> QED BY <1>5, <1>6, <1>7, ProcStepMoves DEF Next, Finished

-----------------------------------------------------------------------------
(* The only handler at work and its process stay in step.                   *)

\* Nothing is asked of a handler outside of an exchange.
LEMMA GoodOutside ==
  ASSUME NEW x \in Handlers, hpc'[x] \notin Using \cup {"other", "empty", "failed"},
         Usable' => Idle(current)'
  PROVE  Good(x)'
<1>1. StepInv(x)'
  BY DEF StepInv, Using
<1> QED BY <1>1 DEF Good

LEMMA GoodRuntime ==
  ASSUME OnceInv, NEW x \in Handlers, Good(x), Truncate(x) \/ Fill(x) \/ NoRuntime(x)
  PROVE  Good(x)'
<1> USE DEF OnceInv
<1>1. UNCHANGED <<current, alive, invalid, stdin, stdout, request, faults>>
  BY DEF Truncate, Fill, NoRuntime, procVars, managerVars
<1>2. hpc[x] \notin Using /\ hpc'[x] \in {"fill", "get", "noruntime"}
  BY DEF Truncate, Fill, NoRuntime, Goto, TypeOK, Using
<1>3. Usable' => Idle(current)'
  BY <1>1, <1>2 DEF Good, Usable, Idle, State, Died
<1> QED BY <1>2, <1>3, GoodOutside DEF Using

\* The host's errors excuse the handler that meets them.
LEMMA GoodFault ==
  ASSUME OnceInv, NEW x \in Handlers, Good(x), SaveFails(x) \/ StartProcessFails(x)
  PROVE  Good(x)'
<1> USE DEF OnceInv
<1>1. /\ UNCHANGED <<current, alive, invalid, stdin, stdout, request>>
      /\ faults' = faults \cup {<<"call", x[1]>>}
  BY DEF SaveFails, StartProcessFails, Fault, procVars, managerVars
<1>2. hpc[x] \notin Using /\ hpc'[x] = "failed"
  BY DEF SaveFails, StartProcessFails, Fault, Goto, TypeOK, Using
<1>3. Usable' => Idle(current)'
  BY <1>1, <1>2 DEF Good, Usable, Idle, State, Died
<1>4. StepInv(x)'
  BY <1>1, <1>2 DEF StepInv, Using, Excused
<1> QED BY <1>3, <1>4 DEF Good

\* And so does the death of its process.
LEMMA DeadFails ==
  ASSUME OnceInv, NEW x \in Handlers, hpc[x] \in Using, Died(hproc[x]),
         Kill(hproc[x]), Goto(x, "failed"), UNCHANGED <<current, hproc, faults>>,
         current = hproc[x] \/ ~Usable
  PROVE  Good(x)'
<1> USE DEF OnceInv
<1>1. hproc[x] \in Procs /\ hpc'[x] = "failed"
  BY ProcOf DEF Goto, TypeOK
<1>2. invalid' = [invalid EXCEPT ![hproc[x]] = TRUE]
  BY DEF Kill
<1>3. ~Usable'
  BY <1>1, <1>2 DEF Usable, TypeOK
<1>4. Excused(x[1])'
  <2>1. x = <<x[1], x[2]>> /\ x[2] \in {1, 2}
    BY DEF Handlers
  <2>2. <<"proc", hproc'[x]>> \in faults'
    BY DEF Died
  <2>3. <<"proc", hproc'[<<x[1], x[2]>>]>> \in faults'
    BY <2>1, <2>2
  <2> QED BY <2>1, <2>3 DEF Excused
<1>5. StepInv(x)'
  BY <1>1, <1>4 DEF StepInv, Using
<1> QED BY <1>3, <1>5 DEF Good

LEMMA GoodGet ==
  ASSUME OnceInv, NEW x \in Handlers, Good(x), GetCurrent(x)
  PROVE  Good(x)'
<1> USE DEF OnceInv
<1>1. UNCHANGED <<current, alive, invalid, stdin, stdout, request, faults>> /\ Usable
  BY DEF GetCurrent, procVars, managerVars
<1>2. hpc[x] = "get" /\ hpc'[x] = "tag" /\ hproc'[x] = current
  BY DEF GetCurrent, Goto, TypeOK
<1>3. Idle(current)'
  BY <1>1, <1>2 DEF Good, Idle, State, Using, Died
<1>5. StepInv(x)'
  BY <1>1, <1>2, <1>3 DEF StepInv
<1> QED BY <1>2, <1>5 DEF Good, Using

LEMMA GoodStart ==
  ASSUME OnceInv, NEW x \in Handlers, Good(x), StartProcess(x)
  PROVE  Good(x)'
<1> USE DEF OnceInv
<1>0. PICK p \in Procs : p = started + 1
  <2>1. hpc[x] = "get" /\ Moves(x, "hello")
    BY DEF StartProcess, Goto, Moves
  <2> QED BY <2>1, StartRoom DEF Before
<1>1. /\ hpc[x] = "get" /\ Moves(x, "hello") /\ ~Usable
      /\ hproc' = [hproc EXCEPT ![x] = p] /\ alive' = [alive EXCEPT ![p] = TRUE]
      /\ request' = [request EXCEPT ![p] = Import] /\ stdin' = [stdin EXCEPT ![p] = HelloLines]
      /\ UNCHANGED <<current, invalid, stdout>>
  BY <1>0 DEF StartProcess, Goto, Moves, HelloLines, managerVars
<1>3. p > started
  BY <1>0 DEF TypeOK
<1>4. hpc'[x] = "hello" /\ hproc'[x] = p
  BY <1>1 DEF Moves, TypeOK
<1>6. ~Usable'
  BY <1>1 DEF Usable
<1>7. ~invalid[p] /\ stdout[p] = <<>>
  BY <1>3 DEF StartInv
<1>8. State(p, HelloLines, Import, <<>>)'
  BY <1>1, <1>7 DEF State, TypeOK
<1>9. Greeting(p)'
  BY <1>8 DEF Greeting, HelloLines, Import
<1>10. StepInv(x)'
  BY <1>4, <1>6, <1>9 DEF StepInv
<1> QED BY <1>4, <1>10 DEF Good, Using

\* What two lines are without the first two, or without the first.
LEMMA Lines2 ==
  ASSUME NEW d, NEW e
  PROVE  /\ Len(<<d, e>>) = 2 /\ SubSeq(<<d, e>>, 3, Len(<<d, e>>)) = <<>>
         /\ <<d, e>> # <<>> /\ Head(<<d, e>>) = d /\ Tail(<<d, e>>) = <<e>>
         /\ <<e>> # <<>> /\ Head(<<e>>) = e /\ Tail(<<e>>) = <<>> /\ Len(<<e>>) = 1
         /\ Append(<<>>, d) = <<d>> /\ Append(<<d>>, e) = <<d, e>>
         /\ <<>> \o <<d, e>> = <<d, e>> /\ Len(<<>>) = 0
<1>1. <<d, e>> \in Seq({d, e}) /\ Len(<<d, e>>) = 2
  OBVIOUS
<1> DEFINE t == SubSeq(<<d, e>>, 3, Len(<<d, e>>))
<1>2. t \in Seq({d, e}) /\ Len(t) = 0
  BY <1>1, TwoOff
<1>3. t = <<>>
  BY <1>2, EmptySeq
<1>4. <<d, e>> # <<>> /\ Head(<<d, e>>) = d /\ Tail(<<d, e>>) = <<e>>
  OBVIOUS
<1>5. <<e>> # <<>> /\ Head(<<e>>) = e /\ Tail(<<e>>) = <<>> /\ Len(<<e>>) = 1 /\ Len(<<>>) = 0
  OBVIOUS
<1>6. Append(<<>>, d) = <<d>> /\ Append(<<d>>, e) = <<d, e>>
  <2>1. Append(<<>>, d) = <<d>>
    OBVIOUS
  <2> DEFINE u == Append(<<d>>, e)
             v == <<d, e>>
  <2>2. <<d>> \in Seq({d, e}) /\ Len(<<d>>) = 1 /\ <<d>>[1] = d /\ d \in {d, e} /\ e \in {d, e}
    OBVIOUS
  <2>3. u \in Seq({d, e}) /\ Len(u) = 2 /\ \A i \in 1..Len(u) : u[i] = IF i <= 1 THEN <<d>>[i] ELSE e
    BY <2>2, OneMore
  <2>4. v \in Seq({d, e}) /\ Len(v) = 2 /\ v[1] = d /\ v[2] = e
    OBVIOUS
  <2> HIDE DEF u, v
  <2>5. u[1] = d /\ u[2] = e
    BY <2>2, <2>3
  <2>6. \A i \in 1..Len(u) : u[i] = v[i]
    BY <2>3, <2>4, <2>5
  <2>7. u = v
    BY <2>3, <2>4, <2>6, SeqEqual
  <2> QED BY <2>1, <2>7 DEF u, v
<1>7. <<>> \o <<d, e>> = <<d, e>>
  BY <1>1, ConcatEmptySeq
<1> QED BY <1>1, <1>3, <1>4, <1>5, <1>6, <1>7, Zenon DEF t

LEMMA GoodHello ==
  ASSUME OnceInv, NEW x \in Handlers, Good(x), Hello(x)
  PROVE  Good(x)'
<1> USE DEF OnceInv
<1> DEFINE p == hproc[x]
<1>1. hpc[x] = "hello" /\ UNCHANGED <<hproc, stdin, request, faults>> /\ p \in Procs
  <2>1. hpc[x] = "hello" /\ UNCHANGED <<hproc, stdin, request, faults>>
    BY DEF Hello
  <2> QED BY <2>1, ProcOf DEF Using
<1>2. Greeting(p) /\ ~Usable
  BY <1>1 DEF Good, StepInv
<1>3. (alive[p] \/ Died(p)) /\ ~invalid[p]
  BY <1>2 DEF Greeting, State
<1>a. CASE ~alive[p] /\ Kill(p) /\ Goto(x, "failed") /\ UNCHANGED <<current, stdout>>
  BY <1>1, <1>2, <1>3, <1>a, DeadFails DEF Using
<1>b. CASE /\ Len(stdout[p]) >= 2 /\ stdout' = [stdout EXCEPT ![p] = SubSeq(@, 3, Len(@))]
           /\ current' = p /\ Goto(x, "tag") /\ UNCHANGED <<alive, invalid>>
  <2>5. State(p, <<>>, NoRequest, <<HeaderLine(1), BodyLine("result", 0)>>)
    <3>1. stdout[p] # <<>>
      BY <1>b, Lines2
    <3> QED BY <1>2, <3>1 DEF Greeting, State
  <2>6. stdout'[p] = <<>>
    <3> DEFINE u == SubSeq(stdout[p], 3, Len(stdout[p]))
    <3>1. stdout' = [stdout EXCEPT ![p] = u]
      BY <1>b
    <3>2. u = <<>>
      BY <2>5, Lines2 DEF State
    <3> HIDE DEF u
    <3> QED BY <1>1, <3>1, <3>2 DEF TypeOK
  <2>7. Idle(p)'
    BY <1>1, <1>b, <2>5, <2>6 DEF Idle, State, Died
  <2>8. hpc'[x] = "tag" /\ hproc'[x] = p
    BY <1>1, <1>b DEF Goto, TypeOK
  <2>9. StepInv(x)'
    BY <1>b, <2>7, <2>8 DEF StepInv
  <2> QED BY <2>8, <2>9 DEF Good, Using
<1> QED BY <1>a, <1>b DEF Hello

LEMMA GoodTag ==
  ASSUME OnceInv, NEW x \in Handlers, Good(x), TakeTag(x) \/ BumpTag(x)
  PROVE  Good(x)'
<1> USE DEF OnceInv
<1> DEFINE p == hproc[x]
<1>1. hpc[x] \in {"tag", "bump"} /\ UNCHANGED <<hproc, current, alive, invalid, stdin, stdout, request, faults>>
  BY DEF TakeTag, BumpTag, managerVars
<1>2. Idle(p) /\ current = p
  BY <1>1 DEF Good, StepInv, Using
<1>3. hpc'[x] \in {"bump", "hdr"}
  <2>1. ~invalid[p]
    BY <1>2 DEF Idle, State
  <2> QED BY <2>1 DEF TakeTag, BumpTag, Goto, TypeOK
<1>4. Idle(p)'
  BY <1>1, <1>2 DEF Idle, State, Died
<1>5. StepInv(x)'
  BY <1>1, <1>2, <1>3, <1>4 DEF StepInv
<1> QED BY <1>1, <1>2, <1>3, <1>5 DEF Good, Using

LEMMA GoodWrite ==
  ASSUME OnceInv, NEW x \in Handlers, Good(x), WriteHdr(x) \/ WriteData(x)
  PROVE  Good(x)'
<1> USE DEF OnceInv
<1> DEFINE p == hproc[x]
           E == ExecuteLine(x[1], htag[x])
           D == DataLine(x[1])
<1>1. hpc[x] \in {"hdr", "data"} /\ UNCHANGED <<hproc, htag, current, stdout, request, faults>> /\ p \in Procs
  <2>1. hpc[x] \in {"hdr", "data"} /\ UNCHANGED <<hproc, htag, current, stdout, request, faults>>
    BY DEF WriteHdr, WriteData, Write, managerVars
  <2> QED BY <2>1, ProcOf DEF Using
<1>2. current = p
  BY <1>1 DEF Good, StepInv, Using
<1>d. CASE ~alive[p]
  <2>1. Died(p)
    BY <1>1, <1>d DEF Good, StepInv, Idle, State
  <2>2. Kill(p) /\ Goto(x, "failed")
    BY <1>d DEF WriteHdr, WriteData, Write
  <2> QED BY <1>1, <1>2, <2>1, <2>2, DeadFails DEF Using
<1>3. CASE WriteHdr(x) /\ alive[p]
  <2>1. Idle(p)
    BY <1>3 DEF Good, StepInv, WriteHdr
  <2>2. stdin' = [stdin EXCEPT ![p] = Append(@, E)] /\ Goto(x, "data") /\ UNCHANGED <<alive, invalid>>
    BY <1>3 DEF WriteHdr, Write, ExecuteLine
  <2>3. stdin'[p] = <<E>>
    <3> HIDE DEF E
    <3>1. Append(stdin[p], E) = <<E>>
      BY <2>1, Lines2 DEF Idle, State
    <3>2. stdin' = [stdin EXCEPT ![p] = <<E>>]
      BY <2>2, <3>1
    <3> QED BY <1>1, <3>2 DEF TypeOK
  <2>4. hpc'[x] = "data"
    BY <2>2 DEF Goto, TypeOK
  <2>5. State(p, <<ExecuteLine(x[1], htag[x])>>, NoRequest, <<>>)'
    BY <1>1, <2>1, <2>2, <2>3 DEF Idle, State, Died
  <2>6. StepInv(x)'
    BY <1>1, <1>2, <2>4, <2>5 DEF StepInv
  <2> QED BY <2>4, <2>6 DEF Good, Using
<1>4. CASE WriteData(x) /\ alive[p]
  <2>1. State(p, <<E>>, NoRequest, <<>>)
    BY <1>4 DEF Good, StepInv, WriteData
  <2>2. stdin' = [stdin EXCEPT ![p] = Append(@, D)] /\ Goto(x, "rhdr") /\ UNCHANGED <<alive, invalid>>
    BY <1>4 DEF WriteData, Write, DataLine
  <2>3. stdin'[p] = <<E, D>>
    <3> HIDE DEF E, D
    <3>1. Append(stdin[p], D) = <<E, D>>
      <4>1. stdin[p] = <<E>>
        BY <2>1 DEF State
      <4>2. Append(<<E>>, D) = <<E, D>>
        BY Lines2
      <4> QED BY <4>1, <4>2
    <3>2. stdin' = [stdin EXCEPT ![p] = <<E, D>>]
      BY <2>2, <3>1
    <3> QED BY <1>1, <3>2 DEF TypeOK
  <2>4. hpc'[x] = "rhdr"
    BY <2>2 DEF Goto, TypeOK
  <2>5. State(p, <<ExecuteLine(x[1], htag[x]), DataLine(x[1])>>, NoRequest, <<>>)'
    BY <1>1, <2>1, <2>2, <2>3 DEF State, Died
  <2>6. Exchange(p, x[1], htag[x])'
    BY <1>1, <2>5 DEF Exchange
  <2>7. StepInv(x)'
    BY <1>1, <1>2, <2>4, <2>6 DEF StepInv
  <2> QED BY <2>4, <2>7 DEF Good, Using
<1> QED BY <1>d, <1>3, <1>4


\* A handler that is alone reads the line that is there, or cannot get past it.
LEMMA OwnHead ==
  ASSUME NEW x \in Handlers, Alone(x), NEW line \in Lines(x), NEW e,
         stdout[hproc[x]] # <<>>, Head(stdout[hproc[x]]) = e
  PROVE  line = IF e.cmd = "long" THEN Garbage ELSE e
<1>1. ~Racing(x)
  BY DEF Alone, Racing, Done
<1> QED BY <1>1 DEF Lines, Stuck

LEMMA OwnLines ==
  ASSUME NEW x \in Handlers, Alone(x), NEW line \in Lines(x), NEW e, NEW rest,
         stdout[hproc[x]] \in {<<e>>, <<e, rest>>}
  PROVE  line = IF e.cmd = "long" THEN Garbage ELSE e
<1>1. stdout[hproc[x]] # <<>> /\ Head(stdout[hproc[x]]) = e
  BY Lines2
<1> QED BY <1>1, OwnHead

LEMMA GoodReadHdr ==
  ASSUME OnceInv, NEW x \in Handlers, Good(x), Alone(x), ReadHdr(x)
  PROVE  Good(x)'
<1> USE DEF OnceInv
<1> DEFINE p == hproc[x]
           c == x[1]
           H == HeaderLine(htag[x])
<1>1. PICK line \in Lines(x) :
        ReadLine(x, IF line.cmd # "garbage" /\ line.tag = htag[x] THEN "rdata" ELSE "failed")
  BY DEF ReadHdr
<1>2. hpc[x] = "rhdr" /\ UNCHANGED <<hproc, htag, current, stdin, request, faults>> /\ p \in Procs
  <2>1. hpc[x] = "rhdr" /\ UNCHANGED <<hproc, htag, current, stdin, request, faults>>
    BY <1>1 DEF ReadHdr, ReadLine, managerVars
  <2> QED BY <2>1, ProcOf DEF Using
<1>3. current = p /\ Exchange(p, c, htag[x])
  BY <1>2 DEF Good, StepInv, Using
<1>4. CASE stdout[p] = <<>>
  <2>1. ~alive[p] /\ line = Garbage
    BY <1>1, <1>4 DEF Lines, Stuck
  <2>2. Died(p)
    BY <1>3, <2>1 DEF Exchange, State
  <2>3. Kill(p) /\ Goto(x, "failed")
    BY <1>1, <2>1 DEF ReadLine, Garbage
  <2> QED BY <1>2, <1>3, <2>2, <2>3, DeadFails DEF Using
<1>5. H.cmd = "header" /\ H.tag = htag[x]
  BY DEF HeaderLine
<1>6. ASSUME stdout[p] # <<>>, Head(stdout[p]) = H
      PROVE  /\ stdout'[p] = Tail(stdout[p]) /\ hpc'[x] = "rdata" /\ UNCHANGED <<alive, invalid>>
  <2> HIDE DEF H
  <2>1. line = H
    <3>1. line = IF H.cmd = "long" THEN Garbage ELSE H
      BY <1>6, OwnHead
    <3> QED BY <1>5, <3>1
  <2>2. ~Stuck(p) /\ ReadLine(x, "rdata")
    BY <1>1, <1>5, <1>6, <2>1 DEF Stuck
  <2> DEFINE u == Tail(stdout[p])
  <2>3. stdout' = [stdout EXCEPT ![p] = u]
    BY <1>6, <2>2 DEF ReadLine
  <2>4. hpc'[x] = "rdata" /\ UNCHANGED <<alive, invalid>>
    BY <2>2 DEF ReadLine, Goto, TypeOK
  <2> HIDE DEF u
  <2>5. stdout'[p] = u
    BY <1>2, <2>3 DEF TypeOK
  <2> QED BY <2>4, <2>5 DEF u
<1>7. ASSUME NEW b \in {"result", "exception", "long"}, State(p, <<>>, NoRequest, <<H, BodyLine(b, c)>>)
      PROVE  Good(x)'
  <2> DEFINE B == BodyLine(b, c)
  <2>1. stdout[p] = <<H, B>>
    BY <1>7 DEF State
  <2> HIDE DEF H, B
  <2>2. <<H, B>> # <<>> /\ Head(<<H, B>>) = H /\ Tail(<<H, B>>) = <<B>>
    BY Lines2
  <2>3. stdout'[p] = <<B>> /\ hpc'[x] = "rdata" /\ UNCHANGED <<alive, invalid>>
    BY <1>6, <2>1, <2>2
  <2>4. State(p, <<>>, NoRequest, <<BodyLine(b, c)>>)'
    BY <1>2, <1>7, <2>3 DEF State, B, Died
  <2>5. StepInv(x)'
    BY <1>2, <1>3, <2>3, <2>4 DEF StepInv
  <2> QED BY <2>3, <2>5 DEF Good, Using
<1>8. CASE Died(p) /\ State(p, <<>>, NoRequest, <<H>>)
  <2>1. stdout[p] = <<H>>
    BY <1>8 DEF State
  <2> HIDE DEF H
  <2>2. <<H>> # <<>> /\ Head(<<H>>) = H /\ Tail(<<H>>) = <<>>
    BY Lines2
  <2>3. stdout'[p] = <<>> /\ hpc'[x] = "rdata" /\ UNCHANGED <<alive, invalid>>
    BY <1>6, <2>1, <2>2
  <2>4. Died(p)' /\ Idle(p)'
    BY <1>2, <1>8, <2>3 DEF Idle, State, Died
  <2>5. StepInv(x)'
    BY <1>2, <1>3, <2>3, <2>4 DEF StepInv
  <2> QED BY <2>3, <2>5 DEF Good, Using
<1> QED
  <2>1. \/ stdout[p] = <<>>
        \/ \E b \in {"result", "exception", "long"} : State(p, <<>>, NoRequest, <<H, BodyLine(b, c)>>)
        \/ Died(p) /\ State(p, <<>>, NoRequest, <<H>>)
    BY <1>3 DEF Exchange, State
  <2> QED BY <1>4, <1>7, <1>8, <2>1

LEMMA GoodReadData ==
  ASSUME OnceInv, DeadInv, NEW x \in Handlers, Good(x), Alone(x), ReadData(x)
  PROVE  Good(x)'
<1> USE DEF OnceInv
<1> DEFINE p == hproc[x]
           c == x[1]
           Ends(line) == CASE line.cmd = "garbage" -> "failed"
                           [] line.cmd = "header" -> "empty"
                           [] line.cmd = "exception" -> "exception"
                           [] OTHER -> IF line.call = c THEN "own" ELSE "other"
<1>1. PICK line \in Lines(x) : ReadLine(x, Ends(line))
  BY DEF ReadData
<1>2. hpc[x] = "rdata" /\ UNCHANGED <<hproc, htag, current, stdin, request, faults>> /\ p \in Procs
  <2>1. hpc[x] = "rdata" /\ UNCHANGED <<hproc, htag, current, stdin, request, faults>>
    BY <1>1 DEF ReadData, ReadLine, managerVars
  <2> QED BY <2>1, ProcOf DEF Using
<1>3. current = p
  BY <1>2 DEF Good, StepInv, Using
<1>d. CASE Died(p) /\ Idle(p)
  <2>1. ~alive[p] /\ stdout[p] = <<>>
    BY <1>2, <1>d DEF DeadInv, Idle, State
  <2>2. line = Garbage
    BY <1>1, <2>1 DEF Lines, Stuck
  <2>3. Kill(p) /\ Goto(x, "failed")
    BY <1>1, <2>2 DEF ReadLine, Garbage
  <2> QED BY <1>2, <1>3, <1>d, <2>3, DeadFails DEF Using
<1>4. CASE \E b \in {"result", "exception", "long"} : State(p, <<>>, NoRequest, <<BodyLine(b, c)>>)
  <2>0. PICK b \in {"result", "exception", "long"} : State(p, <<>>, NoRequest, <<BodyLine(b, c)>>)
    BY <1>4
  <2> DEFINE B == BodyLine(b, c)
  <2>1. B.cmd = b /\ B.call = c
    BY DEF BodyLine
  <2>2. stdout[p] = <<B>>
    BY <2>0 DEF State
  <2> HIDE DEF B
  <2>3. line = IF b = "long" THEN Garbage ELSE B
    BY <2>1, <2>2, OwnLines
  <2>4. stdout[p] # <<>> /\ Head(stdout[p]) = B /\ Tail(stdout[p]) = <<>>
    BY <2>2, Lines2
  <2>5. CASE b = "long"
    <3>1. Ends(line) = "failed" /\ Stuck(p)
      BY <2>1, <2>3, <2>4, <2>5 DEF Garbage, Stuck
    <3>2. ReadLine(x, "failed")
      BY <1>1, <3>1
    <3>3. hpc'[x] = "failed" /\ Kill(p)
      BY <3>2 DEF ReadLine, Goto, TypeOK
    <3>4. stdout'[p] = stdout[p]
      BY <1>2, <3>1, <3>2 DEF ReadLine, TypeOK
    <3>5. LongFor(c)'
      BY <1>2, <2>1, <2>4, <2>5, <3>4 DEF LongFor
    <3>6. invalid'[p]
      BY <1>2, <3>3, KillTyped
    <3>7. ~Usable'
      BY <1>2, <1>3, <3>6 DEF Usable
    <3>8. StepInv(x)'
      BY <3>3, <3>5 DEF StepInv, Using
    <3> QED BY <3>7, <3>8 DEF Good
  <2>6. CASE b # "long"
    <3>1. Ends(line) \in {"exception", "own"} /\ ~Stuck(p)
      BY <2>1, <2>3, <2>4, <2>6 DEF Stuck
    <3>2. PICK l \in {"exception", "own"} : ReadLine(x, l)
      BY <1>1, <3>1
    <3>3. hpc'[x] = l /\ UNCHANGED <<alive, invalid>>
      BY <3>2 DEF ReadLine, Goto, TypeOK
    <3>4. stdout'[p] = <<>>
      <4> DEFINE u == Tail(stdout[p])
      <4>1. stdout' = [stdout EXCEPT ![p] = u]
        BY <2>4, <3>1, <3>2 DEF ReadLine
      <4>2. u = <<>>
        BY <2>4
      <4> HIDE DEF u
      <4> QED BY <1>2, <4>1, <4>2 DEF TypeOK
    <3>5. Idle(p)'
      BY <1>2, <2>0, <3>3, <3>4 DEF Idle, State, Died
    <3>6. Idle(current)'
      BY <1>2, <1>3, <3>5 DEF Idle, State, Died
    <3> QED BY <3>3, <3>6, GoodOutside DEF Using
  <2> QED BY <2>5, <2>6
<1> QED BY <1>2, <1>4, <1>d DEF Good, StepInv

LEMMA GoodHandler ==
  ASSUME OnceInv, DeadInv, NEW x \in Handlers, Good(x), Alone(x), HandlerStep(x)
  PROVE  Good(x)'
BY GoodRuntime, GoodFault, GoodGet, GoodStart, GoodHello, GoodTag, GoodWrite, GoodReadHdr, GoodReadData
   DEF HandlerStep


\* A process that has no request and no two lines to read waits.
LEMMA Waits ==
  ASSUME NEW p \in Procs, request[p] = NoRequest, ~(Len(stdin[p]) >= 2)
  PROVE  ~Works(p)
BY DEF Works, PyImport, PyRead, PyAnswer, PyRaises, PyRuns, NoRequest, Import

LEMMA DiedStays ==
  ASSUME NEW p \in Procs, ProcMoves(p), NEW q, Died(q)
  PROVE  Died(q)'
<1>1. faults' = faults \/ faults' = faults \cup {<<"proc", p>>}
  BY DEF ProcMoves, Works, PyImport, PyRead, PyAnswer, PyRaises, PyDies
<1> QED BY <1>1 DEF Died

\* The state of a process that another one leaves alone, or that just dies.
LEMMA StateFrame ==
  ASSUME OnceInv, NEW p \in Procs, ProcMoves(p), NEW q \in Procs, q # p \/ PyDies(p),
         NEW in, NEW r, NEW out, State(q, in, r, out)
  PROVE  State(q, in, r, out)'
<1>1. invalid'[q] = invalid[q] /\ stdin'[q] = stdin[q] /\ request'[q] = request[q] /\ stdout'[q] = stdout[q]
  BY ProcChanges DEF PyDies
<1>2. alive'[q] \/ Died(q)'
  <2>1. CASE Died(q)
    BY <2>1, DiedStays
  <2>2. CASE alive[q] /\ q # p
    BY <2>2, ProcChanges
  <2>3. CASE PyDies(p) /\ q = p
    BY <2>3 DEF PyDies, Died
  <2>4. CASE alive[q] /\ PyDies(p) /\ q # p
    BY <2>4, ProcChanges
  <2> QED BY <2>1, <2>2, <2>3, <2>4 DEF State
<1> QED BY <1>1, <1>2 DEF State

\* Both lines of a request are read at once.
LEMMA ReadsBoth ==
  ASSUME OnceInv, NEW p \in Procs, NEW d, NEW e, NEW out, State(p, <<d, e>>, NoRequest, out), Works(p),
         d.cmd # "data", e.cmd = "data"
  PROVE  State(p, <<>>, [cmd |-> d.cmd, call |-> e.call, tag |-> d.tag], out)'
<1> USE DEF OnceInv
<1>1. PyRead(p)
  BY DEF Works, PyImport, PyAnswer, PyRaises, PyRuns, State, NoRequest, Import
<1>2. stdin[p] = <<d, e>> /\ stdin[p][1] = d /\ stdin[p][2] = e
  BY DEF State
<1> DEFINE u == SubSeq(stdin[p], 3, Len(stdin[p]))
           v == [cmd |-> d.cmd, call |-> e.call, tag |-> d.tag]
<1>3. u = <<>>
  BY <1>2, Lines2
<1>4. stdin' = [stdin EXCEPT ![p] = u] /\ request' = [request EXCEPT ![p] = v] /\ UNCHANGED <<alive, invalid, stdout, faults>>
  BY <1>1, <1>2 DEF PyRead
<1> HIDE DEF u, v
<1>5. stdin'[p] = <<>> /\ request'[p] = v
  BY <1>3, <1>4 DEF TypeOK
<1> QED BY <1>4, <1>5 DEF State, v, Died

\* Both lines of an answer are written at once; or the header, and the process is gone.
LEMMA AnswersBoth ==
  ASSUME OnceInv, NEW p \in Procs, NEW r, r.cmd \in {"hello", "execute"}, State(p, <<>>, r, <<>>), Works(p)
  PROVE  \/ \E b \in Bodies(r.cmd) : State(p, <<>>, NoRequest, <<HeaderLine(r.tag), BodyLine(b, r.call)>>)'
         \/ r.cmd = "execute" /\ Died(p)' /\ State(p, <<>>, NoRequest, <<HeaderLine(r.tag)>>)'
<1> USE DEF OnceInv
<1>1. PyRuns(p) /\ (PyAnswer(p) \/ PyRaises(p))
  BY DEF Works, PyImport, PyRead, PyAnswer, PyRaises, State, NoRequest, Import
<1>2. request[p] = r /\ stdin[p] = <<>> /\ stdout[p] = <<>>
  BY DEF State
<1>3. request' = [request EXCEPT ![p] = NoRequest] /\ UNCHANGED <<invalid, stdin>>
  BY <1>1 DEF PyRuns
<1> DEFINE H == HeaderLine(r.tag)
<1>4. CASE PyAnswer(p)
  <2>1. PICK b \in Bodies(r.cmd) :
          stdout' = [stdout EXCEPT ![p] = stdout[p] \o <<HeaderLine(r.tag), BodyLine(b, r.call)>>]
    BY <1>2, <1>4 DEF PyAnswer, HeaderFor, HeaderLine, BodyLine
  <2>2. UNCHANGED <<alive, faults>>
    BY <1>4 DEF PyAnswer
  <2> DEFINE B == BodyLine(b, r.call)
             u == stdout[p] \o <<H, B>>
  <2>3. stdout' = [stdout EXCEPT ![p] = u]
    BY <2>1
  <2> HIDE DEF H, B
  <2>4. u = <<H, B>>
    <3>1. <<>> \o <<H, B>> = <<H, B>>
      BY Lines2
    <3> QED BY <1>2, <3>1
  <2> HIDE DEF u
  <2>5. stdout'[p] = <<H, B>> /\ request'[p] = NoRequest
    BY <1>3, <2>3, <2>4 DEF TypeOK
  <2>6. State(p, <<>>, NoRequest, <<H, B>>)'
    BY <1>2, <1>3, <2>2, <2>5 DEF State, Died
  <2> QED BY <2>6 DEF H, B
<1>5. CASE PyRaises(p)
  <2> DEFINE u == Append(stdout[p], H)
  <2>1. stdout' = [stdout EXCEPT ![p] = u] /\ r.cmd = "execute" /\ <<"proc", p>> \in faults'
    BY <1>2, <1>5 DEF PyRaises, HeaderFor, HeaderLine
  <2> HIDE DEF H
  <2>2. u = <<H>>
    BY <1>2, Lines2
  <2> HIDE DEF u
  <2>3. stdout'[p] = <<H>> /\ request'[p] = NoRequest
    BY <1>3, <2>1, <2>2 DEF TypeOK
  <2>4. Died(p)'
    BY <2>1 DEF Died
  <2>5. State(p, <<>>, NoRequest, <<H>>)'
    BY <1>2, <1>3, <2>3, <2>4 DEF State
  <2> QED BY <2>1, <2>4, <2>5 DEF H
<1> QED BY <1>1, <1>4, <1>5

LEMMA GreetingStep ==
  ASSUME OnceInv, NEW p \in Procs, Greeting(p), Works(p)
  PROVE  Greeting(p)'
<1> USE DEF OnceInv
<1> DEFINE R == [cmd |-> "hello", call |-> 0, tag |-> 1]
<1>1. CASE State(p, HelloLines, Import, <<>>)
  <2>1. PyImport(p)
    BY <1>1 DEF Works, PyRead, PyAnswer, PyRaises, PyRuns, State, NoRequest, Import
  <2>2. request'[p] = NoRequest /\ alive'[p] /\ UNCHANGED <<invalid, stdin, stdout>>
    BY <2>1 DEF PyImport, TypeOK
  <2>3. State(p, HelloLines, NoRequest, <<>>)'
    BY <1>1, <2>2 DEF State, HelloLines
  <2> QED BY <2>3 DEF Greeting
<1>2. CASE State(p, HelloLines, NoRequest, <<>>)
  <2> DEFINE D == [cmd |-> "data", call |-> 0, tag |-> 0]
  <2>1. R.cmd = "hello" /\ R.tag = 1 /\ D.cmd = "data" /\ D.call = 0
    OBVIOUS
  <2>2. State(p, <<R, D>>, NoRequest, <<>>)
    BY <1>2 DEF HelloLines
  <2>3. State(p, <<>>, [cmd |-> R.cmd, call |-> D.call, tag |-> R.tag], <<>>)'
    <3> HIDE DEF R, D
    <3> QED BY <2>1, <2>2, ReadsBoth
  <2>4. State(p, <<>>, [cmd |-> "hello", call |-> 0, tag |-> 1], <<>>)'
    BY <2>3
  <2> QED BY <2>4 DEF Greeting
<1>3. CASE State(p, <<>>, R, <<>>)
  <2>1. PICK r : r = R
    OBVIOUS
  <2>2. r.cmd = "hello" /\ r.tag = 1 /\ r.call = 0
    BY <2>1
  <2>3. \/ \E b \in Bodies(r.cmd) : State(p, <<>>, NoRequest, <<HeaderLine(r.tag), BodyLine(b, r.call)>>)'
        \/ r.cmd = "execute" /\ Died(p)' /\ State(p, <<>>, NoRequest, <<HeaderLine(r.tag)>>)'
    <3>1. State(p, <<>>, r, <<>>)
      BY <1>3, <2>1
    <3>2. r.cmd \in {"hello", "execute"}
      BY <2>2
    <3> QED BY <3>1, <3>2, AnswersBoth
  <2>4. State(p, <<>>, NoRequest, <<HeaderLine(1), BodyLine("result", 0)>>)'
    BY <2>2, <2>3 DEF Bodies
  <2> QED BY <2>4 DEF Greeting
<1>4. CASE State(p, <<>>, NoRequest, <<HeaderLine(1), BodyLine("result", 0)>>)
  <2>1. request[p] = NoRequest /\ ~(Len(stdin[p]) >= 2)
    BY <1>4 DEF State
  <2> QED BY <2>1, Waits
<1> QED BY <1>1, <1>2, <1>3, <1>4 DEF Greeting

LEMMA ExchangeStep ==
  ASSUME OnceInv, NEW p \in Procs, NEW c, NEW t, Exchange(p, c, t), Works(p)
  PROVE  Exchange(p, c, t)'
<1> USE DEF OnceInv
<1> DEFINE E == ExecuteLine(c, t)
           D == DataLine(c)
<1>1. /\ E.cmd = "execute" /\ E.call = c /\ E.tag = t /\ D.cmd = "data" /\ D.call = c
      /\ E = [cmd |-> E.cmd, call |-> D.call, tag |-> E.tag]
  BY DEF ExecuteLine, DataLine
<1>2. CASE State(p, <<E, D>>, NoRequest, <<>>)
  <2>1. State(p, <<>>, [cmd |-> E.cmd, call |-> D.call, tag |-> E.tag], <<>>)'
    <3> HIDE DEF E, D
    <3> QED BY <1>1, <1>2, ReadsBoth
  <2>2. State(p, <<>>, E, <<>>)'
    <3> HIDE DEF E, D
    <3> QED BY <1>1, <2>1
  <2> QED BY <2>2 DEF Exchange
<1>3. CASE State(p, <<>>, E, <<>>)
  <2>1. \/ \E b \in Bodies(E.cmd) : State(p, <<>>, NoRequest, <<HeaderLine(E.tag), BodyLine(b, E.call)>>)'
        \/ Died(p)' /\ State(p, <<>>, NoRequest, <<HeaderLine(E.tag)>>)'
    <3> HIDE DEF E
    <3> QED BY <1>1, <1>3, AnswersBoth
  <2>2. \/ \E b \in {"result", "exception", "long"} :
             State(p, <<>>, NoRequest, <<HeaderLine(t), BodyLine(b, c)>>)'
        \/ Died(p)' /\ State(p, <<>>, NoRequest, <<HeaderLine(t)>>)'
    <3> HIDE DEF E
    <3> QED BY <1>1, <2>1 DEF Bodies
  <2> QED BY <2>2 DEF Exchange
<1>4. CASE \E b \in {"result", "exception", "long"} : State(p, <<>>, NoRequest, <<HeaderLine(t), BodyLine(b, c)>>)
  <2>1. request[p] = NoRequest /\ ~(Len(stdin[p]) >= 2)
    BY <1>4 DEF State
  <2> QED BY <2>1, Waits
<1>5. CASE Died(p) /\ State(p, <<>>, NoRequest, <<HeaderLine(t)>>)
  <2>1. request[p] = NoRequest /\ ~(Len(stdin[p]) >= 2)
    BY <1>5 DEF State
  <2> QED BY <2>1, Waits
<1> QED BY <1>2, <1>3, <1>4, <1>5 DEF Exchange


LEMMA IdleProc ==
  ASSUME OnceInv, NEW p \in Procs, ProcMoves(p), Usable => Idle(current)
  PROVE  Usable' => Idle(current)'
<1>1. UNCHANGED <<current, invalid>>
  BY ProcChanges
<1> SUFFICES ASSUME Usable PROVE Idle(current)'
  BY <1>1 DEF Usable
<1>2. current \in Procs /\ State(current, <<>>, NoRequest, <<>>)
  BY DEF Usable, OnceInv, TypeOK, Idle
<1>3. current # p \/ PyDies(p)
  <2>1. request[current] = NoRequest /\ ~(Len(stdin[current]) >= 2)
    BY <1>2 DEF State
  <2> QED BY <1>2, <2>1, Waits DEF ProcMoves
<1>4. PICK q \in Procs : q = current
  BY <1>2
<1>5. State(q, <<>>, NoRequest, <<>>)'
  BY <1>2, <1>3, <1>4, StateFrame
<1> QED BY <1>1, <1>4, <1>5 DEF Idle, State, Died

LEMMA GoodProc ==
  ASSUME OnceInv, NEW x \in Handlers, Good(x), NEW p \in Procs, ProcMoves(p),
         LongFor(x[1]) => LongFor(x[1])', Excused(x[1]) => Excused(x[1])'
  PROVE  Good(x)'
<1> USE DEF OnceInv
<1>1. UNCHANGED <<hpc, hproc, htag, current, zip, invalid>>
  BY ProcChanges
<1>2. /\ hpc[x] \in Using \ {"hello"} => current = hproc[x]
      /\ hpc[x] = "hello" => ~Usable /\ Greeting(hproc[x])
      /\ hpc[x] \in {"tag", "bump", "hdr"} => Idle(hproc[x])
      /\ hpc[x] = "data" => State(hproc[x], <<ExecuteLine(x[1], htag[x])>>, NoRequest, <<>>)
      /\ hpc[x] = "rhdr" => Exchange(hproc[x], x[1], htag[x])
      /\ hpc[x] = "rdata" =>
           \/ \E b \in {"result", "exception", "long"} : State(hproc[x], <<>>, NoRequest, <<BodyLine(b, x[1])>>)
           \/ Died(hproc[x]) /\ Idle(hproc[x])
      /\ hpc[x] \notin {"other", "empty"}
      /\ hpc[x] = "failed" => LongFor(x[1]) \/ Excused(x[1])
  BY DEF Good, StepInv
<1>3. hpc[x] \in Using => \E q \in Procs : q = hproc[x]
  BY ProcOf
<1>4. ASSUME NEW q \in Procs, q # p \/ PyDies(p), NEW in, NEW r, NEW out, State(q, in, r, out)
      PROVE  State(q, in, r, out)'
  BY <1>4, StateFrame
<1>5. ASSUME NEW q \in Procs, NEW in, NEW out, State(q, in, NoRequest, out), ~(Len(in) >= 2)
      PROVE  State(q, in, NoRequest, out)'
  <2>1. q # p \/ PyDies(p)
    BY <1>5, Waits DEF State, ProcMoves
  <2> QED BY <1>4, <1>5, <2>1
<1>6. ASSUME hpc[x] = "hello" PROVE ~Usable' /\ Greeting(hproc[x])'
  <2>1. PICK q \in Procs : q = hproc[x]
    BY <1>3, <1>6 DEF Using
  <2>2. ~Usable /\ Greeting(q)
    BY <1>2, <1>6, <2>1
  <2>3. Greeting(q)'
    <3>1. CASE q = p /\ Works(p)
      BY <2>2, <3>1, GreetingStep
    <3>2. CASE q # p \/ PyDies(p)
      BY <1>4, <2>2, <3>2 DEF Greeting
    <3> QED BY <3>1, <3>2 DEF ProcMoves
  <2>4. Greeting(hproc[x])'
    BY <1>1, <2>1, <2>3
  <2> QED BY <1>1, <2>2, <2>4 DEF Usable
<1>7. ASSUME hpc[x] \in {"tag", "bump", "hdr"} PROVE Idle(hproc[x])'
  <2>1. PICK q \in Procs : q = hproc[x]
    BY <1>3, <1>7 DEF Using
  <2>2. State(q, <<>>, NoRequest, <<>>)
    BY <1>2, <1>7, <2>1 DEF Idle
  <2>3. State(q, <<>>, NoRequest, <<>>)'
    BY <1>5, <2>2, Lines2
  <2> QED BY <1>1, <2>1, <2>3 DEF Idle
<1>8. ASSUME hpc[x] = "data"
      PROVE  State(hproc[x], <<ExecuteLine(x[1], htag[x])>>, NoRequest, <<>>)'
  <2>1. PICK q \in Procs : q = hproc[x]
    BY <1>3, <1>8 DEF Using
  <2>2. PICK E : E = ExecuteLine(x[1], htag[x])
    OBVIOUS
  <2>3. State(q, <<E>>, NoRequest, <<>>) /\ ~(Len(<<E>>) >= 2)
    BY <1>2, <1>8, <2>1, <2>2
  <2>4. State(q, <<E>>, NoRequest, <<>>)'
    BY <1>5, <2>3
  <2>5. E = ExecuteLine(x[1], htag[x])'
    BY <1>1, <2>2 DEF ExecuteLine
  <2> QED BY <1>1, <2>1, <2>4, <2>5
<1>9. ASSUME hpc[x] = "rhdr" PROVE Exchange(hproc[x], x[1], htag[x])'
  <2>1. PICK q \in Procs : q = hproc[x]
    BY <1>3, <1>9 DEF Using
  <2>2. PICK t : t = htag[x]
    OBVIOUS
  <2>3. Exchange(q, x[1], t)
    BY <1>2, <1>9, <2>1, <2>2
  <2>4. Exchange(q, x[1], t)'
    <3>1. CASE q = p /\ Works(p)
      BY <2>3, <3>1, ExchangeStep
    <3>2. CASE q # p \/ PyDies(p)
      BY <1>4, <2>3, <3>2, DiedStays DEF Exchange
    <3> QED BY <3>1, <3>2 DEF ProcMoves
  <2> QED BY <1>1, <2>1, <2>2, <2>4
<1>10. ASSUME hpc[x] = "rdata"
       PROVE  \/ \E b \in {"result", "exception", "long"} :
                   State(hproc[x], <<>>, NoRequest, <<BodyLine(b, x[1])>>)'
              \/ Died(hproc[x])' /\ Idle(hproc[x])'
  <2>1. PICK q \in Procs : q = hproc[x]
    BY <1>3, <1>10 DEF Using
  <2>2. ASSUME NEW b \in {"result", "exception", "long"}, State(q, <<>>, NoRequest, <<BodyLine(b, x[1])>>)
        PROVE  State(hproc[x], <<>>, NoRequest, <<BodyLine(b, x[1])>>)'
    <3>1. State(q, <<>>, NoRequest, <<BodyLine(b, x[1])>>)'
      BY <1>5, <2>2, Lines2
    <3> QED BY <1>1, <2>1, <3>1
  <2>3. CASE Died(q) /\ Idle(q)
    <3>1. State(q, <<>>, NoRequest, <<>>)' /\ Died(q)'
      BY <1>5, <2>3, Lines2, DiedStays DEF Idle
    <3> QED BY <1>1, <2>1, <3>1 DEF Idle
  <2> QED BY <1>2, <1>10, <2>1, <2>2, <2>3
<1>11. StepInv(x)'
  <2>1. hpc'[x] \in Using \ {"hello"} => current' = hproc'[x]
    BY <1>1, <1>2
  <2>2. hpc'[x] \notin {"other", "empty"} /\ (hpc'[x] = "failed" => LongFor(x[1])' \/ Excused(x[1])')
    BY <1>1, <1>2
  <2> QED BY <1>1, <1>6, <1>7, <1>8, <1>9, <1>10, <2>1, <2>2 DEF StepInv
<1>12. Usable' /\ hpc'[x] \notin Using => Idle(current)'
  BY <1>1, IdleProc DEF Good
<1> QED BY <1>11, <1>12 DEF Good


-----------------------------------------------------------------------------
(* IInv is inductive.                                                       *)

\* A call given up on is never forgotten.
LEMMA QuietBefore ==
  ASSUME OnceInv, Next, Quiet'
  PROVE  Quiet /\ ~Timeout
<1> USE DEF OnceInv
<1>1. call \in Nat /\ \A c \in Calls : c \in Nat
  BY HandlerFacts DEF TypeOK
<1>2. CASE UNCHANGED <<call, result>>
  <2>1. call' # call + 1
    BY <1>1, <1>2
  <2> QED BY <1>2, <2>1 DEF Quiet, Timeout
<1>3. ASSUME NEW v, call \in Calls, result' = [result EXCEPT ![call] = v], call' = call + 1
      PROVE  Quiet /\ v # "timeout"
  <2>1. \A c \in Calls : c < call' <=> c < call \/ c = call
    BY <1>1, <1>3
  <2>2. \A c \in Calls : result'[c] = IF c = call THEN v ELSE result[c]
    BY <1>3 DEF TypeOK
  <2>3. \A c \in Calls : c < call => c # call
    BY <1>1
  <2> QED BY <1>3, <2>1, <2>2, <2>3 DEF Quiet
<1>4. CASE Answer
  <2>1. CASE UNCHANGED <<call, result>>
    BY <1>2, <2>1
  <2>2. CASE result' = [result EXCEPT ![call] = hpc[<<call, attempt>>]] /\ call' = call + 1
    <3>1. call \in Calls /\ hpc[<<call, attempt>>] \in Done
      BY <1>4 DEF Answer
    <3>2. Quiet
      BY <1>3, <2>2, <3>1
    <3>3. result'[call] # "timeout"
      BY <2>2, <3>1 DEF TypeOK, Done
    <3>4. Timeout => result'[call] = "timeout"
      BY <3>1 DEF Timeout, TypeOK
    <3> QED BY <3>2, <3>3, <3>4
  <2> QED BY <1>4, <2>1, <2>2 DEF Answer
<1>5. CASE Timeout
  <2>1. call \in Calls /\ result' = [result EXCEPT ![call] = "timeout"] /\ call' = call + 1
    BY <1>5 DEF Timeout
  <2> QED BY <1>3, <2>1
<1>6. CASE Send \/ UNCHANGED vars
  BY <1>2, <1>6 DEF Send, vars, clientVars
<1>7. ASSUME NEW x \in Handlers, HandlerStep(x) PROVE Quiet /\ ~Timeout
  BY <1>2, <1>7, HandlerChanges
<1>8. ASSUME NEW p \in Procs, ProcMoves(p) PROVE Quiet /\ ~Timeout
  BY <1>2, <1>8, ProcChanges
<1> QED BY <1>4, <1>5, <1>6, <1>7, <1>8, ProcStepMoves DEF Next, ClientStep, Finished

LEMMA QuietSame ==
  ASSUME QuietInv, UNCHANGED vars
  PROVE  QuietInv'
<1>1. UNCHANGED <<call, attempt, result, hpc, hproc, htag, current, zip, alive, invalid, stdin, stdout, request, faults>>
  BY DEF vars, clientVars, handlerVars, managerVars, procVars
<1>2. \A p, in, r, out : (State(p, in, r, out)' <=> State(p, in, r, out)) /\ (Died(p)' <=> Died(p))
  BY <1>1 DEF State, Died
<1>3. \A p, c, t : (Greeting(p)' <=> Greeting(p)) /\ (Idle(p)' <=> Idle(p)) /\ (Exchange(p, c, t)' <=> Exchange(p, c, t))
  BY <1>2 DEF Greeting, Idle, Exchange
<1>4. (Usable' <=> Usable) /\ \A c : (LongFor(c)' <=> LongFor(c)) /\ (Excused(c)' <=> Excused(c))
  BY <1>1 DEF Usable, LongFor, Excused
<1>5. (Quiet' <=> Quiet) /\ \A x : Alone(x)' <=> Alone(x)
  BY <1>1 DEF Quiet, Alone
<1>6. \A x : StepInv(x)' <=> StepInv(x)
  BY <1>1, <1>2, <1>3, <1>4 DEF StepInv
<1>7. \A x : Good(x)' <=> Good(x)
  BY <1>1, <1>3, <1>4, <1>6 DEF Good
<1> QED BY <1>1, <1>3, <1>4, <1>5, <1>7 DEF QuietInv

LEMMA QuietStep ==
  ASSUME OnceInv, HelloInv, FutureInv, DeadInv, QuietInv, Next
  PROVE  QuietInv'
<1> USE DEF OnceInv
<1> SUFFICES ASSUME Quiet'
             PROVE  /\ Alone(<<call, attempt>>)'
                    /\ IF call' \in Calls THEN Good(<<call, attempt>>)'
                       ELSE Usable' => Idle(current)'
  BY DEF QuietInv
<1>1. PICK x : x = <<call, attempt>>
  OBVIOUS
<1>2. /\ Alone(x)
      /\ call \in Calls => Good(x) /\ x \in Handlers
      /\ call \notin Calls => (Usable => Idle(current))
  <2>1. Quiet
    BY QuietBefore
  <2> QED BY <1>1, <2>1, HandlerFacts DEF QuietInv, TypeOK
<1>3. ASSUME UNCHANGED <<call, attempt>>, Alone(x)', call \in Calls, Good(x)'
      PROVE  Alone(<<call, attempt>>)' /\ call' \in Calls /\ Good(<<call, attempt>>)'
  <2>1. x = <<call, attempt>>'
    BY <1>1, <1>3
  <2> QED BY <1>3, <2>1
<1>4. ASSUME NEW y \in Handlers, HandlerStep(y)
      PROVE  Alone(<<call, attempt>>)' /\ call' \in Calls /\ Good(<<call, attempt>>)'
  <2>1. y = x
    BY <1>2, <1>4, HandlerChanges DEF Alone
  <2>2. call \in Calls
    BY <1>1, <1>4, <2>1, HandlerFacts
  <2>3. Good(x)'
    BY <1>2, <1>4, <2>1, <2>2, GoodHandler
  <2>4. UNCHANGED <<call, attempt>> /\ Alone(x)'
    BY <1>2, <1>4, <2>1, HandlerChanges DEF Alone
  <2> QED BY <1>3, <2>2, <2>3, <2>4
<1>5. ASSUME NEW p \in Procs, ProcMoves(p)
      PROVE  /\ Alone(<<call, attempt>>)'
             /\ IF call' \in Calls THEN Good(<<call, attempt>>)'
                ELSE Usable' => Idle(current)'
  <2>1. UNCHANGED <<call, attempt, hpc>>
    BY <1>5, ProcChanges
  <2>2. Alone(x)'
    BY <1>2, <2>1 DEF Alone
  <2>3. CASE call \in Calls
    <3>1. x[1] \in Calls
      BY <1>1, <2>3
    <3>2. (LongFor(x[1]) => LongFor(x[1])') /\ (Excused(x[1]) => Excused(x[1])')
      BY <3>1, LongStays, DeadStep
    <3>3. Good(x)'
      BY <1>2, <1>5, <2>3, <3>2, GoodProc
    <3> QED BY <1>3, <2>1, <2>2, <2>3, <3>3
  <2>4. CASE call \notin Calls
    <3>1. Usable' => Idle(current)'
      BY <1>2, <1>5, <2>4, IdleProc
    <3>2. Alone(<<call, attempt>>)'
      <4>1. x = <<call, attempt>>'
        BY <1>1, <2>1
      <4> QED BY <2>2, <4>1
    <3> QED BY <1>2, <2>1, <2>4, <3>1, <3>2
  <2> QED BY <2>3, <2>4
<1>6. CASE UNCHANGED vars
  BY <1>6, QuietSame DEF QuietInv
\* A client step leaves processes alone; the handler it is at next has not begun.
<1>7. ASSUME NEW y, y = <<call, attempt>>', call \in Calls, hpc[x] \notin Using, Alone(y)',
             call' \in Calls => y \in Handlers /\ hpc'[y] \in {"none", "truncate", "get"},
             UNCHANGED <<current, alive, invalid, stdin, stdout, request, faults>>
      PROVE  /\ Alone(<<call, attempt>>)'
             /\ IF call' \in Calls THEN Good(<<call, attempt>>)'
                ELSE Usable' => Idle(current)'
  <2>1. Usable => Idle(current)
    BY <1>2, <1>7 DEF Good
  <2>2. Usable' => Idle(current)'
    BY <1>7, <2>1 DEF Usable, Idle, State, Died
  <2>3. call' \in Calls => Good(y)'
    BY <1>7, <2>2, GoodOutside DEF Using
  <2>4. Alone(<<call, attempt>>)' /\ (call' \in Calls => Good(<<call, attempt>>)')
    BY <1>7, <2>3
  <2> QED BY <2>2, <2>4
<1>8. CASE Send
  <2>1. /\ call \in Calls /\ hpc[x] = "none" /\ Moves(x, IF attempt = 2 THEN "truncate" ELSE "get")
        /\ UNCHANGED <<call, attempt, current, alive, invalid, stdin, stdout, request, faults>>
    BY <1>1, <1>8 DEF Send, clientVars, managerVars, procVars, Moves
  <2>2. x = <<call, attempt>>' /\ x \in Handlers
    BY <1>1, <1>2, <2>1
  <2>3. hpc'[x] \in {"truncate", "get"} /\ \A y \in Handlers : y # x => hpc'[y] = hpc[y]
    BY <2>1, <2>2 DEF Moves, TypeOK
  <2>4. Alone(x)'
    BY <1>2, <2>3 DEF Alone
  <2> QED BY <1>7, <2>1, <2>2, <2>3, <2>4 DEF Using
<1>9. CASE Answer
  <2>1. call \in Calls /\ hpc[x] \in Done
    BY <1>1, <1>9 DEF Answer
  <2>2. UNCHANGED <<hpc, current, alive, invalid, stdin, stdout, request, faults>>
    BY <1>9 DEF Answer, handlerVars, managerVars, procVars
  <2>3. \/ call' = call + 1 /\ attempt' = 1
        \/ call' = call /\ attempt = 1 /\ attempt' = 2
    BY <1>9 DEF Answer, NeedsPythonRuntime
  <2>4. PICK y : y = <<call, attempt>>'
    OBVIOUS
  <2>5. call' \in Calls => y \in Handlers /\ hpc'[y] = "none"
    <3> SUFFICES ASSUME call' \in Calls PROVE y \in Handlers /\ hpc[y] = "none"
      BY <2>2
    <3>1. y \in Handlers /\ y[1] = call' /\ y[2] = attempt'
      BY <2>3, <2>4, HandlerFacts
    <3>2. y[1] > call \/ (y[1] = call /\ y[2] > attempt)
      BY <2>3, <3>1 DEF TypeOK
    <3> QED BY <3>1, <3>2 DEF FutureInv
  <2>6. Alone(y)'
    BY <1>2, <2>1, <2>2 DEF Alone
  <2>7. hpc[x] \notin Using
    BY <2>1 DEF Done, Using
  <2> QED BY <1>7, <2>1, <2>2, <2>4, <2>5, <2>6, <2>7
<1>10. ~Timeout
  BY QuietBefore
<1> QED BY <1>4, <1>5, <1>6, <1>8, <1>9, <1>10, ProcStepMoves DEF Next, ClientStep, Finished


LEMMA LongStep ==
  ASSUME OnceInv, HelloInv, DeadInv, QuietInv, LongInv, Next
  PROVE  LongInv'
<1> USE DEF OnceInv
<1> DEFINE Own(c) == LongFor(c) \/ Excused(c)
<1>0. \A c \in Calls : Own(c) => Own(c)'
  BY LongStays, DeadStep
<1> SUFFICES ASSUME NEW c \in Calls, result'[c] \in {"other", "empty", "failed"}
             PROVE  TimedOut(1..(c - 1))' \/ (result'[c] = "failed" /\ Own(c)')
  BY DEF LongInv
<1>1. call \in Nat /\ \A k \in Calls : k \in Nat
  BY HandlerFacts DEF TypeOK
<1>2. CASE UNCHANGED result
  <2>1. TimedOut(1..(c - 1)) \/ (result[c] = "failed" /\ Own(c))
    BY <1>2 DEF LongInv
  <2> QED BY <1>2, <2>1, <1>0 DEF TimedOut
<1>3. ASSUME NEW v, call \in Calls, result' = [result EXCEPT ![call] = v], call' = call + 1,
             v \in {"other", "empty", "failed"} /\ Quiet => v = "failed" /\ Own(call)
      PROVE  TimedOut(1..(c - 1))' \/ (result'[c] = "failed" /\ Own(c)')
  <2>1. \A k \in Calls : result'[k] = IF k = call THEN v ELSE result[k]
    BY <1>3 DEF TypeOK
  <2>2. ASSUME TimedOut(1..(c - 1)) PROVE TimedOut(1..(c - 1))'
    <3>1. PICK k \in 1..(c - 1) : result[k] = "timeout"
      BY <2>2 DEF TimedOut
    <3>2. k \in Calls
      BY <1>1, RuntimeAssumption DEF Calls
    <3>3. k # call
      <4>1. result[call] = "pending"
        BY <1>1, <1>3 DEF RetryInv
      <4> QED BY <3>1, <4>1
    <3> QED BY <2>1, <3>1, <3>2, <3>3 DEF TimedOut
  <2>3. CASE c # call
    <3>1. TimedOut(1..(c - 1)) \/ (result[c] = "failed" /\ Own(c))
      BY <2>1, <2>3 DEF LongInv
    <3> QED BY <2>1, <2>2, <2>3, <3>1, <1>0
  <2>4. CASE c = call /\ Quiet
    <3>1. v = "failed" /\ Own(c)
      BY <1>3, <2>1, <2>4
    <3> QED BY <2>1, <2>4, <3>1, <1>0
  <2>5. CASE c = call /\ ~Quiet
    <3>1. PICK k \in Calls : k < call /\ result[k] = "timeout"
      BY <2>5 DEF Quiet
    <3>2. k \in 1..(c - 1)
      <4>1. k \in Nat /\ k # 0
        BY HandlerFacts
      <4> QED BY <1>1, <2>5, <3>1, <4>1
    <3>3. TimedOut(1..(c - 1))
      BY <3>1, <3>2 DEF TimedOut
    <3> QED BY <2>2, <3>3
  <2> QED BY <2>3, <2>4, <2>5
<1>4. CASE Answer
  <2> DEFINE x == <<call, attempt>>
  <2>1. call \in Calls
    BY <1>4 DEF Answer
  <2>2. CASE result' = [result EXCEPT ![call] = hpc[x]] /\ call' = call + 1
    <3>1. Quiet => Good(x)
      BY <2>1 DEF QuietInv
    <3>2. Quiet => hpc[x] \notin {"other", "empty"} /\ (hpc[x] = "failed" => Own(call))
      BY <3>1 DEF Good, StepInv
    <3> QED BY <1>3, <2>1, <2>2, <3>2
  <2> QED BY <1>2, <1>4, <2>2 DEF Answer
<1>5. CASE Timeout
  <2>1. call \in Calls /\ result' = [result EXCEPT ![call] = "timeout"] /\ call' = call + 1
    BY <1>5 DEF Timeout
  <2> QED BY <1>3, <2>1
<1>6. CASE Send \/ UNCHANGED vars
  BY <1>2, <1>6 DEF Send, vars, clientVars
<1>7. ASSUME NEW y \in Handlers, HandlerStep(y) PROVE UNCHANGED result
  BY <1>7, HandlerChanges
<1>8. ASSUME NEW p \in Procs, ProcMoves(p) PROVE UNCHANGED result
  BY <1>8, ProcChanges
<1> QED BY <1>2, <1>4, <1>5, <1>6, <1>7, <1>8, ProcStepMoves DEF Next, ClientStep, Finished

LEMMA InitIInv == Init => IInv
<1> SUFFICES ASSUME Init PROVE IInv
  OBVIOUS
<1>1. HelloInv /\ FutureInv /\ LongInv /\ DeadInv
  BY DEF Init, HelloInv, FutureInv, LongInv, DeadInv, Died
<1>2. QuietInv
  <2> DEFINE x == <<call, attempt>>
  <2>1. Alone(x) /\ x \in Handlers /\ call \in Calls
    BY HandlerFacts, RuntimeAssumption DEF Init, Alone, Calls, Handlers
  <2>2. hpc[x] = "none" /\ ~Usable
    BY <2>1 DEF Init, Usable
  <2> HIDE DEF x
  <2>3. Good(x)
    BY <2>2 DEF Good, StepInv, Using
  <2> QED BY <2>1, <2>3 DEF QuietInv, x
<1> QED BY <1>1, <1>2, InitOnce DEF IInv

LEMMA StepIInv == IInv /\ [Next]_vars => IInv'
<1> SUFFICES ASSUME IInv, [Next]_vars PROVE IInv'
  OBVIOUS
<1>1. CASE Next
  BY <1>1, StepOnce, HelloStep, FutureStep, DeadStep, QuietStep, LongStep DEF IInv
<1>2. CASE UNCHANGED vars
  <2>1. OnceInv'
    BY <1>2, StepOnce DEF IInv
  <2>2. UNCHANGED <<call, attempt, result, hpc, hproc, current, started, alive, invalid, stdin, stdout, request, htag, faults>>
    BY <1>2 DEF vars, clientVars, handlerVars, managerVars, procVars
  <2>3. HelloInv' /\ FutureInv'
    BY <2>2 DEF IInv, HelloInv, FutureInv, Private
  <2>4. LongInv'
    BY <2>2 DEF IInv, LongInv, LongFor, TimedOut, Excused
  <2>6. DeadInv'
    BY <2>2 DEF IInv, DeadInv, Died
  <2>5. QuietInv'
    BY <1>2, QuietSame DEF IInv
  <2> QED BY <2>1, <2>3, <2>4, <2>5, <2>6 DEF IInv
<1> QED BY <1>1, <1>2

\* As long as no call is given up on, requests and answers stay in step, for any
\* number of calls: executeCommand hands every handler the answer to its own
\* request.  A call fails only for a reason of its own: its answer is too long for
\* the scanner, the host refused its handler a file or a process, or the process it
\* was given died by itself.
THEOREM RuntimeInStep == Spec => []InStep
<1>1. IInv => InStep
  <2> SUFFICES ASSUME IInv, NEW c \in Calls, LongFor(c) PROVE TooLong(c)
    BY DEF IInv, LongInv, InStep
  <2>1. PICK p \in Procs : stdout[p] # <<>> /\ Head(stdout[p]).cmd = "long" /\ Head(stdout[p]).call = c
    BY DEF LongFor
  <2>2. stdout[p] \in Seq(Line(OutCmds))
    BY DEF IInv, OnceInv, TypeOK
  <2>3. Len(stdout[p]) >= 1 /\ Len(stdout[p]) \in Nat /\ Head(stdout[p]) = stdout[p][1]
    BY <2>1, <2>2, TailOff
  <2>4. 1 \in 1..Len(stdout[p])
    BY <2>3
  <2> QED BY <2>1, <2>3, <2>4 DEF TooLong
<1> QED BY <1>1, InitIInv, StepIInv, PTL DEF Spec


=============================================================================
