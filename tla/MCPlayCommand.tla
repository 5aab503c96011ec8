----------------------------- MODULE MCPlayCommand -----------------------------
(***************************************************************************)
(* The instance of PlayCommand TLC checks: nine words, two modules of which *)
(* one takes free form arguments, and six kinds of file at each location.   *)
(***************************************************************************)
EXTENDS PlayCommand

Net(kind, n) == [k \in Kinds |-> IF k = kind THEN n ELSE 0]

MCWords == {
  Plain("echo"),
  [Plain("k=v") EXCEPT !.key = "k"],
  [Plain("chdir=d") EXCEPT !.key = "chdir"],
  [Plain("e=f, both escaped") EXCEPT !.key = Escaped, !.esc = TRUE],
  [Plain("c=quote a") EXCEPT !.key = "c", !.quotes = <<"double">>, !.head = "double"],
  [Plain("b quote") EXCEPT !.quotes = <<"double">>, !.tail = "double"],
  [Plain("it's") EXCEPT !.quotes = <<"single">>],
  [Plain("{{") EXCEPT !.net = Net("print", 1)],
  [Plain("}}") EXCEPT !.net = Net("print", -1)] }

Base == [strategy |-> [default |-> "linear", zero |-> "", list |-> FALSE],
         ask      |-> [default |-> "no", zero |-> "no", list |-> FALSE],
         log      |-> [default |-> Null, zero |-> "", list |-> FALSE],
         colors   |-> [choices |-> "black, blue, ...", zero |-> "", list |-> FALSE],
         skeleton |-> [default |-> <<".git">>, zero |-> <<>>, list |-> TRUE],
         skip     |-> [default |-> Null, zero |-> <<>>, list |-> TRUE]]

File(keys) ==
  [present |-> TRUE, readable |-> TRUE, ini |-> TRUE, syntax |-> TRUE, keys |-> keys, long |-> 0]
Key(f, v) == [field |-> f, value |-> v, ok |-> TRUE]
NoKeyOf(f) == [field |-> f, value |-> "", ok |-> f = IgnoredKey]

MCFiles == {
  [File(<<>>) EXCEPT !.present = FALSE],
  [File(<<>>) EXCEPT !.readable = FALSE],
  [File(<<>>) EXCEPT !.ini = FALSE],
  File(<<Key("strategy", "free"), NoKeyOf(IgnoredKey), Key("ask", "yes")>>),
  [File(<<Key("log", "gosible.log"), Key("strategy", "host_pinned"), NoKeyOf(UnknownKey)>>)
     EXCEPT !.long = 3],
  File(<<Key("skeleton", <<"a", "b">>), Key("skip", <<"slow">>), Key("strategy", "free"),
         NoKeyOf("ask")>>) }
================================================================================
