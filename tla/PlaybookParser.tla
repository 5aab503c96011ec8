----------------------------- MODULE PlaybookParser -----------------------------
(***************************************************************************)
(* The playbook parser (src/playbook/parser.go) with the resolution of a    *)
(* task's action and arguments (src/playbook/module_args_resolver.go).      *)
(*                                                                         *)
(* The file is written as it is read: which keyword, which token of an      *)
(* action's text or which end comes next is chosen when the parser gets     *)
(* there, and raw keeps what was chosen.  A keyword, a token of an action's  *)
(* text and a play's strategy or vars take one each of the file's room.     *)
(*                                                                         *)
(* A keyword's value is a record [kind, text]: the kind is the Go type the  *)
(* YAML decoder gives it ("string", "list", "map", "nil"), or a map or list *)
(* the parser tells apart from these ("keys": a map with a key that is no   *)
(* string, "values": a map with a value that is none, "mixed": a list with  *)
(* an element that is none); text is the string of an action.               *)
(***************************************************************************)
EXTENDS ArgSplitter

CONSTANT Modules,       \* the actions and modules the registries know
         Freeform,      \* those of moduleRequireArgs
         MaxPlays       \* how many plays a file has at most

VARIABLES
  raw,        \* the plays of the file: sequences of tasks, of keywords
  room,       \* how much may still be written
  parsing,    \* "no" | "play" | "task" | "resolve" | "accepted" | "error" | "panic"
  header,     \* the strategy and the vars of the play that is read
  task,       \* the task parseRawTask builds
  todo,       \* the keys the range over the action candidates has not visited
  plays       \* the plays parsed so far

parserVars == <<raw, room, parsing, header, task, todo, plays>>

TaskKeywords == {"name", "args", "vars", "loop", "when", "become"}
WithKeyword == "with_items"
Unknown == "unknown"          \* neither a keyword nor an action
NotAString == "17"            \* a YAML key that is no string

\* The registries have no module of the name of a keyword.
ASSUME ModulesAssumption ==
  Modules \cap (TaskKeywords \cup {WithKeyword, Unknown, NotAString, ""}) = {}

NoText == <<>>
Kinded(kinds) == {[kind |-> k, text |-> NoText] : k \in kinds}

\* The values each keyword can be written with.
ValuesOf(key) ==
  CASE key = "name"            -> Kinded({"string", "list"})
    [] key = "args"            -> Kinded({"map", "keys", "values", "string"})
    [] key = "vars"            -> Kinded({"map", "list"})
    [] key \in {"loop", WithKeyword} -> Kinded({"string", "list", "nil"})
    [] key = "when"            -> Kinded({"string", "list", "mixed", "map"})
    [] key \in Modules         -> Kinded({"map", "keys", "nil", "list"})
                                    \cup {[kind |-> "string", text |-> <<<<t>>>>] : t \in Tokens}
    [] OTHER                   -> Kinded({"string"})

Keys == TaskKeywords \cup {WithKeyword, Unknown, NotAString} \cup Modules

NewTask == [name |-> FALSE, args |-> "none", vars |-> "none", loop |-> "none",
            with |-> "none", when |-> 0, keywords |-> <<>>, action |-> "", final |-> <<>>]

ParserInit ==
  /\ raw = <<>>
  /\ parsing = "no"
  /\ header = [strategy |-> "", vars |-> "map"]
  /\ task = NewTask
  /\ todo = {}
  /\ plays = <<>>

----------------------------------------------------------------------------
(* parseTaskKeyword: a value of the wrong type is an error, a keyword that  *)
(* stands twice counts the second time, conditions add up, and everything   *)
(* without a case of its own is kept for the resolution.                    *)

Accepts(key, value) ==
  CASE key = NotAString -> FALSE
    [] key = "name" -> value.kind = "string"
    [] key = "args" -> value.kind \in {"map", "values"}
    [] key = "vars" -> value.kind = "map"
    [] key \in {"loop", WithKeyword} -> value.kind \in {"string", "list"}
    [] key = "when" -> value.kind \in {"string", "list"}
    [] OTHER -> TRUE

Assigned(map, key, value) ==
  [k \in DOMAIN map \cup {key} |-> IF k = key THEN value ELSE map[k]]

ParseTaskKeyword(t, key, value) ==
  CASE key = "name" -> [t EXCEPT !.name = TRUE]
    [] key = "args" -> [t EXCEPT !.args = value.kind]
    [] key = "vars" -> [t EXCEPT !.vars = value.kind]
    [] key = "loop" -> [t EXCEPT !.loop = value.kind]
    [] key = WithKeyword -> [t EXCEPT !.with = value.kind]
    [] key = "when" -> [t EXCEPT !.when = @ + (IF value.kind = "list" THEN 2 ELSE 1)]
    [] OTHER -> [t EXCEPT !.keywords = Assigned(@, key, value)]

(* normalizeParameters and normalizeNewStyleArgs.                           *)

\* The arguments of "args": the model gives them the keys chdir and mode.
GivenArgs(kind) ==
  IF kind = "none" THEN <<>> ELSE (<<"chdir">> :> "args") @@ (<<"mode">> :> "args")

\* A map of arguments under the action: the key args in it is skipped.
MapArgs == (<<"chdir">> :> "action") @@ (<<"state">> :> "action")

\* A string is split whether it can be or not: NormalizeFails is about types.
NormalizeFails(given, value) == given = "values" \/ value.kind \in {"keys", "list"}

NormalizePanics(given, value) ==
  ~NormalizeFails(given, value) /\ value.kind = "string" /\ SplitArgs(value.text).panic

NormalizeNewStyleArgs(action, value) ==
  CASE value.kind = "map" -> MapArgs
    [] value.kind = "string" -> ParseKeyValuePairsString(value.text, action \in Freeform)
    [] OTHER -> <<>>

Merged(own, given) ==
  [k \in DOMAIN own \cup DOMAIN given |->
     IF k \in DOMAIN own THEN [from |-> "action", value |-> own[k]]
     ELSE [from |-> "args", value |-> given[k]]]

NormalizeParameters(action, given, value) ==
  Merged(NormalizeNewStyleArgs(action, value), GivenArgs(given))

----------------------------------------------------------------------------
(* parseRawPlays, parseRawTasks and parseRawTask.                           *)

CurrentPlay == raw[Len(raw)]
CurrentTask == CurrentPlay.tasks[Len(CurrentPlay.tasks)]

BeginPlay ==
  /\ parsing = "play" /\ Len(raw) < MaxPlays
  /\ raw # <<>> => CurrentPlay.closed
  /\ \E s \in {"", "linear", "free", "bogus"}, v \in {"map", "keys"} :
       /\ room' = room - (IF s = "" THEN 0 ELSE 1) - (IF v = "map" THEN 0 ELSE 1)
       /\ room' >= 0
       /\ header' = [strategy |-> s, vars |-> v]
       /\ raw' = Append(raw, [strategy |-> s, vars |-> v, tasks |-> <<>>, closed |-> FALSE])
  /\ plays' = Append(plays, [strategy |-> "", tasks |-> <<>>])
  /\ UNCHANGED <<parsing, task, todo>>

\* An empty entry of the list of plays is a nil pointer, and it is followed.
NullPlay ==
  /\ parsing = "play" /\ Len(raw) < MaxPlays
  /\ raw # <<>> => CurrentPlay.closed
  /\ raw' = Append(raw, [strategy |-> "", vars |-> "null", tasks |-> <<>>, closed |-> FALSE])
  /\ parsing' = "panic"
  /\ UNCHANGED <<room, header, task, todo, plays>>

InPlay == raw # <<>> /\ ~CurrentPlay.closed

BeginTask ==
  /\ parsing = "play" /\ InPlay /\ room >= 1
  /\ parsing' = "task"
  /\ task' = NewTask
  /\ raw' = [raw EXCEPT ![Len(raw)].tasks = Append(@, <<>>)]
  /\ UNCHANGED <<room, header, todo, plays>>

ReadKeyword ==
  /\ parsing = "task" /\ room >= 1
  /\ \E key \in Keys : \E value \in ValuesOf(key) :
       /\ room' = room - 1 - Size(value.text) /\ room' >= 0
       /\ raw' = [raw EXCEPT ![Len(raw)].tasks[Len(CurrentPlay.tasks)] =
                    Append(@, [key |-> key, value |-> value])]
       /\ IF Accepts(key, value)
          THEN task' = ParseTaskKeyword(task, key, value) /\ UNCHANGED parsing
          ELSE parsing' = "error" /\ UNCHANGED task
  /\ UNCHANGED <<header, todo, plays>>

\* The text of the action read last goes on, on the same or on a new line.
ReadToken ==
  /\ parsing = "task" /\ room >= 1
  /\ CurrentTask # <<>> /\ Last(CurrentTask).value.text # NoText
  /\ LET item == Last(CurrentTask)
     IN \E longer \in Longer(item.value.text) :
          /\ raw' = [raw EXCEPT ![Len(raw)].tasks[Len(CurrentPlay.tasks)][Len(CurrentTask)]
                                   .value.text = longer]
          /\ task' = [task EXCEPT !.keywords[item.key].text = longer]
  /\ room' = room - 1
  /\ UNCHANGED <<parsing, header, todo, plays>>

\* ResolveModuleArgs: keywords are filtered out, the rest is looked up.
ResolveModuleArgs ==
  /\ parsing = "task"
  /\ parsing' = "resolve"
  /\ todo' = DOMAIN task.keywords \ (TaskKeywords \cup {WithKeyword})
  /\ UNCHANGED <<raw, room, header, task, plays>>

\* Mutant: the action visited last wins.
LastCandidateWins(k) ==
  LET value == task.keywords[k]
  IN /\ parsing = "resolve"
     /\ todo' = todo \ {k}
     /\ CASE k \notin Modules -> UNCHANGED <<parsing, task>>
          [] k \in Modules /\ NormalizeFails(task.args, value) ->
               parsing' = "error" /\ UNCHANGED task
          [] k \in Modules /\ NormalizePanics(task.args, value) ->
               parsing' = "panic" /\ UNCHANGED task
          [] OTHER ->
               /\ task' = [task EXCEPT !.action = k,
                                       !.final = NormalizeParameters(k, task.args, value)]
               /\ UNCHANGED parsing
     /\ UNCHANGED <<raw, room, header, plays>>

\* One round of the range over the candidates, a Go map: in any order.
TryCandidate(k) ==
  LET value == task.keywords[k]
  IN /\ parsing = "resolve"
     /\ todo' = todo \ {k}
     /\ CASE k \notin Modules -> UNCHANGED <<parsing, task>>
          [] k \in Modules /\ task.action # "" -> parsing' = "error" /\ UNCHANGED task
          [] k \in Modules /\ task.action = "" /\ NormalizeFails(task.args, value) ->
               parsing' = "error" /\ UNCHANGED task
          [] k \in Modules /\ task.action = "" /\ NormalizePanics(task.args, value) ->
               parsing' = "panic" /\ UNCHANGED task
          [] OTHER ->
               /\ task' = [task EXCEPT !.action = k,
                                       !.final = NormalizeParameters(k, task.args, value)]
               /\ UNCHANGED parsing
     /\ UNCHANGED <<raw, room, header, plays>>

EndTask ==
  /\ parsing = "resolve" /\ todo = {}
  /\ IF task.action = ""
     THEN parsing' = "error" /\ UNCHANGED plays
     ELSE /\ parsing' = "play"
          /\ plays' = [plays EXCEPT ![Len(plays)].tasks = Append(@, task)]
  /\ UNCHANGED <<raw, room, header, task, todo>>

\* After its tasks: the vars, then the strategy with its default.
EndPlay(default) ==
  LET strategy == IF header.strategy = "" THEN default ELSE header.strategy
  IN /\ parsing = "play" /\ InPlay
     /\ raw' = [raw EXCEPT ![Len(raw)].closed = TRUE]
     /\ IF header.vars # "map" \/ strategy \notin {"linear", "free"}
        THEN parsing' = "error" /\ UNCHANGED plays
        ELSE UNCHANGED parsing /\ plays' = [plays EXCEPT ![Len(plays)].strategy = strategy]
     /\ UNCHANGED <<room, header, task, todo>>

EndFile ==
  /\ parsing = "play" /\ ~InPlay
  /\ parsing' = "accepted"
  /\ UNCHANGED <<raw, room, header, task, todo, plays>>

----------------------------------------------------------------------------
(* What a playbook means, over the file as a whole.                         *)

\* The places where a task gives a key, and the last value it gives it.
Given(items, key) == {i \in DOMAIN items : items[i].key = key}
LastValue(items, key) == items[Max(Given(items, key))].value
LastKind(items, key) == IF Given(items, key) = {} THEN "none" ELSE LastValue(items, key).kind
Actions(items) == {items[i].key : i \in DOMAIN items} \cap Modules

\* A task is well formed when every keyword has a value of its type and it
\* has exactly one action, whose last value and arguments have types that can
\* be read.  A text that cannot be split counts too: see ArgumentsMean.
WellFormed(items) ==
  /\ \A i \in DOMAIN items : Accepts(items[i].key, items[i].value)
  /\ Cardinality(Actions(items)) = 1
  /\ \A a \in Actions(items) :
       /\ ~NormalizeFails(LastKind(items, "args"), LastValue(items, a))
       /\ ~NormalizePanics(LastKind(items, "args"), LastValue(items, a))

\* A list counts as its two conditions.
Conditions(items) ==
  Cardinality(Given(items, "when"))
    + Cardinality({i \in Given(items, "when") : items[i].value.kind = "list"})

\* An action has arguments of its own from a map or from a text that can be
\* split; of one that cannot, none is left, nor any error.
OwnArguments(a, value) ==
  CASE value.kind = "map" -> MapArgs
    [] value.kind = "string" /\ ~SplitArgs(value.text).err ->
         ParseKeyValuePairsString(value.text, a \in Freeform)
    [] OTHER -> <<>>

\* The arguments: each of the action's own, and of those of args the ones the
\* action does not give itself.
ArgumentsMean(final, own, given) ==
  /\ DOMAIN own \subseteq DOMAIN final
  /\ \A k \in DOMAIN own : final[k] = [from |-> "action", value |-> own[k]]
  /\ \A k \in DOMAIN final \ DOMAIN own : final[k].from = "args"
  /\ DOMAIN final \ DOMAIN own = DOMAIN GivenArgs(given) \ DOMAIN own

Means(t, items) ==
  \E a \in Actions(items) :
    /\ t.action = a
    /\ ArgumentsMean(t.final, OwnArguments(a, LastValue(items, a)), LastKind(items, "args"))
    /\ t.loop = LastKind(items, "loop") /\ t.with = LastKind(items, WithKeyword)
    /\ t.vars = LastKind(items, "vars")
    /\ t.when = Conditions(items)
================================================================================
