------------------------------ MODULE PlayCommand ------------------------------
(***************************************************************************)
(* The command `gosible play` (src/command/playbook/play.go) from the start *)
(* of the process to the executor: the flags are registered, the            *)
(* configuration is loaded, inventory, extra variables and playbook are     *)
(* read, the passwords asked for, and the playbook is handed over.  Each    *)
(* step ends the command when it fails.                                     *)
(***************************************************************************)
EXTENDS ConfigManager, PlaybookParser

CONSTANT MaxRoom,            \* how long the playbook is without configuration files
         MaxExtra            \* and the value of -e; with files both are 0

VARIABLES
  stage,      \* what the command does next, "ended" after the last
  exit,       \* its exit code, 0 while it runs
  askDefault, \* the default of the flag --ask-become-pass
  extra,      \* the value of the option -e, NoText without one
  executed    \* the plays ExecutePlaybook got, <<>> before

commandVars == <<stage, exit, askDefault, extra, executed>>
vars == <<configVars, parserVars, commandVars>>

Configured == cwdPublic \/ \E l \in DOMAIN files : files[l].present

Init ==
  /\ ConfigInit
  /\ ParserInit
  /\ room = IF Configured THEN 0 ELSE MaxRoom
  /\ stage = "register"
  /\ exit = 0
  /\ askDefault = "no"
  /\ extra = NoText
  /\ executed = <<>>

Ended(code) == stage' = "ended" /\ exit' = code

\* NewPlayCommand: the default of the flag is the setting of this moment,
\* which no configuration file has touched yet.
NewPlayCommand ==
  /\ stage = "register" /\ Scheduled
  /\ askDefault' = settings.ask
  /\ stage' = "config"
  /\ UNCHANGED <<exit, extra, executed, configVars, parserVars>>

Startup ==
  /\ stage \in {"register", "config"}
  /\ loading = "no" /\ Scheduled => stage = "config"
  /\ ConfigNext
  /\ UNCHANGED <<commandVars, parserVars>>

\* display.Fatal ends the process with code 1.
ConfigLoaded ==
  /\ stage = "config" /\ ConfigDone
  /\ IF loading = "refused" THEN Ended(1) ELSE stage' = "inventory" /\ UNCHANGED exit
  /\ UNCHANGED <<askDefault, extra, executed, configVars, parserVars>>

ParseInventory ==
  /\ stage = "inventory"
  /\ \/ stage' = "extraVars" /\ UNCHANGED exit
     \/ Ended(1)
  /\ UNCHANGED <<askDefault, extra, executed, configVars, parserVars>>

\* The value of -e, a token at a time.
GiveExtraVars ==
  /\ stage = "extraVars" /\ ~Configured /\ Size(extra) < MaxExtra
  /\ extra' \in IF extra = NoText THEN {<<<<t>>>> : t \in Tokens} ELSE Longer(extra)
  /\ UNCHANGED <<stage, exit, askDefault, executed, configVars, parserVars>>

\* SetExtraVars splits it; a file name without @ is an error.  What becomes of
\* the variables is the module VarsManager.
SetExtraVars ==
  /\ stage = "extraVars"
  /\ \/ SplitArgs(extra).panic /\ Ended(2)
     \/ ~SplitArgs(extra).panic /\ stage' = "playbook" /\ UNCHANGED exit
     \/ extra # NoText /\ Ended(1)
  /\ extra' = NoText
  /\ UNCHANGED <<askDefault, executed, configVars, parserVars>>

\* os.ReadFile and yaml.Unmarshal come first.
ReadPlaybook ==
  /\ stage = "playbook" /\ parsing = "no"
  /\ \/ parsing' = "play" /\ UNCHANGED <<stage, exit>>
     \/ parsing' = "error" /\ Ended(1)
  /\ UNCHANGED <<raw, room, header, task, todo, plays, askDefault, extra, executed, configVars>>

ParsePlaybook ==
  /\ stage = "playbook" /\ parsing \in {"play", "task", "resolve"}
  /\ \/ BeginPlay
     \/ NullPlay
     \/ BeginTask
     \/ ReadKeyword
     \/ ReadToken
     \/ ResolveModuleArgs
     \/ \E k \in todo : TryCandidate(k)
     \/ EndTask
     \/ EndPlay(settings.strategy)
     \/ EndFile
  /\ UNCHANGED <<commandVars, configVars>>

PlaybookParsed ==
  /\ stage = "playbook"
  /\ \/ parsing = "accepted" /\ stage' = "passwords" /\ UNCHANGED exit
     \/ parsing = "error" /\ Ended(1)
     \/ parsing = "panic" /\ Ended(2)
  /\ UNCHANGED <<askDefault, extra, executed, configVars, parserVars>>

\* askPasswords: reading the terminal can fail.
AskPasswords ==
  /\ stage = "passwords"
  /\ \/ stage' = "execute" /\ UNCHANGED exit
     \/ \E given \in BOOLEAN : (given \/ askDefault = "yes") /\ Ended(1)
  /\ UNCHANGED <<askDefault, extra, executed, configVars, parserVars>>

\* ExecutePlaybook is the module PlaybookExecutor; here it succeeds or not.
ExecutePlaybook ==
  /\ stage = "execute"
  /\ executed' = plays
  /\ \E code \in {0, 1} : Ended(code)
  /\ UNCHANGED <<askDefault, extra, configVars, parserVars>>

Next ==
  \/ Startup \/ NewPlayCommand \/ ConfigLoaded
  \/ ParseInventory \/ GiveExtraVars \/ SetExtraVars
  \/ ReadPlaybook \/ ParsePlaybook \/ PlaybookParsed
  \/ AskPasswords \/ ExecutePlaybook

Spec == Init /\ [][Next]_vars

----------------------------------------------------------------------------
\* A configuration file takes effect as a whole (FileTakenWhole), but never on
\* the defaults of the flags: register reads them before the file is looked
\* for, and they are the base definitions whatever the file says.
SettingsWhole ==
  /\ FileTakenWhole
  /\ stage # "register" => askDefault = BaseDefs.ask


PlayWellFormed(p) ==
  /\ p.vars = "map"
  /\ (IF p.strategy = "" THEN settings.strategy ELSE p.strategy) \in {"linear", "free"}
  /\ \A i \in DOMAIN p.tasks : WellFormed(p.tasks[i])

\* The parser accepts a playbook exactly when all of it is well formed, in
\* whatever order Go ranges over a task's keys, and then hands the executor
\* every play and every task of it in the order of the file, each with the one
\* action it names, the arguments of the action over those of args, the last
\* loop, lookup and variables given and all conditions.  What it accepts
\* includes a task whose text has an open quote or block: splitArgs calls that
\* an error, but no caller sees it and the task loses its text's arguments.
ParsedFaithfully ==
  /\ parsing = "accepted" =>
       /\ Len(plays) = Len(raw)
       /\ \A i \in DOMAIN raw :
            /\ PlayWellFormed(raw[i])
            /\ Len(plays[i].tasks) = Len(raw[i].tasks)
            /\ \A j \in DOMAIN raw[i].tasks : Means(plays[i].tasks[j], raw[i].tasks[j])
  /\ parsing \in {"error", "panic"} /\ raw # <<>> =>
       \E i \in DOMAIN raw : ~PlayWellFormed(raw[i])
  /\ exit = 0 /\ stage = "ended" => loading = "loaded" /\ executed = plays
================================================================================
