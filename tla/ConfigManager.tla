----------------------------- MODULE ConfigManager -----------------------------
(***************************************************************************)
(* The configuration (src/config/manager.go, ini_config_loader.go and the   *)
(* generated config_data.go) and the callbacks that wait for it             *)
(* (src/utils/callbacks/callbacks.go): where the file is looked for, how    *)
(* its keys are applied one by one to the settings, what happens when one   *)
(* of them is refused, and who is told when.                                *)
(*                                                                         *)
(* A file is a record: present, readable, ini (its extension is .cfg or     *)
(* .ini), syntax (ini.LoadSources accepts the lines it is given), keys, the *)
(* sequence of its keys (no section stands twice), and long, the place of   *)
(* the first key at or before which a line is too long for bufio.Scanner or *)
(* cannot be read, 0 without one.  A key is [field, value, ok]: field is a  *)
(* setting, or IgnoredKey for a key the code has a case but no field for,   *)
(* or UnknownKey for a section or name without a case; ok says whether      *)
(* updateFieldFromIni returns no error for it.                              *)
(***************************************************************************)
EXTENDS Naturals, Sequences, SequencesExt

CONSTANT Files,      \* the files that may stand at one location
         BaseYml,    \* the embedded base.yml: for each setting the default and the
                     \* choices as far as it has them, the zero of its Go type and
                     \* whether that is a list
         Null        \* a default that is written as ~

Locations == <<"env", "cwd", "home", "etc">>
IgnoredKey == "ignored"
UnknownKey == "unknown"
Saturated == "max"           \* what key.Int gives for a number out of range

\* parseField: the choices count when there is no default, and without either,
\* or with a null, the setting keeps its zero.  The embedded file has no value
\* of a wrong type and no unknown setting, which would end the process.
ParseField(def) ==
  LET value == IF "default" \in DOMAIN def THEN def.default
               ELSE IF "choices" \in DOMAIN def THEN def.choices ELSE Null
  IN IF value = Null THEN def.zero ELSE value

\* ParseBaseDefsConfigData.
BaseDefs == [f \in DOMAIN BaseYml |-> ParseField(BaseYml[f])]

ASSUME SettingsAssumption == {IgnoredKey, UnknownKey} \cap DOMAIN BaseYml = {}

ASSUME FilesAssumption ==
  \A f \in Files :
    /\ f.keys \in Seq(Range(f.keys))
    /\ f.long \in 0..Len(f.keys)
    /\ \A i \in DOMAIN f.keys :
         LET k == f.keys[i]
         IN /\ k.field \in DOMAIN BaseDefs \cup {IgnoredKey, UnknownKey}
            /\ k.ok \in BOOLEAN
            /\ k.field = UnknownKey => ~k.ok
            /\ k.field = IgnoredKey => k.ok
            /\ k.field \in DOMAIN BaseDefs /\ BaseYml[k.field].list => k.ok

VARIABLES
  files,      \* the file at each location; env only if ANSIBLE_CONFIG is set
  cwdPublic,  \* the working directory is world writable
  settings,   \* manager.Settings
  loading,    \* "no" | "looking" | "keys" | "failed" | "loaded"
  path,       \* the location that is read, "" when there is none
  nextKey,    \* the key of that file that is applied next
  callbacks,  \* the run-once and persistent callbacks of ConfigLoaded
  happened,   \* persistentEventsStore[ConfigLoaded]
  saw         \* for each callback, the settings at each of its calls

configVars == <<files, cwdPublic, settings, loading, path, nextKey, callbacks,
                happened, saw>>

\* The callbacks the init functions of the display package schedule.
DisplayCallbacks == {"logger", "logLevels", "color"}

ConfigInit ==
  /\ files \in [Range(Locations) -> Files]
  /\ cwdPublic \in BOOLEAN
  /\ settings = BaseDefs
  /\ loading = "no"
  /\ path = ""
  /\ nextKey = 1
  /\ callbacks = [runOnce |-> {}, persistent |-> {}]
  /\ happened = FALSE
  /\ saw = [c \in DisplayCallbacks |-> <<>>]

Call(s, called) == [c \in DOMAIN s |-> IF c \in called THEN Append(s[c], settings') ELSE s[c]]

\* ScheduleCallback: called at once when the event has happened before.
ScheduleCallback(c, runOnce) ==
  /\ saw[c] = <<>> /\ c \notin callbacks.runOnce \cup callbacks.persistent
  /\ UNCHANGED <<files, cwdPublic, settings, loading, path, nextKey, happened>>
  /\ saw' = IF happened THEN Call(saw, {c}) ELSE saw
  /\ callbacks' = [runOnce |-> IF runOnce /\ ~happened THEN callbacks.runOnce \cup {c}
                               ELSE callbacks.runOnce,
                   persistent |-> IF runOnce THEN callbacks.persistent
                                  ELSE callbacks.persistent \cup {c}]

\* RegisterPersistentEvent(ConfigLoaded): everything that waits is called and
\* the run-once callbacks are forgotten.
MarkConfigLoaded ==
  /\ happened' = TRUE
  /\ saw' = Call(saw, callbacks.runOnce \cup callbacks.persistent)
  /\ callbacks' = [callbacks EXCEPT !.runOnce = {}]

\* The init functions run before main, main before any configuration.
Scheduled == callbacks.runOnce = DisplayCallbacks

\* findIniConfigFile: the first location with a file that can be read; the
\* working directory does not count when everybody may write to it.
Candidates ==
  {i \in DOMAIN Locations : /\ Locations[i] = "cwd" => ~cwdPublic
                            /\ files[Locations[i]].present
                            /\ files[Locations[i]].readable}

TryLoadConfigFile ==
  /\ loading = "no" /\ Scheduled
  /\ loading' = "looking"
  /\ path' = IF Candidates = {} THEN "" ELSE Locations[Min(Candidates)]
  /\ UNCHANGED <<files, cwdPublic, settings, nextKey, callbacks, happened, saw>>

\* No file is not an error.
NoConfigFile ==
  /\ loading = "looking" /\ path = ""
  /\ loading' = "loaded"
  /\ UNCHANGED settings
  /\ MarkConfigLoaded
  /\ UNCHANGED <<files, cwdPublic, path, nextKey>>

\* parseConfigFile and the scanner of parseIniConfigFile, whose error nobody
\* asks for: what follows a line it cannot take is not seen, and the file counts
\* as read.  os.Open can fail.
Scanned(f) == IF f.long = 0 THEN Len(f.keys) ELSE f.long - 1

ParseConfigFile ==
  /\ loading = "looking" /\ path # ""
  /\ loading' \in IF files[path].ini /\ files[path].syntax THEN {"keys", "failed"} ELSE {"failed"}
  /\ UNCHANGED <<files, cwdPublic, settings, path, nextKey, callbacks, happened, saw>>

\* updateFieldFromIni: the value is assigned before its error is looked at; a
\* key of no field assigns nothing.
UpdateFieldFromIni ==
  /\ loading = "keys" /\ nextKey <= Scanned(files[path])
  /\ LET k == files[path].keys[nextKey]
     IN /\ loading' = IF k.ok THEN "keys" ELSE "failed"
        /\ IF k.field \in DOMAIN settings
           THEN \E v \in IF k.ok THEN {k.value} ELSE {BaseYml[k.field].zero, Saturated} :
                  settings' = [settings EXCEPT ![k.field] = v]
           ELSE UNCHANGED settings
  /\ nextKey' = nextKey + 1
  /\ UNCHANGED <<files, cwdPublic, path, callbacks, happened, saw>>

ConfigFileRead ==
  /\ loading = "keys" /\ nextKey > Scanned(files[path])
  /\ loading' = "loaded"
  /\ UNCHANGED settings
  /\ MarkConfigLoaded
  /\ UNCHANGED <<files, cwdPublic, path, nextKey>>

\* Mutant: the file's keys stay where they were when one is refused.
KeepsPartial ==
  /\ loading = "failed"
  /\ loading' = "refused"
  /\ UNCHANGED settings
  /\ MarkConfigLoaded
  /\ UNCHANGED <<files, cwdPublic, path, nextKey>>

\* copier.CopyWithOption, DeepCopy: a list is copied element by element into
\* the one that is there, which never gets shorter.
CopyList(to, from) ==
  [i \in DOMAIN to \cup DOMAIN from |-> IF i \in DOMAIN from THEN from[i] ELSE to[i]]

\* The settings are put back before the deferred MarkConfigLoaded tells the
\* callbacks.
ConfigFileRefused ==
  /\ loading = "failed"
  /\ loading' = "refused"
  /\ settings' = [f \in DOMAIN settings |->
                   IF BaseYml[f].list THEN CopyList(settings[f], BaseDefs[f]) ELSE BaseDefs[f]]
  /\ MarkConfigLoaded
  /\ UNCHANGED <<files, cwdPublic, path, nextKey>>

ConfigNext ==
  \/ \E c \in DisplayCallbacks : loading = "no" /\ ScheduleCallback(c, TRUE)
  \/ TryLoadConfigFile
  \/ NoConfigFile
  \/ ParseConfigFile
  \/ UpdateFieldFromIni
  \/ ConfigFileRead
  \/ ConfigFileRefused

----------------------------------------------------------------------------
ConfigDone == loading \in {"loaded", "refused"}

\* The base definitions with the first n keys: of several for a setting the last.
Applied(keys, n) ==
  [f \in DOMAIN BaseDefs |->
    LET given == {i \in 1..n : keys[i].field = f}
    IN IF given = {} THEN BaseDefs[f] ELSE keys[Max(given)].value]

\* After a file was refused a setting that is no list is its default.  A list
\* begins with its default, but one the file made longer keeps the rest.
PutBack(f, keys) ==
  IF ~BaseYml[f].list THEN settings[f] = BaseDefs[f]
  ELSE \E v \in {BaseDefs[f]} \cup {keys[i].value : i \in {j \in DOMAIN keys : keys[j].field = f}} :
         /\ DOMAIN settings[f] = DOMAIN BaseDefs[f] \cup DOMAIN v
         /\ \A i \in DOMAIN BaseDefs[f] : settings[f][i] = BaseDefs[f][i]
         /\ \A i \in DOMAIN v \ DOMAIN BaseDefs[f] : settings[f][i] = v[i]

\* Of a configuration file either every key the scanner saw took effect, or no
\* setting but the end of a list did: when the search is over without an error
\* the settings are the base definitions with all keys of the first readable
\* file before a line that is too long, none of them refused; after an error
\* they are put back (PutBack); without a file they are the base definitions.
\* And everyone who waits for the configuration was called exactly once, with
\* these settings.
FileTakenWhole ==
  ConfigDone =>
    /\ DOMAIN settings = DOMAIN BaseDefs
    /\ path = "" => loading = "loaded" /\ settings = BaseDefs
    /\ loading = "loaded" /\ path # "" =>
         LET keys == files[path].keys
             seen == Scanned(files[path])
         IN settings = Applied(keys, seen) /\ \A i \in 1..seen : keys[i].ok
    /\ loading = "refused" => \A f \in DOMAIN BaseDefs : PutBack(f, files[path].keys)
    /\ \A c \in DisplayCallbacks : saw[c] = <<settings>>
================================================================================
