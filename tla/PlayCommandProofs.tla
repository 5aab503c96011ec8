-------------------------- MODULE PlayCommandProofs ---------------------------
(***************************************************************************)
(* Theorems about the command `gosible play`: what of a configuration file   *)
(* takes effect, and that the parser accepts exactly the well formed         *)
(* playbooks and hands over what they mean.  The inductive invariant PlayInv*)
(* has one part per component: ConfigInv and CallbackInv for the settings   *)
(* and who was told of them, ParserInv for the file that is read, and       *)
(* CommandInv for the order in which the command goes through them.         *)
(***************************************************************************)
EXTENDS PlayCommand, FiniteSetTheorems, WellFoundedInduction, TLAPS

-----------------------------------------------------------------------------
(* The last and the first of some places.                                   *)

\* Places in a sequence have a last one.
LEMMA MaxOfPlaces ==
    ASSUME NEW n \in Nat, NEW S \in SUBSET (1..n), S # {}
    PROVE  Max(S) \in S /\ \A i \in S : i <= Max(S)
<1> DEFINE T == {k \in Nat : n - k \in S}
           R == OpToRel(<, Nat)
<1>1. IsWellFoundedOn(R, Nat)
  BY NatLessThanWellFounded
<1>2. \A x, y \in Nat : y < x => <<y, x>> \in R
  BY DEF OpToRel
<1> HIDE DEF R
<1>3. T \in SUBSET Nat /\ T # {}
  <2>1. PICK i \in S : TRUE
    OBVIOUS
  <2>2. n - i \in T
    BY <2>1
  <2> QED BY <2>2
<1>4. PICK x \in T : \A y \in T : ~(<<y, x>> \in R)
  BY <1>1, <1>3, WFMin
<1>5. n - x \in S /\ \A i \in S : i <= n - x
  <2>1. ASSUME NEW i \in S, ~(i <= n - x) PROVE FALSE
    <3>1. n - i \in T /\ n - i < x /\ n - i \in Nat /\ x \in Nat
      BY <1>3, <1>4, <2>1
    <3> QED BY <1>2, <1>4, <3>1
  <2> QED BY <1>4, <2>1
<1>6. \E m \in S : \A i \in S : m >= i
  BY <1>5
<1>7. Max(S) \in S /\ \A i \in S : Max(S) >= i
  BY <1>6 DEF Max
<1> QED BY <1>7

\* A place after all others is the last one.
LEMMA MaxOfLater ==
    ASSUME NEW n \in Nat, NEW S \in SUBSET (1..n)
    PROVE  Max(S \cup {n + 1}) = n + 1
<1>1. S \cup {n + 1} \in SUBSET (1..(n + 1)) /\ S \cup {n + 1} # {} /\ n + 1 \in Nat
  OBVIOUS
<1> DEFINE U == S \cup {n + 1}
           m == n + 1
<1>2. \A i \in U : i <= m
  OBVIOUS
<1>3. m \in U
  OBVIOUS
<1>4. Max(U) \in U /\ \A i \in U : i <= Max(U)
  <2> HIDE DEF U, m
  <2> QED BY <1>1, MaxOfPlaces DEF U, m
<1>5. ASSUME NEW x \in U, \A i \in U : i <= x PROVE x = m
  <2>1. x \in Nat /\ x <= m /\ m <= x
    BY <1>2, <1>3, <1>5
  <2> QED BY <2>1
<1> HIDE DEF U, m
<1>6. Max(U) = m
  BY <1>4, <1>5
<1> QED BY <1>6 DEF U, m

\* The first of four places.
LEMMA MinOfPlaces ==
    ASSUME NEW S \in SUBSET {1, 2, 3, 4}, S # {}
    PROVE  Min(S) \in S
<1>1. \E m \in S : \A i \in S : m <= i
  <2>1. CASE 1 \in S
    BY <2>1
  <2>2. CASE 1 \notin S /\ 2 \in S
    BY <2>2
  <2>3. CASE 1 \notin S /\ 2 \notin S /\ 3 \in S
    BY <2>3
  <2>4. CASE 1 \notin S /\ 2 \notin S /\ 3 \notin S
    <3>1. S = {4}
      BY <2>4
    <3> QED BY <3>1
  <2> QED BY <2>1, <2>2, <2>3, <2>4
<1> QED BY <1>1 DEF Min

-----------------------------------------------------------------------------
(* The configuration.                                                       *)

\* One more key is one more assignment, or none when it is of no setting.
LEMMA AppliedStep ==
    ASSUME NEW keys, NEW n \in Nat
    PROVE  /\ keys[n + 1].field \in DOMAIN BaseDefs =>
                Applied(keys, n + 1) = [Applied(keys, n) EXCEPT ![keys[n + 1].field] = keys[n + 1].value]
           /\ keys[n + 1].field \notin DOMAIN BaseDefs => Applied(keys, n + 1) = Applied(keys, n)
<1> DEFINE given(m, f) == {i \in 1..m : keys[i].field = f}
           value(m, f) == IF given(m, f) = {} THEN BaseDefs[f] ELSE keys[Max(given(m, f))].value
           k == keys[n + 1]
<1>1. \A m : Applied(keys, m) = [f \in DOMAIN BaseDefs |-> value(m, f)]
  BY DEF Applied
<1>2. ASSUME NEW f, f # k.field PROVE value(n + 1, f) = value(n, f)
  <2>1. given(n + 1, f) = given(n, f)
    BY <1>2
  <2> HIDE DEF given
  <2> QED BY <2>1
<1>3. value(n + 1, k.field) = k.value
  <2>1. given(n + 1, k.field) = given(n, k.field) \cup {n + 1}
    OBVIOUS
  <2>2. given(n, k.field) \in SUBSET (1..n)
    OBVIOUS
  <2> HIDE DEF given
  <2>3. Max(given(n + 1, k.field)) = n + 1
    BY <2>1, <2>2, MaxOfLater
  <2> QED BY <2>1, <2>3
<1> HIDE DEF value, k
<1>4. ASSUME k.field \in DOMAIN BaseDefs
      PROVE  [f \in DOMAIN BaseDefs |-> value(n + 1, f)]
               = [[f \in DOMAIN BaseDefs |-> value(n, f)] EXCEPT ![k.field] = k.value]
  BY <1>2, <1>3, <1>4
<1>5. ASSUME k.field \notin DOMAIN BaseDefs
      PROVE  [f \in DOMAIN BaseDefs |-> value(n + 1, f)] = [f \in DOMAIN BaseDefs |-> value(n, f)]
  BY <1>2, <1>5
<1> QED BY <1>1, <1>4, <1>5 DEF k

\* Before the first key the settings are the base definitions.
LEMMA AppliedNone ==
    ASSUME NEW keys PROVE Applied(keys, 0) = BaseDefs
<1>1. \A f : {i \in 1..0 : keys[i].field = f} = {}
  OBVIOUS
<1>2. BaseDefs = [f \in DOMAIN BaseDefs |-> BaseDefs[f]]
  BY DEF BaseDefs
<1> QED BY <1>1, <1>2 DEF Applied

\* A setting is its default or what a key gave it.
LEMMA AppliedValue ==
    ASSUME NEW keys, NEW n \in Nat, NEW f \in DOMAIN BaseDefs
    PROVE  \/ Applied(keys, n)[f] = BaseDefs[f]
           \/ \E i \in 1..n : keys[i].field = f /\ Applied(keys, n)[f] = keys[i].value
<1> DEFINE given == {i \in 1..n : keys[i].field = f}
<1>1. Applied(keys, n)[f] = IF given = {} THEN BaseDefs[f] ELSE keys[Max(given)].value
  BY DEF Applied
<1>2. given \in SUBSET (1..n) /\ \A i \in given : i \in 1..n /\ keys[i].field = f
  OBVIOUS
<1> HIDE DEF given
<1>3. given # {} => Max(given) \in given
  BY <1>2, MaxOfPlaces
<1> QED BY <1>1, <1>2, <1>3

\* The keys of the file that is read, and how many of them the scanner sees.
Current == files[path].keys
Count == Scanned(files[path])

\* The keys so far have been applied, and all of them in the end.
KeysInv ==
    /\ path # "" /\ nextKey <= Count + 1
    /\ settings = Applied(Current, nextKey - 1)
    /\ \A i \in 1..(nextKey - 1) : Current[i].ok

\* Once the file is loaded all of them are, and none was refused.
LoadedInv ==
    /\ path = "" => settings = BaseDefs
    /\ path # "" =>
         /\ settings = Applied(Current, Count)
         /\ \A i \in 1..Count : Current[i].ok

\* When it fails no list was touched but by a key.
FailedInv ==
    /\ path # "" /\ DOMAIN settings = DOMAIN BaseDefs
    /\ \A f \in DOMAIN BaseDefs :
         BaseYml[f].list =>
           \/ settings[f] = BaseDefs[f]
           \/ \E i \in DOMAIN Current : Current[i].field = f /\ settings[f] = Current[i].value

\* Then the settings are put back.
RefusedInv ==
    /\ path # "" /\ DOMAIN settings = DOMAIN BaseDefs
    /\ \A f \in DOMAIN BaseDefs : PutBack(f, Current)

\* The settings, and below who was told of them.
ConfigInv ==
    /\ loading \in {"no", "looking", "keys", "failed", "loaded", "refused"}
    /\ files \in [{"env", "cwd", "home", "etc"} -> Files]
    /\ path \in {"", "env", "cwd", "home", "etc"}
    /\ nextKey \in Nat \ {0}
    /\ loading \in {"no", "looking"} => settings = BaseDefs
    /\ loading \in {"no", "looking"} => nextKey = 1
    /\ loading = "keys" => KeysInv
    /\ loading = "loaded" => LoadedInv
    /\ loading = "failed" => FailedInv
    /\ loading = "refused" => RefusedInv

\* Nobody is told before the search is over, and then everybody is, once.
CallbackInv ==
    /\ DOMAIN saw = DisplayCallbacks
    /\ loading \notin {"loaded", "refused"} =>
         /\ ~happened /\ callbacks.persistent = {} /\ \A c \in DisplayCallbacks : saw[c] = <<>>
    /\ loading \notin {"no", "loaded", "refused"} => Scheduled
    /\ loading \in {"loaded", "refused"} => \A c \in DisplayCallbacks : saw[c] = <<settings>>

\* The places of a sequence.
LEMMA SeqFacts ==
    ASSUME NEW S, NEW s \in Seq(S) PROVE Len(s) \in Nat /\ DOMAIN s = 1..Len(s)
OBVIOUS

\* The scanner sees the first of them.
LEMMA ScannedPlaces ==
    ASSUME NEW f, Len(f.keys) \in Nat, f.long \in 0..Len(f.keys)
    PROVE  Scanned(f) \in Nat /\ 1..Scanned(f) \subseteq 1..Len(f.keys)
<1>1. ASSUME NEW n \in Nat, NEW l \in 0..n, NEW m, m = IF l = 0 THEN n ELSE l - 1
      PROVE  m \in Nat /\ 1..m \subseteq 1..n
  BY <1>1
<1>2. Scanned(f) = IF f.long = 0 THEN Len(f.keys) ELSE f.long - 1
  BY DEF Scanned
<1> QED BY <1>1, <1>2

\* There are finitely many, those of no field are told apart, and no list is refused.
LEMMA KeysOf ==
    ASSUME ConfigInv, path # ""
    PROVE  /\ Count \in Nat /\ 1..Count \subseteq DOMAIN Current
           /\ \A i \in 1..Count :
                /\ Current[i].ok \in BOOLEAN
                /\ Current[i].field \in DOMAIN BaseDefs /\ BaseYml[Current[i].field].list => Current[i].ok
<1>1. files[path] \in Files
  BY DEF ConfigInv
<1>2. files[path].keys \in Seq(Range(files[path].keys)) /\ files[path].long \in 0..Len(files[path].keys)
  BY <1>1, FilesAssumption
<1>3. Len(files[path].keys) \in Nat /\ DOMAIN files[path].keys = 1..Len(files[path].keys)
  BY <1>2, SeqFacts
<1>4. Scanned(files[path]) \in Nat /\ 1..Scanned(files[path]) \subseteq 1..Len(files[path].keys)
  BY <1>2, <1>3, ScannedPlaces
<1>5. Count \in Nat /\ 1..Count \subseteq DOMAIN Current
  BY <1>3, <1>4 DEF Count, Current
<1>6. \A i \in DOMAIN Current :
        /\ Current[i].ok \in BOOLEAN
        /\ Current[i].field \in DOMAIN BaseDefs /\ BaseYml[Current[i].field].list => Current[i].ok
  BY <1>1, FilesAssumption DEF Current
<1> QED BY <1>5, <1>6

\* Nothing else changes them.
LEMMA KeysStay ==
    UNCHANGED <<files, path>> => UNCHANGED <<Current, Count>>
BY DEF Current, Count

\* Everyone who waits is called, once.
LEMMA EveryoneTold ==
    ASSUME DOMAIN saw = DisplayCallbacks, Scheduled, callbacks.persistent = {},
           \A c \in DisplayCallbacks : saw[c] = <<>>, MarkConfigLoaded
    PROVE  DOMAIN saw' = DisplayCallbacks /\ \A c \in DisplayCallbacks : saw'[c] = <<settings'>>
<1>1. callbacks.runOnce \cup callbacks.persistent = DisplayCallbacks
  BY DEF Scheduled
<1>2. saw' = [c \in DOMAIN saw |->
               IF c \in callbacks.runOnce \cup callbacks.persistent THEN Append(saw[c], settings') ELSE saw[c]]
  BY DEF MarkConfigLoaded, Call
<1>3. saw' = [c \in DisplayCallbacks |-> Append(saw[c], settings')]
  BY <1>1, <1>2
<1>4. Append(<<>>, settings') = <<settings'>>
  OBVIOUS
<1> QED BY <1>3, <1>4

\* The process starts with nothing read and nobody told.
LEMMA ConfigInitInv == ConfigInit => ConfigInv /\ CallbackInv
<1> SUFFICES ASSUME ConfigInit PROVE ConfigInv /\ CallbackInv
  OBVIOUS
<1>1. Range(Locations) = {"env", "cwd", "home", "etc"}
  <2>1. DOMAIN Locations = 1..4
    BY DEF Locations
  <2>2. Locations[1] = "env" /\ Locations[2] = "cwd" /\ Locations[3] = "home" /\ Locations[4] = "etc"
    BY DEF Locations
  <2>3. 1..4 = {1, 2, 3, 4}
    OBVIOUS
  <2> QED BY <2>1, <2>2, <2>3 DEF Range
<1>2. ConfigInv
  <2>1. files \in [{"env", "cwd", "home", "etc"} -> Files]
    BY <1>1 DEF ConfigInit
  <2>2. settings = BaseDefs /\ loading = "no" /\ path = ""
    BY DEF ConfigInit
  <2>3. nextKey = 1
    BY DEF ConfigInit
  <2>4. nextKey \in Nat \ {0}
    BY <2>3
  <2> QED BY <2>1, <2>2, <2>3, <2>4 DEF ConfigInv
<1>3. CallbackInv
  BY DEF ConfigInit, CallbackInv
<1> QED BY <1>2, <1>3

\* Every step of the search and of the loading keeps both.
LEMMA ConfigNextInv == ConfigInv /\ CallbackInv /\ ConfigNext => ConfigInv' /\ CallbackInv'
<1> SUFFICES ASSUME ConfigInv, CallbackInv, ConfigNext PROVE ConfigInv' /\ CallbackInv'
  OBVIOUS
<1>1. ASSUME NEW c \in DisplayCallbacks, loading = "no", ScheduleCallback(c, TRUE)
      PROVE  ConfigInv' /\ CallbackInv'
  <2>1. UNCHANGED <<files, cwdPublic, settings, loading, path, nextKey, happened>>
    BY <1>1 DEF ScheduleCallback
  <2>2. saw' = saw /\ callbacks'.persistent = {}
    BY <1>1 DEF ScheduleCallback, CallbackInv
  <2>3. ConfigInv'
    BY <1>1, <2>1, KeysStay DEF ConfigInv
  <2>4. CallbackInv'
    BY <1>1, <2>1, <2>2 DEF CallbackInv
  <2> QED BY <2>3, <2>4
<1>2. CASE TryLoadConfigFile
  <2>1. UNCHANGED <<files, cwdPublic, settings, nextKey, callbacks, happened, saw>> /\ loading = "no" /\ loading' = "looking"
    BY <1>2 DEF TryLoadConfigFile
  <2>2. path' \in {"", "env", "cwd", "home", "etc"}
    <3>1. CASE Candidates = {}
      BY <1>2, <3>1 DEF TryLoadConfigFile
    <3>2. CASE Candidates # {}
      <4>1. DOMAIN Locations = {1, 2, 3, 4}
        BY DEF Locations
      <4>2. Candidates \in SUBSET {1, 2, 3, 4}
        BY <4>1 DEF Candidates
      <4>3. Min(Candidates) \in {1, 2, 3, 4}
        BY <3>2, <4>2, MinOfPlaces
      <4>4. path' = Locations[Min(Candidates)]
        BY <1>2, <3>2 DEF TryLoadConfigFile
      <4>5. Locations[1] = "env" /\ Locations[2] = "cwd" /\ Locations[3] = "home" /\ Locations[4] = "etc"
        BY DEF Locations
      <4> QED BY <4>3, <4>4, <4>5
    <3> QED BY <3>1, <3>2
  <2>3. ConfigInv'
    <3>1. settings' = BaseDefs /\ nextKey' = 1 /\ nextKey' \in Nat \ {0} /\ files' \in [{"env", "cwd", "home", "etc"} -> Files]
      BY <2>1 DEF ConfigInv
    <3>2. loading' = "looking"
      BY <2>1
    <3> QED BY <2>2, <3>1, <3>2 DEF ConfigInv
  <2>4. CallbackInv'
    <3>1. Scheduled'
      BY <1>2, <2>1 DEF TryLoadConfigFile, Scheduled
    <3>2. /\ DOMAIN saw = DisplayCallbacks /\ ~happened /\ callbacks.persistent = {}
          /\ \A c \in DisplayCallbacks : saw[c] = <<>>
      BY <2>1 DEF CallbackInv
    <3> QED BY <2>1, <3>1, <3>2 DEF CallbackInv
  <2> QED BY <2>3, <2>4
<1>3. CASE ParseConfigFile
  <2>1. /\ UNCHANGED <<files, cwdPublic, settings, path, nextKey, callbacks, happened, saw>>
        /\ loading = "looking" /\ loading' \in {"keys", "failed"} /\ path # ""
    BY <1>3 DEF ParseConfigFile
  <2>2. Count \in Nat /\ settings = Applied(Current, 0) /\ nextKey = 1
    BY <2>1, KeysOf, AppliedNone DEF ConfigInv
  <2>3. UNCHANGED <<Current, Count>>
    BY <2>1, KeysStay
  <2>4. nextKey - 1 = 0 /\ nextKey <= Count + 1 /\ 1..(nextKey - 1) = {}
    BY <2>2
  <2>5. ConfigInv'
    <3>1. FailedInv'
      <4>1. settings' = BaseDefs /\ path' # ""
        BY <2>1 DEF ConfigInv
      <4> QED BY <4>1 DEF FailedInv
    <3>2. KeysInv'
      BY <2>1, <2>2, <2>3, <2>4 DEF KeysInv
    <3> QED BY <2>1, <3>1, <3>2 DEF ConfigInv
  <2>6. CallbackInv'
    BY <2>1 DEF CallbackInv, Scheduled
  <2> QED BY <2>5, <2>6
<1>4. CASE UpdateFieldFromIni
  <2> DEFINE k == Current[nextKey]
  <2>1. /\ UNCHANGED <<files, cwdPublic, path, callbacks, happened, saw>>
        /\ loading = "keys" /\ nextKey <= Count /\ nextKey' = nextKey + 1
    BY <1>4 DEF UpdateFieldFromIni, Count
  <2>2. CallbackInv'
    <3>1. loading' \in {"keys", "failed"}
      BY <1>4, <2>1 DEF UpdateFieldFromIni
    <3> QED BY <2>1, <3>1 DEF CallbackInv, Scheduled
  <2>3. /\ Count \in Nat /\ path # "" /\ 1..Count \subseteq DOMAIN Current
        /\ \A i \in 1..Count :
             /\ Current[i].ok \in BOOLEAN
             /\ Current[i].field \in DOMAIN BaseDefs /\ BaseYml[Current[i].field].list => Current[i].ok
    BY <2>1, KeysOf DEF ConfigInv, KeysInv
  <2>4. nextKey \in Nat \ {0} /\ settings = Applied(Current, nextKey - 1)
    BY <2>1 DEF ConfigInv, KeysInv
  <2>5. UNCHANGED <<Current, Count>>
    BY <2>1, KeysStay
  <2>6. /\ nextKey' - 1 = nextKey /\ nextKey' \in Nat \ {0} /\ nextKey' <= Count + 1
        /\ nextKey - 1 \in Nat /\ (nextKey - 1) + 1 = nextKey /\ nextKey \in 1..Count
    <3>1. nextKey \in Nat \ {0} /\ Count \in Nat
      BY <2>3, <2>4
    <3>2. nextKey <= Count /\ nextKey' = nextKey + 1
      BY <2>1
    <3> QED BY <3>1, <3>2
  <2>7. DOMAIN settings = DOMAIN BaseDefs
    BY <2>4 DEF Applied
  <2>8. CASE ~k.ok
    <3>1. loading' = "failed" /\ path' # ""
      BY <1>4, <2>1, <2>3, <2>8 DEF UpdateFieldFromIni, Current
    <3>2. /\ DOMAIN settings' = DOMAIN settings
          /\ \A f \in DOMAIN settings : f # k.field => settings'[f] = settings[f]
      <4>1. CASE k.field \in DOMAIN settings
        <5>1. PICK v : settings' = [settings EXCEPT ![k.field] = v]
          BY <1>4, <4>1 DEF UpdateFieldFromIni, Current
        <5> QED BY <5>1
      <4>2. CASE k.field \notin DOMAIN settings
        <5>1. settings' = settings
          BY <1>4, <4>2 DEF UpdateFieldFromIni, Current
        <5> QED BY <5>1
      <4> QED BY <4>1, <4>2
    <3>3. ASSUME NEW f \in DOMAIN BaseDefs, BaseYml[f].list
          PROVE  \/ settings'[f] = BaseDefs[f]
                 \/ \E i \in DOMAIN Current : Current[i].field = f /\ settings'[f] = Current[i].value
      <4>1. f # k.field
        BY <2>3, <2>6, <2>8, <3>3
      <4>2. settings'[f] = Applied(Current, nextKey - 1)[f]
        BY <2>4, <2>7, <3>2, <4>1
      <4>3. \/ Applied(Current, nextKey - 1)[f] = BaseDefs[f]
            \/ \E i \in 1..(nextKey - 1) :
                 Current[i].field = f /\ Applied(Current, nextKey - 1)[f] = Current[i].value
        BY <2>6, AppliedValue
      <4>4. 1..(nextKey - 1) \subseteq DOMAIN Current
        <5>1. \A n \in Nat : \A m \in 1..n : 1..(m - 1) \subseteq 1..n
          OBVIOUS
        <5>2. 1..(nextKey - 1) \subseteq 1..Count
          BY <2>3, <2>6, <5>1
        <5> QED BY <2>3, <5>2
      <4> QED BY <4>2, <4>3, <4>4
    <3>4. FailedInv'
      BY <2>5, <2>7, <3>1, <3>2, <3>3 DEF FailedInv
    <3>5. ConfigInv'
      BY <2>1, <2>6, <3>1, <3>4 DEF ConfigInv
    <3> QED BY <2>2, <3>5
  <2>9. CASE k.ok
    <3>1. loading' = "keys"
      BY <1>4, <2>9 DEF UpdateFieldFromIni, Current
    <3>2. /\ k.field \in DOMAIN settings => settings' = [settings EXCEPT ![k.field] = k.value]
          /\ k.field \notin DOMAIN settings => settings' = settings
      BY <1>4, <2>9 DEF UpdateFieldFromIni, Current
    <3>3. /\ k.field \in DOMAIN BaseDefs =>
               Applied(Current, nextKey) = [Applied(Current, nextKey - 1) EXCEPT ![k.field] = k.value]
          /\ k.field \notin DOMAIN BaseDefs => Applied(Current, nextKey) = Applied(Current, nextKey - 1)
      <4> DEFINE n == nextKey - 1
      <4>1. n \in Nat /\ n + 1 = nextKey
        BY <2>6
      <4> HIDE DEF n
      <4>2. /\ Current[n + 1].field \in DOMAIN BaseDefs =>
                 Applied(Current, n + 1) = [Applied(Current, n) EXCEPT ![Current[n + 1].field] = Current[n + 1].value]
            /\ Current[n + 1].field \notin DOMAIN BaseDefs => Applied(Current, n + 1) = Applied(Current, n)
        BY <4>1, AppliedStep
      <4> QED BY <4>1, <4>2 DEF n
    <3>4. settings' = Applied(Current, nextKey)
      BY <2>4, <2>7, <3>2, <3>3
    <3>5. \A i \in 1..nextKey : Current[i].ok
      <4>1. \A i \in 1..nextKey : i = nextKey \/ i \in 1..(nextKey - 1)
        BY <2>6
      <4> QED BY <2>1, <2>9, <4>1 DEF ConfigInv, KeysInv
    <3>6. ConfigInv'
      <4>1. KeysInv'
        BY <2>1, <2>3, <2>5, <2>6, <3>4, <3>5 DEF KeysInv
      <4> QED BY <2>1, <2>6, <3>1, <4>1 DEF ConfigInv
    <3> QED BY <2>2, <3>6
  <2> QED BY <2>8, <2>9
<1>5. ASSUME (loading = "looking" /\ path = "") \/ (loading = "keys" /\ nextKey > Count),
             loading' = "loaded", MarkConfigLoaded, UNCHANGED <<files, settings, path, nextKey>>
      PROVE  ConfigInv' /\ CallbackInv'
  <2>1. CallbackInv'
    <3>1. DOMAIN saw' = DisplayCallbacks /\ \A c \in DisplayCallbacks : saw'[c] = <<settings'>>
      BY <1>5, EveryoneTold DEF CallbackInv
    <3> QED BY <1>5, <3>1 DEF CallbackInv
  <2>2. UNCHANGED <<Current, Count>>
    BY <1>5, KeysStay
  <2>3. ConfigInv'
    <3>1. CASE loading = "looking" /\ path = ""
      BY <1>5, <3>1 DEF ConfigInv, LoadedInv
    <3>2. CASE loading = "keys" /\ nextKey > Count
      <4>1. path # "" /\ Count \in Nat
        BY <3>2, KeysOf DEF ConfigInv, KeysInv
      <4>2. nextKey - 1 = Count
        <5>1. nextKey \in Nat
          BY DEF ConfigInv
        <5>2. nextKey <= Count + 1 /\ nextKey > Count
          BY <3>2 DEF ConfigInv, KeysInv
        <5>3. Count \in Nat
          BY <4>1
        <5>4. \A a, b \in Nat : a <= b + 1 /\ a > b => a - 1 = b
          OBVIOUS
        <5> QED BY <5>1, <5>2, <5>3, <5>4
      <4>3. settings = Applied(Current, Count) /\ \A i \in 1..Count : Current[i].ok
        BY <3>2, <4>2 DEF ConfigInv, KeysInv
      <4> QED BY <1>5, <2>2, <4>1, <4>3 DEF ConfigInv, LoadedInv
    <3> QED BY <1>5, <3>1, <3>2
  <2> QED BY <2>1, <2>3
<1>6. CASE NoConfigFile
  <2>1. /\ loading = "looking" /\ path = "" /\ loading' = "loaded" /\ MarkConfigLoaded
        /\ UNCHANGED <<files, settings, path, nextKey>>
    BY <1>6 DEF NoConfigFile
  <2> QED BY <1>5, <2>1
<1>7. CASE ConfigFileRead
  <2>1. /\ loading = "keys" /\ nextKey > Count /\ loading' = "loaded" /\ MarkConfigLoaded
        /\ UNCHANGED <<files, settings, path, nextKey>>
    BY <1>7 DEF ConfigFileRead, Count
  <2> QED BY <1>5, <2>1
<1>8. CASE ConfigFileRefused
  <2>1. /\ loading = "failed" /\ loading' = "refused" /\ MarkConfigLoaded
        /\ settings' = [f \in DOMAIN settings |->
                         IF BaseYml[f].list THEN CopyList(settings[f], BaseDefs[f]) ELSE BaseDefs[f]]
        /\ UNCHANGED <<files, cwdPublic, path, nextKey>>
    BY <1>8 DEF ConfigFileRefused
  <2>2. DOMAIN saw' = DisplayCallbacks /\ \A c \in DisplayCallbacks : saw'[c] = <<settings'>>
    BY <2>1, EveryoneTold DEF CallbackInv
  <2>3. CallbackInv'
    BY <2>1, <2>2 DEF CallbackInv
  <2>4. FailedInv /\ UNCHANGED <<Current, Count>>
    BY <2>1, KeysStay DEF ConfigInv
  <2>5. DOMAIN settings' = DOMAIN BaseDefs
    BY <2>1, <2>4 DEF FailedInv
  <2>6. ASSUME NEW f \in DOMAIN BaseDefs PROVE PutBack(f, Current)'
    <3>1. settings'[f] = IF BaseYml[f].list THEN CopyList(settings[f], BaseDefs[f]) ELSE BaseDefs[f]
      BY <2>1, <2>4 DEF FailedInv
    <3>2. CASE ~BaseYml[f].list
      BY <3>1, <3>2 DEF PutBack
    <3>3. CASE BaseYml[f].list
      <4> DEFINE V == {BaseDefs[f]} \cup {Current[i].value : i \in {j \in DOMAIN Current : Current[j].field = f}}
      <4>1. settings[f] \in V
        BY <2>4, <3>3 DEF FailedInv
      <4>2. /\ DOMAIN settings'[f] = DOMAIN BaseDefs[f] \cup DOMAIN settings[f]
            /\ \A i \in DOMAIN BaseDefs[f] : settings'[f][i] = BaseDefs[f][i]
            /\ \A i \in DOMAIN settings[f] \ DOMAIN BaseDefs[f] : settings'[f][i] = settings[f][i]
        BY <3>1, <3>3 DEF CopyList
      <4> HIDE DEF V
      <4>3. \E v \in V :
              /\ DOMAIN settings'[f] = DOMAIN BaseDefs[f] \cup DOMAIN v
              /\ \A i \in DOMAIN BaseDefs[f] : settings'[f][i] = BaseDefs[f][i]
              /\ \A i \in DOMAIN v \ DOMAIN BaseDefs[f] : settings'[f][i] = v[i]
        BY <4>1, <4>2
      <4> QED BY <2>4, <3>3, <4>3 DEF PutBack, V
    <3> QED BY <3>2, <3>3
  <2>7. RefusedInv'
    BY <2>1, <2>4, <2>5, <2>6 DEF RefusedInv, FailedInv
  <2>8. ConfigInv'
    BY <2>1, <2>7 DEF ConfigInv
  <2> QED BY <2>3, <2>8
<1> QED BY <1>1, <1>2, <1>3, <1>4, <1>6, <1>7, <1>8 DEF ConfigNext

-----------------------------------------------------------------------------
(* The keywords of a task, and what parseTaskKeyword makes of them.         *)

\* What a keyword's value is, and a keyword with it.
ValueKinds == {"string", "list", "map", "nil", "keys", "values", "mixed"}
Value == [kind : ValueKinds, text : Seq(Seq(Tokens))]
Item == [key : Keys, value : Value]

\* Some Go maps of keywords to values.
KeywordMap == UNION {[D -> Value] : D \in SUBSET Keys}

\* What a task keeps of a value is its kind, and what a resolution may yield.
TaskKinds == ValueKinds \cup {"none"}
Normalizations == [action : Modules, args : TaskKinds, value : Value]
Arguments == {<<>>} \cup {NormalizeParameters(n.action, n.args, n.value) : n \in Normalizations}

\* The structure parseRawTask fills.
Task == [name : BOOLEAN, args : TaskKinds, vars : TaskKinds, loop : TaskKinds, with : TaskKinds,
         when : Nat, keywords : KeywordMap, action : Modules \cup {""}, final : Arguments]

\* The keywords without a case of their own in parseTaskKeyword.
Kept == Keys \ {"name", "args", "vars", "loop", WithKeyword, "when"}

\* The kinds of the values that count.
KindsKept(t, items) ==
    /\ t.args = LastKind(items, "args") /\ t.vars = LastKind(items, "vars")
    /\ t.loop = LastKind(items, "loop") /\ t.with = LastKind(items, WithKeyword)

\* The values that are kept for the resolution.
ValuesKept(kw, items) ==
    /\ DOMAIN kw = {k \in Kept : Given(items, k) # {}}
    /\ \A k \in DOMAIN kw : kw[k] = LastValue(items, k)

\* Every keyword so far had a value of its type, and only an action has a text.
TextsOfActions(items) ==
    \A i \in DOMAIN items : items[i].value.text # NoText => items[i].key \in Modules
AllAccepted(items) == \A i \in DOMAIN items : Accepts(items[i].key, items[i].value)

\* A task holds what its keywords say, as far as they were read.
TaskOf(t, items) ==
    /\ AllAccepted(items)
    /\ KindsKept(t, items)
    /\ t.when = Conditions(items)
    /\ ValuesKept(t.keywords, items)
    /\ IsFiniteSet(Actions(items))
    /\ TextsOfActions(items)

\* A keyword's value is what the YAML decoder can give, and only an action has a text.
LEMMA ValuesTyped ==
    ASSUME NEW key \in Keys, NEW value \in ValuesOf(key)
    PROVE  value \in Value /\ (value.text # NoText => key \in Modules)
<1> DEFINE Plainly == \E k \in ValueKinds : value = [kind |-> k, text |-> NoText]
<1>1. Plainly => value \in Value /\ value.text = NoText
  <2>1. NoText \in Seq(Seq(Tokens))
    BY DEF NoText
  <2> QED BY <2>1 DEF Value
<1>2. CASE key \in Modules
  <2>1. key \notin {"name", "args", "vars", "loop", WithKeyword, "when"}
    BY <1>2, ModulesAssumption DEF TaskKeywords
  <2>2. ValuesOf(key) = Kinded({"map", "keys", "nil", "list"})
                          \cup {[kind |-> "string", text |-> <<<<t>>>>] : t \in Tokens}
    BY <1>2, <2>1 DEF ValuesOf
  <2>3. value \in Kinded({"map", "keys", "nil", "list"})
          \/ \E t \in Tokens : value = [kind |-> "string", text |-> <<<<t>>>>]
    BY <2>2
  <2>4. ASSUME NEW t \in Tokens, value = [kind |-> "string", text |-> <<<<t>>>>] PROVE value \in Value
    <3> DEFINE text == <<<<t>>>>
    <3>1. text \in Seq(Seq(Tokens)) /\ value = [kind |-> "string", text |-> text]
      BY <2>4
    <3> HIDE DEF text
    <3> QED BY <3>1 DEF Value, ValueKinds
  <2>5. value \in Kinded({"map", "keys", "nil", "list"}) => Plainly
    BY DEF Kinded, ValueKinds
  <2> HIDE DEF Plainly
  <2>6. value \in Value
    BY <1>1, <2>3, <2>4, <2>5
  <2> QED BY <1>2, <2>6
<1>3. CASE key \notin Modules
  <2>1. \/ value \in Kinded({"string", "list"}) \/ value \in Kinded({"map", "keys", "values", "string"})
        \/ value \in Kinded({"map", "list"}) \/ value \in Kinded({"string", "list", "nil"})
        \/ value \in Kinded({"string", "list", "mixed", "map"}) \/ value \in Kinded({"string"})
    BY <1>3, Zenon DEF ValuesOf
  <2>2. Plainly
    BY <2>1 DEF Kinded, ValueKinds
  <2> HIDE DEF Plainly
  <2> QED BY <1>1, <2>2
<1> QED BY <1>2, <1>3

\* A text stays one when it grows.
LEMMA LongerTyped ==
    ASSUME NEW text \in Seq(Seq(Tokens)), text # NoText, NEW longer \in Longer(text)
    PROVE  longer \in Seq(Seq(Tokens))
<1>1. PICK t \in Tokens : longer = Append(text, <<t>>) \/ longer = [text EXCEPT ![Len(text)] = Append(text[Len(text)], t)]
  BY DEF Longer
<1>2. <<t>> \in Seq(Tokens)
  OBVIOUS
<1>3. Append(text, <<t>>) \in Seq(Seq(Tokens))
  BY <1>2
<1>4. Len(text) \in 1..Len(text)
  BY DEF NoText
<1>5. Append(text[Len(text)], t) \in Seq(Tokens)
  BY <1>4
<1> DEFINE last == Append(text[Len(text)], t)
<1> HIDE DEF last
<1>6. [text EXCEPT ![Len(text)] = last] \in Seq(Seq(Tokens))
  BY <1>4, <1>5 DEF last
<1> QED BY <1>1, <1>3, <1>6 DEF last

\* Where a key is given.
LEMMA GivenPlaces ==
    ASSUME NEW items \in Seq(Item), NEW key
    PROVE  Len(items) \in Nat /\ Given(items, key) \in SUBSET (1..Len(items))
BY DEF Given

\* How the last value of a key changes with one more keyword.
LastsAfter(new, items, x, key) ==
    /\ x.key = key => /\ Given(new, key) # {}
                      /\ LastValue(new, key) = x.value /\ LastKind(new, key) = x.value.kind
    /\ x.key # key => /\ Given(new, key) = Given(items, key)
                      /\ Given(items, key) # {} => LastValue(new, key) = LastValue(items, key)
                      /\ LastKind(new, key) = LastKind(items, key)

\* One more keyword in a task.
LEMMA AppendItem ==
    ASSUME NEW items \in Seq(Item), NEW x \in Item
    PROVE  /\ Append(items, x) \in Seq(Item)
           /\ DOMAIN Append(items, x) = 1..(Len(items) + 1) /\ DOMAIN items = 1..Len(items)
           /\ Append(items, x)[Len(items) + 1] = x
           /\ \A i \in 1..Len(items) : Append(items, x)[i] = items[i]
           /\ Len(items) \in Nat
OBVIOUS

\* The last value of its key is the new one, of other keys the old one.
LEMMA LastsAppend ==
    ASSUME NEW items \in Seq(Item), NEW x \in Item, NEW key
    PROVE  LastsAfter(Append(items, x), items, x, key)
<1> DEFINE new == Append(items, x)
           n == Len(items)
<1>1. /\ n \in Nat /\ DOMAIN new = 1..(n + 1) /\ DOMAIN items = 1..n /\ new[n + 1] = x
      /\ \A i \in 1..n : new[i] = items[i]
  BY AppendItem
<1>2. Given(items, key) \in SUBSET (1..n)
  BY GivenPlaces
<1> HIDE DEF new, n
<1>3. CASE x.key = key
  <2>1. Given(new, key) = Given(items, key) \cup {n + 1}
    BY <1>1, <1>3 DEF Given
  <2>2. Max(Given(new, key)) = n + 1
    BY <1>1, <1>2, <2>1, MaxOfLater
  <2>3. LastValue(new, key) = x.value
    BY <1>1, <2>2 DEF LastValue
  <2>4. LastKind(new, key) = x.value.kind /\ Given(new, key) # {}
    BY <2>1, <2>3 DEF LastKind
  <2> QED BY <1>3, <2>3, <2>4 DEF LastsAfter, new
<1>4. CASE x.key # key
  <2>1. Given(new, key) = Given(items, key)
    BY <1>1, <1>4 DEF Given
  <2>2. ASSUME Given(items, key) # {} PROVE LastValue(new, key) = LastValue(items, key)
    <3>1. Max(Given(items, key)) \in Given(items, key)
      BY <1>1, <1>2, <2>2, MaxOfPlaces
    <3>2. new[Max(Given(items, key))] = items[Max(Given(items, key))]
      BY <1>1, <1>2, <3>1
    <3> QED BY <2>1, <3>2 DEF LastValue
  <2>3. LastKind(new, key) = LastKind(items, key)
    BY <2>1, <2>2 DEF LastKind
  <2> QED BY <1>4, <2>1, <2>2, <2>3 DEF LastsAfter, new
<1> QED BY <1>3, <1>4

\* The places of a key are finitely many, with any property.
LEMMA FiniteGiven ==
    ASSUME NEW items \in Seq(Item), NEW key, NEW S \in SUBSET Given(items, key)
    PROVE  IsFiniteSet(S) /\ Cardinality(S) \in Nat
<1>1. Len(items) \in Nat /\ S \in SUBSET (1..Len(items))
  BY GivenPlaces
<1>2. IsFiniteSet(1..Len(items))
  BY <1>1, FS_Interval
<1>3. IsFiniteSet(S)
  BY <1>1, <1>2, FS_Subset
<1> QED BY <1>3, FS_CardinalityType

\* Conditions add up.
LEMMA ConditionsAppend ==
    ASSUME NEW items \in Seq(Item), NEW x \in Item
    PROVE  /\ Conditions(items) \in Nat
           /\ x.key # "when" => Conditions(Append(items, x)) = Conditions(items)
           /\ x.key = "when" => Conditions(Append(items, x)) =
                                  Conditions(items) + (IF x.value.kind = "list" THEN 2 ELSE 1)
<1> DEFINE new == Append(items, x)
           n == Len(items)
           A(s) == Given(s, "when")
           B(s) == {i \in A(s) : s[i].value.kind = "list"}
<1>1. /\ n \in Nat /\ DOMAIN new = 1..(n + 1) /\ DOMAIN items = 1..n /\ new[n + 1] = x
      /\ \A i \in 1..n : new[i] = items[i]
  BY AppendItem
<1>2. A(items) \in SUBSET (1..n) /\ B(items) \in SUBSET A(items)
  BY GivenPlaces
<1>3. \A s : Conditions(s) = Cardinality(A(s)) + Cardinality(B(s))
  BY DEF Conditions
<1>4. /\ IsFiniteSet(A(items)) /\ Cardinality(A(items)) \in Nat
      /\ IsFiniteSet(B(items)) /\ Cardinality(B(items)) \in Nat
  <2>1. A(items) \in SUBSET Given(items, "when") /\ B(items) \in SUBSET Given(items, "when")
    OBVIOUS
  <2> QED BY <2>1, FiniteGiven
<1>5. n + 1 \notin A(items) /\ n + 1 \notin B(items)
  BY <1>1, <1>2
<1> HIDE DEF new, n
<1>6. ASSUME x.key # "when" PROVE A(new) = A(items) /\ B(new) = B(items)
  <2>1. A(new) = A(items)
    BY <1>1, <1>6 DEF Given
  <2> QED BY <1>1, <1>2, <2>1
<1>7. ASSUME x.key = "when"
      PROVE  /\ A(new) = A(items) \cup {n + 1}
             /\ x.value.kind = "list" => B(new) = B(items) \cup {n + 1}
             /\ x.value.kind # "list" => B(new) = B(items)
  <2>1. A(new) = A(items) \cup {n + 1}
    BY <1>1, <1>7 DEF Given
  <2> QED BY <1>1, <1>2, <2>1
<1> HIDE DEF A, B
<1>8. /\ Cardinality(A(items) \cup {n + 1}) = Cardinality(A(items)) + 1
      /\ Cardinality(B(items) \cup {n + 1}) = Cardinality(B(items)) + 1
  BY <1>4, <1>5, FS_AddElement
<1>9. Conditions(items) \in Nat
  BY <1>3, <1>4
<1>10. x.key # "when" => Conditions(new) = Conditions(items)
  BY <1>3, <1>6
<1>11. ASSUME x.key = "when" PROVE Conditions(new) = Conditions(items) + (IF x.value.kind = "list" THEN 2 ELSE 1)
  <2>1. Cardinality(A(new)) = Cardinality(A(items)) + 1
    BY <1>7, <1>8, <1>11
  <2>2. /\ x.value.kind = "list" => Cardinality(B(new)) = Cardinality(B(items)) + 1
        /\ x.value.kind # "list" => Cardinality(B(new)) = Cardinality(B(items))
    BY <1>7, <1>8, <1>11
  <2> DEFINE a == Cardinality(A(items))
             b == Cardinality(B(items))
             c == Cardinality(A(new))
             d == Cardinality(B(new))
  <2>3. /\ a \in Nat /\ b \in Nat /\ c = a + 1
        /\ x.value.kind = "list" => d = b + 1
        /\ x.value.kind # "list" => d = b
    BY <1>4, <2>1, <2>2
  <2>4. Conditions(new) = c + d /\ Conditions(items) = a + b
    BY <1>3
  <2> HIDE DEF a, b, c, d
  <2> QED BY <2>3, <2>4
<1> QED BY <1>9, <1>10, <1>11 DEF new

\* The actions of a task are the modules it gives a value.
LEMMA ActionsGiven ==
    ASSUME NEW items, NEW k
    PROVE  k \in Actions(items) <=> k \in Modules /\ Given(items, k) # {}
BY DEF Actions, Given

\* Its key is one more action when a registry has it.
LEMMA ActionsAppend ==
    ASSUME NEW items \in Seq(Item), NEW x \in Item, IsFiniteSet(Actions(items))
    PROVE  IsFiniteSet(Actions(Append(items, x)))
<1> DEFINE new == Append(items, x)
           n == Len(items)
<1>1. /\ n \in Nat /\ DOMAIN new = 1..(n + 1) /\ DOMAIN items = 1..n /\ new[n + 1] = x
      /\ \A i \in 1..n : new[i] = items[i]
  BY AppendItem
<1> HIDE DEF new, n
<1>2. Actions(new) \in SUBSET (Actions(items) \cup {x.key})
  BY <1>1 DEF Actions
<1>3. IsFiniteSet(Actions(items) \cup {x.key})
  BY FS_AddElement
<1> QED BY <1>2, <1>3, FS_Subset DEF new

\* A map of keywords with one more entry.
Extended(m, kw, key, value) ==
    /\ m \in KeywordMap /\ DOMAIN m = DOMAIN kw \cup {key} /\ m[key] = value
    /\ \A k \in DOMAIN kw : k # key => m[k] = kw[k]

\* An assignment to a map of kept keywords.
LEMMA MapExtended ==
    ASSUME NEW kw \in KeywordMap, NEW key \in Keys, NEW value \in Value
    PROVE  Extended(Assigned(kw, key, value), kw, key, value)
<1>1. PICK D \in SUBSET Keys : kw \in [D -> Value]
  BY DEF KeywordMap
<1> DEFINE m == [k \in D \cup {key} |-> IF k = key THEN value ELSE kw[k]]
<1>2. Assigned(kw, key, value) = m
  BY <1>1 DEF Assigned
<1>3. m \in [D \cup {key} -> Value] /\ D \cup {key} \in SUBSET Keys
  BY <1>1
<1>4. m \in KeywordMap
  BY <1>3 DEF KeywordMap
<1> QED BY <1>1, <1>2, <1>4 DEF Extended

\* What parseTaskKeyword does to each field of the task.
FieldsAfter(u, t, key, value) ==
    /\ u \in Task /\ u.action = t.action
    /\ u.args = IF key = "args" THEN value.kind ELSE t.args
    /\ u.vars = IF key = "vars" THEN value.kind ELSE t.vars
    /\ u.loop = IF key = "loop" THEN value.kind ELSE t.loop
    /\ u.with = IF key = WithKeyword THEN value.kind ELSE t.with
    /\ key # "when" => u.when = t.when
    /\ key = "when" => u.when = t.when + (IF value.kind = "list" THEN 2 ELSE 1)
    /\ u.keywords = IF key \in Kept THEN Assigned(t.keywords, key, value) ELSE t.keywords

\* ParseTaskKeyword changes the field of its key and no other.
LEMMA Fields ==
    ASSUME NEW t \in Task, NEW key \in Keys, NEW value \in Value
    PROVE  FieldsAfter(ParseTaskKeyword(t, key, value), t, key, value)
<1> DEFINE u == ParseTaskKeyword(t, key, value)
<1>1. value.kind \in TaskKinds
  BY DEF Value, TaskKinds
<1>2. CASE key = "name"
  <2>1. u = [t EXCEPT !.name = TRUE]
    BY <1>2 DEF ParseTaskKeyword, WithKeyword
  <2> HIDE DEF u
  <2> QED BY <1>2, <2>1 DEF FieldsAfter, Task, Kept, WithKeyword, u
<1>3. CASE key = "args"
  <2>1. u = [t EXCEPT !.args = value.kind]
    BY <1>3 DEF ParseTaskKeyword, WithKeyword
  <2> HIDE DEF u
  <2> QED BY <1>1, <1>3, <2>1 DEF FieldsAfter, Task, Kept, WithKeyword, u
<1>4. CASE key = "vars"
  <2>1. u = [t EXCEPT !.vars = value.kind]
    BY <1>4 DEF ParseTaskKeyword, WithKeyword
  <2> HIDE DEF u
  <2> QED BY <1>1, <1>4, <2>1 DEF FieldsAfter, Task, Kept, WithKeyword, u
<1>5. CASE key = "loop"
  <2>1. u = [t EXCEPT !.loop = value.kind]
    BY <1>5 DEF ParseTaskKeyword, WithKeyword
  <2> HIDE DEF u
  <2> QED BY <1>1, <1>5, <2>1 DEF FieldsAfter, Task, Kept, WithKeyword, u
<1>6. CASE key = WithKeyword
  <2>1. u = [t EXCEPT !.with = value.kind]
    BY <1>6 DEF ParseTaskKeyword, WithKeyword
  <2> HIDE DEF u
  <2> QED BY <1>1, <1>6, <2>1 DEF FieldsAfter, Task, Kept, WithKeyword, u
<1>7. CASE key = "when"
  <2>1. u = [t EXCEPT !.when = t.when + (IF value.kind = "list" THEN 2 ELSE 1)]
    BY <1>7 DEF ParseTaskKeyword, WithKeyword
  <2> DEFINE w == t.when + (IF value.kind = "list" THEN 2 ELSE 1)
  <2>2. w \in Nat
    <3>1. t.when \in Nat
      BY DEF Task
    <3>2. t.when + 1 \in Nat /\ t.when + 2 \in Nat
      BY <3>1
    <3> QED BY <3>2
  <2> HIDE DEF u, w
  <2>3. u = [t EXCEPT !.when = w]
    BY <2>1 DEF w
  <2>4. u \in Task /\ u.when = w
    BY <2>2, <2>3 DEF Task
  <2>5. /\ u.action = t.action /\ u.args = t.args /\ u.vars = t.vars /\ u.loop = t.loop
        /\ u.with = t.with /\ u.keywords = t.keywords
    BY <2>3 DEF Task
  <2>6. "when" \notin Kept
    BY DEF Kept
  <2> QED BY <1>7, <2>4, <2>5, <2>6 DEF FieldsAfter, WithKeyword, u, w
<1>8. CASE key \in Kept
  <2>1. key \notin {"name", "args", "vars", "loop", WithKeyword, "when"}
    BY <1>8 DEF Kept
  <2> DEFINE kw == Assigned(t.keywords, key, value)
  <2>2. kw \in KeywordMap
    <3>1. t.keywords \in KeywordMap
      BY DEF Task
    <3>2. Extended(kw, t.keywords, key, value)
      BY <3>1, MapExtended
    <3> QED BY <3>2 DEF Extended
  <2>3. u = [t EXCEPT !.keywords = kw]
    BY <2>1 DEF ParseTaskKeyword
  <2> HIDE DEF u, kw
  <2>4. u \in Task /\ u.keywords = kw
    BY <2>2, <2>3 DEF Task
  <2>5. /\ u.action = t.action /\ u.args = t.args /\ u.vars = t.vars /\ u.loop = t.loop
        /\ u.with = t.with /\ u.when = t.when
    BY <2>3 DEF Task
  <2> QED BY <1>8, <2>1, <2>4, <2>5 DEF FieldsAfter, u, kw
<1> QED BY <1>2, <1>3, <1>4, <1>5, <1>6, <1>7, <1>8 DEF Kept

\* parseTaskKeyword keeps the task what its keywords say.
LEMMA KeywordRead ==
    ASSUME NEW t \in Task, NEW items \in Seq(Item), TaskOf(t, items), NEW x \in Item,
           Accepts(x.key, x.value), x.value.text # NoText => x.key \in Modules
    PROVE  TaskOf(ParseTaskKeyword(t, x.key, x.value), Append(items, x))
<1> DEFINE u == ParseTaskKeyword(t, x.key, x.value)
           new == Append(items, x)
           n == Len(items)
<1>1. /\ n \in Nat /\ DOMAIN new = 1..(n + 1) /\ DOMAIN items = 1..n /\ new[n + 1] = x
      /\ \A i \in 1..n : new[i] = items[i]
  BY AppendItem
<1>2. x.key \in Keys /\ x.value \in Value
  BY DEF Item
<1>3. FieldsAfter(u, t, x.key, x.value)
  BY <1>2, Fields
<1>4. \A key : LastsAfter(new, items, x, key)
  BY LastsAppend
<1>5. /\ x.key # "when" => Conditions(new) = Conditions(items)
      /\ x.key = "when" => Conditions(new) = Conditions(items) + (IF x.value.kind = "list" THEN 2 ELSE 1)
  BY ConditionsAppend
<1>6. IsFiniteSet(Actions(new))
  BY ActionsAppend DEF TaskOf
<1> HIDE DEF u, new, n
<1>7. AllAccepted(new) /\ TextsOfActions(new)
  <2>1. \A i \in 1..(n + 1) : i = n + 1 \/ i \in 1..n
    BY <1>1
  <2> QED BY <1>1, <2>1 DEF TaskOf, AllAccepted, TextsOfActions
<1>8. KindsKept(u, new)
  <2>1. KindsKept(t, items)
    BY DEF TaskOf
  <2> QED BY <1>3, <1>4, <2>1 DEF FieldsAfter, LastsAfter, KindsKept
<1>9. u.when = Conditions(new)
  <2>1. t.when = Conditions(items)
    BY DEF TaskOf
  <2> QED BY <1>3, <1>5, <2>1 DEF FieldsAfter
<1>10. ValuesKept(u.keywords, new)
  <2>1. ValuesKept(t.keywords, items)
    BY DEF TaskOf
  <2>2. t.keywords \in KeywordMap
    BY DEF Task
  <2>3. CASE x.key \in Kept
    <3> DEFINE kw == Assigned(t.keywords, x.key, x.value)
    <3>1. u.keywords = kw
      BY <1>3, <2>3 DEF FieldsAfter
    <3>2. /\ DOMAIN kw = DOMAIN t.keywords \cup {x.key} /\ kw[x.key] = x.value
          /\ \A k \in DOMAIN t.keywords : k # x.key => kw[k] = t.keywords[k]
      <4>1. Extended(kw, t.keywords, x.key, x.value)
        BY <1>2, <2>2, MapExtended
      <4> QED BY <4>1 DEF Extended
    <3> HIDE DEF kw
    <3>3. DOMAIN kw = {k \in Kept : Given(new, k) # {}}
      BY <1>4, <2>1, <2>3, <3>2 DEF LastsAfter, ValuesKept
    <3>4. ASSUME NEW k \in DOMAIN kw PROVE kw[k] = LastValue(new, k)
      BY <1>4, <2>1, <3>2, <3>4 DEF LastsAfter, ValuesKept
    <3> QED BY <3>1, <3>3, <3>4 DEF ValuesKept
  <2>4. CASE x.key \notin Kept
    <3>1. u.keywords = t.keywords
      BY <1>3, <2>4 DEF FieldsAfter
    <3>2. \A k \in Kept : k # x.key
      BY <2>4
    <3> QED BY <1>4, <2>1, <3>1, <3>2 DEF LastsAfter, ValuesKept
  <2> QED BY <2>3, <2>4
<1> QED BY <1>6, <1>7, <1>8, <1>9, <1>10 DEF TaskOf, u, new

\* A sequence with another element at one place, or with one more.
Replaced(r, s, i, x, S) ==
    /\ r \in Seq(S) /\ Len(s) \in Nat /\ Len(r) = Len(s)
    /\ DOMAIN r = 1..Len(s) /\ DOMAIN s = 1..Len(s) /\ r[i] = x
    /\ \A j \in 1..Len(s) : j # i => r[j] = s[j]

Appended(r, s, x, S) ==
    /\ r \in Seq(S) /\ Len(s) \in Nat /\ Len(r) = Len(s) + 1
    /\ DOMAIN r = 1..(Len(s) + 1) /\ DOMAIN s = 1..Len(s) /\ r[Len(s) + 1] = x
    /\ \A j \in 1..Len(s) : r[j] = s[j]

\* A sequence with one place changed.
LEMMA Replace ==
    ASSUME NEW S, NEW s \in Seq(S), NEW i \in 1..Len(s), NEW x \in S
    PROVE  Replaced([s EXCEPT ![i] = x], s, i, x, S)
BY DEF Replaced

\* A sequence with one place added.
LEMMA Extend ==
    ASSUME NEW S, NEW s \in Seq(S), NEW x \in S
    PROVE  Appended(Append(s, x), s, x, S)
BY DEF Appended

\* The text of the action read last goes on: nothing else of the task changes.
LEMMA TextGrown ==
    ASSUME NEW t \in Task, NEW items \in Seq(Item), TaskOf(t, items), NEW l, l = Len(items), items # <<>>,
           items[l].value.text # NoText, NEW longer \in Longer(items[l].value.text),
           NEW x, x = [items[l] EXCEPT !.value.text = longer],
           NEW u, u = [t EXCEPT !.keywords[items[l].key].text = longer]
    PROVE  /\ x \in Item /\ u \in Task /\ u.action = t.action
           /\ TaskOf(u, [items EXCEPT ![l] = x])
<1> DEFINE old == items[l]
           key == old.key
           value == [old.value EXCEPT !.text = longer]
           new == [items EXCEPT ![l] = x]
<1>1. l \in 1..Len(items) /\ Len(items) \in Nat /\ DOMAIN items = 1..Len(items)
  OBVIOUS
<1>2. old \in Item /\ key \in Keys /\ old.value \in Value /\ old.value.text \in Seq(Seq(Tokens))
  <2>1. old \in Item
    BY <1>1
  <2> HIDE DEF old
  <2>2. key \in Keys /\ old.value \in Value
    BY <2>1 DEF Item
  <2> QED BY <2>1, <2>2 DEF Value
<1>3. longer \in Seq(Seq(Tokens))
  BY <1>2, LongerTyped
<1>4. key \in Modules
  BY <1>1 DEF TaskOf, TextsOfActions
<1>5. key \in Kept
  <2>1. key \notin TaskKeywords \cup {WithKeyword}
    BY <1>4, ModulesAssumption
  <2> QED BY <1>2, <2>1 DEF Kept, TaskKeywords
<1> HIDE DEF old, key
<1>6. value \in Value /\ value.kind = old.value.kind
  BY <1>2, <1>3 DEF Value
<1>7. x = [old EXCEPT !.value = value]
  BY DEF old
<1> HIDE DEF value
<1>8. x \in Item /\ x.key = key /\ x.value = value
  BY <1>2, <1>6, <1>7 DEF Item, key
<1>9. Replaced(new, items, l, x, Item)
  BY <1>1, <1>8, Replace
<1>10. /\ DOMAIN new = 1..Len(items) /\ new[l] = x
       /\ \A j \in 1..Len(items) : j # l => new[j] = items[j]
  BY <1>9 DEF Replaced
<1> HIDE DEF new
<1>11. \A j \in 1..Len(items) : new[j].key = items[j].key /\ new[j].value.kind = items[j].value.kind
  BY <1>6, <1>8, <1>10 DEF old, key
<1>12. ASSUME NEW k
       PROVE  /\ Given(new, k) = Given(items, k) /\ LastKind(new, k) = LastKind(items, k)
              /\ k # key /\ Given(items, k) # {} => LastValue(new, k) = LastValue(items, k)
              /\ k = key => Given(items, k) # {} /\ LastValue(new, k) = value /\ LastValue(items, k) = old.value
  <2>1. Given(new, k) = Given(items, k)
    BY <1>1, <1>10, <1>11 DEF Given
  <2>2. Given(items, k) \in SUBSET (1..Len(items))
    BY GivenPlaces
  <2> DEFINE g == Given(items, k)
             m == Max(g)
  <2>3. g # {} => m \in g /\ \A i \in g : i <= m
    BY <1>1, <2>2, MaxOfPlaces
  <2>4. k = key => l \in g
    BY <1>1 DEF Given, key, old
  <2>5. ASSUME k = key PROVE m = l
    <3>1. m \in g /\ l <= m
      BY <2>3, <2>4, <2>5
    <3> HIDE DEF g, m
    <3>2. m \in 1..Len(items)
      BY <2>2, <3>1 DEF g
    <3> QED BY <1>1, <3>1, <3>2
  <2>6. k # key /\ g # {} => m # l /\ m \in 1..Len(items)
    <3>1. m \in g => items[m].key = k
      BY DEF Given
    <3> HIDE DEF m
    <3> QED BY <2>2, <2>3, <3>1 DEF key, old
  <2>7. LastValue(new, k) = new[m].value /\ LastValue(items, k) = items[m].value
    BY <2>1 DEF LastValue
  <2>8. /\ k # key /\ g # {} => LastValue(new, k) = LastValue(items, k)
        /\ k = key => g # {} /\ LastValue(new, k) = value /\ LastValue(items, k) = old.value
    <3> HIDE DEF m, g
    <3>1. ASSUME k # key, g # {} PROVE LastValue(new, k) = LastValue(items, k)
      BY <1>10, <2>6, <2>7, <3>1
    <3>2. ASSUME k = key PROVE g # {} /\ LastValue(new, k) = value /\ LastValue(items, k) = old.value
      BY <1>8, <1>10, <2>4, <2>5, <2>7, <3>2 DEF old
    <3> QED BY <3>1, <3>2
  <2>9. LastKind(new, k) = LastKind(items, k)
    <3> HIDE DEF m
    <3> QED BY <1>6, <2>1, <2>8 DEF LastKind
  <2> QED BY <2>1, <2>8, <2>9
<1>13. t.keywords[key] = old.value /\ key \in DOMAIN t.keywords /\ t.keywords \in KeywordMap
  <2>1. ValuesKept(t.keywords, items)
    BY DEF TaskOf
  <2>2. Given(items, key) # {} /\ LastValue(items, key) = old.value
    BY <1>12
  <2> QED BY <1>5, <2>1, <2>2 DEF ValuesKept, Task
<1> DEFINE kw == [t.keywords EXCEPT ![key] = value]
<1>14. u = [t EXCEPT !.keywords = kw]
  <2>1. u = [t EXCEPT !.keywords = [t.keywords EXCEPT ![key] = [t.keywords[key] EXCEPT !.text = longer]]]
    BY DEF key, old
  <2> QED BY <1>13, <2>1 DEF value
<1>15. kw \in KeywordMap /\ DOMAIN kw = DOMAIN t.keywords /\ kw[key] = value /\ \A k \in DOMAIN t.keywords : k # key => kw[k] = t.keywords[k]
  <2>1. PICK D \in SUBSET Keys : t.keywords \in [D -> Value]
    BY <1>13 DEF KeywordMap
  <2>2. kw \in [D -> Value]
    BY <1>6, <2>1
  <2>3. kw \in KeywordMap
    BY <2>1, <2>2 DEF KeywordMap
  <2> QED BY <1>13, <2>1, <2>3
<1> HIDE DEF kw
<1>16. /\ u \in Task /\ u.action = t.action /\ u.keywords = kw /\ u.args = t.args /\ u.vars = t.vars
       /\ u.loop = t.loop /\ u.with = t.with /\ u.when = t.when
  BY <1>14, <1>15 DEF Task
<1>17. AllAccepted(new) /\ TextsOfActions(new)
  <2>1. ASSUME NEW j \in 1..Len(items) PROVE Accepts(new[j].key, new[j].value)
    <3>1. Accepts(items[j].key, items[j].value)
      BY <1>1 DEF TaskOf, AllAccepted
    <3> QED BY <1>11, <3>1 DEF Accepts
  <2>2. ASSUME NEW j \in 1..Len(items), new[j].value.text # NoText PROVE new[j].key \in Modules
    BY <1>1, <1>4, <1>8, <1>10, <2>2 DEF TaskOf, TextsOfActions
  <2> QED BY <1>10, <2>1, <2>2 DEF AllAccepted, TextsOfActions
<1>18. KindsKept(u, new)
  BY <1>12, <1>16 DEF TaskOf, KindsKept
<1>19. Conditions(new) = Conditions(items)
  <2>1. Given(new, "when") = Given(items, "when") /\ Given(items, "when") \in SUBSET (1..Len(items))
    BY <1>12, GivenPlaces
  <2>2. {i \in Given(new, "when") : new[i].value.kind = "list"} = {i \in Given(items, "when") : items[i].value.kind = "list"}
    BY <1>11, <2>1
  <2> QED BY <2>1, <2>2 DEF Conditions
<1>20. Actions(new) = Actions(items)
  BY <1>1, <1>10, <1>11 DEF Actions
<1>21. ValuesKept(kw, new)
  <2>1. ValuesKept(t.keywords, items)
    BY DEF TaskOf
  <2>2. DOMAIN kw = {k \in Kept : Given(new, k) # {}}
    BY <1>12, <1>15, <2>1 DEF ValuesKept
  <2>3. ASSUME NEW k \in DOMAIN kw PROVE kw[k] = LastValue(new, k)
    BY <1>12, <1>15, <2>1, <2>3 DEF ValuesKept
  <2> QED BY <2>2, <2>3 DEF ValuesKept
<1> QED BY <1>8, <1>16, <1>17, <1>18, <1>19, <1>20, <1>21 DEF TaskOf, new

-----------------------------------------------------------------------------
(* The resolution of the action.                                            *)

\* Before the range over the candidates comes to its action a task has none; then it
\* has just this one, with its arguments.
Resolved(t, items, left) ==
    /\ left \subseteq DOMAIN t.keywords
    /\ t.action = "" => Actions(items) \subseteq left
    /\ t.action # "" =>
         /\ Actions(items) \ left = {t.action}
         /\ ~NormalizeFails(LastKind(items, "args"), LastValue(items, t.action))
         /\ ~NormalizePanics(LastKind(items, "args"), LastValue(items, t.action))
         /\ t.final = NormalizeParameters(t.action, LastKind(items, "args"), LastValue(items, t.action))

\* What the filter of ResolveModuleArgs leaves has every action in it.
LEMMA ResolutionStarts ==
    ASSUME NEW t \in Task, NEW items, TaskOf(t, items), t.action = ""
    PROVE  Resolved(t, items, DOMAIN t.keywords \ (TaskKeywords \cup {WithKeyword}))
<1>1. ASSUME NEW k \in Actions(items) PROVE k \in DOMAIN t.keywords \ (TaskKeywords \cup {WithKeyword})
  <2>1. k \in Modules /\ Given(items, k) # {}
    BY ActionsGiven
  <2>2. k \notin TaskKeywords \cup {WithKeyword}
    BY <2>1, ModulesAssumption
  <2>3. k \in Kept
    BY <2>1, <2>2 DEF Kept, Keys, TaskKeywords
  <2> QED BY <2>1, <2>2, <2>3 DEF TaskOf, ValuesKept
<1> QED BY <1>1 DEF Resolved

\* A candidate is an action when the registry knows it.
LEMMA CandidateValue ==
    ASSUME NEW t \in Task, NEW items, TaskOf(t, items), NEW left, Resolved(t, items, left), NEW k \in left
    PROVE  /\ t.keywords[k] = LastValue(items, k) /\ t.args = LastKind(items, "args")
           /\ k \in Modules => k \in Actions(items)
<1>1. k \in DOMAIN t.keywords /\ ValuesKept(t.keywords, items) /\ KindsKept(t, items)
  BY DEF TaskOf, Resolved
<1>2. Given(items, k) # {} /\ t.keywords[k] = LastValue(items, k)
  BY <1>1 DEF ValuesKept
<1> QED BY <1>1, <1>2, ActionsGiven DEF KindsKept

\* A second action is refused, and so is one whose arguments cannot be read: rightly.
LEMMA CandidateRefused ==
    ASSUME NEW t \in Task, NEW items, TaskOf(t, items), NEW left, Resolved(t, items, left), NEW k \in left,
           k \in Modules,
           t.action # "" \/ NormalizeFails(t.args, t.keywords[k]) \/ NormalizePanics(t.args, t.keywords[k])
    PROVE  ~WellFormed(items)
<1>1. k \in Actions(items) /\ t.keywords[k] = LastValue(items, k) /\ t.args = LastKind(items, "args")
  BY CandidateValue
<1>2. CASE t.action # ""
  <2>1. t.action \in Actions(items) /\ t.action # k
    BY <1>2 DEF Resolved
  <2>2. IsFiniteSet(Actions(items))
    BY DEF TaskOf
  <2>3. ~\E x : Actions(items) = {x}
    <3> SUFFICES ASSUME NEW x, Actions(items) = {x} PROVE FALSE
      OBVIOUS
    <3>1. t.action = x /\ k = x
      BY <1>1, <2>1
    <3> QED BY <2>1, <3>1
  <2>4. Cardinality(Actions(items)) # 1
    BY <2>2, <2>3, FS_Singleton
  <2> QED BY <2>4 DEF WellFormed
<1>3. CASE NormalizeFails(t.args, t.keywords[k]) \/ NormalizePanics(t.args, t.keywords[k])
  BY <1>1, <1>3 DEF WellFormed
<1> QED BY <1>2, <1>3

\* A candidate that is no action is passed over.
LEMMA CandidateSkipped ==
    ASSUME NEW t, NEW items, NEW left, Resolved(t, items, left), NEW k, k \notin Modules
    PROVE  Resolved(t, items, left \ {k})
<1>1. k \notin Actions(items)
  BY DEF Actions
<1> QED BY <1>1 DEF Resolved

\* The first action is the task's.
LEMMA CandidateTaken ==
    ASSUME NEW t \in Task, NEW items, TaskOf(t, items), NEW left, Resolved(t, items, left), NEW k \in left,
           k \in Modules, t.action = "",
           ~NormalizeFails(t.args, t.keywords[k]), ~NormalizePanics(t.args, t.keywords[k]),
           NEW u, u = [t EXCEPT !.action = k, !.final = NormalizeParameters(k, t.args, t.keywords[k])]
    PROVE  u \in Task /\ TaskOf(u, items) /\ Resolved(u, items, left \ {k})
<1> DEFINE arguments == NormalizeParameters(k, t.args, t.keywords[k])
<1>1. k \in Actions(items) /\ t.keywords[k] = LastValue(items, k) /\ t.args = LastKind(items, "args")
  BY CandidateValue
<1>2. arguments \in Arguments
  <2>1. t.args \in TaskKinds /\ t.keywords \in KeywordMap
    BY DEF Task
  <2>2. t.keywords[k] \in Value
    BY <2>1 DEF Resolved, KeywordMap
  <2> DEFINE n == [action |-> k, args |-> t.args, value |-> t.keywords[k]]
  <2>3. n \in Normalizations /\ n.action = k /\ n.args = t.args /\ n.value = t.keywords[k]
    BY <2>1, <2>2 DEF Normalizations
  <2>4. arguments = NormalizeParameters(n.action, n.args, n.value)
    BY <2>3
  <2> HIDE DEF arguments, n
  <2> QED BY <2>3, <2>4 DEF Arguments
<1>3. k # ""
  BY ModulesAssumption
<1>4. u = [t EXCEPT !.action = k, !.final = arguments]
  OBVIOUS
<1> HIDE DEF arguments
<1>5. /\ u \in Task /\ u.action = k /\ u.final = arguments /\ u.keywords = t.keywords /\ u.args = t.args
      /\ u.vars = t.vars /\ u.loop = t.loop /\ u.with = t.with /\ u.when = t.when
  BY <1>2, <1>4 DEF Task
<1>6. TaskOf(u, items)
  BY <1>5 DEF TaskOf, KindsKept
<1>7. Actions(items) \ (left \ {k}) = {k} /\ left \ {k} \subseteq DOMAIN u.keywords
  BY <1>1, <1>5 DEF Resolved
<1>8. arguments = NormalizeParameters(k, LastKind(items, "args"), LastValue(items, k))
  BY <1>1 DEF arguments
<1>9. /\ ~NormalizeFails(LastKind(items, "args"), LastValue(items, k))
      /\ ~NormalizePanics(LastKind(items, "args"), LastValue(items, k))
  BY <1>1
<1>10. Resolved(u, items, left \ {k})
  BY <1>3, <1>5, <1>7, <1>8, <1>9 DEF Resolved
<1> QED BY <1>5, <1>6, <1>10

\* normalizeParameters gives every argument its meaning; a text with an error has none.
LEMMA ArgumentsNormalized ==
    ASSUME NEW a, NEW given, NEW value
    PROVE  ArgumentsMean(NormalizeParameters(a, given, value), OwnArguments(a, value), given)
<1> DEFINE own == OwnArguments(a, value)
           final == NormalizeParameters(a, given, value)
<1>1. SplitArgs(value.text).err => ParseKeyValuePairsString(value.text, a \in Freeform) = <<>>
  BY DEF ParseKeyValuePairsString, KeyValuePairs
<1>2. own = NormalizeNewStyleArgs(a, value)
  BY <1>1 DEF OwnArguments, NormalizeNewStyleArgs
<1>3. final = Merged(own, GivenArgs(given))
  BY <1>2 DEF NormalizeParameters
<1> HIDE DEF own, final
<1>4. /\ DOMAIN own \subseteq DOMAIN final
      /\ \A k \in DOMAIN own : final[k] = [from |-> "action", value |-> own[k]]
      /\ \A k \in DOMAIN final \ DOMAIN own : final[k].from = "args"
      /\ DOMAIN final \ DOMAIN own = DOMAIN GivenArgs(given) \ DOMAIN own
  BY <1>3 DEF Merged
<1> QED BY <1>4 DEF ArgumentsMean, own, final

\* After the last candidate a task has its action, or had none.
LEMMA ResolutionEnds ==
    ASSUME NEW t \in Task, NEW items, TaskOf(t, items), Resolved(t, items, {})
    PROVE  /\ t.action = "" => ~WellFormed(items)
           /\ t.action # "" => WellFormed(items) /\ Means(t, items)
<1>1. CASE t.action = ""
  <2>1. Actions(items) = {}
    BY <1>1 DEF Resolved
  <2>2. Cardinality(Actions(items)) = 0
    BY <2>1, FS_EmptySet
  <2>3. Cardinality(Actions(items)) # 1
    BY <2>2
  <2> QED BY <1>1, <2>3 DEF WellFormed
<1>2. CASE t.action # ""
  <2>1. Actions(items) = {t.action}
    BY <1>2 DEF Resolved
  <2>2. Cardinality(Actions(items)) = 1
    BY <2>1, FS_Singleton
  <2>3. WellFormed(items)
    BY <1>2, <2>1, <2>2 DEF WellFormed, Resolved, TaskOf, AllAccepted
  <2>4. ArgumentsMean(t.final, OwnArguments(t.action, LastValue(items, t.action)), LastKind(items, "args"))
    BY <1>2, ArgumentsNormalized DEF Resolved
  <2>5. Means(t, items)
    BY <1>2, <2>1, <2>4 DEF Means, Resolved, TaskOf, KindsKept
  <2> QED BY <1>2, <2>3, <2>5
<1> QED BY <1>1, <1>2

-----------------------------------------------------------------------------
(* The plays of the file and the plays parsed.                              *)

\* The plays of the file and the plays parsed.
RawPlay == [strategy : {"", "linear", "free", "bogus"}, vars : {"map", "keys", "null"},
            tasks : Seq(Seq(Item)), closed : BOOLEAN]
ParsedPlay == [strategy : {"", "linear", "free"}, tasks : Seq(Task)]

\* PlayWellFormed, with the setting of the default strategy as a parameter.
PlayAccepted(r, default) ==
    /\ r.vars = "map"
    /\ (IF r.strategy = "" THEN default ELSE r.strategy) \in {"linear", "free"}
    /\ \A i \in DOMAIN r.tasks : WellFormed(r.tasks[i])

\* The first n tasks of a play are well formed and mean what was parsed.
TasksFaithful(p, r, n) ==
    /\ Len(p.tasks) = n
    /\ \A j \in 1..n : WellFormed(r.tasks[j]) /\ Means(p.tasks[j], r.tasks[j])

\* A play that was read to its end, and one of which n tasks are parsed.
PlayDone(p, r, default) ==
    /\ r.closed /\ PlayAccepted(r, default) /\ TasksFaithful(p, r, Len(r.tasks))

\* A play that is read, of which n tasks are parsed.
PlayOpen(p, r, h, n) ==
    /\ ~r.closed /\ h.strategy = r.strategy /\ h.vars = r.vars
    /\ TasksFaithful(p, r, n)

\* A play with a change of its last task only.
LEMMA LastTaskChanged ==
    ASSUME NEW r \in RawPlay, NEW m, m = Len(r.tasks), NEW k \in Nat, k + 1 = m,
           NEW items \in Seq(Item), NEW p, NEW h, PlayOpen(p, r, h, k),
           NEW q, q = [r EXCEPT !.tasks = [r.tasks EXCEPT ![m] = items]]
    PROVE  /\ q \in RawPlay /\ Len(q.tasks) = m /\ m \in DOMAIN q.tasks /\ q.tasks[m] = items
           /\ PlayOpen(p, q, h, k)
<1> DEFINE tasks == [r.tasks EXCEPT ![m] = items]
<1>0. r.tasks \in Seq(Seq(Item))
  BY DEF RawPlay
<1>1. r.tasks \in Seq(Seq(Item)) /\ m \in 1..Len(r.tasks) /\ m \in Nat
  <2>1. k + 1 \in Nat /\ k + 1 \in 1..(k + 1)
    OBVIOUS
  <2> QED BY <1>0, <2>1
<1>2. Replaced(tasks, r.tasks, m, items, Seq(Item))
  BY <1>1, Replace
<1> HIDE DEF tasks
<1>3. /\ tasks \in Seq(Seq(Item)) /\ Len(tasks) = m /\ DOMAIN tasks = 1..m /\ tasks[m] = items
      /\ \A j \in 1..m : j # m => tasks[j] = r.tasks[j]
  BY <1>2 DEF Replaced
<1>4. q = [r EXCEPT !.tasks = tasks]
  BY DEF tasks
<1>5. /\ q \in RawPlay /\ q.tasks = tasks /\ q.strategy = r.strategy /\ q.vars = r.vars
      /\ q.closed = r.closed
  BY <1>3, <1>4 DEF RawPlay
<1>6. \A j \in 1..k : tasks[j] = r.tasks[j]
  <2>1. \A j \in 1..k : j \in 1..m /\ j # m
    BY <1>1
  <2> QED BY <1>3, <2>1
<1>7. PlayOpen(p, q, h, k)
  BY <1>5, <1>6 DEF PlayOpen, TasksFaithful
<1>8. m \in 1..m
  BY <1>1
<1> QED BY <1>3, <1>5, <1>7, <1>8

\* A play with one more task, of which nothing was read yet.
LEMMA TaskAdded ==
    ASSUME NEW r \in RawPlay, NEW k, k = Len(r.tasks), NEW p, NEW h, PlayOpen(p, r, h, k),
           NEW q, q = [r EXCEPT !.tasks = Append(r.tasks, <<>>)]
    PROVE  /\ q \in RawPlay /\ k \in Nat /\ Len(q.tasks) = k + 1 /\ q.tasks[k + 1] = <<>>
           /\ PlayOpen(p, q, h, k)
<1> DEFINE tasks == Append(r.tasks, <<>>)
<1>0. r.tasks \in Seq(Seq(Item))
  BY DEF RawPlay
<1>1. r.tasks \in Seq(Seq(Item)) /\ <<>> \in Seq(Item)
  BY <1>0
<1>2. Appended(tasks, r.tasks, <<>>, Seq(Item))
  BY <1>1, Extend
<1> HIDE DEF tasks
<1>3. /\ tasks \in Seq(Seq(Item)) /\ k \in Nat /\ Len(tasks) = k + 1 /\ tasks[k + 1] = <<>>
      /\ \A j \in 1..k : tasks[j] = r.tasks[j]
  BY <1>2 DEF Appended
<1>4. q = [r EXCEPT !.tasks = tasks]
  BY DEF tasks
<1>5. /\ q \in RawPlay /\ q.tasks = tasks /\ q.strategy = r.strategy /\ q.vars = r.vars
      /\ q.closed = r.closed
  BY <1>3, <1>4 DEF RawPlay
<1>6. PlayOpen(p, q, h, k)
  BY <1>3, <1>5 DEF PlayOpen, TasksFaithful
<1> QED BY <1>3, <1>5, <1>6

\* The task that was read last is parsed.
LEMMA TaskParsed ==
    ASSUME NEW r \in RawPlay, NEW m, m = Len(r.tasks), NEW k \in Nat, k + 1 = m,
           NEW p \in ParsedPlay, NEW h, PlayOpen(p, r, h, k),
           NEW t \in Task, WellFormed(r.tasks[m]), Means(t, r.tasks[m]),
           NEW q, q = [p EXCEPT !.tasks = Append(p.tasks, t)]
    PROVE  q \in ParsedPlay /\ PlayOpen(q, r, h, m)
<1> DEFINE tasks == Append(p.tasks, t)
<1>1. p.tasks \in Seq(Task) /\ Len(p.tasks) = k
  BY DEF ParsedPlay, PlayOpen, TasksFaithful
<1>2. Appended(tasks, p.tasks, t, Task)
  BY <1>1, Extend
<1> HIDE DEF tasks
<1>3. /\ tasks \in Seq(Task) /\ Len(tasks) = m /\ tasks[m] = t
      /\ \A j \in 1..k : tasks[j] = p.tasks[j]
  BY <1>1, <1>2 DEF Appended
<1>4. q = [p EXCEPT !.tasks = tasks]
  BY DEF tasks
<1>5. q \in ParsedPlay /\ q.tasks = tasks
  BY <1>3, <1>4 DEF ParsedPlay
<1>6. \A j \in 1..m : j = m \/ j \in 1..k
  OBVIOUS
<1>7. TasksFaithful(q, r, m)
  BY <1>3, <1>5, <1>6 DEF PlayOpen, TasksFaithful
<1> QED BY <1>5, <1>7 DEF PlayOpen

\* A play at its end: closed and either done or not well formed.
ClosedAs(q, o, h, strategy, default) ==
    /\ q \in RawPlay
    /\ h.vars # "map" \/ strategy \notin {"linear", "free"} => ~PlayAccepted(q, default)
    /\ h.vars = "map" /\ strategy \in {"linear", "free"} => o \in ParsedPlay /\ PlayDone(o, q, default)

\* What closing it leaves is that.
LEMMA PlayClosed ==
    ASSUME NEW r \in RawPlay, NEW p \in ParsedPlay, NEW h, PlayOpen(p, r, h, Len(r.tasks)),
           NEW default, NEW strategy, strategy = IF h.strategy = "" THEN default ELSE h.strategy,
           NEW q, q = [r EXCEPT !.closed = TRUE], NEW o, o = [p EXCEPT !.strategy = strategy]
    PROVE  ClosedAs(q, o, h, strategy, default)
<1>1. /\ q \in RawPlay /\ q.closed /\ q.tasks = r.tasks /\ q.strategy = r.strategy /\ q.vars = r.vars
  BY DEF RawPlay
<1>2. h.strategy = r.strategy /\ h.vars = r.vars /\ TasksFaithful(p, r, Len(r.tasks))
  BY DEF PlayOpen
<1>3. h.vars # "map" \/ strategy \notin {"linear", "free"} => ~PlayAccepted(q, default)
  BY <1>1, <1>2 DEF PlayAccepted
<1>4. ASSUME h.vars = "map", strategy \in {"linear", "free"} PROVE o \in ParsedPlay /\ PlayDone(o, q, default)
  <2>1. o \in ParsedPlay /\ o.tasks = p.tasks
    BY <1>4 DEF ParsedPlay
  <2>2. TasksFaithful(o, q, Len(q.tasks))
    BY <1>1, <1>2, <2>1 DEF TasksFaithful
  <2>3. DOMAIN q.tasks = 1..Len(q.tasks)
    <3>1. q.tasks \in Seq(Seq(Item))
      BY <1>1 DEF RawPlay
    <3> QED BY <3>1, SeqFacts
  <2>4. PlayAccepted(q, default)
    BY <1>1, <1>2, <1>4, <2>2, <2>3 DEF PlayAccepted, TasksFaithful
  <2> QED BY <1>1, <2>1, <2>2, <2>4 DEF PlayDone
<1> QED BY <1>1, <1>3, <1>4 DEF ClosedAs

-----------------------------------------------------------------------------
(* The parser.                                                              *)

\* The types of what the parser keeps.
FileTypes ==
    /\ raw \in Seq(RawPlay) /\ plays \in Seq(ParsedPlay) /\ task \in Task
    /\ parsing \in {"no", "play", "task", "resolve", "accepted", "error", "panic"}

\* The plays before the last one are done, or all of them.
DoneBefore ==
    \A i \in 1..Len(raw) : i # Len(raw) => PlayDone(plays[i], raw[i], settings.strategy)
DoneAll == \A i \in 1..Len(raw) : PlayDone(plays[i], raw[i], settings.strategy)

\* The play that is read, between two tasks of it and within one.
BetweenTasks ==
    /\ raw # <<>> /\ DoneBefore
    /\ PlayOpen(plays[Len(raw)], CurrentPlay, header, Len(CurrentPlay.tasks))

\* The same with its last task still open.
WithinTask ==
    /\ raw # <<>> /\ DoneBefore
    /\ \E k \in Nat : /\ k + 1 = Len(CurrentPlay.tasks)
                      /\ PlayOpen(plays[Len(raw)], CurrentPlay, header, k)
    /\ TaskOf(task, CurrentTask)

\* The inductive invariant of the parser.
ParserInv ==
    /\ FileTypes
    /\ parsing = "no" => raw = <<>> /\ plays = <<>>
    /\ parsing \in {"play", "task", "resolve", "accepted"} => Len(plays) = Len(raw)
    /\ parsing = "play" => DoneAll \/ BetweenTasks
    /\ parsing = "task" => WithinTask /\ task.action = ""
    /\ parsing = "resolve" => WithinTask /\ Resolved(task, CurrentTask, todo)
    /\ parsing = "accepted" => DoneAll
    /\ parsing \in {"error", "panic"} /\ raw # <<>> =>
         \E i \in DOMAIN raw : ~PlayAccepted(raw[i], settings.strategy)

\* The parser starts with no file and an empty task, which no keyword contradicts.
LEMMA NewTaskEmpty == NewTask \in Task /\ TaskOf(NewTask, <<>>) /\ NewTask.action = ""
<1>1. <<>> \in KeywordMap /\ DOMAIN <<>> = {}
  <2>1. <<>> \in [{} -> Value] /\ {} \in SUBSET Keys
    OBVIOUS
  <2> QED BY <2>1 DEF KeywordMap
<1>2. <<>> \in Arguments /\ "none" \in TaskKinds /\ 0 \in Nat
  BY DEF Arguments, TaskKinds
<1>3. NewTask \in Task /\ NewTask.action = ""
  BY <1>1, <1>2 DEF NewTask, Task
<1>4. /\ NewTask.args = "none" /\ NewTask.vars = "none" /\ NewTask.loop = "none" /\ NewTask.with = "none"
      /\ NewTask.when = 0 /\ NewTask.keywords = <<>>
  BY DEF NewTask
<1>5. \A k : Given(<<>>, k) = {}
  BY <1>1 DEF Given
<1>6. Conditions(<<>>) = 0
  <2>1. Given(<<>>, "when") = {} /\ {i \in Given(<<>>, "when") : <<>>[i].value.kind = "list"} = {}
    BY <1>5
  <2>2. Cardinality({}) + Cardinality({}) = 0
    BY FS_EmptySet
  <2> QED BY <2>1, <2>2 DEF Conditions
<1>7. Actions(<<>>) = {}
  BY <1>1 DEF Actions
<1>8. IsFiniteSet(Actions(<<>>))
  BY <1>7, FS_EmptySet
<1>9. AllAccepted(<<>>) /\ TextsOfActions(<<>>)
  BY <1>1 DEF AllAccepted, TextsOfActions
<1>10. KindsKept(NewTask, <<>>)
  BY <1>4, <1>5 DEF KindsKept, LastKind
<1>11. ValuesKept(NewTask.keywords, <<>>)
  BY <1>1, <1>4, <1>5 DEF ValuesKept
<1> QED BY <1>3, <1>4, <1>6, <1>8, <1>9, <1>10, <1>11 DEF TaskOf

\* Nothing is read at first.
LEMMA ParserInitInv == ParserInit => ParserInv
<1> SUFFICES ASSUME ParserInit PROVE ParserInv
  OBVIOUS
<1>1. raw = <<>> /\ plays = <<>> /\ parsing = "no" /\ task = NewTask
  BY DEF ParserInit
<1>2. raw \in Seq(RawPlay) /\ plays \in Seq(ParsedPlay)
  BY <1>1
<1> QED BY <1>1, <1>2, NewTaskEmpty DEF ParserInv, FileTypes

\* A step that changes the last play only.
LEMMA LastPlayChanged ==
    ASSUME FileTypes, Len(plays) = Len(raw), raw # <<>>, DoneBefore, settings' = settings,
           NEW q \in RawPlay, raw' = [raw EXCEPT ![Len(raw)] = q],
           NEW o \in ParsedPlay, plays' = [plays EXCEPT ![Len(raw)] = o]
    PROVE  /\ raw' \in Seq(RawPlay) /\ plays' \in Seq(ParsedPlay) /\ Len(plays') = Len(raw')
           /\ Len(raw') = Len(raw) /\ raw' # <<>> /\ Len(raw) \in DOMAIN raw'
           /\ CurrentPlay' = q /\ raw'[Len(raw)] = q /\ plays'[Len(raw')] = o /\ DoneBefore'
<1> DEFINE n == Len(raw)
<1>1. raw \in Seq(RawPlay) /\ plays \in Seq(ParsedPlay)
  BY DEF FileTypes
<1>2. n \in 1..Len(raw) /\ n \in 1..Len(plays) /\ n \in Nat /\ Len(plays) = n
  BY <1>1
<1>3. Replaced(raw', raw, n, q, RawPlay)
  BY <1>1, <1>2, Replace
<1>4. Replaced(plays', plays, n, o, ParsedPlay)
  BY <1>1, <1>2, Replace
<1> HIDE DEF n
<1>5. /\ raw' \in Seq(RawPlay) /\ Len(raw') = n /\ raw'[n] = q /\ DOMAIN raw' = 1..n
      /\ \A j \in 1..n : j # n => raw'[j] = raw[j]
  BY <1>3 DEF Replaced, n
<1>6. /\ plays' \in Seq(ParsedPlay) /\ Len(plays') = n /\ plays'[n] = o
      /\ \A j \in 1..n : j # n => plays'[j] = plays[j]
  BY <1>2, <1>4 DEF Replaced, n
<1>7. n \in 1..n
  BY <1>2 DEF n
<1>8. raw' # <<>>
  <2>1. DOMAIN <<>> = {}
    OBVIOUS
  <2> QED BY <1>5, <1>7, <2>1
<1>9. DoneBefore'
  <2>1. \A j \in 1..n : j # n => PlayDone(plays[j], raw[j], settings.strategy)
    BY DEF DoneBefore, n
  <2>2. \A j \in 1..n : j # n => PlayDone(plays'[j], raw'[j], settings'.strategy)
    BY <1>5, <1>6, <2>1
  <2> QED BY <1>5, <2>2 DEF DoneBefore
<1>10. CurrentPlay' = q
  BY <1>5 DEF CurrentPlay
<1> QED BY <1>5, <1>6, <1>7, <1>8, <1>9, <1>10 DEF n

\* A step that begins a play.
LEMMA PlayBegun ==
    ASSUME FileTypes, Len(plays) = Len(raw), DoneAll, settings' = settings,
           NEW q \in RawPlay, raw' = Append(raw, q),
           NEW o \in ParsedPlay, plays' = Append(plays, o)
    PROVE  /\ raw' \in Seq(RawPlay) /\ plays' \in Seq(ParsedPlay) /\ Len(plays') = Len(raw')
           /\ raw' # <<>> /\ CurrentPlay' = q /\ plays'[Len(raw')] = o /\ DoneBefore'
<1> DEFINE n == Len(raw)
<1>1. raw \in Seq(RawPlay) /\ plays \in Seq(ParsedPlay)
  BY DEF FileTypes
<1>2. Appended(raw', raw, q, RawPlay)
  BY <1>1, Extend
<1>3. Appended(plays', plays, o, ParsedPlay)
  BY <1>1, Extend
<1> HIDE DEF n
<1>4. /\ raw' \in Seq(RawPlay) /\ n \in Nat /\ Len(raw') = n + 1 /\ raw'[n + 1] = q /\ DOMAIN raw' = 1..(n + 1)
      /\ \A j \in 1..n : raw'[j] = raw[j]
  BY <1>2 DEF Appended, n
<1>5. /\ plays' \in Seq(ParsedPlay) /\ Len(plays') = n + 1 /\ plays'[n + 1] = o
      /\ \A j \in 1..n : plays'[j] = plays[j]
  BY <1>3 DEF Appended, n
<1>6. n + 1 \in 1..(n + 1) /\ \A j \in 1..(n + 1) : j # n + 1 => j \in 1..n
  BY <1>4
<1>7. raw' # <<>>
  <2>1. DOMAIN <<>> = {}
    OBVIOUS
  <2> QED BY <1>4, <1>6, <2>1
<1>8. DoneBefore'
  <2>1. \A j \in 1..n : PlayDone(plays[j], raw[j], settings.strategy)
    BY DEF DoneAll, n
  <2>2. \A j \in 1..(n + 1) : j # n + 1 => PlayDone(plays'[j], raw'[j], settings'.strategy)
    BY <1>4, <1>5, <1>6, <2>1
  <2> QED BY <1>4, <2>2 DEF DoneBefore
<1>9. CurrentPlay' = q
  BY <1>4 DEF CurrentPlay
<1> QED BY <1>4, <1>5, <1>7, <1>8, <1>9

\* A file that is refused has a play that is not well formed.
LEMMA RefusedRightly ==
    ASSUME FileTypes', parsing' \in {"error", "panic"},
           NEW i \in DOMAIN raw', ~PlayAccepted(raw'[i], settings'.strategy)
    PROVE  ParserInv'
<1>1. \E j \in DOMAIN raw' : ~PlayAccepted(raw'[j], settings'.strategy)
  OBVIOUS
<1> QED BY <1>1 DEF ParserInv

\* Where nothing is open all plays are done.
LEMMA NothingOpen ==
    ASSUME ParserInv, parsing = "play", raw # <<>> => CurrentPlay.closed
    PROVE  DoneAll /\ Len(plays) = Len(raw) /\ FileTypes
BY DEF ParserInv, BetweenTasks, PlayOpen

\* The sequence without places.
LEMMA EmptySequence == (\A S : <<>> \in Seq(S)) /\ Len(<<>>) = 0 /\ 1..0 = {}
OBVIOUS

\* A play is begun after all others are done.
LEMMA BeginPlayStep ==
    ASSUME ParserInv, BeginPlay, settings' = settings PROVE ParserInv'
<1>1. parsing = "play" /\ UNCHANGED <<parsing, task>> /\ (raw # <<>> => CurrentPlay.closed)
  BY DEF BeginPlay
<1>2. DoneAll /\ Len(plays) = Len(raw) /\ FileTypes
  BY <1>1, NothingOpen
<1>3. PICK s \in {"", "linear", "free", "bogus"}, v \in {"map", "keys"} :
        /\ header' = [strategy |-> s, vars |-> v]
        /\ raw' = Append(raw, [strategy |-> s, vars |-> v, tasks |-> <<>>, closed |-> FALSE])
  BY DEF BeginPlay
<1> DEFINE q == [strategy |-> s, vars |-> v, tasks |-> <<>>, closed |-> FALSE]
           o == [strategy |-> "", tasks |-> <<>>]
<1>4. q \in RawPlay /\ q.tasks = <<>> /\ ~q.closed /\ q.strategy = s /\ q.vars = v
  <2>1. <<>> \in Seq(Seq(Item))
    BY EmptySequence
  <2> QED BY <2>1 DEF RawPlay
<1>5. o \in ParsedPlay /\ o.tasks = <<>>
  <2>1. <<>> \in Seq(Task)
    BY EmptySequence
  <2> QED BY <2>1 DEF ParsedPlay
<1>6. plays' = Append(plays, o) /\ raw' = Append(raw, q)
  BY <1>3 DEF BeginPlay
<1>7. PlayOpen(o, q, header', Len(q.tasks))
  <2>1. Len(<<>>) = 0 /\ 1..0 = {}
    BY EmptySequence
  <2>2. header'.strategy = s /\ header'.vars = v
    BY <1>3
  <2> HIDE DEF q, o
  <2> QED BY <1>4, <1>5, <2>1, <2>2 DEF PlayOpen, TasksFaithful
<1> HIDE DEF q, o
<1>8. /\ raw' \in Seq(RawPlay) /\ plays' \in Seq(ParsedPlay) /\ Len(plays') = Len(raw')
      /\ raw' # <<>> /\ CurrentPlay' = q /\ plays'[Len(raw')] = o /\ DoneBefore'
  BY <1>2, <1>4, <1>5, <1>6, PlayBegun
<1>9. BetweenTasks'
  BY <1>7, <1>8 DEF BetweenTasks
<1>10. FileTypes'
  BY <1>1, <1>2, <1>8 DEF FileTypes
<1> QED BY <1>1, <1>8, <1>9, <1>10 DEF ParserInv

\* The empty entry of the list of plays is not well formed.
LEMMA NullPlayStep ==
    ASSUME ParserInv, NullPlay PROVE ParserInv'
<1> DEFINE q == [strategy |-> "", vars |-> "null", tasks |-> <<>>, closed |-> FALSE]
<1>1. parsing' = "panic" /\ UNCHANGED <<task, plays>> /\ raw' = Append(raw, q)
  BY DEF NullPlay
<1>2. FileTypes
  BY DEF ParserInv
<1>3. q \in RawPlay /\ q.vars # "map"
  <2>1. <<>> \in Seq(Seq(Item))
    OBVIOUS
  <2> QED BY <2>1 DEF RawPlay
<1> HIDE DEF q
<1>4. Appended(raw', raw, q, RawPlay)
  BY <1>1, <1>2, <1>3, Extend DEF FileTypes
<1> DEFINE n == Len(raw)
<1>5. raw' \in Seq(RawPlay) /\ n \in Nat /\ DOMAIN raw' = 1..(n + 1) /\ raw'[n + 1] = q
  BY <1>4 DEF Appended
<1> HIDE DEF n
<1>6. n + 1 \in DOMAIN raw'
  BY <1>5
<1>7. ~PlayAccepted(raw'[n + 1], settings'.strategy)
  BY <1>3, <1>5 DEF PlayAccepted
<1>8. FileTypes'
  BY <1>1, <1>2, <1>5 DEF FileTypes
<1> QED BY <1>1, <1>6, <1>7, <1>8, RefusedRightly

\* What is unchanged can be seen as replaced by itself.
LEMMA PlaysStay ==
    ASSUME FileTypes, Len(plays) = Len(raw), raw # <<>>
    PROVE  /\ plays = [plays EXCEPT ![Len(raw)] = plays[Len(raw)]] /\ plays[Len(raw)] \in ParsedPlay
           /\ CurrentPlay \in RawPlay /\ Len(raw) \in DOMAIN raw
<1>1. raw \in Seq(RawPlay) /\ plays \in Seq(ParsedPlay)
  BY DEF FileTypes
<1> QED BY <1>1 DEF CurrentPlay

\* A task is begun in the play that is open.
LEMMA BeginTaskStep ==
    ASSUME ParserInv, BeginTask, settings' = settings PROVE ParserInv'
<1>1. /\ parsing = "play" /\ raw # <<>> /\ ~CurrentPlay.closed /\ UNCHANGED <<header, plays>>
      /\ parsing' = "task" /\ task' = NewTask
  BY DEF BeginTask, InPlay
<1>2. FileTypes /\ Len(plays) = Len(raw)
  BY <1>1 DEF ParserInv
<1>3. CurrentPlay \in RawPlay /\ plays[Len(raw)] \in ParsedPlay /\ Len(raw) \in DOMAIN raw
      /\ plays' = [plays EXCEPT ![Len(raw)] = plays[Len(raw)]]
  BY <1>1, <1>2, PlaysStay
<1>4. BetweenTasks
  <2>1. raw \in Seq(RawPlay)
    BY <1>2 DEF FileTypes
  <2>2. Len(raw) \in 1..Len(raw)
    BY <1>1, <2>1
  <2>3. ASSUME DoneAll PROVE CurrentPlay.closed
    BY <2>2, <2>3 DEF DoneAll, PlayDone, CurrentPlay
  <2> QED BY <1>1, <2>3 DEF ParserInv
<1> DEFINE r == CurrentPlay
           k == Len(r.tasks)
           q == [r EXCEPT !.tasks = Append(r.tasks, <<>>)]
           p == plays[Len(raw)]
<1>5. raw' = [raw EXCEPT ![Len(raw)] = q]
  BY DEF BeginTask, CurrentPlay
<1>6. PlayOpen(p, r, header, k)
  BY <1>4 DEF BetweenTasks
<1>7. /\ q \in RawPlay /\ k \in Nat /\ Len(q.tasks) = k + 1 /\ q.tasks[k + 1] = <<>>
      /\ PlayOpen(p, q, header, k)
  <2> HIDE DEF r, p
  <2> QED BY <1>3, <1>6, TaskAdded DEF r
<1> HIDE DEF q, r, p, k
<1>8. /\ raw' \in Seq(RawPlay) /\ plays' \in Seq(ParsedPlay) /\ Len(plays') = Len(raw')
      /\ raw' # <<>> /\ CurrentPlay' = q /\ plays'[Len(raw')] = p /\ DoneBefore'
  BY <1>1, <1>2, <1>3, <1>4, <1>5, <1>7, LastPlayChanged DEF BetweenTasks, p
<1>9. CurrentTask' = <<>>
  <2>1. CurrentTask' = q.tasks[Len(q.tasks)]
    BY <1>8 DEF CurrentTask
  <2> QED BY <1>7, <2>1
<1>10. WithinTask'
  <2>1. k \in Nat /\ k + 1 = Len(CurrentPlay'.tasks) /\ PlayOpen(plays'[Len(raw')], CurrentPlay', header', k)
    BY <1>1, <1>7, <1>8
  <2>2. TaskOf(task', CurrentTask')
    BY <1>1, <1>9, NewTaskEmpty
  <2> QED BY <1>8, <2>1, <2>2 DEF WithinTask
<1>11. FileTypes' /\ task'.action = ""
  BY <1>1, <1>8, NewTaskEmpty DEF FileTypes
<1> QED BY <1>1, <1>8, <1>10, <1>11 DEF ParserInv

\* Within a task: what is known of the play it belongs to.
TaskPlace(k) ==
    /\ k \in Nat /\ k + 1 = Len(CurrentPlay.tasks)
    /\ PlayOpen(plays[Len(raw)], CurrentPlay, header, k)

\* What is known of the task that is read.
LEMMA TaskFacts ==
    ASSUME ParserInv, parsing \in {"task", "resolve"}
    PROVE  /\ FileTypes /\ Len(plays) = Len(raw) /\ raw # <<>> /\ DoneBefore
           /\ CurrentPlay \in RawPlay /\ CurrentTask \in Seq(Item) /\ TaskOf(task, CurrentTask)
           /\ Len(CurrentPlay.tasks) \in DOMAIN CurrentPlay.tasks
           /\ \E k : TaskPlace(k)
<1>1. FileTypes /\ Len(plays) = Len(raw) /\ WithinTask
  BY DEF ParserInv
<1>2. raw # <<>> /\ DoneBefore /\ TaskOf(task, CurrentTask) /\ \E k : TaskPlace(k)
  BY <1>1 DEF WithinTask, TaskPlace
<1>3. CurrentPlay \in RawPlay
  BY <1>1, <1>2, PlaysStay
<1>4. CurrentPlay.tasks \in Seq(Seq(Item))
  BY <1>3 DEF RawPlay
<1>5. PICK k : k \in Nat /\ k + 1 = Len(CurrentPlay.tasks)
  BY <1>2 DEF TaskPlace
<1> DEFINE tasks == CurrentPlay.tasks
<1>6. tasks \in Seq(Seq(Item)) /\ k + 1 = Len(tasks)
  BY <1>4, <1>5
<1> HIDE DEF tasks
<1>7. Len(tasks) \in DOMAIN tasks /\ tasks[Len(tasks)] \in Seq(Item)
  BY <1>5, <1>6
<1>8. CurrentTask \in Seq(Item) /\ Len(CurrentPlay.tasks) \in DOMAIN CurrentPlay.tasks
  BY <1>7 DEF tasks, CurrentTask
<1> QED BY <1>1, <1>2, <1>3, <1>8

\* A step that changes the task that is read.
LEMMA TaskChanged ==
    ASSUME ParserInv, parsing \in {"task", "resolve"}, settings' = settings, UNCHANGED <<plays, header>>,
           NEW items \in Seq(Item),
           raw' = [raw EXCEPT ![Len(raw)] = [CurrentPlay EXCEPT !.tasks =
                     [CurrentPlay.tasks EXCEPT ![Len(CurrentPlay.tasks)] = items]]]
    PROVE  /\ raw' \in Seq(RawPlay) /\ plays' \in Seq(ParsedPlay) /\ Len(plays') = Len(raw')
           /\ raw' # <<>> /\ DoneBefore' /\ CurrentTask' = items
           /\ \E k \in Nat : /\ k + 1 = Len(CurrentPlay'.tasks)
                             /\ PlayOpen(plays'[Len(raw')], CurrentPlay', header', k)
           /\ \E i \in DOMAIN raw' : \E j \in DOMAIN raw'[i].tasks : raw'[i].tasks[j] = items
<1> DEFINE r == CurrentPlay
           m == Len(r.tasks)
           q == [r EXCEPT !.tasks = [r.tasks EXCEPT ![m] = items]]
           p == plays[Len(raw)]
<1>1. FileTypes /\ Len(plays) = Len(raw) /\ raw # <<>> /\ DoneBefore /\ r \in RawPlay
  BY TaskFacts
<1>2. PICK k : TaskPlace(k)
  BY TaskFacts
<1>3. k \in Nat /\ k + 1 = m /\ PlayOpen(p, r, header, k)
  BY <1>2 DEF TaskPlace
<1>4. p \in ParsedPlay /\ plays' = [plays EXCEPT ![Len(raw)] = p]
  BY <1>1, PlaysStay
<1>5. raw' = [raw EXCEPT ![Len(raw)] = q]
  OBVIOUS
<1> HIDE DEF r, p
<1>6. /\ q \in RawPlay /\ Len(q.tasks) = m /\ m \in DOMAIN q.tasks /\ q.tasks[m] = items
      /\ PlayOpen(p, q, header, k)
  BY <1>1, <1>3, LastTaskChanged
<1> HIDE DEF q, m
<1>7. /\ raw' \in Seq(RawPlay) /\ plays' \in Seq(ParsedPlay) /\ Len(plays') = Len(raw')
      /\ raw' # <<>> /\ Len(raw) \in DOMAIN raw'
      /\ CurrentPlay' = q /\ raw'[Len(raw)] = q /\ plays'[Len(raw')] = p /\ DoneBefore'
  BY <1>1, <1>4, <1>5, <1>6, LastPlayChanged
<1>8. CurrentTask' = items
  <2>1. CurrentTask' = q.tasks[Len(q.tasks)]
    BY <1>7 DEF CurrentTask
  <2> QED BY <1>6, <2>1
<1>9. \E j \in DOMAIN raw'[Len(raw)].tasks : raw'[Len(raw)].tasks[j] = items
  BY <1>6, <1>7
<1>10. k \in Nat /\ k + 1 = Len(CurrentPlay'.tasks) /\ PlayOpen(plays'[Len(raw')], CurrentPlay', header', k)
  BY <1>3, <1>6, <1>7
<1> QED BY <1>7, <1>8, <1>9, <1>10

\* A keyword is taken over or its task is not well formed.
LEMMA ReadKeywordStep ==
    ASSUME ParserInv, ReadKeyword, settings' = settings PROVE ParserInv'
<1>1. parsing = "task" /\ UNCHANGED <<header, todo, plays>> /\ task.action = ""
  BY DEF ReadKeyword, ParserInv
<1>2. PICK key \in Keys : \E value \in ValuesOf(key) :
        /\ raw' = [raw EXCEPT ![Len(raw)].tasks[Len(CurrentPlay.tasks)] =
                     Append(@, [key |-> key, value |-> value])]
        /\ IF Accepts(key, value)
           THEN task' = ParseTaskKeyword(task, key, value) /\ UNCHANGED parsing
           ELSE parsing' = "error" /\ UNCHANGED task
  BY DEF ReadKeyword
<1>3. PICK value \in ValuesOf(key) :
        /\ raw' = [raw EXCEPT ![Len(raw)].tasks[Len(CurrentPlay.tasks)] =
                     Append(@, [key |-> key, value |-> value])]
        /\ IF Accepts(key, value)
           THEN task' = ParseTaskKeyword(task, key, value) /\ UNCHANGED parsing
           ELSE parsing' = "error" /\ UNCHANGED task
  BY <1>2
<1>4. value \in Value /\ (value.text # NoText => key \in Modules)
  BY ValuesTyped
<1> DEFINE x == [key |-> key, value |-> value]
           items == CurrentTask
           new == Append(items, x)
<1>5. x \in Item /\ x.key = key /\ x.value = value
  BY <1>4 DEF Item
<1>6. FileTypes /\ items \in Seq(Item) /\ TaskOf(task, items) /\ task \in Task
  BY <1>1, TaskFacts DEF FileTypes
<1>7. raw' = [raw EXCEPT ![Len(raw)] = [CurrentPlay EXCEPT !.tasks =
                [CurrentPlay.tasks EXCEPT ![Len(CurrentPlay.tasks)] = new]]]
  BY <1>3 DEF CurrentPlay, CurrentTask
<1> HIDE DEF x, items
<1>8. Appended(new, items, x, Item)
  BY <1>5, <1>6, Extend
<1> HIDE DEF new
<1>9. new \in Seq(Item)
  BY <1>8 DEF Appended
<1>10. /\ raw' \in Seq(RawPlay) /\ plays' \in Seq(ParsedPlay) /\ Len(plays') = Len(raw')
       /\ raw' # <<>> /\ DoneBefore' /\ CurrentTask' = new
       /\ \E k \in Nat : /\ k + 1 = Len(CurrentPlay'.tasks)
                         /\ PlayOpen(plays'[Len(raw')], CurrentPlay', header', k)
       /\ \E i \in DOMAIN raw' : \E j \in DOMAIN raw'[i].tasks : raw'[i].tasks[j] = new
  BY <1>1, <1>7, <1>9, TaskChanged
<1>11. CASE Accepts(key, value)
  <2> DEFINE u == ParseTaskKeyword(task, x.key, x.value)
  <2>1. task' = u /\ parsing' = "task"
    BY <1>1, <1>3, <1>5, <1>11
  <2>2. TaskOf(u, new)
    BY <1>4, <1>5, <1>6, <1>11, KeywordRead DEF new
  <2>3. u \in Task /\ u.action = ""
    <3>1. FieldsAfter(u, task, x.key, x.value)
      BY <1>4, <1>5, <1>6, Fields
    <3> QED BY <1>1, <3>1 DEF FieldsAfter
  <2> HIDE DEF u
  <2>4. WithinTask'
    BY <1>10, <2>1, <2>2 DEF WithinTask
  <2>5. FileTypes'
    BY <1>10, <2>1, <2>3 DEF FileTypes
  <2> QED BY <1>10, <2>1, <2>3, <2>4, <2>5 DEF ParserInv
<1>12. CASE ~Accepts(key, value)
  <2>1. parsing' = "error" /\ UNCHANGED task
    BY <1>3, <1>12
  <2>2. ~WellFormed(new)
    <3>1. Len(items) + 1 \in DOMAIN new /\ new[Len(items) + 1] = x
      BY <1>8 DEF Appended
    <3> QED BY <1>5, <1>12, <3>1 DEF WellFormed
  <2>3. PICK i \in DOMAIN raw' : \E j \in DOMAIN raw'[i].tasks : raw'[i].tasks[j] = new
    BY <1>10
  <2>4. ~PlayAccepted(raw'[i], settings'.strategy)
    BY <2>2, <2>3 DEF PlayAccepted
  <2>5. FileTypes'
    BY <1>6, <1>10, <2>1 DEF FileTypes
  <2> QED BY <2>1, <2>3, <2>4, <2>5, RefusedRightly
<1> QED BY <1>11, <1>12

\* The text of an action grows in the file and in the task alike.
LEMMA ReadTokenStep ==
    ASSUME ParserInv, ReadToken, settings' = settings PROVE ParserInv'
<1> DEFINE items == CurrentTask
           l == Len(items)
<1>1. /\ parsing = "task" /\ UNCHANGED <<parsing, header, todo, plays>> /\ task.action = ""
      /\ items # <<>> /\ items[l].value.text # NoText
  BY DEF ReadToken, ParserInv, Last
<1>2. PICK longer \in Longer(items[l].value.text) :
        /\ raw' = [raw EXCEPT ![Len(raw)].tasks[Len(CurrentPlay.tasks)][l].value.text = longer]
        /\ task' = [task EXCEPT !.keywords[items[l].key].text = longer]
  BY DEF ReadToken, Last
<1>3. FileTypes /\ items \in Seq(Item) /\ TaskOf(task, items) /\ task \in Task
  BY <1>1, TaskFacts DEF FileTypes
<1> DEFINE x == [items[l] EXCEPT !.value.text = longer]
           new == [items EXCEPT ![l] = x]
           u == [task EXCEPT !.keywords[items[l].key].text = longer]
<1>4. raw' = [raw EXCEPT ![Len(raw)] = [CurrentPlay EXCEPT !.tasks =
                [CurrentPlay.tasks EXCEPT ![Len(CurrentPlay.tasks)] = new]]]
  BY <1>2 DEF CurrentPlay, CurrentTask
<1>5. task' = u
  BY <1>2
<1> HIDE DEF items
<1>6. x \in Item /\ u \in Task /\ u.action = task.action /\ TaskOf(u, new)
  BY <1>1, <1>3, TextGrown
<1>7. Replaced(new, items, l, x, Item)
  <2>1. l \in 1..Len(items)
    <3>1. items \in Seq(Item) /\ items # <<>>
      BY <1>1, <1>3
    <3> QED BY <3>1
  <2> HIDE DEF x, l
  <2> QED BY <1>3, <1>6, <2>1, Replace
<1> HIDE DEF new, u
<1>8. new \in Seq(Item)
  BY <1>7 DEF Replaced
<1>9. /\ raw' \in Seq(RawPlay) /\ plays' \in Seq(ParsedPlay) /\ Len(plays') = Len(raw')
      /\ raw' # <<>> /\ DoneBefore' /\ CurrentTask' = new
      /\ \E k \in Nat : /\ k + 1 = Len(CurrentPlay'.tasks)
                        /\ PlayOpen(plays'[Len(raw')], CurrentPlay', header', k)
  BY <1>1, <1>4, <1>8, TaskChanged
<1>10. WithinTask'
  BY <1>5, <1>6, <1>9 DEF WithinTask
<1>11. FileTypes'
  BY <1>1, <1>5, <1>6, <1>9 DEF FileTypes
<1> QED BY <1>1, <1>5, <1>6, <1>9, <1>10, <1>11 DEF ParserInv

\* The candidates are the keys that are no keywords.
LEMMA ResolveStep ==
    ASSUME ParserInv, ResolveModuleArgs, settings' = settings PROVE ParserInv'
<1>1. /\ parsing = "task" /\ parsing' = "resolve" /\ UNCHANGED <<raw, header, task, plays>> /\ task.action = ""
      /\ todo' = DOMAIN task.keywords \ (TaskKeywords \cup {WithKeyword})
  BY DEF ResolveModuleArgs, ParserInv
<1>2. FileTypes /\ Len(plays) = Len(raw) /\ WithinTask /\ TaskOf(task, CurrentTask) /\ task \in Task
  BY <1>1, TaskFacts DEF ParserInv, FileTypes
<1>3. Resolved(task, CurrentTask, todo')
  BY <1>1, <1>2, ResolutionStarts
<1>4. UNCHANGED <<CurrentPlay, CurrentTask>>
  BY <1>1 DEF CurrentPlay, CurrentTask
<1>5. WithinTask'
  <2>1. DoneBefore'
    BY <1>1, <1>2 DEF WithinTask, DoneBefore
  <2> QED BY <1>1, <1>2, <1>4, <2>1 DEF WithinTask
<1>6. FileTypes'
  BY <1>1, <1>2 DEF FileTypes
<1>7. Resolved(task', CurrentTask', todo')
  BY <1>1, <1>3, <1>4
<1> QED BY <1>1, <1>2, <1>5, <1>6, <1>7 DEF ParserInv

\* A task that is not well formed makes its play so.
LEMMA TaskRefused ==
    ASSUME ParserInv, parsing = "resolve", ~WellFormed(CurrentTask),
           parsing' \in {"error", "panic"}, UNCHANGED <<raw, task, plays>>
    PROVE  ParserInv'
<1>1. FileTypes /\ Len(plays) = Len(raw) /\ raw # <<>> /\ Len(CurrentPlay.tasks) \in DOMAIN CurrentPlay.tasks
  BY TaskFacts
<1>2. Len(raw) \in DOMAIN raw
  BY <1>1, PlaysStay
<1>3. ~PlayAccepted(raw[Len(raw)], settings'.strategy)
  BY <1>1 DEF PlayAccepted, CurrentPlay, CurrentTask
<1>4. Len(raw) \in DOMAIN raw' /\ ~PlayAccepted(raw'[Len(raw)], settings'.strategy)
  BY <1>2, <1>3
<1>5. FileTypes'
  BY <1>1 DEF FileTypes
<1> QED BY <1>4, <1>5, RefusedRightly

\* A candidate is skipped, taken or refused, in any order.
LEMMA TryCandidateStep ==
    ASSUME ParserInv, NEW k \in todo, TryCandidate(k), settings' = settings PROVE ParserInv'
<1> DEFINE value == task.keywords[k]
<1>1. parsing = "resolve" /\ todo' = todo \ {k} /\ UNCHANGED <<raw, header, plays>>
  BY DEF TryCandidate
<1>2. /\ FileTypes /\ Len(plays) = Len(raw) /\ WithinTask /\ TaskOf(task, CurrentTask) /\ task \in Task
      /\ Resolved(task, CurrentTask, todo)
  BY <1>1, TaskFacts DEF ParserInv, FileTypes
<1>3. UNCHANGED <<CurrentPlay, CurrentTask>>
  BY <1>1 DEF CurrentPlay, CurrentTask
<1>4. DoneBefore'
  BY <1>1, <1>2 DEF WithinTask, DoneBefore
<1>5. ASSUME parsing' = "resolve", task' \in Task, TaskOf(task', CurrentTask), Resolved(task', CurrentTask, todo')
      PROVE  ParserInv'
  <2>1. WithinTask'
    BY <1>1, <1>2, <1>3, <1>4, <1>5 DEF WithinTask
  <2>2. FileTypes'
    BY <1>1, <1>2, <1>5 DEF FileTypes
  <2>3. Resolved(task', CurrentTask', todo')
    BY <1>3, <1>5
  <2> QED BY <1>1, <1>2, <1>5, <2>1, <2>2, <2>3 DEF ParserInv
<1>6. CASE k \notin Modules
  <2>1. UNCHANGED <<parsing, task>>
    BY <1>6 DEF TryCandidate
  <2>2. Resolved(task, CurrentTask, todo \ {k})
    BY <1>2, <1>6, CandidateSkipped
  <2> QED BY <1>1, <1>2, <1>5, <2>1, <2>2
<1>7. CASE k \in Modules /\ (task.action # "" \/ NormalizeFails(task.args, value) \/ NormalizePanics(task.args, value))
  <2>1. parsing' \in {"error", "panic"} /\ UNCHANGED task
    BY <1>7 DEF TryCandidate
  <2>2. ~WellFormed(CurrentTask)
    BY <1>2, <1>7, CandidateRefused
  <2> QED BY <1>1, <2>1, <2>2, TaskRefused
<1>8. CASE k \in Modules /\ task.action = "" /\ ~NormalizeFails(task.args, value) /\ ~NormalizePanics(task.args, value)
  <2>1. /\ task' = [task EXCEPT !.action = k, !.final = NormalizeParameters(k, task.args, value)]
        /\ parsing' = "resolve"
    BY <1>1, <1>8 DEF TryCandidate
  <2>2. task' \in Task /\ TaskOf(task', CurrentTask) /\ Resolved(task', CurrentTask, todo \ {k})
    BY <1>2, <1>8, <2>1, CandidateTaken
  <2> QED BY <1>1, <1>5, <2>1, <2>2
<1> QED BY <1>6, <1>7, <1>8

\* A task without an action is not well formed, any other is done.
LEMMA EndTaskStep ==
    ASSUME ParserInv, EndTask, settings' = settings PROVE ParserInv'
<1>1. parsing = "resolve" /\ todo = {} /\ UNCHANGED <<raw, header, task>>
  BY DEF EndTask
<1>2. /\ FileTypes /\ Len(plays) = Len(raw) /\ raw # <<>> /\ DoneBefore /\ CurrentPlay \in RawPlay
      /\ TaskOf(task, CurrentTask) /\ task \in Task
      /\ Resolved(task, CurrentTask, {})
  BY <1>1, TaskFacts DEF ParserInv, FileTypes
<1>3. /\ task.action = "" => ~WellFormed(CurrentTask)
      /\ task.action # "" => WellFormed(CurrentTask) /\ Means(task, CurrentTask)
  BY <1>2, ResolutionEnds
<1>4. CASE task.action = ""
  <2>1. parsing' = "error" /\ UNCHANGED plays
    BY <1>4 DEF EndTask
  <2> QED BY <1>1, <1>3, <1>4, <2>1, TaskRefused
<1>5. CASE task.action # ""
  <2> DEFINE r == CurrentPlay
             m == Len(r.tasks)
             p == plays[Len(raw)]
             o == [p EXCEPT !.tasks = Append(p.tasks, task)]
  <2>1. parsing' = "play" /\ plays' = [plays EXCEPT ![Len(raw)] = o]
    BY <1>2, <1>5 DEF EndTask
  <2>2. p \in ParsedPlay /\ raw' = [raw EXCEPT ![Len(raw)] = r]
    <3>1. raw \in Seq(RawPlay)
      BY <1>2 DEF FileTypes
    <3>2. raw = [raw EXCEPT ![Len(raw)] = raw[Len(raw)]]
      BY <1>2, <3>1
    <3> QED BY <1>1, <1>2, <3>2, PlaysStay DEF CurrentPlay
  <2>3. PICK k : TaskPlace(k)
    BY <1>1, TaskFacts
  <2>4. k \in Nat /\ k + 1 = m /\ PlayOpen(p, r, header, k)
    BY <2>3 DEF TaskPlace
  <2>5. WellFormed(r.tasks[m]) /\ Means(task, r.tasks[m])
    BY <1>3, <1>5 DEF CurrentTask
  <2> HIDE DEF r, p
  <2>6. o \in ParsedPlay /\ PlayOpen(o, r, header, m)
    BY <1>2, <2>2, <2>4, <2>5, TaskParsed DEF r
  <2> HIDE DEF o, m
  <2>7. /\ raw' \in Seq(RawPlay) /\ plays' \in Seq(ParsedPlay) /\ Len(plays') = Len(raw')
        /\ raw' # <<>> /\ CurrentPlay' = r /\ plays'[Len(raw')] = o /\ DoneBefore'
    BY <1>2, <2>1, <2>2, <2>6, LastPlayChanged DEF r
  <2>8. BetweenTasks'
    BY <1>1, <2>6, <2>7 DEF BetweenTasks, m
  <2>9. FileTypes'
    BY <1>1, <1>2, <2>1, <2>7 DEF FileTypes
  <2> QED BY <2>1, <2>7, <2>8, <2>9 DEF ParserInv
<1> QED BY <1>4, <1>5

\* The vars and the strategy decide when the play ends.
LEMMA EndPlayStep ==
    ASSUME ParserInv, EndPlay(settings.strategy), settings' = settings PROVE ParserInv'
<1> DEFINE default == settings.strategy
           strategy == IF header.strategy = "" THEN default ELSE header.strategy
           r == CurrentPlay
           q == [r EXCEPT !.closed = TRUE]
           p == plays[Len(raw)]
           o == [p EXCEPT !.strategy = strategy]
<1>1. parsing = "play" /\ raw # <<>> /\ ~r.closed /\ UNCHANGED <<header, task>>
  BY DEF EndPlay, InPlay
<1>2. FileTypes /\ Len(plays) = Len(raw)
  BY <1>1 DEF ParserInv
<1>3. /\ r \in RawPlay /\ p \in ParsedPlay /\ Len(raw) \in DOMAIN raw
      /\ plays = [plays EXCEPT ![Len(raw)] = p]
  BY <1>1, <1>2, PlaysStay
<1>4. DoneBefore /\ PlayOpen(p, r, header, Len(r.tasks))
  <2>1. raw \in Seq(RawPlay)
    BY <1>2 DEF FileTypes
  <2>2. Len(raw) \in 1..Len(raw)
    BY <1>1, <2>1
  <2>3. ASSUME DoneAll PROVE r.closed
    BY <2>2, <2>3 DEF DoneAll, PlayDone, CurrentPlay
  <2>4. BetweenTasks
    BY <1>1, <2>3 DEF ParserInv
  <2> QED BY <2>4 DEF BetweenTasks
<1>5. raw' = [raw EXCEPT ![Len(raw)] = q]
  BY DEF EndPlay, CurrentPlay
<1>6. /\ header.vars # "map" \/ strategy \notin {"linear", "free"} => parsing' = "error" /\ UNCHANGED plays
      /\ header.vars = "map" /\ strategy \in {"linear", "free"} =>
           parsing' = "play" /\ plays' = [plays EXCEPT ![Len(raw)] = o]
  BY <1>1, <1>2 DEF EndPlay
<1> HIDE DEF r, p
<1>7. /\ q \in RawPlay
      /\ header.vars # "map" \/ strategy \notin {"linear", "free"} => ~PlayAccepted(q, default)
      /\ header.vars = "map" /\ strategy \in {"linear", "free"} => o \in ParsedPlay /\ PlayDone(o, q, default)
  <2>1. /\ strategy = IF header.strategy = "" THEN default ELSE header.strategy
        /\ q = [r EXCEPT !.closed = TRUE] /\ o = [p EXCEPT !.strategy = strategy]
    OBVIOUS
  <2> HIDE DEF q, o, strategy, default
  <2>2. ClosedAs(q, o, header, strategy, default)
    BY <1>3, <1>4, <2>1, PlayClosed
  <2> QED BY <2>2 DEF ClosedAs
<1> HIDE DEF q, o, strategy
<1>8. CASE header.vars # "map" \/ strategy \notin {"linear", "free"}
  <2>1. parsing' = "error" /\ plays' = [plays EXCEPT ![Len(raw)] = p]
    BY <1>3, <1>6, <1>8
  <2>2. raw' \in Seq(RawPlay) /\ plays' \in Seq(ParsedPlay) /\ Len(raw) \in DOMAIN raw' /\ raw'[Len(raw)] = q
    BY <1>1, <1>2, <1>3, <1>4, <1>5, <1>7, <2>1, LastPlayChanged
  <2>3. ~PlayAccepted(raw'[Len(raw)], settings'.strategy)
    BY <1>7, <1>8, <2>2
  <2>4. FileTypes'
    BY <1>1, <1>2, <2>1, <2>2 DEF FileTypes
  <2> QED BY <2>1, <2>2, <2>3, <2>4, RefusedRightly
<1>9. CASE header.vars = "map" /\ strategy \in {"linear", "free"}
  <2>1. parsing' = "play" /\ plays' = [plays EXCEPT ![Len(raw)] = o] /\ o \in ParsedPlay /\ PlayDone(o, q, default)
    BY <1>6, <1>7, <1>9
  <2>2. /\ raw' \in Seq(RawPlay) /\ plays' \in Seq(ParsedPlay) /\ Len(plays') = Len(raw')
        /\ Len(raw') = Len(raw) /\ raw'[Len(raw)] = q /\ plays'[Len(raw')] = o /\ DoneBefore'
    BY <1>1, <1>2, <1>4, <1>5, <1>7, <2>1, LastPlayChanged
  <2>3. DoneAll'
    <3>1. PlayDone(plays'[Len(raw')], raw'[Len(raw')], settings'.strategy)
      BY <2>1, <2>2
    <3> QED BY <2>2, <3>1 DEF DoneAll, DoneBefore
  <2>4. FileTypes'
    BY <1>1, <1>2, <2>1, <2>2 DEF FileTypes
  <2> QED BY <2>1, <2>2, <2>3, <2>4 DEF ParserInv
<1> QED BY <1>8, <1>9

\* At the end of the file all plays are done.
LEMMA EndFileStep ==
    ASSUME ParserInv, EndFile, settings' = settings PROVE ParserInv'
<1>1. /\ parsing = "play" /\ parsing' = "accepted" /\ UNCHANGED <<raw, task, plays>>
      /\ (raw # <<>> => CurrentPlay.closed)
  BY DEF EndFile, InPlay
<1>2. DoneAll /\ Len(plays) = Len(raw) /\ FileTypes
  BY <1>1, NothingOpen
<1>3. DoneAll'
  BY <1>1, <1>2 DEF DoneAll
<1>4. FileTypes'
  BY <1>1, <1>2 DEF FileTypes
<1> QED BY <1>1, <1>2, <1>3, <1>4 DEF ParserInv

-----------------------------------------------------------------------------
(* The command.                                                             *)

\* What the command does next.
Stages ==
    {"register", "config", "inventory", "extraVars", "playbook", "passwords", "execute", "ended"}

\* The playbook waits for the configuration, and success for both.
CommandInv ==
    /\ stage \in Stages
    /\ stage \in {"register", "config"} => parsing = "no"
    /\ stage \in {"inventory", "extraVars", "playbook", "passwords", "execute"} => loading = "loaded"
    /\ stage # "ended" => exit = 0
    /\ exit = 0 /\ stage = "ended" => loading = "loaded" /\ executed = plays

\* A file that cannot be read is refused before there is a play.
LEMMA ReadPlaybookStep ==
    ASSUME ParserInv, ReadPlaybook PROVE ParserInv'
<1>1. /\ UNCHANGED <<raw, plays, task>> /\ parsing = "no"
      /\ parsing' \in {"play", "error"}
  BY DEF ReadPlaybook
<1>2. raw = <<>> /\ plays = <<>> /\ FileTypes
  BY <1>1 DEF ParserInv
<1>3. FileTypes'
  BY <1>1, <1>2 DEF FileTypes
<1>4. DoneAll'
  <2>1. Len(raw') = 0
    BY <1>1, <1>2, EmptySequence
  <2> QED BY <2>1, EmptySequence DEF DoneAll
<1> QED BY <1>1, <1>2, <1>3, <1>4 DEF ParserInv

\* Every step of the parser.
LEMMA ParsePlaybookStep ==
    ASSUME ParserInv, ParsePlaybook PROVE ParserInv'
<1>1. settings' = settings
  BY DEF ParsePlaybook, configVars
<1>2. \/ BeginPlay \/ NullPlay \/ BeginTask \/ ReadKeyword \/ ReadToken \/ ResolveModuleArgs
      \/ (\E k \in todo : TryCandidate(k))
      \/ EndTask \/ EndPlay(settings.strategy) \/ EndFile
  BY DEF ParsePlaybook
<1>3. CASE BeginPlay
  BY <1>1, <1>3, BeginPlayStep
<1>4. CASE NullPlay
  BY <1>1, <1>4, NullPlayStep
<1>5. CASE BeginTask
  BY <1>1, <1>5, BeginTaskStep
<1>6. CASE ReadKeyword
  BY <1>1, <1>6, ReadKeywordStep
<1>7. CASE ReadToken
  BY <1>1, <1>7, ReadTokenStep
<1>8. CASE ResolveModuleArgs
  BY <1>1, <1>8, ResolveStep
<1>9. ASSUME NEW k \in todo, TryCandidate(k) PROVE ParserInv'
  BY <1>1, <1>9, TryCandidateStep
<1>10. CASE EndTask
  BY <1>1, <1>10, EndTaskStep
<1>11. CASE EndPlay(settings.strategy)
  BY <1>1, <1>11, EndPlayStep
<1>12. CASE EndFile
  BY <1>1, <1>12, EndFileStep
<1> QED BY <1>2, <1>3, <1>4, <1>5, <1>6, <1>7, <1>8, <1>9, <1>10, <1>11, <1>12

\* What the parser has is left alone, or there is nothing yet.
LEMMA ParserStays ==
    ASSUME ParserInv, UNCHANGED parserVars, settings' = settings \/ parsing = "no" PROVE ParserInv'
<1>1. UNCHANGED <<raw, plays, task, parsing, header, todo>>
  BY DEF parserVars
<1>2. FileTypes'
  BY <1>1 DEF ParserInv, FileTypes
<1>3. CASE parsing = "no"
  BY <1>1, <1>2, <1>3 DEF ParserInv
<1>4. CASE settings' = settings
  <2>1. UNCHANGED <<CurrentPlay, CurrentTask>>
    BY <1>1 DEF CurrentPlay, CurrentTask
  <2>2. UNCHANGED <<DoneBefore, DoneAll>>
    BY <1>1, <1>4 DEF DoneBefore, DoneAll
  <2>3. UNCHANGED <<BetweenTasks, WithinTask>>
    BY <1>1, <2>1, <2>2 DEF BetweenTasks, WithinTask
  <2>4. Resolved(task, CurrentTask, todo) => Resolved(task', CurrentTask', todo')
    BY <1>1, <2>1
  <2> QED BY <1>1, <1>2, <1>4, <2>2, <2>3, <2>4 DEF ParserInv
<1> QED BY <1>3, <1>4

\* What the configuration has is left alone.
LEMMA ConfigStays ==
    ASSUME ConfigInv, CallbackInv, UNCHANGED configVars PROVE ConfigInv' /\ CallbackInv'
<1>1. UNCHANGED <<files, cwdPublic, settings, loading, path, nextKey, callbacks, happened, saw>>
  BY DEF configVars
<1>2. UNCHANGED <<Current, Count>>
  BY <1>1, KeysStay
<1>3. UNCHANGED <<KeysInv, LoadedInv, FailedInv, RefusedInv>>
  BY <1>1, <1>2 DEF KeysInv, LoadedInv, FailedInv, RefusedInv, PutBack
<1>4. ConfigInv'
  BY <1>1, <1>3 DEF ConfigInv
<1>5. CallbackInv'
  BY <1>1 DEF CallbackInv, Scheduled
<1> QED BY <1>4, <1>5

\* The inductive invariant of the command.
PlayInv == ConfigInv /\ CallbackInv /\ ParserInv /\ CommandInv

\* The command starts in it,
LEMMA PlayInitInv == Init => PlayInv
<1> SUFFICES ASSUME Init PROVE PlayInv
  OBVIOUS
<1>1. ConfigInv /\ CallbackInv
  BY ConfigInitInv DEF Init
<1>2. ParserInv
  BY ParserInitInv DEF Init
<1>3. CommandInv
  BY DEF Init, ParserInit, CommandInv, Stages
<1> QED BY <1>1, <1>2, <1>3 DEF PlayInv

\* and every step of the command keeps it.
LEMMA PlayNextInv == PlayInv /\ [Next]_vars => PlayInv'
<1> SUFFICES ASSUME PlayInv, [Next]_vars PROVE PlayInv'
  OBVIOUS
<1>1. ConfigInv /\ CallbackInv /\ ParserInv /\ CommandInv
  BY DEF PlayInv
<1>2. CASE Startup
  <2>1. UNCHANGED <<parserVars, commandVars>> /\ ConfigNext /\ stage \in {"register", "config"}
    BY <1>2 DEF Startup
  <2>2. parsing = "no"
    BY <1>1, <2>1 DEF CommandInv
  <2>3. ConfigInv' /\ CallbackInv'
    BY <1>1, <2>1, ConfigNextInv
  <2>4. ParserInv'
    BY <1>1, <2>1, <2>2, ParserStays
  <2>5. CommandInv'
    BY <1>1, <2>1 DEF CommandInv, parserVars, commandVars
  <2> QED BY <2>3, <2>4, <2>5 DEF PlayInv
<1>3. ASSUME UNCHANGED <<configVars, parserVars>>, CommandInv' PROVE PlayInv'
  <2>1. settings' = settings
    BY <1>3 DEF configVars
  <2> QED BY <1>1, <1>3, <2>1, ConfigStays, ParserStays DEF PlayInv
<1>4. ASSUME UNCHANGED <<configVars, parserVars>>
      PROVE  UNCHANGED <<loading, parsing, plays>>
  BY <1>4 DEF configVars, parserVars
<1>5. CASE NewPlayCommand
  BY <1>1, <1>3, <1>4, <1>5 DEF NewPlayCommand, CommandInv, Stages
<1>6. CASE ConfigLoaded
  BY <1>1, <1>3, <1>4, <1>6 DEF ConfigLoaded, ConfigDone, CommandInv, Stages, Ended
<1>7. CASE ParseInventory
  BY <1>1, <1>3, <1>4, <1>7 DEF ParseInventory, CommandInv, Stages, Ended
<1>8. CASE GiveExtraVars
  BY <1>1, <1>3, <1>4, <1>8 DEF GiveExtraVars, CommandInv, Stages
<1>9. CASE SetExtraVars
  BY <1>1, <1>3, <1>4, <1>9 DEF SetExtraVars, CommandInv, Stages, Ended
<1>10. CASE ReadPlaybook
  <2>1. UNCHANGED configVars /\ stage = "playbook" /\ UNCHANGED <<plays, executed>>
    BY <1>10 DEF ReadPlaybook
  <2>2. loading' = loading
    BY <2>1 DEF configVars
  <2>3. CommandInv'
    BY <1>1, <1>10, <2>1, <2>2 DEF ReadPlaybook, CommandInv, Stages, Ended
  <2> QED BY <1>1, <1>10, <2>1, <2>3, ReadPlaybookStep, ConfigStays DEF PlayInv
<1>11. CASE ParsePlaybook
  <2>1. UNCHANGED configVars /\ stage = "playbook" /\ UNCHANGED <<stage, exit>>
    BY <1>11 DEF ParsePlaybook, commandVars
  <2>2. loading' = loading
    BY <2>1 DEF configVars
  <2>3. CommandInv'
    BY <1>1, <2>1, <2>2 DEF CommandInv, Stages
  <2> QED BY <1>1, <1>11, <2>1, <2>3, ParsePlaybookStep, ConfigStays DEF PlayInv
<1>12. CASE PlaybookParsed
  BY <1>1, <1>3, <1>4, <1>12 DEF PlaybookParsed, CommandInv, Stages, Ended
<1>13. CASE AskPasswords
  BY <1>1, <1>3, <1>4, <1>13 DEF AskPasswords, CommandInv, Stages, Ended
<1>14. CASE ExecutePlaybook
  BY <1>1, <1>3, <1>4, <1>14 DEF ExecutePlaybook, CommandInv, Stages, Ended
<1>15. CASE UNCHANGED vars
  <2>1. UNCHANGED <<configVars, parserVars, commandVars>>
    BY <1>15 DEF vars
  <2>2. UNCHANGED <<stage, exit, executed>>
    BY <2>1 DEF commandVars
  <2>3. CommandInv'
    BY <1>1, <1>4, <2>1, <2>2 DEF CommandInv
  <2> QED BY <1>3, <2>1, <2>3
<1> QED BY <1>2, <1>5, <1>6, <1>7, <1>8, <1>9, <1>10, <1>11, <1>12, <1>13, <1>14, <1>15 DEF Next

\* No file is looked for before the flags are registered, so that these have
\* the defaults of the base definitions.
FlagInv ==
    /\ stage = "register" => loading = "no"
    /\ stage # "register" => askDefault = BaseDefs.ask

\* The init functions schedule their callbacks, the command registers its flags,
\* and only then does a step look for a file.
LEMMA FlagStep == PlayInv /\ FlagInv /\ [Next]_vars => FlagInv'
<1> SUFFICES ASSUME PlayInv, FlagInv, [Next]_vars PROVE FlagInv'
  OBVIOUS
<1>1. ConfigInv /\ CommandInv
  BY DEF PlayInv
<1>2. CASE Startup
  <2>1. UNCHANGED <<stage, askDefault>>
    BY <1>2 DEF Startup, commandVars
  <2>2. stage = "register" => loading' = "no"
    <3> SUFFICES ASSUME stage = "register" PROVE loading' = "no"
      OBVIOUS
    <3>1. loading = "no" /\ ~Scheduled /\ ConfigNext
      BY <1>2 DEF FlagInv, Startup
    <3> QED BY <3>1 DEF ConfigNext, ScheduleCallback, TryLoadConfigFile, NoConfigFile,
                        ParseConfigFile, UpdateFieldFromIni, ConfigFileRead, ConfigFileRefused
  <2> QED BY <2>1, <2>2 DEF FlagInv
<1>3. CASE NewPlayCommand
  <2>1. loading = "no" /\ settings = BaseDefs
    BY <1>1, <1>3 DEF NewPlayCommand, FlagInv, ConfigInv
  <2> QED BY <1>3, <2>1 DEF NewPlayCommand, FlagInv
<1>4. CASE UNCHANGED vars
  BY <1>4 DEF vars, configVars, commandVars, FlagInv
<1>5. ASSUME stage # "register", stage' # "register", askDefault' = askDefault PROVE FlagInv'
  BY <1>5 DEF FlagInv
<1>6. CASE ParsePlaybook
  BY <1>5, <1>6 DEF ParsePlaybook, commandVars
<1>7. CASE ConfigLoaded \/ ParseInventory \/ GiveExtraVars \/ SetExtraVars \/ ReadPlaybook
           \/ PlaybookParsed \/ AskPasswords \/ ExecutePlaybook
  BY <1>5, <1>7 DEF ConfigLoaded, ParseInventory, GiveExtraVars, SetExtraVars, ReadPlaybook,
                    PlaybookParsed, AskPasswords, ExecutePlaybook, Ended
<1> QED BY <1>2, <1>3, <1>4, <1>6, <1>7 DEF Next

\* Of a configuration file either every key before a line that is too long took
\* effect, or the file was refused and no setting but the end of a list did; and
\* everyone who waits for the configuration is told once, of the settings that
\* stay: for any files, with any number of keys, at any of the four locations
\* (TryLoadConfigFile).  The defaults of the flags are those of the base
\* definitions whatever the file says.
THEOREM CommandSettings == Spec => []SettingsWhole
<1>1. PlayInv => FileTakenWhole
  <2> SUFFICES ASSUME PlayInv, ConfigDone PROVE FileTakenWhole
    BY DEF FileTakenWhole
  <2>1. ConfigInv /\ CallbackInv
    BY DEF PlayInv
  <2>2. loading \in {"loaded", "refused"}
    BY DEF ConfigDone
  <2>3. \A c \in DisplayCallbacks : saw[c] = <<settings>>
    BY <2>1, <2>2 DEF CallbackInv
  <2>4. CASE loading = "refused"
    <3>1. RefusedInv
      BY <2>1, <2>4 DEF ConfigInv
    <3> QED BY <2>3, <2>4, <3>1 DEF FileTakenWhole, RefusedInv, Current
  <2>5. CASE loading = "loaded" /\ path = ""
    <3>1. settings = BaseDefs
      BY <2>1, <2>5 DEF ConfigInv, LoadedInv
    <3> QED BY <2>3, <2>5, <3>1 DEF FileTakenWhole
  <2>6. CASE loading = "loaded" /\ path # ""
    <3>1. settings = Applied(Current, Count) /\ \A i \in 1..Count : Current[i].ok
      BY <2>1, <2>6 DEF ConfigInv, LoadedInv
    <3>2. DOMAIN settings = DOMAIN BaseDefs
      BY <3>1 DEF Applied
    <3> QED BY <2>3, <2>6, <3>1, <3>2 DEF FileTakenWhole, Current, Count
  <2> QED BY <2>2, <2>4, <2>5, <2>6
<1>2. Init => FlagInv
  BY DEF Init, ConfigInit, FlagInv
<1>3. PlayInv /\ FlagInv => SettingsWhole
  BY <1>1 DEF SettingsWhole, FlagInv
<1> QED BY <1>2, <1>3, PlayInitInv, PlayNextInv, FlagStep, PTL DEF Spec

\* ParsePlays accepts a playbook exactly when all of it is well formed, whatever
\* the order of the range over a task's keys, and hands over every play and task
\* of it with its meaning, in which a text with an open quote or block has no
\* argument at all; the command succeeds only after that, with a configuration:
\* for any modules, words and bounds on the playbook.
THEOREM CommandParsed == Spec => []ParsedFaithfully
<1>1. PlayInv => ParsedFaithfully
  <2> SUFFICES ASSUME PlayInv PROVE ParsedFaithfully
    OBVIOUS
  <2>1. ParserInv /\ CommandInv /\ FileTypes
    BY DEF PlayInv, ParserInv
  <2>2. \A p : PlayWellFormed(p) <=> PlayAccepted(p, settings.strategy)
    BY DEF PlayWellFormed, PlayAccepted
  <2>3. DOMAIN raw = 1..Len(raw) /\ \A i \in DOMAIN raw : DOMAIN raw[i].tasks = 1..Len(raw[i].tasks)
    <3>1. raw \in Seq(RawPlay)
      BY <2>1 DEF FileTypes
    <3>2. DOMAIN raw = 1..Len(raw)
      BY <3>1, SeqFacts
    <3>3. ASSUME NEW i \in DOMAIN raw PROVE DOMAIN raw[i].tasks = 1..Len(raw[i].tasks)
      <4>1. raw[i] \in RawPlay
        BY <3>1, <3>2
      <4>2. raw[i].tasks \in Seq(Seq(Item))
        BY <4>1 DEF RawPlay
      <4> QED BY <4>2, SeqFacts
    <3> QED BY <3>2, <3>3
  <2>4. ASSUME parsing = "accepted"
        PROVE  /\ Len(plays) = Len(raw)
               /\ \A i \in DOMAIN raw :
                    /\ PlayWellFormed(raw[i])
                    /\ Len(plays[i].tasks) = Len(raw[i].tasks)
                    /\ \A j \in DOMAIN raw[i].tasks : Means(plays[i].tasks[j], raw[i].tasks[j])
    <3>1. DoneAll /\ Len(plays) = Len(raw)
      BY <2>1, <2>4 DEF ParserInv
    <3>2. ASSUME NEW i \in DOMAIN raw
          PROVE  /\ PlayWellFormed(raw[i])
                 /\ Len(plays[i].tasks) = Len(raw[i].tasks)
                 /\ \A j \in DOMAIN raw[i].tasks : Means(plays[i].tasks[j], raw[i].tasks[j])
      <4>1. PlayDone(plays[i], raw[i], settings.strategy)
        BY <2>3, <3>1 DEF DoneAll
      <4>2. PlayAccepted(raw[i], settings.strategy) /\ TasksFaithful(plays[i], raw[i], Len(raw[i].tasks))
        BY <4>1 DEF PlayDone
      <4> QED BY <2>2, <2>3, <4>2 DEF TasksFaithful
    <3> QED BY <3>1, <3>2
  <2>5. parsing \in {"error", "panic"} /\ raw # <<>> => \E i \in DOMAIN raw : ~PlayWellFormed(raw[i])
    BY <2>1, <2>2 DEF ParserInv
  <2>6. exit = 0 /\ stage = "ended" => loading = "loaded" /\ executed = plays
    BY <2>1 DEF CommandInv
  <2> QED BY <2>4, <2>5, <2>6 DEF ParsedFaithfully
<1> QED BY <1>1, PlayInitInv, PlayNextInv, PTL DEF Spec
===============================================================================
