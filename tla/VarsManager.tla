---------------------------- MODULE VarsManager ----------------------------
(***************************************************************************)
(* vars.Manager: which value a variable has for a task.  Layers of the     *)
(* inventory, the play, the task, the command line and the loop are merged *)
(* bottom up by GetVars, while the values of play and task variables are   *)
(* templates rendered with what has been merged so far.                    *)
(*                                                                         *)
(* One host; another one differs only in its own layers.  A layer is a     *)
(* function from names to values.                                          *)
(***************************************************************************)
EXTENDS Integers, Sequences

CONSTANTS
    Names, Values,
    Error,          \* what rendering a broken template gives
    Layers,         \* inventory and playbook variables: records all, groups, host, play, task
    Arguments,      \* lists of --extra-vars arguments
    Configured,     \* the values VARIABLE_PRECEDENCE may have
    Items,          \* loop items
    Aliases,        \* MagicVariableMapping: attribute -> sequence of names
    Render(_, _)    \* the template engine: value of a variable in an environment

IsLayer(f) ==
    /\ f = [n \in DOMAIN f |-> f[n]]
    /\ DOMAIN f \subseteq Names
    /\ \A n \in DOMAIN f : f[n] \in Values

Kinds == {"pairs", "file", "yaml", "path"}

Argument == UNION {{a[i] : i \in DOMAIN a} : a \in Arguments}

ASSUME VarsAssumption ==
    /\ Error \notin Values
    /\ \A l \in Layers :
        /\ IsLayer(l.all) /\ IsLayer(l.host) /\ IsLayer(l.play) /\ IsLayer(l.task)
        /\ \A i \in DOMAIN l.groups : IsLayer(l.groups[i])
    /\ Arguments \subseteq Seq(Argument)
    /\ \A a \in Argument : a.kind \in Kinds /\ IsLayer(a.vars)
    /\ \A c \in Configured : c \in Seq(STRING)
    /\ "item" \in Names /\ Items \subseteq Values
    /\ \A a \in DOMAIN Aliases : a \in Names /\ a # "item" /\ Aliases[a] \in Seq(Names)
    /\ \A a \in DOMAIN Aliases : \A i \in DOMAIN Aliases[a] :
        Aliases[a][i] \notin DOMAIN Aliases \cup {"item"}

VARIABLES
    phase,      \* "arguments", "running", "refused" (SetExtraVars failed), "panic"
    arguments,  \* --extra-vars arguments not yet taken
    layers, precedence,
    extraVars,
    loopVars    \* hostLoopVars[host]; a missing entry reads like an empty one

vars == <<phase, arguments, layers, precedence, extraVars, loopVars>>

Empty == <<>>

\* combineVars: a copy, b wins.
CombineVars(a, b) ==
    [n \in DOMAIN a \cup DOMAIN b |-> IF n \in DOMAIN b THEN b[n] ELSE a[n]]

\* MakeManager.
Init ==
    /\ phase = "arguments"
    /\ arguments \in Arguments
    /\ layers \in Layers
    /\ precedence \in Configured
    /\ extraVars = Empty /\ loopVars = Empty

-----------------------------------------------------------------------------
(* GetVars.                                                                 *)

Merged(s) ==
    LET merged[i \in 0..Len(s)] == IF i = 0 THEN Empty ELSE CombineVars(merged[i - 1], s[i])
    IN merged[Len(s)]

\* The variables of an entry of VARIABLE_PRECEDENCE: those of plugins are not
\* supported, unknown entries are ignored.
EntryVars(entry) ==
    IF entry = "all_inventory" THEN layers.all
    ELSE IF entry = "groups_inventory" THEN Merged(layers.groups)
    ELSE Empty

GroupVars == Merged([i \in DOMAIN precedence |-> EntryVars(precedence[i])])

\* TemplateVarsTemplates: all variables of a layer see the same environment, not
\* each other.
TemplateVars(templates, env) == [n \in DOMAIN templates |-> Render(templates[n], env)]

Fails(rendered) == \E n \in DOMAIN rendered : rendered[n] = Error

Set(a, env) == {i \in DOMAIN Aliases[a] : Aliases[a][i] \in DOMAIN env}

\* Mutant: the first alias that is set wins.
SetMagicVarsFirst(env) ==
    [a \in {b \in DOMAIN Aliases : Set(b, env) # {}} |->
        env[Aliases[a][CHOOSE i \in Set(a, env) : \A j \in Set(a, env) : i <= j]]]

\* SetMagicVars: an attribute takes the value of the last of its aliases that is set.
SetMagicVars(env) ==
    [a \in {b \in DOMAIN Aliases : Set(b, env) # {}} |->
        env[Aliases[a][CHOOSE i \in Set(a, env) : \A j \in Set(a, env) : j <= i]]]

\* Mutant: the play's templates are followed by the task's at once.
GetVarsTwice(ofHost, ofTask) ==
    LET base   == CombineVars(IF ofHost THEN CombineVars(GroupVars, layers.host) ELSE Empty, extraVars)
        play   == TemplateVars(layers.play, base)
        env    == CombineVars(base, play)
        task   == IF ofTask THEN TemplateVars(layers.task, env) ELSE Empty
        merged == CombineVars(CombineVars(env, task), extraVars)
    IN IF Fails(play) \/ Fails(task) THEN Error
       ELSE CombineVars(CombineVars(merged, SetMagicVars(merged)),
                        IF ofHost THEN loopVars ELSE Empty)

\* GetVars(play, host or nil, task or nil).  Facts, include_vars and set_fact have no
\* entry: their maps are never made (see SaveFacts).
GetVars(ofHost, ofTask) ==
    LET base   == CombineVars(IF ofHost THEN CombineVars(GroupVars, layers.host) ELSE Empty, extraVars)
        play   == TemplateVars(layers.play, base)
        env    == CombineVars(CombineVars(base, play), extraVars)
        task   == IF ofTask THEN TemplateVars(layers.task, env) ELSE Empty
        merged == CombineVars(CombineVars(env, task), extraVars)
    IN IF Fails(play) \/ Fails(task) THEN Error
       ELSE CombineVars(CombineVars(merged, SetMagicVars(merged)),
                        IF ofHost THEN loopVars ELSE Empty)

-----------------------------------------------------------------------------
(* Operations.                                                              *)

\* SetExtraVars, one argument: pairs are merged, files and YAML only warned about, a
\* bare path refused, and the run with it.
SetExtraVar ==
    /\ phase = "arguments" /\ arguments # <<>>
    /\ LET a == Head(arguments) IN
       /\ extraVars' = IF a.kind = "pairs" THEN CombineVars(extraVars, a.vars) ELSE extraVars
       /\ phase' = IF a.kind = "path" THEN "refused" ELSE phase
    /\ arguments' = Tail(arguments)
    /\ UNCHANGED <<layers, precedence, loopVars>>

\* Every argument has been taken and the playbook is run.
StartPlaybook ==
    /\ phase = "arguments" /\ arguments = <<>>
    /\ phase' = "running"
    /\ UNCHANGED <<arguments, layers, precedence, extraVars, loopVars>>

ResetLoopContext ==
    /\ phase = "running"
    /\ loopVars' = Empty
    /\ UNCHANGED <<phase, arguments, layers, precedence, extraVars>>

SetLoopItem(v) ==
    /\ phase = "running"
    /\ loopVars' = CombineVars(loopVars, [n \in {"item"} |-> v])
    /\ UNCHANGED <<phase, arguments, layers, precedence, extraVars>>

\* SaveFacts: MakeManager makes none of hostFacts, hostNonPersistentFacts and hostVars,
\* so that whatever the bucket the first fact is an assignment to a nil map.  Without
\* facts, or with an unknown bucket, nothing happens.
SaveFacts(known) ==
    /\ phase = "running"
    /\ phase' = IF known THEN "panic" ELSE phase
    /\ UNCHANGED <<arguments, layers, precedence, extraVars, loopVars>>

Done == phase \in {"refused", "panic"} /\ UNCHANGED vars

Next ==
    \/ SetExtraVar \/ StartPlaybook \/ ResetLoopContext
    \/ \E v \in Items : SetLoopItem(v)
    \/ \E known \in BOOLEAN : SaveFacts(known)
    \/ Done

Spec == Init /\ [][Next]_vars

-----------------------------------------------------------------------------
(* Properties.                                                              *)

\* Whatever is merged into a layer is a layer, and a loop context holds nothing but the
\* loop's item.
TypeOK ==
    /\ phase \in {"arguments", "running", "refused", "panic"}
    /\ layers \in Layers /\ precedence \in Configured /\ arguments \in Seq(Argument)
    /\ IsLayer(extraVars) /\ IsLayer(loopVars) /\ DOMAIN loopVars \subseteq {"item"}

\* The layers of a variable from the top down: the command line, the task, the play,
\* the host, its groups.  Templates are rendered in what lies below them, the command
\* line, which lies on top of everything, included.
Over(top, bottom) == CombineVars(bottom, top)

Below(ofHost) == IF ofHost THEN Over(layers.host, GroupVars) ELSE Empty

PlayValues(ofHost) == TemplateVars(layers.play, Over(extraVars, Below(ofHost)))

TaskValues(ofHost) ==
    TemplateVars(layers.task, Over(extraVars, Over(PlayValues(ofHost), Below(ofHost))))

LayersOf(ofHost, ofTask) ==
    IF ofTask
    THEN <<extraVars, TaskValues(ofHost), PlayValues(ofHost), Below(ofHost)>>
    ELSE <<extraVars, Empty, PlayValues(ofHost), Below(ofHost)>>

\* Ansible's precedence, which GetVars claims to follow: a variable that is neither the
\* loop's nor an attribute set through an alias has the value of the highest layer that
\* defines it, though extra vars are merged three times, below, between and above the
\* other layers.  In particular a task's template that names a variable given on the
\* command line sees that value also when the play defines the variable.
Precedence ==
    phase = "running" => \A ofHost, ofTask \in BOOLEAN :
        LET got == GetVars(ofHost, ofTask)
            l   == LayersOf(ofHost, ofTask)
        IN ~ (Fails(l[2]) \/ Fails(l[3])) =>
            \A n \in Names \ ({"item"} \cup DOMAIN Aliases) :
                /\ n \in DOMAIN got <=> \E i \in 1..4 : n \in DOMAIN l[i]
                /\ \A i \in 1..4 :
                    n \in DOMAIN l[i] /\ (\A j \in 1..(i - 1) : n \notin DOMAIN l[j]) => got[n] = l[i][n]

\* The attributes the ssh connection is made with (remote_user and others) follow the last
\* of their aliases that any layer defines, over an attribute of the same name that a
\* layer or the command line sets directly.
AliasFollowsLayers ==
    phase = "running" => \A ofHost, ofTask \in BOOLEAN :
        LET got == GetVars(ofHost, ofTask) IN
        got # Error => \A a \in DOMAIN Aliases : \A i \in DOMAIN Aliases[a] :
            /\ Aliases[a][i] \in DOMAIN got
            /\ \A j \in (i + 1)..Len(Aliases[a]) : Aliases[a][j] \notin DOMAIN got
            => a \in DOMAIN got /\ got[a] = got[Aliases[a][i]]
=============================================================================
