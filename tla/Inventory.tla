----------------------------- MODULE Inventory -----------------------------
(***************************************************************************)
(* Reading an inventory (inventory package): the INI reader line by line,  *)
(* the YAML reader key by key, both building the same graph of groups and  *)
(* hosts, then formatAndValidate, then host patterns.                      *)
(*                                                                         *)
(* The slices of the code are sets here: nothing depends on their order    *)
(* but which of two groups wins when both define a variable, and GetVars   *)
(* sorts them first.  A group has at most one variable, named after it.    *)
(***************************************************************************)
EXTENDS Integers, FiniteSets, Sequences

CONSTANTS
    Groups,     \* group names of the file, with "all" and "ungrouped"
    Hosts,      \* host names; a host may be named like a group
    MaxLines    \* bound on the lines or keys of the file

ASSUME InventoryAssumption ==
    /\ {"all", "ungrouped"} \subseteq Groups /\ IsFiniteSet(Groups)
    /\ IsFiniteSet(Hosts) /\ MaxLines \in Nat

VARIABLES
    format,     \* "ini" or "yaml"
    status,     \* "reading", "accepted", "rejected", "malformed", "panic"
    lines,      \* lines or keys read
    group, typ, \* the INI section, or the YAML group; typ: "section", "vars", "children"
    keys,       \* top-level keys of the YAML file so far
    d           \* the inventory.Data

vars == <<format, status, lines, group, typ, keys, d>>

\* groups and hosts: the keys of the maps.  children, parents, members (Group.Hosts)
\* and memberOf (Host.Groups) are relations.
Init ==
    /\ format \in {"ini", "yaml"}
    /\ status = "reading" /\ lines = 0
    /\ group = "all" /\ typ = "section" /\ keys = {}
    /\ d = [groups |-> {"all"}, hosts |-> {}, initialized |-> {"all"}, withVars |-> {},
            children |-> {}, parents |-> {}, members |-> {}, memberOf |-> {}]

-----------------------------------------------------------------------------
(* The readers.                                                             *)

\* groupByName: made on demand.
Named(e, g) == [e EXCEPT !.groups = @ \cup {g}]

AddHosts(e, g, hs) ==
    [e EXCEPT !.hosts = @ \cup hs,
              !.memberOf = @ \cup (hs \X {g}),
              !.members = @ \cup ({g} \X hs)]

\* Mutant: the child does not learn of its parent.
AddChildrenOneWay(e, g, cs) ==
    [e EXCEPT !.groups = @ \cup cs, !.children = @ \cup ({g} \X cs)]

AddChildren(e, g, cs) ==
    [e EXCEPT !.groups = @ \cup cs,
              !.parents = @ \cup (cs \X {g}),
              !.children = @ \cup ({g} \X cs)]

Reading(f) == format = f /\ status = "reading" /\ lines < MaxLines
Read == lines' = lines + 1 /\ UNCHANGED <<format, status>>

HandleSectionLine(g, t) ==
    /\ Reading("ini")
    /\ group' = g /\ typ' = t
    /\ d' = [Named(d, g) EXCEPT !.initialized = IF t = "vars" THEN @ ELSE @ \cup {g}]
    /\ Read /\ UNCHANGED keys

\* handleDataLine, one disjunct per kind of section.
HandleDataLine ==
    /\ Reading("ini")
    /\ \/ typ = "section" /\ \E h \in Hosts : d' = AddHosts(d, group, {h})
       \/ typ = "vars" /\ d' = [d EXCEPT !.withVars = @ \cup {group}]
       \/ typ = "children" /\ \E c \in Groups : d' = AddChildren(d, group, {c})
    /\ Read /\ UNCHANGED <<group, typ, keys>>

\* A line that does not have the form its section asks for.
BadLine ==
    /\ Reading("ini")
    /\ status' = "malformed"
    /\ UNCHANGED <<format, lines, group, typ, keys, d>>

\* getData and addGroup: the next top-level key.
AddGroup(g) ==
    /\ Reading("yaml") /\ g \notin keys
    /\ group' = g /\ keys' = keys \cup {g} /\ typ' = "section"
    /\ d' = [Named(d, g) EXCEPT !.initialized = @ \cup {g}]
    /\ Read

\* processGroupElement: the elements of the current key, each at most once.  What
\* they do commutes, so one order stands for all; typ remembers the last one.
ProcessGroupElement ==
    /\ Reading("yaml") /\ keys # {}
    /\ \/ typ = "section" /\ typ' = "hosts"
          /\ \E hs \in SUBSET Hosts : d' = AddHosts(d, group, hs)
       \/ typ \in {"section", "hosts"} /\ typ' = "vars"
          /\ d' = [d EXCEPT !.withVars = @ \cup {group}]
       \/ typ # "children" /\ typ' = "children"
          /\ \E cs \in SUBSET Groups :
                d' = [AddChildren(d, group, cs) EXCEPT !.initialized = @ \cup cs]
    /\ Read /\ UNCHANGED <<group, keys>>

\* addGroups expects a MapItem where yaml.v2 gives a MapSlice: a child with a body of
\* its own leaves a nil group, whose Parents are then set.
NestedChild ==
    /\ Reading("yaml") /\ keys # {} /\ typ # "children"
    /\ status' = "panic"
    /\ UNCHANGED <<format, lines, group, typ, keys, d>>

\* A value of another type.
BadValue ==
    /\ Reading("yaml")
    /\ status' = "malformed"
    /\ UNCHANGED <<format, lines, group, typ, keys, d>>

-----------------------------------------------------------------------------
(* formatAndValidate.                                                       *)

\* Hosts of all go to ungrouped; their own Groups are not touched.
AddUngroupedGroup(e) ==
    LET loose == {h \in Hosts : <<"all", h>> \in e.members} IN
    [Named(e, "ungrouped") EXCEPT
        !.initialized = @ \cup {"ungrouped"},
        !.members = {m \in @ : m[1] # "all"} \cup ({"ungrouped"} \X loose)]

Parents(e, g) == {p \in e.groups : <<g, p>> \in e.parents}

\* Mutant: only childless groups are attached.
AddToAllGroupLeaves(e) ==
    LET roots == {g \in e.groups \ {"all"} : Parents(e, g) = {} /\ \A c \in e.groups : <<g, c>> \notin e.children}
    IN AddChildren(e, "all", roots)

AddToAllGroup(e) ==
    LET roots == {g \in e.groups \ {"all"} : Parents(e, g) = {}}
    IN AddChildren(e, "all", roots)

\* simplify drops duplicates, which sets do not have.
RemoveAllGroupFromHosts(e) == [e EXCEPT !.memberOf = {m \in @ : m[2] # "all"}]

\* Mutant: the bound is one too small.
CircularReferenceShallow(e, g) ==
    LET n == Cardinality(e.groups) - 1
        circular[k \in 0..n] ==
            [x \in e.groups |->
                k = 0 \/ \E p \in Parents(e, x) : p = g \/ circular[k - 1][p]]
    IN circular[n][g]

\* circularReference(g.Parents, g, len(d.Groups)).
CircularReference(e, g) ==
    LET n == Cardinality(e.groups)
        circular[k \in 0..n] ==
            [x \in e.groups |->
                k = 0 \/ \E p \in Parents(e, x) : p = g \/ circular[k - 1][p]]
    IN circular[n][g]

Validate(e) ==
    /\ e.groups \subseteq e.initialized
    /\ \A g \in e.groups : ~ CircularReference(e, g)

Format(e) == RemoveAllGroupFromHosts(AddToAllGroup(AddUngroupedGroup(e)))

FormatAndValidate ==
    /\ status = "reading"
    /\ d' = Format(d)
    /\ status' = IF Validate(d') THEN "accepted" ELSE "rejected"
    /\ UNCHANGED <<format, lines, group, typ, keys>>

Done == status # "reading" /\ UNCHANGED vars

Next ==
    \/ \E g \in Groups, t \in {"section", "vars", "children"} : HandleSectionLine(g, t)
    \/ HandleDataLine \/ BadLine
    \/ \E g \in Groups : AddGroup(g)
    \/ ProcessGroupElement \/ NestedChild \/ BadValue
    \/ FormatAndValidate \/ Done

Spec == Init /\ [][Next]_vars

-----------------------------------------------------------------------------
(* What an accepted inventory answers.                                      *)

Accepted == status = "accepted"

\* Group.GetHosts: recursion over the children; in an accepted inventory it is no
\* deeper than there are groups.
GetHosts(g) ==
    LET n == Cardinality(d.groups)
        hosts[k \in 0..n] ==
            [x \in d.groups |->
                {h \in d.hosts : <<x, h>> \in d.members}
                \cup IF k = 0 THEN {}
                     ELSE UNION {hosts[k - 1][c] : c \in {c \in d.groups : <<x, c>> \in d.children}}]
    IN hosts[n][g]

\* Mutant: the variables of parents are left out.
AllVarsOwn(h) == {g \in d.withVars : <<h, g>> \in d.memberOf}

\* Host.AllVars and Group.AllVars: the groups whose variable the host sees.
AllVars(h) ==
    LET n == Cardinality(d.groups)
        own(x) == {x} \cap d.withVars
        seen[k \in 0..n] ==
            [x \in d.groups |-> own(x) \cup IF k = 0 THEN {} ELSE UNION {seen[k - 1][p] : p \in Parents(d, x)}]
    IN UNION {seen[n][g] : g \in {g \in d.groups : <<h, g>> \in d.memberOf}}

\* Mutant: an intersection keeps the others.
TermSwapped(hosts, t) ==
    CASE t.op = "!" -> hosts \cap GetHosts(t.name)
      [] t.op = "&" -> hosts \ GetHosts(t.name)
      [] OTHER -> hosts \cup GetHosts(t.name)

\* One term of determineHostsFromGroupsPattern.
Term(hosts, t) ==
    CASE t.op = "!" -> hosts \ GetHosts(t.name)
      [] t.op = "&" -> hosts \cap GetHosts(t.name)
      [] OTHER -> hosts \cup GetHosts(t.name)

\* determineHostsFromGroupsPattern; every name exists.
GroupsPattern(p) ==
    LET hosts[i \in 0..Len(p)] == IF i = 0 THEN {} ELSE Term(hosts[i - 1], p[i]) IN hosts[Len(p)]

\* DetermineHosts of a pattern that is one name of a host or group.
SingleName(name) ==
    IF name = "all" THEN d.hosts ELSE IF name \in d.hosts THEN {name} ELSE GetHosts(name)

-----------------------------------------------------------------------------
(* Properties.                                                              *)

TypeOK ==
    /\ format \in {"ini", "yaml"} /\ status \in {"reading", "accepted", "rejected", "malformed", "panic"}
    /\ lines \in 0..MaxLines /\ group \in d.groups /\ keys \subseteq Groups
    /\ typ \in {"section", "vars", "children", "hosts"}
    /\ d \in [groups : SUBSET Groups, hosts : SUBSET Hosts,
              initialized : SUBSET Groups, withVars : SUBSET Groups,
              children : SUBSET (Groups \X Groups), parents : SUBSET (Groups \X Groups),
              members : SUBSET (Groups \X Hosts), memberOf : SUBSET (Hosts \X Groups)]
    /\ d.initialized \subseteq d.groups /\ d.withVars \subseteq d.groups
    /\ d.children \subseteq d.groups \X d.groups /\ d.parents \subseteq d.groups \X d.groups
    /\ d.members \subseteq d.groups \X d.hosts /\ d.memberOf \subseteq d.hosts \X d.groups

\* Children and Parents, kept in two slices by both readers and by addToAllGroup,
\* always describe the same graph.
SameGraph == d.children = {<<e[2], e[1]>> : e \in d.parents}

\* Both readers and formatAndValidate keep Group.Hosts and Host.Groups in step for
\* the groups the file declares itself.
SameMembers ==
    \A g \in d.groups \ {"all", "ungrouped"}, h \in d.hosts :
        <<g, h>> \in d.members <=> <<h, g>> \in d.memberOf

\* The two slices in which the code keeps every relation agree at every line.
SlicesAgree == SameGraph /\ SameMembers

Acyclic == \A S \in SUBSET d.groups : S # {} => \E g \in S : Parents(d, g) \cap S = {}

\* The depth-bounded search of validateNoCircularReferences is exact: what it accepts
\* has no cycle at all, so that GetHosts and AllVars end, and what it rejects has one,
\* or a group that was never declared: a long chain of groups is no cycle.
CycleSearchExact ==
    /\ Accepted => Acyclic
    /\ status = "rejected" => ~ Acyclic \/ ~ (d.groups \subseteq d.initialized)

\* The group all, which is a pattern of its own in DetermineHosts, is also what
\* GetHosts finds below the root: no host falls out of the group graph.
AllMeansAll == Accepted => GetHosts("all") = d.hosts /\ SingleName("all") = d.hosts

\* GetHosts goes down the children, AllVars up the parents, and they agree: a host
\* sees no variables but those of the groups it is part of, and all of these if it is
\* listed in groups of its own.  For a host addUngroupedGroup moved they disagree: it
\* is among the hosts of ungrouped and all, but no group is among its own, and with
\* no other group it sees no variables at all, those of all included.
VarsReachHosts ==
    Accepted => \A h \in d.hosts :
        LET reaching == {g \in d.withVars : h \in GetHosts(g)}
            listedIn == {g \in d.groups : <<g, h>> \in d.members}
            moved == "ungrouped" \in listedIn /\ <<h, "ungrouped">> \notin d.memberOf
        IN /\ AllVars(h) \subseteq reaching
           /\ ~moved => AllVars(h) = reaching
           /\ moved /\ listedIn = {"ungrouped"} =>
                /\ AllVars(h) = {}
                /\ "all" \in d.withVars => "all" \in reaching

Patterns == UNION {[1..n -> [op : {"+", "!", "&"}, name : d.groups \ {"all"}]] : n \in 1..3}

\* A pattern of groups selects a host iff some group of it adds the host and no later
\* term takes it away.
PatternMeaning ==
    Accepted => \A p \in Patterns : \A h \in d.hosts :
        h \in GroupsPattern(p) <=>
            \E i \in 1..Len(p) :
                /\ p[i].op = "+" /\ h \in GetHosts(p[i].name)
                /\ \A j \in (i + 1)..Len(p) :
                      /\ p[j].op = "!" => h \notin GetHosts(p[j].name)
                      /\ p[j].op = "&" => h \in GetHosts(p[j].name)
=============================================================================
