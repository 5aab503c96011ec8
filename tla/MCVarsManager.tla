--------------------------- MODULE MCVarsManager ---------------------------
(* VarsManager with two definitions spread over all layers, and extra vars. *)
EXTENDS VarsManager

MCNames == {"x", "y", "item", "ansible_ssh_user", "ansible_user", "remote_user"}
MCAliases == [a \in {"remote_user"} |-> <<"ansible_ssh_user", "ansible_user">>]
MCItems == {<<"from", "item1">>, <<"from", "item2">>}
MCConfigured == {<<"all_inventory", "groups_inventory", "all_plugins_inventory">>,
                 <<"groups_inventory", "unknown", "all_inventory">>}

\* A value is the layer it comes from; y of the play and of the task is a template
\* that names x.  Rendering an undefined name gives an empty text, rendering a broken
\* template (ansible_user of a task) fails.
Sources == {"all", "g1", "g2", "host", "play", "task", "first", "second", "item1", "item2", "none"}
MCValues == {"from", "rendered"} \X Sources \cup {<<"template", "x">>, <<"template", "broken">>}
MCRender(v, env) ==
    CASE v = <<"template", "x">> ->
            IF "x" \in DOMAIN env THEN <<"rendered", env["x"][2]>> ELSE <<"rendered", "none">>
      [] v = <<"template", "broken">> -> Error
      [] OTHER -> v

Pairs == {"all", "g1", "g2", "host", "play", "task"} \X MCNames
Definitions == {{}} \cup {{p, q} : p \in Pairs, q \in Pairs}

Layer(defs, l) ==
    [n \in {p[2] : p \in {q \in defs : q[1] = l}} |->
        IF l \in {"play", "task"} /\ n = "y" THEN <<"template", "x">>
        ELSE IF l = "task" /\ n = "ansible_user" THEN <<"template", "broken">>
        ELSE <<"from", l>>]

MCLayers ==
    {[all |-> Layer(D, "all"), groups |-> <<Layer(D, "g1"), Layer(D, "g2")>>,
      host |-> Layer(D, "host"), play |-> Layer(D, "play"), task |-> Layer(D, "task")]
        : D \in Definitions}

Arg(k, n, v) == [kind |-> k, vars |-> [m \in {n} |-> <<"from", v>>]]
MCArguments ==
    {<<>>, <<Arg("file", "x", "first"), Arg("yaml", "x", "first")>>}
    \cup {<<Arg("pairs", n, "first")>> : n \in MCNames}
    \cup {<<Arg("pairs", n, "first"), Arg("pairs", "x", "second")>> : n \in MCNames}
    \cup {<<Arg("pairs", "x", "first"), Arg("path", "x", "second")>>}
=============================================================================
