------------------------ MODULE MCPlaybookExecutor ------------------------
(***************************************************************************)
(* Small playbooks: both strategies, a loop, two become users, a play      *)
(* without hosts, without tasks, and two plays in a row.                   *)
(***************************************************************************)
EXTENDS PlaybookExecutor

CONSTANTS h1, h2, u1

T(who, loop, plugin) == [who |-> who, loop |-> loop, plugin |-> plugin]
P(strategy, hosts, tasks) == [strategy |-> strategy, hosts |-> hosts, tasks |-> tasks]

Plain == T(Default, FALSE, FALSE)
Loop == T(u1, TRUE, TRUE)
Become == T(u1, FALSE, FALSE)

LinearBook == <<P("linear", {h1, h2}, <<Loop, Plain>>), P("linear", {h1}, <<Become>>)>>
FreeBook == <<P("free", {h1, h2}, <<Become, Loop, Plain>>)>>
EdgeBook == <<P("free", {h1}, <<>>), P("linear", {}, <<Plain>>), P("free", {h2}, <<Loop, Plain>>),
              P("linear", {h2}, <<>>)>>

MCHosts == {h1, h2}
MCUsers == {u1}
MCPlaybooks == {LinearBook, FreeBook, EdgeBook, <<>>}
=============================================================================
