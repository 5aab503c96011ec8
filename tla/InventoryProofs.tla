-------------------------- MODULE InventoryProofs --------------------------
(***************************************************************************)
(* For any group and host names and files of any length: the two           *)
(* directions in which the readers keep the group graph, and those in      *)
(* which they keep memberships, never drift apart; the depth-bounded       *)
(* search for cycles is exact; and what an accepted inventory answers      *)
(* about hosts, variables and patterns is what the group graph says.       *)
(*                                                                         *)
(* The recursions of the code are recursive functions in the model.  They  *)
(* are unfolded with Recursion and SetInduction; Saturation says that a    *)
(* search from a set finds all it can reach in as many rounds as there are *)
(* groups, which is the bound the code uses.                               *)
(***************************************************************************)
EXTENDS Inventory, FiniteSetTheorems, WellFoundedInduction, TLAPS

-----------------------------------------------------------------------------
(* Induction, recursion and reachability.                                   *)

\* Induction over the naturals, for a set instead of a predicate.
LEMMA SetInduction ==
    ASSUME NEW S, 0 \in S, \A n \in Nat : n \in S => n + 1 \in S
    PROVE  \A n \in Nat : n \in S
<1> DEFINE T == {n \in Nat : n \notin S}
           R == OpToRel(<, Nat)
<1>1. IsWellFoundedOn(R, Nat)
  BY NatLessThanWellFounded
<1>2. \A x, y \in Nat : y < x => <<y, x>> \in R
  BY DEF OpToRel
<1> HIDE DEF R
<1> SUFFICES ASSUME T # {} PROVE FALSE
  OBVIOUS
<1>3. PICK x \in T : \A y \in T : ~(<<y, x>> \in R)
  BY <1>1, WFMin
<1>4. x # 0 /\ x - 1 \in Nat /\ x - 1 < x
  OBVIOUS
<1>5. x - 1 \in S
  BY <1>2, <1>3, <1>4
<1> QED BY <1>4, <1>5

\* f is b at 0, and every step from k - 1 to k is one of F[k].
Iterates(f, n, V, b, F) == f \in [0..n -> V] /\ f[0] = b /\ \A k \in 1..n : f[k] = F[k][f[k - 1]]

\* A function that is defined step by step from a first value exists.
LEMMA Recursion ==
    ASSUME NEW n \in Nat, NEW V, NEW b \in V, NEW F \in [1..n -> [V -> V]]
    PROVE  \E f : Iterates(f, n, V, b, F)
<1> DEFINE Upto(m, f) == f \in [0..m -> V] /\ f[0] = b /\ \A k \in 1..m : f[k] = F[k][f[k - 1]]
           S == {m \in Nat : m <= n => \E f : Upto(m, f)}
<1>1. 0 \in S
  <2>1. Upto(0, [k \in 0..0 |-> b])
    OBVIOUS
  <2> QED BY <2>1
<1>2. ASSUME NEW m \in Nat, m \in S PROVE m + 1 \in S
  <2> SUFFICES ASSUME m + 1 <= n PROVE \E f : Upto(m + 1, f)
    OBVIOUS
  <2>1. PICK f : Upto(m, f)
    BY <1>2
  <2> DEFINE h == [k \in 0..(m + 1) |-> IF k = m + 1 THEN F[m + 1][f[m]] ELSE f[k]]
  <2>2. f[m] \in V /\ m + 1 \in 1..n
    BY <2>1
  <2>3. F[m + 1][f[m]] \in V
    BY <2>2
  <2>4. h \in [0..(m + 1) -> V] /\ h[0] = b
    BY <2>1, <2>3
  <2>5. ASSUME NEW k \in 1..(m + 1) PROVE h[k] = F[k][h[k - 1]]
    <3>1. h[k - 1] = f[k - 1]
      OBVIOUS
    <3>2. CASE k = m + 1
      BY <3>1, <3>2
    <3>3. CASE k # m + 1
      <4>1. k \in 1..m /\ h[k] = f[k]
        BY <3>3
      <4> QED BY <2>1, <3>1, <4>1
    <3> QED BY <3>2, <3>3
  <2>6. Upto(m + 1, h)
    BY <2>4, <2>5
  <2> QED BY <2>6
<1> HIDE DEF S
<1>3. n \in S
  BY <1>1, <1>2, SetInduction
<1> QED BY <1>3 DEF S, Iterates

\* The least part of G that holds B and, with y, every x that R relates to y.
Least(G, B, R) ==
    {x \in G : \A T \in SUBSET G :
        B \subseteq T /\ (\A u, y \in G : <<u, y>> \in R /\ y \in T => u \in T) => x \in T}

\* It is such a part itself.
LEMMA LeastHolds ==
    ASSUME NEW G, NEW B \in SUBSET G, NEW R
    PROVE  /\ B \subseteq Least(G, B, R) /\ Least(G, B, R) \subseteq G
           /\ \A u, y \in G : <<u, y>> \in R /\ y \in Least(G, B, R) => u \in Least(G, B, R)
BY DEF Least

\* A[k] is what is found from B in k rounds.
Rounds(G, n, B, R, A) ==
    /\ A \in [0..n -> SUBSET G] /\ A[0] = B
    /\ \A k \in 1..n, x \in G : x \in A[k] <=> x \in B \/ \E y \in A[k - 1] : <<x, y>> \in R

\* A search that goes one step further with each round has gone everywhere after as
\* many rounds as there are places.
LEMMA Saturation ==
    ASSUME NEW G, IsFiniteSet(G), NEW n, n = Cardinality(G), NEW B \in SUBSET G, NEW R,
           NEW A, Rounds(G, n, B, R, A)
    PROVE  A[n] = Least(G, B, R)
<1> DEFINE Closed(T) == \A x, y \in G : <<x, y>> \in R /\ y \in T => x \in T
<1>0. n \in Nat
  BY FS_CardinalityType
<1>1. /\ A \in [0..n -> SUBSET G] /\ A[0] = B
      /\ \A k \in 1..n : A[k] = B \cup {x \in G : \E y \in A[k - 1] : <<x, y>> \in R}
  <2>1. ASSUME NEW k \in 1..n PROVE A[k] = B \cup {x \in G : \E y \in A[k - 1] : <<x, y>> \in R}
    <3>1. k \in 0..n
      BY <1>0
    <3>2. A[k] \in SUBSET G
      BY <3>1 DEF Rounds
    <3>3. \A x \in G : x \in A[k] <=> x \in B \/ \E y \in A[k - 1] : <<x, y>> \in R
      BY DEF Rounds
    <3> QED BY <3>2, <3>3
  <2> QED BY <2>1 DEF Rounds
<1>2. \A k \in Nat : k < n => k \in 0..n /\ k + 1 \in 1..n /\ (k + 1) - 1 = k /\ k + 1 \in 0..n
  BY <1>0
<1>3. ASSUME NEW k \in Nat, k < n
       PROVE  A[k + 1] = B \cup {x \in G : \E y \in A[k] : <<x, y>> \in R}
  <2>1. A[k + 1] = B \cup {x \in G : \E y \in A[(k + 1) - 1] : <<x, y>> \in R}
    BY <1>1, <1>2, <1>3
  <2>2. (k + 1) - 1 = k
    OBVIOUS
  <2> QED BY <2>1, <2>2
<1>4. \A k \in Nat : k < n => A[k] \subseteq A[k + 1]
  <2> DEFINE S == {k \in Nat : k < n => A[k] \subseteq A[k + 1]}
  <2>1. 0 \in S
    BY <1>1, <1>3
  <2>2. ASSUME NEW k \in Nat, k \in S PROVE k + 1 \in S
    <3> SUFFICES ASSUME k + 1 < n PROVE A[k + 1] \subseteq A[k + 1 + 1]
      OBVIOUS
    <3>1. k < n /\ k + 1 \in Nat
      BY <1>0
    <3>2. A[k] \subseteq A[k + 1]
      BY <2>2, <3>1
    <3>3. A[k + 1] = B \cup {x \in G : \E y \in A[k] : <<x, y>> \in R}
      BY <1>3, <3>1
    <3>4. A[k + 1 + 1] = B \cup {x \in G : \E y \in A[k + 1] : <<x, y>> \in R}
      BY <1>3, <3>1
    <3> QED BY <3>2, <3>3, <3>4
  <2> HIDE DEF S
  <2>3. \A k \in Nat : k \in S
    BY <2>1, <2>2, SetInduction
  <2> QED BY <2>3 DEF S
<1>5. \A k \in Nat : k <= n => Closed(A[k]) \/ Cardinality(A[k]) >= k + 1
  <2> DEFINE S == {k \in Nat : k <= n => Closed(A[k]) \/ Cardinality(A[k]) >= k + 1}
  <2>1. 0 \in S
    <3>1. CASE B = {}
      BY <1>1, <3>1
    <3>2. CASE B # {}
      <4>1. IsFiniteSet(B) /\ Cardinality(B) \in Nat /\ Cardinality(B) # 0
        BY <3>2, FS_Subset, FS_EmptySet, FS_CardinalityType
      <4> QED BY <1>1, <4>1
    <3> QED BY <3>1, <3>2
  <2>2. ASSUME NEW k \in Nat, k \in S PROVE k + 1 \in S
    <3> SUFFICES ASSUME k + 1 <= n PROVE Closed(A[k + 1]) \/ Cardinality(A[k + 1]) >= k + 1 + 1
      OBVIOUS
    <3>1. k < n /\ k <= n
      BY <1>0
    <3>2. A[k] \subseteq A[k + 1] /\ A[k + 1] = B \cup {x \in G : \E y \in A[k] : <<x, y>> \in R}
          /\ A[k] \in SUBSET G /\ A[k + 1] \in SUBSET G
      BY <1>1, <1>2, <1>3, <1>4, <3>1
    <3>3. CASE Closed(A[k])
      <4>0. B \subseteq A[k]
        <5> DEFINE U == {m \in Nat : m <= n => B \subseteq A[m]}
        <5>1. 0 \in U
          BY <1>1
        <5>2. ASSUME NEW m \in Nat, m \in U PROVE m + 1 \in U
          BY <1>0, <1>3
        <5> HIDE DEF U
        <5>3. k \in U
          BY <5>1, <5>2, SetInduction
        <5> QED BY <3>1, <5>3 DEF U
      <4>1. A[k + 1] = A[k]
        BY <3>2, <3>3, <4>0
      <4> QED BY <3>3, <4>1
    <3>4. CASE ~Closed(A[k])
      <4>1. Cardinality(A[k]) >= k + 1
        BY <2>2, <3>1, <3>4
      <4>2. PICK x \in G : x \notin A[k] /\ x \in A[k + 1]
        BY <3>2, <3>4
      <4>3. IsFiniteSet(A[k]) /\ IsFiniteSet(A[k + 1]) /\ Cardinality(A[k]) \in Nat /\ Cardinality(A[k + 1]) \in Nat
        BY <3>2, FS_Subset, FS_CardinalityType
      <4>4. Cardinality(A[k] \cup {x}) = Cardinality(A[k]) + 1
        BY <4>2, <4>3, FS_AddElement
      <4>5. A[k] \cup {x} \in SUBSET A[k + 1]
        BY <3>2, <4>2
      <4>6. Cardinality(A[k] \cup {x}) <= Cardinality(A[k + 1])
        BY <4>3, <4>5, FS_Subset
      <4> QED BY <4>1, <4>3, <4>4, <4>6
    <3> QED BY <3>3, <3>4
  <2> HIDE DEF S
  <2>3. \A k \in Nat : k \in S
    BY <2>1, <2>2, SetInduction
  <2> QED BY <2>3 DEF S
<1>6. Closed(A[n])
  <2>1. A[n] \in SUBSET G
    BY <1>0, <1>1
  <2>2. Cardinality(A[n]) <= n /\ Cardinality(A[n]) \in Nat
    BY <2>1, FS_Subset, FS_CardinalityType
  <2> QED BY <1>0, <1>5, <2>2
<1>7. ASSUME NEW T \in SUBSET G, B \subseteq T, Closed(T) PROVE A[n] \subseteq T
  <2> DEFINE S == {k \in Nat : k <= n => A[k] \subseteq T}
  <2>1. 0 \in S
    BY <1>1, <1>7
  <2>2. ASSUME NEW k \in Nat, k \in S PROVE k + 1 \in S
    <3> SUFFICES ASSUME k + 1 <= n PROVE A[k + 1] \subseteq T
      OBVIOUS
    <3>1. k < n /\ A[k] \subseteq T
      BY <1>0, <2>2
    <3>2. A[k + 1] = B \cup {x \in G : \E y \in A[k] : <<x, y>> \in R}
      BY <1>3, <3>1
    <3>3. ASSUME NEW x \in G, NEW y \in A[k], <<x, y>> \in R PROVE x \in T
      BY <1>7, <3>1, <3>3
    <3> QED BY <1>7, <3>2, <3>3
  <2> HIDE DEF S
  <2>3. n \in S
    BY <1>0, <2>1, <2>2, SetInduction
  <2> QED BY <1>0, <2>3 DEF S
<1>8. B \subseteq A[n] /\ A[n] \subseteq G
  BY <1>0, <1>1
<1> QED BY <1>6, <1>7, <1>8 DEF Least

-----------------------------------------------------------------------------
(* The invariant of the readers.                                            *)

DataType ==
    [groups : SUBSET Groups, hosts : SUBSET Hosts,
     initialized : SUBSET Groups, withVars : SUBSET Groups,
     children : SUBSET (Groups \X Groups), parents : SUBSET (Groups \X Groups),
     members : SUBSET (Groups \X Hosts), memberOf : SUBSET (Hosts \X Groups)]

\* What the readers and formatAndValidate keep of the data alone.
Coherent(e) ==
    /\ e \in DataType
    /\ e.initialized \subseteq e.groups /\ e.withVars \subseteq e.groups
    /\ "all" \in e.groups
    /\ \A x, y \in Groups : <<x, y>> \in e.children <=> <<y, x>> \in e.parents
    /\ \A x, y \in Groups : <<x, y>> \in e.children => x \in e.groups /\ y \in e.groups
    /\ \A g \in Groups, h \in Hosts : <<g, h>> \in e.members => g \in e.groups /\ h \in e.hosts
    /\ \A g \in Groups, h \in Hosts : <<h, g>> \in e.memberOf => g \in e.groups /\ h \in e.hosts
    /\ \A g \in Groups \ {"all", "ungrouped"}, h \in Hosts :
          <<g, h>> \in e.members <=> <<h, g>> \in e.memberOf

\* The inductive invariant.
IInv ==
    /\ format \in {"ini", "yaml"} /\ status \in {"reading", "accepted", "rejected", "malformed", "panic"}
    /\ lines \in 0..MaxLines /\ keys \subseteq Groups
    /\ typ \in {"section", "vars", "children", "hosts"}
    /\ Coherent(d)
    /\ group \in d.groups

\* groupByName keeps the data coherent, and so does declaring a group.
LEMMA NamedCoherent ==
    ASSUME NEW e, Coherent(e), NEW g \in Groups
    PROVE  /\ Coherent(Named(e, g)) /\ Named(e, g).groups = e.groups \cup {g}
           /\ Coherent([Named(e, g) EXCEPT !.initialized = @ \cup {g}])
           /\ [Named(e, g) EXCEPT !.initialized = @ \cup {g}].groups = e.groups \cup {g}
BY DEF Coherent, DataType, Named

\* Listing hosts under a group writes both directions of the membership.
LEMMA AddHostsCoherent ==
    ASSUME NEW e, Coherent(e), NEW g \in e.groups, NEW hs \in SUBSET Hosts
    PROVE  Coherent(AddHosts(e, g, hs)) /\ AddHosts(e, g, hs).groups = e.groups
<1> DEFINE f == AddHosts(e, g, hs)
<1>1. /\ f.groups = e.groups /\ f.hosts = e.hosts \cup hs
      /\ f.initialized = e.initialized /\ f.withVars = e.withVars
      /\ f.children = e.children /\ f.parents = e.parents
      /\ f.members = e.members \cup ({g} \X hs) /\ f.memberOf = e.memberOf \cup (hs \X {g})
  BY DEF Coherent, DataType, AddHosts
<1>2. f \in DataType
  <2>1. {g} \X hs \subseteq Groups \X Hosts /\ hs \X {g} \subseteq Hosts \X Groups
    BY DEF Coherent, DataType
  <2> QED BY <2>1 DEF Coherent, DataType, AddHosts
<1>3. \A x \in Groups, h \in Hosts :
         /\ <<x, h>> \in f.members <=> <<x, h>> \in e.members \/ (x = g /\ h \in hs)
         /\ <<h, x>> \in f.memberOf <=> <<h, x>> \in e.memberOf \/ (x = g /\ h \in hs)
  BY <1>1
<1> HIDE DEF f
<1>4. Coherent(f)
  BY <1>1, <1>2, <1>3 DEF Coherent
<1> QED BY <1>1, <1>4 DEF f

\* Adding children writes both directions of the edge.
LEMMA AddChildrenCoherent ==
    ASSUME NEW e, Coherent(e), NEW g \in e.groups, NEW cs \in SUBSET Groups
    PROVE  Coherent(AddChildren(e, g, cs)) /\ AddChildren(e, g, cs).groups = e.groups \cup cs
<1> DEFINE f == AddChildren(e, g, cs)
<1>1. /\ f.groups = e.groups \cup cs /\ f.hosts = e.hosts
      /\ f.initialized = e.initialized /\ f.withVars = e.withVars
      /\ f.members = e.members /\ f.memberOf = e.memberOf
      /\ f.children = e.children \cup ({g} \X cs) /\ f.parents = e.parents \cup (cs \X {g})
  BY DEF Coherent, DataType, AddChildren
<1>2. f \in DataType
  <2>1. {g} \X cs \subseteq Groups \X Groups /\ cs \X {g} \subseteq Groups \X Groups
    BY DEF Coherent, DataType
  <2> QED BY <2>1 DEF Coherent, DataType, AddChildren
<1>3. \A x, y \in Groups :
         /\ <<x, y>> \in f.children <=> <<x, y>> \in e.children \/ (x = g /\ y \in cs)
         /\ <<y, x>> \in f.parents <=> <<y, x>> \in e.parents \/ (x = g /\ y \in cs)
  BY <1>1
<1> HIDE DEF f
<1>4. Coherent(f)
  BY <1>1, <1>2, <1>3 DEF Coherent
<1> QED BY <1>1, <1>4 DEF f

\* formatAndValidate: moving hosts to ungrouped, attaching roots to all, and removing
\* all from the hosts.
LEMMA FormatCoherent ==
    ASSUME NEW e, Coherent(e)
    PROVE  Coherent(Format(e)) /\ e.groups \subseteq Format(e).groups
<1> DEFINE u == AddUngroupedGroup(e)
           r == {g \in u.groups \ {"all"} : Parents(u, g) = {}}
<1>1. Coherent(u) /\ e.groups \subseteq u.groups
  BY InventoryAssumption DEF Coherent, DataType, AddUngroupedGroup, Named
<1>2. AddToAllGroup(u) = AddChildren(u, "all", r)
  BY DEF AddToAllGroup
<1>3. r \in SUBSET Groups /\ "all" \in u.groups
  BY <1>1 DEF Coherent, DataType
<1> HIDE DEF u, r
<1>4. Coherent(AddToAllGroup(u)) /\ u.groups \subseteq AddToAllGroup(u).groups
  BY <1>1, <1>2, <1>3, AddChildrenCoherent
<1>5. ASSUME NEW f, Coherent(f)
      PROVE  Coherent(RemoveAllGroupFromHosts(f)) /\ RemoveAllGroupFromHosts(f).groups = f.groups
  BY <1>5 DEF Coherent, DataType, RemoveAllGroupFromHosts
<1> QED BY <1>1, <1>4, <1>5 DEF Format, u

\* The empty inventory.
LEMMA InitIInv == Init => IInv
BY InventoryAssumption DEF Init, IInv, Coherent, DataType

\* Every line and key keeps it.
LEMMA NextIInv == IInv /\ [Next]_vars => IInv'
<1> SUFFICES ASSUME IInv, [Next]_vars PROVE IInv'
  OBVIOUS
<1>0. Coherent(d) /\ group \in d.groups /\ d.groups \subseteq Groups /\ lines \in 0..MaxLines
  BY DEF IInv, Coherent, DataType
<1>1. ASSUME NEW g \in Groups, NEW t \in {"section", "vars", "children"}, HandleSectionLine(g, t)
      PROVE  IInv'
  <2>1. Coherent(d') /\ group' \in d'.groups
    <3>1. CASE t = "vars"
      <4>1. d' = Named(d, g)
        BY <1>0, <1>1, <3>1 DEF HandleSectionLine, Named, Coherent, DataType
      <4>2. Coherent(Named(d, g)) /\ Named(d, g).groups = d.groups \cup {g}
        BY <1>0, NamedCoherent
      <4>3. group' = g
        BY <1>1 DEF HandleSectionLine
      <4> QED BY <4>1, <4>2, <4>3
    <3>2. CASE t # "vars"
      <4>1. d' = [Named(d, g) EXCEPT !.initialized = @ \cup {g}]
        BY <1>1, <3>2 DEF HandleSectionLine
      <4> QED BY <1>0, <1>1, <4>1, NamedCoherent DEF HandleSectionLine
    <3> QED BY <3>1, <3>2
  <2> QED BY <1>0, <1>1, <2>1, InventoryAssumption DEF HandleSectionLine, IInv, Read, Reading
<1>2. ASSUME HandleDataLine PROVE IInv'
  <2>1. Coherent(d') /\ group' \in d'.groups
    <3>1. ASSUME NEW h \in Hosts, d' = AddHosts(d, group, {h}) PROVE Coherent(d') /\ d.groups \subseteq d'.groups
      BY <1>0, <3>1, AddHostsCoherent
    <3>2. ASSUME d' = [d EXCEPT !.withVars = @ \cup {group}] PROVE Coherent(d') /\ d.groups \subseteq d'.groups
      BY <1>0, <3>2 DEF Coherent, DataType
    <3>3. ASSUME NEW c \in Groups, d' = AddChildren(d, group, {c}) PROVE Coherent(d') /\ d.groups \subseteq d'.groups
      BY <1>0, <3>3, AddChildrenCoherent
    <3> QED BY <1>0, <1>2, <3>1, <3>2, <3>3 DEF HandleDataLine
  <2> QED BY <1>0, <1>2, <2>1, InventoryAssumption DEF HandleDataLine, IInv, Read, Reading
<1>3. ASSUME NEW g \in Groups, AddGroup(g) PROVE IInv'
  <2>1. Coherent(d') /\ group' \in d'.groups
    BY <1>0, <1>3, NamedCoherent DEF AddGroup
  <2> QED BY <1>0, <1>3, <2>1, InventoryAssumption DEF AddGroup, IInv, Read, Reading
<1>4. ASSUME ProcessGroupElement PROVE IInv'
  <2>1. Coherent(d') /\ group' \in d'.groups
    <3>1. ASSUME NEW hs \in SUBSET Hosts, d' = AddHosts(d, group, hs) PROVE Coherent(d') /\ d.groups \subseteq d'.groups
      BY <1>0, <3>1, AddHostsCoherent
    <3>2. ASSUME d' = [d EXCEPT !.withVars = @ \cup {group}] PROVE Coherent(d') /\ d.groups \subseteq d'.groups
      BY <1>0, <3>2 DEF Coherent, DataType
    <3>3. ASSUME NEW cs \in SUBSET Groups,
                 d' = [AddChildren(d, group, cs) EXCEPT !.initialized = @ \cup cs]
          PROVE  Coherent(d') /\ d.groups \subseteq d'.groups
      <4>1. Coherent(AddChildren(d, group, cs)) /\ AddChildren(d, group, cs).groups = d.groups \cup cs
        BY <1>0, AddChildrenCoherent
      <4> QED BY <3>3, <4>1 DEF Coherent, DataType
    <3> QED BY <1>0, <1>4, <3>1, <3>2, <3>3 DEF ProcessGroupElement
  <2> QED BY <1>0, <1>4, <2>1, InventoryAssumption DEF ProcessGroupElement, IInv, Read, Reading
<1>5. ASSUME FormatAndValidate PROVE IInv'
  BY <1>0, <1>5, FormatCoherent DEF FormatAndValidate, IInv
<1>6. CASE BadLine \/ NestedChild \/ BadValue
  BY <1>6 DEF BadLine, NestedChild, BadValue, IInv
<1>7. CASE UNCHANGED vars
  BY <1>7 DEF vars, IInv
<1> QED BY <1>1, <1>2, <1>3, <1>4, <1>5, <1>6, <1>7 DEF Next, Done

\* It holds throughout.
LEMMA SpecIInv == Spec => []IInv
<1>1. Init => IInv BY InitIInv
<1>2. IInv /\ [Next]_vars => IInv' BY NextIInv
<1> QED BY <1>1, <1>2, PTL DEF Spec

\* Every inventory that is being read is well typed, and every edge and membership in
\* it is between groups and hosts it knows.
THEOREM InventoryTypeCorrect == Spec => []TypeOK
<1>1. IInv => TypeOK
  <2> SUFFICES ASSUME IInv PROVE TypeOK
    OBVIOUS
  <2>1. /\ d.children \subseteq d.groups \X d.groups /\ d.members \subseteq d.groups \X d.hosts
        /\ d.memberOf \subseteq d.hosts \X d.groups
    BY DEF IInv, Coherent, DataType
  <2>2. d.parents \subseteq d.groups \X d.groups
    <3>1. ASSUME NEW p \in d.parents PROVE p \in d.groups \X d.groups
      <4>1. PICK x \in Groups, y \in Groups : p = <<x, y>>
        BY DEF IInv, Coherent, DataType
      <4> QED BY <4>1 DEF IInv, Coherent
    <3> QED BY <3>1
  <2>3. d \in DataType /\ d.initialized \subseteq d.groups /\ d.withVars \subseteq d.groups
    BY DEF IInv, Coherent
  <2> QED BY <2>1, <2>2, <2>3 DEF IInv, TypeOK, DataType
<1> QED BY <1>1, SpecIInv, PTL

\* Children and Parents describe the same graph, whichever reader built it and
\* wherever in the file the groups are named; Group.Hosts and Host.Groups agree for
\* every group the file declares.
THEOREM InventorySlicesAgree == Spec => []SlicesAgree
<1>1. IInv => SameGraph
  <2> SUFFICES ASSUME IInv PROVE d.children = {<<p[2], p[1]>> : p \in d.parents}
    BY DEF SameGraph
  <2>1. d.children \subseteq Groups \X Groups /\ d.parents \subseteq Groups \X Groups
    BY DEF IInv, Coherent, DataType
  <2>2. \A x, y \in Groups : <<x, y>> \in d.children <=> <<y, x>> \in d.parents
    BY DEF IInv, Coherent
  <2>3. ASSUME NEW c \in d.children PROVE c \in {<<p[2], p[1]>> : p \in d.parents}
    <3>1. PICK x \in Groups, y \in Groups : c = <<x, y>>
      BY <2>1
    <3>2. <<y, x>> \in d.parents /\ <<y, x>>[1] = y /\ <<y, x>>[2] = x
      BY <2>2, <3>1
    <3> QED BY <3>1, <3>2
  <2>4. ASSUME NEW p \in d.parents PROVE <<p[2], p[1]>> \in d.children
    BY <2>1, <2>2
  <2> QED BY <2>3, <2>4
<1>2. IInv => SameMembers
  BY DEF IInv, SameMembers, Coherent, DataType
<1>3. IInv => SlicesAgree
  BY <1>1, <1>2 DEF SlicesAgree
<1> QED BY <1>3, SpecIInv, PTL

-----------------------------------------------------------------------------
(* What a finished inventory looks like.                                    *)

\* Every host was listed under some group, and one that knows of ungrouped is there.
Listed(e) ==
    /\ \A h \in e.hosts : \E g \in e.groups : <<g, h>> \in e.members
    /\ \A h \in Hosts : <<h, "ungrouped">> \in e.memberOf => <<"ungrouped", h>> \in e.members

\* What formatAndValidate leaves behind: every group but all has a parent, and no host
\* is in all itself.
Formatted(e) ==
    /\ \A g \in e.groups \ {"all"} : Parents(e, g) # {}
    /\ \A h \in Hosts : <<"all", h>> \notin e.members /\ <<h, "all">> \notin e.memberOf

\* The second half of the invariant.
Judged ==
    /\ Listed(d)
    /\ status \in {"accepted", "rejected"} => Formatted(d) /\ (status = "accepted" <=> Validate(d))

\* What touches no membership keeps every host listed.
LEMMA ListedKept ==
    ASSUME NEW e, NEW f, Listed(e), f.hosts = e.hosts, f.members = e.members,
           f.memberOf = e.memberOf, e.groups \subseteq f.groups
    PROVE  Listed(f)
BY DEF Listed

\* A host that is added is listed under the group it is added to.
LEMMA ListedAddHosts ==
    ASSUME NEW e, Coherent(e), Listed(e), NEW g \in e.groups, NEW hs \in SUBSET Hosts
    PROVE  Listed(AddHosts(e, g, hs))
<1> DEFINE f == AddHosts(e, g, hs)
<1>1. /\ f.groups = e.groups /\ f.hosts = e.hosts \cup hs
      /\ f.members = e.members \cup ({g} \X hs) /\ f.memberOf = e.memberOf \cup (hs \X {g})
  BY DEF Coherent, DataType, AddHosts
<1> HIDE DEF f
<1>2. \A h \in hs : <<g, h>> \in f.members
  BY <1>1
<1>3. \A m \in e.members : m \in f.members
  BY <1>1
<1>4. \A h \in Hosts : <<h, "ungrouped">> \in f.memberOf => <<h, "ungrouped">> \in e.memberOf \/ (h \in hs /\ g = "ungrouped")
  BY <1>1
<1>5. Listed(f)
  BY <1>1, <1>2, <1>3, <1>4 DEF Listed
<1> QED BY <1>5 DEF f

\* The three steps of formatAndValidate.
LEMMA FormatJudged ==
    ASSUME NEW e, Coherent(e), Listed(e)
    PROVE  Listed(Format(e)) /\ Formatted(Format(e))
<1> DEFINE loose == {h \in Hosts : <<"all", h>> \in e.members}
           u == AddUngroupedGroup(e)
           r == {g \in u.groups \ {"all"} : Parents(u, g) = {}}
           a == AddChildren(u, "all", r)
           f == RemoveAllGroupFromHosts(a)
<1>1. /\ u.groups = e.groups \cup {"ungrouped"} /\ u.hosts = e.hosts
      /\ u.parents = e.parents /\ u.memberOf = e.memberOf
      /\ u.members = {m \in e.members : m[1] # "all"} \cup ({"ungrouped"} \X loose)
  BY DEF Coherent, DataType, AddUngroupedGroup, Named
<1>2. u \in DataType /\ "all" \in u.groups
  BY InventoryAssumption DEF Coherent, DataType, AddUngroupedGroup, Named
<1>3. /\ a.groups = u.groups \cup r /\ a.hosts = u.hosts /\ a.members = u.members
      /\ a.memberOf = u.memberOf /\ a.parents = u.parents \cup (r \X {"all"}) /\ a \in DataType
  <2>1. r \in SUBSET Groups
    BY <1>2 DEF DataType
  <2>2. {"all"} \X r \subseteq Groups \X Groups /\ r \X {"all"} \subseteq Groups \X Groups
    BY <2>1, InventoryAssumption
  <2> HIDE DEF u, r
  <2> QED BY <1>2, <2>1, <2>2 DEF DataType, AddChildren
<1>4. /\ f.groups = a.groups /\ f.hosts = a.hosts /\ f.members = a.members
      /\ f.memberOf = {m \in a.memberOf : m[2] # "all"} /\ f.parents = a.parents
  <2> HIDE DEF a
  <2> QED BY <1>3 DEF DataType, RemoveAllGroupFromHosts
<1>5. Format(e) = f
  BY DEF Format, AddToAllGroup
<1>6. f.groups = u.groups /\ e.groups \subseteq f.groups /\ "ungrouped" \in f.groups /\ f.hosts = e.hosts
  BY <1>1, <1>3, <1>4
<1>7. \A g \in Groups, h \in Hosts :
         <<g, h>> \in f.members <=> (<<g, h>> \in e.members /\ g # "all") \/ (g = "ungrouped" /\ <<"all", h>> \in e.members)
  <2> HIDE DEF u, a, f
  <2> QED BY <1>1, <1>3, <1>4
<1>8. \A g \in Groups, h \in Hosts : <<h, g>> \in f.memberOf <=> <<h, g>> \in e.memberOf /\ g # "all"
  <2> HIDE DEF u, a, f
  <2> QED BY <1>1, <1>3, <1>4
<1>9. \A g \in f.groups \ {"all"} : Parents(f, g) # {}
  <2>1. ASSUME NEW g \in f.groups \ {"all"} PROVE Parents(f, g) # {}
    <3>1. CASE g \in r
      <4>1. <<g, "all">> \in f.parents /\ "all" \in f.groups
        <5> HIDE DEF u, a, f, r
        <5> QED BY <1>2, <1>3, <1>4, <1>6, <3>1
      <4> HIDE DEF f
      <4> QED BY <4>1 DEF Parents
    <3>2. CASE g \notin r
      <4>1. PICK p \in u.groups : <<g, p>> \in u.parents
        BY <1>6, <3>2 DEF Parents
      <4>2. <<g, p>> \in f.parents /\ p \in f.groups
        <5> HIDE DEF u, a, f, r
        <5> QED BY <1>3, <1>4, <1>6, <4>1
      <4> HIDE DEF f
      <4> QED BY <4>2 DEF Parents
    <3> QED BY <3>1, <3>2
  <2> QED BY <2>1
<1> HIDE DEF u, a, f, r
<1>10. "all" \in Groups /\ "ungrouped" \in Groups /\ "all" # "ungrouped" /\ e.groups \subseteq Groups /\ e.hosts \subseteq Hosts
  BY InventoryAssumption DEF Coherent, DataType
<1>11. Formatted(f)
  BY <1>7, <1>8, <1>9, <1>10 DEF Formatted
<1>12. Listed(f)
  <2>1. ASSUME NEW h \in f.hosts PROVE \E g \in f.groups : <<g, h>> \in f.members
    <3>1. PICK g \in e.groups : <<g, h>> \in e.members
      BY <1>6 DEF Listed
    <3>2. CASE g = "all"
      BY <1>6, <1>7, <1>10, <3>1, <3>2
    <3>3. CASE g # "all"
      BY <1>6, <1>7, <1>10, <3>1, <3>3
    <3> QED BY <3>2, <3>3
  <2>2. ASSUME NEW h \in Hosts, <<h, "ungrouped">> \in f.memberOf PROVE <<"ungrouped", h>> \in f.members
    BY <1>7, <1>8, <1>10, <2>2 DEF Listed
  <2> QED BY <2>1, <2>2 DEF Listed
<1> QED BY <1>5, <1>11, <1>12

\* Nothing is judged at first.
LEMMA InitJudged == Init => Judged
BY DEF Init, Judged, Listed

\* Every line keeps the hosts listed; only formatAndValidate judges.
LEMMA NextJudged == IInv /\ Judged /\ [Next]_vars => Judged'
<1> SUFFICES ASSUME IInv, Judged, [Next]_vars PROVE Judged'
  OBVIOUS
<1>0. Coherent(d) /\ Listed(d) /\ group \in d.groups /\ d.groups \subseteq Groups /\ d \in DataType
  BY DEF IInv, Judged, Coherent, DataType
<1>1. ASSUME status' = "reading" \/ status' = "malformed" \/ status' = "panic", Listed(d') PROVE Judged'
  BY <1>1 DEF Judged
<1>2. ASSUME NEW g \in Groups, NEW t \in {"section", "vars", "children"}, HandleSectionLine(g, t)
      PROVE  Judged'
  <2>1. /\ d'.hosts = d.hosts /\ d'.members = d.members /\ d'.memberOf = d.memberOf
        /\ d.groups \subseteq d'.groups
    BY <1>0, <1>2 DEF HandleSectionLine, Named, DataType
  <2>2. Listed(d')
    BY <1>0, <2>1, ListedKept
  <2> QED BY <1>1, <1>2, <2>2 DEF HandleSectionLine, Reading, Read
<1>3. ASSUME NEW hs \in SUBSET Hosts, d' = AddHosts(d, group, hs) PROVE Listed(d')
  BY <1>0, <1>3, ListedAddHosts
<1>4. ASSUME d' = [d EXCEPT !.withVars = @ \cup {group}] PROVE Listed(d')
  <2>1. /\ d'.hosts = d.hosts /\ d'.members = d.members /\ d'.memberOf = d.memberOf
        /\ d.groups \subseteq d'.groups
    BY <1>0, <1>4 DEF DataType
  <2> QED BY <1>0, <2>1, ListedKept
<1>5. ASSUME NEW cs \in SUBSET Groups,
             \/ d' = AddChildren(d, group, cs)
             \/ d' = [AddChildren(d, group, cs) EXCEPT !.initialized = @ \cup cs]
      PROVE  Listed(d')
  <2>1. /\ d'.hosts = d.hosts /\ d'.members = d.members /\ d'.memberOf = d.memberOf
        /\ d.groups \subseteq d'.groups
    <3> DEFINE a == AddChildren(d, group, cs)
    <3>1. /\ a.hosts = d.hosts /\ a.members = d.members /\ a.memberOf = d.memberOf
          /\ a.groups = d.groups \cup cs
      BY <1>0 DEF DataType, AddChildren
    <3>2. CASE d' = a
      BY <3>1, <3>2
    <3>3. CASE d' = [a EXCEPT !.initialized = @ \cup cs]
      <4>1. a.groups = d'.groups /\ a.hosts = d'.hosts /\ a.members = d'.members /\ a.memberOf = d'.memberOf
        BY <1>0, <3>3 DEF DataType, AddChildren
      <4> QED BY <3>1, <4>1
    <3> QED BY <1>5, <3>2, <3>3
  <2> QED BY <1>0, <2>1, ListedKept
<1>6. ASSUME HandleDataLine PROVE Judged'
  <2>1. Listed(d')
    <3>1. ASSUME NEW h \in Hosts, d' = AddHosts(d, group, {h}) PROVE Listed(d')
      BY <1>3, <3>1
    <3>2. ASSUME NEW c \in Groups, d' = AddChildren(d, group, {c}) PROVE Listed(d')
      BY <1>5, <3>2
    <3> QED BY <1>4, <1>6, <3>1, <3>2 DEF HandleDataLine
  <2> QED BY <1>1, <1>6, <2>1 DEF HandleDataLine, Reading, Read
<1>7. ASSUME NEW g \in Groups, AddGroup(g) PROVE Judged'
  <2>1. /\ d'.hosts = d.hosts /\ d'.members = d.members /\ d'.memberOf = d.memberOf
        /\ d.groups \subseteq d'.groups
    BY <1>0, <1>7 DEF AddGroup, Named, DataType
  <2>2. Listed(d')
    BY <1>0, <2>1, ListedKept
  <2> QED BY <1>1, <1>7, <2>2 DEF AddGroup, Reading, Read
<1>8. ASSUME ProcessGroupElement PROVE Judged'
  <2>1. Listed(d')
    BY <1>3, <1>4, <1>5, <1>8 DEF ProcessGroupElement
  <2> QED BY <1>1, <1>8, <2>1 DEF ProcessGroupElement, Reading, Read
<1>9. ASSUME FormatAndValidate PROVE Judged'
  <2>1. Listed(d') /\ Formatted(d')
    BY <1>0, <1>9, FormatJudged DEF FormatAndValidate
  <2>2. status' = IF Validate(d') THEN "accepted" ELSE "rejected"
    BY <1>9 DEF FormatAndValidate
  <2> QED BY <2>1, <2>2 DEF Judged
<1>10. CASE BadLine \/ NestedChild \/ BadValue
  <2>1. d' = d /\ (status' = "malformed" \/ status' = "panic")
    BY <1>10 DEF BadLine, NestedChild, BadValue
  <2> QED BY <1>0, <1>1, <2>1
<1>11. CASE UNCHANGED vars
  BY <1>11 DEF vars, Judged
<1> QED BY <1>2, <1>6, <1>7, <1>8, <1>9, <1>10, <1>11 DEF Next, Done

\* Both halves of the invariant hold throughout.
LEMMA SpecJudged == Spec => [](IInv /\ Judged)
<1>1. Init => IInv /\ Judged
  BY InitIInv, InitJudged
<1>2. IInv /\ Judged /\ [Next]_vars => (IInv /\ Judged)'
  BY NextIInv, NextJudged
<1> QED BY <1>1, <1>2, PTL DEF Spec

-----------------------------------------------------------------------------
(* The search for circular references.                                      *)

AcyclicIn(e) == \A S \in SUBSET e.groups : S # {} => \E g \in S : Parents(e, g) \cap S = {}

\* What circularReference does with one more level to go.
LEMMA CircularSteps ==
    ASSUME NEW e, IsFiniteSet(e.groups), NEW g \in e.groups
    PROVE  \E c \in [0..Cardinality(e.groups) -> [e.groups -> BOOLEAN]] :
             /\ CircularReference(e, g) = c[Cardinality(e.groups)][g]
             /\ \A x \in e.groups : c[0][x]
             /\ \A k \in 1..Cardinality(e.groups), x \in e.groups :
                  c[k][x] <=> \E p \in Parents(e, x) : p = g \/ c[k - 1][p]
<1> DEFINE n == Cardinality(e.groups)
           G == e.groups
           V == [G -> BOOLEAN]
           F == [k \in 1..n |-> [v \in V |-> [x \in G |-> \E p \in Parents(e, x) : p = g \/ v[p]]]]
           b == [x \in G |-> TRUE]
           Eq(f) == f = [k \in 0..n |-> [x \in G |-> k = 0 \/ \E p \in Parents(e, x) : p = g \/ f[k - 1][p]]]
           c == CHOOSE f : Eq(f)
<1>1. n \in Nat
  BY FS_CardinalityType
<1>2. CircularReference(e, g) = c[n][g]
  BY DEF CircularReference
<1> HIDE DEF n
<1>3. F \in [1..n -> [V -> V]] /\ b \in V
  OBVIOUS
<1>4. PICK h \in [0..n -> V] : h[0] = b /\ \A k \in 1..n : h[k] = F[k][h[k - 1]]
  <2>1. \E f : Iterates(f, n, V, b, F)
    <3> HIDE DEF F, b, V
    <3> QED BY <1>1, <1>3, Recursion
  <2> QED BY <2>1 DEF Iterates
<1>5. Eq(h)
  <2>1. ASSUME NEW k \in 0..n
        PROVE  h[k] = [x \in G |-> k = 0 \/ \E p \in Parents(e, x) : p = g \/ h[k - 1][p]]
    <3>1. CASE k = 0
      BY <1>4, <3>1
    <3>2. CASE k # 0
      <4>1. k \in 1..n /\ k - 1 \in 0..n
        BY <1>1, <3>2
      <4>2. h[k - 1] \in V /\ h[k] = F[k][h[k - 1]]
        BY <1>4, <4>1
      <4>3. h[k] = [x \in G |-> \E p \in Parents(e, x) : p = g \/ h[k - 1][p]]
        BY <4>1, <4>2
      <4> QED BY <3>2, <4>3
    <3> QED BY <3>1, <3>2
  <2>2. h = [k \in 0..n |-> h[k]]
    OBVIOUS
  <2> QED BY <2>1, <2>2
<1>6. Eq(c)
  <2> HIDE DEF Eq
  <2> QED BY <1>5
<1> HIDE DEF c
<1> DEFINE M(k) == [x \in G |-> k = 0 \/ \E p \in Parents(e, x) : p = g \/ c[k - 1][p]]
<1>7. /\ c \in [0..n -> [G -> BOOLEAN]]
      /\ \A k \in 0..n : c[k] = M(k)
  <2>1. c = [k \in 0..n |-> M(k)]
    BY <1>6
  <2>2. \A k \in 0..n : M(k) \in [G -> BOOLEAN]
    OBVIOUS
  <2> HIDE DEF M
  <2> QED BY <2>1, <2>2
<1>8. \A x \in G : c[0][x]
  <2>1. c[0] = M(0)
    <3> HIDE DEF M
    <3> QED BY <1>1, <1>7
  <2> QED BY <2>1
<1>9. ASSUME NEW k \in 1..n, NEW x \in G
      PROVE  c[k][x] <=> \E p \in Parents(e, x) : p = g \/ c[k - 1][p]
  <2>1. c[k] = M(k)
    <3> HIDE DEF M
    <3> QED BY <1>1, <1>7
  <2>2. k # 0
    OBVIOUS
  <2> QED BY <2>1, <2>2
<1> QED BY <1>2, <1>7, <1>8, <1>9 DEF n

\* From a group on a cycle the search can go on forever: it is found.
LEMMA CycleFound ==
    ASSUME NEW e, IsFiniteSet(e.groups), ~AcyclicIn(e)
    PROVE  \E g \in e.groups : CircularReference(e, g)
<1>1. PICK S \in SUBSET e.groups : S # {} /\ \A g \in S : Parents(e, g) \cap S # {}
  BY DEF AcyclicIn
<1>2. PICK g \in S : TRUE
  BY <1>1
<1> DEFINE n == Cardinality(e.groups)
<1>3. PICK c \in [0..n -> [e.groups -> BOOLEAN]] :
             /\ CircularReference(e, g) = c[n][g]
             /\ \A x \in e.groups : c[0][x]
             /\ \A k \in 1..n, x \in e.groups : c[k][x] <=> \E p \in Parents(e, x) : p = g \/ c[k - 1][p]
  BY <1>2, CircularSteps
<1>4. n \in Nat
  BY FS_CardinalityType
<1> HIDE DEF n
<1> DEFINE T == {k \in Nat : k <= n => \A x \in S : c[k][x]}
<1>5. 0 \in T
  BY <1>3
<1>6. ASSUME NEW k \in Nat, k \in T PROVE k + 1 \in T
  <2> SUFFICES ASSUME k + 1 <= n, NEW x \in S PROVE c[k + 1][x]
    OBVIOUS
  <2>1. k + 1 \in 1..n /\ (k + 1) - 1 = k /\ k <= n
    BY <1>4
  <2>2. PICK p \in Parents(e, x) : p \in S
    BY <1>1
  <2>3. c[k][p]
    BY <1>6, <2>1, <2>2
  <2> QED BY <1>3, <2>1, <2>2, <2>3
<1> HIDE DEF T
<1>7. n \in T
  BY <1>4, <1>5, <1>6, SetInduction
<1>8. c[n][g]
  BY <1>2, <1>4, <1>7 DEF T
<1> QED BY <1>2, <1>3, <1>8

\* What is found is a cycle: a path of as many groups as there are, without one, would
\* have to use up a group at every level.
LEMMA FoundCycle ==
    ASSUME NEW e, IsFiniteSet(e.groups), NEW g \in e.groups, CircularReference(e, g)
    PROVE  ~AcyclicIn(e)
<1> SUFFICES ASSUME AcyclicIn(e) PROVE FALSE
  OBVIOUS
<1> DEFINE n == Cardinality(e.groups)
           G == e.groups
           R == {r \in G \X G : r[2] \in Parents(e, r[1])}
           B == {x \in G : g \in Parents(e, x)}
           Up == Least(G, B, R)
           Behind(W) == {x \in G : Parents(e, x) \cap W # {}}
<1>1. n \in Nat
  BY FS_CardinalityType
<1>2. PICK c \in [0..n -> [G -> BOOLEAN]] :
             /\ CircularReference(e, g) = c[n][g]
             /\ \A x \in G : c[0][x]
             /\ \A k \in 1..n, x \in G : c[k][x] <=> \E p \in Parents(e, x) : p = g \/ c[k - 1][p]
  BY CircularSteps
<1>3. \A x : Parents(e, x) \subseteq G
  BY DEF Parents
<1>4. Up \subseteq G /\ B \subseteq Up /\ \A x, y \in G : y \in Parents(e, x) /\ y \in Up => x \in Up
  <2>1. \A x, y \in G : <<x, y>> \in R <=> y \in Parents(e, x)
    OBVIOUS
  <2>2. B \in SUBSET G
    OBVIOUS
  <2>3. /\ B \subseteq Least(G, B, R) /\ Least(G, B, R) \subseteq G
        /\ \A x, y \in G : <<x, y>> \in R /\ y \in Least(G, B, R) => x \in Least(G, B, R)
    <3> HIDE DEF B, R
    <3> QED BY <2>2, LeastHolds
  <2> HIDE DEF R, B
  <2> QED BY <2>1, <2>3
<1>5. \A x \in Up : g \in Parents(e, x) \/ Parents(e, x) \cap Up # {}
  <2> DEFINE T == {x \in Up : g \in Parents(e, x) \/ Parents(e, x) \cap Up # {}}
  <2>1. T \in SUBSET G /\ B \subseteq T
    BY <1>4
  <2>2. \A x, y \in G : <<x, y>> \in R /\ y \in T => x \in T
    BY <1>4
  <2>3. Up \subseteq T
    <3> HIDE DEF T, R, B
    <3> QED BY <2>1, <2>2 DEF Least
  <2> QED BY <2>3
<1>6. g \notin Up
  <2>1. SUFFICES ASSUME g \in Up PROVE FALSE
    OBVIOUS
  <2>2. Up \in SUBSET G /\ Up # {}
    BY <1>4, <2>1
  <2>3. \A x \in Up : Parents(e, x) \cap Up # {}
    BY <1>5, <2>1
  <2> HIDE DEF Up
  <2> QED BY <2>2, <2>3 DEF AcyclicIn
<1> HIDE DEF n, Up
<1> DEFINE Walk(k, W) ==
             /\ W \in SUBSET G /\ Behind(W) \subseteq W
             /\ Cardinality(W) <= n - k
             /\ \A x \in G : c[k][x] => x \in W \cup Up
           S == {k \in Nat : k <= n => \E W : Walk(k, W)}
<1>7. 0 \in S
  <2>1. Cardinality(G) <= n - 0
    BY <1>1 DEF n
  <2>2. Walk(0, G)
    BY <2>1
  <2> QED BY <2>2
<1>8. ASSUME NEW k \in Nat, k \in S PROVE k + 1 \in S
  <2> SUFFICES ASSUME k + 1 <= n PROVE \E W : Walk(k + 1, W)
    OBVIOUS
  <2>0. k <= n /\ k + 1 \in 1..n /\ (k + 1) - 1 = k /\ k \in 0..n
    BY <1>1
  <2>1. PICK W : Walk(k, W)
    BY <1>8, <2>0
  <2> DEFINE X == Behind(W)
  <2>2. X \in SUBSET G /\ X \subseteq W /\ Behind(X) \subseteq X
    BY <2>1
  <2>3. IsFiniteSet(W) /\ IsFiniteSet(X) /\ Cardinality(W) \in Nat /\ Cardinality(X) \in Nat
    <3> HIDE DEF X
    <3> QED BY <2>1, <2>2, FS_Subset, FS_CardinalityType
  <2>4. Cardinality(X) <= n - (k + 1)
    <3>1. CASE W = {}
      <4>1. X = {}
        BY <3>1
      <4> HIDE DEF X
      <4> QED BY <1>1, <2>0, <4>1, FS_EmptySet
    <3>2. CASE W # {}
      <4>1. PICK x \in W : Parents(e, x) \cap W = {}
        BY <2>1, <3>2 DEF AcyclicIn
      <4>2. X \in SUBSET (W \ {x})
        BY <2>2, <4>1
      <4> HIDE DEF X
      <4>3. IsFiniteSet(W \ {x}) /\ Cardinality(W \ {x}) = Cardinality(W) - 1
        BY <2>3, <4>1, FS_RemoveElement
      <4>4. Cardinality(X) <= Cardinality(W \ {x})
        BY <4>2, <4>3, FS_Subset
      <4> QED BY <1>1, <2>1, <2>3, <4>3, <4>4
    <3> QED BY <3>1, <3>2
  <2>5. ASSUME NEW x \in G, c[k + 1][x] PROVE x \in X \cup Up
    <3>1. PICK p \in Parents(e, x) : p = g \/ c[k][p]
      BY <1>2, <2>0, <2>5
    <3>2. CASE p = g
      BY <1>4, <3>1, <3>2
    <3>3. CASE c[k][p]
      <4>1. p \in G /\ p \in W \cup Up
        BY <1>3, <2>1, <3>1, <3>3
      <4> QED BY <1>4, <3>1, <4>1
    <3> QED BY <3>1, <3>2, <3>3
  <2>6. Walk(k + 1, X)
    <3> HIDE DEF X
    <3> QED BY <2>2, <2>4, <2>5
  <2> QED BY <2>6
<1> HIDE DEF S
<1>9. PICK W : Walk(n, W)
  <2>1. n \in S
    BY <1>1, <1>7, <1>8, SetInduction
  <2> QED BY <1>1, <2>1 DEF S
<1>10. W = {}
  <2>1. IsFiniteSet(W) /\ Cardinality(W) \in Nat
    BY <1>9, FS_Subset, FS_CardinalityType
  <2>2. Cardinality(W) = 0
    BY <1>1, <1>9, <2>1
  <2> QED BY <2>1, <2>2, FS_EmptySet
<1> QED BY <1>2, <1>6, <1>9, <1>10

\* What validateNoCircularReferences accepts and what it refuses, for any graph.
LEMMA ValidateExact ==
    ASSUME NEW e, IsFiniteSet(e.groups)
    PROVE  Validate(e) <=> e.groups \subseteq e.initialized /\ AcyclicIn(e)
BY CycleFound, FoundCycle DEF Validate

-----------------------------------------------------------------------------
(* What GetHosts and AllVars find.                                          *)

Below(f, k, x, h) ==
    <<x, h>> \in d.members \/ (k # 0 /\ \E c \in d.groups : <<x, c>> \in d.children /\ h \in f[k - 1][c])

\* Group.GetHosts, one level of children further down with every step.
LEMMA HostSteps ==
    ASSUME IsFiniteSet(d.groups)
    PROVE  \E f \in [0..Cardinality(d.groups) -> [d.groups -> SUBSET d.hosts]] :
             /\ \A g \in d.groups : GetHosts(g) = f[Cardinality(d.groups)][g]
             /\ \A k \in 0..Cardinality(d.groups), x \in d.groups, h \in d.hosts : h \in f[k][x] <=> Below(f, k, x, h)
<1> DEFINE n == Cardinality(d.groups)
           G == d.groups
           V == [G -> SUBSET d.hosts]
           Own(x) == {h \in d.hosts : <<x, h>> \in d.members}
           Kids(x) == {c \in d.groups : <<x, c>> \in d.children}
           F == [k \in 1..n |-> [v \in V |-> [x \in G |-> Own(x) \cup UNION {v[c] : c \in Kids(x)}]]]
           b == [x \in G |-> Own(x)]
           Eq(f) == f = [k \in 0..n |-> [x \in G |->
                            Own(x) \cup IF k = 0 THEN {} ELSE UNION {f[k - 1][c] : c \in Kids(x)}]]
           f == CHOOSE f : Eq(f)
<1>1. n \in Nat
  BY FS_CardinalityType
<1>2. \A g \in G : GetHosts(g) = f[n][g]
  BY DEF GetHosts
<1> HIDE DEF n
<1>3. F \in [1..n -> [V -> V]] /\ b \in V
  <2>1. ASSUME NEW v \in V, NEW x \in G PROVE Own(x) \cup UNION {v[c] : c \in Kids(x)} \in SUBSET d.hosts
    OBVIOUS
  <2> HIDE DEF Own, Kids
  <2>2. \A v \in V : [x \in G |-> Own(x) \cup UNION {v[c] : c \in Kids(x)}] \in V
    BY <2>1
  <2>3. b \in V
    BY DEF Own
  <2> QED BY <2>2, <2>3
<1>4. PICK e \in [0..n -> V] : e[0] = b /\ \A k \in 1..n : e[k] = F[k][e[k - 1]]
  <2>1. \E i : Iterates(i, n, V, b, F)
    <3> HIDE DEF F, b, V
    <3> QED BY <1>1, <1>3, Recursion
  <2> QED BY <2>1 DEF Iterates
<1> HIDE DEF Own, Kids
<1>5. Eq(e)
  <2>1. ASSUME NEW k \in 0..n
        PROVE  e[k] = [x \in G |-> Own(x) \cup IF k = 0 THEN {} ELSE UNION {e[k - 1][c] : c \in Kids(x)}]
    <3>1. CASE k = 0
      BY <1>4, <3>1
    <3>2. CASE k # 0
      <4>1. k \in 1..n /\ k - 1 \in 0..n
        BY <1>1, <3>2
      <4>2. e[k - 1] \in V /\ e[k] = F[k][e[k - 1]]
        BY <1>4, <4>1
      <4>3. e[k] = [x \in G |-> Own(x) \cup UNION {e[k - 1][c] : c \in Kids(x)}]
        BY <4>1, <4>2
      <4> QED BY <3>2, <4>3
    <3> QED BY <3>1, <3>2
  <2>2. e = [k \in 0..n |-> e[k]]
    OBVIOUS
  <2> QED BY <2>1, <2>2
<1>6. Eq(f)
  <2> HIDE DEF Eq
  <2> QED BY <1>5
<1> HIDE DEF f
<1> DEFINE M(k) == [x \in G |-> Own(x) \cup IF k = 0 THEN {} ELSE UNION {f[k - 1][c] : c \in Kids(x)}]
<1>7. f = [k \in 0..n |-> M(k)]
  BY <1>6
<1>8. \A k \in 0..n : f[k] = M(k)
  <2> HIDE DEF M
  <2> QED BY <1>7
<1>9. \A k \in Nat : k <= n => f[k] \in V
  <2> DEFINE S == {k \in Nat : k <= n => f[k] \in V}
  <2>1. 0 \in S
    <3>1. f[0] = M(0)
      <4> HIDE DEF M
      <4> QED BY <1>1, <1>8
    <3>2. f[0] = b
      BY <3>1
    <3> HIDE DEF V, b
    <3> QED BY <1>3, <3>2
  <2>2. ASSUME NEW k \in Nat, k \in S PROVE k + 1 \in S
    <3> SUFFICES ASSUME k + 1 <= n PROVE f[k + 1] \in V
      OBVIOUS
    <3>1. k <= n /\ k + 1 \in 0..n /\ k + 1 \in 1..n /\ (k + 1) - 1 = k /\ k + 1 # 0
      BY <1>1
    <3>2. f[k] \in V
      BY <2>2, <3>1
    <3>3. f[k + 1] = M(k + 1)
      <4> HIDE DEF M
      <4> QED BY <1>8, <3>1
    <3>4. f[k + 1] = [x \in G |-> Own(x) \cup UNION {f[k][c] : c \in Kids(x)}]
      BY <3>1, <3>3
    <3>5. f[k + 1] = F[k + 1][f[k]] /\ F[k + 1] \in [V -> V]
      BY <1>3, <3>1, <3>2, <3>4
    <3> QED BY <3>2, <3>5
  <2> HIDE DEF S
  <2>3. \A k \in Nat : k \in S
    BY <2>1, <2>2, SetInduction
  <2> QED BY <2>3 DEF S
<1>10. f \in [0..n -> V]
  <2> HIDE DEF M, V
  <2> QED BY <1>1, <1>7, <1>9
<1>11. ASSUME NEW k \in 0..n, NEW x \in G, NEW h \in d.hosts
       PROVE  h \in f[k][x] <=> Below(f, k, x, h)
  <2>1. f[k] = M(k)
    <3> HIDE DEF M
    <3> QED BY <1>8
  <2>2. f[k][x] = Own(x) \cup IF k = 0 THEN {} ELSE UNION {f[k - 1][c] : c \in Kids(x)}
    BY <2>1
  <2> QED BY <2>2 DEF Own, Kids, Below
<1> QED BY <1>2, <1>10, <1>11 DEF n

\* GetHosts finds the hosts of every group below, however deep, and no others.
LEMMA GetHostsLeast ==
    ASSUME IsFiniteSet(d.groups), NEW g \in d.groups, NEW h \in d.hosts
    PROVE  h \in GetHosts(g) <=> g \in Least(d.groups, {x \in d.groups : <<x, h>> \in d.members}, d.children)
<1> DEFINE n == Cardinality(d.groups)
           G == d.groups
           B == {x \in G : <<x, h>> \in d.members}
<1>1. PICK f \in [0..n -> [G -> SUBSET d.hosts]] :
             /\ \A x \in G : GetHosts(x) = f[n][x]
             /\ \A k \in 0..n, x \in G, y \in d.hosts : y \in f[k][x] <=> Below(f, k, x, y)
  BY HostSteps
<1>2. n \in Nat /\ n = Cardinality(G)
  BY FS_CardinalityType
<1> HIDE DEF n
<1>3. \A x \in G : GetHosts(x) = f[n][x]
  BY <1>1, Zenon
<1>4. \A k \in 0..n, x \in G, y \in d.hosts : y \in f[k][x] <=> Below(f, k, x, y)
  BY <1>1, Zenon
<1> DEFINE A == [k \in 0..n |-> {x \in G : h \in f[k][x]}]
<1>5. A \in [0..n -> SUBSET G] /\ B \in SUBSET G
  OBVIOUS
<1>6. A[0] = B
  <2>1. A[0] = {x \in G : h \in f[0][x]} /\ 0 \in 0..n
    BY <1>2
  <2>2. \A x \in G : h \in f[0][x] <=> Below(f, 0, x, h)
    BY <1>4, <2>1
  <2>3. \A x \in G : h \in f[0][x] <=> <<x, h>> \in d.members
    BY <2>2 DEF Below
  <2> HIDE DEF A
  <2> QED BY <2>1, <2>3
<1>7. ASSUME NEW k \in 1..n, NEW x \in G
      PROVE  x \in A[k] <=> x \in B \/ \E y \in A[k - 1] : <<x, y>> \in d.children
  <2>1. k \in 0..n /\ k - 1 \in 0..n /\ k # 0
    BY <1>2
  <2>2. A[k] = {z \in G : h \in f[k][z]} /\ A[k - 1] = {z \in G : h \in f[k - 1][z]}
    BY <2>1
  <2> HIDE DEF A
  <2>3. h \in f[k][x] <=> <<x, h>> \in d.members \/ \E c \in G : <<x, c>> \in d.children /\ h \in f[k - 1][c]
    <3>1. h \in f[k][x] <=> Below(f, k, x, h)
      BY <1>4, <2>1
    <3> QED BY <2>1, <3>1 DEF Below
  <2> QED BY <2>2, <2>3
<1>8. A[n] = Least(G, B, d.children)
  <2>1. IsFiniteSet(G)
    OBVIOUS
  <2>2. \A k \in 1..n, x \in G : x \in A[k] <=> x \in B \/ \E y \in A[k - 1] : <<x, y>> \in d.children
    BY <1>7
  <2> HIDE DEF A, B, G
  <2>3. Rounds(G, n, B, d.children, A)
    BY <1>5, <1>6, <2>2 DEF Rounds
  <2> QED BY <1>2, <1>5, <2>1, <2>3, Saturation
<1>9. g \in A[n] <=> h \in GetHosts(g)
  BY <1>2, <1>3
<1> QED BY <1>8, <1>9

\* Group.AllVars, one level of parents further up with every step.
LEMMA VarSteps ==
    ASSUME IsFiniteSet(d.groups)
    PROVE  \E f \in [0..Cardinality(d.groups) -> [d.groups -> SUBSET d.withVars]] :
             /\ \A h : AllVars(h) = UNION {f[Cardinality(d.groups)][g] : g \in {g \in d.groups : <<h, g>> \in d.memberOf}}
             /\ \A k \in 0..Cardinality(d.groups), x \in d.groups, v \in d.withVars :
                  v \in f[k][x] <=> v = x \/ (k # 0 /\ \E p \in Parents(d, x) : v \in f[k - 1][p])
<1> DEFINE n == Cardinality(d.groups)
           G == d.groups
           V == [G -> SUBSET d.withVars]
           Own(x) == {x} \cap d.withVars
           F == [k \in 1..n |-> [v \in V |-> [x \in G |-> Own(x) \cup UNION {v[p] : p \in Parents(d, x)}]]]
           b == [x \in G |-> Own(x)]
           Eq(f) == f = [k \in 0..n |-> [x \in G |->
                            Own(x) \cup IF k = 0 THEN {} ELSE UNION {f[k - 1][p] : p \in Parents(d, x)}]]
           f == CHOOSE f : Eq(f)
<1>1. n \in Nat
  BY FS_CardinalityType
<1>2. \A h : AllVars(h) = UNION {f[n][g] : g \in {g \in d.groups : <<h, g>> \in d.memberOf}}
  BY DEF AllVars
<1> HIDE DEF n
<1>3. F \in [1..n -> [V -> V]] /\ b \in V
  <2>1. ASSUME NEW v \in V, NEW x \in G PROVE Own(x) \cup UNION {v[p] : p \in Parents(d, x)} \in SUBSET d.withVars
    BY DEF Parents
  <2> HIDE DEF Own
  <2>2. \A v \in V : [x \in G |-> Own(x) \cup UNION {v[p] : p \in Parents(d, x)}] \in V
    BY <2>1
  <2>3. b \in V
    BY DEF Own
  <2> QED BY <2>2, <2>3
<1>4. PICK e \in [0..n -> V] : e[0] = b /\ \A k \in 1..n : e[k] = F[k][e[k - 1]]
  <2>1. \E i : Iterates(i, n, V, b, F)
    <3> HIDE DEF F, b, V
    <3> QED BY <1>1, <1>3, Recursion
  <2> QED BY <2>1 DEF Iterates
<1> HIDE DEF Own
<1>5. Eq(e)
  <2>1. ASSUME NEW k \in 0..n
        PROVE  e[k] = [x \in G |-> Own(x) \cup IF k = 0 THEN {} ELSE UNION {e[k - 1][p] : p \in Parents(d, x)}]
    <3>1. CASE k = 0
      BY <1>4, <3>1
    <3>2. CASE k # 0
      <4>1. k \in 1..n /\ k - 1 \in 0..n
        BY <1>1, <3>2
      <4>2. e[k - 1] \in V /\ e[k] = F[k][e[k - 1]]
        BY <1>4, <4>1
      <4>3. e[k] = [x \in G |-> Own(x) \cup UNION {e[k - 1][p] : p \in Parents(d, x)}]
        BY <4>1, <4>2
      <4> QED BY <3>2, <4>3
    <3> QED BY <3>1, <3>2
  <2>2. e = [k \in 0..n |-> e[k]]
    OBVIOUS
  <2> QED BY <2>1, <2>2
<1>6. Eq(f)
  <2> HIDE DEF Eq
  <2> QED BY <1>5
<1> HIDE DEF f
<1> DEFINE M(k) == [x \in G |-> Own(x) \cup IF k = 0 THEN {} ELSE UNION {f[k - 1][p] : p \in Parents(d, x)}]
<1>7. f = [k \in 0..n |-> M(k)]
  BY <1>6
<1>8. \A k \in 0..n : f[k] = M(k)
  <2> HIDE DEF M
  <2> QED BY <1>7
<1>9. \A k \in Nat : k <= n => f[k] \in V
  <2> DEFINE S == {k \in Nat : k <= n => f[k] \in V}
  <2>1. 0 \in S
    <3>1. f[0] = M(0)
      <4> HIDE DEF M
      <4> QED BY <1>1, <1>8
    <3>2. f[0] = b
      BY <3>1
    <3> HIDE DEF V, b
    <3> QED BY <1>3, <3>2
  <2>2. ASSUME NEW k \in Nat, k \in S PROVE k + 1 \in S
    <3> SUFFICES ASSUME k + 1 <= n PROVE f[k + 1] \in V
      OBVIOUS
    <3>1. k <= n /\ k + 1 \in 0..n /\ k + 1 \in 1..n /\ (k + 1) - 1 = k /\ k + 1 # 0
      BY <1>1
    <3>2. f[k] \in V
      BY <2>2, <3>1
    <3>3. f[k + 1] = M(k + 1)
      <4> HIDE DEF M
      <4> QED BY <1>8, <3>1
    <3>4. f[k + 1] = [x \in G |-> Own(x) \cup UNION {f[k][p] : p \in Parents(d, x)}]
      BY <3>1, <3>3
    <3>5. f[k + 1] = F[k + 1][f[k]] /\ F[k + 1] \in [V -> V]
      BY <1>3, <3>1, <3>2, <3>4
    <3> QED BY <3>2, <3>5
  <2> HIDE DEF S
  <2>3. \A k \in Nat : k \in S
    BY <2>1, <2>2, SetInduction
  <2> QED BY <2>3 DEF S
<1>10. f \in [0..n -> V]
  <2> HIDE DEF M, V
  <2> QED BY <1>1, <1>7, <1>9
<1>11. ASSUME NEW k \in 0..n, NEW x \in G, NEW v \in d.withVars
       PROVE  v \in f[k][x] <=> v = x \/ (k # 0 /\ \E p \in Parents(d, x) : v \in f[k - 1][p])
  <2>1. f[k] = M(k)
    <3> HIDE DEF M
    <3> QED BY <1>8
  <2>2. f[k][x] = Own(x) \cup IF k = 0 THEN {} ELSE UNION {f[k - 1][p] : p \in Parents(d, x)}
    BY <2>1
  <2> QED BY <2>2 DEF Own
<1> QED BY <1>2, <1>10, <1>11 DEF n

\* AllVars finds the variable of every group above the groups of a host, however
\* high, and no others.
LEMMA AllVarsLeast ==
    ASSUME IsFiniteSet(d.groups), d.withVars \subseteq d.groups, NEW v \in d.withVars, NEW h
    PROVE  v \in AllVars(h) <=> \E x \in d.groups : <<h, x>> \in d.memberOf /\ x \in Least(d.groups, {v}, d.parents)
<1> DEFINE n == Cardinality(d.groups)
           G == d.groups
<1>1. PICK f \in [0..n -> [G -> SUBSET d.withVars]] :
             /\ \A y : AllVars(y) = UNION {f[n][g] : g \in {g \in G : <<y, g>> \in d.memberOf}}
             /\ \A k \in 0..n, x \in G, w \in d.withVars :
                  w \in f[k][x] <=> w = x \/ (k # 0 /\ \E p \in Parents(d, x) : w \in f[k - 1][p])
  BY VarSteps
<1>2. n \in Nat /\ n = Cardinality(G)
  BY FS_CardinalityType
<1> HIDE DEF n
<1>3. AllVars(h) = UNION {f[n][g] : g \in {g \in G : <<h, g>> \in d.memberOf}}
  BY <1>1, Zenon
<1>4. \A k \in 0..n, x \in G, w \in d.withVars :
         w \in f[k][x] <=> w = x \/ (k # 0 /\ \E p \in Parents(d, x) : w \in f[k - 1][p])
  BY <1>1, Zenon
<1> DEFINE A == [k \in 0..n |-> {x \in G : v \in f[k][x]}]
<1>5. A \in [0..n -> SUBSET G] /\ {v} \in SUBSET G
  OBVIOUS
<1>6. A[0] = {v}
  <2>1. A[0] = {x \in G : v \in f[0][x]} /\ 0 \in 0..n
    BY <1>2
  <2> QED BY <1>4, <2>1
<1>7. ASSUME NEW k \in 1..n, NEW x \in G
      PROVE  x \in A[k] <=> x \in {v} \/ \E y \in A[k - 1] : <<x, y>> \in d.parents
  <2>1. k \in 0..n /\ k - 1 \in 0..n /\ k # 0
    BY <1>2
  <2>2. A[k] = {z \in G : v \in f[k][z]} /\ A[k - 1] = {z \in G : v \in f[k - 1][z]}
    BY <2>1
  <2> HIDE DEF A
  <2>3. v \in f[k][x] <=> v = x \/ \E p \in Parents(d, x) : v \in f[k - 1][p]
    BY <1>4, <2>1
  <2>4. \A p \in G : p \in Parents(d, x) <=> <<x, p>> \in d.parents
    BY DEF Parents
  <2>5. Parents(d, x) \subseteq G
    BY DEF Parents
  <2> QED BY <2>2, <2>3, <2>4, <2>5
<1>8. A[n] = Least(G, {v}, d.parents)
  <2>1. IsFiniteSet(G)
    OBVIOUS
  <2>2. \A k \in 1..n, x \in G : x \in A[k] <=> x \in {v} \/ \E y \in A[k - 1] : <<x, y>> \in d.parents
    BY <1>7
  <2> HIDE DEF A, G
  <2>3. Rounds(G, n, {v}, d.parents, A)
    BY <1>5, <1>6, <2>2 DEF Rounds
  <2> QED BY <1>2, <1>5, <2>1, <2>3, Saturation
<1>9. \A x \in G : x \in A[n] <=> v \in f[n][x]
  BY <1>2
<1>10. v \in AllVars(h) <=> \E x \in G : <<h, x>> \in d.memberOf /\ v \in f[n][x]
  BY <1>3
<1> HIDE DEF A
<1> QED BY <1>8, <1>9, <1>10

\* Going down from v one meets M just if going up from M one meets v.
LEMMA UpAndDown ==
    ASSUME NEW G, NEW M \in SUBSET G, NEW v \in G, NEW C, NEW P,
           \A x, y \in G : <<x, y>> \in C <=> <<y, x>> \in P
    PROVE  v \in Least(G, M, C) <=> \E x \in M : x \in Least(G, {v}, P)
<1> DEFINE up == Least(G, M, C)
           down == Least(G, {v}, P)
<1>1. M \subseteq up /\ up \subseteq G /\ \A u, y \in G : <<u, y>> \in C /\ y \in up => u \in up
  BY LeastHolds
<1>2. v \in down /\ down \subseteq G /\ \A u, y \in G : <<u, y>> \in P /\ y \in down => u \in down
  <2>1. {v} \in SUBSET G
    OBVIOUS
  <2> QED BY <2>1, LeastHolds
<1>3. ASSUME v \in up, M \cap down = {} PROVE FALSE
  <2> DEFINE T == G \ down
  <2>1. M \subseteq T /\ T \in SUBSET G
    BY <1>3
  <2>2. \A u, y \in G : <<u, y>> \in C /\ y \in T => u \in T
    BY <1>2
  <2>3. up \subseteq T
    <3> HIDE DEF T
    <3> QED BY <2>1, <2>2 DEF Least
  <2> HIDE DEF down, up
  <2> QED BY <1>2, <1>3, <2>3
<1>4. ASSUME v \notin up, NEW x \in M, x \in down PROVE FALSE
  <2> DEFINE T == G \ up
  <2>1. {v} \subseteq T /\ T \in SUBSET G
    BY <1>4
  <2>2. \A u, y \in G : <<u, y>> \in P /\ y \in T => u \in T
    BY <1>1
  <2>3. down \subseteq T
    <3> HIDE DEF T
    <3> QED BY <2>1, <2>2 DEF Least
  <2> HIDE DEF down, up
  <2> QED BY <1>1, <1>4, <2>3
<1> HIDE DEF up, down
<1>5. v \in up <=> \E x \in M : x \in down
  BY <1>3, <1>4
<1> QED BY <1>5 DEF up, down

-----------------------------------------------------------------------------
(* Patterns of groups.                                                      *)

\* What the terms up to the i-th have selected, said of one host.
Selects(p, i, h) ==
    \E m \in 1..i :
        /\ p[m].op = "+" /\ h \in GetHosts(p[m].name)
        /\ \A j \in (m + 1)..i :
              /\ p[j].op = "!" => h \notin GetHosts(p[j].name)
              /\ p[j].op = "&" => h \in GetHosts(p[j].name)

\* What one more term does with a host.
Extends(p, i, h) ==
    \/ p[i + 1].op = "+" /\ (Selects(p, i, h) \/ h \in GetHosts(p[i + 1].name))
    \/ p[i + 1].op = "!" /\ Selects(p, i, h) /\ h \notin GetHosts(p[i + 1].name)
    \/ p[i + 1].op = "&" /\ Selects(p, i, h) /\ h \in GetHosts(p[i + 1].name)

\* One more term.
LEMMA SelectsStep ==
    ASSUME NEW p, NEW i \in Nat, NEW h, p[i + 1].op \in {"+", "!", "&"}
    PROVE  Selects(p, i + 1, h) <=> Extends(p, i, h)
<1> DEFINE Adds(m) == p[m].op = "+" /\ h \in GetHosts(p[m].name)
           Keeps(j) == /\ p[j].op = "!" => h \notin GetHosts(p[j].name)
                       /\ p[j].op = "&" => h \in GetHosts(p[j].name)
<1>1. \A k \in Nat : Selects(p, k, h) <=> \E m \in 1..k : Adds(m) /\ \A j \in (m + 1)..k : Keeps(j)
  BY DEF Selects
<1> HIDE DEF Adds, Keeps
<1>2. Selects(p, i + 1, h) <=> (Selects(p, i, h) /\ Keeps(i + 1)) \/ Adds(i + 1)
  <2>1. i + 1 \in Nat
    OBVIOUS
  <2>2. ASSUME NEW m \in 1..(i + 1), Adds(m), \A j \in (m + 1)..(i + 1) : Keeps(j)
        PROVE  (Selects(p, i, h) /\ Keeps(i + 1)) \/ Adds(i + 1)
    <3>1. CASE m = i + 1
      BY <2>2, <3>1
    <3>2. CASE m # i + 1
      <4>1. m \in 1..i /\ (i + 1) \in (m + 1)..(i + 1) /\ \A j \in (m + 1)..i : j \in (m + 1)..(i + 1)
        BY <3>2
      <4> QED BY <1>1, <2>2, <4>1
    <3> QED BY <3>1, <3>2
  <2>3. ASSUME Selects(p, i, h), Keeps(i + 1) PROVE Selects(p, i + 1, h)
    <3>1. PICK m \in 1..i : Adds(m) /\ \A j \in (m + 1)..i : Keeps(j)
      BY <1>1, <2>3
    <3>2. m \in 1..(i + 1) /\ \A j \in (m + 1)..(i + 1) : j \in (m + 1)..i \/ j = i + 1
      OBVIOUS
    <3>3. \A j \in (m + 1)..(i + 1) : Keeps(j)
      BY <2>3, <3>1, <3>2
    <3> QED BY <1>1, <2>1, <3>1, <3>2, <3>3
  <2>4. ASSUME Adds(i + 1) PROVE Selects(p, i + 1, h)
    <3>1. i + 1 \in 1..(i + 1) /\ (i + 1 + 1)..(i + 1) = {}
      OBVIOUS
    <3> QED BY <1>1, <2>1, <2>4, <3>1
  <2> QED BY <1>1, <2>1, <2>2, <2>3, <2>4
<1> QED BY <1>2 DEF Adds, Keeps, Extends

\* A pattern of l terms, all of groups that exist.
PatternOf(p, l) ==
    /\ Len(p) = l
    /\ \A i \in 1..l : p[i].op \in {"+", "!", "&"} /\ p[i].name \in d.groups
    /\ \A g \in d.groups : GetHosts(g) \in SUBSET d.hosts

\* The sets of hosts that the terms of a pattern compute one after another.
LEMMA TermSteps ==
    ASSUME NEW l \in Nat, NEW p,
           \A i \in 1..l, v \in SUBSET d.hosts : Term(v, p[i]) \in SUBSET d.hosts
    PROVE  \E e \in [0..l -> SUBSET d.hosts] : e[0] = {} /\ \A i \in 1..l : e[i] = Term(e[i - 1], p[i])
<1> DEFINE n == l
           V == SUBSET d.hosts
           b == {}
           F == [i \in 1..n |-> [v \in V |-> Term(v, p[i])]]
<1>1. n \in Nat
  OBVIOUS
<1>2. F \in [1..n -> [V -> V]] /\ b \in V
  OBVIOUS
<1>3. PICK e \in [0..n -> V] : e[0] = b /\ \A k \in 1..n : e[k] = F[k][e[k - 1]]
  <2>1. \E f : Iterates(f, n, V, b, F)
    <3> HIDE DEF F, b, V, n
    <3> QED BY <1>1, <1>2, Recursion
  <2> QED BY <2>1 DEF Iterates
<1>4. \A k \in 1..n : e[k - 1] \in V /\ e[k] = Term(e[k - 1], p[k])
  <2>1. ASSUME NEW k \in 1..n PROVE k - 1 \in 0..n
    OBVIOUS
  <2> QED BY <1>3, <2>1
<1> QED BY <1>3, <1>4

\* determineHostsFromGroupsPattern, for a pattern of any length.
LEMMA PatternSelects ==
    ASSUME NEW p, Len(p) \in Nat, PatternOf(p, Len(p)), NEW h \in d.hosts
    PROVE  h \in GroupsPattern(p) <=> Selects(p, Len(p), h)
<1> DEFINE l == Len(p)
<1>0. l \in Nat /\ PatternOf(p, l) /\ Len(p) = l
  OBVIOUS
<1> HIDE DEF l
<1> DEFINE V == SUBSET d.hosts
           Eq(f) == f = [i \in 0..Len(p) |-> IF i = 0 THEN {} ELSE Term(f[i - 1], p[i])]
           f == CHOOSE f : Eq(f)
<1>1. GroupsPattern(p) = f[l]
  BY <1>0 DEF GroupsPattern
<1>2. \A i \in 1..l : p[i].op \in {"+", "!", "&"} /\ p[i].name \in d.groups
  BY <1>0 DEF PatternOf
<1>3. \A i \in 1..l, v \in V : Term(v, p[i]) \in V
  <2>1. ASSUME NEW i \in 1..l, NEW v \in V PROVE Term(v, p[i]) \in V
    <3>1. GetHosts(p[i].name) \in SUBSET d.hosts
      BY <1>0, <1>2 DEF PatternOf
    <3> QED BY <3>1 DEF Term
  <2> QED BY <2>1
<1>4. PICK e \in [0..l -> V] : e[0] = {} /\ \A i \in 1..l : e[i] = Term(e[i - 1], p[i])
  BY <1>0, <1>3, TermSteps
<1>5. Eq(e)
  <2>1. ASSUME NEW i \in 0..l PROVE e[i] = IF i = 0 THEN {} ELSE Term(e[i - 1], p[i])
    <3>1. CASE i = 0
      BY <1>4, <3>1
    <3>2. CASE i # 0
      <4>1. i \in 1..l /\ i - 1 \in 0..l
        BY <1>0, <3>2
      <4> QED BY <1>4, <3>2, <4>1
    <3> QED BY <3>1, <3>2
  <2>2. e = [i \in 0..l |-> e[i]] /\ Len(p) = l
    BY <1>0 DEF PatternOf
  <2> QED BY <2>1, <2>2
<1>6. Eq(f)
  <2> HIDE DEF Eq
  <2> QED BY <1>5
<1> HIDE DEF f
<1> DEFINE M(i) == IF i = 0 THEN {} ELSE Term(f[i - 1], p[i])
<1>7. \A i \in 0..l : f[i] = M(i)
  <2>1. f = [i \in 0..l |-> M(i)]
    BY <1>0, <1>6
  <2> HIDE DEF M
  <2> QED BY <2>1
<1> DEFINE S == {i \in Nat : i <= l => (h \in f[i] <=> Selects(p, i, h))}
<1>8. 0 \in S
  <2>1. f[0] = {}
    BY <1>0, <1>7
  <2>2. ~Selects(p, 0, h)
    BY DEF Selects
  <2> QED BY <2>1, <2>2
<1>9. ASSUME NEW i \in Nat, i \in S PROVE i + 1 \in S
  <2> SUFFICES ASSUME i + 1 <= l PROVE h \in f[i + 1] <=> Selects(p, i + 1, h)
    OBVIOUS
  <2>1. i <= l /\ i + 1 \in 0..l /\ i + 1 \in 1..l /\ (i + 1) - 1 = i /\ i + 1 # 0
    BY <1>0
  <2>2. f[i + 1] = Term(f[i], p[i + 1])
    BY <1>7, <2>1
  <2>3. h \in f[i] <=> Selects(p, i, h)
    BY <1>9, <2>1
  <2>4. p[i + 1].op \in {"+", "!", "&"}
    BY <1>2, <2>1
  <2>5. Selects(p, i + 1, h) <=> Extends(p, i, h)
    <3> HIDE DEF V, Eq, M, S
    <3> QED BY <2>4, SelectsStep
  <2>6. CASE p[i + 1].op = "+"
    BY <2>2, <2>3, <2>5, <2>6 DEF Term, Extends
  <2>7. CASE p[i + 1].op = "!"
    BY <2>2, <2>3, <2>5, <2>7 DEF Term, Extends
  <2>8. CASE p[i + 1].op = "&"
    BY <2>2, <2>3, <2>5, <2>8 DEF Term, Extends
  <2> QED BY <2>4, <2>6, <2>7, <2>8
<1> HIDE DEF S
<1>10. l \in S
  BY <1>0, <1>8, <1>9, SetInduction
<1> QED BY <1>0, <1>1, <1>10 DEF S, l

-----------------------------------------------------------------------------
(* The answers of an accepted inventory.                                    *)

\* There are finitely many groups, and all is one of them.
LEMMA FiniteGroups ==
    IInv => /\ IsFiniteSet(d.groups) /\ d.withVars \subseteq d.groups /\ "all" \in d.groups
            /\ d.groups \subseteq Groups /\ d.hosts \subseteq Hosts
<1> SUFFICES ASSUME IInv PROVE IsFiniteSet(d.groups) /\ d.withVars \subseteq d.groups /\ "all" \in d.groups
                               /\ d.groups \subseteq Groups /\ d.hosts \subseteq Hosts
  OBVIOUS
<1>1. d.groups \subseteq Groups /\ d.hosts \subseteq Hosts /\ d.withVars \subseteq d.groups /\ "all" \in d.groups
  BY DEF IInv, Coherent, DataType
<1>2. IsFiniteSet(Groups)
  BY InventoryAssumption
<1>3. IsFiniteSet(d.groups)
  BY <1>1, <1>2, FS_Subset
<1> QED BY <1>1, <1>3

\* GetHosts finds hosts of the inventory only.
LEMMA HostsKnown ==
    ASSUME IsFiniteSet(d.groups) PROVE \A g \in d.groups : GetHosts(g) \in SUBSET d.hosts
<1> DEFINE n == Cardinality(d.groups)
<1>1. n \in Nat
  BY FS_CardinalityType
<1>2. PICK f \in [0..n -> [d.groups -> SUBSET d.hosts]] : \A g \in d.groups : GetHosts(g) = f[n][g]
  BY HostSteps
<1> HIDE DEF n
<1>3. n \in 0..n
  BY <1>1
<1> QED BY <1>2, <1>3

\* The depth-bounded search for cycles, for any number of groups: what formatAndValidate
\* accepts has no cycle, and what it rejects has one or a group that nothing declares.
THEOREM InventoryCycles == Spec => []CycleSearchExact
<1>1. IInv /\ Judged => CycleSearchExact
  <2> SUFFICES ASSUME IInv, Judged PROVE CycleSearchExact
    OBVIOUS
  <2>1. Validate(d) <=> d.groups \subseteq d.initialized /\ AcyclicIn(d)
    BY FiniteGroups, ValidateExact
  <2>2. Acyclic <=> AcyclicIn(d)
    BY DEF Acyclic, AcyclicIn
  <2>3. /\ status = "accepted" => Validate(d)
        /\ status = "rejected" => ~Validate(d)
    BY DEF Judged
  <2> QED BY <2>1, <2>2, <2>3 DEF CycleSearchExact, Accepted
<1> QED BY <1>1, SpecJudged, PTL

\* In an accepted inventory every host is below the group all: from a group that lists
\* it, parents lead up, never twice through the same group, to the one group without any.
THEOREM InventoryAll == Spec => []AllMeansAll
<1>1. IInv /\ Judged => AllMeansAll
  <2> SUFFICES ASSUME IInv, Judged, status = "accepted" PROVE GetHosts("all") = d.hosts /\ SingleName("all") = d.hosts
    BY DEF AllMeansAll, Accepted
  <2>1. IsFiniteSet(d.groups) /\ "all" \in d.groups /\ d.groups \subseteq Groups
    BY FiniteGroups
  <2>2. AcyclicIn(d) /\ Formatted(d) /\ Listed(d)
    BY <2>1, ValidateExact DEF Judged
  <2>3. ASSUME NEW h \in d.hosts PROVE h \in GetHosts("all")
    <3> DEFINE B == {x \in d.groups : <<x, h>> \in d.members}
               A == Least(d.groups, B, d.children)
    <3>1. B \in SUBSET d.groups /\ B # {}
      BY <2>2 DEF Listed
    <3>2. /\ B \subseteq A /\ A \subseteq d.groups
          /\ \A u, y \in d.groups : <<u, y>> \in d.children /\ y \in A => u \in A
      <4> HIDE DEF B
      <4> QED BY <3>1, LeastHolds
    <3>3. h \in GetHosts("all") <=> "all" \in A
      BY <2>1, GetHostsLeast
    <3> HIDE DEF B, A
    <3>4. A \in SUBSET d.groups /\ A # {}
      BY <3>1, <3>2
    <3>5. PICK g \in A : Parents(d, g) \cap A = {}
      BY <2>2, <3>4 DEF AcyclicIn
    <3>6. g = "all"
      <4> SUFFICES ASSUME g # "all" PROVE FALSE
        OBVIOUS
      <4>1. g \in d.groups /\ Parents(d, g) # {}
        BY <2>2, <3>4 DEF Formatted
      <4>2. PICK p \in d.groups : <<g, p>> \in d.parents
        BY <4>1 DEF Parents
      <4>3. <<p, g>> \in d.children
        BY <2>1, <4>1, <4>2 DEF IInv, Coherent
      <4>4. p \in A
        BY <3>2, <4>1, <4>2, <4>3
      <4>5. p \in Parents(d, g)
        BY <4>2 DEF Parents
      <4> QED BY <3>5, <4>4, <4>5
    <3> QED BY <3>3, <3>6
  <2>4. GetHosts("all") \in SUBSET d.hosts
    BY <2>1, HostsKnown
  <2>5. SingleName("all") = d.hosts
    BY DEF SingleName
  <2> QED BY <2>3, <2>4, <2>5
<1> QED BY <1>1, SpecJudged, PTL

\* Going up from a host's own groups to collect variables meets only groups from which
\* going down to collect hosts meets the host, and all of them unless addUngroupedGroup
\* moved it; a host that was moved and has no other group sees no variables, though it
\* is among the hosts of all.
THEOREM InventoryVars == Spec => []VarsReachHosts
<1>1. IInv /\ Judged /\ AllMeansAll => VarsReachHosts
  <2> SUFFICES ASSUME IInv, Judged, AllMeansAll, status = "accepted", NEW h \in d.hosts
               PROVE  LET reaching == {g \in d.withVars : h \in GetHosts(g)}
                          listedIn == {g \in d.groups : <<g, h>> \in d.members}
                          moved == "ungrouped" \in listedIn /\ <<h, "ungrouped">> \notin d.memberOf
                      IN /\ AllVars(h) \subseteq reaching
                         /\ ~moved => AllVars(h) = reaching
                         /\ moved /\ listedIn = {"ungrouped"} =>
                              /\ AllVars(h) = {}
                              /\ "all" \in d.withVars => "all" \in reaching
    BY DEF VarsReachHosts, Accepted
  <2>1. IsFiniteSet(d.groups) /\ d.withVars \subseteq d.groups /\ d.groups \subseteq Groups /\ d.hosts \subseteq Hosts
    BY FiniteGroups
  <2> DEFINE M == {x \in d.groups : <<x, h>> \in d.members}
             moved == "ungrouped" \in M /\ <<h, "ungrouped">> \notin d.memberOf
             reaching == {g \in d.withVars : h \in GetHosts(g)}
  <2>2. ASSUME NEW x \in d.groups
        PROVE  /\ <<h, x>> \in d.memberOf => x \in M
               /\ ~moved /\ x \in M => <<h, x>> \in d.memberOf
               /\ <<h, x>> \in d.memberOf => ~moved \/ x # "ungrouped"
    <3>1. CASE x = "all"
      BY <2>1, <3>1 DEF Judged, Formatted
    <3>2. CASE x = "ungrouped"
      BY <2>1, <3>2 DEF Judged, Listed
    <3>3. CASE x \notin {"all", "ungrouped"}
      BY <2>1, <3>3 DEF IInv, Coherent
    <3> QED BY <3>1, <3>2, <3>3
  <2>3. M \in SUBSET d.groups
    OBVIOUS
  <2>4. \A x, y \in d.groups : <<x, y>> \in d.children <=> <<y, x>> \in d.parents
    BY <2>1 DEF IInv, Coherent
  <2>5. ASSUME NEW v \in d.withVars
        PROVE  /\ v \in AllVars(h) => h \in GetHosts(v)
               /\ ~moved /\ h \in GetHosts(v) => v \in AllVars(h)
               /\ moved /\ M = {"ungrouped"} => v \notin AllVars(h)
    <3>1. v \in d.groups
      BY <2>1
    <3>2. v \in AllVars(h) <=> \E x \in d.groups : <<h, x>> \in d.memberOf /\ x \in Least(d.groups, {v}, d.parents)
      BY <2>1, AllVarsLeast
    <3>3. h \in GetHosts(v) <=> v \in Least(d.groups, M, d.children)
      BY <2>1, <3>1, GetHostsLeast
    <3> HIDE DEF M, moved
    <3>4. v \in Least(d.groups, M, d.children) <=> \E x \in M : x \in Least(d.groups, {v}, d.parents)
      BY <2>3, <2>4, <3>1, UpAndDown
    <3> QED BY <2>2, <2>3, <3>2, <3>3, <3>4
  <2>6. AllVars(h) \subseteq d.withVars
    <3> DEFINE n == Cardinality(d.groups)
    <3>1. n \in Nat
      BY <2>1, FS_CardinalityType
    <3>2. PICK f \in [0..n -> [d.groups -> SUBSET d.withVars]] :
             \A y : AllVars(y) = UNION {f[n][g] : g \in {g \in d.groups : <<y, g>> \in d.memberOf}}
      BY <2>1, VarSteps
    <3> HIDE DEF n
    <3>3. n \in 0..n
      BY <3>1
    <3>4. \A g \in d.groups : f[n][g] \subseteq d.withVars
      BY <3>2, <3>3
    <3> QED BY <3>2, <3>4
  <2>7. AllVars(h) \subseteq reaching /\ (~moved => AllVars(h) = reaching)
    BY <2>5, <2>6
  <2>8. moved /\ M = {"ungrouped"} => AllVars(h) = {}
    BY <2>5, <2>6
  <2>9. "all" \in d.withVars => "all" \in reaching
    BY DEF AllMeansAll, Accepted
  <2> QED BY <2>7, <2>8, <2>9
<1> QED BY <1>1, SpecJudged, InventoryAll, PTL

\* What a pattern selects, term by term from the left, is what some term of it adds
\* and no later one takes away.
THEOREM InventoryPatterns == Spec => []PatternMeaning
<1>1. IInv => PatternMeaning
  <2> SUFFICES ASSUME IInv, NEW p \in Patterns, NEW h \in d.hosts
               PROVE  h \in GroupsPattern(p) <=> Selects(p, Len(p), h)
    BY DEF PatternMeaning, Selects
  <2>1. PICK l \in 1..3 : p \in [1..l -> [op : {"+", "!", "&"}, name : d.groups \ {"all"}]]
    BY DEF Patterns
  <2>2. Len(p) = l
    BY <2>1
  <2>3. PatternOf(p, Len(p))
    <3>1. \A i \in 1..l : p[i].op \in {"+", "!", "&"} /\ p[i].name \in d.groups
      BY <2>1
    <3>2. \A g \in d.groups : GetHosts(g) \in SUBSET d.hosts
      BY FiniteGroups, HostsKnown
    <3> QED BY <2>2, <3>1, <3>2 DEF PatternOf
  <2> QED BY <2>1, <2>2, <2>3, PatternSelects
<1> QED BY <1>1, SpecIInv, PTL
=============================================================================
