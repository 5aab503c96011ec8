------------------------- MODULE VarsManagerProofs -------------------------
(***************************************************************************)
(* The order of precedence, for all names, values, layers, arguments and   *)
(* template engines, and what it means for the attributes of a connection. *)
(***************************************************************************)
EXTENDS VarsManager, TLAPS

\* What combineVars returns.
LEMMA CombineVarsFacts ==
    ASSUME NEW a, NEW b
    PROVE  /\ DOMAIN CombineVars(a, b) = DOMAIN a \cup DOMAIN b
           /\ \A n \in DOMAIN b : CombineVars(a, b)[n] = b[n]
           /\ \A n \in DOMAIN a \ DOMAIN b : CombineVars(a, b)[n] = a[n]
BY DEF CombineVars

LEMMA EmptyFacts == DOMAIN Empty = {}
BY DEF Empty

\* combineVars makes a layer of two layers.
LEMMA CombineVarsLayer ==
    ASSUME NEW a, NEW b, IsLayer(a), IsLayer(b)
    PROVE  IsLayer(CombineVars(a, b))
BY DEF CombineVars, IsLayer

LEMMA EmptyLayer == IsLayer(Empty)
<1>1. Empty = [n \in DOMAIN Empty |-> Empty[n]]
  BY DEF Empty
<1> QED BY <1>1, EmptyFacts DEF IsLayer

-----------------------------------------------------------------------------
\* Every layer the manager keeps is a layer, whatever the command line gives, and the
\* loop context never holds more than the item.
THEOREM VarsTypeCorrect == Spec => []TypeOK
<1>1. Init => TypeOK
  BY VarsAssumption, EmptyLayer, EmptyFacts DEF Init, TypeOK
<1>2. ASSUME TypeOK, [Next]_vars PROVE TypeOK'
  <2>1. CASE SetExtraVar
    <3>1. Head(arguments) \in Argument /\ Tail(arguments) \in Seq(Argument)
      BY <1>2, <2>1 DEF TypeOK, SetExtraVar
    <3>2. IsLayer(CombineVars(extraVars, Head(arguments).vars))
      BY <1>2, <3>1, VarsAssumption, CombineVarsLayer DEF TypeOK
    <3>3. IsLayer(extraVars')
      BY <1>2, <2>1, <3>2 DEF TypeOK, SetExtraVar
    <3> QED BY <1>2, <2>1, <3>1, <3>3 DEF TypeOK, SetExtraVar, IsLayer
  <2>2. CASE StartPlaybook
    BY <1>2, <2>2 DEF TypeOK, StartPlaybook, IsLayer
  <2>3. CASE ResetLoopContext
    BY <1>2, <2>3, EmptyLayer, EmptyFacts DEF TypeOK, ResetLoopContext, IsLayer
  <2>4. ASSUME NEW v \in Items, SetLoopItem(v) PROVE TypeOK'
    <3> DEFINE item == [n \in {"item"} |-> v]
    <3>1. IsLayer(item)
      BY VarsAssumption DEF IsLayer
    <3>2. IsLayer(loopVars') /\ DOMAIN loopVars' \subseteq {"item"}
      BY <1>2, <2>4, <3>1, CombineVarsLayer, CombineVarsFacts DEF TypeOK, SetLoopItem
    <3> QED BY <1>2, <2>4, <3>2 DEF TypeOK, SetLoopItem, IsLayer
  <2>5. ASSUME NEW known \in BOOLEAN, SaveFacts(known) PROVE TypeOK'
    BY <1>2, <2>5 DEF TypeOK, SaveFacts, IsLayer
  <2>6. CASE Done \/ UNCHANGED vars
    BY <1>2, <2>6 DEF TypeOK, Done, vars, IsLayer
  <2> QED BY <1>2, <2>1, <2>2, <2>3, <2>4, <2>5, <2>6 DEF Next
<1> QED BY <1>1, <1>2, PTL DEF Spec

-----------------------------------------------------------------------------
\* Merging extra vars below and above the play's variables is merging them above.
LEMMA ExtraVarsAgain ==
    ASSUME NEW b, NEW e, NEW p
    PROVE  CombineVars(CombineVars(CombineVars(b, e), p), e) = CombineVars(CombineVars(b, p), e)
<1> DEFINE l == CombineVars(CombineVars(CombineVars(b, e), p), e)
           r == CombineVars(CombineVars(b, p), e)
<1>1. DOMAIN l = DOMAIN r
  BY DEF CombineVars
<1>2. \A n \in DOMAIN l : l[n] = r[n]
  BY DEF CombineVars
<1>3. l = [n \in DOMAIN l |-> l[n]] /\ r = [n \in DOMAIN r |-> r[n]]
  BY DEF CombineVars
<1> QED BY <1>1, <1>2, <1>3

\* The merge of four layers in the order of GetVars, read from the top.
LEMMA MergeOrder ==
    ASSUME NEW b, NEW p, NEW t, NEW e, NEW n
    PROVE  LET m == CombineVars(CombineVars(CombineVars(CombineVars(b, p), e), t), e) IN
           /\ n \in DOMAIN m <=> n \in DOMAIN e \cup DOMAIN t \cup DOMAIN p \cup DOMAIN b
           /\ n \in DOMAIN e => m[n] = e[n]
           /\ n \notin DOMAIN e /\ n \in DOMAIN t => m[n] = t[n]
           /\ n \notin DOMAIN e \cup DOMAIN t /\ n \in DOMAIN p => m[n] = p[n]
           /\ n \notin DOMAIN e \cup DOMAIN t \cup DOMAIN p /\ n \in DOMAIN b => m[n] = b[n]
BY DEF CombineVars

\* What two more layers do not define they leave as it is.
LEMMA TwoMore ==
    ASSUME NEW m, NEW b, NEW c, NEW n, n \notin DOMAIN b, n \notin DOMAIN c
    PROVE  LET k == CombineVars(CombineVars(m, b), c) IN
           (n \in DOMAIN k <=> n \in DOMAIN m) /\ (n \in DOMAIN m => k[n] = m[n])
BY DEF CombineVars

\* GetVars is the merge of the layers of Precedence, the attributes and the loop's item.
LEMMA GetVarsLayers ==
    ASSUME NEW ofHost \in BOOLEAN, NEW ofTask \in BOOLEAN,
           ~ Fails(LayersOf(ofHost, ofTask)[2]), ~ Fails(LayersOf(ofHost, ofTask)[3])
    PROVE  LET l == LayersOf(ofHost, ofTask)
               m == CombineVars(CombineVars(CombineVars(CombineVars(l[4], l[3]), l[1]), l[2]), l[1])
           IN GetVars(ofHost, ofTask) =
                CombineVars(CombineVars(m, SetMagicVars(m)), IF ofHost THEN loopVars ELSE Empty)
<1> DEFINE base == CombineVars(IF ofHost THEN CombineVars(GroupVars, layers.host) ELSE Empty, extraVars)
           play == TemplateVars(layers.play, base)
           env  == CombineVars(CombineVars(base, play), extraVars)
           task == IF ofTask THEN TemplateVars(layers.task, env) ELSE Empty
           l    == LayersOf(ofHost, ofTask)
<1>1. l[1] = extraVars /\ l[3] = PlayValues(ofHost) /\ l[4] = Below(ofHost)
      /\ l[2] = IF ofTask THEN TaskValues(ofHost) ELSE Empty
  BY DEF LayersOf
<1>2. base = CombineVars(Below(ofHost), extraVars)
  BY DEF Below, Over
<1>3. play = PlayValues(ofHost)
  BY <1>2 DEF PlayValues, Over
<1>4. env = CombineVars(CombineVars(Below(ofHost), play), extraVars)
  BY <1>2, ExtraVarsAgain
<1>5. task = l[2]
  BY <1>1, <1>3, <1>4 DEF TaskValues, Over
<1>6. ~ Fails(play) /\ ~ Fails(task)
  BY <1>1, <1>3, <1>5
<1> HIDE DEF l
<1>7. GetVars(ofHost, ofTask) =
        CombineVars(CombineVars(CombineVars(CombineVars(env, task), extraVars),
                                SetMagicVars(CombineVars(CombineVars(env, task), extraVars))),
                    IF ofHost THEN loopVars ELSE Empty)
  BY <1>6 DEF GetVars
<1> QED BY <1>1, <1>3, <1>4, <1>5, <1>7 DEF l

\* A variable has the value of its highest layer, for every playbook, inventory and
\* command line.
THEOREM VarsPrecedence == Spec => []Precedence
<1>1. TypeOK => Precedence
  <2> SUFFICES ASSUME TypeOK, NEW ofHost \in BOOLEAN, NEW ofTask \in BOOLEAN,
                      ~ Fails(LayersOf(ofHost, ofTask)[2]), ~ Fails(LayersOf(ofHost, ofTask)[3]),
                      NEW n \in Names \ ({"item"} \cup DOMAIN Aliases)
               PROVE  LET got == GetVars(ofHost, ofTask)
                          l   == LayersOf(ofHost, ofTask)
                      IN /\ n \in DOMAIN got <=> \E i \in 1..4 : n \in DOMAIN l[i]
                         /\ \A i \in 1..4 :
                              n \in DOMAIN l[i] /\ (\A j \in 1..(i - 1) : n \notin DOMAIN l[j]) => got[n] = l[i][n]
    BY DEF Precedence
  <2> DEFINE l == LayersOf(ofHost, ofTask)
             m == CombineVars(CombineVars(CombineVars(CombineVars(l[4], l[3]), l[1]), l[2]), l[1])
             loop == IF ofHost THEN loopVars ELSE Empty
             got == GetVars(ofHost, ofTask)
  <2>1. got = CombineVars(CombineVars(m, SetMagicVars(m)), loop)
    BY GetVarsLayers
  <2>2. n \notin DOMAIN loop
    BY EmptyFacts DEF TypeOK
  <2>3. n \notin DOMAIN SetMagicVars(m)
    BY DEF SetMagicVars
  <2> HIDE DEF l, m, loop, got
  <2>4. (n \in DOMAIN got <=> n \in DOMAIN m) /\ (n \in DOMAIN m => got[n] = m[n])
    BY <2>1, <2>2, <2>3, TwoMore
  <2>5. /\ n \in DOMAIN m <=> n \in DOMAIN l[1] \cup DOMAIN l[2] \cup DOMAIN l[3] \cup DOMAIN l[4]
        /\ n \in DOMAIN l[1] => m[n] = l[1][n]
        /\ n \notin DOMAIN l[1] /\ n \in DOMAIN l[2] => m[n] = l[2][n]
        /\ n \notin DOMAIN l[1] \cup DOMAIN l[2] /\ n \in DOMAIN l[3] => m[n] = l[3][n]
        /\ n \notin DOMAIN l[1] \cup DOMAIN l[2] \cup DOMAIN l[3] /\ n \in DOMAIN l[4] => m[n] = l[4][n]
    BY MergeOrder DEF m
  <2>6. \A i \in 1..4 : i = 1 \/ i = 2 \/ i = 3 \/ i = 4
    OBVIOUS
  <2>7. n \in DOMAIN got <=> \E i \in 1..4 : n \in DOMAIN l[i]
    BY <2>4, <2>5, <2>6
  <2>8. ASSUME NEW i \in 1..4, n \in DOMAIN l[i], \A j \in 1..(i - 1) : n \notin DOMAIN l[j]
        PROVE  got[n] = l[i][n]
    BY <2>4, <2>5, <2>6, <2>8
  <2> QED BY <2>7, <2>8 DEF l, got
<1> QED BY <1>1, VarsTypeCorrect, PTL

-----------------------------------------------------------------------------
\* SetMagicVars gives an attribute the value of the last of its aliases that is set.
LEMMA LastAliasWins ==
    ASSUME NEW m, NEW a \in DOMAIN Aliases, NEW i \in DOMAIN Aliases[a],
           Aliases[a][i] \in DOMAIN m,
           \A j \in (i + 1)..Len(Aliases[a]) : Aliases[a][j] \notin DOMAIN m
    PROVE  a \in DOMAIN SetMagicVars(m) /\ SetMagicVars(m)[a] = m[Aliases[a][i]]
<1>1. Aliases[a] \in Seq(Names)
  BY VarsAssumption
<1>2. DOMAIN Aliases[a] = 1..Len(Aliases[a]) /\ Len(Aliases[a]) \in Nat
  BY <1>1
<1>3. i \in Set(a, m) /\ Set(a, m) \subseteq 1..Len(Aliases[a])
  BY <1>2 DEF Set
<1>4. \A j \in Set(a, m) : j <= i
  <2> SUFFICES ASSUME NEW j \in Set(a, m), ~(j <= i) PROVE FALSE
    OBVIOUS
  <2>1. j \in (i + 1)..Len(Aliases[a]) /\ Aliases[a][j] \in DOMAIN m
    BY <1>2, <1>3 DEF Set
  <2> QED BY <2>1
<1> DEFINE k == CHOOSE k \in Set(a, m) : \A j \in Set(a, m) : j <= k
<1>5. k \in Set(a, m) /\ \A j \in Set(a, m) : j <= k
  BY <1>3, <1>4
<1>6. k = i
  <2> HIDE DEF k
  <2>1. i <= k /\ k <= i /\ k \in Int /\ i \in Int
    BY <1>2, <1>3, <1>4, <1>5
  <2> QED BY <2>1
<1>7. SetMagicVars(m)[a] = m[Aliases[a][k]] /\ a \in DOMAIN SetMagicVars(m)
  BY <1>3 DEF SetMagicVars
<1> QED BY <1>6, <1>7

\* The attributes a connection is made with are the ones the layers' aliases say, for
\* every mapping in which no alias is itself an attribute or the loop's item.
THEOREM VarsAliases == Spec => []AliasFollowsLayers
<1>1. TypeOK => AliasFollowsLayers
  <2> SUFFICES ASSUME TypeOK, NEW ofHost \in BOOLEAN, NEW ofTask \in BOOLEAN,
                      GetVars(ofHost, ofTask) # Error,
                      NEW a \in DOMAIN Aliases, NEW i \in DOMAIN Aliases[a],
                      Aliases[a][i] \in DOMAIN GetVars(ofHost, ofTask),
                      \A j \in (i + 1)..Len(Aliases[a]) :
                        Aliases[a][j] \notin DOMAIN GetVars(ofHost, ofTask)
               PROVE  /\ a \in DOMAIN GetVars(ofHost, ofTask)
                      /\ GetVars(ofHost, ofTask)[a] = GetVars(ofHost, ofTask)[Aliases[a][i]]
    BY DEF AliasFollowsLayers
  <2> DEFINE got == GetVars(ofHost, ofTask)
             loop == IF ofHost THEN loopVars ELSE Empty
  <2>1. PICK m : got = CombineVars(CombineVars(m, SetMagicVars(m)), loop)
    BY DEF GetVars
  <2>2. DOMAIN loop \subseteq {"item"} /\ DOMAIN SetMagicVars(m) \subseteq DOMAIN Aliases
    BY EmptyFacts DEF TypeOK, SetMagicVars
  <2> HIDE DEF got, loop
  <2>3. ASSUME NEW j \in DOMAIN Aliases[a]
        PROVE  /\ Aliases[a][j] \in DOMAIN got <=> Aliases[a][j] \in DOMAIN m
               /\ Aliases[a][j] \in DOMAIN m => got[Aliases[a][j]] = m[Aliases[a][j]]
    <3>1. Aliases[a][j] \notin DOMAIN loop /\ Aliases[a][j] \notin DOMAIN SetMagicVars(m)
      BY <2>2, VarsAssumption
    <3> QED BY <2>1, <3>1, TwoMore
  <2>4. \A j \in (i + 1)..Len(Aliases[a]) : j \in DOMAIN Aliases[a]
    BY VarsAssumption
  <2>5. a \in DOMAIN SetMagicVars(m) /\ SetMagicVars(m)[a] = m[Aliases[a][i]]
    BY <2>3, <2>4, LastAliasWins DEF got
  <2>6. a \notin DOMAIN loop
    BY <2>2, VarsAssumption
  <2>7. a \in DOMAIN got /\ got[a] = SetMagicVars(m)[a]
    BY <2>1, <2>5, <2>6 DEF CombineVars
  <2> QED BY <2>3, <2>5, <2>7 DEF got
<1> QED BY <1>1, VarsTypeCorrect, PTL
=============================================================================
