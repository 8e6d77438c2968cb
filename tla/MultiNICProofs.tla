--------------------------- MODULE MultiNICProofs ---------------------------
(***************************************************************************)
(* Proofs about MultiNIC: when set-ups do not overlap (there is only one   *)
(* goroutine that runs setUpMultiNIC), the routing tables stay apart for   *)
(* every number of NICs, networks, tables and failures; each NIC keeps one *)
(* table, and tables without a rule come from failed calls only.           *)
(***************************************************************************)
EXTENDS MultiNIC, FiniteSetTheorems, TLAPS

\* The NIC a set-up works on is one of the additional NICs.
LEMMA NicType ==
  ASSUME TypeOK, NEW h \in Setups
  PROVE  Nic(h) \in NicSet /\ Nic(h) # None
BY MultiNICAssumption DEF TypeOK, Nic, NicSet

\* A failing netlink call, which ends the set-up, preserves IInv.
LEMMA FailsStep ==
  ASSUME IInv, NEW h \in Setups, \A g \in Setups : g = h, Fails(h)
  PROVE  IInv'
<1>1. TypeOK'
  BY MultiNICAssumption DEF IInv, TypeOK, Fails, Fault, Return
<1>2. TableOfOneNIC' /\ RouteThroughOwnNIC' /\ ReadyRouted'
  BY Zenon DEF IInv, Fails, TableOfOneNIC, RouteThroughOwnNIC, ReadyRouted, Routed
<1>3. SetupInv'
  BY Zenon DEF IInv, TypeOK, Fails, Return, SetupInv, Established
<1>4. QED
  BY <1>1, <1>2, <1>3, Zenon DEF IInv

\* A step that only looks at the tables preserves what the set-up established,
\* if the table it goes on with is fit for the next step.
LEMMA LookFrame ==
  ASSUME IInv, NEW h \in Setups, \A g \in Setups : g = h,
         UNCHANGED <<route, rules, net, at>>, pc[h] # "idle", pc'[h] \notin {"idle", "rule"},
         pc'[h] = "routes" => ~HasRule(id'[h]),
         pc'[h] \in {"routes", "replace"} => id'[h] \in Tables,
         pc'[h] = "replace" => OwnsTable(h)'
  PROVE  SetupInv'
<1>1. net[h] \in Nets /\ \A i \in 1 .. at[h] - 1 : Routed(Nics[i], net[h])
  BY ZenonT(30) DEF IInv, SetupInv, Established
<1>2. (net[h] \in Nets /\ \A i \in 1 .. at[h] - 1 : Routed(Nics[i], net[h]))'
  BY <1>1, Zenon DEF Routed
<1>3. pc'[h] = "routes" => ~HasRule(id[h])'
  BY Zenon DEF HasRule
<1>4. Established(h)'
  BY <1>2, <1>3, Zenon DEF Established
<1>5. QED
  BY <1>4, Zenon DEF SetupInv

\* The beginning of setUpMultiNIC preserves IInv.
LEMMA BeginStep ==
  ASSUME IInv, NEW h \in Setups, \A g \in Setups : g = h, NEW n \in Nets, Begin(h, n)
  PROVE  IInv'
<1>1. TypeOK'
  BY Zenon DEF IInv, TypeOK, Begin, Goto
<1>2. TableOfOneNIC' /\ RouteThroughOwnNIC' /\ ReadyRouted'
  BY Zenon DEF IInv, Begin, TableOfOneNIC, RouteThroughOwnNIC, ReadyRouted, Routed
<1>3. SetupInv'
  <2>1. pc'[h] = "rules" /\ net'[h] = n /\ at'[h] = 1
    BY ZenonT(30) DEF IInv, TypeOK, Begin, Goto, SetupInv, Established
  <2>2. Established(h)'
    BY <2>1 DEF Established
  <2>3. QED
    BY <2>2, Zenon DEF SetupInv
<1>4. QED
  BY <1>1, <1>2, <1>3, Zenon DEF IInv

\* The look at the rules of a table, the first half of isTableFree, preserves
\* IInv: a table with a rule of the NIC is the NIC's alone.
LEMMA CheckRulesStep ==
  ASSUME IInv, NEW h \in Setups, \A g \in Setups : g = h, CheckRules(h)
  PROVE  IInv'
<1>1. CASE Fails(h)
  BY <1>1, FailsStep, Zenon
<1>2. CASE Return(h) /\ UNCHANGED <<route, rules, ready, faults>>
  <2>1. TypeOK'
    BY <1>2, MultiNICAssumption DEF IInv, TypeOK, Return
  <2>2. TableOfOneNIC' /\ RouteThroughOwnNIC' /\ ReadyRouted'
    BY <1>2, Zenon DEF IInv, TableOfOneNIC, RouteThroughOwnNIC, ReadyRouted, Routed
  <2>3. SetupInv'
    BY <1>2, Zenon DEF IInv, TypeOK, Return, SetupInv, Established
  <2>4. QED
    BY <2>1, <2>2, <2>3, Zenon DEF IInv
<1>3. ASSUME pc[h] = "rules", InRange(id[h]),
             UNCHANGED <<route, rules, net, at, ready, faults>>,
             \/ /\ \E r \in rules : r[2] = id[h] /\ Assigned(r, h)
                /\ Goto(h, "replace") /\ UNCHANGED id
             \/ id' = [id EXCEPT ![h] = NextTable(@)] /\ UNCHANGED pc
             \/ ~HasRule(id[h]) /\ Goto(h, "routes") /\ UNCHANGED id
      PROVE  IInv'
  <2>0. id[h] \in Tables
    BY <1>3, MultiNICAssumption DEF IInv, TypeOK, InRange, Tables
  <2>1. TypeOK'
    BY <1>3, <2>0, MultiNICAssumption, SMTT(30) DEF IInv, TypeOK, Goto, Tables, NextTable
  <2>2. TableOfOneNIC' /\ RouteThroughOwnNIC' /\ ReadyRouted'
    BY <1>3, Zenon DEF IInv, TableOfOneNIC, RouteThroughOwnNIC, ReadyRouted, Routed
  <2>3. ASSUME \E r \in rules : r[2] = id[h] /\ Assigned(r, h),
               Goto(h, "replace"), UNCHANGED id
       PROVE  SetupInv'
    <3>1. OwnsTable(h)
      BY <2>3, Zenon DEF IInv, TableOfOneNIC, RouteThroughOwnNIC, OwnsTable, Assigned
    <3>2. OwnsTable(h)'
      BY <3>1, <2>3, <1>3, Zenon DEF OwnsTable, Nic
    <3>3. pc'[h] = "replace" /\ id'[h] = id[h]
      BY <2>3, Zenon DEF IInv, TypeOK, Goto
    <3>4. QED
      BY <2>0, <3>2, <3>3, <1>3, LookFrame, Zenon
  <2>4. ASSUME id' = [id EXCEPT ![h] = NextTable(@)] /\ UNCHANGED pc
       PROVE  SetupInv'
    BY <2>4, <1>3, LookFrame, Zenon
  <2>5. ASSUME ~HasRule(id[h]) /\ Goto(h, "routes") /\ UNCHANGED id
       PROVE  SetupInv'
    <3>1. pc'[h] = "routes" /\ id'[h] = id[h]
      BY <2>5, Zenon DEF IInv, TypeOK, Goto
    <3>2. QED
      BY <2>0, <3>1, <2>5, <1>3, LookFrame, Zenon
  <2>6. QED
    BY <1>3, <2>1, <2>2, <2>3, <2>4, <2>5, Zenon DEF IInv
<1>4. QED
  BY <1>1, <1>2, <1>3, Zenon DEF CheckRules

\* The look at the routes of a table, the second half of isTableFree, preserves
\* IInv: a table without rules and routes is nobody's.
LEMMA CheckRoutesStep ==
  ASSUME IInv, NEW h \in Setups, \A g \in Setups : g = h, CheckRoutes(h)
  PROVE  IInv'
<1>1. CASE Fails(h)
  BY <1>1, FailsStep, Zenon
<1>2. ASSUME pc[h] = "routes", UNCHANGED <<route, rules, net, at, ready, faults>>,
             \/ Goto(h, "rules") /\ id' = [id EXCEPT ![h] = NextTable(@)]
             \/ ~HasRoutes(id[h]) /\ Goto(h, "replace") /\ UNCHANGED id
      PROVE  IInv'
  <2>0. id[h] \in Tables /\ ~HasRule(id[h])
    BY <1>2, ZenonT(30) DEF IInv, SetupInv, Established
  <2>1. TypeOK'
    <3>1. NextTable(id[h]) \in FirstTable .. LastTable + 1
      BY <2>0, MultiNICAssumption, SMTT(30) DEF Tables, NextTable
    <3>2. id' \in [Setups -> FirstTable .. LastTable + 1]
      BY <1>2, <3>1, Zenon DEF IInv, TypeOK
    <3>3. pc' \in [Setups -> {"idle", "rules", "routes", "replace", "rule"}]
      BY <1>2, Zenon DEF IInv, TypeOK, Goto
    <3>4. QED
      BY <1>2, <3>2, <3>3, Zenon DEF IInv, TypeOK
  <2>2. TableOfOneNIC' /\ RouteThroughOwnNIC' /\ ReadyRouted'
    BY <1>2, Zenon DEF IInv, TableOfOneNIC, RouteThroughOwnNIC, ReadyRouted, Routed
  <2>3. ASSUME Goto(h, "rules") /\ id' = [id EXCEPT ![h] = NextTable(@)]
       PROVE  SetupInv'
    <3>1. pc'[h] = "rules"
      BY <2>3, Zenon DEF IInv, TypeOK, Goto
    <3>2. QED
      BY <3>1, <1>2, LookFrame, Zenon
  <2>4. ASSUME ~HasRoutes(id[h]) /\ Goto(h, "replace") /\ UNCHANGED id
       PROVE  SetupInv'
    <3>1. OwnsTable(h)
      BY <2>4, <2>0, Zenon DEF OwnsTable, HasRule, HasRoutes
    <3>2. OwnsTable(h)'
      BY <3>1, <2>4, <1>2, Zenon DEF OwnsTable, Nic
    <3>3. pc'[h] = "replace" /\ id'[h] = id[h]
      BY <2>4, Zenon DEF IInv, TypeOK, Goto
    <3>4. QED
      BY <3>2, <3>3, <2>0, <1>2, LookFrame, Zenon
  <2>5. QED
    BY <1>2, <2>1, <2>2, <2>3, <2>4, Zenon DEF IInv
<1>3. QED
  BY <1>1, <1>2, Zenon DEF CheckRoutes

\* RouteReplace preserves IInv: it overwrites no route of another NIC.
LEMMA ReplaceRouteStep ==
  ASSUME IInv, NEW h \in Setups, \A g \in Setups : g = h, ReplaceRoute(h)
  PROVE  IInv'
<1>1. CASE Fails(h)
  BY <1>1, FailsStep, Zenon
<1>2. ASSUME pc[h] = "replace", route' = [route EXCEPT ![<<id[h], net[h]>>] = Nic(h)],
             Goto(h, "rule"), UNCHANGED <<rules, net, at, id, ready, faults>>
      PROVE  IInv'
  <2>0. /\ id[h] \in Tables /\ net[h] \in Nets /\ OwnsTable(h)
        /\ Nic(h) \in NicSet /\ Nic(h)' = Nic(h)
    BY <1>2, NicType, Zenon DEF IInv, SetupInv, Established, Nic
  <2>1. TypeOK'
    BY <1>2, <2>0, Zenon DEF IInv, TypeOK, Goto
  <2>2. \A x \in Tables \X Nets : route'[x] = IF x = <<id[h], net[h]>> THEN Nic(h) ELSE route[x]
    BY <1>2, Zenon DEF IInv, TypeOK
  <2> DEFINE Found(nic, n) == \E t \in Tables : <<nic, t>> \in rules' /\ route'[<<t, n>>] = nic
  <2>3. ASSUME NEW nic, NEW n \in Nets, Routed(nic, n)
        PROVE  Found(nic, n)
    <3>1. PICK t \in Tables : <<nic, t>> \in rules /\ route[<<t, n>>] = nic
      BY <2>3, Zenon DEF Routed
    <3>2. <<nic, t>> \in rules' /\ route'[<<t, n>>] = nic
      BY <1>2, <2>0, <2>2, <3>1, Zenon DEF OwnsTable
    <3>3. QED
      BY <3>2, Zenon
  <2>4. TableOfOneNIC' /\ RouteThroughOwnNIC'
    BY <1>2, <2>0, <2>2, Zenon DEF IInv, TypeOK, TableOfOneNIC, RouteThroughOwnNIC, OwnsTable
  <2>5. ReadyRouted'
    <3>1. \A n \in ready, nic \in NicSet : Found(nic, n)
      BY <2>3, Zenon DEF IInv, TypeOK, ReadyRouted
    <3>2. QED
      BY <1>2, <3>1, Zenon DEF ReadyRouted, Routed
  <2>6. OwnsTable(h)' /\ route'[<<id[h], net[h]>>] = Nic(h)
    BY <1>2, <2>0, <2>2, Zenon DEF OwnsTable
  <2>7. SetupInv'
    <3>1. (\A i \in 1 .. at[h] - 1 : Routed(Nics[i], net[h]))'
      <4>1. \A i \in 1 .. at[h] - 1 : Found(Nics[i], net[h])
        BY <1>2, <2>0, <2>3, ZenonT(30) DEF IInv, SetupInv, Established
      <4>2. QED
        BY <1>2, <4>1, Zenon DEF Routed
    <3>2. pc'[h] = "rule"
      BY <1>2, Zenon DEF IInv, TypeOK, Goto
    <3>3. Established(h)'
      BY <1>2, <2>0, <2>6, <3>1, <3>2, Zenon DEF Established
    <3>4. QED
      BY <3>3, Zenon DEF SetupInv
  <2>8. QED
    BY <2>1, <2>4, <2>5, <2>7, Zenon DEF IInv
<1>3. QED
  BY <1>1, <1>2, Zenon DEF ReplaceRoute

\* RuleAdd preserves IInv: after it the NIC is routed, and the set-up is ready
\* once all its NICs are.
LEMMA AddRuleStep ==
  ASSUME IInv, NEW h \in Setups, \A g \in Setups : g = h, AddRule(h)
  PROVE  IInv'
<1>1. CASE Fails(h)
  BY <1>1, FailsStep, Zenon
<1>2. ASSUME pc[h] = "rule", rules' = rules \cup {<<Nic(h), id[h]>>},
             UNCHANGED <<route, faults>>,
             \/ /\ at[h] < Len(Nics) /\ Goto(h, "rules")
                /\ at' = [at EXCEPT ![h] = @ + 1]
                /\ id' = [id EXCEPT ![h] = FirstTable]
                /\ UNCHANGED <<net, ready>>
             \/ at[h] = Len(Nics) /\ Return(h) /\ ready' = ready \cup {net[h]}
      PROVE  IInv'
  <2>0. /\ id[h] \in Tables /\ net[h] \in Nets /\ OwnsTable(h)
        /\ route[<<id[h], net[h]>>] = Nic(h) /\ Nic(h) \in NicSet
        /\ at[h] \in 1 .. Len(Nics) /\ Len(Nics) \in Nat
    BY <1>2, NicType, MultiNICAssumption, SMTT(30) DEF IInv, SetupInv, Established, TypeOK
  <2>1. TypeOK'
    BY <1>2, <2>0, MultiNICAssumption, SMTT(30) DEF IInv, TypeOK, Goto, Return
  <2> DEFINE Found(nic, n) == \E t \in Tables : <<nic, t>> \in rules' /\ route'[<<t, n>>] = nic
  <2>2. \A nic, n : Routed(nic, n) => Found(nic, n)
    BY <1>2, Zenon DEF Routed
  <2>3. Found(Nic(h), net[h])
    BY <1>2, <2>0, Zenon
  <2>4. \A i \in 1 .. at[h] : Found(Nics[i], net[h])
    <3>1. \A i \in 1 .. at[h] - 1 : Routed(Nics[i], net[h])
      BY <1>2, ZenonT(30) DEF IInv, SetupInv, Established
    <3>2. \A i \in 1 .. at[h] : i \in 1 .. at[h] - 1 \/ i = at[h]
      BY <2>0
    <3>3. QED
      BY <3>1, <3>2, <2>2, <2>3, Zenon DEF Nic
  <2>5. TableOfOneNIC' /\ RouteThroughOwnNIC'
    BY <1>2, <2>0 DEF IInv, TypeOK, TableOfOneNIC, RouteThroughOwnNIC, OwnsTable
  <2>6. ReadyRouted' /\ SetupInv'
    <3>1. CASE /\ at[h] < Len(Nics) /\ Goto(h, "rules")
               /\ at' = [at EXCEPT ![h] = @ + 1] /\ UNCHANGED <<net, ready>>
      <4>1. at'[h] - 1 = at[h] /\ pc'[h] = "rules" /\ net'[h] = net[h]
        BY <3>1, <2>0 DEF IInv, TypeOK, Goto
      <4>2. ReadyRouted'
        BY <3>1, <2>2, ZenonT(30) DEF IInv, ReadyRouted, Routed
      <4>3. SetupInv'
        BY <4>1, <2>0, <2>4, ZenonT(30) DEF SetupInv, Established, Routed
      <4>4. QED
        BY <4>2, <4>3, Zenon
    <3>2. CASE at[h] = Len(Nics) /\ Return(h) /\ ready' = ready \cup {net[h]}
      <4>1. \A nic \in NicSet : Found(nic, net[h])
        <5>1. \A nic \in NicSet : \E i \in 1 .. at[h] : nic = Nics[i]
          BY <3>2, MultiNICAssumption DEF NicSet
        <5> HIDE DEF Found
        <5>2. QED
          BY <5>1, <2>4, Zenon
      <4>2. ReadyRouted'
        BY <3>2, <4>1, <2>2, ZenonT(30) DEF IInv, ReadyRouted, Routed
      <4>3. SetupInv'
        BY <3>2, Zenon DEF IInv, TypeOK, Return, SetupInv, Established
      <4>4. QED
        BY <4>2, <4>3, Zenon
    <3>3. QED
      BY <1>2, <3>1, <3>2, Zenon
  <2>7. QED
    BY <2>1, <2>5, <2>6, Zenon DEF IInv
<1>3. QED
  BY <1>1, <1>2, Zenon DEF AddRule

\* A restart of the driver, which leaves routes and rules, preserves IInv.
LEMMA RestartStep ==
  ASSUME IInv, Restart
  PROVE  IInv'
<1>1. TypeOK'
  BY MultiNICAssumption DEF IInv, TypeOK, Restart, Fault
<1>2. TableOfOneNIC' /\ RouteThroughOwnNIC' /\ ReadyRouted'
  BY Zenon DEF IInv, Restart, TableOfOneNIC, RouteThroughOwnNIC, ReadyRouted, Routed
<1>3. SetupInv'
  BY Zenon DEF Restart, SetupInv, Established
<1>4. QED
  BY <1>1, <1>2, <1>3, Zenon DEF IInv

\* Every step preserves IInv when set-ups do not overlap.
LEMMA NextIInv ==
  ASSUME \A g, h \in Setups : g = h
  PROVE  IInv /\ [Next]_vars => IInv'
<1> SUFFICES ASSUME IInv, [Next]_vars PROVE IInv'
  BY Zenon
<1>1. CASE \E h \in Setups, n \in Nets : Begin(h, n)
  BY <1>1, BeginStep, Zenon
<1>2. CASE \E h \in Setups : Step(h)
  BY <1>2, CheckRulesStep, CheckRoutesStep, ReplaceRouteStep, AddRuleStep, Zenon DEF Step
<1>3. CASE Restart
  BY <1>3, RestartStep, Zenon
<1>4. CASE UNCHANGED vars
  <2>1. TypeOK'
    BY <1>4, Zenon DEF vars, calls, IInv, TypeOK
  <2>2. TableOfOneNIC' /\ RouteThroughOwnNIC' /\ ReadyRouted'
    BY <1>4 DEF vars, calls, IInv, TableOfOneNIC, RouteThroughOwnNIC, ReadyRouted, Routed
  <2>3. ASSUME NEW h \in Setups PROVE Established(h)'
    <3>1. Established(h)
      BY Zenon DEF IInv, SetupInv
    <3>2. QED
      BY <3>1, <1>4, Zenon DEF vars, calls, Established, Routed, OwnsTable, HasRule, Nic
  <2>4. QED
    BY <2>1, <2>2, <2>3, Zenon DEF IInv, SetupInv
<1>5. QED
  BY <1>1, <1>2, <1>3, <1>4, Zenon DEF Next

\* The empty tables of the start satisfy IInv.
LEMMA InitIInv == Init => IInv
<1> SUFFICES ASSUME Init PROVE IInv
  BY Zenon
<1>1. TypeOK
  BY MultiNICAssumption DEF Init, TypeOK
<1>2. QED
  BY <1>1, Zenon DEF Init, IInv, TableOfOneNIC, RouteThroughOwnNIC, ReadyRouted, SetupInv, Established

\* The inductive invariant of setUpMultiNIC holds when set-ups do not overlap,
\* whatever calls fail and whenever the driver restarts.
THEOREM Invariance ==
  ASSUME \A g, h \in Setups : g = h
  PROVE  Spec => []IInv
<1>1. Init => IInv
  BY InitIInv, Zenon
<1>2. IInv /\ [Next]_vars => IInv'
  BY NextIInv, Zenon
<1>3. QED
  BY <1>1, <1>2, PTL DEF Spec

\* isTableFree keeps every table to one NIC when set-ups do not overlap.
THEOREM TableSafety ==
  ASSUME \A g, h \in Setups : g = h
  PROVE  Spec => []TableOfOneNIC
<1>1. IInv => TableOfOneNIC
  BY Zenon DEF IInv
<1>2. QED
  BY Invariance, <1>1, PTL

\* Packets of a NIC leave through the NIC when set-ups do not overlap.
THEOREM RouteSafety ==
  ASSUME \A g, h \in Setups : g = h
  PROVE  Spec => []RouteThroughOwnNIC
<1>1. IInv => RouteThroughOwnNIC
  BY Zenon DEF IInv
<1>2. QED
  BY Invariance, <1>1, PTL

\* A set-up that succeeded stays in force when set-ups do not overlap: no later
\* set-up, failed or not, takes the routes of its NICs away.
THEOREM ReadySafety ==
  ASSUME \A g, h \in Setups : g = h
  PROVE  Spec => []ReadyRouted
<1>1. IInv => ReadyRouted
  BY Zenon DEF IInv
<1>2. QED
  BY Invariance, <1>1, PTL

-----------------------------------------------------------------------------
(* One table per NIC.  The search of a set-up is what TableInv adds to     *)
(* IInv: a rule is made at the first table that is not occupied, and       *)
(* tables never become free again.                                         *)

\* A set-up that returns or restarts searches from the first table.
LEMMA FreshSearch ==
  ASSUME NEW h \in Setups, pc'[h] \in {"idle", "rules"}, id'[h] = FirstTable
  PROVE  Searched(h)'
<1>1. \A t \in Tables : ~(t < id'[h])
  BY MultiNICAssumption DEF Tables
<1>2. QED
  BY <1>1, Zenon DEF Searched

\* There are finitely many stranded tables.
LEMMA StrandedFinite ==
  /\ IsFiniteSet(Tables) /\ IsFiniteSet(Stranded) /\ Cardinality(Stranded) \in Nat
  /\ IsFiniteSet(Stranded') /\ Cardinality(Stranded') \in Nat
<1>1. IsFiniteSet(Tables)
  BY MultiNICAssumption, FS_Interval DEF Tables
<1>2. Stranded \in SUBSET Tables /\ Stranded' \in SUBSET Tables
  BY Zenon DEF Stranded
<1>3. QED
  BY <1>1, <1>2, FS_Subset, FS_CardinalityType, Zenon

\* A step that strands no table keeps the count within the failures.
LEMMA StrandedShrinks ==
  ASSUME IInv, IInv', TableInv, Stranded' \subseteq Stranded, faults <= faults'
  PROVE  Cardinality(Stranded') <= faults'
<1>1. Cardinality(Stranded') <= Cardinality(Stranded)
  BY StrandedFinite, FS_Subset, Zenon
<1>2. Cardinality(Stranded) <= faults /\ faults \in Nat /\ faults' \in Nat
  BY DEF TableInv, IInv, TypeOK
<1>3. QED
  BY <1>1, <1>2, StrandedFinite

\* So does one that strands a table by a failure.
LEMMA StrandedGrows ==
  ASSUME IInv, IInv', TableInv, NEW t, Stranded' \subseteq Stranded \cup {t}, faults' = faults + 1
  PROVE  Cardinality(Stranded') <= faults'
<1>1. /\ IsFiniteSet(Stranded \cup {t}) /\ Cardinality(Stranded \cup {t}) <= Cardinality(Stranded) + 1
      /\ Cardinality(Stranded \cup {t}) \in Nat
  <2>1. /\ IsFiniteSet(Stranded \cup {t})
        /\ \/ Cardinality(Stranded \cup {t}) = Cardinality(Stranded)
           \/ Cardinality(Stranded \cup {t}) = Cardinality(Stranded) + 1
    BY StrandedFinite, FS_AddElement, Zenon
  <2>2. QED
    BY <2>1, StrandedFinite, SMTT(30)
<1>2. Cardinality(Stranded') <= Cardinality(Stranded \cup {t})
  BY <1>1, FS_Subset, Zenon
<1>3. Cardinality(Stranded) <= faults /\ faults \in Nat
  BY DEF TableInv, IInv, TypeOK
<1>4. QED
  BY <1>1, <1>2, <1>3, StrandedFinite

\* A step that changes neither routes nor rules, outside the window between the
\* two, preserves TableInv if the search goes on properly.
LEMMA LookTable ==
  ASSUME IInv, IInv', TableInv, NEW h \in Setups, \A g \in Setups : g = h,
         UNCHANGED <<route, rules>>, pc[h] # "rule", pc'[h] # "rule", faults <= faults',
         Searched(h)'
  PROVE  TableInv'
<1>1. \A t \in Tables : Occupied(t)' <=> Occupied(t)
  BY Zenon DEF Occupied, HasRule, HasRoutes
<1>2. Pending = {} /\ Pending' = {}
  BY Zenon DEF Pending
<1>3. Stranded' = Stranded
  BY <1>2, Zenon DEF Stranded, HasRoutes
<1>4. Cardinality(Stranded') <= faults'
  BY <1>3, StrandedShrinks, Zenon
<1>5. \A r \in rules : r[2] \notin Foreign /\ \A t \in Tables : t < r[2] => Occupied(t)
  BY Zenon DEF TableInv
<1>6. OneTablePerNIC'
  BY Zenon DEF TableInv, OneTablePerNIC
<1>7. QED
  BY <1>1, <1>4, <1>5, <1>6, Zenon DEF TableInv

\* A step that only ends a set-up preserves TableInv: it strands at most the
\* table whose rule it has not made.
LEMMA EndTable ==
  ASSUME IInv, IInv', TableInv, NEW h \in Setups, \A g \in Setups : g = h,
         UNCHANGED <<route, rules>>, pc'[h] = "idle", id'[h] = FirstTable, faults' = faults + 1
  PROVE  TableInv'
<1>1. \A t \in Tables : Occupied(t)' <=> Occupied(t)
  BY Zenon DEF Occupied, HasRule, HasRoutes
<1>2. \A r \in Pending : r[2] = id[h]
  BY SMTT(30) DEF Pending
<1>3. Stranded' \subseteq Stranded \cup {id[h]}
  <2> SUFFICES ASSUME NEW t \in Stranded', t # id[h] PROVE t \in Stranded
    BY Zenon
  <2>1. t \in Tables /\ HasRoutes(t)' /\ \A r \in rules' : r[2] # t
    BY Zenon DEF Stranded
  <2>2. HasRoutes(t) /\ \A r \in rules \cup Pending : r[2] # t
    BY <1>2, <2>1, Zenon DEF HasRoutes
  <2>3. QED
    BY <2>1, <2>2, Zenon DEF Stranded
<1>4. Cardinality(Stranded') <= faults'
  BY <1>3, StrandedGrows, Zenon
<1>5. \A r \in rules : r[2] \notin Foreign /\ \A t \in Tables : t < r[2] => Occupied(t)
  BY Zenon DEF TableInv
<1>6. OneTablePerNIC'
  BY Zenon DEF TableInv, OneTablePerNIC
<1>7. Searched(h)'
  BY FreshSearch, Zenon
<1>8. QED
  BY <1>1, <1>4, <1>5, <1>6, <1>7, Zenon DEF TableInv

\* A failing netlink call.
LEMMA FailsTable ==
  ASSUME IInv, IInv', TableInv, NEW h \in Setups, \A g \in Setups : g = h, Fails(h)
  PROVE  TableInv'
<1>1. /\ UNCHANGED <<route, rules>> /\ pc'[h] = "idle" /\ id'[h] = FirstTable
      /\ faults' = faults + 1
  BY Zenon DEF IInv, TypeOK, Fails, Fault, Return
<1>2. QED
  BY <1>1, EndTable, Zenon

\* The beginning of a search.
LEMMA BeginTable ==
  ASSUME IInv, IInv', TableInv, NEW h \in Setups, \A g \in Setups : g = h, NEW n \in Nets,
         Begin(h, n)
  PROVE  TableInv'
<1>1. /\ pc[h] = "idle" /\ pc'[h] = "rules" /\ UNCHANGED <<route, rules, id, faults>>
      /\ faults \in Nat
  BY DEF IInv, TypeOK, Begin, Goto
<1>2. id[h] = FirstTable
  BY <1>1, Zenon DEF TableInv, Searched
<1>3. QED
  BY <1>1, <1>2, FreshSearch, LookTable
\* The first half of isTableFree: a table that is passed over has a rule of
\* another NIC or belongs to other software, and then it has no rule of this NIC.
LEMMA CheckRulesTable ==
  ASSUME IInv, IInv', TableInv, NEW h \in Setups, \A g \in Setups : g = h, CheckRules(h)
  PROVE  TableInv'
<1>0. /\ pc[h] = "rules" /\ id[h] \in FirstTable .. LastTable + 1 /\ Searched(h)
      /\ pc \in [Setups -> {"idle", "rules", "routes", "replace", "rule"}]
      /\ id \in [Setups -> FirstTable .. LastTable + 1] /\ faults \in Nat
  BY DEF CheckRules, IInv, TypeOK, TableInv
<1>1. CASE Fails(h)
  BY <1>1, FailsTable, Zenon
<1>2. CASE Return(h) /\ UNCHANGED <<route, rules, ready, faults>>
  <2>1. pc'[h] = "idle" /\ id'[h] = FirstTable
    BY <1>0, <1>2, Zenon DEF Return
  <2>2. QED
    BY <1>0, <1>2, <2>1, FreshSearch, LookTable
<1>3. ASSUME UNCHANGED <<route, rules, net, at, ready, faults>>, InRange(id[h]),
             \E r \in rules : r[2] = id[h] /\ Assigned(r, h), Goto(h, "replace"), UNCHANGED id
      PROVE  TableInv'
  <2>1. pc'[h] = "replace" /\ id'[h] = id[h] /\ Nic(h)' = Nic(h)
    BY <1>0, <1>3, Zenon DEF Goto, Nic
  <2>2. id[h] \notin Foreign /\ \A r \in rules : r[1] = Nic(h) => r[2] = id[h]
    BY <1>3, Zenon DEF TableInv, OneTablePerNIC, Assigned
  <2>3. \A t \in Tables : t < id[h] => Occupied(t) /\ <<Nic(h), t>> \notin rules
    BY <1>0, Zenon DEF Searched
  <2>4. \A t \in Tables : t < id[h] => Occupied(t)'
    BY <1>3, <2>3, Zenon DEF Occupied, HasRule, HasRoutes
  <2>5. Searched(h)'
    BY <1>3, <2>1, <2>2, <2>3, <2>4, Zenon DEF Searched
  <2>6. QED
    BY <1>0, <1>3, <2>1, <2>5, LookTable, SMTT(30)
<1>4. ASSUME UNCHANGED <<route, rules, net, at, ready, faults>>, InRange(id[h]),
             id[h] \in Foreign \/ \E r \in rules : r[2] = id[h] /\ ~Assigned(r, h),
             id' = [id EXCEPT ![h] = NextTable(@)], UNCHANGED pc
      PROVE  TableInv'
  <2>1. pc'[h] = "rules" /\ id'[h] = id[h] + 1 /\ Nic(h)' = Nic(h)
    BY <1>0, <1>4, Zenon DEF NextTable, Nic
  <2>2. Occupied(id[h]) /\ <<Nic(h), id[h]>> \notin rules
    <3>1. CASE id[h] \in Foreign
      BY <3>1, Zenon DEF Occupied, TableInv
    <3>2. CASE \E r \in rules : r[2] = id[h] /\ ~Assigned(r, h)
      BY <3>2, Zenon DEF Occupied, HasRule, Assigned, IInv, TableOfOneNIC
    <3>3. QED
      BY <1>4, <3>1, <3>2, Zenon
  <2>3. \A t \in Tables : t < id[h] + 1 => Occupied(t) /\ <<Nic(h), t>> \notin rules
    <3>1. \A t \in Tables : t < id[h] + 1 => t < id[h] \/ t = id[h]
      BY <1>0, MultiNICAssumption, SMTT(30) DEF Tables
    <3>2. QED
      BY <1>0, <2>2, <3>1, Zenon DEF Searched
  <2>4. \A t \in Tables : t < id[h] + 1 => Occupied(t)'
    BY <1>4, <2>3, Zenon DEF Occupied, HasRule, HasRoutes
  <2>5. Searched(h)'
    BY <1>4, <2>1, <2>3, <2>4, Zenon DEF Searched
  <2>6. QED
    BY <1>0, <1>4, <2>1, <2>5, LookTable
<1>5. ASSUME UNCHANGED <<route, rules, net, at, ready, faults>>,
             id[h] \notin Foreign, Goto(h, "routes"), UNCHANGED id
      PROVE  TableInv'
  <2>1. pc'[h] = "routes" /\ id'[h] = id[h] /\ Nic(h)' = Nic(h)
    BY <1>0, <1>5, Zenon DEF Goto, Nic
  <2>2. \A t \in Tables : t < id[h] => Occupied(t) /\ <<Nic(h), t>> \notin rules
    BY <1>0, Zenon DEF Searched
  <2>3. \A t \in Tables : t < id[h] => Occupied(t)'
    BY <1>5, <2>2, Zenon DEF Occupied, HasRule, HasRoutes
  <2>4. Searched(h)'
    BY <1>5, <2>1, <2>2, <2>3, Zenon DEF Searched
  <2>5. QED
    BY <1>0, <1>5, <2>1, <2>4, LookTable
<1>6. QED
  BY <1>1, <1>2, <1>3, <1>4, <1>5, Zenon DEF CheckRules

\* The second half: a table with neither rules nor routes is free, and then no
\* NIC has a rule for a table above it.
LEMMA CheckRoutesTable ==
  ASSUME IInv, IInv', TableInv, NEW h \in Setups, \A g \in Setups : g = h, CheckRoutes(h)
  PROVE  TableInv'
<1>0. /\ pc[h] = "routes" /\ id[h] \in Tables /\ ~HasRule(id[h]) /\ Searched(h)
      /\ pc \in [Setups -> {"idle", "rules", "routes", "replace", "rule"}]
      /\ id \in [Setups -> FirstTable .. LastTable + 1] /\ faults \in Nat /\ id[h] \notin Foreign
  <2>1. pc[h] = "routes" /\ Searched(h) /\ Established(h)
    BY Zenon DEF CheckRoutes, IInv, TableInv, SetupInv
  <2>2. id[h] \in Tables /\ ~HasRule(id[h])
    BY <2>1, Zenon DEF Established
  <2>3. id[h] \notin Foreign
    BY <2>1, Zenon DEF Searched
  <2>4. QED
    BY <2>1, <2>2, <2>3 DEF IInv, TypeOK
<1>1. CASE Fails(h)
  BY <1>1, FailsTable, Zenon
<1>2. \A t \in Tables : t < id[h] => Occupied(t) /\ <<Nic(h), t>> \notin rules
  BY <1>0, Zenon DEF Searched
<1>3. ASSUME UNCHANGED <<route, rules, net, at, ready, faults>>,
             HasRoutes(id[h]), Goto(h, "rules"), id' = [id EXCEPT ![h] = NextTable(@)]
      PROVE  TableInv'
  <2>1. pc'[h] = "rules" /\ id'[h] = id[h] + 1 /\ Nic(h)' = Nic(h)
    BY <1>0, <1>3, Zenon DEF Goto, NextTable, Nic
  <2>2. Occupied(id[h]) /\ <<Nic(h), id[h]>> \notin rules
    BY <1>0, <1>3, Zenon DEF Occupied, HasRule
  <2>3. \A t \in Tables : t < id[h] + 1 => Occupied(t) /\ <<Nic(h), t>> \notin rules
    <3>1. \A t \in Tables : t < id[h] + 1 => t < id[h] \/ t = id[h]
      BY <1>0, MultiNICAssumption, SMTT(30) DEF Tables
    <3>2. QED
      BY <1>2, <2>2, <3>1, Zenon
  <2>4. \A t \in Tables : t < id[h] + 1 => Occupied(t)'
    BY <1>3, <2>3, Zenon DEF Occupied, HasRule, HasRoutes
  <2>5. Searched(h)'
    BY <1>3, <2>1, <2>3, <2>4, Zenon DEF Searched
  <2>6. QED
    BY <1>0, <1>3, <2>1, <2>5, LookTable, SMTT(30)
<1>4. ASSUME UNCHANGED <<route, rules, net, at, ready, faults>>,
             ~HasRoutes(id[h]), Goto(h, "replace"), UNCHANGED id
      PROVE  TableInv'
  <2>1. pc'[h] = "replace" /\ id'[h] = id[h] /\ Nic(h)' = Nic(h)
    BY <1>0, <1>4, Zenon DEF Goto, Nic
  <2>2. ASSUME NEW r \in rules, r[1] = Nic(h) PROVE r[2] = id[h]
    <3>1. r[2] \in Tables /\ r = <<r[1], r[2]>>
      BY DEF IInv, TypeOK
    <3>2. ~(r[2] < id[h])
      BY <1>2, <2>2, <3>1, Zenon
    <3>3. ~(id[h] < r[2])
      BY <1>0, <1>4, Zenon DEF TableInv, Occupied
    <3>4. QED
      BY <1>0, <3>1, <3>2, <3>3, MultiNICAssumption DEF Tables
  <2>3. \A t \in Tables : t < id[h] => Occupied(t)'
    BY <1>2, <1>4, ZenonT(30) DEF Occupied, HasRule, HasRoutes
  <2>4. Searched(h)'
    BY <1>0, <1>2, <1>4, <2>1, <2>2, <2>3, Zenon DEF Searched
  <2>5. QED
    BY <1>0, <1>4, <2>1, <2>4, LookTable
<1>5. QED
  BY <1>1, <1>3, <1>4, Zenon DEF CheckRoutes
\* Routes and rules are only added, so an occupied table stays occupied.
LEMMA StaysOccupied ==
  ASSUME rules \subseteq rules',
         \A x \in Tables \X Nets : route[x] # None => route'[x] # None,
         NEW t \in Tables, Occupied(t)
  PROVE  Occupied(t)'
<1>1. HasRule(t) => HasRule(t)'
  BY Zenon DEF HasRule
<1>2. HasRoutes(t) => HasRoutes(t)'
  BY Zenon DEF HasRoutes
<1>3. QED
  BY <1>1, <1>2, Zenon DEF Occupied

\* RouteReplace: the table of the new route is about to get its rule.
LEMMA ReplaceRouteTable ==
  ASSUME IInv, IInv', TableInv, NEW h \in Setups, \A g \in Setups : g = h, ReplaceRoute(h)
  PROVE  TableInv'
<1>1. CASE Fails(h)
  BY <1>1, FailsTable, Zenon
<1>2. ASSUME pc[h] = "replace", route' = [route EXCEPT ![<<id[h], net[h]>>] = Nic(h)],
             Goto(h, "rule"), UNCHANGED <<rules, net, at, id, ready, faults>>
      PROVE  TableInv'
  <2>1. /\ pc'[h] = "rule" /\ Nic(h)' = Nic(h) /\ Nic(h) # None /\ faults \in Nat
        /\ route \in [Tables \X Nets -> NicSet \cup {None}]
    BY <1>2, NicType, SMTT(30) DEF IInv, TypeOK, Goto, Nic
  <2>2. \A x \in Tables \X Nets :
          route'[x] = IF x = <<id[h], net[h]>> THEN Nic(h) ELSE route[x]
    BY <1>2, <2>1, Zenon
  <2>3. \A t \in Tables : Occupied(t) => Occupied(t)'
    BY <1>2, <2>1, <2>2, StaysOccupied, Zenon
  <2>4. Searched(h)
    BY Zenon DEF TableInv
  <2>5. Searched(h)'
    BY <1>2, <2>1, <2>3, <2>4, Zenon DEF Searched
  <2>6. Stranded' \subseteq Stranded
    <3> SUFFICES ASSUME NEW t \in Stranded' PROVE t \in Stranded
      BY Zenon
    <3>1. Pending = {}
      BY <1>2, Zenon DEF Pending
    <3>2. <<Nic(h), id[h]>> \in Pending'
      BY <1>2, <2>1, Zenon DEF Pending
    <3>3. t \in Tables /\ HasRoutes(t)' /\ (\A r \in rules : r[2] # t) /\ t # id[h]
      BY <1>2, <3>2 DEF Stranded
    <3>4. HasRoutes(t)
      BY <2>2, <3>3, Zenon DEF HasRoutes
    <3>5. QED
      BY <3>1, <3>3, <3>4, Zenon DEF Stranded
  <2>7. Cardinality(Stranded') <= faults'
    BY <1>2, <2>1, <2>6, StrandedShrinks
  <2>8. \A r \in rules : r[2] \notin Foreign /\ \A t \in Tables : t < r[2] => Occupied(t)
    BY Zenon DEF TableInv
  <2>9. OneTablePerNIC'
    BY <1>2, Zenon DEF TableInv, OneTablePerNIC
  <2>10. QED
    BY <1>2, <2>3, <2>5, <2>7, <2>8, <2>9, Zenon DEF TableInv
<1>3. QED
  BY <1>1, <1>2, Zenon DEF ReplaceRoute

\* RuleAdd: the new rule is the NIC's only one.
LEMMA AddRuleTable ==
  ASSUME IInv, IInv', TableInv, NEW h \in Setups, \A g \in Setups : g = h, AddRule(h)
  PROVE  TableInv'
<1>1. CASE Fails(h)
  BY <1>1, FailsTable, Zenon
<1>2. ASSUME pc[h] = "rule", rules' = rules \cup {<<Nic(h), id[h]>>}, UNCHANGED <<route, faults>>,
             pc'[h] \in {"idle", "rules"}, id'[h] = FirstTable
      PROVE  TableInv'
  <2>1. Searched(h) /\ faults \in Nat
    BY SMTT(30) DEF TableInv, IInv, TypeOK
  <2>2. /\ id[h] \notin Foreign /\ (\A r \in rules : r[1] = Nic(h) => r[2] = id[h])
        /\ \A t \in Tables : t < id[h] => Occupied(t)
    BY <1>2, <2>1, Zenon DEF Searched
  <2>3. \A t \in Tables : Occupied(t) => Occupied(t)'
    BY <1>2, StaysOccupied, Zenon
  <2>4. \A r \in rules : r[2] \notin Foreign /\ \A t \in Tables : t < r[2] => Occupied(t)
    BY Zenon DEF TableInv
  <2>5. \A r \in rules' : r[2] \notin Foreign /\ \A t \in Tables : t < r[2] => Occupied(t)'
    BY <1>2, <2>2, <2>3, <2>4
  <2>6. OneTablePerNIC'
    BY <1>2, <2>2 DEF TableInv, OneTablePerNIC
  <2>7. Pending \subseteq {<<Nic(h), id[h]>>}
    BY Zenon DEF Pending
  <2>8. Stranded' \subseteq Stranded
    <3> SUFFICES ASSUME NEW t \in Stranded' PROVE t \in Stranded
      BY Zenon
    <3>1. t \in Tables /\ HasRoutes(t)' /\ \A r \in rules' : r[2] # t
      BY Zenon DEF Stranded
    <3>2. HasRoutes(t) /\ \A r \in rules \cup Pending : r[2] # t
      BY <1>2, <2>7, <3>1, Zenon DEF HasRoutes
    <3>3. QED
      BY <3>1, <3>2, Zenon DEF Stranded
  <2>9. Cardinality(Stranded') <= faults'
    BY <1>2, <2>1, <2>8, StrandedShrinks, SMTT(30)
  <2>10. Searched(h)'
    BY <1>2, FreshSearch, Zenon
  <2>11. QED
    BY <2>5, <2>6, <2>9, <2>10, Zenon DEF TableInv
<1>3. AddRule(h) /\ ~Fails(h) => pc'[h] \in {"idle", "rules"} /\ id'[h] = FirstTable
  BY ZenonT(30) DEF AddRule, Goto, Return, IInv, TypeOK
<1>4. QED
  BY <1>1, <1>2, <1>3, Zenon DEF AddRule

\* A restart strands at most the table of the set-up it interrupts.
LEMMA RestartTable ==
  ASSUME \A g, h \in Setups : g = h, IInv, IInv', TableInv, Restart
  PROVE  TableInv'
<1>1. UNCHANGED <<route, rules>> /\ faults' = faults + 1 /\ faults \in Nat
  BY DEF Restart, Fault, IInv, TypeOK
<1>2. ASSUME NEW h \in Setups PROVE TableInv'
  <2>1. pc'[h] = "idle" /\ id'[h] = FirstTable
    BY Zenon DEF Restart
  <2>2. QED
    BY <1>1, <2>1, EndTable, Zenon
<1>3. CASE Setups = {}
  <2>1. Pending = {} /\ Pending' = {}
    BY <1>3, Zenon DEF Pending
  <2>2. Stranded' = Stranded /\ \A t \in Tables : Occupied(t)' <=> Occupied(t)
    BY <1>1, <2>1, Zenon DEF Stranded, HasRoutes, Occupied, HasRule
  <2>3. Cardinality(Stranded') <= faults'
    BY <1>1, <2>2, StrandedShrinks
  <2>4. QED
    BY <1>1, <1>3, <2>2, <2>3, Zenon DEF TableInv, OneTablePerNIC
<1>4. QED
  BY <1>2, <1>3, Zenon
\* Every step preserves TableInv when set-ups do not overlap.
LEMMA NextTableInv ==
  ASSUME \A g, h \in Setups : g = h
  PROVE  IInv /\ IInv' /\ TableInv /\ [Next]_vars => TableInv'
<1> SUFFICES ASSUME IInv, IInv', TableInv, [Next]_vars PROVE TableInv'
  BY Zenon
<1>1. CASE \E h \in Setups, n \in Nets : Begin(h, n)
  BY <1>1, BeginTable, Zenon
<1>2. CASE \E h \in Setups : Step(h)
  BY <1>2, CheckRulesTable, CheckRoutesTable, ReplaceRouteTable, AddRuleTable, Zenon DEF Step
<1>3. CASE Restart
  BY <1>3, RestartTable, Zenon
<1>4. CASE UNCHANGED vars
  <2>1. UNCHANGED <<route, rules, pc, at, id, faults>>
    BY <1>4, Zenon DEF vars, calls
  <2>2. Pending' = Pending /\ \A t \in Tables : Occupied(t)' <=> Occupied(t)
    BY <2>1, Zenon DEF Pending, Nic, Occupied, HasRule, HasRoutes
  <2>3. Stranded' = Stranded
    BY <2>1, <2>2, Zenon DEF Stranded, HasRoutes
  <2>4. ASSUME NEW h \in Setups PROVE Searched(h)'
    <3>1. Searched(h)
      BY Zenon DEF TableInv
    <3>2. QED
      BY <2>1, <2>2, <3>1, Zenon DEF Searched, Nic
  <2>5. QED
    BY <2>1, <2>2, <2>3, <2>4, Zenon DEF TableInv, OneTablePerNIC
<1>5. QED
  BY <1>1, <1>2, <1>3, <1>4, Zenon DEF Next

\* The search of isTableFree takes the first free table and keeps to it, for any
\* number of NICs, networks, tables and failures.
THEOREM TableInvariance ==
  ASSUME \A g, h \in Setups : g = h
  PROVE  Spec => []TableInv
<1>1. Init => TableInv
  <2> SUFFICES ASSUME Init PROVE TableInv
    BY Zenon
  <2>1. \A h \in Setups : Searched(h)
    <3>1. \A t \in Tables : ~(t < FirstTable)
      BY MultiNICAssumption DEF Tables
    <3>2. QED
      BY <3>1, Zenon DEF Init, Searched
  <2>2. Stranded = {}
    BY Zenon DEF Init, Stranded, HasRoutes
  <2>3. QED
    BY <2>1, <2>2, FS_EmptySet DEF Init, TableInv, OneTablePerNIC
<1>2. IInv /\ IInv' /\ TableInv /\ [Next]_vars => TableInv'
  BY NextTableInv, Zenon
<1>3. QED
  BY <1>1, <1>2, Invariance, PTL DEF Spec

\* Later set-ups find and reuse the table of a NIC when set-ups do not overlap.
THEOREM OneTableSafety ==
  ASSUME \A g, h \in Setups : g = h
  PROVE  Spec => []OneTablePerNIC
<1>1. TableInv => OneTablePerNIC
  BY Zenon DEF TableInv
<1>2. QED
  BY TableInvariance, <1>1, PTL

\* The tables that a rule points to, or is about to, are at most as many as NICs.
LEMMA ClaimedTables ==
  ASSUME \A g, h \in Setups : g = h, IInv, TableInv, NEW C \in SUBSET Tables,
         \A t \in C : \E r \in rules \cup Pending : r[2] = t
  PROVE  /\ IsFiniteSet(NicSet) /\ IsFiniteSet(C) /\ Cardinality(C) <= Cardinality(NicSet)
         /\ Cardinality(C) \in Nat /\ Cardinality(NicSet) \in Nat
<1>1. IsFiniteSet(NicSet)
  <2>1. Nics \in [1 .. Len(Nics) -> NicSet] /\ Len(Nics) \in Nat /\ DOMAIN Nics = 1 .. Len(Nics)
    BY MultiNICAssumption
  <2>2. Nics \in Surjection(1 .. Len(Nics), NicSet)
    BY <2>1, Zenon DEF Surjection, NicSet
  <2>3. IsFiniteSet(1 .. Len(Nics))
    BY <2>1, FS_Interval
  <2>4. QED
    BY <2>2, <2>3, FS_Surjection, Zenon
<1>2. \A r \in Pending : \E h \in Setups : pc[h] = "rule" /\ r = <<Nic(h), id[h]>>
  BY Zenon DEF Pending
<1>3. \A r \in rules \cup Pending : r = <<r[1], r[2]>> /\ r[1] \in NicSet
  BY <1>2, NicType, SMTT(30) DEF IInv, TypeOK
<1>4. ASSUME NEW r \in rules \cup Pending, NEW s \in rules \cup Pending, r[1] = s[1]
      PROVE  r[2] = s[2]
  <2>1. ASSUME NEW h \in Setups, pc[h] = "rule", NEW q \in rules, q[1] = Nic(h)
        PROVE  q[2] = id[h]
    BY <2>1, Zenon DEF TableInv, Searched
  <2>2. CASE r \in rules /\ s \in rules
    BY <1>4, <2>2, Zenon DEF TableInv, OneTablePerNIC
  <2>3. CASE r \in Pending \/ s \in Pending
    BY <1>2, <1>4, <2>1, <2>3, SMTT(30)
  <2>4. QED
    BY <2>2, <2>3, Zenon
<1> DEFINE f == [t \in C |-> CHOOSE nic \in NicSet : <<nic, t>> \in rules \cup Pending]
<1>5. \A t \in C : f[t] \in NicSet /\ <<f[t], t>> \in rules \cup Pending
  <2>1. \A t \in C : \E nic \in NicSet : <<nic, t>> \in rules \cup Pending
    BY <1>3
  <2>2. QED
    BY <2>1, Zenon
<1>6. f \in Injection(C, NicSet)
  <2>1. f \in [C -> NicSet]
    BY <1>5, Zenon
  <2>2. ASSUME NEW t \in C, NEW u \in C, f[t] = f[u] PROVE t = u
    <3> HIDE DEF f
    <3>1. <<f[t], t>> \in rules \cup Pending /\ <<f[u], u>> \in rules \cup Pending
      BY <1>5, Zenon
    <3>2. QED
      BY <1>4, <2>2, <3>1
  <2>3. QED
    BY <2>1, <2>2, Zenon DEF Injection, IsInjective
<1>7. QED
  BY <1>1, <1>6, FS_Injection, FS_CardinalityType, Zenon

\* No sequence of set-ups uses up the tables when set-ups do not overlap: what is
\* not a NIC's table was stranded by a failure of its own.
THEOREM TablesAreBounded ==
  ASSUME \A g, h \in Setups : g = h
  PROVE  Spec => []TablesBounded
<1>1. IInv /\ TableInv => TablesBounded
  <2> SUFFICES ASSUME IInv, TableInv PROVE TablesBounded
    BY Zenon
  <2> DEFINE U == {t \in Tables : HasRule(t) \/ HasRoutes(t)}
             C == {t \in Tables : \E r \in rules \cup Pending : r[2] = t}
  <2>1. /\ IsFiniteSet(C) /\ Cardinality(C) <= Cardinality(NicSet)
        /\ Cardinality(C) \in Nat /\ Cardinality(NicSet) \in Nat
    <3>1. C \in SUBSET Tables /\ \A t \in C : \E r \in rules \cup Pending : r[2] = t
      BY Zenon
    <3> HIDE DEF C
    <3>2. QED
      BY <3>1, ClaimedTables, Zenon
  <2>2. U \in SUBSET (C \cup Stranded)
    BY Zenon DEF Stranded, HasRule
  <2> HIDE DEF U, C
  <2>3. /\ IsFiniteSet(C \cup Stranded) /\ IsFiniteSet(C \cap Stranded)
        /\ Cardinality(C \cup Stranded) =
             Cardinality(C) + Cardinality(Stranded) - Cardinality(C \cap Stranded)
    BY <2>1, StrandedFinite, FS_Union, FS_Intersection, Zenon
  <2>4. Cardinality(U) <= Cardinality(C \cup Stranded)
    BY <2>2, <2>3, FS_Subset, Zenon
  <2>5. /\ Cardinality(U) \in Nat /\ Cardinality(C \cap Stranded) \in Nat
        /\ Cardinality(Stranded) <= faults /\ faults \in Nat
    BY <2>2, <2>3, FS_Subset, FS_CardinalityType DEF TableInv, IInv, TypeOK
  <2>6. Cardinality(U) <= Cardinality(NicSet) + faults
    BY <2>1, <2>3, <2>4, <2>5, StrandedFinite
  <2>7. QED
    BY <2>6, Zenon DEF TablesBounded, U
<1>2. QED
  BY Invariance, TableInvariance, <1>1, PTL

-----------------------------------------------------------------------------
(* Overlapping set-ups keep at least the shape of the tables.              *)

\* A set-up has a network, and a table it has chosen is one of the range.
InTables ==
  \A h \in Setups : /\ pc[h] # "idle" => net[h] \in Nets
                    /\ pc[h] \in {"routes", "replace", "rule"} => id[h] \in Tables

\* Every step of any number of set-ups preserves the types.
LEMMA NextTypeOK == TypeOK /\ InTables /\ [Next]_vars => TypeOK' /\ InTables'
<1> SUFFICES ASSUME TypeOK, InTables, [Next]_vars PROVE TypeOK' /\ InTables'
  BY Zenon
<1> USE MultiNICAssumption
<1>1. ASSUME NEW h \in Setups, NEW n \in Nets, Begin(h, n) PROVE TypeOK' /\ InTables'
  BY <1>1, Zenon DEF TypeOK, InTables, Begin, Goto
<1>2. ASSUME NEW h \in Setups, Fails(h) PROVE TypeOK' /\ InTables'
  BY <1>2, SMTT(30) DEF TypeOK, InTables, Fails, Fault, Return
<1>3. ASSUME NEW h \in Setups, CheckRules(h), ~Fails(h) PROVE TypeOK' /\ InTables'
  <2>1. /\ pc[h] = "rules" /\ net[h] \in Nets
        /\ InRange(id[h]) => id[h] \in Tables
    BY <1>3, SMTT(30) DEF TypeOK, InRange, Tables, CheckRules, InTables
  <2>2. CASE Return(h) /\ UNCHANGED <<route, rules, ready, faults>>
    <3>1. 1 \in 1 .. Len(Nics) /\ FirstTable \in FirstTable .. LastTable + 1
      BY <1>3, SMTT(30) DEF TypeOK
    <3>2. TypeOK'
      BY <2>2, <3>1, Zenon DEF TypeOK, Return
    <3>3. InTables'
      BY <2>2, Zenon DEF TypeOK, InTables, Return
    <3>4. QED
      BY <3>2, <3>3, Zenon
  <2>3. CASE /\ InRange(id[h]) /\ UNCHANGED <<route, rules, net, at, ready, faults, id>>
             /\ Goto(h, "replace") \/ Goto(h, "routes")
    BY <2>1, <2>3, ZenonT(30) DEF TypeOK, InTables, Goto
  <2>4. CASE /\ InRange(id[h]) /\ UNCHANGED <<route, rules, net, at, ready, faults, pc>>
             /\ id' = [id EXCEPT ![h] = NextTable(@)] /\ pc[h] = "rules"
    BY <2>1, <2>4 DEF TypeOK, InTables, NextTable, Tables
  <2>5. QED
    BY <1>3, <2>2, <2>3, <2>4, Zenon DEF CheckRules
<1>4. ASSUME NEW h \in Setups, CheckRoutes(h), ~Fails(h) PROVE TypeOK' /\ InTables'
  <2>1. /\ id[h] \in Tables /\ net[h] \in Nets
        /\ UNCHANGED <<route, rules, net, at, ready, faults>>
    <3>1. pc[h] = "routes" /\ UNCHANGED <<route, rules, net, at, ready, faults>>
      BY <1>4, Zenon DEF CheckRoutes
    <3>2. QED
      BY <3>1, ZenonT(30) DEF InTables
  <2>2. CASE Goto(h, "rules") /\ id' = [id EXCEPT ![h] = NextTable(@)]
    BY <2>1, <2>2, SMTT(30) DEF TypeOK, InTables, Goto, NextTable, Tables
  <2>3. CASE Goto(h, "replace") /\ UNCHANGED id
    BY <2>1, <2>3, Zenon DEF TypeOK, InTables, Goto
  <2>4. QED
    BY <1>4, <2>2, <2>3, ZenonT(30) DEF CheckRoutes
<1>5. ASSUME NEW h \in Setups, ReplaceRoute(h), ~Fails(h) PROVE TypeOK' /\ InTables'
  <2>1. /\ pc[h] = "replace" /\ route' = [route EXCEPT ![<<id[h], net[h]>>] = Nic(h)]
        /\ Goto(h, "rule") /\ UNCHANGED <<rules, net, at, id, ready, faults>>
    BY <1>5, Zenon DEF ReplaceRoute
  <2>2. route' \in [Tables \X Nets -> NicSet \cup {None}]
    <3>1. Nic(h) \in NicSet /\ route \in [Tables \X Nets -> NicSet \cup {None}]
      BY NicType, Zenon DEF TypeOK
    <3>2. QED
      BY <2>1, <3>1, Zenon
  <2>3. pc' \in [Setups -> {"idle", "rules", "routes", "replace", "rule"}] /\ InTables'
    BY <2>1, Zenon DEF TypeOK, InTables, Goto
  <2>4. QED
    BY <2>1, <2>2, <2>3, Zenon DEF TypeOK
<1>6. ASSUME NEW h \in Setups, AddRule(h), ~Fails(h) PROVE TypeOK' /\ InTables'
  <2>1. /\ pc[h] = "rule" /\ rules' = rules \cup {<<Nic(h), id[h]>>} /\ UNCHANGED <<route, faults>>
        /\ \/ /\ at[h] < Len(Nics) /\ Goto(h, "rules") /\ at' = [at EXCEPT ![h] = @ + 1]
              /\ id' = [id EXCEPT ![h] = FirstTable] /\ UNCHANGED <<net, ready>>
           \/ at[h] = Len(Nics) /\ Return(h) /\ ready' = ready \cup {net[h]}
    BY <1>6, Zenon DEF AddRule
  <2>2. rules' \subseteq NicSet \X Tables
    BY <2>1, NicType, SMTT(30) DEF TypeOK, InTables
  <2>3. CASE /\ at[h] < Len(Nics) /\ Goto(h, "rules") /\ at' = [at EXCEPT ![h] = @ + 1]
             /\ id' = [id EXCEPT ![h] = FirstTable] /\ UNCHANGED <<net, ready>>
    <3>1. at' \in [Setups -> 1 .. Len(Nics)]
      BY <2>3, SMTT(30) DEF TypeOK
    <3>2. QED
      BY <2>1, <2>2, <2>3, <3>1, SMTT(30) DEF TypeOK, InTables, Goto
  <2>4. CASE at[h] = Len(Nics) /\ Return(h) /\ ready' = ready \cup {net[h]}
    <3>1. ready' \subseteq Nets
      BY <2>1, <2>4, Zenon DEF TypeOK, InTables
    <3>2. QED
      BY <2>1, <2>2, <2>4, <3>1, SMTT(30) DEF TypeOK, InTables, Return
  <2>5. QED
    BY <2>1, <2>3, <2>4, Zenon
<1>7. CASE Restart
  BY <1>7, SMTT(30) DEF TypeOK, InTables, Restart, Fault
<1>8. CASE UNCHANGED vars
  BY <1>8, Zenon DEF TypeOK, InTables, vars, calls
<1>9. QED
  BY <1>1, <1>2, <1>3, <1>4, <1>5, <1>6, <1>7, <1>8, Zenon DEF Next, Step

\* Whatever set-ups overlap, the search stays inside the range of tables.
THEOREM TypeCorrectness == Spec => []TypeOK
<1>1. Init => TypeOK /\ InTables
  BY MultiNICAssumption DEF Init, TypeOK, InTables
<1>2. TypeOK /\ InTables /\ [Next]_vars => TypeOK' /\ InTables'
  BY NextTypeOK, Zenon
<1>3. QED
  BY <1>1, <1>2, PTL DEF Spec
=============================================================================
