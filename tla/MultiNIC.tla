------------------------------ MODULE MultiNIC ------------------------------
(***************************************************************************)
(* Policy routing for the additional NICs of a node: setUpMultiNIC of      *)
(* pkg/csi_driver/node.go and the RouteManager of pkg/network/network.go.  *)
(* A set-up runs inside NodeStageVolume or mountGlobalIAM.  Those hold     *)
(* locks of their own volume only, so set-ups for different volumes run    *)
(* concurrently and share the routing tables and rules of the kernel,      *)
(* which they read and write one netlink call at a time.                   *)
(*                                                                         *)
(* A route is identified by its table and the /16 network of the Lustre    *)
(* instance; RouteReplace overwrites it.  The kernel lists rules in the    *)
(* order of their priorities, which the code leaves to the kernel, so any  *)
(* rule of a table may be the first one isTableFree meets.                 *)
(***************************************************************************)
EXTENDS Integers, Sequences, FiniteSets

CONSTANTS
  Nics,        \* config.AdditionalNics, a sequence
  Nets,        \* /16 networks of Lustre instances
  FirstTable,  \* initialRouteTableID
  LastTable,   \* maxTableID
  Foreign,     \* tables other software of the node has rules or routes in
  Setups,      \* goroutines running setUpMultiNIC
  MaxFaults,   \* bound on failing netlink calls and restarts
  None         \* no NIC, no network

Tables  == FirstTable .. LastTable
NicSet  == {Nics[i] : i \in DOMAIN Nics}

ASSUME MultiNICAssumption ==
  /\ Nics \in Seq(NicSet) /\ Len(Nics) > 0
  /\ FirstTable \in Nat /\ LastTable \in Nat /\ FirstTable <= LastTable
  /\ Foreign \subseteq Tables
  /\ MaxFaults \in Nat
  /\ None \notin NicSet \cup Nets

VARIABLES
  route,   \* the NIC of table t's route to network n, or None
  rules,   \* pairs <<nic, t>>: packets from nic's address are looked up in t
  pc,      \* where each set-up is
  net,     \* the network it routes to
  at,      \* index of the NIC it works on
  id,      \* the table it looks at or has chosen
  ready,   \* networks whose last set-up succeeded
  faults   \* failures so far

calls == <<pc, net, at, id>>
vars  == <<route, rules, calls, ready, faults>>

TypeOK ==
  /\ route \in [Tables \X Nets -> NicSet \cup {None}]
  /\ rules \subseteq NicSet \X Tables
  /\ pc \in [Setups -> {"idle", "rules", "routes", "replace", "rule"}]
  /\ net \in [Setups -> Nets \cup {None}]
  /\ at \in [Setups -> 1 .. Len(Nics)]
  /\ id \in [Setups -> FirstTable .. LastTable + 1]
  /\ ready \subseteq Nets
  /\ faults \in 0 .. MaxFaults

Init ==
  /\ route = [x \in Tables \X Nets |-> None]
  /\ rules = {}
  /\ pc = [h \in Setups |-> "idle"]
  /\ net = [h \in Setups |-> None]
  /\ at = [h \in Setups |-> 1]
  /\ id = [h \in Setups |-> FirstTable]
  /\ ready = {}
  /\ faults = 0

-----------------------------------------------------------------------------
Nic(h) == Nics[at[h]]

Fault == faults < MaxFaults /\ faults' = faults + 1

Goto(h, l) == pc' = [pc EXCEPT ![h] = l]

Return(h) ==
  /\ pc' = [pc EXCEPT ![h] = "idle"]
  /\ net' = [net EXCEPT ![h] = None]
  /\ at' = [at EXCEPT ![h] = 1]
  /\ id' = [id EXCEPT ![h] = FirstTable]

\* The call fails and the set-up returns its error; what it did stays.
Fails(h) == Fault /\ Return(h) /\ UNCHANGED <<route, rules, ready>>

HasRule(t)   == \E r \in rules : r[2] = t
HasRoutes(t) == \E n \in Nets : route[<<t, n>>] # None

\* setUpMultiNIC is called with the address of an instance in network n.
Begin(h, n) ==
  /\ pc[h] = "idle"
  /\ Goto(h, "rules") /\ net' = [net EXCEPT ![h] = n]
  /\ UNCHANGED <<route, rules, at, id, ready, faults>>

InRange(t) == t <= LastTable

\* Mutant: the search looks at the same table again.
SameTable(t) == t

\* Mutant: the search skips every other table.
EveryOther(t) == t + 2

NextTable(t) == t + 1

\* Mutant: the source of the rule is not compared.
AnySource(r, h) == TRUE

\* Mutant: a rule always makes its table occupied.
NoSource(r, h) == FALSE

\* The table of rule r is already assigned to the NIC of set-up h.
Assigned(r, h) == r[1] = Nic(h)

\* The first half of isTableFree: the first rule of the table decides.
CheckRules(h) ==
  /\ pc[h] = "rules"
  /\ \/ /\ ~InRange(id[h])
        /\ Return(h) /\ UNCHANGED <<route, rules, ready, faults>>
     \/ /\ InRange(id[h])
        /\ \/ /\ \E r \in rules : r[2] = id[h] /\ Assigned(r, h)
              /\ Goto(h, "replace") /\ UNCHANGED id
           \/ /\ id[h] \in Foreign \/ \E r \in rules : r[2] = id[h] /\ ~Assigned(r, h)
              /\ id' = [id EXCEPT ![h] = NextTable(@)] /\ UNCHANGED pc
           \/ /\ id[h] \notin Foreign /\ ~HasRule(id[h])
              /\ Goto(h, "routes") /\ UNCHANGED id
        /\ UNCHANGED <<route, rules, net, at, ready, faults>>
     \/ Fails(h)

\* The second half: a table without rules is free if it has no routes.
CheckRoutes(h) ==
  /\ pc[h] = "routes"
  /\ \/ /\ \/ /\ HasRoutes(id[h])
              /\ Goto(h, "rules") /\ id' = [id EXCEPT ![h] = NextTable(@)]
           \/ ~HasRoutes(id[h]) /\ Goto(h, "replace") /\ UNCHANGED id
        /\ UNCHANGED <<route, rules, net, at, ready, faults>>
     \/ Fails(h)

\* RouteReplace in the chosen table.
ReplaceRoute(h) ==
  /\ pc[h] = "replace"
  /\ \/ /\ route' = [route EXCEPT ![<<id[h], net[h]>>] = Nic(h)]
        /\ Goto(h, "rule")
        /\ UNCHANGED <<rules, net, at, id, ready, faults>>
     \/ Fails(h)

\* Mutant: the loop over the NICs is left after the first.
AddRuleReturningEarly(h) ==
  /\ pc[h] = "rule"
  /\ rules' = rules \cup {<<Nic(h), id[h]>>}
  /\ Return(h) /\ ready' = ready \cup {net[h]}
  /\ UNCHANGED <<route, faults>>

\* The rule is added unless it is listed already; on to the next NIC.
AddRule(h) ==
  /\ pc[h] = "rule"
  /\ \/ /\ rules' = rules \cup {<<Nic(h), id[h]>>}
        /\ \/ /\ at[h] < Len(Nics) /\ Goto(h, "rules")
              /\ at' = [at EXCEPT ![h] = @ + 1]
              /\ id' = [id EXCEPT ![h] = FirstTable]
              /\ UNCHANGED <<net, ready>>
           \/ at[h] = Len(Nics) /\ Return(h) /\ ready' = ready \cup {net[h]}
        /\ UNCHANGED <<route, faults>>
     \/ Fails(h)

\* The driver restarts: the set-ups are lost, routes and rules stay.
Restart ==
  /\ Fault
  /\ pc' = [h \in Setups |-> "idle"] /\ net' = [h \in Setups |-> None]
  /\ at' = [h \in Setups |-> 1] /\ id' = [h \in Setups |-> FirstTable]
  /\ UNCHANGED <<route, rules, ready>>

Step(h) == CheckRules(h) \/ CheckRoutes(h) \/ ReplaceRoute(h) \/ AddRule(h)

Next ==
  \/ \E h \in Setups, n \in Nets : Begin(h, n)
  \/ \E h \in Setups : Step(h)
  \/ Restart

Spec == Init /\ [][Next]_vars

\* A set-up that has begun goes on.
FairSpec == Spec /\ \A h \in Setups : WF_vars(Step(h))

-----------------------------------------------------------------------------
(* Properties.                                                             *)

\* A table is looked up for one NIC only: isTableFree refuses a table that
\* "is occupied by a rule for a different Src IP".
TableOfOneNIC ==
  \A r, s \in rules : r[2] = s[2] => r[1] = s[1]

\* Packets that leave with a NIC's address leave through that NIC: every route
\* of a table a NIC's rule points to goes through the NIC.
RouteThroughOwnNIC ==
  \A r \in rules, n \in Nets : route[<<r[2], n>>] \in {r[1], None}

\* Packets from nic to network n find a route through nic.
Routed(nic, n) ==
  \E t \in Tables : <<nic, t>> \in rules /\ route[<<t, n>>] = nic

\* After a set-up for a network succeeded, each additional NIC has a route to
\* the network in a table its rule points to, whatever set-ups follow.
ReadyRouted ==
  \A n \in ready, nic \in NicSet : Routed(nic, n)

\* A NIC keeps its table: later set-ups find and reuse the table of the first.
OneTablePerNIC ==
  \A r, s \in rules : r[1] = s[1] => r[2] = s[2]

\* A failure strands at most one table (its route without a rule makes
\* isTableFree skip it for ever); nothing else uses up tables.
TablesBounded ==
  Cardinality({t \in Tables : HasRule(t) \/ HasRoutes(t)})
    <= Cardinality(NicSet) + faults

\* Every set-up ends: the search stops at the first usable table or past the
\* last one.
SetupEnds == \A h \in Setups : pc[h] # "idle" ~> pc[h] = "idle"

-----------------------------------------------------------------------------
(* The inductive invariant behind TableOfOneNIC, RouteThroughOwnNIC and    *)
(* ReadyRouted when set-ups do not overlap.                                *)

\* No rule and no route of another NIC uses the table of set-up h.
OwnsTable(h) ==
  /\ \A r \in rules : r[2] = id[h] => r[1] = Nic(h)
  /\ \A n \in Nets : route[<<id[h], n>>] \in {Nic(h), None}

\* What a set-up has established so far, step by step.
Established(h) ==
  /\ pc[h] = "idle" => at[h] = 1
  /\ pc[h] # "idle" =>
       /\ net[h] \in Nets
       /\ \A i \in 1 .. at[h] - 1 : Routed(Nics[i], net[h])
  /\ pc[h] = "routes" => ~HasRule(id[h])
  /\ pc[h] \in {"routes", "replace", "rule"} => id[h] \in Tables
  /\ pc[h] \in {"replace", "rule"} => OwnsTable(h)
  /\ pc[h] = "rule" => route[<<id[h], net[h]>>] = Nic(h)

SetupInv == \A h \in Setups : Established(h)

IInv == TypeOK /\ TableOfOneNIC /\ RouteThroughOwnNIC /\ ReadyRouted /\ SetupInv

-----------------------------------------------------------------------------
(* The inductive invariant, on top of IInv, behind OneTablePerNIC and      *)
(* TablesBounded when set-ups do not overlap.                              *)

\* isTableFree passes the table over.
Occupied(t) == t \in Foreign \/ HasRule(t) \/ HasRoutes(t)

\* What the search has found out: the tables below the one it looks at are
\* occupied and not the NIC's, and once it has chosen a table the NIC has a rule
\* for no other.
Searched(h) ==
  /\ pc[h] # "idle" =>
       \A t \in Tables : t < id[h] => Occupied(t) /\ <<Nic(h), t>> \notin rules
  /\ pc[h] = "idle" => id[h] = FirstTable
  /\ pc[h] \in {"routes", "replace", "rule"} => id[h] \notin Foreign
  /\ pc[h] \in {"replace", "rule"} => \A r \in rules : r[1] = Nic(h) => r[2] = id[h]

\* The rules of set-ups that have made their route and not yet the rule.
Pending == {<<Nic(h), id[h]>> : h \in {g \in Setups : pc[g] = "rule"}}

\* Tables with routes that no rule points to, and none is about to.
Stranded == {t \in Tables : HasRoutes(t) /\ \A r \in rules \cup Pending : r[2] # t}

\* Each rule is at the first table that was not occupied when it was chosen, and
\* only failures strand tables.
TableInv ==
  /\ \A h \in Setups : Searched(h)
  /\ \A r \in rules : r[2] \notin Foreign /\ \A t \in Tables : t < r[2] => Occupied(t)
  /\ OneTablePerNIC
  /\ Cardinality(Stranded) <= faults
=============================================================================
