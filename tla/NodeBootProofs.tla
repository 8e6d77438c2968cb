--------------------------- MODULE NodeBootProofs ---------------------------
(***************************************************************************)
(* Proofs about NodeBoot and, through it, KmodInstaller: what the driver   *)
(* relies on when it runs (the kernel modules, LNet's port and NICs, the   *)
(* upcall binary on the host) holds for every list of NICs, every number   *)
(* of failures, changes and reboots, and every number of upcalls.          *)
(*                                                                         *)
(* The argument is KmodInv for the kernel, OneNetwork for the NICs and     *)
(* ServerInv for the host.  What the loops over NICs return is proved by   *)
(* induction on them, from the well-foundedness of the naturals.           *)
(***************************************************************************)
EXTENDS NodeBoot, WellFoundedInduction, TLAPS

-----------------------------------------------------------------------------
(* Lists: what the loops over NICs return, by induction on the loop.       *)

\* A set of naturals that is not empty has a least element: induction, as a fact
\* about sets.
LEMMA Least ==
  ASSUME NEW N \in SUBSET Nat, N # {}
  PROVE  \E m \in N : \A n \in N : m <= n
<1>1. PICK m \in N : \A n \in N : ~(<<n, m>> \in OpToRel(<, Nat))
  BY WFMin, NatLessThanWellFounded, Zenon
<1>2. ASSUME NEW n \in N PROVE m <= n
  <2>1. n < m => <<n, m>> \in OpToRel(<, Nat)
    BY Zenon DEF OpToRel
  <2>2. ~(n < m)
    BY <1>1, <2>1, Zenon
  <2> QED
    BY <2>2, SMT
<1> QED
  BY <1>2, Zenon

\* What the loop makes of its first n elements, from what f says of fewer.
Body(s, T, f, n) ==
  [i \in 0 .. n |-> IF i = 0 THEN <<>>
                    ELSE IF s[i] \in T THEN Append(f[i - 1], s[i]) ELSE f[i - 1]]

\* A function satisfies the recursion of Filter.
LEMMA Loops ==
  ASSUME NEW s, NEW T, NEW l \in Nat
  PROVE  \E f : f = Body(s, T, f, l)
<1> DEFINE Bad == {n \in Nat : ~ \E f : f = Body(s, T, f, n)}
<1>1. SUFFICES Bad = {}
  BY <1>1, Zenon
<1>2. SUFFICES ASSUME NEW m \in Bad, \A n \in Bad : m <= n PROVE FALSE
  <2>1. Bad \in SUBSET Nat
    BY Zenon
  <2> QED
    BY <1>2, <2>1, Least, Zenon
<1>3. m \in Nat /\ m # 0
  <2> DEFINE f == [i \in 0 .. 0 |-> <<>>]
  <2>1. f = Body(s, T, f, 0)
    BY SMT DEF Body
  <2> QED
    BY <2>1, Zenon
<1>4. m - 1 \in Nat /\ m - 1 \notin Bad
  BY <1>2, <1>3, SMT
<1>5. PICK f : f = Body(s, T, f, m - 1)
  BY <1>4, Zenon
<1> DEFINE g == [i \in 0 .. m |-> IF i < m THEN f[i]
                                  ELSE IF s[m] \in T THEN Append(f[m - 1], s[m]) ELSE f[m - 1]]
<1>6. ASSUME NEW i \in 0 .. m
      PROVE  g[i] = IF i = 0 THEN <<>>
                    ELSE IF s[i] \in T THEN Append(g[i - 1], s[i]) ELSE g[i - 1]
  <2>1. CASE i = m
    <3>1. g[i - 1] = f[m - 1]
      BY <1>3, <2>1, SMT
    <3>2. g[i] = IF s[m] \in T THEN Append(f[m - 1], s[m]) ELSE f[m - 1]
      BY <1>3, <2>1, SMT
    <3> QED
      BY <1>3, <2>1, <3>1, <3>2, Zenon
  <2>2. CASE i # m
    <3>1. i \in 0 .. m - 1 /\ i < m
      BY <1>3, <2>2, SMT
    <3>2. g[i] = f[i]
      BY <3>1, SMT
    <3>3. f[i] = IF i = 0 THEN <<>>
                 ELSE IF s[i] \in T THEN Append(f[i - 1], s[i]) ELSE f[i - 1]
      BY <1>5, <3>1, Zenon DEF Body
    <3>4. i # 0 => g[i - 1] = f[i - 1]
      BY <1>3, <3>1, SMT
    <3> QED
      BY <3>2, <3>3, <3>4, Zenon
  <2> QED
    BY <2>1, <2>2, Zenon
<1>7. g = Body(s, T, g, m)
  BY <1>6, Zenon DEF Body
<1> QED
  BY <1>7, Zenon

\* The loop, from one element to the next.
Runs(s, T, F) ==
  /\ F[0] = <<>>
  /\ \A i \in 1 .. Len(s) :
       F[i] = IF s[i] \in T THEN Append(F[i - 1], s[i]) ELSE F[i - 1]

\* Filter is where the loop ends.
LEMMA FilterRuns ==
  ASSUME NEW s, NEW T, Len(s) \in Nat
  PROVE  \E F : Runs(s, T, F) /\ Filter(s, T) = F[Len(s)]
<1> DEFINE F == CHOOSE f : f = Body(s, T, f, Len(s))
<1>1. Len(s) \in Nat
  OBVIOUS
<1>2. F = Body(s, T, F, Len(s))
  BY <1>1, Loops, Zenon
<1>3. Filter(s, T) = F[Len(s)]
  BY Zenon DEF Filter, Body
<1> HIDE DEF F
<1>4. ASSUME NEW i \in 0 .. Len(s)
      PROVE  F[i] = IF i = 0 THEN <<>>
                    ELSE IF s[i] \in T THEN Append(F[i - 1], s[i]) ELSE F[i - 1]
  BY <1>2, Zenon DEF Body
<1>5. F[0] = <<>>
  BY <1>1, <1>4, SMT
<1>6. ASSUME NEW i \in 1 .. Len(s)
      PROVE  F[i] = IF s[i] \in T THEN Append(F[i - 1], s[i]) ELSE F[i - 1]
  <2>1. i \in 0 .. Len(s) /\ i # 0
    BY <1>1, SMT
  <2> QED
    BY <1>4, <2>1, Zenon
<1> QED
  BY <1>3, <1>5, <1>6, Zenon DEF Runs

\* What a list holds of the first n elements of another one after the loop.
Kept(s, T, n, r) ==
  /\ Len(r) <= n
  /\ \A k \in 1 .. Len(r) : r[k] \in T /\ \E j \in 1 .. n : r[k] = s[j]
  /\ \A j \in 1 .. n : s[j] \in T => \E k \in 1 .. Len(r) : r[k] = s[j]
  /\ \A j \in 1 .. n : s[j] \notin T => Len(r) < n
  /\ Distinct(s) => Distinct(r)

\* An element that is not in the set is passed over.
LEMMA KeptSkips ==
  ASSUME NEW S, NEW s \in Seq(S), NEW T, NEW n \in 1 .. Len(s),
         NEW r \in Seq(S), Kept(s, T, n - 1, r), s[n] \notin T
  PROVE  Kept(s, T, n, r)
<1>1. Len(r) \in Nat /\ n \in Nat /\ Len(r) <= n - 1
  BY SMT DEF Kept
<1>2. ASSUME NEW j \in 1 .. n PROVE j \in 1 .. n - 1 \/ j = n
  BY <1>1, SMT
<1>3. ASSUME NEW j \in 1 .. n - 1 PROVE j \in 1 .. n
  BY <1>1, SMT
<1>4. Len(r) <= n /\ Len(r) < n
  BY <1>1, SMT
<1> QED
  BY <1>2, <1>3, <1>4, Zenon DEF Kept

\* An element in the set is appended.
LEMMA KeptAppends ==
  ASSUME NEW S, NEW s \in Seq(S), NEW T, NEW n \in 1 .. Len(s),
         NEW r \in Seq(S), Kept(s, T, n - 1, r), s[n] \in T
  PROVE  Kept(s, T, n, Append(r, s[n]))
<1> DEFINE a == Append(r, s[n])
<1>1. Len(r) \in Nat /\ n \in Nat /\ Len(r) <= n - 1 /\ s[n] \in S
  BY SMT DEF Kept
<1>2. /\ a \in Seq(S) /\ Len(a) = Len(r) + 1 /\ a[Len(a)] = s[n]
      /\ \A k \in 1 .. Len(r) : a[k] = r[k]
  BY <1>1, SMT
<1>3. ASSUME NEW j \in 1 .. n PROVE j \in 1 .. n - 1 \/ j = n
  BY <1>1, SMT
<1>4. ASSUME NEW j \in 1 .. n - 1 PROVE j \in 1 .. n /\ j # n
  BY <1>1, SMT
<1>5. ASSUME NEW k \in 1 .. Len(a) PROVE k \in 1 .. Len(r) \/ k = Len(a)
  BY <1>1, <1>2, SMT
<1>6. /\ \A k \in 1 .. Len(r) : k \in 1 .. Len(a)
      /\ Len(a) \in 1 .. Len(a) /\ n \in 1 .. n
  BY <1>1, <1>2, SMT
<1>7. DOMAIN a = 1 .. Len(a) /\ DOMAIN r = 1 .. Len(r) /\ DOMAIN s = 1 .. Len(s)
  BY <1>2, SMT
<1>8. \A j \in 1 .. n : j \in DOMAIN s
  BY <1>1, <1>7, SMT
<1> HIDE DEF a
<1>9. Len(a) <= n
  BY <1>1, <1>2, SMT
<1>10. ASSUME NEW k \in 1 .. Len(a) PROVE a[k] \in T /\ \E j \in 1 .. n : a[k] = s[j]
  <2>1. CASE k = Len(a)
    BY <1>2, <1>6, <2>1, Zenon
  <2>2. CASE k \in 1 .. Len(r)
    <3>1. a[k] = r[k] /\ r[k] \in T /\ \E j \in 1 .. n - 1 : r[k] = s[j]
      BY <1>2, <2>2, Zenon DEF Kept
    <3> QED
      BY <1>4, <3>1, Zenon
  <2> QED
    BY <1>5, <2>1, <2>2, Zenon
<1>11. ASSUME NEW j \in 1 .. n, s[j] \in T PROVE \E k \in 1 .. Len(a) : a[k] = s[j]
  BY <1>2, <1>3, <1>6, <1>11, Zenon DEF Kept
<1>12. ASSUME NEW j \in 1 .. n, s[j] \notin T PROVE Len(a) < n
  <2>1. Len(r) < n - 1
    BY <1>3, <1>12, Zenon DEF Kept
  <2> QED
    BY <1>1, <1>2, <2>1, SMT
<1>13. ASSUME Distinct(s) PROVE Distinct(a)
  <2>1. ASSUME NEW k \in 1 .. Len(r) PROVE a[k] # s[n]
    <3>1. PICK j \in 1 .. n - 1 : r[k] = s[j]
      BY Zenon DEF Kept
    <3>2. s[j] # s[n]
      BY <1>4, <1>6, <1>8, <1>13, Zenon DEF Distinct
    <3> QED
      BY <1>2, <3>1, <3>2, Zenon
  <2>2. ASSUME NEW k \in 1 .. Len(r), NEW l \in 1 .. Len(r), a[k] = a[l] PROVE k = l
    <3>1. Distinct(r)
      BY <1>13, Zenon DEF Kept
    <3> QED
      BY <1>2, <1>7, <2>2, <3>1, Zenon DEF Distinct
  <2> QED
    BY <1>2, <1>5, <1>7, <2>1, <2>2, Zenon DEF Distinct
<1> QED
  BY <1>9, <1>10, <1>11, <1>12, <1>13, Zenon DEF Kept, a

\* Filter returns exactly the elements of the list that are in the set; it is
\* shorter than the list if one is not, and repeats none if the list does not.
LEMMA FilterKeeps ==
  ASSUME NEW S, NEW s \in Seq(S), NEW T
  PROVE  Filter(s, T) \in Seq(S) /\ Kept(s, T, Len(s), Filter(s, T))
<1>1. Len(s) \in Nat /\ Len(s) \in 0 .. Len(s)
  BY SMT
<1>2. PICK F : Runs(s, T, F) /\ Filter(s, T) = F[Len(s)]
  BY <1>1, FilterRuns, Zenon
<1> DEFINE Bad == {n \in 0 .. Len(s) : ~(F[n] \in Seq(S) /\ Kept(s, T, n, F[n]))}
<1>3. SUFFICES Bad = {}
  BY <1>1, <1>2, <1>3, Zenon
<1>4. SUFFICES ASSUME NEW m \in Bad, \A n \in Bad : m <= n PROVE FALSE
  <2>1. Bad \in SUBSET Nat
    BY <1>1, SMT
  <2> QED
    BY <1>4, <2>1, Least, Zenon
<1>5. m # 0
  <2>1. <<>> \in Seq(S) /\ Len(<<>>) = 0 /\ DOMAIN <<>> = {} /\ 1 .. 0 = {} /\ 0 <= 0
    BY SMT
  <2>2. Kept(s, T, 0, <<>>)
    BY <2>1, Zenon DEF Kept, Distinct
  <2> QED
    BY <1>2, <2>1, <2>2, Zenon DEF Runs
<1>6. m \in 1 .. Len(s) /\ m - 1 \in 0 .. Len(s) /\ ~(m <= m - 1)
  BY <1>1, <1>5, SMT
<1>7. F[m - 1] \in Seq(S) /\ Kept(s, T, m - 1, F[m - 1])
  BY <1>4, <1>6, Zenon
<1>8. s[m] \in S
  BY <1>6, SMT
<1>9. Append(F[m - 1], s[m]) \in Seq(S)
  BY <1>7, <1>8, SMT
<1>10. F[m] = IF s[m] \in T THEN Append(F[m - 1], s[m]) ELSE F[m - 1]
  BY <1>2, <1>6, Zenon DEF Runs
<1>11. CASE s[m] \in T
  <2>1. Kept(s, T, m, Append(F[m - 1], s[m]))
    BY <1>6, <1>7, <1>11, KeptAppends, Zenon
  <2> QED
    BY <1>9, <1>10, <1>11, <2>1, Zenon
<1>12. CASE s[m] \notin T
  <2>1. Kept(s, T, m, F[m - 1])
    BY <1>6, <1>7, <1>12, KeptSkips, Zenon
  <2> QED
    BY <1>7, <1>10, <1>12, <2>1, Zenon
<1> QED
  BY <1>11, <1>12, Zenon

-----------------------------------------------------------------------------
(* Lists of NICs.                                                          *)

\* The node has a NIC, and lists of its NICs are sequences.
LEMMA NicFacts ==
  /\ Nics \in Seq(NicSet) /\ Distinct(Nics) /\ Len(Nics) \in Nat /\ Len(Nics) >= 1
  /\ DOMAIN Nics = 1 .. Len(Nics)
  /\ \E i \in 1 .. Len(Nics) : Nics[i] = Primary
<1>1. Nics \in Seq(NicSet) /\ Distinct(Nics) /\ Primary \in NicSet
  BY KmodAssumption, SMT
<1>2. Len(Nics) \in Nat /\ DOMAIN Nics = 1 .. Len(Nics)
  BY <1>1, SMT
<1>3. PICK i \in 1 .. Len(Nics) : Nics[i] = Primary
  BY <1>1, <1>2, Zenon DEF NicSet
<1>4. Len(Nics) >= 1
  BY <1>2, <1>3, SMT
<1> QED
  BY <1>1, <1>2, <1>3, <1>4, Zenon

\* The type of a list of NICs: no longer than the node's.
LEMMA NetworksType ==
  ASSUME NEW l
  PROVE  l \in Networks <=> l \in Seq(NicSet) /\ Len(l) <= Len(Nics)
<1>1. Len(Nics) \in Nat
  BY NicFacts, Zenon
<1>2. ASSUME l \in Networks PROVE l \in Seq(NicSet) /\ Len(l) <= Len(Nics)
  <2>1. PICK n \in 0 .. Len(Nics) : l \in [1 .. n -> NicSet]
    BY <1>2, Zenon DEF Networks
  <2>2. n \in Nat /\ n <= Len(Nics)
    BY <1>1, <2>1, SMT
  <2> QED
    BY <2>1, <2>2, SMT
<1>3. ASSUME l \in Seq(NicSet), Len(l) <= Len(Nics) PROVE l \in Networks
  <2>1. l \in [1 .. Len(l) -> NicSet] /\ Len(l) \in 0 .. Len(Nics)
    BY <1>1, <1>3, SMT
  <2> QED
    BY <2>1, Zenon DEF Networks
<1> QED
  BY <1>2, <1>3, Zenon

\* The NICs of a list beside the primary.
LEMMA OthersFacts ==
  ASSUME NEW l \in Seq(NicSet)
  PROVE  /\ Others(l) \in Seq(NicSet) /\ Len(Others(l)) <= Len(l)
         /\ (\E i \in 1 .. Len(l) : l[i] = Primary) => Len(Others(l)) < Len(l)
         /\ Distinct(l) => Distinct(Others(l))
         /\ \A k \in 1 .. Len(Others(l)) :
              Others(l)[k] # Primary /\ \E j \in 1 .. Len(l) : Others(l)[k] = l[j]
<1> DEFINE T == NicSet \ {Primary}
<1>1. Others(l) = Filter(l, T)
  BY Zenon DEF Others
<1>2. Filter(l, T) \in Seq(NicSet) /\ Kept(l, T, Len(l), Filter(l, T))
  BY FilterKeeps, Zenon
<1>3. Primary \notin T /\ \A n \in T : n # Primary
  BY Zenon
<1> HIDE DEF T
<1> QED
  BY <1>1, <1>2, <1>3, Zenon DEF Kept

\* The primary before other NICs of its network.
LEMMA PrimaryFirst ==
  ASSUME NEW l \in Seq(NicSet), Distinct(l),
         \A k \in 1 .. Len(l) : l[k] # Primary /\ Vpc[l[k]] = Vpc[Primary]
  PROVE  /\ LnetList(<<Primary>> \o l)
         /\ <<Primary>> \o l \in Seq(NicSet) /\ Len(<<Primary>> \o l) = Len(l) + 1
<1> DEFINE p == <<Primary>> \o l
<1>1. Len(l) \in Nat /\ DOMAIN l = 1 .. Len(l)
  BY SMT
<1>2. /\ p \in Seq(NicSet) /\ Len(p) = Len(l) + 1 /\ DOMAIN p = 1 .. Len(p)
      /\ p[1] = Primary /\ \A k \in 2 .. Len(p) : p[k] = l[k - 1]
  BY KmodAssumption, SMT
<1> HIDE DEF p
<1>3. ASSUME NEW k \in DOMAIN p, k # 1
      PROVE  k - 1 \in 1 .. Len(l) /\ p[k] = l[k - 1]
  <2>1. k \in 2 .. Len(p) /\ k - 1 \in 1 .. Len(l)
    BY <1>1, <1>2, <1>3, SMT
  <2> QED
    BY <1>2, <2>1, Zenon
<1>4. ASSUME NEW j \in DOMAIN p, NEW k \in DOMAIN p, p[j] = p[k] PROVE j = k
  <2>1. ASSUME NEW i \in DOMAIN p, i # 1 PROVE p[i] # p[1]
    BY <1>2, <1>3, <2>1, ZenonT(30)
  <2>2. CASE j # 1 /\ k # 1
    <3>1. /\ j - 1 \in DOMAIN l /\ p[j] = l[j - 1]
          /\ k - 1 \in DOMAIN l /\ p[k] = l[k - 1]
      BY <1>1, <1>3, <2>2, Zenon
    <3>2. l[j - 1] = l[k - 1]
      BY <1>4, <3>1, Zenon
    <3>3. j - 1 = k - 1
      BY <3>1, <3>2, Zenon DEF Distinct
    <3> QED
      BY <1>2, <3>3, SMT
  <2> QED
    BY <1>4, <2>1, <2>2, Zenon
<1>5. ASSUME NEW k \in DOMAIN p PROVE Vpc[p[k]] = Vpc[Primary]
  BY <1>2, <1>3, <1>5, ZenonT(30)
<1> QED
  BY <1>2, <1>4, <1>5, Zenon DEF LnetList, Distinct, p

\* No NICs beside the primary.
LEMMA NoOthers ==
  /\ <<>> \in Networks /\ LnetList(<<>>)
  /\ LnetList(<<Primary>> \o <<>>)
  /\ <<Primary>> \in Networks /\ LnetList(<<Primary>>)
<1>1. /\ <<>> \in Seq(NicSet) /\ Len(<<>>) = 0 /\ DOMAIN <<>> = {} /\ 1 .. 0 = {}
      /\ <<Primary>> \in Seq(NicSet) /\ Len(<<Primary>>) = 1
      /\ <<Primary>> \o <<>> = <<Primary>>
  BY KmodAssumption, SMT
<1>2. Distinct(<<>>) /\ LnetList(<<>>)
  BY <1>1, Zenon DEF LnetList, Distinct
<1>3. LnetList(<<Primary>> \o <<>>)
  BY <1>1, <1>2, PrimaryFirst, Zenon
<1>4. 0 <= Len(Nics) /\ 1 <= Len(Nics)
  BY NicFacts, SMT
<1> QED
  BY <1>1, <1>2, <1>3, <1>4, NetworksType, Zenon

\* The NICs the installer takes into account.
LEMMA StandardNICs ==
  ASSUME NEW found
  PROVE  LET nics == GetStandardNICs(found) IN
           /\ nics \in Seq(NicSet) /\ Distinct(nics) /\ Len(nics) <= Len(Nics)
           /\ \/ Len(nics) < Len(Nics)
              \/ \E i \in 1 .. Len(nics) : nics[i] = Primary
           /\ \A k \in 1 .. Len(nics) : Vpc[nics[k]] = Vpc[Primary]
<1> DEFINE nics == GetStandardNICs(found)
<1>1. CASE Len(Nics) <= 1
  <2>1. nics = Nics
    BY <1>1, Zenon DEF GetStandardNICs
  <2>2. PICK i \in 1 .. Len(Nics) : Nics[i] = Primary
    BY NicFacts, Zenon
  <2>3. \A k \in 1 .. Len(Nics) : k = i
    BY <1>1, <2>2, NicFacts, SMT
  <2>4. Len(Nics) <= Len(Nics)
    BY NicFacts, SMT
  <2> QED
    BY <2>1, <2>2, <2>3, <2>4, NicFacts, Zenon
<1>2. CASE ~(Len(Nics) <= 1)
  <2> DEFINE T == {n \in found : Vpc[n] = Vpc[Primary]}
  <2>1. nics = Filter(Nics, T)
    BY <1>2, Zenon DEF GetStandardNICs, validateNICs
  <2>2. Filter(Nics, T) \in Seq(NicSet) /\ Kept(Nics, T, Len(Nics), Filter(Nics, T))
    BY FilterKeeps, NicFacts, Zenon
  <2>3. \A n \in T : Vpc[n] = Vpc[Primary]
    BY Zenon
  <2> HIDE DEF T
  <2>4. Distinct(nics) /\ Len(nics) <= Len(Nics)
    BY <2>1, <2>2, NicFacts, Zenon DEF Kept
  <2>5. \A k \in 1 .. Len(nics) : Vpc[nics[k]] = Vpc[Primary]
    BY <2>1, <2>2, <2>3, Zenon DEF Kept
  <2>6. Len(nics) < Len(Nics) \/ \E i \in 1 .. Len(nics) : nics[i] = Primary
    BY <2>1, <2>2, NicFacts, Zenon DEF Kept
  <2> QED
    BY <2>1, <2>2, <2>4, <2>5, <2>6, Zenon
<1> QED
  BY <1>1, <1>2, Zenon

\* The NICs the installer gives to LNet.
LEMMA BuiltList ==
  ASSUME NEW found, NEW disabled, NEW nets,
         nets = BuildLnetNetworkString(GetStandardNICs(found), disabled)
  PROVE  nets \in Networks /\ LnetList(nets)
<1> DEFINE nics == GetStandardNICs(found)
<1>1. /\ nics \in Seq(NicSet) /\ Distinct(nics) /\ Len(nics) <= Len(Nics)
      /\ Len(nics) < Len(Nics) \/ \E i \in 1 .. Len(nics) : nics[i] = Primary
      /\ \A k \in 1 .. Len(nics) : Vpc[nics[k]] = Vpc[Primary]
  BY StandardNICs, Zenon
<1>2. /\ disabled => nets = <<Primary>> \o <<>>
      /\ ~disabled => nets = <<Primary>> \o Others(nics)
  BY Zenon DEF BuildLnetNetworkString
<1> HIDE DEF nics
<1>3. CASE disabled
  <2>1. nets = <<Primary>> \o <<>>
    BY <1>2, <1>3, Zenon
  <2>2. <<Primary>> \o <<>> = <<Primary>>
    BY KmodAssumption, SMT
  <2> QED
    BY <2>1, <2>2, NoOthers, Zenon
<1>4. CASE ~disabled
  <2>1. nets = <<Primary>> \o Others(nics)
    BY <1>2, <1>4, Zenon
  <2>2. /\ Others(nics) \in Seq(NicSet) /\ Len(Others(nics)) <= Len(nics)
        /\ (\E i \in 1 .. Len(nics) : nics[i] = Primary) => Len(Others(nics)) < Len(nics)
        /\ Distinct(Others(nics))
        /\ \A k \in 1 .. Len(Others(nics)) :
             Others(nics)[k] # Primary /\ \E j \in 1 .. Len(nics) : Others(nics)[k] = nics[j]
    BY <1>1, OthersFacts, Zenon
  <2>3. \A k \in 1 .. Len(Others(nics)) :
           Others(nics)[k] # Primary /\ Vpc[Others(nics)[k]] = Vpc[Primary]
    BY <1>1, <2>2, ZenonT(30)
  <2>4. /\ LnetList(nets) /\ nets \in Seq(NicSet)
        /\ Len(nets) = Len(Others(nics)) + 1
    BY <2>1, <2>2, <2>3, PrimaryFirst, Zenon
  <2>5. Len(nics) \in Nat /\ Len(Others(nics)) \in Nat /\ Len(Nics) \in Nat
    BY <1>1, <2>2, NicFacts, SMT
  <2>6. Len(Others(nics)) < Len(nics) \/ Len(nics) < Len(Nics)
    BY <1>1, <2>2, Zenon
  <2>7. Len(nets) <= Len(Nics)
    BY <1>1, <2>2, <2>4, <2>5, <2>6, SMT
  <2> QED
    BY <2>4, <2>7, NetworksType, Zenon
<1> QED
  BY <1>3, <1>4, Zenon

\* The NICs the driver routes for.
LEMMA AdditionalList ==
  ASSUME networks \in Networks, LnetList(networks)
  PROVE  AdditionalNics \in Networks /\ LnetList(<<Primary>> \o AdditionalNics)
<1> DEFINE l == GetLnetNetwork
<1>1. l \in Networks /\ LnetList(l)
  BY NoOthers, Zenon DEF GetLnetNetwork
<1> HIDE DEF l
<1>2. l \in Seq(NicSet) /\ Len(l) <= Len(Nics)
  BY <1>1, NetworksType, Zenon
<1>3. /\ Others(l) \in Seq(NicSet) /\ Len(Others(l)) <= Len(l) /\ Distinct(Others(l))
      /\ \A k \in 1 .. Len(Others(l)) :
           Others(l)[k] # Primary /\ \E j \in 1 .. Len(l) : Others(l)[k] = l[j]
  BY <1>1, <1>2, OthersFacts, Zenon DEF LnetList
<1>4. DOMAIN l = 1 .. Len(l)
  BY <1>2, SMT
<1>5. \A k \in 1 .. Len(Others(l)) :
         Others(l)[k] # Primary /\ Vpc[Others(l)[k]] = Vpc[Primary]
  <2>1. \A j \in 1 .. Len(l) : Vpc[l[j]] = Vpc[Primary]
    BY <1>1, <1>4, Zenon DEF LnetList
  <2> QED
    BY <1>3, <2>1, ZenonT(30)
<1>6. Len(Others(l)) <= Len(Nics)
  BY <1>2, <1>3, NicFacts, SMT
<1>7. Others(l) \in Networks /\ LnetList(<<Primary>> \o Others(l))
  BY <1>3, <1>5, <1>6, NetworksType, PrimaryFirst, Zenon
<1> QED
  BY <1>7, Zenon DEF AdditionalNics, l

-----------------------------------------------------------------------------
(* The modules.                                                            *)

\* The positions in the order of the modules, and the first of them.
LEMMA OrderFacts ==
  /\ Len(Order) = 8 /\ DOMAIN Order = 1 .. 8 /\ Order[1] = "lnet"
  /\ "lnet" \in Modules /\ "lustre" \in Modules
<1>1. Len(Order) = 8 /\ DOMAIN Order = 1 .. 8 /\ Order[1] = "lnet" /\ Order[3] = "lustre"
  BY DEF Order
<1>2. 1 \in DOMAIN Order /\ 3 \in DOMAIN Order
  BY <1>1
<1>3. QED
  BY <1>1, <1>2, Zenon DEF Modules

\* Nothing is inserted before the first module.
LEMMA NothingInserted ==
  ASSUME at = 1
  PROVE  Inserted = {}
BY DEF Inserted

\* lnet comes first: only a run at its first module may insert it.
LEMMA LnetFirst ==
  ASSUME at \in DOMAIN Order, at > 1
  PROVE  "lnet" \in Inserted
<1>1. 1 \in 1 .. at - 1
  BY OrderFacts
<1>2. QED
  BY <1>1, OrderFacts, Zenon DEF Inserted

\* A step on inserts the module passed.
LEMMA InsertedNext ==
  ASSUME at \in DOMAIN Order, at' = at + 1
  PROVE  Inserted' = Inserted \cup {Order[at]}
<1>1. 1 .. (at + 1) - 1 = (1 .. at - 1) \cup {at}
  BY OrderFacts
<1>2. Inserted' = {Order[i] : i \in 1 .. (at + 1) - 1}
  BY Zenon DEF Inserted, Order
<1>3. QED
  BY <1>1, <1>2, Zenon DEF Inserted

\* With the last module all of them are in.
LEMMA InsertedAll ==
  ASSUME at = 8
  PROVE  Inserted \cup {Order[at]} = Modules
<1>1. DOMAIN Order = (1 .. at - 1) \cup {at}
  BY OrderFacts
<1>2. QED
  BY <1>1 DEF Inserted, Modules

-----------------------------------------------------------------------------
(* Each step of the installer, of the driver's container and of the node   *)
(* preserves KmodInv.                                                      *)

\* A step that leaves the kernel and the driver alone keeps the two in line.
LEMMA FollowsFrame ==
  ASSUME DriverFollowsLNet, UNCHANGED <<networks, driver, additional>>
  PROVE  DriverFollowsLNet'
<1>1. GetLnetNetwork' = GetLnetNetwork
  BY Zenon DEF GetLnetNetwork
<1>2. QED
  BY <1>1, Zenon DEF DriverFollowsLNet

\* A step that leaves the kernel, the installer and the driver alone.
LEMMA KmodFrame ==
  ASSUME KmodInv,
         UNCHANGED <<os, legacy, kernel, installer, driver, additional, cut>>
  PROVE  KmodInv'
<1>1. DriverFollowsLNet => DriverFollowsLNet'
  BY FollowsFrame, Zenon DEF kernel
<1>2. Inserted' = Inserted
  BY Zenon DEF installer, Inserted
<1>3. QED
  BY <1>1, <1>2 DEF KmodInv, Supported, lnetPort, kernel, installer

\* A run begins: it takes the port from the flag and touches no module.
LEMMA DiscoverStep ==
  ASSUME KmodInv, NEW found, Discover(found)
  PROVE  KmodInv'
<1>1. ipc = "idle" /\ ipc' = "check" /\ plan'.port = lnetPort(legacy)
  BY Zenon DEF Discover
<1>2. UNCHANGED <<os, legacy, loaded, port, at, driver, cut>>
  BY Zenon DEF Discover, config, kernel
<1>3. QED
  BY <1>1, <1>2 DEF KmodInv, Supported, lnetPort

\* The check of the modules and of the port.  With no module or all of them
\* in the kernel it finds lnet and lustre exactly when all of them are in.
LEMMA CheckStep ==
  ASSUME KmodInv, Check
  PROVE  KmodInv'
<1>1. /\ ipc = "check" /\ at' = 1
      /\ UNCHANGED <<os, legacy, loaded, port, networks, plan, driver, additional, cut>>
  BY Zenon DEF Check, config, kernel
<1>2. driver # "up"
  BY <1>1, Zenon DEF KmodInv
<1>3. Inserted' = {}
  BY <1>1 DEF Inserted
<1>4. CASE isLustreKmodInstalled
  <2>1. ipc' \in {"idle", "done"} /\ (ipc' = "done" => port = plan.port)
    BY <1>4, <1>1, Zenon DEF Check, PortMatches
  <2>2. ~cut => loaded = Modules
    BY <1>1, <1>4, Zenon DEF KmodInv, isLustreKmodInstalled
  <2>3. QED
    BY <1>1, <1>2, <2>1, <2>2, OrderFacts DEF KmodInv, Supported, lnetPort
<1>5. CASE ~isLustreKmodInstalled
  <2>1. ~cut => loaded = {}
    BY <1>1, <1>5, OrderFacts, Zenon DEF KmodInv, isLustreKmodInstalled
  <2>2. ipc' \in {"idle", "load", "done"} /\ (ipc' = "load" => Supported)
                                         /\ (ipc' = "done" => ~Supported)
    BY <1>5, Zenon DEF Check, HasInstallation, Supported
  <2>3. QED
    BY <1>1, <1>2, <1>3, <2>1, <2>2, OrderFacts DEF KmodInv, Supported, lnetPort
<1>6. QED
  BY <1>4, <1>5, Zenon

\* One modprobe on Ubuntu: the modules in the kernel stay a prefix of the
\* order, the first of them sets the port, the last ends the run.
LEMMA ModprobeStep ==
  ASSUME KmodInv, Modprobe
  PROVE  KmodInv'
<1>1. /\ ipc = "load" /\ os = "ubuntu" /\ loaded' = loaded \cup {Order[at]}
      /\ UNCHANGED <<os, legacy, plan, driver, additional, cut>>
  BY Zenon DEF Modprobe, Insert, config
<1>2. driver # "up" /\ at \in 1 .. 8 /\ plan.port = lnetPort(legacy)
  BY <1>1, OrderFacts, Zenon DEF KmodInv
<1>3. ~cut => loaded = Inserted
  BY <1>1, Zenon DEF KmodInv
<1>4. ~cut => port' = plan.port
  <2>1. CASE at = 1
    <3>1. ~cut => "lnet" \in {Order[at]} \ loaded
      BY <2>1, <1>3, NothingInserted, OrderFacts, Zenon
    <3>2. QED
      BY <3>1, Zenon DEF Modprobe, Insert
  <2>2. CASE at > 1
    <3>1. ~cut => "lnet" \in loaded /\ port = plan.port
      BY <2>2, <1>1, <1>2, <1>3, LnetFirst, OrderFacts, Zenon DEF KmodInv
    <3>2. QED
      BY <3>1, Zenon DEF Modprobe, Insert
  <2>3. QED
    BY <1>2, <2>1, <2>2
<1>5. CASE LastModule
  <2>1. ipc' = "done" /\ at' = 1 /\ at = 8
    BY <1>5, OrderFacts, Zenon DEF Modprobe, LastModule
  <2>2. ~cut => loaded' = Modules
    BY <2>1, <1>1, <1>3, InsertedAll, Zenon
  <2>3. QED
    BY <1>1, <1>2, <1>4, <2>1, <2>2, OrderFacts DEF KmodInv, Supported, lnetPort
<1>6. CASE ~LastModule
  <2>1. ipc' = "load" /\ at' = at + 1 /\ at' \in 1 .. 8
    BY <1>6, <1>1, <1>2, OrderFacts DEF Modprobe, LastModule
  <2>2. ~cut => loaded' = Inserted'
    BY <2>1, <1>1, <1>2, <1>3, InsertedNext, OrderFacts, Zenon
  <2>3. QED
    BY <1>1, <1>2, <1>4, <2>1, <2>2, OrderFacts DEF KmodInv, Supported, lnetPort
<1>7. QED
  BY <1>5, <1>6, Zenon

\* cos-dkms inserts all the modules at once.
LEMMA CosDkmsStep ==
  ASSUME KmodInv, CosDkms
  PROVE  KmodInv'
<1>1. /\ ipc = "load" /\ ipc' = "done" /\ os = "cos" /\ loaded' = loaded \cup Modules
      /\ UNCHANGED <<os, legacy, plan, at, driver, additional, cut>>
  BY Zenon DEF CosDkms, Insert, config
<1>2. driver # "up" /\ at = 1 /\ plan.port = lnetPort(legacy)
  BY <1>1, OrderFacts DEF KmodInv
<1>3. ~cut => loaded = {}
  BY <1>1, <1>2, NothingInserted, Zenon DEF KmodInv
<1>4. ~cut => loaded' = Modules /\ port' = plan.port
  BY <1>1, <1>3, OrderFacts, Zenon DEF CosDkms, Insert
<1>5. QED
  BY <1>1, <1>2, <1>4, OrderFacts DEF KmodInv, Supported, lnetPort

\* cos-dkms fails: a run that leaves a module behind is one cut short.
LEMMA CosDkmsFailsStep ==
  ASSUME KmodInv, NEW k \in 0 .. Len(Order) - 1, CosDkmsFails(k)
  PROVE  KmodInv'
<1>1. /\ ipc = "load" /\ ipc' = "idle" /\ os = "cos" /\ cut' = (cut \/ k > 0)
      /\ loaded' = loaded \cup {Order[i] : i \in 1 .. k}
      /\ UNCHANGED <<os, legacy, plan, at, driver, additional>>
  BY Zenon DEF CosDkmsFails, Insert, config
<1>2. driver # "up" /\ at = 1
  BY <1>1, OrderFacts DEF KmodInv
<1>3. ~cut' => loaded' = {}
  <2>1. SUFFICES ASSUME ~cut' PROVE loaded' = {}
    BY Zenon
  <2>2. ~cut /\ ~(k > 0)
    BY <2>1, <1>1, Zenon
  <2>3. k = 0
    BY <2>2, OrderFacts
  <2>4. loaded = {}
    BY <2>2, <1>1, <1>2, NothingInserted, Zenon DEF KmodInv
  <2>5. QED
    BY <2>3, <2>4, <1>1
<1>4. cut' \in BOOLEAN
  BY <1>1, Zenon
<1>5. QED
  BY <1>1, <1>2, <1>3, <1>4, OrderFacts, Zenon DEF KmodInv, Supported

\* The installer fails elsewhere, or is killed.
LEMMA InstallerFailsStep ==
  ASSUME KmodInv, InstallerFails
  PROVE  KmodInv'
<1>1. /\ ipc \in {"check", "load"} /\ ipc' = "idle" /\ at' = 1 /\ cut' = (cut \/ at > 1)
      /\ UNCHANGED <<os, legacy, loaded, driver>>
  BY Zenon DEF InstallerFails, config, kernel
<1>2. driver # "up"
  BY <1>1, Zenon DEF KmodInv
<1>3. ~cut' => loaded \in {{}, Modules}
  <2>1. ~cut' => ~cut /\ ~(at > 1)
    BY <1>1, Zenon
  <2>2. ~(at > 1) => at = 1
    BY OrderFacts DEF KmodInv
  <2>3. QED
    BY <2>1, <2>2, NothingInserted, Zenon DEF KmodInv
<1>4. cut' \in BOOLEAN
  BY <1>1, Zenon
<1>5. QED
  BY <1>1, <1>2, <1>3, <1>4, OrderFacts DEF KmodInv, Supported

\* The label changes: no run looks at it again, and the driver never does.
LEMMA RelabelStep ==
  ASSUME KmodInv, Relabel
  PROVE  KmodInv'
BY KmodFrame, Zenon DEF Relabel

\* The driver starts after a run that ended, and reads back what LNet has.
LEMMA DriverStartStep ==
  ASSUME KmodInv, DriverStart
  PROVE  KmodInv'
<1>1. /\ ipc = "done" /\ additional' = Others(GetLnetNetwork)
      /\ UNCHANGED <<os, legacy, kernel, installer, cut>>
  BY Zenon DEF DriverStart, AdditionalNics, config
<1>2. GetLnetNetwork' = GetLnetNetwork
  BY <1>1, Zenon DEF GetLnetNetwork, kernel
<1>3. DriverFollowsLNet'
  BY <1>1, <1>2, Zenon DEF DriverFollowsLNet
<1>4. Inserted' = Inserted
  BY <1>1, Zenon DEF installer, Inserted
<1>5. QED
  BY <1>1, <1>3, <1>4 DEF KmodInv, Supported, lnetPort, kernel, installer

\* The driver's container crashes: the kernel and the installer stay.
LEMMA DriverCrashStep ==
  ASSUME KmodInv, DriverCrash
  PROVE  KmodInv'
<1>1. driver' = "down" /\ UNCHANGED <<os, legacy, kernel, installer, cut>>
  BY Zenon DEF DriverCrash, config
<1>2. Inserted' = Inserted
  BY <1>1, Zenon DEF installer, Inserted
<1>3. QED
  BY <1>1, <1>2 DEF KmodInv, Supported, lnetPort, kernel, installer

\* The pod is replaced: whatever ran has ended, in the middle of it or not.
LEMMA PodReplacedStep ==
  ASSUME KmodInv, PodReplaced
  PROVE  KmodInv'
<1>1. /\ ipc' = "idle" /\ at' = 1 /\ driver' = "down"
      /\ cut' = (cut \/ (ipc = "load" /\ at > 1))
      /\ UNCHANGED <<os, loaded>>
  BY Zenon DEF PodReplaced, kernel
<1>2. ~cut' => loaded \in {{}, Modules}
  <2>1. ~cut' => ~cut /\ ~(ipc = "load" /\ at > 1)
    BY <1>1, Zenon
  <2>2. ~(at > 1) => at = 1
    BY OrderFacts DEF KmodInv
  <2>3. QED
    BY <2>1, <2>2, NothingInserted, Zenon DEF KmodInv
<1>3. cut' \in BOOLEAN
  BY <1>1, Zenon
<1>4. QED
  BY <1>1, <1>2, <1>3, OrderFacts DEF KmodInv, Supported

\* After a reboot the kernel has none of the modules.
LEMMA RebootStep ==
  ASSUME KmodInv, Reboot
  PROVE  KmodInv'
<1>1. /\ ipc' = "idle" /\ at' = 1 /\ driver' = "down" /\ cut' = FALSE /\ loaded' = {}
      /\ UNCHANGED os
  BY Zenon DEF Reboot, config
<1>2. cut' \in BOOLEAN
  BY <1>1, Zenon
<1>3. QED
  BY <1>1, <1>2, OrderFacts DEF KmodInv, Supported

-----------------------------------------------------------------------------
(* Each step of the goroutine and of the proxies preserves ServerInv,      *)
(* CallInv and the types.                                                  *)

UpcallInv == UpcallTypeOK /\ ServerInv /\ CallInv

\* The installer's steps leave the driver and the system of the node alone.
LEMMA InstallerFrame ==
  ASSUME InstallerNext
  PROVE  UNCHANGED <<os, driver>>
BY Zenon DEF InstallerNext, StartInstaller, StartWithoutSomeNICs, Discover, Check, Modprobe,
       CosDkms, CosDkmsFails, InstallerFails, Relabel, config

\* A step that leaves the upcall path, the driver and the system alone.
LEMMA UpcallFrame ==
  ASSUME UpcallInv, UNCHANGED <<os, driver, upcallVars>>
  PROVE  UpcallInv'
BY Zenon DEF UpcallInv, UpcallTypeOK, ServerInv, CallInv, upcallVars, host, calls

\* The start of the driver, which finds no server and hence no command.
LEMMA StartUpcall ==
  ASSUME UpcallInv, Start
  PROVE  UpcallInv'
<1>1. /\ driver = "down" /\ driver' = "up" /\ UNCHANGED os
      /\ server' = IF os = "cos" THEN "copy" ELSE "off"
      /\ UNCHANGED <<host, tunable, calls>>
  BY Zenon DEF Start, DriverStart, config
<1>2. cmds = {}
  BY <1>1, Zenon DEF UpcallInv, ServerInv, CallInv
<1>3. UpcallTypeOK'
  BY <1>1, Zenon DEF UpcallInv, UpcallTypeOK, SetupSteps, host, calls
<1>4. ServerInv'
  BY <1>1, Zenon DEF UpcallInv, ServerInv, LoggedSteps
<1>5. CallInv'
  BY <1>1, <1>2, Zenon DEF UpcallInv, CallInv, host, calls
<1>6. QED
  BY <1>3, <1>4, <1>5, Zenon DEF UpcallInv

\* The driver's container ends, and with it every call that waits for it.
LEMMA StopUpcall ==
  ASSUME UpcallInv, Stop
  PROVE  UpcallInv'
<1>1. Disconnect /\ UNCHANGED <<host, tunable>>
  BY Zenon DEF Stop
<1>2. UpcallTypeOK'
  <2>1. /\ ppc' \in [Proxies -> {"none", "dial", "wait"}]
        /\ tries' \in [Proxies -> 0 .. maxRetries - 1]
    BY <1>1, NodeBootAssumption DEF UpcallInv, UpcallTypeOK, Disconnect
  <2>2. QED
    BY <1>1, <2>1, Zenon DEF UpcallInv, UpcallTypeOK, Disconnect, SetupSteps, host
<1>3. ServerInv'
  BY <1>1, Zenon DEF UpcallInv, ServerInv, Disconnect, LoggedSteps
<1>4. CallInv'
  BY <1>1, Zenon DEF UpcallInv, UpcallTypeOK, CallInv, Disconnect, host
<1>5. QED
  BY <1>2, <1>3, <1>4, Zenon DEF UpcallInv

\* A reboot ends every process, whatever it leaves of the host's files.
LEMMA RebootUpcall ==
  ASSUME UpcallInv, NodeReboot
  PROVE  UpcallInv'
<1>1. /\ server' = "off" /\ tunable' = FALSE /\ cmds' = {}
      /\ ppc' = [p \in Proxies |-> "none"] /\ tries' = [p \in Proxies |-> 0]
      /\ UNCHANGED host \/ (proxy' = "none" /\ rule' = FALSE /\ link' = FALSE)
  BY Zenon DEF NodeReboot
<1>2. UpcallTypeOK'
  <2>1. proxy' \in {"none", "partial", "whole"}
    BY <1>1, Zenon DEF UpcallInv, UpcallTypeOK, host
  <2>2. rule' \in BOOLEAN /\ link' \in BOOLEAN /\ tunable' \in BOOLEAN
    BY <1>1, Zenon DEF UpcallInv, UpcallTypeOK, host
  <2>3. /\ ppc' \in [Proxies -> {"none", "dial", "wait"}]
        /\ tries' \in [Proxies -> 0 .. maxRetries - 1]
    BY <1>1, NodeBootAssumption
  <2>4. QED
    BY <1>1, <2>1, <2>2, <2>3, Zenon DEF UpcallTypeOK
<1>3. ServerInv' /\ CallInv'
  BY <1>1, Zenon DEF ServerInv, CallInv, LoggedSteps
<1>4. QED
  BY <1>2, <1>3, Zenon DEF UpcallInv

\* A step of the goroutine that sets the host up.
LEMMA SetupUpcall ==
  ASSUME UpcallInv, Setup
  PROVE  UpcallInv'
<1>1. UNCHANGED <<os, driver, calls>> /\ server # "off" /\ server # "serving"
  BY Zenon DEF Setup, CopyOpen, CopyDone, WriteRules, Unlink, Symlink, SetTunable, Listen,
         kmodVars, config
<1>2. cmds = {}
  BY <1>1, Zenon DEF UpcallInv, CallInv
<1>3. UpcallTypeOK'
  BY <1>1, Zenon DEF UpcallInv, UpcallTypeOK, SetupSteps, host, calls,
              Setup, CopyOpen, CopyDone, WriteRules, Unlink, Symlink, SetTunable, Listen
<1>4. ServerInv'
  BY <1>1, Zenon DEF UpcallInv, ServerInv, LoggedSteps, host,
              Setup, CopyOpen, CopyDone, WriteRules, Unlink, Symlink, SetTunable, Listen
<1>5. (\E p \in Proxies : ppc[p] # "none") => proxy' = "whole"
  BY Zenon DEF UpcallInv, CallInv, host,
         Setup, CopyOpen, CopyDone, WriteRules, Unlink, Symlink, SetTunable, Listen
<1>6. CallInv'
  BY <1>1, <1>2, <1>5, Zenon DEF UpcallInv, CallInv, calls
<1>7. QED
  BY <1>3, <1>4, <1>6, Zenon DEF UpcallInv

\* A step of it that fails: the server starts without the step, if the step
\* is one for IAM mounts, and not at all otherwise.
LEMMA SetupFailsUpcall ==
  ASSUME UpcallInv, SetupFails
  PROVE  UpcallInv'
<1>1. /\ server \in SetupSteps
      /\ server' = IF server \in LoggedSteps THEN "listen" ELSE "failed"
      /\ UNCHANGED <<os, driver, host, tunable, calls>>
  BY Zenon DEF SetupFails, config
<1>2. cmds = {}
  BY <1>1, Zenon DEF UpcallInv, CallInv, SetupSteps
<1>3. UpcallTypeOK'
  BY <1>1, Zenon DEF UpcallInv, UpcallTypeOK, SetupSteps, host, calls
<1>4. ServerInv'
  BY <1>1, Zenon DEF UpcallInv, ServerInv, LoggedSteps, SetupSteps, host
<1>5. CallInv'
  BY <1>1, <1>2, Zenon DEF UpcallInv, CallInv, host, calls
<1>6. QED
  BY <1>3, <1>4, <1>5, Zenon DEF UpcallInv

\* The kernel or udev runs the proxy.
LEMMA InvokeUpcall ==
  ASSUME UpcallInv, NEW p \in Proxies, Invoke(p)
  PROVE  UpcallInv'
<1>1. /\ ppc[p] = "none" /\ p \notin cmds /\ proxy = "whole"
      /\ ppc' = [ppc EXCEPT ![p] = "dial"]
      /\ UNCHANGED <<os, driver, server, host, tunable, tries, cmds>>
  BY Zenon DEF Invoke, kmodVars, config
<1>2. UpcallTypeOK'
  BY <1>1, Zenon DEF UpcallInv, UpcallTypeOK, host
<1>3. ServerInv'
  BY <1>1, Zenon DEF UpcallInv, ServerInv, host
<1>4. CallInv'
  BY <1>1, Zenon DEF UpcallInv, UpcallTypeOK, CallInv, host
<1>5. QED
  BY <1>2, <1>3, <1>4, Zenon DEF UpcallInv

\* A process that ends leaves the others as they are.
LEMMA ExitUpcall ==
  ASSUME UpcallInv, NEW p \in Proxies, Exit(p), cmds' \in {cmds, cmds \ {p}},
         UNCHANGED <<os, driver, server, host, tunable>>
  PROVE  UpcallInv'
<1>1. ppc' = [ppc EXCEPT ![p] = "none"] /\ tries' = [tries EXCEPT ![p] = 0]
  BY Zenon DEF Exit
<1>2. UpcallTypeOK'
  BY <1>1, NodeBootAssumption DEF UpcallInv, UpcallTypeOK, host
<1>3. ServerInv'
  BY Zenon DEF UpcallInv, ServerInv, host
<1>4. CallInv'
  BY <1>1, Zenon DEF UpcallInv, UpcallTypeOK, CallInv, host
<1>5. QED
  BY <1>2, <1>3, <1>4, Zenon DEF UpcallInv

\* An attempt to connect: the command runs, or the attempt is counted, or the
\* process ends at its last one.
LEMMA DialUpcall ==
  ASSUME UpcallInv, NEW p \in Proxies, Dial(p)
  PROVE  UpcallInv'
<1>1. ppc[p] = "dial" /\ UNCHANGED <<os, driver, server, host, tunable>>
  BY Zenon DEF Dial, kmodVars, config
<1>2. ServerInv'
  BY <1>1, Zenon DEF UpcallInv, ServerInv, host
<1>3. CASE /\ server = "serving" /\ UNCHANGED tries
           /\ ppc' = [ppc EXCEPT ![p] = "wait"] /\ cmds' = cmds \cup {p}
  <2>1. UpcallTypeOK'
    BY <1>1, <1>3, Zenon DEF UpcallInv, UpcallTypeOK, host
  <2>2. CallInv'
    BY <1>1, <1>3, Zenon DEF UpcallInv, UpcallTypeOK, CallInv, host
  <2>3. QED
    BY <1>2, <2>1, <2>2, Zenon DEF UpcallInv
<1>4. CASE Exit(p) /\ UNCHANGED cmds
  BY <1>1, <1>4, ExitUpcall, Zenon
<1>5. CASE ~LastTry(p) /\ tries' = [tries EXCEPT ![p] = @ + 1] /\ UNCHANGED <<ppc, cmds>>
  <2>1. tries[p] \in 0 .. maxRetries - 1 /\ tries[p] + 1 # maxRetries
    BY <1>5, Zenon DEF UpcallInv, UpcallTypeOK, LastTry
  <2>2. tries[p] + 1 \in 0 .. maxRetries - 1
    BY <2>1, NodeBootAssumption
  <2>3. UpcallTypeOK'
    BY <1>1, <1>5, <2>2, Zenon DEF UpcallInv, UpcallTypeOK, host
  <2>4. CallInv'
    BY <1>1, <1>5, Zenon DEF UpcallInv, UpcallTypeOK, CallInv, host
  <2>5. QED
    BY <1>2, <2>3, <2>4, Zenon DEF UpcallInv
<1>6. QED
  BY <1>3, <1>4, <1>5, Zenon DEF Dial

\* The command ends.
LEMMA AnswerUpcall ==
  ASSUME UpcallInv, NEW p \in Proxies, Answer(p)
  PROVE  UpcallInv'
BY ExitUpcall, Zenon DEF Answer, kmodVars, config

\* The proxy's deadline passes.
LEMMA GivesUpUpcall ==
  ASSUME UpcallInv, NEW p \in Proxies, GivesUp(p)
  PROVE  UpcallInv'
<1>1. ppc[p] = "wait" /\ Exit(p) /\ UNCHANGED <<os, driver, server, host, tunable, cmds>>
  BY Zenon DEF GivesUp, kmodVars, config
<1>2. QED
  BY <1>1, ExitUpcall, Zenon

-----------------------------------------------------------------------------
(* The types, and the NICs of the lists.                                   *)

ListsInv == KmodTypeOK /\ OneNetwork

\* A failing call, crash or reboot is counted.
LEMMA FaultType ==
  ASSUME KmodTypeOK, Fault
  PROVE  faults' \in 0 .. MaxFaults
<1>1. faults \in 0 .. MaxFaults
  BY Zenon DEF KmodTypeOK
<1> QED
  BY <1>1, KmodAssumption, SMT DEF Fault

\* So is a change of the pod or of the label.
LEMMA ChangeType ==
  ASSUME KmodTypeOK, changes < MaxChanges, changes' = changes + 1
  PROVE  changes' \in 0 .. MaxChanges
<1>1. changes \in 0 .. MaxChanges
  BY Zenon DEF KmodTypeOK
<1> QED
  BY <1>1, KmodAssumption, SMT

\* Nothing but the counters changes.
LEMMA SameType ==
  ASSUME KmodTypeOK, UNCHANGED <<config, kernel, installer, driver, additional, cut>>,
         faults' \in 0 .. MaxFaults, changes' \in 0 .. MaxChanges
  PROVE  KmodTypeOK'
<1>1. /\ os' \in {"cos", "ubuntu", "windows", "other"}
      /\ legacy' \in BOOLEAN /\ disable' \in BOOLEAN
      /\ label' \in {"unset", "true", "false", "invalid"}
  BY Zenon DEF KmodTypeOK, config
<1>2. /\ loaded' \subseteq Modules /\ port' \in Ports \cup {None}
      /\ networks' \in Networks
  BY Zenon DEF KmodTypeOK, kernel
<1>3. /\ ipc' \in {"idle", "check", "load", "done"}
      /\ plan' \in [port : Ports, nets : Networks] /\ at' \in DOMAIN Order
  BY Zenon DEF KmodTypeOK, installer
<1>4. driver' \in {"down", "up"} /\ additional' \in Networks /\ cut' \in BOOLEAN
  BY Zenon DEF KmodTypeOK
<1> QED
  BY <1>1, <1>2, <1>3, <1>4, Zenon DEF KmodTypeOK

\* The kernel gets LNet's parameters from the plan.
LEMMA InsertType ==
  ASSUME ListsInv, NEW ms \in SUBSET Modules, Insert(ms)
  PROVE  /\ loaded' \subseteq Modules /\ port' \in Ports \cup {None}
         /\ networks' \in Networks /\ LnetList(networks')
<1>1. plan.port \in Ports /\ plan.nets \in Networks /\ LnetList(plan.nets)
  BY Zenon DEF ListsInv, KmodTypeOK, OneNetwork
<1>2. loaded' \subseteq Modules
  BY Zenon DEF ListsInv, KmodTypeOK, Insert
<1> QED
  BY <1>1, <1>2, ZenonT(30) DEF ListsInv, KmodTypeOK, OneNetwork, Insert

\* The installer plans LNet's parameters.
LEMMA DiscoverType ==
  ASSUME ListsInv, NEW found, Discover(found), faults' \in 0 .. MaxFaults
  PROVE  ListsInv'
<1> DEFINE nics == GetStandardNICs(found)
           nets == BuildLnetNetworkString(nics, CheckDisableMultiNIC(nics))
<1>1. nets \in Networks /\ LnetList(nets)
  BY BuiltList, Zenon
<1>2. /\ plan' = [port |-> lnetPort(legacy), nets |-> nets] /\ ipc' = "check"
      /\ UNCHANGED <<config, kernel, at, driver, additional, cut, changes>>
  BY Zenon DEF Discover
<1> HIDE DEF nets
<1>3. lnetPort(legacy) \in Ports
  BY SMT DEF lnetPort, Ports
<1>4. plan' \in [port : Ports, nets : Networks] /\ plan'.nets = nets
  BY <1>1, <1>2, <1>3, Zenon
<1> QED
  BY <1>1, <1>2, <1>4, ZenonT(30) DEF ListsInv, KmodTypeOK, OneNetwork, config, kernel

\* The check changes no list.
LEMMA CheckType ==
  ASSUME ListsInv, Check
  PROVE  ListsInv'
<1>1. at' \in DOMAIN Order /\ ipc' \in {"idle", "check", "load", "done"}
  <2>1. at' = 1 /\ 1 \in DOMAIN Order
    BY OrderFacts, SMT DEF Check
  <2> QED
    BY <2>1, Zenon DEF Check
<1>2. UNCHANGED <<config, kernel, plan, driver, additional, cut, faults, changes>>
  BY Zenon DEF Check
<1> QED
  BY <1>1, <1>2, ZenonT(30) DEF ListsInv, KmodTypeOK, OneNetwork, config, kernel

\* Modules are loaded one by one.
LEMMA ModprobeType ==
  ASSUME ListsInv, Modprobe
  PROVE  ListsInv'
<1>1. at \in DOMAIN Order /\ at \in 1 .. 8
  BY OrderFacts, Zenon DEF ListsInv, KmodTypeOK
<1>2. {Order[at]} \in SUBSET Modules
  BY <1>1, Zenon DEF Modules
<1>3. /\ loaded' \subseteq Modules /\ port' \in Ports \cup {None}
      /\ networks' \in Networks /\ LnetList(networks')
  BY <1>2, InsertType, Zenon DEF Modprobe
<1>4. at' \in DOMAIN Order
  <2>1. (at = 8 /\ at' = 1) \/ (at # 8 /\ at' = at + 1)
    BY OrderFacts, Zenon DEF Modprobe, LastModule
  <2>2. at' \in 1 .. 8
    BY <1>1, <2>1, SMT
  <2> QED
    BY <2>2, OrderFacts, Zenon
<1>5. ipc' \in {"idle", "check", "load", "done"}
  BY Zenon DEF Modprobe
<1>6. UNCHANGED <<config, plan, driver, additional, cut, faults, changes>>
  BY Zenon DEF Modprobe
<1> QED
  BY <1>3, <1>4, <1>5, <1>6, ZenonT(30) DEF ListsInv, KmodTypeOK, OneNetwork, config

\* cos-dkms loads all of them.
LEMMA CosDkmsType ==
  ASSUME ListsInv, CosDkms
  PROVE  ListsInv'
<1>1. Modules \in SUBSET Modules
  BY Zenon
<1>2. /\ loaded' \subseteq Modules /\ port' \in Ports \cup {None}
      /\ networks' \in Networks /\ LnetList(networks')
  BY <1>1, InsertType, Zenon DEF CosDkms
<1>3. ipc' = "done" /\ UNCHANGED <<config, plan, at, driver, additional, cut, faults, changes>>
  BY Zenon DEF CosDkms
<1> QED
  BY <1>2, <1>3, ZenonT(30) DEF ListsInv, KmodTypeOK, OneNetwork, config

\* Or some of them.
LEMMA CosDkmsFailsType ==
  ASSUME ListsInv, NEW k \in 0 .. Len(Order) - 1, CosDkmsFails(k)
  PROVE  ListsInv'
<1>1. {Order[i] : i \in 1 .. k} \in SUBSET Modules
  <2>1. \A i \in 1 .. k : i \in DOMAIN Order
    BY OrderFacts, SMT
  <2> QED
    BY <2>1, Zenon DEF Modules
<1>2. /\ loaded' \subseteq Modules /\ port' \in Ports \cup {None}
      /\ networks' \in Networks /\ LnetList(networks')
  BY <1>1, InsertType, Zenon DEF CosDkmsFails
<1>3. /\ ipc' = "idle" /\ cut' \in BOOLEAN
      /\ UNCHANGED <<config, plan, at, driver, additional, changes>>
  BY Zenon DEF CosDkmsFails
<1>4. faults' \in 0 .. MaxFaults
  BY FaultType, Zenon DEF ListsInv, CosDkmsFails
<1> QED
  BY <1>2, <1>3, <1>4, ZenonT(30) DEF ListsInv, KmodTypeOK, OneNetwork, config

\* The installer fails.
LEMMA InstallerFailsType ==
  ASSUME ListsInv, InstallerFails
  PROVE  ListsInv'
<1>1. /\ ipc' = "idle" /\ at' = 1 /\ cut' \in BOOLEAN
      /\ UNCHANGED <<config, kernel, plan, driver, additional, changes>>
  BY Zenon DEF InstallerFails
<1>2. faults' \in 0 .. MaxFaults
  BY FaultType, Zenon DEF ListsInv, InstallerFails
<1>3. at' \in DOMAIN Order
  BY <1>1, OrderFacts, SMT
<1> QED
  BY <1>1, <1>2, <1>3, ZenonT(30) DEF ListsInv, KmodTypeOK, OneNetwork, config, kernel

\* The label changes.
LEMMA RelabelType ==
  ASSUME ListsInv, Relabel
  PROVE  ListsInv'
<1>1. changes' \in 0 .. MaxChanges
  BY ChangeType, Zenon DEF ListsInv, Relabel
<1> QED
  BY <1>1, ZenonT(30) DEF ListsInv, KmodTypeOK, OneNetwork, Relabel, kernel, installer

\* The driver reads LNet's NICs back.
LEMMA DriverStartType ==
  ASSUME ListsInv, DriverStart
  PROVE  ListsInv'
<1>1. AdditionalNics \in Networks /\ LnetList(<<Primary>> \o AdditionalNics)
  BY AdditionalList, Zenon DEF ListsInv, KmodTypeOK, OneNetwork
<1>2. /\ driver' = "up" /\ additional' = AdditionalNics
      /\ UNCHANGED <<config, kernel, installer, cut, faults, changes>>
  BY Zenon DEF DriverStart
<1> QED
  <2>1. OneNetwork'
    BY <1>1, <1>2, Zenon DEF ListsInv, OneNetwork, kernel, installer
  <2>2. KmodTypeOK'
    BY <1>1, <1>2, ZenonT(30) DEF ListsInv, KmodTypeOK, config, kernel, installer
  <2> QED
    BY <2>1, <2>2, Zenon DEF ListsInv

\* The driver's container crashes.
LEMMA DriverCrashType ==
  ASSUME ListsInv, DriverCrash
  PROVE  ListsInv'
<1>1. faults' \in 0 .. MaxFaults
  BY FaultType, Zenon DEF ListsInv, DriverCrash
<1>2. /\ driver' = "down" /\ additional' = <<>>
      /\ UNCHANGED <<config, kernel, installer, cut, changes>>
  BY Zenon DEF DriverCrash
<1> QED
  <2>1. OneNetwork'
    BY <1>2, NoOthers, Zenon DEF ListsInv, OneNetwork, kernel, installer
  <2>2. KmodTypeOK'
    BY <1>1, <1>2, NoOthers, ZenonT(30) DEF ListsInv, KmodTypeOK, config, kernel, installer
  <2> QED
    BY <2>1, <2>2, Zenon DEF ListsInv

\* The pod is replaced.
LEMMA PodReplacedType ==
  ASSUME ListsInv, PodReplaced
  PROVE  ListsInv'
<1>1. changes' \in 0 .. MaxChanges
  BY ChangeType, Zenon DEF ListsInv, PodReplaced
<1>2. /\ legacy' \in BOOLEAN /\ disable' \in BOOLEAN /\ cut' \in BOOLEAN
      /\ ipc' = "idle" /\ at' = 1 /\ driver' = "down" /\ additional' = <<>>
      /\ UNCHANGED <<os, label, kernel, plan, faults>>
  BY Zenon DEF PodReplaced
<1>3. at' \in DOMAIN Order
  BY <1>2, OrderFacts, SMT
<1> QED
  BY <1>1, <1>2, <1>3, NoOthers, ZenonT(30) DEF ListsInv, KmodTypeOK, OneNetwork, kernel

\* The node reboots.
LEMMA RebootType ==
  ASSUME ListsInv, Reboot
  PROVE  ListsInv'
<1>1. faults' \in 0 .. MaxFaults
  BY FaultType, Zenon DEF ListsInv, Reboot
<1>2. /\ loaded' = {} /\ port' = None /\ networks' = <<>> /\ cut' = FALSE
      /\ ipc' = "idle" /\ at' = 1 /\ driver' = "down" /\ additional' = <<>>
      /\ UNCHANGED <<config, plan, changes>>
  BY Zenon DEF Reboot
<1>3. at' \in DOMAIN Order
  BY <1>2, OrderFacts, SMT
<1> QED
  BY <1>1, <1>2, <1>3, NoOthers, ZenonT(30) DEF ListsInv, KmodTypeOK, OneNetwork, config

\* Nothing of the installer and the driver's start changes.
LEMMA ListsFrame ==
  ASSUME ListsInv, UNCHANGED kmodVars
  PROVE  ListsInv'
<1>1. /\ UNCHANGED <<config, kernel, installer, driver, additional, cut>>
      /\ UNCHANGED <<faults, changes>>
  BY Zenon DEF kmodVars
<1>2. OneNetwork'
  BY <1>1, Zenon DEF ListsInv, OneNetwork, kernel, installer
<1>3. faults' \in 0 .. MaxFaults /\ changes' \in 0 .. MaxChanges
  BY <1>1, Zenon DEF ListsInv, KmodTypeOK
<1> QED
  BY <1>1, <1>2, <1>3, SameType, Zenon DEF ListsInv

\* Every step of the installer.
LEMMA InstallerType ==
  ASSUME ListsInv, InstallerNext
  PROVE  ListsInv'
<1>1. CASE StartInstaller
  BY <1>1, DiscoverType, Zenon DEF StartInstaller, ListsInv, KmodTypeOK
<1>2. CASE StartWithoutSomeNICs
  <2>1. faults' \in 0 .. MaxFaults
    BY <1>2, FaultType, Zenon DEF StartWithoutSomeNICs, ListsInv
  <2> QED
    BY <1>2, <2>1, DiscoverType, Zenon DEF StartWithoutSomeNICs
<1>3. CASE \E k \in 0 .. Len(Order) - 1 : CosDkmsFails(k)
  BY <1>3, CosDkmsFailsType, Zenon
<1> QED
  BY <1>1, <1>2, <1>3, CheckType, ModprobeType, CosDkmsType, InstallerFailsType,
     RelabelType, Zenon DEF InstallerNext

-----------------------------------------------------------------------------
(* The invariant.                                                          *)

\* BootInv in the parts the lemmas are about.
LEMMA BootParts == BootInv <=> ListsInv /\ KmodInv /\ UpcallInv
BY Zenon DEF BootInv, TypeOK, ListsInv, UpcallInv

\* It holds at first.
LEMMA InitInv == Init => BootInv
<1>1. SUFFICES ASSUME Init PROVE BootInv
  BY Zenon
<1>2. KmodInv
  <2>1. cut \in BOOLEAN
    BY <1>1, Zenon DEF Init, KmodInit
  <2>2. QED
    BY <1>1, <2>1, OrderFacts DEF Init, KmodInit, KmodInv, Supported
<1>3. UpcallTypeOK
  <2>1. rule \in BOOLEAN /\ link \in BOOLEAN /\ tunable \in BOOLEAN
    BY <1>1, Zenon DEF Init
  <2>2. QED
    BY <1>1, <2>1, NodeBootAssumption DEF Init, UpcallTypeOK
<1>4. ServerInv /\ CallInv
  BY <1>1, Zenon DEF Init, ServerInv, CallInv, LoggedSteps
<1>5. ListsInv
  <2>1. /\ legacy = FALSE /\ disable \in BOOLEAN /\ label = "unset" /\ cut = FALSE
        /\ os \in {"cos", "ubuntu", "windows", "other"}
        /\ loaded = {} /\ port = None /\ networks = <<>> /\ additional = <<>>
        /\ ipc = "idle" /\ driver = "down"
    BY <1>1, Zenon DEF Init, KmodInit
  <2>2. plan \in [port : Ports, nets : Networks] /\ plan.nets = <<>>
    BY <1>1, NoOthers, SMT DEF Init, KmodInit, Ports
  <2>3. /\ faults \in 0 .. MaxFaults /\ changes \in 0 .. MaxChanges
        /\ at \in DOMAIN Order
    BY <1>1, KmodAssumption, OrderFacts, SMT DEF Init, KmodInit
  <2>4. OneNetwork
    BY <2>1, <2>2, NoOthers, Zenon DEF OneNetwork
  <2> QED
    BY <2>1, <2>2, <2>3, <2>4, NoOthers, Zenon DEF ListsInv, KmodTypeOK
<1>6. QED
  BY <1>2, <1>3, <1>4, <1>5, BootParts, Zenon DEF UpcallInv

\* Outside the installer, a step that is not one of the driver's container or
\* of the node leaves the kernel, the installer and the driver alone.
LEMMA UpcallKmod ==
  ASSUME KmodInv, Setup \/ SetupFails \/ \E p \in Proxies :
                    Invoke(p) \/ Dial(p) \/ Answer(p) \/ GivesUp(p)
  PROVE  KmodInv'
<1>1. UNCHANGED <<os, legacy, kernel, installer, driver, additional, cut>>
  BY Zenon DEF Setup, CopyOpen, CopyDone, WriteRules, Unlink, Symlink, SetTunable, Listen,
         SetupFails, Invoke, Dial, Answer, GivesUp, kmodVars, config
<1>2. QED
  BY <1>1, KmodFrame, Zenon

\* The same for the lists.
LEMMA UpcallLists ==
  ASSUME ListsInv, Setup \/ SetupFails \/ \E p \in Proxies :
                     Invoke(p) \/ Dial(p) \/ Answer(p) \/ GivesUp(p)
  PROVE  ListsInv'
<1>1. UNCHANGED <<config, kernel, installer, driver, additional, cut, changes>>
  BY Zenon DEF Setup, CopyOpen, CopyDone, WriteRules, Unlink, Symlink, SetTunable, Listen,
         SetupFails, Invoke, Dial, Answer, GivesUp, kmodVars
<1>2. UNCHANGED faults \/ Fault
  BY Zenon DEF Setup, CopyOpen, CopyDone, WriteRules, Unlink, Symlink, SetTunable, Listen,
         SetupFails, Invoke, Dial, Answer, GivesUp, kmodVars
<1>3. faults' \in 0 .. MaxFaults
  BY <1>2, FaultType, Zenon DEF ListsInv, KmodTypeOK
<1>4. OneNetwork'
  BY <1>1, Zenon DEF ListsInv, OneNetwork, kernel, installer
<1>5. changes' \in 0 .. MaxChanges
  BY <1>1, Zenon DEF ListsInv, KmodTypeOK
<1>6. QED
  BY <1>1, <1>3, <1>4, <1>5, SameType, Zenon DEF ListsInv

\* Every step preserves the invariant.
LEMMA NextInv ==
  ASSUME BootInv, [Next]_vars
  PROVE  BootInv'
<1>1. ListsInv /\ KmodInv /\ UpcallInv
  BY BootParts, Zenon
<1> SUFFICES ListsInv' /\ KmodInv' /\ UpcallInv'
  BY Zenon DEF BootInv, TypeOK, ListsInv, UpcallInv
<1>2. CASE InstallerNext /\ UNCHANGED upcallVars
  <2>1. UpcallInv'
    BY <1>1, <1>2, InstallerFrame, UpcallFrame, Zenon
  <2>2. KmodInv'
    <3>1. CASE StartInstaller
      BY <1>1, <3>1, DiscoverStep, Zenon DEF StartInstaller
    <3>2. CASE StartWithoutSomeNICs
      BY <1>1, <3>2, DiscoverStep, Zenon DEF StartWithoutSomeNICs
    <3>3. CASE \E k \in 0 .. Len(Order) - 1 : CosDkmsFails(k)
      BY <1>1, <3>3, CosDkmsFailsStep, Zenon
    <3>4. QED
      BY <1>1, <1>2, <3>1, <3>2, <3>3, CheckStep, ModprobeStep, CosDkmsStep,
         InstallerFailsStep, RelabelStep, Zenon DEF InstallerNext
  <2>3. QED
    BY <1>1, <1>2, <2>1, <2>2, InstallerType, Zenon
<1>3. CASE Start
  BY <1>1, <1>3, StartUpcall, DriverStartStep, DriverStartType, Zenon DEF Start
<1>4. CASE Stop
  BY <1>1, <1>4, StopUpcall, DriverCrashStep, PodReplacedStep, DriverCrashType,
     PodReplacedType, Zenon DEF Stop
<1>5. CASE NodeReboot
  BY <1>1, <1>5, RebootUpcall, RebootStep, RebootType, Zenon DEF NodeReboot
<1>6. CASE Setup
  BY <1>1, <1>6, SetupUpcall, UpcallKmod, UpcallLists, Zenon
<1>7. CASE SetupFails
  BY <1>1, <1>7, SetupFailsUpcall, UpcallKmod, UpcallLists, Zenon
<1>8. CASE \E p \in Proxies : Invoke(p) \/ Dial(p) \/ Answer(p) \/ GivesUp(p)
  <2>1. UpcallInv'
    BY <1>1, <1>8, InvokeUpcall, DialUpcall, AnswerUpcall, GivesUpUpcall, Zenon
  <2>2. QED
    BY <1>1, <1>8, <2>1, UpcallKmod, UpcallLists, Zenon
<1>9. CASE UNCHANGED vars
  <2>1. UNCHANGED <<os, legacy, kernel, installer, driver, additional, cut, upcallVars>>
    BY <1>9, Zenon DEF vars, kmodVars, config
  <2>2. ListsInv'
    BY <1>1, <1>9, ListsFrame, Zenon DEF vars
  <2>3. QED
    BY <1>1, <2>1, <2>2, KmodFrame, UpcallFrame, Zenon
<1>10. QED
  BY <1>2, <1>3, <1>4, <1>5, <1>6, <1>7, <1>8, <1>9, Zenon DEF Next

-----------------------------------------------------------------------------
(* Theorems.                                                               *)

\* BootInv holds in every state: the types, the lists of NICs included; NICs of
\* the primary's network only; between runs of the installer none or all of the
\* modules in the kernel unless a run was cut short; each step of
\* SetupHostArtifacts on the mandatory ones before it; and no proxy that waits for
\* a container that is gone.
THEOREM BootInvariance == Spec => []BootInv
<1>1. QED
  BY InitInv, NextInv, PTL DEF Spec

\* Whichever link lookups fail and however label and flags change, LNet is given,
\* and the driver sets routes up for, NICs of the primary's network only, and none
\* twice (validateNICs, BuildLnetNetworkString, main).
THEOREM NicsOfOneNetwork == Spec => []OneNetwork
<1>1. BootInv => OneNetwork
  BY Zenon DEF BootInv
<1>2. QED
  BY <1>1, BootInvariance, PTL

\* The NICs the running driver sets routes up for are those LNet runs with,
\* whatever the label and the flags have become (main, GetLnetNetwork).
THEOREM DriverAgreesWithLNet == Spec => []DriverFollowsLNet
<1>1. BootInv => DriverFollowsLNet
  BY Zenon DEF BootInv, KmodInv, DriverFollowsLNet
<1>2. QED
  BY <1>1, BootInvariance, PTL

\* The running driver has LNet on the port its pod's flag asks for, unless a
\* run of the installer since boot was cut short.
THEOREM PortIsAgreed == Spec => []PortAgreed
<1>1. BootInv => PortAgreed
  BY Zenon DEF BootInv, KmodInv, PortAgreed
<1>2. QED
  BY <1>1, BootInvariance, PTL

\* A run of the installer that succeeded has every module in the kernel,
\* unless one since boot was cut short.
THEOREM InstallationIsWhole == Spec => []InstalledWhole
<1>1. BootInv => InstalledWhole
  BY Zenon DEF BootInv, KmodInv, InstalledWhole
<1>2. QED
  BY <1>1, BootInvariance, PTL

\* A server that takes upcalls has the udev rule and the whole binary on the
\* host (SetupHostArtifacts before StartServer).
THEOREM ServingIsInstalled == Spec => []ServingMeansInstalled
<1>1. BootInv => ServingMeansInstalled
  BY Zenon DEF BootInv, ServerInv, ServingMeansInstalled
<1>2. QED
  BY <1>1, BootInvariance, PTL
=============================================================================
