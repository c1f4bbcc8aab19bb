------------------------- MODULE PackageGraph_proofs -------------------------
(* Proofs about PackageGraph.  What planning takes for granted of the       *)
(* manifests is a hypothesis of the theorems that need it.                  *)
EXTENDS PackageGraph, FiniteSetTheorems, TLAPS

-----------------------------------------------------------------------------
(* The inductive invariant.                                                 *)

Names == MemberSet \cup {d.pkg : d \in Dependencies}
GitPins == UNION {{GitPin(r, c) : c \in 1..LastCommit[r]} : r \in Repos}
Roots == Names \X ({MemberPin} \cup GitPins)
Pins == Names \X ({MemberPin} \cup GitPins \cup {PathPin(r) : r \in Roots})
Labels == {Edge(d) : d \in Dependencies}
Frames == [node : Nat, root : Roots, todo : Seq(Dependencies)]

IsGraph(g) ==
  /\ g = [nodes |-> g.nodes, edges |-> g.edges]
  /\ Nodes(g) \subseteq Nat /\ IsFiniteSet(Nodes(g))
  /\ Edges(g) \subseteq Nodes(g) \X Nodes(g)
  /\ g.nodes \in [Nodes(g) -> Pins]
  /\ g.edges \in [Edges(g) -> Labels]

PinsApart(g) == \A n, m \in Nodes(g) : g.nodes[n] = g.nodes[m] => n = m

\* The directory of a package, as far as its pin tells it.
EntryOK(id, entry) ==
  /\ entry.manifest \in AllManifests
  /\ id[2] = MemberPin => id[1] \in MemberSet /\ entry.dir = id[1]
  /\ id[2][1] = "path" =>
       entry.dir \in Paths /\ \E d \in Dependencies : d.pkg = id[1] /\ d.at = entry.dir

IsMap(g, map) ==
  /\ \A n \in Nodes(g) : g.nodes[n] \in DOMAIN map
  /\ \A id \in DOMAIN map : \E n \in Nodes(g) : g.nodes[n] = id
  /\ \A id \in DOMAIN map : EntryOK(id, map[id])

SourcesApart(g, map) ==
  \A n, m \in Nodes(g) : PkgOf(g, map, n) = PkgOf(g, map, m) => n = m

EdgesMeant(g, map) ==
  \A e \in Edges(g) : \E d \in DepsOf(g, map, e[1]) : Meant(g, map, e, d)

Needed(g) == ReachFrom(g, MemberNodes(g)) = Nodes(g)

Pinnings(g, map) ==
  /\ IsGraph(g) /\ PinsApart(g)
  /\ IsMap(g, map) /\ SourcesApart(g, map) /\ EdgesMeant(g, map)

GraphInv(g, map) == Pinnings(g, map) /\ Needed(g)

\* The packages a traversal knows are those of the graph.
FetchedExact(g, map, fetched) ==
  /\ DOMAIN fetched = {PkgOf(g, map, n) : n \in Nodes(g)}
  /\ \A n \in Nodes(g) : fetched[PkgOf(g, map, n)] = n

StackInv(g, map, stack) ==
  /\ stack \in Seq(Frames)
  /\ stack # <<>> => Top(stack).todo # <<>>
  /\ \A i \in DOMAIN stack :
       /\ stack[i].node \in Nodes(g)
       /\ Range(stack[i].todo) \subseteq DepsOf(g, map, stack[i].node)

IsForc(p) ==
  /\ DOMAIN p = {"pc", "cmd", "locked", "mm", "read", "damaged", "graph", "map", "fetched",
                 "visited", "members", "stack", "build"}
  /\ p.pc \in {"idle", "fetch", "truncate", "fill", "planned"}
  /\ p.members \in Seq(MemberSet)

PlanInv(p) ==
  /\ IsForc(p)
  /\ GraphInv(p.graph, p.map)
  /\ StackInv(p.graph, p.map, p.stack)
  /\ p.pc = "fetch" => \A x \in MemberSet : p.mm[x] \in Manifests[x]
  /\ p.stack # <<>> => p.pc = "fetch" /\ FetchedExact(p.graph, p.map, p.fetched)

\* The packages of a lock are told apart by name and source.
LockInv ==
  /\ IsFiniteSet(ReadLock(lock))
  /\ \A p, q \in ReadLock(lock) : p.name = q.name /\ p.source = q.source => p = q

WorldInv ==
  /\ files \in [Places -> AllManifests]
  /\ \A x \in Places : files[x] \in Manifests[x]
  /\ heads \in [Repos -> Nat]
  /\ \A r \in Repos : heads[r] \in 1..LastCommit[r]

Inv ==
  /\ WorldInv /\ LockInv
  /\ DOMAIN forc = Forcs
  /\ \A f \in Forcs : PlanInv(forc[f])

\* Every dependency of n has its edge, but for those in rest.
ExpandedBut(g, map, n, rest) ==
  \A d \in DepsOf(g, map, n) \ rest : \E e \in OutOf(g, n) : Meant(g, map, e, d)

\* What is not expanded is being expanded, or is a member whose turn will come.
ExpandInv(p) ==
  /\ \A i \in DOMAIN p.stack :
       ExpandedBut(p.graph, p.map, p.stack[i].node, Range(p.stack[i].todo))
  /\ \A n \in Nodes(p.graph) :
       \/ ExpandedBut(p.graph, p.map, n, {})
       \/ \E i \in DOMAIN p.stack : p.stack[i].node = n
       \/ \E x \in Range(p.members) : p.graph.nodes[n] = Pinned(x, MemberPin)
  /\ p.visited \subseteq Nodes(p.graph)
  /\ p.pc \in {"truncate", "fill", "planned"} => p.stack = <<>> /\ p.members = <<>>

\* An edge has the kind of the package it leads to.
TypeAt(p, n) == p.map[p.graph.nodes[n]].manifest.type
KindInv(p) ==
  /\ \A e \in Edges(p.graph) : p.graph.edges[e].kind = TypeAt(p, e[2])
  /\ p.visited \subseteq Nodes(p.graph)
  /\ \A n \in p.visited : \E d \in Dependencies :
       PkgOf(p.graph, p.map, n) = <<d.pkg, d.at>> /\ d.kind = TypeAt(p, n)
  /\ p.build.compiled \subseteq Nodes(p.graph)
  /\ \A n \in p.build.compiled : TypeAt(p, n) = "library" => n \in p.build.libs
  /\ p.pc # "planned" => p.build = NoBuild

ExpandInvs == \A f \in Forcs : ExpandInv(forc[f])
KindInvs == \A f \in Forcs : KindInv(forc[f])
-----------------------------------------------------------------------------
(* Facts about numbers and finite sets.                                     *)

LEMMA LeastNatural ==
  ASSUME NEW T \in SUBSET Nat, T # {}
  PROVE  \E x \in T : \A y \in T : x <= y
<1>1. PICK x \in T : \A y \in T : ~(<<y, x>> \in OpToRel(<, Nat))
  BY NatLessThanWellFounded, WFMin, Zenon
<1>2. \A y \in T : ~(y < x)
  BY <1>1, Zenon DEF OpToRel
<1> QED
  BY <1>2

LEMMA GreatestNatural ==
  ASSUME NEW T \in SUBSET Nat, T # {}, NEW n \in Nat, \A y \in T : y <= n
  PROVE  /\ Max(T) \in T
         /\ \A y \in T : y <= Max(T)
<1> DEFINE B == {k \in Nat : \A y \in T : y <= k}
<1>1. PICK k \in B : \A j \in B : k <= j
  BY LeastNatural, Zenon
<1>2. k \in T
  <2> SUFFICES ASSUME k \notin T PROVE FALSE
    OBVIOUS
  <2>1. \A y \in T : y < k
    OBVIOUS
  <2>2. k > 0 /\ k - 1 \in Nat
    <3>1. PICK y \in T : TRUE
      BY Zenon
    <3>2. y \in Nat /\ k \in Nat /\ y < k
      BY <2>1
    <3> QED
      BY <3>2
  <2>3. k - 1 \in B
    BY <2>1, <2>2
  <2> QED
    BY <2>2, <2>3, <1>1
<1>3. \A y \in T : k >= y
  BY <1>1
<1> QED
  BY <1>2, <1>3, Zenon DEF Max

LEMMA SmallestSubset ==
  ASSUME NEW S, IsFiniteSet(S), NEW F \in SUBSET (SUBSET S), F # {}
  PROVE  \E A \in F : \A B \in F : B \subseteq A => B = A
<1>1. IsWellFoundedOn(StrictSubsetOrdering(S), FiniteSubsetsOf(S))
  BY FS_StrictSubsetOrderingWellFounded
<1>2. FiniteSubsetsOf(S) = SUBSET S
  BY FS_FiniteSubsetsOfFinite
<1>3. PICK A \in F : \A B \in F : ~(<<B, A>> \in StrictSubsetOrdering(S))
  BY <1>1, <1>2, WFMin
<1> QED
  BY <1>3, Zenon DEF StrictSubsetOrdering

\* Listed lists a finite set without repetition.
LEMMA ListedOnce ==
  ASSUME NEW S, IsFiniteSet(S)
  PROVE  /\ Listed(S) \in [1..Cardinality(S) -> S]
         /\ Cardinality(S) \in Nat
         /\ \A i, j \in 1..Cardinality(S) : Listed(S)[i] = Listed(S)[j] => i = j
         /\ \A x \in S : \E i \in 1..Cardinality(S) : Listed(S)[i] = x
<1> DEFINE n == Cardinality(S)
<1>1. n \in Nat /\ ExistsBijection(1..n, S)
  BY FS_CardinalityType
<1>2. PICK b : b \in Bijection(1..n, S)
  BY <1>1 DEF ExistsBijection
<1>3. b \in [1..n -> S] /\ IsInjective(b)
  BY <1>2 DEF Bijection, Injection
<1>4. Listed(S) \in [1..n -> S] /\ IsInjective(Listed(S))
  BY <1>3 DEF Listed
<1>5. Listed(S) \in Injection(1..n, S)
  BY <1>4 DEF Injection
<1>6. Cardinality(1..n) = Cardinality(S)
  BY <1>1, FS_Interval
<1>7. Listed(S) \in Surjection(1..n, S)
  BY <1>5, <1>6, FS_Injection
<1> QED
  BY <1>1, <1>4, <1>7, Zenon DEF IsInjective, Surjection

-----------------------------------------------------------------------------
(* Graphs.                                                                  *)

LEMMA ReachHolds ==
  ASSUME NEW g, NEW ns \in SUBSET Nodes(g)
  PROVE  ns \subseteq ReachFrom(g, ns) /\ ReachFrom(g, ns) \subseteq Nodes(g)
BY DEF ReachFrom

LEMMA ReachFollows ==
  ASSUME NEW g, NEW ns \in SUBSET Nodes(g),
         Edges(g) \subseteq Nodes(g) \X Nodes(g)
  PROVE  Follows(g, ReachFrom(g, ns))
BY DEF ReachFrom, Follows

LEMMA ReachLeast ==
  ASSUME NEW g, NEW ns, NEW S \in SUBSET Nodes(g), ns \subseteq S, Follows(g, S)
  PROVE  ReachFrom(g, ns) \subseteq S
BY DEF ReachFrom

\* What can be reached can be reached when nodes and edges are added.
LEMMA ReachGrows ==
  ASSUME NEW g, NEW h, Nodes(g) \subseteq Nodes(h), Edges(g) \subseteq Edges(h),
         Edges(g) \subseteq Nodes(g) \X Nodes(g),
         NEW ns \in SUBSET Nodes(g), NEW ms, ns \subseteq ms
  PROVE  ReachFrom(g, ns) \subseteq ReachFrom(h, ms)
<1> SUFFICES ASSUME NEW n \in ReachFrom(g, ns),
                    NEW S \in SUBSET Nodes(h), ms \subseteq S, Follows(h, S)
             PROVE  n \in S
  BY ReachHolds DEF ReachFrom
<1>1. Follows(g, S \cap Nodes(g))
  BY DEF Follows
<1> QED
  BY <1>1, ReachLeast

LEMMA FreshIsNew ==
  ASSUME NEW g, IsFiniteSet(Nodes(g)), Nodes(g) \subseteq Nat
  PROVE  FreshNode(g) \in Nat /\ FreshNode(g) \notin Nodes(g)
<1> DEFINE k == Cardinality(Nodes(g))
<1>1. k \in Nat
  BY FS_CardinalityType
<1>2. IsFiniteSet(1..(k + 1)) /\ Cardinality(1..(k + 1)) = k + 1
  BY <1>1, FS_Interval
<1>3. ~(1..(k + 1) \subseteq Nodes(g))
  <2> SUFFICES ASSUME 1..(k + 1) \subseteq Nodes(g) PROVE FALSE
    OBVIOUS
  <2>1. Cardinality(1..(k + 1)) <= k
    BY FS_Subset, Zenon
  <2> QED
    BY <1>1, <1>2, <2>1
<1>4. \E n \in 1..(k + 1) : n \notin Nodes(g)
  BY <1>3
<1> QED
  BY <1>1, <1>4 DEF FreshNode

\* The stack of a traversal ends at the last package that is not done.
LEMMA UnwindKeeps ==
  ASSUME NEW stack \in Seq(Frames)
  PROVE  /\ Unwind(stack) \in Seq(Frames)
         /\ \A i \in DOMAIN Unwind(stack) : i \in DOMAIN stack /\ Unwind(stack)[i] = stack[i]
         /\ \A i \in DOMAIN stack : i \notin DOMAIN Unwind(stack) => stack[i].todo = <<>>
         /\ Unwind(stack) # <<>> => Top(Unwind(stack)).todo # <<>>
<1> DEFINE open == {i \in DOMAIN stack : stack[i].todo # <<>>}
           k == IF open = {} THEN 0 ELSE Max(open)
<1>1. DOMAIN stack = 1..Len(stack) /\ Len(stack) \in Nat
  OBVIOUS
<1>2. k \in 0..Len(stack) /\ (k > 0 => stack[k].todo # <<>>) /\ \A i \in open : i <= k
  <2>1. CASE open = {}
    BY <1>1, <2>1
  <2>2. CASE open # {}
    <3>1. open \in SUBSET Nat /\ \A i \in open : i <= Len(stack)
      BY <1>1
    <3>2. Max(open) \in open /\ \A i \in open : i <= Max(open)
      BY <1>1, <2>2, <3>1, GreatestNatural, Zenon
    <3> QED
      BY <1>1, <2>2, <3>2
  <2> QED
    BY <2>1, <2>2, Zenon
<1>3. Unwind(stack) = SubSeq(stack, 1, k)
  BY DEF Unwind
<1> HIDE DEF k
<1>4. /\ SubSeq(stack, 1, k) \in Seq(Frames)
      /\ Len(SubSeq(stack, 1, k)) = k
      /\ \A i \in 1..k : SubSeq(stack, 1, k)[i] = stack[i]
  BY <1>1, <1>2
<1> QED
  BY <1>1, <1>2, <1>3, <1>4 DEF Top

-----------------------------------------------------------------------------
(* The beginning of a plan.                                                 *)

\* No node but those to keep stays when none of those has an edge any more.
LEMMA OrphansGone ==
  ASSUME NEW g, IsFiniteSet(Nodes(g)), Edges(g) \subseteq Nodes(g) \X Nodes(g), ~Cyclic(g),
         NEW h, Nodes(h) = Nodes(g), Edges(h) \subseteq Edges(g),
         NEW keep \in SUBSET Nodes(g), \A e \in Edges(h) : e[1] \notin keep
  PROVE  UNION {S \in SUBSET Nodes(h) : Parented(h, keep, S)} = keep
<1>1. Parented(h, keep, keep)
  BY DEF Parented
<1>2. ASSUME NEW S \in SUBSET Nodes(h), Parented(h, keep, S)
      PROVE  S \subseteq keep
  <2> DEFINE Q == S \ keep
             Anc(n) == {m \in Q : n \in ReachFrom(g, {m})}
             F == {Anc(n) : n \in Q}
  <2> SUFFICES ASSUME Q # {} PROVE FALSE
    BY SMTT(30)
  <2>1. IsFiniteSet(Q)
    BY FS_Subset, SMTT(30)
  <2>2. F \in SUBSET (SUBSET Q) /\ F # {}
    <3>1. \A n : Anc(n) \in SUBSET Q
      BY SMTT(30)
    <3> HIDE DEF Anc
    <3> QED
      BY <3>1, SMTT(30)
  <2>a. \A n \in Q : Anc(n) \in F
    BY SMTT(30)
  <2> HIDE DEF F
  <2>3. PICK A \in F : \A B \in F : B \subseteq A => B = A
    BY <2>1, <2>2, SmallestSubset, SMTT(30)
  <2>4. PICK n \in Q : A = Anc(n)
    BY <2>3, Zenon DEF F
  <2>5. PICK e \in Edges(g) : e[2] = n /\ e[1] \in Q
    BY <1>2, SMTT(30) DEF Parented, Into
  <2>6. Anc(e[1]) \subseteq Anc(n)
    <3> SUFFICES ASSUME NEW m \in Q, e[1] \in ReachFrom(g, {m})
                 PROVE  n \in ReachFrom(g, {m})
      BY SMTT(30)
    <3>1. Follows(g, ReachFrom(g, {m}))
      BY ReachFollows, SMTT(30)
    <3> QED
      BY <2>5, <3>1, Zenon DEF Follows
  <2>7. Anc(e[1]) = Anc(n)
    <3> HIDE DEF Anc, Q
    <3> QED
      BY <2>3, <2>4, <2>5, <2>6, <2>a, SMTT(30)
  <2>8. n \in ReachFrom(g, {n})
    BY ReachHolds, SMTT(30)
  <2>9. e[1] \in ReachFrom(g, {n})
    BY <2>7, <2>8, SMTT(30)
  <2> QED
    BY <2>5, <2>9, Zenon DEF Cyclic
<1> QED
  BY <1>1, <1>2, SMTT(30)

\* No edge validates: no member's manifest names the member itself.
LEMMA NoEdgeValid ==
  ASSUME NEW g, NEW e, NEW mm, DOMAIN mm = MemberSet,
         \A x \in MemberSet : mm[x] \in Manifests[x]
  PROVE  ~EdgeValid(g, e, mm)
BY ManifestsAssumption, PlacesAssumption, SMTT(30) DEF EdgeValid, ValidManifest, Places

\* A lock whose packages are told apart gives a graph whose pins are.
LEMMA LockedGraph ==
  ASSUME NEW l, IsFiniteSet(l),
         \A p, q \in l : p.name = q.name /\ p.source = q.source => p = q
  PROVE  LET g == ToGraph(l) IN
         /\ g = [nodes |-> g.nodes, edges |-> g.edges]
         /\ Nodes(g) \subseteq Nat /\ IsFiniteSet(Nodes(g))
         /\ Edges(g) \subseteq Nodes(g) \X Nodes(g)
         /\ PinsApart(g)
         /\ \A n \in Nodes(g) : g.nodes[n] = <<g.nodes[n][1], g.nodes[n][2]>>
<1> DEFINE ambiguous == Ambiguous([p \in l |-> p.name])
           ps == Listed(l)
           k == Cardinality(l)
           Key(p) == PkgKey(p.name, p.source, ambiguous)
           NodeOf(key) == CHOOSE n \in DOMAIN ps : Key(ps[n]) = key
           lines == UNION {{<<n, d>> : d \in ps[n].deps} : n \in DOMAIN ps}
           known == \A x \in lines : \E n \in DOMAIN ps : Key(ps[n]) = x[2].key
           EdgeOf(x) == <<x[1], NodeOf(x[2].key)>>
<1>1. /\ k \in Nat /\ ps \in [1..k -> l]
      /\ \A i, j \in 1..k : ps[i] = ps[j] => i = j
  BY ListedOnce, Zenon
<1>2. IsFiniteSet(1..k)
  BY <1>1, FS_Interval, SMTT(30)
<1>3. CASE ~known
  <2>1. ToGraph(l) = NoGraph
    BY <1>3, Zenon DEF ToGraph
  <2> QED
    BY <2>1, FS_EmptySet, SMTT(30) DEF NoGraph, Nodes, Edges, PinsApart
<1>4. CASE known
  <2> DEFINE nodes == [n \in DOMAIN ps |-> Pinned(ps[n].name, ps[n].source)]
  <2>1. /\ ToGraph(l) = [nodes |-> ToGraph(l).nodes, edges |-> ToGraph(l).edges]
        /\ ToGraph(l).nodes = nodes
        /\ DOMAIN ToGraph(l).edges = {EdgeOf(x) : x \in lines}
    BY <1>4, Zenon DEF ToGraph
  <2>2. \A x \in lines : EdgeOf(x) \in (DOMAIN ps) \X (DOMAIN ps)
    <3> SUFFICES ASSUME NEW x \in lines PROVE EdgeOf(x) \in (DOMAIN ps) \X (DOMAIN ps)
      BY Zenon
    <3>1. x[1] \in DOMAIN ps
      <4> HIDE DEF ps
      <4> QED
        BY SMTT(30)
    <3>2. \E n \in DOMAIN ps : Key(ps[n]) = x[2].key
      BY <1>4, Zenon
    <3> HIDE DEF Key, ps, lines
    <3>3. NodeOf(x[2].key) \in DOMAIN ps
      BY <3>2, SMTT(30)
    <3> HIDE DEF NodeOf
    <3> QED
      BY <3>1, <3>3, SMTT(30)
  <2> HIDE DEF ambiguous, ps, k, lines, known, EdgeOf
  <2>3. \A n, m \in DOMAIN ps : nodes[n] = nodes[m] => n = m
    BY <1>1, SMTT(30) DEF Pinned
  <2>4. /\ Nodes(ToGraph(l)) = 1..k
        /\ \A n \in 1..k : ToGraph(l).nodes[n] = <<ps[n].name, ps[n].source>>
    BY <1>1, <2>1, SMTT(30) DEF Nodes, Pinned
  <2>5. Edges(ToGraph(l)) \subseteq (1..k) \X (1..k)
    BY <1>1, <2>1, <2>2, SMTT(30) DEF Edges
  <2>6. PinsApart(ToGraph(l))
    BY <1>1, <2>1, <2>3, <2>4, SMTT(30) DEF PinsApart
  <2>7. \A n \in 1..k : ToGraph(l).nodes[n]
                          = <<ToGraph(l).nodes[n][1], ToGraph(l).nodes[n][2]>>
    BY <2>4, SMTT(30)
  <2>8. ToGraph(l) = [nodes |-> ToGraph(l).nodes, edges |-> ToGraph(l).edges]
    BY <2>1, Zenon
  <2>9. 1..k \subseteq Nat
    BY <1>1, SMTT(30)
  <2> QED
    BY <1>2, <2>4, <2>5, <2>6, <2>7, <2>8, <2>9, Zenon
<1> QED
  BY <1>3, <1>4, Zenon

\* A member has at most one node, and find_proj_node finds it.
LEMMA OneProjNode ==
  ASSUME NEW g, IsFiniteSet(Nodes(g)), PinsApart(g),
         \A n \in Nodes(g) : g.nodes[n] = <<g.nodes[n][1], g.nodes[n][2]>>,
         NEW x
  PROVE  /\ HasProjNode(g, x) <=> \E n \in Nodes(g) : g.nodes[n] = Pinned(x, MemberPin)
         /\ HasProjNode(g, x) => /\ ProjNode(g, x) \in Nodes(g)
                                 /\ g.nodes[ProjNode(g, x)] = Pinned(x, MemberPin)
<1> DEFINE P == ProjNodes(g, x)
<1>1. P = {n \in Nodes(g) : g.nodes[n] = Pinned(x, MemberPin)}
  BY SMTT(30) DEF ProjNodes, MemberNodes, Pinned
<1>2. IsFiniteSet(P)
  BY <1>1, FS_Subset, Zenon
<1>3. Cardinality(P) = 1 <=> \E n : P = {n}
  BY <1>2, FS_Singleton, Zenon
<1>4. \A n, m \in P : n = m
  BY <1>1, Zenon DEF PinsApart
<1>5. Cardinality(P) = 1 <=> P # {}
  BY <1>3, <1>4, Zenon
<1>6. P # {} => ProjNode(g, x) \in P
  BY Zenon DEF ProjNode
<1> QED
  BY <1>1, <1>5, <1>6, Zenon DEF HasProjNode

\* A graph of members and no edges, with the manifests of the members.
LEMMA MembersOnly ==
  ASSUME NEW g, g = [nodes |-> g.nodes, edges |-> g.edges],
         Nodes(g) \subseteq Nat, IsFiniteSet(Nodes(g)), PinsApart(g),
         g.nodes \in [Nodes(g) -> {Pinned(x, MemberPin) : x \in MemberSet}],
         Edges(g) = {}, g.edges \in [{} -> Labels],
         NEW mm, DOMAIN mm = MemberSet, \A x \in MemberSet : mm[x] \in Manifests[x]
  PROVE  GraphInv(g, ManifestMap(g, mm))
<1> DEFINE map == ManifestMap(g, mm)
<1>1. \A n \in Nodes(g) : \E x \in MemberSet : g.nodes[n] = Pinned(x, MemberPin)
  BY SMTT(30)
<1>2. \A n \in Nodes(g) : g.nodes[n] = <<g.nodes[n][1], g.nodes[n][2]>>
  BY <1>1, SMTT(30) DEF Pinned
<1>3. \A x \in MemberSet :
        HasProjNode(g, x) <=> \E n \in Nodes(g) : g.nodes[n] = Pinned(x, MemberPin)
  BY <1>2, OneProjNode, Zenon
<1>4. DOMAIN map = {g.nodes[n] : n \in Nodes(g)}
  BY <1>1, <1>3, SMTT(30) DEF ManifestMap
<1>5. \A n \in Nodes(g) : /\ g.nodes[n][2] = MemberPin
                          /\ g.nodes[n][1] \in MemberSet
                          /\ map[g.nodes[n]].manifest = mm[g.nodes[n][1]]
                          /\ map[g.nodes[n]].dir = g.nodes[n][1]
  BY <1>1, <1>4, SMTT(30) DEF ManifestMap, Pinned
<1>6. \A x \in MemberSet : mm[x] \in AllManifests
  BY SMTT(30) DEF AllManifests, Places
<1>7. MemberPin[1] = "member"
  BY Zenon DEF MemberPin
<1>8. IsGraph(g)
  BY SMTT(30) DEF IsGraph, Pins, Names, Pinned
<1> HIDE DEF map
<1>9. IsMap(g, map)
  BY <1>4, <1>5, <1>6, <1>7, SMTT(30) DEF IsMap, EntryOK
<1>10. SourcesApart(g, map)
  BY <1>2, <1>5, <1>7, SMTT(30) DEF SourcesApart, PkgOf, Unpinned, PinsApart
<1>11. EdgesMeant(g, map)
  BY SMTT(30) DEF EdgesMeant
<1>12. Needed(g)
  <2>1. MemberNodes(g) = Nodes(g)
    BY <1>5, Zenon DEF MemberNodes
  <2> QED
    BY <2>1, ReachHolds, Zenon DEF Needed
<1> QED
  BY <1>8, <1>9, <1>10, <1>11, <1>12, Zenon DEF GraphInv, Pinnings, map

\* Whatever the lock holds, what is left of it are members and no edges.
LEMMA PlanStarts ==
  ASSUME NEW l, IsFiniteSet(l),
         \A p, q \in l : p.name = q.name /\ p.source = q.source => p = q,
         NEW mm, DOMAIN mm = MemberSet, \A x \in MemberSet : mm[x] \in Manifests[x]
  PROVE  LET g == RemoveDeps(ToGraph(l), MemberSet, InvalidEdges(ToGraph(l), mm)) IN
         /\ GraphInv(g, ManifestMap(g, mm))
         /\ Edges(g) = {}
         /\ \A n \in Nodes(g) : \E x \in MemberSet : g.nodes[n] = Pinned(x, MemberPin)
<1> DEFINE t == ToGraph(l)
           es == InvalidEdges(t, mm)
           g == RemoveDeps(t, MemberSet, es)
           keep == {n \in MemberNodes(t) : t.nodes[n][1] \in MemberSet}
           h == Without(t, {}, es)
<1>1. /\ t = [nodes |-> t.nodes, edges |-> t.edges]
      /\ Nodes(t) \subseteq Nat /\ IsFiniteSet(Nodes(t))
      /\ Edges(t) \subseteq Nodes(t) \X Nodes(t)
      /\ PinsApart(t)
      /\ \A n \in Nodes(t) : t.nodes[n] = <<t.nodes[n][1], t.nodes[n][2]>>
  BY LockedGraph, Zenon
<1> SUFFICES /\ g = [nodes |-> g.nodes, edges |-> g.edges]
             /\ Nodes(g) \subseteq Nat /\ IsFiniteSet(Nodes(g)) /\ PinsApart(g)
             /\ g.nodes \in [Nodes(g) -> {Pinned(x, MemberPin) : x \in MemberSet}]
             /\ Edges(g) = {} /\ g.edges \in [{} -> Labels]
  BY MembersOnly, SMTT(30)
<1> HIDE DEF t, es
<1>2. CASE Cyclic(t)
  <2>1. g = NoGraph
    BY <1>2, SMTT(30) DEF RemoveDeps
  <2> QED
    BY <2>1, FS_EmptySet, SMTT(30) DEF NoGraph, Nodes, Edges, PinsApart
<1>3. CASE ~Cyclic(t)
  <2>1. \A e \in Edges(t) : e[1] \in keep => e \in es
    <3> SUFFICES ASSUME NEW e \in Edges(t), e[1] \in keep PROVE e \in es
      BY Zenon
    <3> DEFINE valid == [t EXCEPT !.edges = [d \in {f \in Edges(t) : EdgeValid(t, f, mm)} |->
                                               t.edges[d]]]
    <3>1. Nodes(valid) = Nodes(t)
      BY <1>1, SMTT(30) DEF Nodes
    <3>2. keep \subseteq Nodes(t)
      BY Zenon DEF MemberNodes
    <3>3. keep \subseteq ReachFrom(valid, keep)
      <4> HIDE DEF valid, keep
      <4> QED
        BY <3>1, <3>2, ReachHolds, SMTT(30)
    <3>4. ValidatedFrom(t, keep, mm) = ReachFrom(valid, keep)
      BY SMTT(30) DEF ValidatedFrom
    <3>5. es = {d \in Edges(t) : d[1] \in ValidatedFrom(t, keep, mm) /\ ~EdgeValid(t, d, mm)}
      BY Zenon DEF es, InvalidEdges
    <3> QED
      BY <3>3, <3>4, <3>5, NoEdgeValid, Zenon
  <2>2. /\ Nodes(h) = Nodes(t)
        /\ Edges(h) = Edges(t) \ es
        /\ h.nodes = [n \in Nodes(t) |-> t.nodes[n]]
    BY Zenon DEF Without, Nodes, Edges
  <2>3. keep \in SUBSET Nodes(t)
    BY Zenon DEF MemberNodes
  <2> HIDE DEF h, keep
  <2>4. UNION {S \in SUBSET Nodes(h) : Parented(h, keep, S)} = keep
    <3>1. \A e \in Edges(h) : e[1] \notin keep
      BY <2>1, <2>2, Zenon
    <3>2. Edges(h) \subseteq Edges(t)
      BY <2>2, Zenon
    <3> QED
      BY <1>1, <1>3, <2>2, <2>3, <3>1, <3>2, OrphansGone, Zenon
  <2>5. g = Without(h, Nodes(h) \ keep, {})
    BY <1>3, <2>4, Zenon DEF RemoveDeps, RemoveOrphans, h, keep
  <2>6. /\ g = [nodes |-> g.nodes, edges |-> g.edges]
        /\ g.nodes = [n \in keep |-> t.nodes[n]]
        /\ g.edges = [e \in {f \in Edges(h) \ {} : {f[1], f[2]} \cap (Nodes(h) \ keep) = {}} |->
                        h.edges[e]]
    BY <2>2, <2>3, <2>5, SMTT(30) DEF Without, Nodes
  <2>7. Edges(g) = {} /\ g.edges \in [{} -> Labels]
    <3>1. {f \in Edges(h) \ {} : {f[1], f[2]} \cap (Nodes(h) \ keep) = {}} = {}
      BY <1>1, <2>1, <2>2, SMTT(30)
    <3> QED
      BY <2>6, <3>1, Zenon DEF Edges
  <2>8. \A n \in keep : \E x \in MemberSet : t.nodes[n] = Pinned(x, MemberPin)
    BY <1>1, <2>3, Zenon DEF keep, MemberNodes, Pinned
  <2>9. IsFiniteSet(keep)
    BY <1>1, <2>3, FS_Subset, Zenon
  <2> QED
    <3> HIDE DEF g
    <3>1. Nodes(g) = keep
      BY <2>6, Zenon DEF Nodes
    <3>2. PinsApart(g)
      BY <1>1, <2>3, <2>6, <3>1, SMTT(30) DEF PinsApart
    <3>3. g.nodes \in [Nodes(g) -> {Pinned(x, MemberPin) : x \in MemberSet}]
      BY <2>6, <2>8, <3>1, SMTT(30)
    <3> QED
      BY <1>1, <2>3, <2>6, <2>7, <2>9, <3>1, <3>2, <3>3, Zenon
<1> QED
  BY <1>2, <1>3, Zenon

-----------------------------------------------------------------------------
(* A graph grows.                                                           *)

\* What g and map say of a package, h and map2 say of it.
Grown(g, map, h, map2) ==
  /\ Nodes(g) \subseteq Nodes(h)
  /\ \A n \in Nodes(g) : h.nodes[n] = g.nodes[n] /\ map2[g.nodes[n]] = map[g.nodes[n]]

LEMMA GrownKeeps ==
  ASSUME NEW g, NEW map, NEW h, NEW map2, Grown(g, map, h, map2), NEW n \in Nodes(g)
  PROVE  /\ PkgOf(h, map2, n) = PkgOf(g, map, n)
         /\ DepsOf(h, map2, n) = DepsOf(g, map, n)
BY Zenon DEF Grown, PkgOf, DepsOf

LEMMA DepsAreDependencies ==
  ASSUME NEW g, NEW map, IsMap(g, map), NEW n \in Nodes(g)
  PROVE  /\ DepsOf(g, map, n) \subseteq Dependencies
         /\ map[g.nodes[n]].manifest \in AllManifests
         /\ map[g.nodes[n]].manifest.deps \in Seq(Dependencies)
<1>1. map[g.nodes[n]].manifest \in AllManifests
  BY Zenon DEF IsMap, EntryOK
<1>2. map[g.nodes[n]].manifest.deps \in Seq(Dependencies)
  BY <1>1, PlacesAssumption, Zenon
<1>3. DepsOf(g, map, n) \subseteq Dependencies
  BY <1>2, SMTT(30) DEF DepsOf, Range
<1> QED
  BY <1>1, <1>2, <1>3, Zenon

\* Graph h and map2 are g and map with a node n for a package and its entry.
NodeAdded(g, map, pin, entry, n, h, map2) ==
  /\ n \in Nat /\ n \notin Nodes(g)
  /\ Nodes(h) = Nodes(g) \cup {n} /\ h.nodes[n] = pin
  /\ h.edges = g.edges
  /\ PkgOf(h, map2, n) = Unpinned(pin, entry.dir)
  /\ Grown(g, map, h, map2)
  /\ Pinnings(h, map2)

\* A package that is not there yet.
LEMMA AddPackage ==
  ASSUME NEW g, NEW map, Pinnings(g, map),
         NEW pin \in Pins, pin \notin DOMAIN map,
         NEW entry, EntryOK(pin, entry),
         \A m \in Nodes(g) : PkgOf(g, map, m) # Unpinned(pin, entry.dir)
  PROVE  NodeAdded(g, map, pin, entry, FreshNode(g), AddNode(g, pin), Put(map, pin, entry))
<1> DEFINE n == FreshNode(g)
           h == AddNode(g, pin)
           map2 == Put(map, pin, entry)
<1> USE DEF Pinnings
<1>1. n \in Nat /\ n \notin Nodes(g)
  BY FreshIsNew, Zenon DEF IsGraph
<1>2. /\ h = [nodes |-> Put(g.nodes, n, pin), edges |-> g.edges]
  BY SMTT(30) DEF AddNode, IsGraph
<1> HIDE DEF n, h
<1>3. /\ Nodes(h) = Nodes(g) \cup {n}
      /\ h.edges = g.edges /\ Edges(h) = Edges(g)
      /\ h.nodes[n] = pin
      /\ \A m \in Nodes(g) : h.nodes[m] = g.nodes[m]
      /\ h.nodes \in [Nodes(g) \cup {n} -> Pins]
  BY <1>1, <1>2, Zenon DEF Put, Nodes, Edges, IsGraph
<1>4. /\ DOMAIN map2 = DOMAIN map \cup {pin}
      /\ map2[pin] = entry
      /\ \A id \in DOMAIN map : map2[id] = map[id]
  BY Zenon DEF Put
<1> HIDE DEF map2
<1>5. Grown(g, map, h, map2)
  BY <1>3, <1>4, Zenon DEF Grown, IsMap
<1>6. PkgOf(h, map2, n) = Unpinned(pin, entry.dir)
  BY <1>3, <1>4, Zenon DEF PkgOf
<1>7. IsGraph(h)
  <2>1. IsFiniteSet(Nodes(h))
    BY <1>3, FS_AddElement, SMTT(30) DEF IsGraph
  <2>2. h = [nodes |-> h.nodes, edges |-> h.edges]
    BY <1>2, Zenon
  <2>3. Nodes(h) \subseteq Nat /\ Edges(h) \subseteq Nodes(h) \X Nodes(h)
    BY <1>1, <1>3, SMTT(30) DEF IsGraph
  <2>4. h.edges \in [Edges(h) -> Labels]
    BY <1>3, Zenon DEF IsGraph
  <2> QED
    BY <1>3, <2>1, <2>2, <2>3, <2>4, Zenon DEF IsGraph
<1>8. PinsApart(h)
  BY <1>3, Zenon DEF PinsApart, IsMap
<1>9. IsMap(h, map2)
  BY <1>3, <1>4, SMTT(30) DEF IsMap
<1>10. SourcesApart(h, map2)
  BY <1>3, <1>5, <1>6, GrownKeeps, SMTT(30) DEF SourcesApart
<1>11. EdgesMeant(h, map2)
  <2> SUFFICES ASSUME NEW e \in Edges(g)
               PROVE  \E d \in DepsOf(h, map2, e[1]) : Meant(h, map2, e, d)
    BY <1>3, Zenon DEF EdgesMeant
  <2>1. e[1] \in Nodes(g) /\ e[2] \in Nodes(g)
    BY Zenon DEF IsGraph
  <2> QED
    BY <1>3, <1>5, <2>1, GrownKeeps, SMTT(30) DEF EdgesMeant, Meant
<1> QED
  BY <1>1, <1>3, <1>4, <1>5, <1>6, <1>7, <1>8, <1>9, <1>10, <1>11, Zenon DEF n, h, map2, NodeAdded

\* The edge of a dependency.
LEMMA AddDependency ==
  ASSUME NEW g, NEW map, Pinnings(g, map),
         NEW n \in Nodes(g), NEW m \in Nodes(g),
         NEW d \in DepsOf(g, map, n), PkgOf(g, map, m) = <<d.pkg, d.at>>
  PROVE  LET h == UpdateEdge(g, n, m, Edge(d)) IN
         /\ h.nodes = g.nodes /\ Nodes(h) = Nodes(g)
         /\ Edges(h) = Edges(g) \cup {<<n, m>>}
         /\ h.edges[<<n, m>>] = Edge(d)
         /\ \A e \in Edges(g) : e # <<n, m>> => h.edges[e] = g.edges[e]
         /\ Pinnings(h, map)
<1> DEFINE h == UpdateEdge(g, n, m, Edge(d))
<1> USE DEF Pinnings
<1>1. h = [nodes |-> g.nodes, edges |-> Put(g.edges, <<n, m>>, Edge(d))]
  BY SMTT(30) DEF UpdateEdge, IsGraph
<1> HIDE DEF h
<1>2. Edge(d) \in Labels
  BY DepsAreDependencies, Zenon DEF Labels
<1>3. /\ h.nodes = g.nodes /\ Nodes(h) = Nodes(g)
      /\ Edges(h) = Edges(g) \cup {<<n, m>>}
      /\ h.edges[<<n, m>>] = Edge(d)
      /\ \A e \in Edges(g) : e # <<n, m>> => h.edges[e] = g.edges[e]
      /\ h.edges \in [Edges(g) \cup {<<n, m>>} -> Labels]
  BY <1>1, <1>2, Zenon DEF Put, Nodes, Edges, IsGraph
<1>4. IsGraph(h)
  <2>1. h = [nodes |-> h.nodes, edges |-> h.edges]
    BY <1>1, Zenon
  <2>2. Edges(h) \subseteq Nodes(h) \X Nodes(h)
    BY <1>3, SMTT(30) DEF IsGraph
  <2> QED
    BY <1>3, <2>1, <2>2, Zenon DEF IsGraph
<1>5. PinsApart(h) /\ IsMap(h, map)
  BY <1>3, Zenon DEF PinsApart, IsMap
<1>6. \A x \in Nodes(g) : PkgOf(h, map, x) = PkgOf(g, map, x) /\ DepsOf(h, map, x) = DepsOf(g, map, x)
  BY <1>3, Zenon DEF PkgOf, DepsOf
<1>7. SourcesApart(h, map)
  BY <1>3, <1>6, Zenon DEF SourcesApart
<1>8. EdgesMeant(h, map)
  <2> SUFFICES ASSUME NEW e \in Edges(h)
               PROVE  \E x \in DepsOf(h, map, e[1]) : Meant(h, map, e, x)
    BY Zenon DEF EdgesMeant
  <2>1. CASE e = <<n, m>>
    BY <1>3, <1>6, <2>1, Zenon DEF Meant
  <2>2. CASE e # <<n, m>>
    <3>1. e \in Edges(g) /\ e[1] \in Nodes(g) /\ e[2] \in Nodes(g)
      BY <1>3, <2>2, Zenon DEF IsGraph
    <3> QED
      BY <1>3, <1>6, <2>2, <3>1, SMTT(30) DEF EdgesMeant, Meant
  <2> QED
    BY <2>1, <2>2, Zenon
<1> QED
  BY <1>3, <1>4, <1>5, <1>7, <1>8, Zenon DEF h

\* What is needed stays needed, and a new package is when a needed one needs it.
LEMMA StillNeeded ==
  ASSUME NEW g, NEW map, NEW h, NEW map2, IsGraph(g), IsGraph(h),
         Grown(g, map, h, map2), Edges(g) \subseteq Edges(h), Needed(g),
         \A n \in Nodes(h) : \/ n \in Nodes(g) \/ n \in MemberNodes(h)
                             \/ \E m \in Nodes(g) : <<m, n>> \in Edges(h)
  PROVE  Needed(h)
<1> DEFINE R == ReachFrom(h, MemberNodes(h))
<1>1. MemberNodes(g) \subseteq MemberNodes(h)
  BY Zenon DEF Grown, MemberNodes
<1>2. MemberNodes(g) \in SUBSET Nodes(g) /\ MemberNodes(h) \in SUBSET Nodes(h)
  BY Zenon DEF MemberNodes
<1>3. Nodes(g) \subseteq R
  BY <1>1, <1>2, ReachGrows, SMTT(30) DEF Needed, IsGraph, Grown
<1>4. MemberNodes(h) \subseteq R /\ R \subseteq Nodes(h)
  BY <1>2, ReachHolds, Zenon
<1>5. Follows(h, R)
  BY <1>2, ReachFollows, Zenon DEF IsGraph
<1> HIDE DEF R
<1>6. \A n \in Nodes(h) : n \in R
  BY <1>3, <1>4, <1>5, Zenon DEF Follows
<1> QED
  BY <1>4, <1>6, Zenon DEF Needed, R

SameBut(p, q, fields) ==
  DOMAIN q = DOMAIN p /\ \A k \in DOMAIN p \ fields : q[k] = p[k]

\* The node of a member, added or found.
LEMMA MemberAdded ==
  ASSUME NEW p, IsForc(p), GraphInv(p.graph, p.map),
         NEW x \in MemberSet, p.mm[x] \in Manifests[x]
  PROVE  LET q == WithMember(p, x)
             n == ProjNode(q.graph, x) IN
         /\ SameBut(p, q, {"graph", "map"})
         /\ GraphInv(q.graph, q.map)
         /\ Grown(p.graph, p.map, q.graph, q.map)
         /\ q.graph.edges = p.graph.edges
         /\ n \in Nodes(q.graph) /\ q.graph.nodes[n] = Pinned(x, MemberPin)
         /\ Nodes(q.graph) = Nodes(p.graph) \cup {n}
<1> DEFINE g == p.graph
           pin == Pinned(x, MemberPin)
           entry == [manifest |-> p.mm[x], dir |-> x]
           h == AddNode(g, pin)
           map2 == Put(p.map, pin, entry)
<1>a. IsFiniteSet(Nodes(g)) /\ PinsApart(g) /\ IsMap(g, p.map) /\ Pinnings(g, p.map)
  BY Zenon DEF GraphInv, Pinnings, IsGraph
<1>b. \A n \in Nodes(g) : g.nodes[n] = <<g.nodes[n][1], g.nodes[n][2]>>
  BY SMTT(30) DEF GraphInv, Pinnings, IsGraph, Pins
<1>1. CASE HasProjNode(g, x)
  <2>1. WithMember(p, x) = p
    BY <1>1, SMTT(30) DEF WithMember
  <2>2. ProjNode(g, x) \in Nodes(g) /\ g.nodes[ProjNode(g, x)] = pin
    BY <1>1, <1>a, <1>b, OneProjNode, Zenon
  <2> QED
    BY <2>1, <2>2, Zenon DEF Grown, SameBut
<1>2. CASE ~HasProjNode(g, x)
  <2>1. \A n \in Nodes(g) : g.nodes[n] # pin
    BY <1>2, <1>a, <1>b, OneProjNode, Zenon
  <2>2. pin \notin DOMAIN p.map
    BY <1>a, <2>1, Zenon DEF IsMap
  <2>3. pin \in Pins
    BY Zenon DEF Pins, Names, Pinned
  <2>4. EntryOK(pin, entry)
    BY Zenon DEF EntryOK, Pinned, MemberPin, AllManifests, Places
  <2>5. \A n \in Nodes(g) : PkgOf(g, p.map, n) # Unpinned(pin, entry.dir)
    <3> SUFFICES ASSUME NEW n \in Nodes(g), PkgOf(g, p.map, n) = <<x, x>> PROVE FALSE
      BY Zenon DEF Unpinned, Pinned, MemberPin
    <3>1. EntryOK(g.nodes[n], p.map[g.nodes[n]]) /\ g.nodes[n] \in Pins
      BY <1>a, Zenon DEF IsMap, Pinnings, IsGraph
    <3>2. \/ g.nodes[n][2] = MemberPin
          \/ g.nodes[n][2][1] = "path"
          \/ g.nodes[n][2][1] = "git" /\ g.nodes[n][2][2] \in Repos
      BY <3>1, SMTT(30) DEF Pins, PathPin, GitPins, GitPin
    <3>3. CASE g.nodes[n][2] = MemberPin
      BY <1>b, <2>1, <3>3, Zenon DEF PkgOf, Unpinned, MemberPin, Pinned
    <3>4. CASE g.nodes[n][2][1] = "path"
      BY <3>1, <3>4, PlacesAssumption, SMTT(30) DEF PkgOf, Unpinned, EntryOK
    <3>5. CASE g.nodes[n][2][1] = "git" /\ g.nodes[n][2][2] \in Repos
      BY <3>5, PlacesAssumption, SMTT(30) DEF PkgOf, Unpinned, Places
    <3> QED
      BY <3>2, <3>3, <3>4, <3>5, Zenon
  <2>6. /\ Nodes(h) = Nodes(g) \cup {FreshNode(g)} /\ h.nodes[FreshNode(g)] = pin
        /\ h.edges = g.edges
        /\ Grown(g, p.map, h, map2)
        /\ Pinnings(h, map2)
    <3> HIDE DEF pin, entry, g
    <3>1. NodeAdded(g, p.map, pin, entry, FreshNode(g), h, map2)
      BY <1>a, <2>2, <2>3, <2>4, <2>5, AddPackage, Zenon
    <3> QED
      BY <3>1, Zenon DEF NodeAdded
  <2>7. WithMember(p, x) = [p EXCEPT !.graph = h, !.map = map2]
    BY <1>2, SMTT(30) DEF WithMember
  <2>8. /\ WithMember(p, x).graph = h /\ WithMember(p, x).map = map2
        /\ SameBut(p, WithMember(p, x), {"graph", "map"})
    <3> HIDE DEF h, map2
    <3> QED
      BY <2>7, Zenon DEF IsForc, SameBut
  <2> HIDE DEF h, map2
  <2>9. ProjNode(h, x) = FreshNode(g)
    <3>1. IsFiniteSet(Nodes(h)) /\ PinsApart(h)
      BY <2>6, Zenon DEF Pinnings, IsGraph
    <3>2. \A n \in Nodes(h) : h.nodes[n] = <<h.nodes[n][1], h.nodes[n][2]>>
      BY <2>6, SMTT(30) DEF Pinnings, IsGraph, Pins
    <3>3. ProjNode(h, x) \in Nodes(h) /\ h.nodes[ProjNode(h, x)] = pin
      BY <2>6, <3>1, <3>2, OneProjNode, Zenon
    <3> QED
      BY <2>6, <3>1, <3>3, Zenon DEF PinsApart
  <2>10. Needed(h)
    <3>1. FreshNode(g) \in MemberNodes(h)
      BY <2>6, SMTT(30) DEF MemberNodes, Pinned
    <3>2. IsGraph(g) /\ IsGraph(h) /\ Needed(g) /\ Edges(h) = Edges(g)
      BY <1>a, <2>6, Zenon DEF Pinnings, GraphInv, Edges
    <3> QED
      BY <2>6, <3>1, <3>2, StillNeeded, Zenon
  <2> QED
    BY <2>6, <2>8, <2>9, <2>10, Zenon DEF GraphInv
<1> QED
  BY <1>1, <1>2, Zenon

\* A pin that is taken was taken for the same package.
LEMMA PinIsNew ==
  ASSUME OneDirectoryPerName, NEW g, NEW map, Pinnings(g, map),
         NEW d \in Dependencies, NEW root,
         \A n \in Nodes(g) : PkgOf(g, map, n) # <<d.pkg, d.at>>
  PROVE  Pinned(d.pkg, PinOf(d.at, root)) \notin DOMAIN map
<1> DEFINE pin == Pinned(d.pkg, PinOf(d.at, root))
<1> SUFFICES ASSUME NEW n \in Nodes(g), g.nodes[n] = pin, EntryOK(pin, map[pin]),
                    PkgOf(g, map, n) # <<d.pkg, d.at>>
             PROVE  FALSE
  BY Zenon DEF Pinnings, IsMap
<1>1. d.at \in MemberSet \/ d.at \in Paths \/ d.at \in Repos
  BY PlacesAssumption, Zenon DEF Places
<1>2. CASE d.at \in MemberSet
  <2>1. pin = <<d.pkg, MemberPin>>
    BY <1>2, Zenon DEF PinOf, Pinned
  <2>2. map[pin].dir = d.pkg /\ d.pkg = d.at
    BY <1>2, <2>1, SMTT(30) DEF EntryOK, OneDirectoryPerName
  <2> QED
    BY <2>1, <2>2, SMTT(30) DEF PkgOf, Unpinned, MemberPin
<1>3. CASE d.at \in Paths
  <2>1. pin = <<d.pkg, PathPin(root)>>
    BY <1>3, PlacesAssumption, Zenon DEF PinOf, Pinned
  <2>2. PICK d2 \in Dependencies : d2.pkg = d.pkg /\ d2.at = map[pin].dir /\ d2.at \in Paths
    BY <2>1, SMTT(30) DEF EntryOK, PathPin
  <2>3. map[pin].dir = d.at
    BY <1>3, <2>2, Zenon DEF OneDirectoryPerName, Places
  <2> QED
    BY <2>1, <2>3, SMTT(30) DEF PkgOf, Unpinned, PathPin
<1>4. CASE d.at \in Repos
  <2>1. pin = <<d.pkg, GitPin(d.at, heads[d.at])>>
    BY <1>4, PlacesAssumption, Zenon DEF PinOf, Pinned, Places
  <2> QED
    BY <2>1, SMTT(30) DEF PkgOf, Unpinned, GitPin
<1> QED
  BY <1>1, <1>2, <1>3, <1>4, Zenon

\* The pin and the manifest of a dependency that is fetched.
LEMMA PinIsRight ==
  ASSUME OneDirectoryPerName, WorldInv, NEW d \in Dependencies, NEW root \in Roots
  PROVE  LET pin == Pinned(d.pkg, PinOf(d.at, root))
             entry == [manifest |-> ManifestAt(d.at), dir |-> d.at] IN
         /\ pin \in Pins
         /\ EntryOK(pin, entry)
         /\ Unpinned(pin, entry.dir) = <<d.pkg, d.at>>
<1> DEFINE pin == Pinned(d.pkg, PinOf(d.at, root))
           entry == [manifest |-> ManifestAt(d.at), dir |-> d.at]
<1>1. d.at \in MemberSet \/ d.at \in Paths \/ d.at \in Repos
  BY PlacesAssumption, Zenon DEF Places
<1>2. d.pkg \in Names
  BY Zenon DEF Names
<1>3. ManifestAt(d.at) \in AllManifests
  <2>1. CASE d.at \in Repos
    BY <2>1, SMTT(30) DEF ManifestAt, WorldInv, AllManifests
  <2>2. CASE d.at \notin Repos
    BY <1>1, <2>2, Zenon DEF ManifestAt, WorldInv, Places
  <2> QED
    BY <2>1, <2>2, Zenon
<1>4. CASE d.at \in MemberSet
  <2>1. pin = <<d.pkg, MemberPin>>
    BY <1>4, Zenon DEF PinOf, Pinned
  <2>2. d.pkg = d.at
    BY <1>4, Zenon DEF OneDirectoryPerName
  <2> QED
    BY <1>2, <1>3, <1>4, <2>1, <2>2, SMTT(30) DEF Pins, EntryOK, Unpinned, MemberPin
<1>5. CASE d.at \in Paths
  <2>1. pin = <<d.pkg, PathPin(root)>>
    BY <1>5, PlacesAssumption, Zenon DEF PinOf, Pinned
  <2> QED
    BY <1>2, <1>3, <1>5, <2>1, SMTT(30) DEF Pins, EntryOK, Unpinned, PathPin, MemberPin
<1>6. CASE d.at \in Repos
  <2>1. pin = <<d.pkg, GitPin(d.at, heads[d.at])>>
    BY <1>6, PlacesAssumption, Zenon DEF PinOf, Pinned, Places
  <2>2. GitPin(d.at, heads[d.at]) \in GitPins
    BY <1>6, SMTT(30) DEF GitPins, WorldInv
  <2> QED
    BY <1>2, <1>3, <2>1, <2>2, SMTT(30) DEF Pins, EntryOK, Unpinned, GitPin, MemberPin
<1> QED
  BY <1>1, <1>4, <1>5, <1>6, Zenon

\* Plan q is plan p with node n for dependency d of node from, and the edge to it.
DepAdded(p, from, d, n, q) ==
  /\ SameBut(p, q, {"graph", "map", "fetched"})
  /\ GraphInv(q.graph, q.map)
  /\ Grown(p.graph, p.map, q.graph, q.map)
  /\ FetchedExact(q.graph, q.map, q.fetched)
  /\ Nodes(q.graph) = Nodes(p.graph) \cup {n}
  /\ PkgOf(q.graph, q.map, n) = <<d.pkg, d.at>>
  /\ Edges(q.graph) = Edges(p.graph) \cup {<<from, n>>}
  /\ q.graph.edges[<<from, n>>] = Edge(d)
  /\ \A e \in Edges(p.graph) : e # <<from, n>> => q.graph.edges[e] = p.graph.edges[e]

\* A dependency, added or found, and the edge to it.
LEMMA DependencyAdded ==
  ASSUME OneDirectoryPerName, WorldInv,
         NEW p, IsForc(p), GraphInv(p.graph, p.map), FetchedExact(p.graph, p.map, p.fetched),
         NEW top, top.node \in Nodes(p.graph), top.root \in Roots,
         NEW d \in DepsOf(p.graph, p.map, top.node)
  PROVE  DepAdded(p, top.node, d, WithDep(p, top, d).node, WithDep(p, top, d).plan)
<1> DEFINE g == p.graph
           pkg == <<d.pkg, d.at>>
           known == pkg \in DOMAIN p.fetched
           pin == Pinned(d.pkg, PinOf(d.at, top.root))
           entry == [manifest |-> ManifestAt(d.at), dir |-> d.at]
           n == IF known THEN p.fetched[pkg] ELSE FreshNode(g)
           g1 == IF known THEN g ELSE AddNode(g, pin)
           map == IF known \/ pin \in DOMAIN p.map THEN p.map ELSE Put(p.map, pin, entry)
           h == UpdateEdge(g1, top.node, n, Edge(d))
           fetched == Put(p.fetched, pkg, n)
<1>1. /\ WithDep(p, top, d).node = n
      /\ WithDep(p, top, d).plan = [p EXCEPT !.graph = h, !.map = map, !.fetched = fetched]
  BY SMTT(30) DEF WithDep
<1>2. Pinnings(g, p.map) /\ IsMap(g, p.map) /\ Needed(g)
  BY Zenon DEF GraphInv, Pinnings
<1>3. d \in Dependencies
  BY <1>2, DepsAreDependencies, Zenon
<1> HIDE DEF entry, pin, g
<1>4. /\ Pinnings(g1, map) /\ Grown(g, p.map, g1, map)
      /\ Nodes(g1) = Nodes(g) \cup {n} /\ Edges(g1) = Edges(g) /\ g1.edges = g.edges
      /\ PkgOf(g1, map, n) = pkg
  <2>1. CASE known
    <3>1. n \in Nodes(g) /\ PkgOf(g, p.map, n) = pkg
      BY <2>1, SMTT(30) DEF FetchedExact, g
    <3> QED
      BY <1>2, <2>1, <3>1, Zenon DEF Grown
  <2>2. CASE ~known
    <3>1. \A m \in Nodes(g) : PkgOf(g, p.map, m) # pkg
      BY <2>2, Zenon DEF FetchedExact, g
    <3>2. pin \notin DOMAIN p.map
      BY <1>2, <1>3, <3>1, PinIsNew, Zenon DEF pin
    <3>3. pin \in Pins /\ EntryOK(pin, entry) /\ Unpinned(pin, entry.dir) = pkg
      BY <1>3, PinIsRight, Zenon DEF pin, entry
    <3>4. g1 = AddNode(g, pin) /\ map = Put(p.map, pin, entry) /\ n = FreshNode(g)
      BY <2>2, <3>2, Zenon
    <3>5. NodeAdded(g, p.map, pin, entry, n, g1, map)
      <4> HIDE DEF n, g1, map, known
      <4> QED
        BY <1>2, <3>1, <3>2, <3>3, <3>4, AddPackage, Zenon
    <3> QED
      BY <3>3, <3>5, Zenon DEF NodeAdded, Edges
  <2> QED
    BY <2>1, <2>2, Zenon
<1>5. top.node \in Nodes(g) /\ n \in Nodes(g1) /\ top.node \in Nodes(g1)
  BY <1>4, Zenon DEF g
<1>6. d \in DepsOf(g1, map, top.node)
  BY <1>4, <1>5, GrownKeeps, SMTT(30) DEF g
<1> HIDE DEF n, g1, map, known
<1>7. /\ h.nodes = g1.nodes /\ Nodes(h) = Nodes(g1)
      /\ Edges(h) = Edges(g1) \cup {<<top.node, n>>}
      /\ h.edges[<<top.node, n>>] = Edge(d)
      /\ \A e \in Edges(g1) : e # <<top.node, n>> => h.edges[e] = g1.edges[e]
      /\ Pinnings(h, map)
  <2> HIDE DEF pkg
  <2> QED
    BY <1>4, <1>5, <1>6, AddDependency, Zenon DEF pkg
<1> HIDE DEF h, fetched
<1>8. Grown(g, p.map, h, map)
  BY <1>4, <1>7, Zenon DEF Grown
<1>9. PkgOf(h, map, n) = pkg
  BY <1>4, <1>7, Zenon DEF PkgOf
<1>10. Needed(h)
  <2>1. IsGraph(g) /\ IsGraph(h)
    BY <1>2, <1>7, Zenon DEF Pinnings
  <2>2. Edges(g) \subseteq Edges(h) /\ <<top.node, n>> \in Edges(h)
    BY <1>4, <1>7, Zenon
  <2>3. \A m \in Nodes(h) : m \in Nodes(g) \/ m = n
    BY <1>4, <1>7, Zenon
  <2> QED
    BY <1>2, <1>5, <1>8, <2>1, <2>2, <2>3, StillNeeded, Zenon
<1>11. FetchedExact(h, map, fetched)
  <2>1. /\ DOMAIN fetched = DOMAIN p.fetched \cup {pkg} /\ fetched[pkg] = n
        /\ \A k \in DOMAIN p.fetched : k # pkg => fetched[k] = p.fetched[k]
    BY Zenon DEF fetched, Put
  <2>2. \A m \in Nodes(g) : PkgOf(h, map, m) = PkgOf(g, p.map, m)
    BY <1>8, GrownKeeps, SMTT(30)
  <2>3. Nodes(h) = Nodes(g) \cup {n}
    BY <1>4, <1>7, Zenon
  <2>4. \A m \in Nodes(h) : PkgOf(h, map, m) = pkg => m = n
    BY <1>7, <1>9, <2>3, Zenon DEF Pinnings, SourcesApart
  <2> HIDE DEF pkg
  <2>5. /\ DOMAIN p.fetched = {PkgOf(g, p.map, m) : m \in Nodes(g)}
        /\ \A m \in Nodes(g) : p.fetched[PkgOf(g, p.map, m)] = m
    BY Zenon DEF FetchedExact, g
  <2>6. DOMAIN fetched = {PkgOf(h, map, m) : m \in Nodes(h)}
    BY <1>9, <2>1, <2>2, <2>3, <2>5, SMTT(30)
  <2>7. ASSUME NEW m \in Nodes(h) PROVE fetched[PkgOf(h, map, m)] = m
    <3>1. CASE m = n
      BY <1>9, <2>1, <3>1, Zenon
    <3>2. CASE m # n
      BY <2>1, <2>2, <2>3, <2>4, <2>5, <3>2, Zenon
    <3> QED
      BY <3>1, <3>2, Zenon
  <2> QED
    BY <2>6, <2>7, Zenon DEF FetchedExact
<1> DEFINE q == WithDep(p, top, d).plan
<1>13. /\ q.graph = h /\ q.map = map /\ q.fetched = fetched
       /\ SameBut(p, q, {"graph", "map", "fetched"})
  BY <1>1, Zenon DEF IsForc, SameBut
<1> HIDE DEF q
<1>14. DepAdded(p, top.node, d, n, q)
  BY <1>4, <1>7, <1>8, <1>9, <1>10, <1>11, <1>13, Zenon DEF GraphInv, DepAdded, g
<1> QED
  BY <1>1, <1>14, Zenon DEF q

-----------------------------------------------------------------------------
(* The invariant is inductive.                                              *)

LEMMA NoPlan == GraphInv(NoGraph, <<>>) /\ PlanInv(Idle)
<1>1. Nodes(NoGraph) = {} /\ Edges(NoGraph) = {}
  BY SMTT(30) DEF NoGraph, Nodes, Edges
<1>2. IsGraph(NoGraph)
  BY <1>1, FS_EmptySet, SMTT(30) DEF IsGraph, NoGraph
<1>3. DOMAIN <<>> = {}
  BY SMTT(30)
<1>4. Pinnings(NoGraph, <<>>)
  BY <1>1, <1>2, <1>3, Zenon DEF Pinnings, PinsApart, IsMap, SourcesApart, EdgesMeant
<1>5. Needed(NoGraph)
  BY <1>1, SMTT(30) DEF Needed, ReachFrom
<1>6. StackInv(NoGraph, <<>>, <<>>)
  BY SMTT(30) DEF StackInv
<1> QED
  BY <1>4, <1>5, <1>6, SMTT(30) DEF GraphInv, PlanInv, IsForc, Idle

LEMMA FetchedIsExact ==
  ASSUME NEW g, NEW map, SourcesApart(g, map)
  PROVE  FetchedExact(g, map, Fetched(g, map))
BY SMTT(30) DEF FetchedExact, Fetched, SourcesApart

\* The lock of a graph whose pins are told apart.
LEMMA LockOfGraph ==
  ASSUME NEW g, IsGraph(g), PinsApart(g)
  PROVE  /\ IsFiniteSet(FromGraph(g))
         /\ \A p, q \in FromGraph(g) : p.name = q.name /\ p.source = q.source => p = q
<1> DEFINE ambiguous == Ambiguous([n \in Nodes(g) |-> g.nodes[n][1]])
           Rec(n) == [name |-> g.nodes[n][1], source |-> g.nodes[n][2],
                      deps |-> {DepLine(g, e, ambiguous) : e \in OutOf(g, n)}]
           rec == [n \in Nodes(g) |-> Rec(n)]
<1>1. FromGraph(g) = {Rec(n) : n \in Nodes(g)}
  BY Zenon DEF FromGraph
<1>2. \A n \in Nodes(g) : Rec(n).name = g.nodes[n][1] /\ Rec(n).source = g.nodes[n][2]
  BY Zenon
<1>3. \A n \in Nodes(g) : g.nodes[n] = <<g.nodes[n][1], g.nodes[n][2]>>
  BY SMTT(30) DEF IsGraph, Pins
<1> HIDE DEF Rec
<1>4. rec \in Surjection(Nodes(g), FromGraph(g))
  BY <1>1, Zenon DEF Surjection
<1>5. IsFiniteSet(FromGraph(g))
  BY <1>4, FS_Surjection, Zenon DEF IsGraph
<1> QED
  BY <1>1, <1>2, <1>3, <1>5, SMTT(30) DEF PinsApart

LEMMA OneChanges ==
  ASSUME Inv, NEW f \in Forcs, NEW x, PlanInv(x), forc' = [forc EXCEPT ![f] = x],
         WorldInv', LockInv'
  PROVE  Inv'
BY Zenon DEF Inv

LEMMA StartKeeps ==
  ASSUME Inv, NEW f \in Forcs, NEW cmd, NEW locked, Start(f, cmd, locked)
  PROVE  Inv'
<1> DEFINE mm == [m \in MemberSet |-> files[m]]
           t == ToGraph(ReadLock(lock))
           g == IF cmd = "update" THEN NoGraph
                ELSE RemoveDeps(t, MemberSet, InvalidEdges(t, mm))
           x == [Idle EXCEPT !.pc = "fetch", !.cmd = cmd, !.locked = locked, !.mm = mm,
                    !.read = ReadLock(lock), !.damaged = lock \in {NoLock, Empty, Mixed},
                    !.graph = g, !.map = ManifestMap(g, mm), !.members = Members]
<1>1. forc' = [forc EXCEPT ![f] = x] /\ UNCHANGED <<files, heads, lock>>
  BY SMTT(30) DEF Start
<1>2. DOMAIN mm = MemberSet /\ \A y \in MemberSet : mm[y] \in Manifests[y]
  BY Zenon DEF Inv, WorldInv, Places
<1>3. GraphInv(g, ManifestMap(g, mm))
  <2> HIDE DEF mm
  <2>1. CASE cmd = "update"
    <3>1. g = NoGraph
      BY <2>1, Zenon
    <3>2. /\ NoGraph = [nodes |-> NoGraph.nodes, edges |-> NoGraph.edges]
          /\ Nodes(NoGraph) \subseteq Nat /\ IsFiniteSet(Nodes(NoGraph)) /\ PinsApart(NoGraph)
          /\ NoGraph.nodes \in [Nodes(NoGraph) -> {Pinned(x0, MemberPin) : x0 \in MemberSet}]
          /\ Edges(NoGraph) = {} /\ NoGraph.edges \in [{} -> Labels]
      BY FS_EmptySet, SMTT(30) DEF NoGraph, Nodes, Edges, PinsApart
    <3>3. GraphInv(NoGraph, ManifestMap(NoGraph, mm))
      BY <1>2, <3>2, MembersOnly, Zenon
    <3> QED
      BY <3>1, <3>3, Zenon
  <2>2. CASE cmd # "update"
    BY <1>2, <2>2, PlanStarts, Zenon DEF Inv, LockInv
  <2> QED
    BY <2>1, <2>2, Zenon
<1> HIDE DEF g, mm
<1>4. PlanInv(x)
  <2>1. /\ x.pc = "fetch" /\ x.mm = mm /\ x.graph = g /\ x.map = ManifestMap(g, mm)
        /\ x.members = Members /\ x.stack = <<>>
    BY SMTT(30) DEF Idle
  <2>2. IsForc(x)
    BY <2>1, PlacesAssumption, Zenon DEF IsForc, Idle
  <2> HIDE DEF x
  <2> QED
    BY <1>2, <1>3, <2>1, <2>2, SMTT(30) DEF PlanInv, StackInv
<1>5. WorldInv' /\ LockInv'
  BY <1>1, SMTT(30) DEF Inv, WorldInv, LockInv
<1> HIDE DEF x
<1> QED
  BY <1>1, <1>4, <1>5, OneChanges, Zenon

LEMMA StartMemberKeeps ==
  ASSUME Inv, NEW f \in Forcs, StartMember(f)
  PROVE  Inv'
<1> DEFINE p == forc[f]
           name == Head(p.members)
           pin == Pinned(name, MemberPin)
           q == WithMember(p, name)
           n == ProjNode(q.graph, name)
           frame == Frame(n, pin, q.map[pin].manifest)
           x == [q EXCEPT !.fetched = Fetched(q.graph, q.map), !.visited = {},
                          !.members = Tail(p.members), !.stack = Unwind(<<frame>>)]
<1>1. forc' = [forc EXCEPT ![f] = x] /\ UNCHANGED <<files, heads, lock>>
  BY Zenon DEF StartMember
<1>2. PlanInv(p) /\ p.pc = "fetch" /\ p.members # <<>>
  BY Zenon DEF StartMember, Inv
<1>3. name \in MemberSet /\ p.mm[name] \in Manifests[name] /\ Tail(p.members) \in Seq(MemberSet)
  BY <1>2, SMTT(30) DEF PlanInv, IsForc
<1> HIDE DEF p, name
<1>4. /\ SameBut(p, q, {"graph", "map"})
      /\ GraphInv(q.graph, q.map)
      /\ n \in Nodes(q.graph) /\ q.graph.nodes[n] = pin
  BY <1>2, <1>3, MemberAdded, Zenon DEF PlanInv
<1> HIDE DEF q, n
<1>5. IsMap(q.graph, q.map) /\ SourcesApart(q.graph, q.map) /\ n \in Nat
  BY <1>4, Zenon DEF GraphInv, Pinnings, IsGraph
<1>6. pin \in Roots
  BY <1>3, Zenon DEF Roots, Names, Pinned
<1>7. <<frame>> \in Seq(Frames) /\ frame.node = n
  <2>1. q.map[pin].manifest.deps \in Seq(Dependencies)
    BY <1>4, <1>5, DepsAreDependencies, Zenon
  <2> HIDE DEF pin
  <2> QED
    BY <1>5, <1>6, <2>1, SMTT(30) DEF Frames, Frame
<1>8. Range(frame.todo) = DepsOf(q.graph, q.map, n)
  BY <1>4, Zenon DEF Frame, DepsOf
<1> HIDE DEF frame, pin
<1>9. StackInv(q.graph, q.map, Unwind(<<frame>>))
  <2>1. \A i \in DOMAIN <<frame>> : <<frame>>[i] = frame
    BY SMTT(30)
  <2> DEFINE s == <<frame>>
  <2> HIDE DEF s
  <2>2. /\ Unwind(s) \in Seq(Frames)
        /\ \A i \in DOMAIN Unwind(s) : i \in DOMAIN s /\ Unwind(s)[i] = s[i]
        /\ Unwind(s) # <<>> => Top(Unwind(s)).todo # <<>>
    BY <1>7, UnwindKeeps, Zenon DEF s
  <2>3. \A i \in DOMAIN Unwind(s) : Unwind(s)[i] = frame
    BY <2>1, <2>2, Zenon DEF s
  <2>4. StackInv(q.graph, q.map, Unwind(s))
    BY <1>4, <1>7, <1>8, <2>2, <2>3, Zenon DEF StackInv
  <2> QED
    BY <2>4, Zenon DEF s
<1>10. FetchedExact(q.graph, q.map, Fetched(q.graph, q.map))
  BY <1>5, FetchedIsExact, Zenon
<1>11. IsForc(q) /\ q.pc = p.pc /\ q.mm = p.mm
  BY <1>2, <1>4, Zenon DEF PlanInv, IsForc, SameBut
<1>12. /\ IsForc(x) /\ x.pc = p.pc /\ x.mm = p.mm /\ x.graph = q.graph /\ x.map = q.map
       /\ x.stack = Unwind(<<frame>>) /\ x.fetched = Fetched(q.graph, q.map)
  BY <1>3, <1>11, SMTT(30) DEF IsForc
<1> HIDE DEF x
<1>13. PlanInv(x)
  BY <1>2, <1>4, <1>9, <1>10, <1>12, Zenon DEF PlanInv
<1>14. WorldInv' /\ LockInv'
  BY <1>1, Zenon DEF Inv, WorldInv, LockInv
<1> QED
  BY <1>1, <1>13, <1>14, OneChanges, Zenon DEF p

\* One dependency is taken from the package on top of the stack.
Taken(stack) == [stack EXCEPT ![Len(stack)].todo = Tail(@)]

LEMMA TopTaken ==
  ASSUME NEW stack \in Seq(Frames), stack # <<>>, Top(stack).todo # <<>>
  PROVE  LET rest == Taken(stack) IN
         /\ rest \in Seq(Frames) /\ DOMAIN rest = DOMAIN stack /\ Len(rest) = Len(stack)
         /\ Len(stack) \in DOMAIN stack /\ Top(stack) \in Frames
         /\ \A i \in DOMAIN stack : rest[i].node = stack[i].node
         /\ \A i \in DOMAIN stack : i # Len(stack) => rest[i] = stack[i]
         /\ Head(Top(stack).todo) \in Range(Top(stack).todo)
         /\ Range(Top(stack).todo) = Range(rest[Len(stack)].todo) \cup {Head(Top(stack).todo)}
<1> DEFINE k == Len(stack)
           fr == stack[k]
           rest == Taken(stack)
<1>1. k \in DOMAIN stack /\ fr \in Frames /\ Top(stack) = fr /\ k \in Nat /\ DOMAIN stack = 1..k
  BY SMTT(30) DEF Top
<1>2. fr.todo \in Seq(Dependencies) /\ fr.todo # <<>> /\ fr.node \in Nat /\ fr.root \in Roots
  BY <1>1, Zenon DEF Frames
<1>3. /\ Tail(fr.todo) \in Seq(Dependencies) /\ Head(fr.todo) \in Range(fr.todo)
      /\ Range(fr.todo) = Range(Tail(fr.todo)) \cup {Head(fr.todo)}
  <2> DEFINE s == fr.todo
  <2>1. s \in Seq(Dependencies) /\ s # <<>>
    BY <1>2, Zenon
  <2> HIDE DEF s, fr
  <2>2. /\ Tail(s) \in Seq(Dependencies) /\ Len(s) \in Nat \ {0} /\ Head(s) = s[1]
        /\ DOMAIN s = 1..Len(s) /\ DOMAIN Tail(s) = 1..(Len(s) - 1)
        /\ \A i \in 1..(Len(s) - 1) : Tail(s)[i] = s[i + 1]
    BY <2>1, SMTT(30)
  <2>3. \A i \in 1..Len(s) : i = 1 \/ (i - 1 \in 1..(Len(s) - 1) /\ s[i] = Tail(s)[i - 1])
    BY <2>2, SMTT(30)
  <2>4. \A i \in 1..(Len(s) - 1) : i + 1 \in 1..Len(s)
    BY <2>2, SMTT(30)
  <2>5. Range(s) = Range(Tail(s)) \cup {s[1]} /\ s[1] \in Range(s)
    BY <2>2, <2>3, <2>4, SMTT(30) DEF Range
  <2> QED
    BY <2>2, <2>5, Zenon DEF s
<1>4. /\ rest = [i \in 1..k |-> IF i = k THEN [fr EXCEPT !.todo = Tail(fr.todo)] ELSE stack[i]]
  BY <1>1, Zenon DEF Taken
<1>5. /\ [fr EXCEPT !.todo = Tail(fr.todo)] \in Frames
      /\ [fr EXCEPT !.todo = Tail(fr.todo)].node = fr.node
      /\ [fr EXCEPT !.todo = Tail(fr.todo)].todo = Tail(fr.todo)
  BY <1>1, <1>2, <1>3, Zenon DEF Frames
<1> HIDE DEF rest, fr
<1>6. rest \in Seq(Frames) /\ DOMAIN rest = 1..k /\ Len(rest) = k
  BY <1>1, <1>4, <1>5, SMTT(30)
<1>7. \A i \in 1..k : rest[i].node = stack[i].node
  BY <1>1, <1>4, <1>5, Zenon DEF fr
<1> QED
  BY <1>1, <1>3, <1>4, <1>5, <1>6, <1>7, Zenon DEF rest

\* What a plan is after a dependency was fetched and not refused.
AfterDep(p) ==
  LET top == Top(p.stack)
      d == Head(top.todo)
      n == WithDep(p, top, d).node
      q == WithDep(p, top, d).plan
      id == q.graph.nodes[n]
      frame == Frame(n, PathRoot(id, top.root), q.map[id].manifest) IN
  [dep |-> d, node |-> n, parent |-> top.node, plan |-> q,
   new |-> n \notin p.visited, frame |-> frame,
   stack |-> IF n \in p.visited THEN Taken(p.stack) ELSE Append(Taken(p.stack), frame)]

LEMMA DepFetched ==
  ASSUME OneDirectoryPerName, WorldInv, NEW p, PlanInv(p), p.stack # <<>>
  PROVE  LET a == AfterDep(p)
             q == a.plan IN
         /\ p.pc = "fetch"
         /\ a.parent = p.stack[Len(p.stack)].node /\ a.parent \in Nodes(p.graph)
         /\ a.dep \in DepsOf(p.graph, p.map, a.parent)
         /\ SameBut(p, q, {"graph", "map", "fetched"})
         /\ GraphInv(q.graph, q.map) /\ Grown(p.graph, p.map, q.graph, q.map)
         /\ FetchedExact(q.graph, q.map, q.fetched)
         /\ Nodes(q.graph) = Nodes(p.graph) \cup {a.node}
         /\ PkgOf(q.graph, q.map, a.node) = <<a.dep.pkg, a.dep.at>>
         /\ Edges(q.graph) = Edges(p.graph) \cup {<<a.parent, a.node>>}
         /\ q.graph.edges[<<a.parent, a.node>>] = Edge(a.dep)
         /\ \A e \in Edges(p.graph) :
              e # <<a.parent, a.node>> => q.graph.edges[e] = p.graph.edges[e]
         /\ a.frame \in Frames /\ a.frame.node = a.node
         /\ Range(a.frame.todo) = DepsOf(q.graph, q.map, a.node)
         /\ a.stack \in Seq(Frames) /\ StackInv(q.graph, q.map, Unwind(a.stack))
<1> DEFINE top == Top(p.stack)
           d == Head(top.todo)
           n == WithDep(p, top, d).node
           q == WithDep(p, top, d).plan
           id == q.graph.nodes[n]
           root == PathRoot(id, top.root)
           frame == Frame(n, root, q.map[id].manifest)
           rest == Taken(p.stack)
           k == Len(p.stack)
           to == IF n \in p.visited THEN rest ELSE Append(rest, frame)
<1>1. /\ p.pc = "fetch" /\ IsForc(p) /\ p.stack \in Seq(Frames) /\ top.todo # <<>>
      /\ GraphInv(p.graph, p.map) /\ FetchedExact(p.graph, p.map, p.fetched)
  BY Zenon DEF PlanInv, StackInv
<1>2. /\ rest \in Seq(Frames) /\ DOMAIN rest = DOMAIN p.stack /\ Len(rest) = k
      /\ k \in DOMAIN p.stack /\ top \in Frames /\ d \in Range(top.todo)
      /\ \A i \in DOMAIN p.stack : rest[i].node = p.stack[i].node
      /\ \A i \in DOMAIN p.stack : i # k => rest[i] = p.stack[i]
      /\ Range(top.todo) = Range(rest[k].todo) \cup {d}
  <2> HIDE DEF rest
  <2> QED
    BY <1>1, TopTaken, Zenon DEF rest
<1>3. /\ top = p.stack[k] /\ top.node \in Nodes(p.graph) /\ top.root \in Roots
      /\ d \in DepsOf(p.graph, p.map, top.node)
  BY <1>2, Zenon DEF PlanInv, StackInv, Top, Frames
<1> HIDE DEF top, d
<1>4. /\ SameBut(p, q, {"graph", "map", "fetched"})
      /\ GraphInv(q.graph, q.map) /\ Grown(p.graph, p.map, q.graph, q.map)
      /\ FetchedExact(q.graph, q.map, q.fetched)
      /\ Nodes(q.graph) = Nodes(p.graph) \cup {n}
      /\ PkgOf(q.graph, q.map, n) = <<d.pkg, d.at>>
      /\ Edges(q.graph) = Edges(p.graph) \cup {<<top.node, n>>}
      /\ q.graph.edges[<<top.node, n>>] = Edge(d)
      /\ \A e \in Edges(p.graph) : e # <<top.node, n>> => q.graph.edges[e] = p.graph.edges[e]
  <2>1. /\ OneDirectoryPerName /\ WorldInv /\ IsForc(p)
        /\ GraphInv(p.graph, p.map) /\ FetchedExact(p.graph, p.map, p.fetched)
        /\ top.node \in Nodes(p.graph) /\ top.root \in Roots
        /\ d \in DepsOf(p.graph, p.map, top.node)
    BY <1>1, <1>3, Zenon
  <2>2. DepAdded(p, top.node, d, n, q)
    BY <2>1, DependencyAdded, Zenon
  <2> QED
    BY <2>2, Zenon DEF DepAdded
<1> HIDE DEF n, q
<1>5. n \in Nodes(q.graph) /\ n \in Nat /\ id \in Pins /\ IsMap(q.graph, q.map)
  BY <1>4, Zenon DEF GraphInv, Pinnings, IsGraph
<1>6. q.map[id].manifest.deps \in Seq(Dependencies)
  BY <1>5, DepsAreDependencies, Zenon
<1>7. root \in Roots
  <2> HIDE DEF id
  <2>1. CASE id[2][1] = "path"
    BY <1>3, <2>1, Zenon DEF PathRoot
  <2>2. CASE id[2][1] # "path"
    BY <1>5, <2>2, SMTT(30) DEF PathRoot, Pins, Roots, PathPin
  <2> QED
    BY <2>1, <2>2, Zenon
<1>8. frame \in Frames /\ frame.node = n /\ Range(frame.todo) = DepsOf(q.graph, q.map, n)
  <2> HIDE DEF root
  <2> QED
    BY <1>5, <1>6, <1>7, Zenon DEF Frames, Frame, DepsOf
<1> HIDE DEF frame, rest
<1>9. /\ to \in Seq(Frames)
      /\ \A i \in DOMAIN to : (i \in DOMAIN p.stack /\ to[i] = rest[i]) \/ to[i] = frame
  BY <1>2, <1>8, SMTT(30)
<1>10. \A i \in DOMAIN p.stack :
         rest[i].node \in Nodes(q.graph)
         /\ Range(rest[i].todo) \subseteq DepsOf(q.graph, q.map, rest[i].node)
  <2> SUFFICES ASSUME NEW i \in DOMAIN p.stack
               PROVE  /\ rest[i].node \in Nodes(q.graph)
                      /\ Range(rest[i].todo) \subseteq DepsOf(q.graph, q.map, rest[i].node)
    BY Zenon
  <2>1. p.stack[i].node \in Nodes(p.graph)
        /\ Range(p.stack[i].todo) \subseteq DepsOf(p.graph, p.map, p.stack[i].node)
    BY Zenon DEF PlanInv, StackInv
  <2>2. DepsOf(q.graph, q.map, p.stack[i].node) = DepsOf(p.graph, p.map, p.stack[i].node)
    BY <1>4, <2>1, GrownKeeps, SMTT(30)
  <2>3. Range(rest[i].todo) \subseteq Range(p.stack[i].todo)
    BY <1>2, <1>3, Zenon
  <2> QED
    BY <1>2, <1>4, <2>1, <2>2, <2>3, Zenon
<1>11. \A i \in DOMAIN to : /\ to[i].node \in Nodes(q.graph)
                            /\ Range(to[i].todo) \subseteq DepsOf(q.graph, q.map, to[i].node)
  BY <1>5, <1>8, <1>9, <1>10, Zenon
<1> HIDE DEF to
<1>12. StackInv(q.graph, q.map, Unwind(to))
  <2>1. /\ Unwind(to) \in Seq(Frames)
        /\ \A i \in DOMAIN Unwind(to) : i \in DOMAIN to /\ Unwind(to)[i] = to[i]
        /\ Unwind(to) # <<>> => Top(Unwind(to)).todo # <<>>
    BY <1>9, UnwindKeeps, Zenon
  <2> QED
    BY <1>11, <2>1, Zenon DEF StackInv
<1>13. /\ AfterDep(p).dep = d /\ AfterDep(p).node = n /\ AfterDep(p).parent = top.node
       /\ AfterDep(p).plan = q /\ AfterDep(p).frame = frame /\ AfterDep(p).stack = to
  BY Zenon DEF AfterDep, to, frame, rest, q, n, d, top
<1> QED
  BY <1>1, <1>3, <1>4, <1>8, <1>9, <1>12, <1>13, Zenon

LEMMA FetchDepPlan ==
  ASSUME NEW f \in Forcs, FetchDep(f)
  PROVE  LET p == forc[f]
             a == AfterDep(p)
             id == a.plan.graph.nodes[a.node] IN
         /\ p.pc = "fetch" /\ p.stack # <<>>
         /\ UNCHANGED <<files, heads, lock>>
         /\ \/ forc' = [forc EXCEPT ![f] = Idle]
            \/ /\ ~a.new
               /\ forc' = [forc EXCEPT ![f] = [a.plan EXCEPT !.stack = Unwind(a.stack)]]
            \/ /\ a.new /\ DepManifestOK(id, a.plan.map[id].manifest, a.dep)
               /\ forc' = [forc EXCEPT ![f] =
                    [a.plan EXCEPT !.visited = a.plan.visited \cup {a.node},
                                   !.stack = Unwind(a.stack)]]
BY Zenon DEF FetchDep, AfterDep, Taken

LEMMA FetchDepKeeps ==
  ASSUME OneDirectoryPerName, Inv, NEW f \in Forcs, FetchDep(f)
  PROVE  Inv'
<1> DEFINE p == forc[f]
           a == AfterDep(p)
           q == a.plan
           s == Unwind(a.stack)
<1>1. PlanInv(p) /\ p.stack # <<>> /\ UNCHANGED <<files, heads, lock>> /\ WorldInv
  BY FetchDepPlan, Zenon DEF Inv
<1> HIDE DEF p
<1>2. /\ SameBut(p, q, {"graph", "map", "fetched"}) /\ p.pc = "fetch"
      /\ GraphInv(q.graph, q.map) /\ FetchedExact(q.graph, q.map, q.fetched)
      /\ StackInv(q.graph, q.map, s)
  BY <1>1, DepFetched, Zenon
<1> HIDE DEF a, s
<1>3. IsForc(q) /\ q.pc = "fetch" /\ q.mm = p.mm
  BY <1>1, <1>2, Zenon DEF PlanInv, IsForc, SameBut
<1> HIDE DEF q
<1>4. ASSUME NEW v PROVE PlanInv([q EXCEPT !.visited = v, !.stack = s])
  <2> DEFINE x == [q EXCEPT !.visited = v, !.stack = s]
  <2>1. /\ IsForc(x) /\ x.pc = "fetch" /\ x.mm = p.mm /\ x.graph = q.graph /\ x.map = q.map
        /\ x.stack = s /\ x.fetched = q.fetched
    BY <1>3, SMTT(30) DEF IsForc
  <2> HIDE DEF x
  <2>2. PlanInv(x)
    BY <1>1, <1>2, <2>1, Zenon DEF PlanInv
  <2> QED
    BY <2>2, SMTT(30) DEF x
<1>5. PlanInv([q EXCEPT !.stack = s])
  <2> DEFINE x == [q EXCEPT !.stack = s]
  <2>1. /\ IsForc(x) /\ x.pc = "fetch" /\ x.mm = p.mm /\ x.graph = q.graph /\ x.map = q.map
        /\ x.stack = s /\ x.fetched = q.fetched
    BY <1>3, SMTT(30) DEF IsForc
  <2> HIDE DEF x
  <2>2. PlanInv(x)
    BY <1>1, <1>2, <2>1, SMTT(30) DEF PlanInv
  <2> QED
    BY <2>2, SMTT(30) DEF x
<1>6. \E x : PlanInv(x) /\ forc' = [forc EXCEPT ![f] = x]
  BY <1>4, <1>5, NoPlan, FetchDepPlan, Zenon DEF p, q, a, s
<1>7. WorldInv' /\ LockInv'
  BY <1>1, Zenon DEF Inv, WorldInv, LockInv
<1> QED
  BY <1>6, <1>7, OneChanges, Zenon

\* What only sets pc to a state without a traversal.
LEMMA PcChanges ==
  ASSUME NEW p, PlanInv(p), p.stack = <<>>,
         NEW pc \in {"truncate", "fill", "planned"}
  PROVE  PlanInv([p EXCEPT !.pc = pc])
<1> DEFINE x == [p EXCEPT !.pc = pc]
<1>1. IsForc(x) /\ x.pc = pc /\ x.graph = p.graph /\ x.map = p.map /\ x.stack = <<>>
  BY SMTT(30) DEF PlanInv, IsForc
<1> HIDE DEF x
<1>2. PlanInv(x)
  BY <1>1, Zenon DEF PlanInv
<1> QED
  BY <1>2, SMTT(30) DEF x

LEMMA WriteKeeps ==
  ASSUME Inv, NEW f \in Forcs, EndFetch(f) \/ TruncateLock(f) \/ FillLock(f)
  PROVE  Inv'
<1>1. PlanInv(forc[f]) /\ UNCHANGED <<files, heads>>
  BY Zenon DEF Inv, EndFetch, TruncateLock, FillLock
<1>2. WorldInv'
  BY <1>1, Zenon DEF Inv, WorldInv
<1>3. CASE EndFetch(f)
  <2>1. /\ forc[f].stack = <<>> /\ lock' = lock
        /\ \/ forc' = [forc EXCEPT ![f] = Idle]
           \/ \E pc \in {"truncate", "planned"} :
                forc' = [forc EXCEPT ![f] = [forc[f] EXCEPT !.pc = pc]]
    BY <1>3, Zenon DEF EndFetch
  <2>2. LockInv'
    BY <2>1, SMTT(30) DEF Inv, LockInv
  <2>3. \A pc \in {"truncate", "planned"} : PlanInv([forc[f] EXCEPT !.pc = pc])
    BY <1>1, <2>1, PcChanges, Zenon
  <2> QED
    BY <1>2, <2>1, <2>2, <2>3, NoPlan, OneChanges, Zenon
<1>4. CASE TruncateLock(f)
  <2>1. lock' = Empty /\ forc[f].pc = "truncate"
        /\ forc' = [forc EXCEPT ![f] = [forc[f] EXCEPT !.pc = "fill"]]
    BY <1>4, SMTT(30) DEF TruncateLock
  <2>2. LockInv'
    BY <2>1, FS_EmptySet, SMTT(30) DEF LockInv, ReadLock
  <2>3. PlanInv([forc[f] EXCEPT !.pc = "fill"])
    BY <1>1, <2>1, PcChanges, Zenon DEF PlanInv
  <2> QED
    BY <1>2, <2>1, <2>2, <2>3, OneChanges, Zenon
<1>5. CASE FillLock(f)
  <2>1. /\ lock' = FromGraph(forc[f].graph) \/ lock' = Mixed
        /\ forc[f].pc = "fill"
        /\ \/ forc' = [forc EXCEPT ![f] = Idle]
           \/ forc' = [forc EXCEPT ![f] = [forc[f] EXCEPT !.pc = "planned"]]
    BY <1>5, Zenon DEF FillLock
  <2>2. IsGraph(forc[f].graph) /\ PinsApart(forc[f].graph)
    BY <1>1, Zenon DEF PlanInv, GraphInv, Pinnings
  <2>3. LockInv'
    BY <2>1, <2>2, LockOfGraph, FS_EmptySet, SMTT(30) DEF LockInv, ReadLock
  <2>4. PlanInv([forc[f] EXCEPT !.pc = "planned"])
    BY <1>1, <2>1, PcChanges, Zenon DEF PlanInv
  <2> QED
    BY <1>2, <2>1, <2>3, <2>4, NoPlan, OneChanges, Zenon
<1> QED
  BY <1>3, <1>4, <1>5, Zenon

LEMMA EndKeeps ==
  ASSUME Inv, NEW f \in Forcs, FetchFails(f) \/ Kill(f) \/ EndBuild(f)
  PROVE  Inv'
<1>1. forc' = [forc EXCEPT ![f] = Idle] /\ UNCHANGED <<files, heads, lock>>
  BY Zenon DEF FetchFails, Kill, EndBuild
<1>2. WorldInv' /\ LockInv'
  BY <1>1, Zenon DEF Inv, WorldInv, LockInv
<1> QED
  BY <1>1, <1>2, NoPlan, OneChanges, Zenon

LEMMA CompileKeeps ==
  ASSUME Inv, NEW f \in Forcs, NEW n, Compile(f, n)
  PROVE  Inv'
<1>1. PICK b : forc' = [forc EXCEPT ![f].build = b]
  BY Zenon DEF Compile
<1>2. PlanInv(forc[f]) /\ UNCHANGED <<files, heads, lock>>
  BY Zenon DEF Inv, Compile
<1> DEFINE x == [forc[f] EXCEPT !.build = b]
<1>3. /\ IsForc(x) /\ x.pc = forc[f].pc /\ x.graph = forc[f].graph /\ x.map = forc[f].map
      /\ x.stack = forc[f].stack /\ x.mm = forc[f].mm /\ x.fetched = forc[f].fetched
  BY <1>2, SMTT(30) DEF PlanInv, IsForc
<1>4. forc' = [forc EXCEPT ![f] = x]
  BY <1>1, SMTT(30)
<1> HIDE DEF x
<1>5. PlanInv(x)
  BY <1>2, <1>3, Zenon DEF PlanInv
<1>6. WorldInv' /\ LockInv'
  BY <1>2, Zenon DEF Inv, WorldInv, LockInv
<1> QED
  BY <1>4, <1>5, <1>6, OneChanges, Zenon

LEMMA WorldKeeps ==
  ASSUME Inv, \/ \E r \in Repos : MoveHead(r)
              \/ \E x \in Places : \E m \in Manifests[x] : EditManifest(x, m)
  PROVE  Inv'
<1>1. UNCHANGED <<lock, forc>>
  BY Zenon DEF MoveHead, EditManifest
<1>2. WorldInv'
  <2>1. CASE \E r \in Repos : MoveHead(r)
    BY <2>1, PlacesAssumption, SMTT(30) DEF Inv, WorldInv, MoveHead
  <2>2. CASE \E x \in Places : \E m \in Manifests[x] : EditManifest(x, m)
    BY <2>2, SMTT(30) DEF Inv, WorldInv, EditManifest, AllManifests
  <2> QED
    BY <2>1, <2>2, Zenon
<1> QED
  BY <1>1, <1>2, Zenon DEF Inv, LockInv

LEMMA StepKeeps ==
  ASSUME OneDirectoryPerName, Inv, [Next]_vars
  PROVE  Inv'
<1>1. CASE UNCHANGED vars
  BY <1>1, Zenon DEF vars, Inv, WorldInv, LockInv
<1>2. CASE Next
  BY <1>2, StartKeeps, StartMemberKeeps, FetchDepKeeps, WriteKeeps, EndKeeps, CompileKeeps,
     WorldKeeps, Zenon DEF Next
<1> QED
  BY <1>1, <1>2, Zenon

LEMMA FirstKeeps ==
  ASSUME Init
  PROVE  Inv
<1>1. WorldInv
  BY PlacesAssumption, SMTT(30) DEF Init, WorldInv
<1>2. LockInv
  BY FS_EmptySet, Zenon DEF Init, LockInv, ReadLock
<1> QED
  BY <1>1, <1>2, NoPlan, Zenon DEF Init, Inv

(* Planning keeps its graphs, its stacks and the lock in order, however     *)
(* commands, edits, pushes and kills interleave, and whatever the lock file *)
(* held: pins and sources are told apart, every edge stands for a           *)
(* dependency, and every package is needed.                                 *)
THEOREM PlansInOrder == ASSUME OneDirectoryPerName PROVE Spec => []Inv
<1>1. Init => Inv
  BY FirstKeeps, SMTT(30)
<1>2. Inv /\ [Next]_vars => Inv'
  BY StepKeeps, Zenon
<1> QED
  BY <1>1, <1>2, PTL DEF Spec

(* fetch_pkg_graph pins a source once in a plan, whatever the number of     *)
(* members, repositories and pushes.                                        *)
THEOREM SourcesPinnedOnce == ASSUME OneDirectoryPerName PROVE Spec => []PinnedOnce
<1>1. Inv => PinnedOnce
  <2> SUFFICES ASSUME Inv, NEW f \in Forcs
               PROVE  Cardinality({PkgOf(forc[f].graph, forc[f].map, n) : n \in Nodes(forc[f].graph)})
                        = Cardinality(Nodes(forc[f].graph))
    BY Zenon DEF PinnedOnce
  <2> DEFINE g == forc[f].graph
             map == forc[f].map
             pkg == [n \in Nodes(g) |-> PkgOf(g, map, n)]
             T == {PkgOf(g, map, n) : n \in Nodes(g)}
  <2>1. IsFiniteSet(Nodes(g)) /\ SourcesApart(g, map)
    BY Zenon DEF Inv, PlanInv, GraphInv, Pinnings, IsGraph
  <2> HIDE DEF g, map
  <2>2. pkg \in [Nodes(g) -> T] /\ IsInjective(pkg) /\ \A t \in T : \E n \in Nodes(g) : pkg[n] = t
    BY <2>1, Zenon DEF SourcesApart, IsInjective
  <2>3. pkg \in Bijection(Nodes(g), T)
    BY <2>2, Zenon DEF Bijection, Injection, Surjection
  <2>4. ExistsBijection(Nodes(g), T)
    BY <2>3, Zenon DEF ExistsBijection
  <2> HIDE DEF T
  <2>5. Cardinality(T) = Cardinality(Nodes(g))
    BY <2>1, <2>4, FS_Bijection, Zenon
  <2> QED
    BY <2>5, Zenon DEF T, g, map
<1> QED
  BY <1>1, PlansInOrder, PTL

-----------------------------------------------------------------------------
(* The lock file.                                                           *)

\* Graphs that differ in their node numbers only are described alike.
LEMMA DescribedAlike ==
  ASSUME NEW g, PinsApart(g), Edges(g) \subseteq Nodes(g) \X Nodes(g),
         NEW h, NEW at \in [Nodes(g) -> Nodes(h)],
         \A m \in Nodes(h) : \E n \in Nodes(g) : at[n] = m,
         \A n \in Nodes(g) : h.nodes[at[n]] = g.nodes[n],
         Edges(h) = {<<at[e[1]], at[e[2]]>> : e \in Edges(g)},
         \A e \in Edges(g) : h.edges[<<at[e[1]], at[e[2]]>>] = g.edges[e]
  PROVE  Described(h) = Described(g)
<1> DEFINE Same(x, n) == {m \in Nodes(x) : x.nodes[m] = x.nodes[n]}
           Count(x, n) == Cardinality(Same(x, n))
           Packages(x) == {<<x.nodes[n], Count(x, n)>> : n \in Nodes(x)}
           Deps(x) == {<<x.nodes[e[1]], x.nodes[e[2]], x.edges[e]>> : e \in Edges(x)}
<1>1. PinsApart(h)
  BY SMTT(30) DEF PinsApart
<1>2. ASSUME NEW x, PinsApart(x)
      PROVE  Packages(x) = {<<x.nodes[n], 1>> : n \in Nodes(x)}
  <2>1. \A n \in Nodes(x) : Same(x, n) = {n}
    BY <1>2, SMTT(30) DEF PinsApart
  <2> HIDE DEF Same
  <2>2. \A n \in Nodes(x) : Count(x, n) = 1
    <3>1. \A n : Cardinality({n}) = 1
      BY FS_Singleton, Zenon
    <3>2. \A n \in Nodes(x) : Cardinality(Same(x, n)) = 1
      BY <2>1, <3>1, Zenon
    <3> QED
      BY <3>2, Zenon
  <2> HIDE DEF Count
  <2> QED
    BY <2>2, Zenon
<1>3. {<<h.nodes[n], 1>> : n \in Nodes(h)} = {<<g.nodes[n], 1>> : n \in Nodes(g)}
  BY SMTT(30)
<1>4. Packages(h) = Packages(g)
  <2> HIDE DEF Packages
  <2> QED
    BY <1>1, <1>2, <1>3, Zenon
<1>5. Deps(h) = Deps(g)
  <2>1. \A e \in Edges(g) : /\ h.nodes[at[e[1]]] = g.nodes[e[1]]
                            /\ h.nodes[at[e[2]]] = g.nodes[e[2]]
    BY Zenon
  <2> DEFINE To(e) == <<at[e[1]], at[e[2]]>>
             Dep(x, e) == <<x.nodes[e[1]], x.nodes[e[2]], x.edges[e]>>
  <2>2. \A e \in Edges(g) : Dep(h, To(e)) = Dep(g, e)
    BY <2>1, Zenon
  <2>3. Edges(h) = {To(e) : e \in Edges(g)}
    BY Zenon
  <2> HIDE DEF To, Dep
  <2>4. {Dep(h, e) : e \in Edges(h)} = {Dep(g, e) : e \in Edges(g)}
    BY <2>2, <2>3, SMTT(30)
  <2> QED
    BY <2>4, Zenon DEF Dep
<1> QED
  BY <1>4, <1>5, Zenon DEF Described

\* The key of a package tells it from the others.
LEMMA KeysApart ==
  ASSUME NEW g, IsGraph(g), PinsApart(g), NEW n \in Nodes(g), NEW m \in Nodes(g),
         LET ambiguous == Ambiguous([x \in Nodes(g) |-> g.nodes[x][1]]) IN
         PkgKey(g.nodes[n][1], g.nodes[n][2], ambiguous)
           = PkgKey(g.nodes[m][1], g.nodes[m][2], ambiguous)
  PROVE  n = m
<1> DEFINE names == [x \in Nodes(g) |-> g.nodes[x][1]]
           ambiguous == Ambiguous(names)
<1>1. \A x \in Nodes(g) : g.nodes[x] = <<g.nodes[x][1], g.nodes[x][2]>>
  BY SMTT(30) DEF IsGraph, Pins
<1>2. names[n] \in ambiguous \/ (names[m] = names[n] => n = m)
  BY Zenon DEF Ambiguous
<1> HIDE DEF ambiguous
<1>3. PkgKey(names[n], g.nodes[n][2], ambiguous) = PkgKey(names[m], g.nodes[m][2], ambiguous)
  BY Zenon DEF ambiguous
<1>4. /\ names[n] = names[m]
      /\ names[n] \in ambiguous => g.nodes[n][2] = g.nodes[m][2]
  BY <1>3, Zenon DEF PkgKey
<1> QED
  BY <1>1, <1>2, <1>4, SMTT(30) DEF PinsApart

\* to_graph undoes from_graph.
LEMMA ReadBack ==
  ASSUME NEW g, IsGraph(g), PinsApart(g)
  PROVE  Described(ToGraph(FromGraph(g))) = Described(g)
<1> DEFINE l == FromGraph(g)
           names == [n \in Nodes(g) |-> g.nodes[n][1]]
           amb == Ambiguous(names)
           Line(e) == DepLine(g, e, amb)
           rec == [n \in Nodes(g) |->
                     [name |-> g.nodes[n][1], source |-> g.nodes[n][2],
                      deps |-> {Line(e) : e \in OutOf(g, n)}]]
           k == Cardinality(l)
           ps == Listed(l)
           at == [n \in Nodes(g) |-> CHOOSE i \in 1..k : ps[i] = rec[n]]
           Key(p) == PkgKey(p.name, p.source, amb)
           NodeOf(key) == CHOOSE i \in DOMAIN ps : Key(ps[i]) = key
           lines == UNION {{<<i, d>> : d \in ps[i].deps} : i \in DOMAIN ps}
           EdgeOf(x) == <<x[1], NodeOf(x[2].key)>>
           Label(e, d) == [as |-> IF d.as = <<>> THEN ps[e[2]].name ELSE d.as[1],
                           kind |-> d.kind, salt |-> d.salt]
<1>1. IsFiniteSet(l)
  BY LockOfGraph, Zenon
<1>2. l = {rec[n] : n \in Nodes(g)}
  BY Zenon DEF FromGraph
<1>3. \A n \in Nodes(g) : /\ rec[n].name = g.nodes[n][1] /\ rec[n].source = g.nodes[n][2]
                          /\ rec[n].deps = {Line(e) : e \in OutOf(g, n)}
                          /\ names[n] = g.nodes[n][1]
  BY Zenon
<1>4. /\ Edges(g) \subseteq Nodes(g) \X Nodes(g)
      /\ \A n \in Nodes(g) : g.nodes[n] = <<g.nodes[n][1], g.nodes[n][2]>>
      /\ \A e \in Edges(g) : g.edges[e] = [as |-> g.edges[e].as, kind |-> g.edges[e].kind,
                                           salt |-> g.edges[e].salt]
  BY SMTT(30) DEF IsGraph, Pins, Labels, Edge
<1>5. \A n, m \in Nodes(g) : rec[n] = rec[m] => n = m
  <2> HIDE DEF rec
  <2> QED
    BY <1>3, <1>4, SMTT(30) DEF PinsApart
<1>6. Ambiguous([p \in l |-> p.name]) = amb
  <2> DEFINE lnames == [p \in l |-> p.name]
  <2>1. \A n \in Nodes(g) : rec[n] \in l /\ lnames[rec[n]] = names[n]
    BY <1>2, <1>3, Zenon
  <2>2. \A p \in l : \E n \in Nodes(g) : p = rec[n]
    BY <1>2, Zenon
  <2>3. DOMAIN lnames = l /\ DOMAIN names = Nodes(g)
    BY Zenon
  <2> HIDE DEF l, rec, names, lnames
  <2>4. \A x : x \in Ambiguous(lnames)
                 <=> \E p, q \in l : p # q /\ lnames[p] = x /\ lnames[q] = x
    BY <2>3, Zenon DEF Ambiguous
  <2>5. \A x : x \in Ambiguous(names)
                 <=> \E n, m \in Nodes(g) : n # m /\ names[n] = x /\ names[m] = x
    BY <2>3, Zenon DEF Ambiguous
  <2>6. \A x : x \in Ambiguous(lnames) <=> x \in Ambiguous(names)
    BY <1>5, <2>1, <2>2, <2>4, <2>5, SMTT(30)
  <2> QED
    BY <2>6, Zenon DEF lnames
<1>7. /\ k \in Nat /\ ps \in [1..k -> l] /\ DOMAIN ps = 1..k
      /\ \A i, j \in 1..k : ps[i] = ps[j] => i = j
      /\ \A x \in l : \E i \in 1..k : ps[i] = x
  <2> HIDE DEF l
  <2> QED
    BY <1>1, ListedOnce, Zenon
<1>8. /\ at \in [Nodes(g) -> 1..k]
      /\ \A n \in Nodes(g) : ps[at[n]] = rec[n]
      /\ \A i \in 1..k : \E n \in Nodes(g) : at[n] = i
      /\ \A n, m \in Nodes(g) : at[n] = at[m] => n = m
  <2> HIDE DEF ps, rec, l, k
  <2>1. \A n \in Nodes(g) : at[n] \in 1..k /\ ps[at[n]] = rec[n]
    BY <1>2, <1>7, Zenon
  <2>2. \A i \in 1..k : \E n \in Nodes(g) : ps[i] = rec[n]
    BY <1>2, <1>7, SMTT(30)
  <2>3. at \in [Nodes(g) -> 1..k]
    BY <2>1, Zenon
  <2> HIDE DEF at
  <2> QED
    BY <1>5, <1>7, <2>1, <2>2, <2>3, SMTT(30)
<1> HIDE DEF rec, ps, l, k, at, names, amb
<1>9. \A n \in Nodes(g) : Key(ps[at[n]]) = PkgKey(g.nodes[n][1], g.nodes[n][2], amb)
  BY <1>3, <1>8, SMTT(30)
<1>10. \A n, m \in Nodes(g) : Key(ps[at[n]]) = Key(ps[at[m]]) => n = m
  <2> SUFFICES ASSUME NEW n \in Nodes(g), NEW m \in Nodes(g), Key(ps[at[n]]) = Key(ps[at[m]])
               PROVE  n = m
    BY Zenon
  <2>1. PkgKey(g.nodes[n][1], g.nodes[n][2], amb) = PkgKey(g.nodes[m][1], g.nodes[m][2], amb)
    BY <1>9, Zenon
  <2> QED
    BY <2>1, KeysApart, Zenon DEF amb, names
<1>11. \A n \in Nodes(g) : NodeOf(Key(ps[at[n]])) = at[n]
  <2> HIDE DEF Key
  <2> QED
    BY <1>7, <1>8, <1>10, SMTT(30)
<1>12. \A e \in Edges(g) : /\ Line(e).key = Key(ps[at[e[2]]])
                           /\ Line(e).kind = g.edges[e].kind /\ Line(e).salt = g.edges[e].salt
                           /\ Line(e).as = IF g.edges[e].as = g.nodes[e[2]][1] THEN <<>>
                                           ELSE <<g.edges[e].as>>
  BY <1>4, <1>9, Zenon DEF DepLine
<1> HIDE DEF Key, NodeOf, Line
<1>13. lines = {<<at[e[1]], Line(e)>> : e \in Edges(g)}
  <2>1. \A i \in 1..k : \A d : d \in ps[i].deps <=> \E e \in Edges(g) : at[e[1]] = i /\ d = Line(e)
    BY <1>3, <1>4, <1>8, SMTT(30) DEF OutOf
  <2>2. \A x : x \in lines <=> \E i \in 1..k : \E d \in ps[i].deps : x = <<i, d>>
    BY <1>7, SMTT(30)
  <2>3. \A e \in Edges(g) : at[e[1]] \in 1..k
    BY <1>4, <1>8, Zenon
  <2> HIDE DEF lines
  <2>4. \A x : x \in lines <=> \E e \in Edges(g) : x = <<at[e[1]], Line(e)>>
    BY <2>1, <2>2, <2>3, SMTT(30)
  <2> QED
    BY <2>4, Zenon
<1> DEFINE known == \A x \in lines : \E i \in DOMAIN ps : Key(ps[i]) = x[2].key
<1>14. known
  <2> HIDE DEF lines
  <2> SUFFICES ASSUME NEW x \in lines PROVE \E i \in DOMAIN ps : Key(ps[i]) = x[2].key
    BY Zenon
  <2>1. PICK e \in Edges(g) : x = <<at[e[1]], Line(e)>>
    BY <1>13, Zenon
  <2>2. at[e[2]] \in DOMAIN ps
    BY <1>4, <1>7, <1>8, Zenon
  <2>3. x[2] = Line(e)
    BY <2>1, Zenon
  <2> QED
    BY <1>12, <2>2, <2>3, Zenon
<1> DEFINE t == ToGraph(l)
<1>15. /\ t.nodes = [i \in DOMAIN ps |-> Pinned(ps[i].name, ps[i].source)]
       /\ t.edges = [e \in {EdgeOf(x) : x \in lines} |->
                       Label(e, (CHOOSE x \in lines : EdgeOf(x) = e)[2])]
  <2> DEFINE KeyA(p, a) == PkgKey(p.name, p.source, a)
             NodeA(key, a) == CHOOSE i \in DOMAIN ps : KeyA(ps[i], a) = key
             EdgeA(x, a) == <<x[1], NodeA(x[2].key, a)>>
             Graph(a) ==
               IF ~(\A x \in lines : \E i \in DOMAIN ps : KeyA(ps[i], a) = x[2].key)
               THEN NoGraph
               ELSE [nodes |-> [i \in DOMAIN ps |-> Pinned(ps[i].name, ps[i].source)],
                     edges |-> [e \in {EdgeA(x, a) : x \in lines} |->
                       Label(e, (CHOOSE x \in lines : EdgeA(x, a) = e)[2])]]
  <2>1. t = Graph(Ambiguous([p \in l |-> p.name]))
    BY Zenon DEF ToGraph, ps
  <2>2. t = Graph(amb)
    <3> HIDE DEF Graph, t
    <3> QED
      BY <1>6, <2>1, Zenon
  <2> DEFINE edges == [e \in {EdgeOf(x) : x \in lines} |->
                         Label(e, (CHOOSE x \in lines : EdgeOf(x) = e)[2])]
  <2>3. Graph(amb) =
          IF ~known THEN NoGraph
          ELSE [nodes |-> [i \in DOMAIN ps |-> Pinned(ps[i].name, ps[i].source)], edges |-> edges]
    BY Zenon DEF Key, NodeOf
  <2> HIDE DEF Graph, t, known, edges, lines
  <2>4. t = [nodes |-> [i \in DOMAIN ps |-> Pinned(ps[i].name, ps[i].source)], edges |-> edges]
    BY <1>14, <2>2, <2>3, Zenon
  <2>5. t.nodes = [i \in DOMAIN ps |-> Pinned(ps[i].name, ps[i].source)] /\ t.edges = edges
    BY <2>4, Zenon
  <2> QED
    BY <2>5, Zenon DEF edges
<1>16. \A e \in Edges(g) : EdgeOf(<<at[e[1]], Line(e)>>) = <<at[e[1]], at[e[2]]>>
  BY <1>4, <1>11, <1>12, Zenon
<1> HIDE DEF EdgeOf, t, lines, Label
<1>17. Edges(t) = {<<at[e[1]], at[e[2]]>> : e \in Edges(g)}
  <2>1. Edges(t) = {EdgeOf(x) : x \in lines}
    BY <1>15, Zenon DEF Edges
  <2> DEFINE To(e) == <<at[e[1]], at[e[2]]>>
             Of(e) == <<at[e[1]], Line(e)>>
  <2>2. lines = {Of(e) : e \in Edges(g)} /\ \A e \in Edges(g) : EdgeOf(Of(e)) = To(e)
    BY <1>13, <1>16, Zenon
  <2> HIDE DEF To, Of
  <2>3. Edges(t) = {To(e) : e \in Edges(g)}
    BY <2>1, <2>2, SMTT(30)
  <2> QED
    BY <2>3, Zenon DEF To
<1>18. Nodes(t) = 1..k /\ \A n \in Nodes(g) : t.nodes[at[n]] = g.nodes[n]
  <2>1. Nodes(t) = 1..k
    BY <1>7, <1>15, Zenon DEF Nodes
  <2>2. \A i \in 1..k : t.nodes[i] = <<ps[i].name, ps[i].source>>
    BY <1>7, <1>15, Zenon DEF Pinned
  <2>3. \A n \in Nodes(g) : at[n] \in 1..k /\ ps[at[n]].name = g.nodes[n][1]
                            /\ ps[at[n]].source = g.nodes[n][2]
    BY <1>3, <1>8, Zenon
  <2> QED
    BY <1>4, <2>1, <2>2, <2>3, SMTT(30)
<1>19. ASSUME NEW e \in Edges(g) PROVE t.edges[<<at[e[1]], at[e[2]]>>] = g.edges[e]
  <2> DEFINE c == <<at[e[1]], at[e[2]]>>
             x == CHOOSE y \in lines : EdgeOf(y) = c
  <2>1. \A e2 \in Edges(g) : <<at[e2[1]], at[e2[2]]>> = c => e2 = e
    <3> SUFFICES ASSUME NEW e2 \in Edges(g), <<at[e2[1]], at[e2[2]]>> = c PROVE e2 = e
      BY Zenon
    <3>1. e = <<e[1], e[2]>> /\ e2 = <<e2[1], e2[2]>>
          /\ e[1] \in Nodes(g) /\ e[2] \in Nodes(g) /\ e2[1] \in Nodes(g) /\ e2[2] \in Nodes(g)
      BY <1>4, SMTT(30)
    <3> QED
      BY <1>8, <3>1, SMTT(30)
  <2> HIDE DEF c
  <2>2. x = <<at[e[1]], Line(e)>>
    BY <1>13, <1>16, <2>1, Zenon DEF c
  <2>3. c[2] = at[e[2]] /\ x[2] = Line(e)
    <3> HIDE DEF x
    <3> QED
      BY <2>2, Zenon DEF c
  <2>4. t.edges[c] = Label(c, Line(e))
    <3>1. c \in {EdgeOf(y) : y \in lines}
      BY <1>13, <1>16, Zenon DEF c
    <3>2. t.edges[c] = Label(c, x[2])
      BY <1>15, <3>1, Zenon
    <3> HIDE DEF x
    <3> QED
      BY <2>3, <3>2, Zenon
  <2>5. ps[c[2]].name = g.nodes[e[2]][1]
    BY <1>3, <1>4, <1>8, <2>3, SMTT(30)
  <2>6. Label(c, Line(e)) = g.edges[e]
    <3> DEFINE as == IF Line(e).as = <<>> THEN ps[c[2]].name ELSE Line(e).as[1]
    <3>1. as = g.edges[e].as
      <4> DEFINE own == g.edges[e].as
      <4>1. Line(e).as = IF own = g.nodes[e[2]][1] THEN <<>> ELSE <<own>>
        BY <1>12, Zenon
      <4> HIDE DEF own
      <4>2. <<own>> # <<>> /\ <<own>>[1] = own
        BY Zenon
      <4>3. as = own
        BY <2>5, <4>1, <4>2, Zenon
      <4> QED
        BY <4>3, Zenon DEF own
    <3>2. Label(c, Line(e)) = [as |-> as, kind |-> g.edges[e].kind, salt |-> g.edges[e].salt]
      BY <1>12, Zenon DEF Label
    <3> HIDE DEF as
    <3> QED
      BY <1>4, <3>1, <3>2, Zenon
  <2> QED
    BY <2>4, <2>6, Zenon DEF c
<1>20. Described(t) = Described(g)
  <2>1. at \in [Nodes(g) -> Nodes(t)] /\ \A m \in Nodes(t) : \E n \in Nodes(g) : at[n] = m
    BY <1>8, <1>18, Zenon
  <2>2. /\ Edges(g) \subseteq Nodes(g) \X Nodes(g)
        /\ \A n \in Nodes(g) : t.nodes[at[n]] = g.nodes[n]
    BY <1>4, <1>18, Zenon
  <2> QED
    BY <1>17, <1>19, <2>1, <2>2, DescribedAlike, Zenon
<1> QED
  BY <1>20, Zenon DEF t, l

(* What from_graph writes, to_graph reads back: the graph of a plan         *)
(* survives the lock file, whatever names, renames, salts and kinds its     *)
(* packages have.                                                           *)
THEOREM LockKeepsPlans == ASSUME OneDirectoryPerName PROVE Spec => []LockRoundTrips
<1>1. Inv => LockRoundTrips
  BY ReadBack, Zenon DEF Inv, PlanInv, GraphInv, Pinnings, LockRoundTrips
<1> QED
  BY <1>1, PlansInOrder, PTL

-----------------------------------------------------------------------------
(* Every dependency of a plan's packages has its edge.                      *)

LEMMA ExpandedGrows ==
  ASSUME NEW g, NEW map, Edges(g) \subseteq Nodes(g) \X Nodes(g),
         NEW h, NEW map2, Grown(g, map, h, map2), h.edges = g.edges,
         NEW n \in Nodes(g), NEW rest, ExpandedBut(g, map, n, rest)
  PROVE  ExpandedBut(h, map2, n, rest)
<1> SUFFICES ASSUME NEW d \in DepsOf(h, map2, n) \ rest
             PROVE  \E e \in OutOf(h, n) : Meant(h, map2, e, d)
  BY Zenon DEF ExpandedBut
<1>1. PICK e \in OutOf(g, n) : Meant(g, map, e, d)
  BY GrownKeeps, SMTT(30) DEF ExpandedBut
<1>2. e \in OutOf(h, n) /\ e[2] \in Nodes(g)
  BY Zenon DEF OutOf, Edges
<1> QED
  BY <1>1, <1>2, GrownKeeps, SMTT(30) DEF Meant

\* The new edge replaces none that stands for another dependency.
LEMMA DepKeepsExpanded ==
  ASSUME OneDirectoryPerName, OncePerManifest, WorldInv, NEW p, PlanInv(p), p.stack # <<>>,
         NEW n \in Nodes(p.graph), NEW rest, ExpandedBut(p.graph, p.map, n, rest)
  PROVE  LET a == AfterDep(p) IN
         /\ ExpandedBut(a.plan.graph, a.plan.map, n, rest)
         /\ n = a.parent => ExpandedBut(a.plan.graph, a.plan.map, n, rest \ {a.dep})
<1> DEFINE a == AfterDep(p)
           g == p.graph
           h == a.plan.graph
           map2 == a.plan.map
           new == <<a.parent, a.node>>
<1>1. /\ a.parent \in Nodes(g) /\ a.dep \in DepsOf(g, p.map, a.parent)
      /\ Grown(g, p.map, h, map2)
      /\ PkgOf(h, map2, a.node) = <<a.dep.pkg, a.dep.at>>
      /\ Edges(h) = Edges(g) \cup {new} /\ h.edges[new] = Edge(a.dep)
      /\ \A e \in Edges(g) : e # new => h.edges[e] = g.edges[e]
  BY DepFetched, Zenon
<1>2. Edges(g) \subseteq Nodes(g) \X Nodes(g) /\ IsMap(g, p.map)
  BY Zenon DEF PlanInv, GraphInv, Pinnings, IsGraph
<1> HIDE DEF a, g, h, map2
<1>3. new \in OutOf(h, a.parent) /\ Meant(h, map2, new, a.dep)
  BY <1>1, Zenon DEF OutOf, Meant
<1>4. ASSUME NEW d \in DepsOf(g, p.map, n) \ rest
      PROVE  \E e \in OutOf(h, n) : Meant(h, map2, e, d)
  <2>1. PICK e \in OutOf(g, n) : Meant(g, p.map, e, d)
    BY Zenon DEF ExpandedBut, g
  <2>2. e \in Edges(g) /\ e = <<n, e[2]>> /\ e[2] \in Nodes(g) /\ e \in OutOf(h, n)
    BY <1>1, <1>2, SMTT(30) DEF OutOf
  <2>3. PkgOf(h, map2, e[2]) = <<d.pkg, d.at>>
    BY <1>1, <2>1, <2>2, GrownKeeps, SMTT(30) DEF Meant
  <2>4. CASE e # new
    BY <1>1, <2>1, <2>2, <2>3, <2>4, Zenon DEF Meant
  <2>5. CASE e = new
    <3>1. n = a.parent /\ e[2] = a.node
      BY <2>2, <2>5, Zenon
    <3>2. d.pkg = a.dep.pkg /\ d.at = a.dep.at
      BY <1>1, <2>3, <3>1, SMTT(30)
    <3>3. p.map[g.nodes[n]].manifest \in AllManifests
      BY <1>2, DepsAreDependencies, Zenon DEF g
    <3>4. d = a.dep
      BY <1>1, <3>1, <3>2, <3>3, Zenon DEF OncePerManifest, DepsOf
    <3> QED
      BY <1>3, <3>1, <3>4, Zenon
  <2> QED
    BY <2>4, <2>5, Zenon
<1>5. DepsOf(h, map2, n) = DepsOf(g, p.map, n)
  BY <1>1, GrownKeeps, SMTT(30) DEF g
<1>6. ExpandedBut(h, map2, n, rest)
  BY <1>4, <1>5, Zenon DEF ExpandedBut
<1>7. n = a.parent => ExpandedBut(h, map2, n, rest \ {a.dep})
  BY <1>3, <1>4, <1>5, Zenon DEF ExpandedBut
<1> QED
  BY <1>6, <1>7, Zenon DEF a, h, map2

LEMMA NothingToExpand == ExpandInv(Idle)
<1>1. Nodes(Idle.graph) = {} /\ DOMAIN Idle.stack = {} /\ Idle.visited = {} /\ Idle.pc = "idle"
  BY SMTT(30) DEF Idle, NoGraph, Nodes
<1> QED
  BY <1>1, Zenon DEF ExpandInv

LEMMA OneExpands ==
  ASSUME DOMAIN forc = Forcs, ExpandInvs, NEW f \in Forcs, NEW x, ExpandInv(x),
         forc' = [forc EXCEPT ![f] = x]
  PROVE  ExpandInvs'
BY Zenon DEF ExpandInvs

\* What unwinding takes from the stack is expanded.
LEMMA UnwoundExpanded ==
  ASSUME NEW g, NEW map, NEW s \in Seq(Frames),
         \A i \in DOMAIN s : ExpandedBut(g, map, s[i].node, Range(s[i].todo))
  PROVE  /\ \A i \in DOMAIN Unwind(s) :
              ExpandedBut(g, map, Unwind(s)[i].node, Range(Unwind(s)[i].todo))
         /\ \A i \in DOMAIN s : \/ ExpandedBut(g, map, s[i].node, {})
                                \/ \E j \in DOMAIN Unwind(s) : Unwind(s)[j].node = s[i].node
<1>1. /\ \A i \in DOMAIN Unwind(s) : i \in DOMAIN s /\ Unwind(s)[i] = s[i]
      /\ \A i \in DOMAIN s : i \notin DOMAIN Unwind(s) => s[i].todo = <<>>
  BY UnwindKeeps, Zenon
<1>2. Range(<<>>) = {}
  BY SMTT(30) DEF Range
<1> QED
  BY <1>1, <1>2, Zenon

LEMMA FetchDepExpands ==
  ASSUME OneDirectoryPerName, OncePerManifest, Inv, ExpandInvs, NEW f \in Forcs, FetchDep(f)
  PROVE  ExpandInvs'
<1> DEFINE p == forc[f]
           a == AfterDep(p)
           q == a.plan
           s == a.stack
           rest == Taken(p.stack)
           k == Len(p.stack)
<1>1. PlanInv(p) /\ p.stack # <<>> /\ p.pc = "fetch" /\ WorldInv /\ DOMAIN forc = Forcs
      /\ ExpandInv(p)
  BY FetchDepPlan, Zenon DEF Inv, ExpandInvs
<1> HIDE DEF p
<1>2. /\ a.parent = p.stack[k].node
      /\ SameBut(p, q, {"graph", "map", "fetched"})
      /\ Grown(p.graph, p.map, q.graph, q.map)
      /\ Nodes(q.graph) = Nodes(p.graph) \cup {a.node}
      /\ a.frame.node = a.node /\ Range(a.frame.todo) = DepsOf(q.graph, q.map, a.node)
      /\ s \in Seq(Frames) /\ a.frame \in Frames
  BY <1>1, DepFetched, Zenon
<1>3. /\ p.stack \in Seq(Frames) /\ Top(p.stack).todo # <<>>
      /\ \A i \in DOMAIN p.stack : p.stack[i].node \in Nodes(p.graph)
  BY <1>1, Zenon DEF PlanInv, StackInv
<1>4. /\ a.dep = Head(Top(p.stack).todo) /\ a.new = (a.node \notin p.visited)
      /\ s = IF a.node \in p.visited THEN rest ELSE Append(rest, a.frame)
  BY Zenon DEF AfterDep
<1>5. /\ rest \in Seq(Frames) /\ DOMAIN rest = DOMAIN p.stack /\ Len(rest) = k
      /\ k \in DOMAIN p.stack
      /\ \A i \in DOMAIN p.stack : rest[i].node = p.stack[i].node
      /\ \A i \in DOMAIN p.stack : i # k => rest[i] = p.stack[i]
      /\ Range(p.stack[k].todo) = Range(rest[k].todo) \cup {a.dep}
  <2> HIDE DEF rest, a
  <2> QED
    BY <1>1, <1>3, <1>4, TopTaken, Zenon DEF rest, Top
<1>6. ASSUME NEW n \in Nodes(p.graph), NEW but, ExpandedBut(p.graph, p.map, n, but)
      PROVE  /\ ExpandedBut(q.graph, q.map, n, but)
             /\ n = a.parent => ExpandedBut(q.graph, q.map, n, but \ {a.dep})
  BY <1>1, <1>6, DepKeepsExpanded, Zenon
<1> HIDE DEF a, rest
<1>7. ASSUME NEW i \in DOMAIN p.stack
      PROVE  ExpandedBut(q.graph, q.map, rest[i].node, Range(rest[i].todo))
  <2>1. ExpandedBut(p.graph, p.map, p.stack[i].node, Range(p.stack[i].todo))
    BY <1>1, Zenon DEF ExpandInv
  <2>2. CASE i # k
    BY <1>3, <1>5, <1>6, <2>1, <2>2, Zenon
  <2>3. CASE i = k
    <3>1. ExpandedBut(q.graph, q.map, p.stack[k].node, Range(p.stack[k].todo) \ {a.dep})
      BY <1>2, <1>3, <1>6, <2>1, <2>3, Zenon
    <3> QED
      BY <1>5, <2>3, <3>1, Zenon DEF ExpandedBut
  <2> QED
    BY <2>2, <2>3, Zenon
<1>8. ExpandedBut(q.graph, q.map, a.frame.node, Range(a.frame.todo))
  BY <1>2, Zenon DEF ExpandedBut
<1>9. /\ \A i \in DOMAIN s : \/ i \in DOMAIN p.stack /\ s[i] = rest[i]
                             \/ s[i] = a.frame
      /\ \A i \in DOMAIN p.stack : i \in DOMAIN s /\ s[i].node = p.stack[i].node
      /\ a.node \notin p.visited => \E i \in DOMAIN s : s[i] = a.frame
  <2> HIDE DEF s
  <2>1. CASE a.node \in p.visited
    BY <1>4, <1>5, <2>1, Zenon
  <2>2. CASE a.node \notin p.visited
    <3>1. /\ s = Append(rest, a.frame) /\ k \in Nat /\ DOMAIN rest = 1..k
          /\ DOMAIN s = 1..(k + 1) /\ s[k + 1] = a.frame /\ \A i \in 1..k : s[i] = rest[i]
      BY <1>2, <1>4, <1>5, <2>2, SMTT(30)
    <3> QED
      BY <1>5, <2>2, <3>1, SMTT(30)
  <2> QED
    BY <2>1, <2>2, Zenon
<1>10. \A i \in DOMAIN s : ExpandedBut(q.graph, q.map, s[i].node, Range(s[i].todo))
  BY <1>7, <1>8, <1>9, Zenon
<1> HIDE DEF s
<1>11. /\ \A i \in DOMAIN Unwind(s) :
            ExpandedBut(q.graph, q.map, Unwind(s)[i].node, Range(Unwind(s)[i].todo))
       /\ \A i \in DOMAIN s : \/ ExpandedBut(q.graph, q.map, s[i].node, {})
                              \/ \E j \in DOMAIN Unwind(s) : Unwind(s)[j].node = s[i].node
  BY <1>2, <1>10, UnwoundExpanded, Zenon DEF s
<1>12. ASSUME NEW n \in Nodes(q.graph)
       PROVE  \/ ExpandedBut(q.graph, q.map, n, {})
              \/ \E i \in DOMAIN Unwind(s) : Unwind(s)[i].node = n
              \/ \E x \in Range(p.members) : q.graph.nodes[n] = Pinned(x, MemberPin)
  <2>1. CASE \E i \in DOMAIN s : s[i].node = n
    BY <1>11, <2>1, Zenon
  <2>2. CASE n \in Nodes(p.graph) /\ ~\E i \in DOMAIN s : s[i].node = n
    <3>1. ~\E i \in DOMAIN p.stack : p.stack[i].node = n
      BY <1>9, <2>2, Zenon
    <3>2. \/ ExpandedBut(p.graph, p.map, n, {})
          \/ \E x \in Range(p.members) : p.graph.nodes[n] = Pinned(x, MemberPin)
      BY <1>1, <2>2, <3>1, Zenon DEF ExpandInv
    <3> QED
      BY <1>2, <1>6, <2>2, <3>2, Zenon DEF Grown
  <2>3. CASE n \notin Nodes(p.graph)
    <3>1. n = a.node /\ a.node \notin p.visited
      BY <1>1, <1>2, <2>3, Zenon DEF ExpandInv
    <3> QED
      BY <1>2, <1>9, <2>1, <3>1, Zenon
  <2> QED
    BY <2>1, <2>2, <2>3, Zenon
<1>13. /\ IsForc(q) /\ q.pc = "fetch" /\ q.members = p.members /\ q.visited = p.visited
       /\ p.visited \subseteq Nodes(q.graph) /\ p.visited \cup {a.node} \subseteq Nodes(q.graph)
  BY <1>1, <1>2, Zenon DEF PlanInv, IsForc, SameBut, ExpandInv
<1> HIDE DEF q
<1>14. ASSUME NEW x, x.pc = "fetch", x.graph = q.graph, x.map = q.map, x.members = p.members,
              x.stack = Unwind(s), x.visited \subseteq Nodes(q.graph)
       PROVE  ExpandInv(x)
  BY <1>11, <1>12, <1>14, SMTT(30) DEF ExpandInv
<1>15. ExpandInv([q EXCEPT !.stack = Unwind(s)])
  <2> DEFINE x == [q EXCEPT !.stack = Unwind(s)]
  <2>1. /\ x.pc = "fetch" /\ x.graph = q.graph /\ x.map = q.map /\ x.members = p.members
        /\ x.stack = Unwind(s) /\ x.visited \subseteq Nodes(q.graph)
    BY <1>13, SMTT(30) DEF IsForc
  <2> HIDE DEF x
  <2>2. ExpandInv(x)
    BY <1>14, <2>1, Zenon
  <2> QED
    BY <2>2, SMTT(30) DEF x
<1>16. ExpandInv([q EXCEPT !.visited = q.visited \cup {a.node}, !.stack = Unwind(s)])
  <2> DEFINE x == [q EXCEPT !.visited = q.visited \cup {a.node}, !.stack = Unwind(s)]
  <2>1. /\ x.pc = "fetch" /\ x.graph = q.graph /\ x.map = q.map /\ x.members = p.members
        /\ x.stack = Unwind(s) /\ x.visited \subseteq Nodes(q.graph)
    BY <1>13, Zenon DEF IsForc
  <2> HIDE DEF x
  <2>2. ExpandInv(x)
    BY <1>14, <2>1, SMTT(30)
  <2> QED
    BY <2>2, SMTT(30) DEF x
<1>17. \E x : ExpandInv(x) /\ forc' = [forc EXCEPT ![f] = x]
  BY <1>15, <1>16, NothingToExpand, FetchDepPlan, Zenon DEF p, q, a, s
<1> QED
  BY <1>1, <1>17, OneExpands, Zenon

LEMMA StartExpands ==
  ASSUME Inv, ExpandInvs, NEW f \in Forcs, NEW cmd, NEW locked, Start(f, cmd, locked)
  PROVE  ExpandInvs'
<1> DEFINE mm == [m \in MemberSet |-> files[m]]
           t == ToGraph(ReadLock(lock))
           g == IF cmd = "update" THEN NoGraph
                ELSE RemoveDeps(t, MemberSet, InvalidEdges(t, mm))
           x == [Idle EXCEPT !.pc = "fetch", !.cmd = cmd, !.locked = locked, !.mm = mm,
                    !.read = ReadLock(lock), !.damaged = lock \in {NoLock, Empty, Mixed},
                    !.graph = g, !.map = ManifestMap(g, mm), !.members = Members]
<1>1. forc' = [forc EXCEPT ![f] = x]
  BY Zenon DEF Start
<1>2. DOMAIN mm = MemberSet /\ \A y \in MemberSet : mm[y] \in Manifests[y]
  BY Zenon DEF Inv, WorldInv, Places
<1>3. \A n \in Nodes(g) : \E y \in MemberSet : g.nodes[n] = Pinned(y, MemberPin)
  <2> HIDE DEF mm
  <2>1. CASE cmd = "update"
    BY <2>1, SMTT(30) DEF NoGraph, Nodes
  <2>2. CASE cmd # "update"
    BY <1>2, <2>2, PlanStarts, SMTT(30) DEF Inv, LockInv
  <2> QED
    BY <2>1, <2>2, Zenon
<1> HIDE DEF g, mm
<1>4. x.pc = "fetch" /\ x.graph = g /\ x.members = Members /\ DOMAIN x.stack = {} /\ x.visited = {}
  BY SMTT(30) DEF Idle
<1> HIDE DEF x
<1>5. ExpandInv(x)
  BY <1>3, <1>4, Zenon DEF ExpandInv, MemberSet
<1> QED
  BY <1>1, <1>5, OneExpands, Zenon DEF Inv

LEMMA StartMemberExpands ==
  ASSUME Inv, ExpandInvs, NEW f \in Forcs, StartMember(f)
  PROVE  ExpandInvs'
<1> DEFINE p == forc[f]
           name == Head(p.members)
           pin == Pinned(name, MemberPin)
           q == WithMember(p, name)
           n == ProjNode(q.graph, name)
           frame == Frame(n, pin, q.map[pin].manifest)
           s == <<frame>>
           x == [q EXCEPT !.fetched = Fetched(q.graph, q.map), !.visited = {},
                          !.members = Tail(p.members), !.stack = Unwind(<<frame>>)]
<1>1. forc' = [forc EXCEPT ![f] = x]
  BY Zenon DEF StartMember
<1>2. PlanInv(p) /\ p.pc = "fetch" /\ p.members # <<>> /\ p.stack = <<>> /\ ExpandInv(p)
  BY Zenon DEF StartMember, Inv, ExpandInvs
<1>3. /\ name \in MemberSet /\ p.mm[name] \in Manifests[name] /\ p.members \in Seq(MemberSet)
      /\ \A y \in Range(p.members) : y = name \/ y \in Range(Tail(p.members))
  <2>1. p.members \in Seq(MemberSet) /\ \A y \in MemberSet : p.mm[y] \in Manifests[y]
    BY <1>2, Zenon DEF PlanInv, IsForc
  <2> DEFINE ms == p.members
  <2> HIDE DEF p, ms
  <2>2. \A i \in DOMAIN ms : i = 1 \/ (i - 1 \in DOMAIN Tail(ms) /\ ms[i] = Tail(ms)[i - 1])
    BY <1>2, <2>1, SMTT(30) DEF ms
  <2>3. ms \in Seq(MemberSet) /\ ms # <<>>
    BY <1>2, <2>1, Zenon DEF ms
  <2>4. Head(ms) \in MemberSet /\ Head(ms) = ms[1]
    BY <2>3, SMTT(30)
  <2>5. \A y \in Range(ms) : y = ms[1] \/ y \in Range(Tail(ms))
    <3> DEFINE t == Tail(ms)
    <3>1. \A i \in DOMAIN ms : i = 1 \/ \E j \in DOMAIN t : ms[i] = t[j]
      BY <2>2, Zenon
    <3> HIDE DEF t
    <3>2. \A y \in Range(ms) : y = ms[1] \/ y \in Range(t)
      BY <3>1, SMTT(30) DEF Range
    <3> QED
      BY <3>2, Zenon DEF t
  <2> QED
    BY <2>1, <2>4, <2>5, Zenon DEF ms
<1> HIDE DEF p, name
<1>4. /\ SameBut(p, q, {"graph", "map"})
      /\ GraphInv(q.graph, q.map) /\ Grown(p.graph, p.map, q.graph, q.map)
      /\ q.graph.edges = p.graph.edges
      /\ n \in Nodes(q.graph) /\ q.graph.nodes[n] = pin
      /\ Nodes(q.graph) = Nodes(p.graph) \cup {n}
  BY <1>2, <1>3, MemberAdded, Zenon DEF PlanInv
<1> HIDE DEF q, n
<1>5. IsMap(q.graph, q.map) /\ PinsApart(q.graph) /\ n \in Nat
      /\ Edges(p.graph) \subseteq Nodes(p.graph) \X Nodes(p.graph)
  BY <1>2, <1>4, Zenon DEF PlanInv, GraphInv, Pinnings, IsGraph
<1>6. pin \in Roots
  BY <1>3, Zenon DEF Roots, Names, Pinned
<1>7. s \in Seq(Frames) /\ frame.node = n
  <2>1. q.map[pin].manifest.deps \in Seq(Dependencies)
    BY <1>4, <1>5, DepsAreDependencies, Zenon
  <2> HIDE DEF pin
  <2> QED
    BY <1>5, <1>6, <2>1, SMTT(30) DEF Frames, Frame
<1>8. Range(frame.todo) = DepsOf(q.graph, q.map, n)
  BY <1>4, Zenon DEF Frame, DepsOf
<1>9. ExpandedBut(q.graph, q.map, n, Range(frame.todo))
  BY <1>8, Zenon DEF ExpandedBut
<1> HIDE DEF frame
<1>10. DOMAIN s = {1} /\ s[1] = frame
  BY SMTT(30)
<1> HIDE DEF s
<1>11. /\ \A i \in DOMAIN Unwind(s) :
            ExpandedBut(q.graph, q.map, Unwind(s)[i].node, Range(Unwind(s)[i].todo))
       /\ \/ ExpandedBut(q.graph, q.map, n, {})
          \/ \E j \in DOMAIN Unwind(s) : Unwind(s)[j].node = n
  <2>1. \A i \in DOMAIN s : ExpandedBut(q.graph, q.map, s[i].node, Range(s[i].todo))
    BY <1>7, <1>9, <1>10, Zenon
  <2>2. 1 \in DOMAIN s /\ s[1].node = n
    BY <1>7, <1>10, Zenon
  <2> QED
    BY <1>7, <2>1, <2>2, UnwoundExpanded, Zenon
<1>12. ASSUME NEW m \in Nodes(q.graph)
       PROVE  \/ ExpandedBut(q.graph, q.map, m, {})
              \/ \E i \in DOMAIN Unwind(s) : Unwind(s)[i].node = m
              \/ \E y \in Range(Tail(p.members)) : q.graph.nodes[m] = Pinned(y, MemberPin)
  <2>1. CASE m = n
    BY <1>11, <2>1, Zenon
  <2>2. CASE m # n
    <3>1. m \in Nodes(p.graph) /\ q.graph.nodes[m] = p.graph.nodes[m]
      BY <1>4, <2>2, Zenon DEF Grown
    <3>2. q.graph.nodes[m] # pin
      BY <1>4, <1>5, <2>2, Zenon DEF PinsApart
    <3>3. \/ ExpandedBut(p.graph, p.map, m, {})
          \/ \E y \in Range(p.members) : p.graph.nodes[m] = Pinned(y, MemberPin)
      BY <1>2, <3>1, SMTT(30) DEF ExpandInv
    <3>4. ExpandedBut(p.graph, p.map, m, {}) => ExpandedBut(q.graph, q.map, m, {})
      BY <1>4, <1>5, <3>1, ExpandedGrows, Zenon
    <3> QED
      BY <1>3, <3>1, <3>2, <3>3, <3>4, Zenon
  <2> QED
    BY <2>1, <2>2, Zenon
<1>13. IsForc(q) /\ q.pc = "fetch"
  BY <1>2, <1>4, Zenon DEF PlanInv, IsForc, SameBut
<1>14. /\ x.pc = "fetch" /\ x.graph = q.graph /\ x.map = q.map /\ x.visited = {}
       /\ x.members = Tail(p.members) /\ x.stack = Unwind(s)
  BY <1>13, SMTT(30) DEF IsForc, s
<1> HIDE DEF x
<1>15. ExpandInv(x)
  BY <1>11, <1>12, <1>14, Zenon DEF ExpandInv
<1> QED
  BY <1>1, <1>15, OneExpands, Zenon DEF Inv, p

\* Steps that leave graph, map, stack, members and visited as they are.
LEMMA SameExpands ==
  ASSUME NEW p, ExpandInv(p), NEW x, x.graph = p.graph, x.map = p.map, x.stack = p.stack,
         x.members = p.members, x.visited = p.visited,
         x.pc \in {"truncate", "fill", "planned"} => p.stack = <<>> /\ p.members = <<>>
  PROVE  ExpandInv(x)
BY Zenon DEF ExpandInv

LEMMA ExpandStep ==
  ASSUME OneDirectoryPerName, OncePerManifest, Inv, ExpandInvs, [Next]_vars
  PROVE  ExpandInvs'
<1>1. DOMAIN forc = Forcs /\ \A f \in Forcs : IsForc(forc[f]) /\ ExpandInv(forc[f])
  BY Zenon DEF Inv, PlanInv, ExpandInvs
<1>2. ASSUME NEW f \in Forcs, EndFetch(f) \/ TruncateLock(f) \/ FillLock(f)
      PROVE  ExpandInvs'
  <2>1. /\ forc[f].stack = <<>> /\ forc[f].members = <<>>
        /\ \/ forc' = [forc EXCEPT ![f] = Idle]
           \/ \E pc \in {"truncate", "fill", "planned"} :
                forc' = [forc EXCEPT ![f] = [forc[f] EXCEPT !.pc = pc]]
    BY <1>1, <1>2, Zenon DEF EndFetch, TruncateLock, FillLock, ExpandInv
  <2>2. ASSUME NEW pc PROVE ExpandInv([forc[f] EXCEPT !.pc = pc])
    <3> DEFINE x == [forc[f] EXCEPT !.pc = pc]
    <3>1. /\ x.graph = forc[f].graph /\ x.map = forc[f].map /\ x.stack = forc[f].stack
          /\ x.members = forc[f].members /\ x.visited = forc[f].visited
      BY <1>1, SMTT(30) DEF IsForc
    <3> HIDE DEF x
    <3>2. ExpandInv(x)
      BY <1>1, <2>1, <3>1, SameExpands, Zenon
    <3> QED
      BY <3>2, SMTT(30) DEF x
  <2>3. \E x : ExpandInv(x) /\ forc' = [forc EXCEPT ![f] = x]
    BY <2>1, <2>2, NothingToExpand, Zenon
  <2> QED
    BY <1>1, <2>3, OneExpands, Zenon
<1>3. ASSUME NEW f \in Forcs, FetchFails(f) \/ Kill(f) \/ EndBuild(f)
      PROVE  ExpandInvs'
  <2>1. forc' = [forc EXCEPT ![f] = Idle]
    BY <1>3, Zenon DEF FetchFails, Kill, EndBuild
  <2> QED
    BY <1>1, <2>1, NothingToExpand, OneExpands, Zenon
<1>4. ASSUME NEW f \in Forcs, NEW n, Compile(f, n)
      PROVE  ExpandInvs'
  <2>1. PICK b : forc' = [forc EXCEPT ![f].build = b]
    BY <1>4, Zenon DEF Compile
  <2> DEFINE x == [forc[f] EXCEPT !.build = b]
  <2>2. /\ x.graph = forc[f].graph /\ x.map = forc[f].map /\ x.stack = forc[f].stack
        /\ x.members = forc[f].members /\ x.visited = forc[f].visited /\ x.pc = forc[f].pc
    BY <1>1, SMTT(30) DEF IsForc
  <2>3. forc' = [forc EXCEPT ![f] = x]
    BY <2>1, Zenon
  <2> HIDE DEF x
  <2>4. ExpandInv(x)
    <3>1. x.pc \in {"truncate", "fill", "planned"} => forc[f].stack = <<>> /\ forc[f].members = <<>>
      BY <1>1, <2>2, Zenon DEF ExpandInv
    <3> QED
      BY <1>1, <2>2, <3>1, SameExpands, Zenon
  <2> QED
    BY <1>1, <2>3, <2>4, OneExpands, Zenon
<1>5. ASSUME UNCHANGED forc PROVE ExpandInvs'
  BY <1>5, Zenon DEF ExpandInvs
<1>6. CASE Next
  <2>1. \/ \E f \in Forcs : FetchDep(f) \/ StartMember(f)
        \/ \E f \in Forcs, cmd \in {"build", "update"}, locked \in BOOLEAN : Start(f, cmd, locked)
        \/ \E f \in Forcs : EndFetch(f) \/ TruncateLock(f) \/ FillLock(f)
        \/ \E f \in Forcs : FetchFails(f) \/ Kill(f) \/ EndBuild(f)
        \/ \E f \in Forcs : \E n : Compile(f, n)
        \/ UNCHANGED forc
    BY <1>6, Zenon DEF Next, MoveHead, EditManifest
  <2> QED
    BY <1>2, <1>3, <1>4, <1>5, <2>1, FetchDepExpands, StartMemberExpands, StartExpands, Zenon
<1>7. CASE UNCHANGED vars
  BY <1>5, <1>7, Zenon DEF vars
<1> QED
  BY <1>6, <1>7, Zenon

(* A plan is what the manifests say, from any lock file and with any number *)
(* of members and dependencies: every dependency of a manifest has its      *)
(* edge, every edge is such a dependency, and every package is needed by a  *)
(* member (from_lock_and_manifests, fetch_deps).                            *)
THEOREM PlansFollowManifests ==
  ASSUME OneDirectoryPerName, OncePerManifest
  PROVE  Spec => []PlanFollowsManifests
<1>1. Init => ExpandInvs
  BY NothingToExpand, Zenon DEF Init, ExpandInvs
<1>2. Inv /\ ExpandInvs /\ [Next]_vars => ExpandInvs'
  BY ExpandStep, Zenon
<1>3. Inv /\ ExpandInvs => PlanFollowsManifests
  <2> SUFFICES ASSUME Inv, ExpandInvs, NEW f \in Forcs, HasPlan(f)
               PROVE  LET g == forc[f].graph
                          map == forc[f].map IN
                      /\ \A n \in Nodes(g) :
                           /\ g.nodes[n] \in DOMAIN map
                           /\ \A d \in DepsOf(g, map, n) : \E e \in OutOf(g, n) : Meant(g, map, e, d)
                           /\ \A e \in OutOf(g, n) : \E d \in DepsOf(g, map, n) : Meant(g, map, e, d)
                      /\ ReachFrom(g, {n \in MemberNodes(g) : g.nodes[n][1] \in MemberSet}) = Nodes(g)
    BY Zenon DEF PlanFollowsManifests
  <2> DEFINE g == forc[f].graph
             map == forc[f].map
  <2>1. /\ IsMap(g, map) /\ EdgesMeant(g, map) /\ Needed(g) /\ ExpandInv(forc[f])
    BY Zenon DEF Inv, PlanInv, GraphInv, Pinnings, ExpandInvs
  <2>2. forc[f].stack = <<>> /\ forc[f].members = <<>>
    BY <2>1, Zenon DEF HasPlan, ExpandInv
  <2>3. \A n \in Nodes(g) : ExpandedBut(g, map, n, {})
    <3>1. DOMAIN <<>> = {} /\ Range(<<>>) = {}
      BY SMTT(30) DEF Range
    <3> QED
      BY <2>1, <2>2, <3>1, Zenon DEF ExpandInv
  <2> HIDE DEF g, map
  <2>4. {n \in MemberNodes(g) : g.nodes[n][1] \in MemberSet} = MemberNodes(g)
    BY <2>1, Zenon DEF IsMap, EntryOK, MemberNodes
  <2>5. ReachFrom(g, {n \in MemberNodes(g) : g.nodes[n][1] \in MemberSet}) = Nodes(g)
    BY <2>1, <2>4, Zenon DEF Needed
  <2>6. \A n \in Nodes(g) :
          /\ g.nodes[n] \in DOMAIN map
          /\ \A d \in DepsOf(g, map, n) : \E e \in OutOf(g, n) : Meant(g, map, e, d)
          /\ \A e \in OutOf(g, n) : \E d \in DepsOf(g, map, n) : Meant(g, map, e, d)
    BY <2>1, <2>3, Zenon DEF IsMap, EdgesMeant, ExpandedBut, OutOf
  <2> QED
    BY <2>5, <2>6, Zenon DEF g, map
<1> QED
  BY <1>1, <1>2, <1>3, PlansInOrder, PTL DEF Spec

-----------------------------------------------------------------------------
(* Kinds of dependencies and the order of compilation.                      *)

LEMMA TypesGrow ==
  ASSUME NEW p, NEW x, Grown(p.graph, p.map, x.graph, x.map), NEW n \in Nodes(p.graph)
  PROVE  TypeAt(x, n) = TypeAt(p, n)
BY Zenon DEF Grown, TypeAt

LEMMA NoKinds == KindInv(Idle)
<1>1. Idle.graph = NoGraph /\ Idle.visited = {} /\ Idle.build = NoBuild
  BY SMTT(30) DEF Idle
<1>2. Edges(NoGraph) = {} /\ NoBuild.compiled = {}
  BY SMTT(30) DEF NoGraph, Edges, NoBuild
<1> QED
  BY <1>1, <1>2, Zenon DEF KindInv

LEMMA OneKind ==
  ASSUME DOMAIN forc = Forcs, KindInvs, NEW f \in Forcs, NEW x, KindInv(x),
         forc' = [forc EXCEPT ![f] = x]
  PROVE  KindInvs'
BY SMTT(30) DEF KindInvs

\* The kind of a dependency that was visited is that of the first visit.
LEMMA FetchDepKinds ==
  ASSUME OneDirectoryPerName, KindsAgree, Inv, KindInvs, NEW f \in Forcs, FetchDep(f)
  PROVE  KindInvs'
<1> DEFINE p == forc[f]
           a == AfterDep(p)
           q == a.plan
           s == Unwind(a.stack)
           new == <<a.parent, a.node>>
<1>1. PlanInv(p) /\ p.stack # <<>> /\ p.pc = "fetch" /\ WorldInv /\ DOMAIN forc = Forcs
      /\ KindInv(p)
  BY FetchDepPlan, Zenon DEF Inv, KindInvs
<1> HIDE DEF p
<1>2. /\ SameBut(p, q, {"graph", "map", "fetched"})
      /\ Grown(p.graph, p.map, q.graph, q.map)
      /\ Nodes(q.graph) = Nodes(p.graph) \cup {a.node}
      /\ PkgOf(q.graph, q.map, a.node) = <<a.dep.pkg, a.dep.at>>
      /\ Edges(q.graph) = Edges(p.graph) \cup {new} /\ q.graph.edges[new] = Edge(a.dep)
      /\ \A e \in Edges(p.graph) : e # new => q.graph.edges[e] = p.graph.edges[e]
      /\ a.parent \in Nodes(p.graph) /\ a.dep \in DepsOf(p.graph, p.map, a.parent)
  BY <1>1, DepFetched, Zenon
<1>3. Edges(p.graph) \subseteq Nodes(p.graph) \X Nodes(p.graph) /\ a.dep \in Dependencies
  BY <1>1, <1>2, DepsAreDependencies, Zenon DEF PlanInv, GraphInv, Pinnings, IsGraph
<1>4. a.new = (a.node \notin p.visited)
  BY Zenon DEF AfterDep
<1> HIDE DEF a
<1>5. /\ IsForc(q) /\ q.pc = "fetch" /\ q.visited = p.visited
      /\ q.build = NoBuild
  BY <1>1, <1>2, Zenon DEF PlanInv, IsForc, SameBut, KindInv
<1>6. new[2] = a.node /\ q.graph.edges[new].kind = a.dep.kind
  <2>1. new[2] = a.node
    BY Zenon
  <2>2. q.graph.edges[new].kind = a.dep.kind
    <3>1. Edge(a.dep).kind = a.dep.kind
      BY Zenon DEF Edge
    <3> HIDE DEF new
    <3> QED
      BY <1>2, <3>1, Zenon
  <2> QED
    BY <2>1, <2>2, Zenon
<1>7. \A n \in Nodes(p.graph) : TypeAt(q, n) = TypeAt(p, n)
                                /\ PkgOf(q.graph, q.map, n) = PkgOf(p.graph, p.map, n)
  BY <1>2, TypesGrow, GrownKeeps, SMTT(30)
<1> HIDE DEF new, q, s
<1>8. \A e \in Edges(p.graph) : e # new => q.graph.edges[e].kind = TypeAt(q, e[2])
  BY <1>1, <1>2, <1>3, <1>7, Zenon DEF KindInv
<1>9. p.visited \subseteq Nodes(p.graph)
      /\ \A n \in p.visited : \E d \in Dependencies :
           PkgOf(q.graph, q.map, n) = <<d.pkg, d.at>> /\ d.kind = TypeAt(q, n)
  BY <1>1, <1>7, Zenon DEF KindInv
<1>10. ~a.new => a.dep.kind = TypeAt(q, a.node)
  <2> SUFFICES ASSUME ~a.new PROVE a.dep.kind = TypeAt(q, a.node)
    BY Zenon
  <2>1. a.node \in p.visited
    BY <1>4, Zenon
  <2>2. PICK d \in Dependencies :
          PkgOf(q.graph, q.map, a.node) = <<d.pkg, d.at>> /\ d.kind = TypeAt(q, a.node)
    BY <1>9, <2>1, Zenon
  <2>3. d.pkg = a.dep.pkg /\ d.at = a.dep.at
    BY <1>2, <2>2, SMTT(30)
  <2> QED
    BY <1>3, <2>2, <2>3, Zenon DEF KindsAgree
<1>11. ASSUME NEW x, x.pc = "fetch", x.graph = q.graph, x.map = q.map, x.build = NoBuild,
              x.visited \subseteq p.visited \cup {a.node}, a.dep.kind = TypeAt(q, a.node)
       PROVE  KindInv(x)
  <2>1. \A n : TypeAt(x, n) = TypeAt(q, n)
    BY <1>11, Zenon DEF TypeAt
  <2>2. \A e \in Edges(x.graph) : x.graph.edges[e].kind = TypeAt(x, e[2])
    BY <1>2, <1>6, <1>8, <1>11, <2>1, SMTT(30)
  <2>3. \A n \in x.visited : \E d \in Dependencies :
          PkgOf(x.graph, x.map, n) = <<d.pkg, d.at>> /\ d.kind = TypeAt(x, n)
    BY <1>2, <1>3, <1>9, <1>11, <2>1, Zenon
  <2>4. x.visited \subseteq Nodes(x.graph)
    BY <1>2, <1>9, <1>11, Zenon
  <2>5. x.build.compiled = {}
    BY <1>11, SMTT(30) DEF NoBuild
  <2> QED
    BY <1>11, <2>2, <2>3, <2>4, <2>5, Zenon DEF KindInv
<1>12. CASE ~a.new /\ forc' = [forc EXCEPT ![f] = [q EXCEPT !.stack = s]]
  <2> DEFINE x == [q EXCEPT !.stack = s]
  <2>1. x.pc = "fetch" /\ x.graph = q.graph /\ x.map = q.map /\ x.build = NoBuild
        /\ x.visited = p.visited
    BY <1>5, SMTT(30) DEF IsForc
  <2>2. forc' = [forc EXCEPT ![f] = x]
    BY <1>12, Zenon
  <2> HIDE DEF x
  <2>3. KindInv(x)
    BY <1>10, <1>11, <1>12, <2>1, Zenon
  <2> QED
    BY <1>1, <2>2, <2>3, OneKind, Zenon
<1>13. CASE /\ q.map[q.graph.nodes[a.node]].manifest.type = a.dep.kind
            /\ forc' = [forc EXCEPT ![f] =
                 [q EXCEPT !.visited = q.visited \cup {a.node}, !.stack = s]]
  <2> DEFINE x == [q EXCEPT !.visited = q.visited \cup {a.node}, !.stack = s]
  <2>1. x.pc = "fetch" /\ x.graph = q.graph /\ x.map = q.map /\ x.build = NoBuild
        /\ x.visited = p.visited \cup {a.node}
    BY <1>5, SMTT(30) DEF IsForc
  <2>2. forc' = [forc EXCEPT ![f] = x]
    BY <1>13, Zenon
  <2> HIDE DEF x
  <2>3. a.dep.kind = TypeAt(q, a.node)
    BY <1>13, Zenon DEF TypeAt
  <2>4. KindInv(x)
    BY <1>11, <2>1, <2>3, Zenon
  <2> QED
    BY <1>1, <2>2, <2>4, OneKind, Zenon
<1>14. CASE forc' = [forc EXCEPT ![f] = Idle]
  BY <1>1, <1>14, NoKinds, OneKind, Zenon
<1> QED
  BY <1>12, <1>13, <1>14, FetchDepPlan, Zenon DEF p, q, a, s, DepManifestOK

LEMMA StartKinds ==
  ASSUME Inv, KindInvs, NEW f \in Forcs, NEW cmd, NEW locked, Start(f, cmd, locked)
  PROVE  KindInvs'
<1> DEFINE mm == [m \in MemberSet |-> files[m]]
           t == ToGraph(ReadLock(lock))
           g == IF cmd = "update" THEN NoGraph
                ELSE RemoveDeps(t, MemberSet, InvalidEdges(t, mm))
           x == [Idle EXCEPT !.pc = "fetch", !.cmd = cmd, !.locked = locked, !.mm = mm,
                    !.read = ReadLock(lock), !.damaged = lock \in {NoLock, Empty, Mixed},
                    !.graph = g, !.map = ManifestMap(g, mm), !.members = Members]
<1>1. forc' = [forc EXCEPT ![f] = x]
  BY SMTT(30) DEF Start
<1>2. DOMAIN mm = MemberSet /\ \A y \in MemberSet : mm[y] \in Manifests[y]
  BY SMTT(30) DEF Inv, WorldInv, Places
<1>3. Edges(g) = {}
  <2> HIDE DEF mm
  <2>1. CASE cmd = "update"
    BY <2>1, SMTT(30) DEF NoGraph, Edges
  <2>2. CASE cmd # "update"
    BY <1>2, <2>2, PlanStarts, Zenon DEF Inv, LockInv
  <2> QED
    BY <2>1, <2>2, Zenon
<1> HIDE DEF g, mm
<1>4. x.graph = g /\ x.visited = {} /\ x.build = NoBuild /\ NoBuild.compiled = {}
  BY SMTT(30) DEF Idle, NoBuild
<1> HIDE DEF x
<1>5. KindInv(x)
  BY <1>3, <1>4, Zenon DEF KindInv
<1> QED
  BY <1>1, <1>5, OneKind, Zenon DEF Inv

LEMMA StartMemberKinds ==
  ASSUME Inv, KindInvs, NEW f \in Forcs, StartMember(f)
  PROVE  KindInvs'
<1> DEFINE p == forc[f]
           name == Head(p.members)
           q == WithMember(p, name)
<1>1. PICK fetched, stack :
        forc' = [forc EXCEPT ![f] = [q EXCEPT !.fetched = fetched, !.visited = {},
                                              !.members = Tail(p.members), !.stack = stack]]
  BY Zenon DEF StartMember
<1>2. PlanInv(p) /\ p.pc = "fetch" /\ p.members # <<>> /\ KindInv(p)
  BY Zenon DEF StartMember, Inv, KindInvs
<1>3. name \in MemberSet /\ p.mm[name] \in Manifests[name]
  BY <1>2, SMTT(30) DEF PlanInv, IsForc
<1> DEFINE x == [q EXCEPT !.fetched = fetched, !.visited = {},
                          !.members = Tail(p.members), !.stack = stack]
<1> HIDE DEF p, name
<1>4. /\ SameBut(p, q, {"graph", "map"}) /\ Grown(p.graph, p.map, q.graph, q.map)
      /\ q.graph.edges = p.graph.edges
  BY <1>2, <1>3, MemberAdded, Zenon DEF PlanInv
<1>5. Edges(p.graph) \subseteq Nodes(p.graph) \X Nodes(p.graph)
  BY <1>2, Zenon DEF PlanInv, GraphInv, Pinnings, IsGraph
<1> HIDE DEF q
<1>6. IsForc(q) /\ q.pc = "fetch" /\ q.build = NoBuild
  BY <1>2, <1>4, Zenon DEF PlanInv, IsForc, SameBut, KindInv
<1>7. /\ x.pc = "fetch" /\ x.graph = q.graph /\ x.map = q.map /\ x.visited = {}
      /\ x.build = NoBuild /\ NoBuild.compiled = {}
  BY <1>6, SMTT(30) DEF IsForc, NoBuild
<1>8. forc' = [forc EXCEPT ![f] = x]
  BY <1>1, SMTT(30)
<1> HIDE DEF x
<1>9. \A e \in Edges(x.graph) : x.graph.edges[e].kind = TypeAt(x, e[2])
  <2>1. \A n \in Nodes(p.graph) : TypeAt(x, n) = TypeAt(p, n)
    BY <1>4, <1>7, TypesGrow, Zenon
  <2>2. Edges(x.graph) = Edges(p.graph) /\ x.graph.edges = p.graph.edges
    BY <1>4, <1>7, Zenon DEF Edges
  <2> QED
    BY <1>2, <1>5, <2>1, <2>2, SMTT(30) DEF KindInv
<1>10. KindInv(x)
  BY <1>7, <1>9, Zenon DEF KindInv
<1> QED
  BY <1>8, <1>10, OneKind, Zenon DEF Inv, p

LEMMA BuildKinds ==
  ASSUME Inv, KindInvs, NEW f \in Forcs,
         \/ EndFetch(f) \/ TruncateLock(f) \/ FillLock(f)
         \/ \E n : Compile(f, n)
  PROVE  KindInvs'
<1> DEFINE p == forc[f]
<1>1. DOMAIN forc = Forcs /\ IsForc(p) /\ KindInv(p)
  BY Zenon DEF Inv, PlanInv, KindInvs
<1>2. ASSUME NEW x, x.graph = p.graph, x.map = p.map
      PROVE  \A n : TypeAt(x, n) = TypeAt(p, n)
  BY <1>2, Zenon DEF TypeAt
<1>3. CASE EndFetch(f) \/ TruncateLock(f) \/ FillLock(f)
  <2>1. /\ p.build = NoBuild
        /\ \/ forc' = [forc EXCEPT ![f] = Idle]
           \/ \E pc : forc' = [forc EXCEPT ![f] = [forc[f] EXCEPT !.pc = pc]]
    BY <1>1, <1>3, Zenon DEF EndFetch, TruncateLock, FillLock, KindInv
  <2>2. ASSUME NEW pc PROVE KindInv([p EXCEPT !.pc = pc])
    <3> DEFINE x == [p EXCEPT !.pc = pc]
    <3>1. /\ x.graph = p.graph /\ x.map = p.map /\ x.visited = p.visited /\ x.build = p.build
      BY <1>1, Zenon DEF IsForc
    <3> HIDE DEF x
    <3>2. \A n : TypeAt(x, n) = TypeAt(p, n)
      BY <1>2, <3>1, Zenon
    <3>3. KindInv(x)
      BY <1>1, <2>1, <3>1, <3>2, SMTT(30) DEF KindInv
    <3> QED
      BY <3>3, SMTT(30) DEF x
  <2>3. \E x : KindInv(x) /\ forc' = [forc EXCEPT ![f] = x]
    BY <2>1, <2>2, NoKinds, Zenon
  <2> QED
    BY <1>1, <2>3, OneKind, Zenon
<1>4. CASE \E n : Compile(f, n)
  <2>1. PICK n : Compile(f, n)
    BY <1>4, Zenon
  <2> DEFINE b == p.build
  <2> DEFINE libs == IF TypeAt(p, n) = "library" THEN b.libs \cup {n} ELSE b.libs
             Built(ids, id, given) == [compiled |-> b.compiled \cup {n}, libs |-> libs,
                                       ids |-> ids, id |-> id, given |-> given]
  <2>8. \E ids, id, given : forc' = [forc EXCEPT ![f].build = Built(ids, id, given)]
    BY <2>1, Zenon DEF Compile, TypeAt
  <2>9. \A ids, id, given : /\ Built(ids, id, given).compiled = b.compiled \cup {n}
                            /\ Built(ids, id, given).libs = libs
    BY Zenon
  <2> HIDE DEF Built
  <2>10. PICK ids, id, given : forc' = [forc EXCEPT ![f].build = Built(ids, id, given)]
    BY <2>8, Zenon
  <2> DEFINE c == Built(ids, id, given)
  <2>2. /\ c.compiled = b.compiled \cup {n} /\ c.libs = libs
        /\ forc' = [forc EXCEPT ![f].build = c]
    BY <2>9, <2>10, Zenon
  <2> HIDE DEF c
  <2>3. n \in Nodes(p.graph) /\ p.pc = "planned"
    BY <2>1, Zenon DEF Compile, NextInOrder
  <2> DEFINE x == [p EXCEPT !.build = c]
  <2>4. /\ x.graph = p.graph /\ x.map = p.map /\ x.visited = p.visited /\ x.build = c
        /\ x.pc = "planned"
    BY <1>1, <2>3, SMTT(30) DEF IsForc
  <2>5. forc' = [forc EXCEPT ![f] = x]
    BY <2>2, Zenon
  <2> HIDE DEF x, p
  <2>6. \A m : TypeAt(x, m) = TypeAt(p, m)
    BY <1>2, <2>4, Zenon
  <2>7. KindInv(x)
    BY <1>1, <2>2, <2>3, <2>4, <2>6, SMTT(30) DEF KindInv
  <2> QED
    BY <1>1, <2>5, <2>7, OneKind, Zenon
<1> QED
  BY <1>3, <1>4, Zenon

LEMMA KindStep ==
  ASSUME OneDirectoryPerName, KindsAgree, Inv, KindInvs, [Next]_vars
  PROVE  KindInvs'
<1>1. ASSUME UNCHANGED forc PROVE KindInvs'
  BY <1>1, SMTT(30) DEF KindInvs
<1>2. ASSUME NEW f \in Forcs, FetchFails(f) \/ Kill(f) \/ EndBuild(f)
      PROVE  KindInvs'
  <2>1. forc' = [forc EXCEPT ![f] = Idle] /\ DOMAIN forc = Forcs
    BY <1>2, Zenon DEF FetchFails, Kill, EndBuild, Inv
  <2> QED
    BY <2>1, NoKinds, OneKind, Zenon
<1>3. CASE Next
  <2>1. \/ \E f \in Forcs : FetchDep(f) \/ StartMember(f)
        \/ \E f \in Forcs, cmd \in {"build", "update"}, locked \in BOOLEAN : Start(f, cmd, locked)
        \/ \E f \in Forcs : \/ EndFetch(f) \/ TruncateLock(f) \/ FillLock(f)
                            \/ \E n : Compile(f, n)
        \/ \E f \in Forcs : FetchFails(f) \/ Kill(f) \/ EndBuild(f)
        \/ UNCHANGED forc
    BY <1>3, Zenon DEF Next, MoveHead, EditManifest
  <2> QED
    BY <1>1, <1>2, <2>1, FetchDepKinds, StartMemberKinds, StartKinds, BuildKinds, Zenon
<1>4. CASE UNCHANGED vars
  BY <1>1, <1>4, SMTT(30) DEF vars
<1> QED
  BY <1>3, <1>4, SMTT(30)

(* When the turn of a package comes, its libraries have been compiled and   *)
(* their namespaces kept, for every graph: the expect of                    *)
(* dependency_namespace is never reached without them.                      *)
THEOREM NamespacesReady ==
  ASSUME OneDirectoryPerName, KindsAgree
  PROVE  Spec => []NamespaceReady
<1>1. Init => KindInvs
  BY NoKinds, SMTT(30) DEF Init, KindInvs
<1>2. Inv /\ KindInvs /\ [Next]_vars => KindInvs'
  BY KindStep, SMTT(30)
<1>3. KindInvs => NamespaceReady
  <2> SUFFICES ASSUME KindInvs, NEW f \in Forcs, forc[f].pc = "planned",
                      NEW n \in NextInOrder(forc[f].graph, forc[f].build.compiled),
                      NEW e \in OutOf(forc[f].graph, n),
                      forc[f].graph.edges[e].kind = "library"
               PROVE  e[2] \in forc[f].build.libs
    BY Zenon DEF NamespaceReady, NamespaceMissing
  <2>1. KindInv(forc[f])
    BY Zenon DEF KindInvs
  <2>2. e[2] \in forc[f].build.compiled /\ e \in Edges(forc[f].graph)
    BY Zenon DEF NextInOrder, OutOf
  <2>3. TypeAt(forc[f], e[2]) = "library"
    BY <2>1, <2>2, Zenon DEF KindInv
  <2> QED
    BY <2>1, <2>2, <2>3, Zenon DEF KindInv
<1> QED
  BY <1>1, <1>2, <1>3, PlansInOrder, PTL DEF Spec
=============================================================================
