---------------------------- MODULE PackageGraph -----------------------------
(* The build plan of forc-pkg (pkg.rs, lock.rs): the graph of pinned        *)
(* packages is read from Forc.lock, what does not validate is removed, the  *)
(* rest is fetched from the manifests dependency by dependency, the lock    *)
(* file is written anew when it differs, and the packages are compiled in   *)
(* the order of the graph.                                                  *)
(*                                                                          *)
(* Several forc processes (forc build, forc update, the language server)    *)
(* plan in one workspace while branches move and manifests are edited.  A   *)
(* step is one dependency fetched, one file operation on the lock file or   *)
(* one package compiled.                                                    *)
EXTENDS Naturals, Sequences, FiniteSets, FiniteSetsExt

CONSTANTS
  Forcs,          \* processes
  Members,        \* the workspace members, in the order of their names
  Paths,          \* directories of packages that are not members
  Repos,          \* git sources: a repository and a reference
  Manifests,      \* place -> the manifests it may have
  FirstManifest,  \* place -> the one it has at first
  RepoManifest,   \* git source -> commit -> the manifest found there
  LastCommit,     \* git source -> the last commit its reference moves to
  MaxPlans, MaxEdits,
  NoLock, Empty, Mixed  \* no Forc.lock, a truncated one, one that does not parse

VARIABLES
  files,   \* place -> the manifest on disk
  heads,   \* git source -> the commit its reference names now
  lock,    \* Forc.lock
  forc,    \* process -> what it is doing
  plans, edits

vars == <<files, heads, lock, forc, plans, edits>>

MemberSet == Range(Members)
Places == MemberSet \cup Paths

\* insert of a map.
Put(f, k, v) == [x \in DOMAIN f \cup {k} |-> IF x = k THEN v ELSE f[x]]
Noone == 0

(* A dependency of a manifest: its name there, the package's name, its      *)
(* source with patches applied, whether it is a contract dependency, and    *)
(* its salt.  deps lists the contract dependencies first, as fetch_deps     *)
(* visits them.                                                             *)
Libraries(m) == {d \in Range(m.deps) : d.kind = "library"}

(* PackageManifest::validate: no dependency has the project's own name.     *)
ValidManifest(m) == \A d \in Libraries(m) : d.as # m.name /\ d.pkg # m.name

\* A manifest that does not validate ends every command before it plans.
ASSUME ManifestsAssumption ==
  \A place \in DOMAIN Manifests : \A m \in Manifests[place] : ValidManifest(m)

AllManifests ==
  (UNION {Manifests[x] : x \in Places})
    \cup (UNION {{RepoManifest[r][c] : c \in 1..LastCommit[r]} : r \in Repos})
Dependencies == UNION {Range(m.deps) : m \in AllManifests}

(* A place is a member, another directory or a git source, and a member is  *)
(* known by the name in its manifest (WorkspaceManifestFile keeps a map     *)
(* from names to manifests).                                                *)
ASSUME PlacesAssumption ==
  /\ Members \in Seq(MemberSet)
  /\ MemberSet \cap Paths = {} /\ Places \cap Repos = {}
  /\ Places = DOMAIN Manifests
  /\ FirstManifest \in [Places -> AllManifests]
  /\ \A x \in Places : FirstManifest[x] \in Manifests[x]
  /\ \A x \in MemberSet : \A m \in Manifests[x] : m.name = x
  /\ \A r \in Repos : LastCommit[r] \in Nat \ {0}
  /\ \A m \in AllManifests : m.deps \in Seq(Dependencies)
  /\ \A d \in Dependencies : d.at \in Places \cup Repos

(* What planning takes for granted of the manifests and does not check.     *)

(* A name stands for one directory, and a member goes by its own name: a    *)
(* package that is pinned to a path has no trace of the directory in it.    *)
OneDirectoryPerName ==
  \A d1 \in Dependencies :
    /\ d1.at \in MemberSet => d1.pkg = d1.at
    /\ \A d2 \in Dependencies :
         d1.at \in Places /\ d2.at \in Places /\ d1.pkg = d2.pkg => d1.at = d2.at

(* A manifest names a package once: the graph has one edge between two      *)
(* packages, and a second dependency replaces it.                           *)
OncePerManifest ==
  \A m \in AllManifests : \A d1, d2 \in Range(m.deps) :
    d1.pkg = d2.pkg /\ d1.at = d2.at => d1 = d2

(* A package is a library to all that depend on it or a contract to all: a  *)
(* dependency is validated on the first visit only.                         *)
KindsAgree ==
  \A d1, d2 \in Dependencies : d1.pkg = d2.pkg /\ d1.at = d2.at => d1.kind = d2.kind

-----------------------------------------------------------------------------
(* Graphs of pinned packages.  A pinned package is its name and where it is *)
(* pinned: to the workspace, to a commit, or to the package its chain of    *)
(* path dependencies starts from.  The id of a package is a hash of both.   *)
MemberPin == <<"member">>
PathPin(root) == <<"path", root>>
GitPin(r, c) == <<"git", r, c>>
Pinned(n, s) == <<n, s>>

NoGraph == [nodes |-> <<>>, edges |-> <<>>]
Nodes(g) == DOMAIN g.nodes
Edges(g) == DOMAIN g.edges
Into(g, n) == {e \in Edges(g) : e[2] = n}
OutOf(g, n) == {e \in Edges(g) : e[1] = n}

FreshNode(g) == CHOOSE n \in 1..(Cardinality(Nodes(g)) + 1) : n \notin Nodes(g)
AddNode(g, p) == [g EXCEPT !.nodes = Put(g.nodes, FreshNode(g), p)]
UpdateEdge(g, n, m, d) == [g EXCEPT !.edges = Put(g.edges, <<n, m>>, d)]
Without(g, ns, es) ==
  [nodes |-> [n \in Nodes(g) \ ns |-> g.nodes[n]],
   edges |-> [e \in {f \in Edges(g) \ es : {f[1], f[2]} \cap ns = {}} |-> g.edges[e]]]

(* The nodes that one can reach from ns: the least set that holds them and  *)
(* follows the edges.                                                       *)
Follows(g, S) == \A e \in Edges(g) : e[1] \in S => e[2] \in S
ReachFrom(g, ns) ==
  LET closed == {S \in SUBSET Nodes(g) : ns \subseteq S /\ Follows(g, S)} IN
  {n \in Nodes(g) : \A S \in closed : n \in S}

Cyclic(g) == \E e \in Edges(g) : e[1] \in ReachFrom(g, {e[2]})

Edge(d) == [as |-> d.as, kind |-> d.kind, salt |-> d.salt]

\* member_nodes, and find_proj_node: the only member node of that name.
MemberNodes(g) == {n \in Nodes(g) : g.nodes[n][2] = MemberPin}
ProjNodes(g, name) == {n \in MemberNodes(g) : g.nodes[n][1] = name}
HasProjNode(g, name) == Cardinality(ProjNodes(g, name)) = 1
ProjNode(g, name) == CHOOSE n \in ProjNodes(g, name) : TRUE

-----------------------------------------------------------------------------
(* Forc.lock.                                                               *)

\* names_requiring_disambiguation, from the name of each package of a graph
\* or a lock.
Ambiguous(names) ==
  {names[p] : p \in {q \in DOMAIN names : \E r \in DOMAIN names \ {q} : names[r] = names[q]}}

PkgKey(name, source, ambiguous) ==
  IF name \in ambiguous THEN <<name, source>> ELSE <<name>>

DepLineUnnamed(g, e, ambiguous) ==
  LET t == g.nodes[e[2]] IN
  [as |-> <<>>, key |-> PkgKey(t[1], t[2], ambiguous),
   kind |-> g.edges[e].kind, salt |-> g.edges[e].salt]

\* The line of a dependency: its name only where it is not the package's.
DepLine(g, e, ambiguous) ==
  LET t == g.nodes[e[2]] IN
  [as |-> IF g.edges[e].as = t[1] THEN <<>> ELSE <<g.edges[e].as>>,
   key |-> PkgKey(t[1], t[2], ambiguous),
   kind |-> g.edges[e].kind, salt |-> g.edges[e].salt]

FromGraph(g) ==
  LET ambiguous == Ambiguous([n \in Nodes(g) |-> g.nodes[n][1]]) IN
  {[name |-> g.nodes[n][1], source |-> g.nodes[n][2],
    deps |-> {DepLine(g, e, ambiguous) : e \in OutOf(g, n)}] : n \in Nodes(g)}

\* The packages of a lock, one after the other.
Listed(S) == CHOOSE s \in [1..Cardinality(S) -> S] : IsInjective(s)

(* to_graph: a node for every package, then an edge for every line.  A line *)
(* without a package is an error, and the caller goes on with no graph.     *)
ToGraph(l) ==
  LET ambiguous == Ambiguous([p \in l |-> p.name])
      ps == Listed(l)
      Key(p) == PkgKey(p.name, p.source, ambiguous)
      NodeOf(key) == CHOOSE n \in DOMAIN ps : Key(ps[n]) = key
      lines == UNION {{<<n, d>> : d \in ps[n].deps} : n \in DOMAIN ps}
      known == \A x \in lines : \E n \in DOMAIN ps : Key(ps[n]) = x[2].key
      EdgeOf(x) == <<x[1], NodeOf(x[2].key)>> IN
  IF ~known THEN NoGraph ELSE
  [nodes |-> [n \in DOMAIN ps |-> Pinned(ps[n].name, ps[n].source)],
   edges |-> [e \in {EdgeOf(x) : x \in lines} |->
     LET d == (CHOOSE x \in lines : EdgeOf(x) = e)[2] IN
     [as |-> IF d.as = <<>> THEN ps[e[2]].name ELSE d.as[1],
      kind |-> d.kind, salt |-> d.salt]]]

\* Lock::from_path: what cannot be read or parsed is the empty lock.
ReadLock(l) == IF l \in {NoLock, Empty, Mixed} THEN {} ELSE l

-----------------------------------------------------------------------------
(* Validation of the graph read from the lock.                              *)

(* validate_dep_manifest: the dependency is of the kind it is declared to   *)
(* be, and has the name it is declared with.                                *)
DepManifestOK(pinned, m, d) ==
  /\ m.type = d.kind
  /\ pinned[1] = m.name

(* validate_dep looks the dependency's name up among the members, and then  *)
(* in the manifest of that member.  The path, source and manifest tests     *)
(* that follow are never reached: no manifest names its own project.        *)
EdgeValid(g, e, mm) ==
  /\ g.edges[e].as \in DOMAIN mm
  /\ \E d \in Libraries(mm[g.edges[e].as]) : d.as = g.edges[e].as

ValidatedFrom(g, ns, mm) ==
  ReachFrom([g EXCEPT !.edges = [e \in {f \in Edges(g) : EdgeValid(g, f, mm)} |->
                                   g.edges[e]]], ns)

(* validate_graph: the invalid edges met on the way from the members; all   *)
(* edges when there is no member node.                                      *)
InvalidEdges(g, mm) ==
  LET members == {n \in MemberNodes(g) : g.nodes[n][1] \in DOMAIN mm}
      met == ValidatedFrom(g, members, mm) IN
  IF members = {} THEN Edges(g)
  ELSE {e \in Edges(g) : e[1] \in met /\ ~EdgeValid(g, e, mm)}

(* The removal pass in order of dependency takes every node that has no     *)
(* parent left.  What stays is the largest set in which each node is kept   *)
(* or has a parent.                                                         *)
Parented(g, keep, S) == \A n \in S \ keep : \E e \in Into(g, n) : e[1] \in S
RemoveOrphans(g, keep) ==
  Without(g, Nodes(g) \ UNION {S \in SUBSET Nodes(g) : Parented(g, keep, S)}, {})

RemoveDeps(g, names, es) ==
  IF Cyclic(g) THEN NoGraph
  ELSE RemoveOrphans(Without(g, {}, es), {n \in MemberNodes(g) : g.nodes[n][1] \in names})

(* graph_to_manifest_map: an entry for what can be reached from a member    *)
(* found in the graph, which after remove_deps is the member itself.        *)
ManifestMap(g, mm) ==
  LET found == {name \in DOMAIN mm : HasProjNode(g, name)} IN
  [id \in {Pinned(name, MemberPin) : name \in found} |->
     [manifest |-> mm[id[1]], dir |-> id[1]]]

-----------------------------------------------------------------------------
(* Fetching.                                                                *)

\* Pinned::unpinned: the package a pinned one was fetched for.
Unpinned(p, dir) == <<p[1], IF p[2][1] = "git" THEN p[2][2] ELSE dir>>
PkgOf(g, map, n) == Unpinned(g.nodes[n], map[g.nodes[n]].dir)

FetchedNone(g, map) == <<>>

(* The packages a member's traversal starts with: what earlier members      *)
(* fetched is not fetched again.                                            *)
Fetched(g, map) ==
  [pkg \in {PkgOf(g, map, n) : n \in Nodes(g)} |->
     CHOOSE n \in Nodes(g) : PkgOf(g, map, n) = pkg]

\* Source::pin for the source at, met below the path root.
PinOf(at, root) ==
  IF at \in MemberSet THEN MemberPin
  ELSE IF at \in Paths THEN PathPin(root)
  ELSE GitPin(at, heads[at])

ManifestAt(at) ==
  IF at \in Repos THEN RepoManifest[at][heads[at]] ELSE files[at]

PathRoot(p, root) == IF p[2][1] = "path" THEN root ELSE p

FrameOfLibraries(n, root, m) ==
  [node |-> n, root |-> root,
   todo |-> SelectSeq(m.deps, LAMBDA d : d.kind = "library")]

Top(stack) == stack[Len(stack)]

\* A package whose dependencies are being fetched.
Frame(n, root, m) == [node |-> n, root |-> root, todo |-> m.deps]

\* Back from the packages all of whose dependencies are there.
Unwind(stack) ==
  LET open == {i \in DOMAIN stack : stack[i].todo # <<>>} IN
  SubSeq(stack, 1, IF open = {} THEN 0 ELSE Max(open))

NoBuild == [compiled |-> {}, libs |-> {}, ids |-> {}, id |-> Noone, given |-> <<>>]

Idle == [pc |-> "idle", cmd |-> "build", locked |-> FALSE, mm |-> <<>>, read |-> {},
         damaged |-> FALSE, graph |-> NoGraph, map |-> <<>>, fetched |-> <<>>,
         visited |-> {}, members |-> <<>>, stack |-> <<>>, build |-> NoBuild]

Init ==
  /\ files = FirstManifest
  /\ heads = [r \in Repos |-> 1]
  /\ lock = NoLock
  /\ forc = [f \in Forcs |-> Idle]
  /\ plans = 0 /\ edits = 0

-----------------------------------------------------------------------------
(* The beginning of a plan: from_manifests starts from nothing,             *)
(* from_lock_and_manifests from what the lock holds.                        *)
Start(f, cmd, locked) ==
  LET mm == [m \in MemberSet |-> files[m]]
      locked_graph == ToGraph(ReadLock(lock))
      g == IF cmd = "update" THEN NoGraph
           ELSE RemoveDeps(locked_graph, MemberSet, InvalidEdges(locked_graph, mm)) IN
  /\ forc[f].pc = "idle"
  /\ plans < MaxPlans
  /\ cmd = "update" => ~locked
  /\ plans' = plans + 1
  /\ forc' = [forc EXCEPT ![f] =
       [Idle EXCEPT !.pc = "fetch", !.cmd = cmd, !.locked = locked, !.mm = mm,
                    !.read = ReadLock(lock), !.damaged = lock \in {NoLock, Empty, Mixed},
                    !.graph = g, !.map = ManifestMap(g, mm), !.members = Members]]
  /\ UNCHANGED <<files, heads, lock, edits>>

WithMember(p, name) ==
  IF HasProjNode(p.graph, name) THEN p
  ELSE [p EXCEPT !.graph = AddNode(p.graph, Pinned(name, MemberPin)),
                 !.map = Put(p.map, Pinned(name, MemberPin),
                             [manifest |-> p.mm[name], dir |-> name])]

\* fetch_pkg_graph: the traversal of the next member begins at its node.
StartMember(f) ==
  LET p == forc[f]
      name == Head(p.members)
      pin == Pinned(name, MemberPin)
      q == WithMember(p, name) IN
  /\ p.pc = "fetch" /\ p.stack = <<>> /\ p.members # <<>>
  /\ forc' = [forc EXCEPT ![f] =
       [q EXCEPT !.fetched = Fetched(q.graph, q.map), !.visited = {},
                 !.members = Tail(p.members),
                 !.stack = Unwind(<<Frame(ProjNode(q.graph, name), pin, q.map[pin].manifest)>>)]]
  /\ UNCHANGED <<files, heads, lock, plans, edits>>

(* The dependency d of the package on top, pinned and fetched unless it     *)
(* was, and the edge to it.                                                 *)
WithDep(p, top, d) ==
  LET pkg == <<d.pkg, d.at>>
      known == pkg \in DOMAIN p.fetched
      pin == Pinned(d.pkg, PinOf(d.at, top.root))
      n == IF known THEN p.fetched[pkg] ELSE FreshNode(p.graph)
      graph == IF known THEN p.graph ELSE AddNode(p.graph, pin)
      map == IF known \/ pin \in DOMAIN p.map THEN p.map
             ELSE Put(p.map, pin, [manifest |-> ManifestAt(d.at), dir |-> d.at]) IN
  [node |-> n,
   plan |-> [p EXCEPT !.graph = UpdateEdge(graph, top.node, n, Edge(d)), !.map = map,
                      !.fetched = Put(p.fetched, pkg, n)]]

(* fetch_deps for one dependency: on the first visit validate it and go     *)
(* down.                                                                    *)
FetchDep(f) ==
  LET p == forc[f]
      top == Top(p.stack)
      d == Head(top.todo)
      n == WithDep(p, top, d).node
      q == WithDep(p, top, d).plan
      id == q.graph.nodes[n]
      m == q.map[id].manifest
      rest == [p.stack EXCEPT ![Len(p.stack)].todo = Tail(@)] IN
  /\ p.pc = "fetch" /\ p.stack # <<>>
  /\ forc' = [forc EXCEPT ![f] =
       IF n \in p.visited THEN [q EXCEPT !.stack = Unwind(rest)]
       ELSE IF ~DepManifestOK(id, m, d) THEN Idle
       ELSE [q EXCEPT !.visited = @ \cup {n},
                      !.stack = Unwind(Append(rest, Frame(n, PathRoot(id, top.root), m)))]]
  /\ UNCHANGED <<files, heads, lock, plans, edits>>

\* A source that cannot be reached ends the plan.
FetchFails(f) ==
  LET p == forc[f] IN
  /\ p.pc = "fetch" /\ p.stack # <<>>
  /\ <<Head(Top(p.stack).todo).pkg, Head(Top(p.stack).todo).at>> \notin DOMAIN p.fetched
  /\ forc' = [forc EXCEPT ![f] = Idle]
  /\ UNCHANGED <<files, heads, lock, plans, edits>>

\* validate_contract_deps: one salt for every contract dependency.
SaltsAgree(g) ==
  \A n \in Nodes(g) :
    Cardinality({g.edges[e].salt : e \in {h \in Into(g, n) : g.edges[h].kind = "contract"}}) <= 1

(* The graph is complete: salts, compilation order, and the comparison with *)
(* the lock that was read.  forc update writes the lock in any case, a      *)
(* build only when the lock was damaged or differs, and not with --locked.  *)
EndFetch(f) ==
  LET p == forc[f]
      outdated == p.damaged \/ FromGraph(p.graph) # p.read IN
  /\ p.pc = "fetch" /\ p.stack = <<>> /\ p.members = <<>>
  /\ forc' = [forc EXCEPT ![f] =
       IF ~SaltsAgree(p.graph) \/ Cyclic(p.graph) THEN Idle
       ELSE IF p.cmd = "build" /\ ~outdated THEN [p EXCEPT !.pc = "planned"]
       ELSE IF p.locked THEN Idle
       ELSE [p EXCEPT !.pc = "truncate"]]
  /\ UNCHANGED <<files, heads, lock, plans, edits>>

\* fs::write opens and truncates the file ...
TruncateLock(f) ==
  /\ forc[f].pc = "truncate"
  /\ lock' = Empty
  /\ forc' = [forc EXCEPT ![f].pc = "fill"]
  /\ UNCHANGED <<files, heads, plans, edits>>

(* ... and writes from its start.  Where another process has written in     *)
(* between, the end of its text may stay behind.                            *)
FillLock(f) ==
  /\ forc[f].pc = "fill"
  /\ lock' \in {FromGraph(forc[f].graph)} \cup (IF lock = Empty THEN {} ELSE {Mixed})
  /\ forc' = [forc EXCEPT ![f] =
       IF forc[f].cmd = "update" THEN Idle ELSE [forc[f] EXCEPT !.pc = "planned"]]
  /\ UNCHANGED <<files, heads, plans, edits>>

-----------------------------------------------------------------------------
(* Building.                                                                *)

OrderUnreversed(g, compiled) ==
  {n \in Nodes(g) \ compiled : \A e \in Into(g, n) : e[1] \in compiled}

(* compilation_order: a topological sort of the reversed graph, so that     *)
(* what a package depends on comes before it.                               *)
NextInOrder(g, compiled) ==
  {n \in Nodes(g) \ compiled : \A e \in OutOf(g, n) : e[2] \in compiled}

IsContractDependency(g, n) == \E e \in Into(g, n) : g.edges[e].kind = "contract"

(* dependency_namespace: libraries must have been compiled, `expect`.       *)
NamespaceMissing(g, n, libs) ==
  \E e \in OutOf(g, n) : g.edges[e].kind = "library" /\ e[2] \notin libs

(* build, for one package and with tests.  A contract that no package       *)
(* depends on leaves its id in contract_id_value, which every package from  *)
(* then on is given.  The namespace of a library is kept for its dependents.*)
Compile(f, n) ==
  LET p == forc[f]
      b == p.build
      type == p.map[p.graph.nodes[n]].manifest.type
      dep == IsContractDependency(p.graph, n)
      id == IF type = "contract" /\ ~dep THEN n ELSE b.id IN
  /\ p.pc = "planned"
  /\ n \in NextInOrder(p.graph, b.compiled)
  /\ ~NamespaceMissing(p.graph, n, b.libs)
  /\ forc' = [forc EXCEPT ![f].build =
       [compiled |-> b.compiled \cup {n},
        libs |-> IF type = "library" THEN b.libs \cup {n} ELSE b.libs,
        ids |-> IF dep THEN b.ids \cup {n} ELSE b.ids,
        id |-> id,
        given |-> Put(b.given, n, id)]]
  /\ UNCHANGED <<files, heads, lock, plans, edits>>

\* All packages are compiled, or one of them has an error.
EndBuild(f) ==
  /\ forc[f].pc = "planned"
  /\ forc' = [forc EXCEPT ![f] = Idle]
  /\ UNCHANGED <<files, heads, lock, plans, edits>>

-----------------------------------------------------------------------------
(* The world.                                                               *)

\* Someone pushes to a branch.
MoveHead(r) ==
  /\ heads[r] < LastCommit[r]
  /\ heads' = [heads EXCEPT ![r] = @ + 1]
  /\ UNCHANGED <<files, lock, forc, plans, edits>>

EditManifest(p, m) ==
  /\ edits < MaxEdits
  /\ m # files[p]
  /\ files' = [files EXCEPT ![p] = m]
  /\ edits' = edits + 1
  /\ UNCHANGED <<heads, lock, forc, plans>>

\* A process that is killed leaves the lock file as it is.
Kill(f) ==
  /\ forc[f].pc \in {"truncate", "fill"}
  /\ forc' = [forc EXCEPT ![f] = Idle]
  /\ UNCHANGED <<files, heads, lock, plans, edits>>

Next ==
  \/ \E f \in Forcs :
       \/ \E cmd \in {"build", "update"}, locked \in BOOLEAN : Start(f, cmd, locked)
       \/ StartMember(f) \/ FetchDep(f) \/ FetchFails(f) \/ EndFetch(f)
       \/ TruncateLock(f) \/ FillLock(f) \/ Kill(f)
       \/ \E n \in Nodes(forc[f].graph) : Compile(f, n)
       \/ EndBuild(f)
  \/ \E r \in Repos : MoveHead(r)
  \/ \E p \in Places : \E m \in Manifests[p] : EditManifest(p, m)

Spec == Init /\ [][Next]_vars

-----------------------------------------------------------------------------
(* Properties.                                                              *)

\* The plan of f has just been made.
HasPlan(f) ==
  \/ forc[f].pc = "truncate"
  \/ forc[f].pc = "planned" /\ forc[f].build.compiled = {}

DepsOf(g, map, n) == Range(map[g.nodes[n]].manifest.deps)

\* The edge e stands for the dependency d.
Meant(g, map, e, d) ==
  g.edges[e] = Edge(d) /\ PkgOf(g, map, e[2]) = <<d.pkg, d.at>>

(* A plan is what the manifests say and nothing else, whatever lock file it *)
(* started from: every package has its manifest, every dependency of a      *)
(* manifest is an edge to a package of that name and source, every edge is  *)
(* such a dependency, and every package is needed by a member               *)
(* (from_lock_and_manifests, fetch_deps).                                   *)
PlanFollowsManifests ==
  \A f \in Forcs : HasPlan(f) =>
    LET g == forc[f].graph
        map == forc[f].map IN
    /\ \A n \in Nodes(g) :
         /\ g.nodes[n] \in DOMAIN map
         /\ \A d \in DepsOf(g, map, n) : \E e \in OutOf(g, n) : Meant(g, map, e, d)
         /\ \A e \in OutOf(g, n) : \E d \in DepsOf(g, map, n) : Meant(g, map, e, d)
    /\ ReachFrom(g, {n \in MemberNodes(g) : g.nodes[n][1] \in MemberSet}) = Nodes(g)

(* A source is pinned once in a plan, though its branch moves between two   *)
(* packages that depend on it and between two members (fetch_pkg_graph      *)
(* fills `fetched` from the graph).                                         *)
PinnedOnce ==
  \A f \in Forcs :
    LET g == forc[f].graph IN
    Cardinality({PkgOf(g, forc[f].map, n) : n \in Nodes(g)}) = Cardinality(Nodes(g))

Described(g) ==
  [packages |-> {<<g.nodes[n], Cardinality({m \in Nodes(g) : g.nodes[m] = g.nodes[n]})>> :
                   n \in Nodes(g)},
   edges |-> {<<g.nodes[e[1]], g.nodes[e[2]], g.edges[e]>> : e \in Edges(g)}]

(* The graph read back from the lock file of a plan is the plan's: renamed  *)
(* dependencies, salts and packages that share a name survive               *)
(* (Lock::from_graph, Lock::to_graph).                                      *)
LockRoundTrips ==
  \A f \in Forcs : HasPlan(f) =>
    Described(ToGraph(FromGraph(forc[f].graph))) = Described(forc[f].graph)

(* When the turn of a package comes, the namespaces of its libraries are    *)
(* there: the `expect("no root namespace module")` of dependency_namespace. *)
NamespaceReady ==
  \A f \in Forcs : forc[f].pc = "planned" =>
    \A n \in NextInOrder(forc[f].graph, forc[f].build.compiled) :
      ~NamespaceMissing(forc[f].graph, n, forc[f].build.libs)
=============================================================================
