---------------------------- MODULE TreeResolver ----------------------------
(***************************************************************************)
(* The npm-style tree resolver (internal/treeresolver): a breadth-first    *)
(* walk over dependency edges that reuses the nearest visible instance,    *)
(* hoists a name that no ancestor holds, and nests a conflicting instance  *)
(* under its requirer.  A placement is never revised.                      *)
(*                                                                         *)
(* A node is named by its path, the sequence of package names from the     *)
(* root <<>>.  An instance is [name, ver, src]: src is NoSource for a      *)
(* registry package, else the pinned git/https source.  What a package     *)
(* depends on is chosen when the resolver first asks, and remembered.      *)
(***************************************************************************)
EXTENDS Integers, Sequences, FiniteSets

CONSTANTS
  Names, Versions,
  Published,       \* name -> the versions in its packument
  Young,           \* name -> those younger than minimum-release-age, if it counts for the name
  Latest,          \* name -> the version tagged latest, NoVersion if none
  Sources,         \* pinned git/https sources
  SourceVersion,   \* source -> its version, NoVersion when not semver
  RootDeps,        \* the dependency sequences the root may declare
  DepChoices,      \* name or source -> the dependency sequences it may have
  Overrides,       \* name -> specifier, for the overridden names
  NestedOverrides, \* requirer name -> name -> specifier
  BlockExotic,     \* blockExoticSubdeps
  Trusted,         \* the sources on the trusted-repo allowlist
  CanFail,         \* whether the provider and exotic sources may fail
  MaxNodes         \* bound: nodes placed

Ages == {"any", "mature", "strict"}

NoVersion == 0
NoSource  == "registry"

(* A specifier: a semver range (the versions in it), a source, or one that *)
(* semver cannot parse, such as a transitive npm: alias.                   *)
RangeOf(vs) == [kind |-> "range", in |-> vs]
Exotic(s) == [kind |-> "exotic", src |-> s]
Other     == [kind |-> "other"]
(* A declared dependency.  A sequence of them stands for dependencies,     *)
(* optionalDependencies and, when installed, peerDependencies, in turn.    *)
Dep(n, spec, opt) == [name |-> n, spec |-> spec, optional |-> opt]
Specifiers == [kind : {"range"}, in : SUBSET Nat] \cup [kind : {"exotic"}, src : Sources] \cup {Other}
Declared   == Seq([name : Names, spec : Specifiers, optional : BOOLEAN])

ASSUME ResolverAssumption ==
  /\ NoVersion \notin Versions
  /\ Published \in [Names -> SUBSET Versions]
  /\ Young \in [Names -> SUBSET Versions]
  /\ \A v \in Versions : v \in Nat
  /\ IsFiniteSet(Versions)
  /\ Latest \in [Names -> Versions \cup {NoVersion}]
  /\ SourceVersion \in [Sources -> Versions \cup {NoVersion}]
  /\ NoSource \notin Sources /\ Trusted \subseteq Sources
  /\ RootDeps \subseteq Declared
  /\ DepChoices \in [Names \cup Sources -> SUBSET Declared]
  /\ \A n \in DOMAIN Overrides : Overrides[n] \in Specifiers
  /\ \A r \in DOMAIN NestedOverrides : \A n \in DOMAIN NestedOverrides[r] : NestedOverrides[r][n] \in Specifiers
  /\ BlockExotic \in BOOLEAN /\ CanFail \in BOOLEAN
  /\ MaxNodes \in Nat

(* What the root declares comes in one map, so no name comes twice.         *)
ASSUME RootAssumption ==
  \A deps \in RootDeps : \A i, j \in 1..Len(deps) : deps[i].name = deps[j].name => i = j

VARIABLES
  tree,     \* path -> the instance placed there
  queue,    \* the edges still to resolve
  depsOf,   \* instance -> its dependencies, once asked
  asked,    \* names whose versions were answered
  streamed, \* instances handed to OnResolved
  status,   \* running, done or error
  age,      \* of Ages: the release-age setting of this walk
  floors    \* name -> the version below which the provider offers none

walkVars == <<tree, queue, depsOf, asked, streamed, status>>
settings == <<age, floors>>
vars == <<walkVars, settings>>

Root == <<>>
RootInstance == [name |-> "", ver |-> NoVersion, src |-> NoSource]
At(p) == IF p = Root THEN RootInstance ELSE tree[p]
(* Dependencies are cached per name and version, or per source.            *)
Key(inst) == IF inst.src = NoSource THEN inst ELSE [inst EXCEPT !.name = inst.src]
DepsAt(p) == depsOf[Key(At(p))]
Last(p) == p[Len(p)]
Edges(p, deps) ==
  [i \in 1..Len(deps) |-> [req |-> p, name |-> deps[i].name,
                           spec |-> deps[i].spec, optional |-> deps[i].optional]]

(* The nodes whose directory holds n, on the way from p up to the root,    *)
(* by depth; the walk takes the deepest.                                   *)
Holders(p, n)  == {k \in 0..Len(p) : Append(SubSeq(p, 1, k), n) \in DOMAIN tree}
Visible(p, n)  == Holders(p, n) # {}
Deepest(p, n)  == CHOOSE k \in Holders(p, n) : \A l \in Holders(p, n) : l <= k
NearestAt(p, n) == Append(SubSeq(p, 1, Deepest(p, n)), n)
Nearest(p, n)  == tree[NearestAt(p, n)]

(* A scoped override beats a global one, which beats the declared range.   *)
Effective(p, d) ==
  IF p # Root /\ Last(p) \in DOMAIN NestedOverrides /\ d.name \in DOMAIN NestedOverrides[Last(p)]
  THEN NestedOverrides[Last(p)][d.name]
  ELSE IF d.name \in DOMAIN Overrides THEN Overrides[d.name] ELSE d.spec

Meets(inst, spec) ==
  IF spec.kind = "exotic" THEN inst.src = spec.src ELSE inst.ver \in spec.in

(* What the provider answers (Versions, applyFloor): with minimum-release- *)
(* age on, versions of some age, or, when there are none, an error or the  *)
(* lowest young one; and of these, what is not below the floor.            *)
Mature(n) == IF age = "any" THEN Published[n] ELSE Published[n] \ Young[n]
TooYoung(n) == age = "strict" /\ Mature(n) = {} /\ Published[n] # {}
(* Bug: the floor itself is refused.                                       *)
AboveFloorOnly(n, vs) == {v \in vs : floors[n] < v}
AboveFloor(n, vs) == {v \in vs : floors[n] <= v}
Offered(n) ==
  AboveFloor(n, IF Mature(n) # {} THEN Mature(n)
                ELSE {v \in Published[n] : \A w \in Published[n] : v <= w})

(* The highest version in range, or latest when it is a candidate.         *)
Best(n, spec) ==
  LET fit == Offered(n) \cap spec.in IN
  IF Latest[n] \in fit THEN Latest[n] ELSE CHOOSE v \in fit : \A w \in fit : w <= v

TypeOK ==
  /\ \A p \in DOMAIN tree :
       /\ p # Root /\ p \in Seq(Names)
       /\ tree[p].name = Last(p)
       /\ tree[p].ver \in Versions \cup {NoVersion} /\ tree[p].src \in Sources \cup {NoSource}
       /\ Len(p) > 1 => SubSeq(p, 1, Len(p) - 1) \in DOMAIN tree
       /\ status # "error" => Key(tree[p]) \in DOMAIN depsOf
  /\ \A i \in 1..Len(queue) : queue[i].req \in DOMAIN tree \cup {Root}
  /\ asked \subseteq Names
  /\ status \in {"running", "done", "error"}
  /\ age \in Ages /\ floors \in [Names -> Versions \cup {NoVersion}]
  /\ status = "done" => queue = <<>>

NoFloors == [n \in Names |-> NoVersion]

Init ==
  /\ tree = [p \in {} |-> RootInstance]
  /\ \E deps \in RootDeps :
       /\ queue = Edges(Root, deps)
       /\ depsOf = [i \in {RootInstance} |-> deps]
  /\ asked = {}
  /\ streamed = {}
  /\ status = "running"
  /\ age \in Ages
  /\ floors = NoFloors

-----------------------------------------------------------------------------
(* The edge at the head of the queue, and what it asks for.                *)
edge == Head(queue)
eff  == Effective(edge.req, edge)

Allowed == edge.req = Root \/ ~BlockExotic \/ eff.src \in Trusted
(* Bug: only the requirer's own directory is searched.                     *)
ReusableOwn ==
  Append(edge.req, edge.name) \in DOMAIN tree
    /\ Meets(tree[Append(edge.req, edge.name)], eff)
Reusable == Visible(edge.req, edge.name) /\ Meets(Nearest(edge.req, edge.name), eff)

AtEdge(kind) == status = "running" /\ queue # <<>> /\ eff.kind = kind
(* The next edge is a range that no visible instance satisfies.            *)
AtNewRange == AtEdge("range") /\ ~Reusable
Candidates == Offered(edge.name) \cap eff.in

(* The edge leaves the queue and nothing is placed.                        *)
Drop == queue' = Tail(queue) /\ UNCHANGED <<tree, depsOf, streamed, status>>

(* An edge that cannot be resolved is skipped when it is optional, and     *)
(* ends the resolution otherwise.                                          *)
SkipOrFail ==
  /\ UNCHANGED <<tree, depsOf, streamed>>
  /\ IF edge.optional THEN queue' = Tail(queue) /\ UNCHANGED status
                      ELSE status' = "error" /\ UNCHANGED queue

(* Bug: the new edges go to the front of the queue.                        *)
EnqueueFirst(new) == queue' = new \o Tail(queue)
Enqueue(new) == queue' = Tail(queue) \o new

(* Top level when no ancestor holds the name, else under the requirer.     *)
Target(p, n) == IF Visible(p, n) THEN p ELSE Root

Occupied(p, n) == Append(Target(p, n), n) \in DOMAIN tree

PutAt(p, inst) == tree' = [q \in DOMAIN tree \cup {p} |-> IF q = p THEN inst ELSE tree[q]]

(* The instance is placed and its edges are queued behind all others.      *)
Put(inst) ==
  LET p == Append(Target(edge.req, edge.name), edge.name)
      k == Key(inst)
  IN
  /\ Cardinality(DOMAIN tree) < MaxNodes
  /\ PutAt(p, inst)
  /\ \E deps \in IF k \in DOMAIN depsOf THEN {depsOf[k]} ELSE DepChoices[k.name] :
       /\ depsOf' = [i \in DOMAIN depsOf \cup {k} |-> IF i = k THEN deps ELSE depsOf[i]]
       /\ Enqueue(Edges(p, deps))
  /\ UNCHANGED status

-----------------------------------------------------------------------------
(* This walk has not asked for what the instance depends on.               *)
Unseen(inst) == \A p \in DOMAIN tree : Key(tree[p]) # Key(inst)

(* An untrusted transitive source ends the resolution.                     *)
Block ==
  /\ AtEdge("exotic") /\ ~Allowed
  /\ status' = "error"
  /\ UNCHANGED <<tree, queue, depsOf, asked, streamed>>

ExoticInstance == [name |-> edge.name, ver |-> SourceVersion[eff.src], src |-> eff.src]

ExoticFails ==
  /\ AtEdge("exotic") /\ Allowed
  /\ CanFail /\ Unseen(ExoticInstance)
  /\ SkipOrFail
  /\ UNCHANGED asked

ExoticReused ==
  /\ AtEdge("exotic") /\ Allowed
  /\ Reusable \/ Occupied(edge.req, edge.name)
  /\ Drop
  /\ UNCHANGED asked

ExoticPlaced ==
  /\ AtEdge("exotic") /\ Allowed
  /\ ~Reusable /\ ~Occupied(edge.req, edge.name)
  /\ Put(ExoticInstance)
  /\ UNCHANGED <<asked, streamed>>

(* A specifier that is no range is dropped without a word.                 *)
Unparseable == AtEdge("other") /\ Drop /\ UNCHANGED asked

Reuse == AtEdge("range") /\ Reusable /\ Drop /\ UNCHANGED asked

AskFails ==
  /\ AtNewRange
  /\ CanFail /\ edge.name \notin asked
  /\ SkipOrFail
  /\ UNCHANGED asked

(* No version is old enough: the provider has an error for an answer.      *)
AllTooYoung ==
  /\ AtNewRange /\ TooYoung(edge.name)
  /\ SkipOrFail
  /\ asked' = asked \cup {edge.name}

NoMatch ==
  /\ AtNewRange /\ ~TooYoung(edge.name) /\ Candidates = {}
  /\ SkipOrFail
  /\ asked' = asked \cup {edge.name}

(* Two edges of one requirer name the same package: the node stays.        *)
KeepFirst ==
  /\ AtNewRange /\ ~TooYoung(edge.name) /\ Candidates # {}
  /\ Occupied(edge.req, edge.name)
  /\ Drop
  /\ asked' = asked \cup {edge.name}

RegistryInstance ==
  [name |-> edge.name, ver |-> Best(edge.name, eff), src |-> NoSource]

Place ==
  /\ AtNewRange /\ ~TooYoung(edge.name) /\ Candidates # {}
  /\ ~Occupied(edge.req, edge.name)
  /\ Put(RegistryInstance)
  /\ asked' = asked \cup {edge.name}
  /\ streamed' = streamed \cup {RegistryInstance}

(* The dependencies of a node just placed cannot be had.                   *)
DepsFail ==
  /\ AtNewRange /\ ~TooYoung(edge.name) /\ Candidates # {}
  /\ ~Occupied(edge.req, edge.name)
  /\ CanFail /\ Unseen(RegistryInstance)
  /\ PutAt(Append(Target(edge.req, edge.name), edge.name), RegistryInstance)
  /\ streamed' = streamed \cup {RegistryInstance}
  /\ asked' = asked \cup {edge.name}
  /\ status' = "error"
  /\ UNCHANGED <<queue, depsOf>>

Done ==
  /\ status = "running" /\ queue = <<>>
  /\ status' = "done"
  /\ UNCHANGED <<tree, queue, depsOf, asked, streamed>>

ResolveEdge ==
  \/ Block \/ ExoticFails \/ ExoticReused \/ ExoticPlaced
  \/ Unparseable \/ Reuse \/ AskFails \/ AllTooYoung \/ NoMatch \/ KeepFirst \/ Place \/ DepsFail

Next == (ResolveEdge \/ Done) /\ UNCHANGED settings

(* One goroutine runs the loop to its end.                                 *)
Spec == Init /\ [][Next]_vars /\ WF_vars(Next)

-----------------------------------------------------------------------------
InQueue(p, d) ==
  \E i \in 1..Len(queue) : queue[i].req = p /\ queue[i].name = d.name /\ queue[i].spec = d.spec

(* Node's own lookup, from a directory, for an edge of p.                  *)
Finds(from, p, d) == Visible(from, d.name) /\ Meets(Nearest(from, d.name), Effective(p, d))
Resolves(p, d) == Finds(p, p, d)
ResolvesAbove(p, d) == p # Root /\ Finds(SubSeq(p, 1, Len(p) - 1), p, d)

Declares(p) == {DepsAt(p)[i] : i \in 1..Len(DepsAt(p))}
Kind(p, d)  == Effective(p, d).kind
(* The required edges of the root and of every placed node.                *)
Required(kinds) ==
  {pd \in UNION {{p} \X Declares(p) : p \in DOMAIN tree \cup {Root}} :
     ~pd[2].optional /\ Kind(pd[1], pd[2]) \in kinds}
(* A requirer may declare a name more than once, as a dependency and as a  *)
(* peer.                                                                   *)
Twins(p, d) == {e \in Declares(p) : e.name = d.name /\ Kind(p, e) \in {"range", "exotic"}}
IsFirst(p, d) ==
  \E i \in 1..Len(DepsAt(p)) : DepsAt(p)[i] = d /\ \A k \in 1..(i - 1) : DepsAt(p)[k].name # d.name

(* Whatever has been resolved stays resolved: from the node that requires  *)
(* it, Node's own lookup finds an instance the specifier accepts, and no   *)
(* node placed later shadows it.  Of several edges of a node for one name  *)
(* at least one is so; the first, unless what it was content with above    *)
(* is shadowed for another (Resolve, resolveEdge, placeExotic).            *)
EdgesResolve ==
  status # "error" =>
    \A pd \in Required({"range", "exotic"}) :
      LET p == pd[1]
          d == pd[2]
      IN
      \/ InQueue(p, d) \/ Resolves(p, d)
      \/ /\ \E e \in Twins(p, d) : Resolves(p, e)
         /\ IsFirst(p, d) => ResolvesAbove(p, d)

(* What an instance needs of what is placed, and what of it in the end.     *)
Standing == {tree[p] : p \in DOMAIN tree}
Needs(i, j) ==
  \E k \in 1..Len(depsOf[Key(i)]) :
    LET d    == depsOf[Key(i)][k]
        spec == Effective(<<i.name>>, d)
    IN  d.name = j.name /\ spec.kind \in {"range", "exotic"} /\ Meets(j, spec)
NeededBy(i) ==
  LET upTo[k \in Nat] ==
        IF k = 0 THEN {i} ELSE UNION {{h} \cup {j \in Standing : Needs(h, j)} : h \in upTo[k - 1]}
  IN  upTo[Cardinality(Standing)]
(* Two versions, or two sources, of one package need each other.           *)
Alternating ==
  \E i, j \in Standing : i # j /\ i.name = j.name /\ j \in NeededBy(i) /\ i \in NeededBy(j)

(* A resolution ends, within the bound on nodes, unless two instances of   *)
(* one package need each other: these may shadow one another and nest      *)
(* without end.                                                            *)
Ends == status = "running" ~> status # "running" \/ Alternating

(* "a dependency cycle re-derives the same specifier and thus the same     *)
(* Tarball, so the ancestor walk finds the matching instance and reuses    *)
(* it" (placeExotic): no source is placed below itself.  TLC refutes it:   *)
(* another source of the name may lie between.                             *)
SourcesAreReused ==
  \A p \in DOMAIN tree :
    tree[p].src # NoSource => \A k \in 1..(Len(p) - 1) : Key(tree[SubSeq(p, 1, k)]) # Key(tree[p])
=============================================================================
