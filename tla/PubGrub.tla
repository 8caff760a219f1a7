-------------------------------- MODULE PubGrub --------------------------------
(* The version solver of internal/resolver/pubgrub.go, one step per         *)
(* incompatibility visited and per decision made.  Packages are numbers,    *)
(* ordered as the code orders names; "$root" is 0 and sorts first.  All     *)
(* versions are releases.  Causes, warnings and caches are left out.        *)
EXTENDS RangeNormal

CONSTANTS Packages,      \* positive numbers, in the order of the names
          Requests,      \* the resolutions to run
          MaxTurns       \* turns of Solve's loop: 50000

Root == 0
NoParent == -1

AnyRange == {AnyClause}
Exact(v) == {Interval(From(v, TRUE), From(v, TRUE), {})}

(* A range as declared; one that does not parse reads as Any. *)
Declared(range) == [parses |-> TRUE, range |-> range]
Unparseable == [parses |-> FALSE, range |-> AnyRange]

(* What a version declares: ranges by name, and the peers that are optional. *)
PackageDependencies(deps, optional, peers, optionalPeers) ==
  [dependencies |-> deps, optionalDependencies |-> optional,
   peerDependencies |-> peers, optionalPeers |-> optionalPeers]

(* What the root asks for, and the provider: what each version it knows     *)
(* declares, `latest`, and the packages it cannot reach.  nested has the    *)
(* overrides under a parent, by <<parent, package>>.                        *)
Request(deps, optional, provider, latest, preferred, overrides, nested, autoPeers, unreachable) ==
  [dependencies |-> deps, optionalDependencies |-> optional, provider |-> provider,
   latest |-> latest, preferred |-> preferred, overrides |-> overrides,
   nested |-> nested, autoInstallPeers |-> autoPeers, unreachable |-> unreachable]

(* Every name in a request is the name of a package.                        *)
Declaration == [parses : BOOLEAN, range : NpmRange]
Declares(f) == /\ f \in [DOMAIN f -> Declaration]
               /\ DOMAIN f \subseteq Packages
DeclaresDependencies(deps) ==
  /\ Declares(deps.dependencies)
  /\ Declares(deps.optionalDependencies)
  /\ Declares(deps.peerDependencies)
IsRequest(req) ==
  /\ Declares(req.dependencies) /\ Declares(req.optionalDependencies)
  /\ Declares(req.overrides)
  /\ req.nested \in [DOMAIN req.nested -> Declaration]
  /\ \A p \in DOMAIN req.provider :
       /\ DOMAIN req.provider[p] \subseteq Version
       /\ IsFiniteSet(DOMAIN req.provider[p])
       /\ \A v \in DOMAIN req.provider[p] : DeclaresDependencies(req.provider[p][v])

ASSUME PackagesAssumption ==
  /\ Packages \subseteq Nat \ {Root} /\ IsFiniteSet(Packages)
  /\ MaxTurns \in Nat \ {0}
  /\ \A req \in Requests : IsRequest(req)
ASSUME ReleasesAssumption == \A v \in Version : ~IsPrerelease(v)

VARIABLES request,
          phase,         \* "propagate", "decide", "solved", "failed", "error"
          changed,       \* packages whose incompatibilities must be visited
          visit,         \* indices of those left to visit, the newest next
          solution,      \* assignments; their order matters only by level
          incompat,      \* incompatibilities, sets of terms, in order
          decisionLevel,
          forbidden,     \* <<package, version>> pairs learned
          turns          \* iterations of Solve
vars == <<request, phase, changed, visit, solution, incompat, decisionLevel, forbidden, turns>>
--------------------------------------------------------------------------------
Term(p, range, positive) == [package |-> p, range |-> range, isPositive |-> positive]
Invert(t) == Term(t.package, t.range, ~t.isPositive)

Decision(p, v, level) ==
  [package |-> p, kind |-> "decision", version |-> v, term |-> Term(p, AnyRange, TRUE), level |-> level]
Derivation(t, level) ==
  [package |-> t.package, kind |-> "derivation", version |-> Zero, term |-> t, level |-> level]

Of(p) == {a \in solution : a.package = p}
Decided(p) == {a.version : a \in {a \in Of(p) : a.kind = "decision"}}
(* Bug: what was derived at this level is overlooked. *)
DerivedBelow(p, positive) ==
  {a.term.range : a \in {a \in Of(p) : /\ a.kind = "derivation" /\ a.level < decisionLevel
                                       /\ a.term.isPositive = positive}}
Derived(p, positive) ==
  {a.term.range : a \in {a \in Of(p) : a.kind = "derivation" /\ a.term.isPositive = positive}}
Meet(ranges) == FoldSet(Intersect, AnyRange, ranges)

(* An override under the parent wins over one for everywhere. *)
Effective(req, p, declared, parent) ==
  IF <<parent, p>> \in DOMAIN req.nested THEN req.nested[<<parent, p>>]
  ELSE IF p \in DOMAIN req.overrides THEN req.overrides[p]
  ELSE declared

DependsOn(parent, range, p, eff) ==
  IF eff.parses THEN {Term(parent, range, TRUE), Term(p, eff.range, FALSE)}
  ELSE {Term(parent, range, TRUE)}

(* The names in their order, the last one taken out first. *)
InNameOrder(S) ==
  MapThenFoldSet(LAMBDA n, names : Append(names, n), <<>>, LAMBDA n : n, Max, S)
(* The root's requirements; an optional one is as binding as the others. *)
RootIncompats(req) ==
  LET Needs(declared) ==
        [i \in DOMAIN InNameOrder(DOMAIN declared) |->
          LET p == InNameOrder(DOMAIN declared)[i]
          IN {Term(Root, AnyRange, TRUE),
              Term(p, Effective(req, p, declared[p], Root).range, FALSE)}]
  IN Needs(req.dependencies) \o Needs(req.optionalDependencies)
--------------------------------------------------------------------------------
(* What the assignments say of a term. *)
TermHolds(t, v) == Satisfies(t.range, v) = t.isPositive

TermStatus(t) ==
  LET positive  == Meet(Derived(t.package, TRUE))
      negatives == Derived(t.package, FALSE)
      disjoint  == IsEmpty(Intersect(positive, t.range))
      excluded  == \E n \in negatives : Subset(t.range, n)
      within    == Subset(positive, t.range)
  IN IF Of(t.package) = {} THEN "inconclusive"
     ELSE IF Decided(t.package) # {}
       THEN IF \E v \in Decided(t.package) : TermHolds(t, v)
            THEN "satisfied" ELSE "contradicted"
     ELSE IF t.isPositive
       THEN CASE disjoint \/ excluded -> "contradicted"
              [] ~(disjoint \/ excluded) /\ within
                 /\ \A n \in negatives : IsEmpty(Intersect(n, positive)) -> "satisfied"
              [] OTHER -> "inconclusive"
     ELSE CASE within /\ \A n \in negatives : ~Subset(positive, n) -> "contradicted"
            [] ~(within /\ \A n \in negatives : ~Subset(positive, n))
               /\ (disjoint \/ excluded) -> "satisfied"
            [] OTHER -> "inconclusive"

With(inc, status) == {t \in inc : TermStatus(t) = status}
IsSatisfied(inc) == With(inc, "satisfied") = inc
IsAlmostSatisfied(inc) ==
  With(inc, "contradicted") = {} /\ Cardinality(With(inc, "inconclusive")) = 1

(* The decisions that satisfy a term; the highest is to blame. *)
Culprits(inc) ==
  {a \in solution : /\ a.kind = "decision"
                    /\ \E t \in inc : t.package = a.package /\ TermHolds(t, a.version)}
(* Bug: decisions are undone, what was derived from them stays. *)
BackToDecisions(level) == {a \in solution : a.level <= level \/ a.kind = "derivation"}
BackTo(level) == {a \in solution : a.level <= level}
Mentions(inc, p) == \E t \in inc : t.package = p
IncompatOf(p) == {i \in DOMAIN incompat : Mentions(incompat[i], p)}
--------------------------------------------------------------------------------
Init ==
  /\ request \in Requests
  /\ phase = "propagate"
  /\ changed = {Root}
  /\ visit = {}
  /\ solution = {Decision(Root, Zero, 0)}
  /\ incompat = RootIncompats(request)
  /\ decisionLevel = 0
  /\ forbidden = {}
  /\ turns = 1

NextChanged == Min(changed)   \* in name order
TakeChanged ==
  /\ phase = "propagate" /\ visit = {} /\ changed # {}
  /\ visit' = IncompatOf(NextChanged)
  /\ changed' = changed \ {NextChanged}
  /\ UNCHANGED <<request, phase, solution, incompat, decisionLevel, forbidden, turns>>

Propagated ==
  /\ phase = "propagate" /\ visit = {} /\ changed = {}
  /\ phase' = "decide"
  /\ UNCHANGED <<request, changed, visit, solution, incompat, decisionLevel, forbidden, turns>>

Visiting == phase = "propagate" /\ visit # {}
Visited == incompat[Max(visit)]

(* All terms but one hold, so the last must not. *)
Derive ==
  /\ Visiting /\ IsAlmostSatisfied(Visited)
  /\ \E t \in With(Visited, "inconclusive") :
       /\ solution' = solution \cup {Derivation(Invert(t), decisionLevel)}
       /\ changed' = changed \cup {t.package}
  /\ visit' = visit \ {Max(visit)}
  /\ UNCHANGED <<request, phase, incompat, decisionLevel, forbidden, turns>>

PassBy ==
  /\ Visiting /\ ~IsSatisfied(Visited) /\ ~IsAlmostSatisfied(Visited)
  /\ visit' = visit \ {Max(visit)}
  /\ UNCHANGED <<request, phase, changed, solution, incompat, decisionLevel, forbidden, turns>>

(* The culprit is forbidden for good, with everything above it undone, and  *)
(* the next decision is made before any further propagation.                *)
Learn ==
  /\ Visiting /\ IsSatisfied(Visited)
  /\ \E c \in Culprits(Visited) :
       /\ c.level > 0
       /\ \A a \in Culprits(Visited) : a.level <= c.level
       /\ forbidden' = forbidden \cup {<<c.package, c.version>>}
       /\ incompat' = Append(incompat, {Term(c.package, Exact(c.version), TRUE)})
       /\ solution' = BackTo(c.level - 1)
       /\ decisionLevel' = c.level - 1
       /\ changed' = {c.package}
  /\ visit' = {}
  /\ phase' = "decide"
  /\ UNCHANGED <<request, turns>>

GiveUp ==
  /\ Visiting /\ IsSatisfied(Visited)
  /\ \A a \in Culprits(Visited) : a.level = 0
  /\ phase' = "failed"
  /\ UNCHANGED <<request, changed, visit, solution, incompat, decisionLevel, forbidden, turns>>
--------------------------------------------------------------------------------
Known(p) == IF p \in DOMAIN request.provider THEN DOMAIN request.provider[p] ELSE {}
DependenciesOf(p, v) == request.provider[p][v]
IsLatest(p, v) == p \in DOMAIN request.latest /\ v = request.latest[p]
Undecided == {p \in Packages : Decided(p) = {} /\ Derived(p, TRUE) # {}}
Wanted(p) == Meet(Derived(p, TRUE))

Viable(p) ==
  LET wanted == Wanted(p)
  IN {v \in Known(p) : Satisfies(wanted, v) /\ <<p, v>> \notin forbidden}

(* The package with the fewest viable versions, by name where several have. *)
Pick ==
  LET viable == [p \in Undecided |-> Cardinality(Viable(p))]
  IN Min({p \in Undecided : \A q \in Undecided : viable[p] <= viable[q]})

IsPreferred(p, v) == p \in DOMAIN request.preferred /\ v = request.preferred[p]
FirstOf(A, B, C) == IF A # {} THEN A ELSE IF B # {} THEN B ELSE C
Highest(S) == CHOOSE v \in S : \A w \in S : Compare(w, v) # 1
(* Bug: `latest` goes first. *)
ChoiceLatest(p) ==
  Highest(FirstOf({v \in Viable(p) : IsLatest(p, v)}, {v \in Viable(p) : IsPreferred(p, v)}, Viable(p)))
(* The lockfile's version, else `latest`, else the highest. *)
Choice(p) ==
  Highest(FirstOf({v \in Viable(p) : IsPreferred(p, v)}, {v \in Viable(p) : IsLatest(p, v)}, Viable(p)))

(* The override a parent scopes to p is not asked here. *)
HasSatisfyingVersion(p, declared) ==
  LET eff == Effective(request, p, declared, NoParent)
  IN eff.parses /\ \E v \in Known(p) : Satisfies(eff.range, v)

(* What a decision adds: dependencies, optional dependencies that some      *)
(* version satisfies, and required peers where they are installed.          *)
Demands(p, v) ==
  LET deps == DependenciesOf(p, v)
      Needs(declared, names) ==
        [i \in DOMAIN InNameOrder(names) |->
          LET d == InNameOrder(names)[i]
          IN DependsOn(p, Exact(v), d, Effective(request, d, declared[d], p))]
      optional == {d \in DOMAIN deps.optionalDependencies :
                     HasSatisfyingVersion(d, deps.optionalDependencies[d])}
      peers == IF request.autoInstallPeers
               THEN DOMAIN deps.peerDependencies \ deps.optionalPeers ELSE {}
  IN Needs(deps.dependencies, DOMAIN deps.dependencies)
     \o Needs(deps.optionalDependencies, optional)
     \o Needs(deps.peerDependencies, peers)

Deciding == phase = "decide" /\ Undecided \cap request.unreachable = {}

NothingLeft ==
  /\ Deciding /\ Undecided = {}
  /\ phase' = "solved"
  /\ UNCHANGED <<request, changed, visit, solution, incompat, decisionLevel, forbidden, turns>>

(* The next turn of Solve, which gives up after too many. *)
NextTurn ==
  IF turns < MaxTurns THEN phase' = "propagate" /\ turns' = turns + 1
                      ELSE phase' = "failed" /\ UNCHANGED turns

NoneViable ==
  /\ Deciding
  /\ \E p \in Undecided :
       /\ p = Pick /\ Viable(p) = {}
       /\ incompat' = Append(incompat, {Term(p, Wanted(p), TRUE)})
       /\ changed' = changed \cup {p}
  /\ NextTurn
  /\ UNCHANGED <<request, visit, solution, decisionLevel, forbidden>>

(* A packument that does not arrive ends the resolution, though only an     *)
(* optional dependency asked for it.                                        *)
Decide ==
  /\ Deciding
  /\ \E p \in Undecided, v \in Version :
       /\ p = Pick /\ Viable(p) # {} /\ v = Choice(p)
       /\ solution' = solution \cup {Decision(p, v, decisionLevel + 1)}
       /\ IF DOMAIN DependenciesOf(p, v).optionalDependencies \cap request.unreachable # {}
          THEN phase' = "error" /\ UNCHANGED <<incompat, changed, turns>>
          ELSE /\ NextTurn
               /\ incompat' = incompat \o Demands(p, v)
               /\ changed' = changed \cup {p}
  /\ decisionLevel' = decisionLevel + 1
  /\ UNCHANGED <<request, visit, forbidden>>

Unreachable ==
  /\ phase = "decide" /\ Undecided \cap request.unreachable # {}
  /\ phase' = "error"
  /\ UNCHANGED <<request, changed, visit, solution, incompat, decisionLevel, forbidden, turns>>

Ended == phase \in {"solved", "failed", "error"} /\ UNCHANGED vars

Next == \/ TakeChanged \/ Propagated \/ Derive \/ PassBy \/ Learn \/ GiveUp
        \/ NothingLeft \/ NoneViable \/ Decide \/ Unreachable \/ Ended
Fairness == WF_vars(Next)   \* one goroutine, which nothing blocks
Spec == Init /\ [][Next]_vars /\ Fairness
--------------------------------------------------------------------------------
Chosen == {a \in solution : a.kind = "decision" /\ a.package # Root}
Outcome == [p \in {a.package : a \in Chosen} |-> (CHOOSE a \in Chosen : a.package = p).version]

(* What $root, or a version, requires to be chosen: package and range.      *)
Required(p, v) ==
  LET deps == DependenciesOf(p, v)
      Eff(declared, names) == {<<d, Effective(request, d, declared[d], p)>> : d \in names}
  IN Eff(deps.dependencies, DOMAIN deps.dependencies)
     \cup Eff(deps.optionalDependencies,
              {d \in DOMAIN deps.optionalDependencies :
                 HasSatisfyingVersion(d, deps.optionalDependencies[d])})
     \cup Eff(deps.peerDependencies,
              {d \in DOMAIN deps.peerDependencies \ deps.optionalPeers : request.autoInstallPeers})
RequiredByRoot ==
  UNION {{<<d, Declared(Effective(request, d, declared[d], Root).range)>> :
            d \in DOMAIN declared} :
          declared \in {request.dependencies, request.optionalDependencies}}

(* A choice of versions that meets every requirement of the root and of     *)
(* itself, and in which every package is reached from the root.             *)
IsSolution(choice) ==
  LET Requires(p) == Required(p, choice[p])
      Met(need) == /\ need[2].parses
                   /\ need[1] \in DOMAIN choice
                   /\ Satisfies(need[2].range, choice[need[1]])
  IN /\ \A p \in DOMAIN choice : choice[p] \in Known(p)
     /\ \A need \in RequiredByRoot : Met(need)
     /\ \A p \in DOMAIN choice : \A need \in Requires(p) : Met(need)
     /\ \A S \in (SUBSET DOMAIN choice) \ {{}} :
          \E need \in RequiredByRoot \cup UNION {Requires(p) : p \in DOMAIN choice \ S} :
            need[1] \in S

(* What the solver returns is a solution, however often it backtracked: no  *)
(* requirement was lost with an undone assignment, none is left of a        *)
(* version that was given up (Solve).                                       *)
SolvedIsSolution == phase = "solved" => IsSolution(Outcome)

(* While the lockfile's versions are still a solution the solver follows    *)
(* them decision by decision, whatever `latest` says and newer versions     *)
(* promise, and so an install repeats (Preferred in makeDecision).          *)
LockedSolutionIsKept ==
  \/ phase = "failed"
  \/ \E a \in Chosen : \/ a.package \notin DOMAIN request.preferred
                       \/ a.version # request.preferred[a.package]
  => ~IsSolution(request.preferred)

(* A conflict is laid to the last decision and no other: all that was asked *)
(* before it still fits together, so one version is given up at a time, and *)
(* nothing that was decided earlier (onConflict).                           *)
LastIsBlamed == [][Learn => decisionLevel' = decisionLevel - 1]_vars

(* Every resolution ends, also within one unit propagation, which has no    *)
(* limit of turns.                                                          *)
SolverEnds == <>(phase \in {"solved", "failed", "error"})
================================================================================
