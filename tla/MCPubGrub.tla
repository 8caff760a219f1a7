------------------------------ MODULE MCPubGrub ------------------------------
(* Resolutions of up to five packages for the run of PubGrub.               *)
EXTENDS PubGrub

SmallVersion == 0..3
CompareNumbers(u, v) == IF u < v THEN -1 ELSE IF u > v THEN 1 ELSE 0
Never(v) == FALSE
Itself(v) == v
AtLeast(v) == {Interval(From(v, TRUE), Unset, {})}
AtMost(v) == {Interval(Unset, From(v, TRUE), {})}

NoPartial == <<>>
Everything == Declared(AnyRange)
Only(v)  == Declared(Exact(v))
Up(v)    == Declared(AtLeast(v))
UpTo(v)  == Declared(AtMost(v))
Nothing  == Declared({Interval(From(2, FALSE), From(1, FALSE), {})})

Leaf == PackageDependencies(NoPartial, NoPartial, NoPartial, {})
Needs(deps)    == [Leaf EXCEPT !.dependencies = deps]
Optional(deps) == [Leaf EXCEPT !.optionalDependencies = deps]
Peers(deps)    == [Leaf EXCEPT !.peerDependencies = deps]

Ask(deps, provider) ==
  Request(deps, NoPartial, provider, NoPartial, NoPartial, NoPartial, NoPartial, FALSE, {})

(* Two packages of two versions, each of which may need a third. *)
Third == {Leaf, Needs(3 :> Only(1)), Needs(3 :> Up(2)), Needs(3 :> Everything)}
Triangles ==
  {[Ask((1 :> Everything) @@ (2 :> r), (1 :> <<a1, a2>>) @@ (2 :> <<b1, b2>>) @@ (3 :> <<Leaf, Leaf>>))
    EXCEPT !.preferred = lock, !.latest = (1 :> 2)] :
     r \in {Everything, UpTo(1)}, a1 \in {Leaf, Needs(3 :> Only(1))}, a2 \in Third, b1 \in Third, b2 \in Third,
     lock \in {NoPartial, 1 :> 1 @@ 2 :> 1, 1 :> 1 @@ 2 :> 1 @@ 3 :> 1, 1 :> 2 @@ 2 :> 1 @@ 3 :> 2}}

(* The graph of TestResolveDeterministic: two independent conflicts. *)
Pairs == (1 :> <<Needs(4 :> Only(1)), Needs(4 :> Up(2))>>) @@ (2 :> <<Needs(4 :> Only(1))>>)
      @@ (3 :> <<Needs(5 :> Only(1)), Needs(5 :> Up(2)), Needs(5 :> Only(3))>>)
      @@ (4 :> <<Leaf, Leaf>>) @@ (5 :> <<Leaf, Leaf, Leaf>>)
TwoConflicts ==
  {[Ask((1 :> Everything) @@ (2 :> Everything) @@ (3 :> Everything) @@ (5 :> r), Pairs)
    EXCEPT !.latest = latest] : r \in {UpTo(1), UpTo(2), Everything}, latest \in {NoPartial, 3 :> 2 @@ 5 :> 1}}

Cycle == (1 :> <<Needs(2 :> Only(1)), Needs(2 :> Everything)>>)
      @@ (2 :> <<Needs(1 :> Only(1)), Needs((1 :> Up(2)) @@ (3 :> Everything)), Needs(2 :> Only(1))>>)
Special ==
  {Ask(1 :> Everything, Cycle), Ask(2 :> Everything, Cycle @@ (3 :> <<Leaf>>)),
   \* a package without versions, one whose newest version names a range that is not one
   Ask(1 :> Everything, 1 :> <<Needs(2 :> Everything)>>),
   Ask((1 :> Everything) @@ (2 :> Unparseable), (1 :> <<Leaf, Needs(2 :> Unparseable)>>) @@ (2 :> <<Leaf>>)),
   Ask(1 :> Nothing, 1 :> <<Leaf>>),
   \* the version given up also asked for something else
   Ask((1 :> Everything) @@ (2 :> UpTo(1)),
       (1 :> <<Leaf, Needs((2 :> Up(2)) @@ (3 :> Everything))>>)
       @@ (2 :> <<Leaf, Leaf>>) @@ (3 :> <<Leaf>>)),
   \* optional dependencies: no version, an impossible range, one that conflicts, unreachable
   Ask((1 :> Everything) @@ (2 :> UpTo(1)),
       (1 :> <<Leaf, Optional((2 :> Up(2)) @@ (3 :> Up(3)) @@ (4 :> Everything))>>)
       @@ (2 :> <<Leaf, Leaf>>) @@ (3 :> <<Leaf>>)),
   [Ask(1 :> Everything, (1 :> <<Optional(2 :> Everything)>>)) EXCEPT !.unreachable = {2}],
   [Ask(1 :> Everything, (1 :> <<Needs(2 :> Everything)>>) @@ (3 :> <<Leaf>>)) EXCEPT !.unreachable = {2},
        !.optionalDependencies = (3 :> Everything)],
   \* overrides, everywhere and under one parent
   [Ask((1 :> Everything) @@ (2 :> Everything), (1 :> <<Needs(3 :> Only(1))>>) @@ (2 :> <<Needs(3 :> Only(1))>>) @@ (3 :> <<Leaf, Leaf>>))
    EXCEPT !.overrides = (3 :> Up(2)), !.nested = (<<1, 3>> :> Everything)]}
  \cup
  {[Ask((1 :> Everything) @@ (2 :> Everything),
        (1 :> <<Leaf, [Peers((2 :> UpTo(1)) @@ (3 :> Everything)) EXCEPT !.optionalPeers = {3}]>>)
        @@ (2 :> <<Leaf, Leaf>>) @@ (3 :> <<Leaf>>))
    EXCEPT !.autoInstallPeers = auto] : auto \in BOOLEAN}

SmallRequests == Triangles \cup TwoConflicts \cup Special
==============================================================================
