---------------------------- MODULE HoistedLayout ----------------------------
(***************************************************************************)
(* From the resolved tree to install paths (assembleHoisted and            *)
(* versionsByPath, internal/installer): every placement is installed at    *)
(* its path, except that a hoisted package the project declared through an *)
(* npm: alias is installed under the alias.  The dependency edges of a     *)
(* package are then resolved over the install paths, the way Node would.   *)
(***************************************************************************)
EXTENDS TreeResolver

CONSTANT AliasOf  \* package name -> the alias the root declares it under

ASSUME LayoutAssumption == DOMAIN AliasOf \subseteq Names

InstallPath(p) ==
  IF Len(p) = 1 /\ p[1] \in DOMAIN AliasOf THEN <<AliasOf[p[1]]>> ELSE p

InstallPaths == {InstallPath(p) : p \in DOMAIN tree}

(* The instances at an install path: one, unless two placements collide.   *)
InstalledAt(path) == {tree[p] : p \in {q \in DOMAIN tree : InstallPath(q) = path}}

(* Bug: the walk starts above the consumer's own node_modules.             *)
EdgeFromParent(path, n) ==
  LET held == {k \in 0..(Len(path) - 1) : Append(SubSeq(path, 1, k), n) \in InstallPaths} IN
  IF held = {} THEN {}
  ELSE InstalledAt(Append(SubSeq(path, 1, CHOOSE k \in held : \A l \in held : l <= k), n))

(* resolveEdgeVersion: the nearest n from the consumer's path up to the    *)
(* top level.                                                              *)
ResolveEdgeVersion(path, n) ==
  LET held == {k \in 0..Len(path) : Append(SubSeq(path, 1, k), n) \in InstallPaths} IN
  IF held = {} THEN {}
  ELSE InstalledAt(Append(SubSeq(path, 1, CHOOSE k \in held : \A l \in held : l <= k), n))

-----------------------------------------------------------------------------
NodeEdges(kinds) == {pd \in Required(kinds) : pd[1] # Root}
Moved(p, d) ==
  \/ d.name \in DOMAIN AliasOf \/ \E n \in DOMAIN AliasOf : AliasOf[n] = d.name
  \/ InstallPath(p) # p

(* "mirroring Node's resolution over the hoisted tree": the edge of every  *)
(* installed package leads to the instance the resolver chose for it,      *)
(* unless an alias has moved the package at one of its ends, or taken its  *)
(* name                                                                    *)
(* (assembleHoisted, versionsByPath, resolveEdgeVersion).                  *)
EdgesLeadToChoice ==
  status = "done" =>
    \A pd \in NodeEdges({"range", "exotic"}) :
      ~Moved(pd[1], pd[2]) =>
        ResolveEdgeVersion(InstallPath(pd[1]), pd[2].name) = {Nearest(pd[1], pd[2].name)}
==============================================================================
