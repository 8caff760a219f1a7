--------------------------- MODULE TrustedInstalls ---------------------------
(***************************************************************************)
(* Resolutions of one project, one after the other, under trustPolicy      *)
(* no-downgrade (internal/policy/trust.go, updateTrust of                  *)
(* internal/installer): when a walk ends well, the version it placed of    *)
(* every registry package raises the recorded one, and records are floors  *)
(* for the provider in later walks, until they are older than              *)
(* trustPolicyIgnoreAfter.  Between walks the manifest and the settings    *)
(* may change, and the file may be lost: it lives under node_modules, is   *)
(* written in place, and reads as empty when it is torn.                   *)
(***************************************************************************)
EXTENDS HoistedLayout

CONSTANTS
  TextRank,   \* version -> its place in the order of version strings
  Edits,      \* what the root declares -> what it may declare next, if any
  Policies,   \* [trust, age]: the settings a walk may run under
  MaxWalks    \* bound: resolutions

ASSUME TrustAssumption ==
  /\ TextRank \in [Versions -> Nat]
  /\ \A p \in Policies : p.trust \in BOOLEAN /\ p.age \in Ages
  /\ Edits \in [RootDeps -> SUBSET RootDeps]
  /\ MaxWalks \in Nat \ {0}

VARIABLES
  trust,     \* whether this walk follows the policy
  mark,      \* name -> recorded version
  stamp,     \* name -> the walk that set it
  horizon,   \* records of this walk or before it are too old to count
  walks,     \* resolutions begun
  recorded,  \* whether the last one has raised the records
  root,      \* what the root declares
  (* What is remembered of earlier walks, for the properties.              *)
  seen,      \* name -> highest version placed since the file was lost
  split,     \* names that were placed in two versions
  last,      \* of the last recorded walk, unless the registry failed: root, settings, tree
  flaw       \* whether the provider or a source has failed in this walk

trustVars == <<trust, mark, stamp, horizon, walks, recorded>>
history   == <<root, seen, split, last, flaw>>

NoWalk == [root |-> <<>>, policy |-> <<>>, tree |-> <<>>]

(* The registry versions of n in the tree (placementVersions).             *)
Placed(n) == {tree[p].ver : p \in {q \in DOMAIN tree : tree[q].name = n /\ tree[q].src = NoSource}}

(* Of several the one whose text comes last is recorded.                   *)
Picked(n) == CHOOSE v \in Placed(n) : \A w \in Placed(n) : TextRank[w] <= TextRank[v]

(* Bug: a lower version lowers the record.                                 *)
RaisesAlways(n) == Placed(n) # {}
Raises(n) == Placed(n) # {} /\ mark[n] < Picked(n)

(* trustPolicy, the release age and what has expired: the settings a walk  *)
(* has run under.                                                          *)
Policy == [trust |-> trust, age |-> age, horizon |-> horizon]

TrustTypeOK ==
  /\ TypeOK
  /\ trust \in BOOLEAN /\ recorded \in BOOLEAN /\ flaw \in BOOLEAN
  /\ mark \in [Names -> Versions \cup {NoVersion}] /\ seen \in [Names -> Versions \cup {NoVersion}]
  /\ stamp \in [Names -> 0..walks] /\ horizon \in 0..walks /\ walks \in 1..MaxWalks
  /\ split \subseteq Names

TrustInit ==
  /\ Init
  /\ \E p \in Policies : trust = p.trust /\ age = p.age
  /\ mark = NoFloors /\ stamp = [n \in Names |-> 0]
  /\ horizon = 0 /\ walks = 1 /\ recorded = FALSE
  /\ root = depsOf[RootInstance]
  /\ seen = NoFloors /\ split = {} /\ last = NoWalk /\ flaw = FALSE

-----------------------------------------------------------------------------
Walk ==
  /\ Next
  /\ flaw' = (flaw \/ ExoticFails \/ AskFails \/ DepsFail)
  /\ UNCHANGED <<trustVars, root, seen, split, last>>

(* Update, with the versions of the walk that has ended, and Write.        *)
Update ==
  /\ status = "done" /\ trust /\ ~recorded
  /\ recorded' = TRUE
  /\ mark' = [n \in Names |-> IF Raises(n) THEN Picked(n) ELSE mark[n]]
  /\ stamp' = [n \in Names |-> IF Raises(n) THEN walks ELSE stamp[n]]
  /\ seen' = [n \in Names |->
       IF \E v \in Placed(n) : seen[n] < v
       THEN CHOOSE v \in Placed(n) : \A w \in Placed(n) : w <= v ELSE seen[n]]
  /\ split' = split \cup {n \in Names : Cardinality(Placed(n)) > 1}
  /\ last' = IF flaw THEN NoWalk ELSE [root |-> root, policy |-> Policy, tree |-> tree]
  /\ UNCHANGED <<vars, trust, horizon, walks, root, flaw>>

(* node_modules is removed, or a write of the file was cut short.  Not     *)
(* before the records are written: an install holds those it has read.     *)
Lose ==
  /\ status # "running" /\ mark # NoFloors
  /\ status = "done" /\ trust => recorded
  /\ mark' = NoFloors /\ stamp' = [n \in Names |-> 0]
  /\ seen' = NoFloors /\ split' = {} /\ last' = NoWalk
  /\ UNCHANGED <<vars, trust, horizon, walks, recorded, root, flaw>>

(* Another resolution: new settings, a new manifest, and the same registry.*)
NewWalk(deps, p) ==
  /\ status # "running" /\ walks < MaxWalks
  /\ walks' = walks + 1
  /\ tree' = [q \in {} |-> RootInstance]
  /\ queue' = Edges(Root, deps)
  /\ depsOf' = [depsOf EXCEPT ![RootInstance] = deps]
  /\ asked' = {} /\ streamed' = {}
  /\ status' = "running"
  /\ age' = p.age /\ trust' = p.trust
  /\ horizon' \in 0..walks
  /\ floors' = [n \in Names |-> IF p.trust /\ stamp[n] > horizon' THEN mark[n] ELSE NoVersion]
  /\ recorded' = FALSE /\ root' = deps /\ flaw' = FALSE
  /\ UNCHANGED <<mark, stamp, seen, split, last>>

TrustNext ==
  \/ Walk \/ Update \/ Lose
  \/ \E deps \in Edits[root], p \in Policies : NewWalk(deps, p)

TrustSpec == TrustInit /\ [][TrustNext]_<<vars, trustVars, history>> /\ WF_vars(Walk)

-----------------------------------------------------------------------------
(* "no-downgrade refuses to resolve to a version below the highest version *)
(* the project has previously installed for the same package"              *)
(* (doc/spec.md:174): it places none, over any walks between and whatever  *)
(* their settings, as long as records do not expire and the file is not    *)
(* lost; for a package that was placed in two versions at once only the    *)
(* one whose text comes last counts (Update, Floors, applyFloor).          *)
NoDowngrade ==
  trust /\ horizon = 0 =>
    \A n \in Names \ split : \A v \in Placed(n) : seen[n] <= v

(* A tree that holds no two of one package.                                *)
OneOfEach(t) == \A p, q \in DOMAIN t : t[p].name = t[q].name => t[p] = t[q]

(* The floors of a project do not stop it: a walk over the manifest of the *)
(* last recorded one, under the same settings, ends with the same tree,    *)
(* unless the tree held two of a package, of different versions or from    *)
(* different sources, or the registry failed (Update, Floors, Versions,    *)
(* resolveEdge).                                                           *)
ResolvesAgain ==
  /\ status # "running" /\ ~flaw
  /\ last # NoWalk /\ last.root = root /\ last.policy = Policy
  /\ OneOfEach(last.tree)
  => status = "done" /\ tree = last.tree
=============================================================================
