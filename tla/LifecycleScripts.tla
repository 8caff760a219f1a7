--------------------------- MODULE LifecycleScripts ---------------------------
(***************************************************************************)
(* The install-time scripts of dependencies (runLifecycleScripts and       *)
(* topoOrder of internal/installer, the gate of internal/scripts): the     *)
(* packages are put in post-order of a depth-first walk over their         *)
(* dependencies, whose order is that of Go maps and in which a cycle is    *)
(* cut where it closes; then each gets its turn: its scripts run, are      *)
(* skipped, or end the install.  A script that fails is a warning.  The    *)
(* project's own scripts come last.                                        *)
(***************************************************************************)
EXTENDS Naturals, Sequences, FiniteSets

CONSTANTS
  Ids,        \* packages: name@version
  ScriptsOf,  \* package -> its scripts, of preinstall, install, postinstall, prepare
  Policies    \* [enforce, allowed, never, strict, all]: the script policy and the
              \* packages the two lists match

Events   == {"preinstall", "install", "postinstall", "prepare"}
Triggers == {"preinstall", "install", "postinstall"}

VARIABLES
  plan,     \* the link specs: sequence of [id, deps]
  policy,   \* the settings of this install
  stage,    \* off, order, run, root, over or failed
  visited,  \* packages the walk has reached
  stack,    \* the walk: the specs it is inside of
  todo,     \* spec -> its dependencies the walk has not looked at yet
  next,     \* how far the loop over all specs has come
  order,    \* the specs in post-order
  turn,     \* how many of them have had their turn
  ran       \* the specs whose scripts have run

walk == <<visited, stack, todo, next, order>>
scriptVars == <<policy, stage, walk, turn, ran>>

Id(t)   == plan[t].id
Planned == {Id(t) : t \in DOMAIN plan}
(* Of several specs of one package the map holds the last.                 *)
ById(i) == CHOOSE t \in DOMAIN plan : Id(t) = i /\ \A u \in DOMAIN plan : Id(u) = i => u <= t
Deps(t) == plan[t].deps \cap Planned

TypeOK ==
  /\ policy \in Policies
  /\ stage \in {"off", "order", "run", "root", "over", "failed"}
  /\ visited \subseteq Planned
  /\ stack \in Seq(DOMAIN plan)
  /\ todo \in IF stage = "off" THEN {<<>>} ELSE [DOMAIN plan -> SUBSET Planned]
  /\ next \in 0..Len(plan)
  /\ order \in Seq(DOMAIN plan)
  /\ turn \in 0..Len(order)
  /\ ran \in Seq(DOMAIN plan)

Init ==
  /\ policy \in Policies
  /\ stage = "off"
  /\ visited = {} /\ stack = <<>> /\ todo = <<>> /\ next = 0 /\ order = <<>>
  /\ turn = 0 /\ ran = <<>>

(* The packages have been linked.                                          *)
Begin ==
  /\ stage = "off"
  /\ stage' = "order"
  /\ policy' \in Policies
  /\ todo' = [t \in DOMAIN plan |-> {}]
  /\ UNCHANGED <<visited, stack, next, order, turn, ran>>

Reset ==
  /\ stage' = "off"
  /\ visited' = {} /\ stack' = <<>> /\ todo' = <<>> /\ next' = 0 /\ order' = <<>>
  /\ turn' = 0 /\ ran' = <<>>
  /\ UNCHANGED policy

-----------------------------------------------------------------------------
Here == stack[Len(stack)]
Frame == UNCHANGED <<policy, stage, turn, ran>>

Enter(t, rest) ==
  /\ visited' = visited \cup {Id(t)}
  /\ stack' = Append(stack, t)
  /\ todo' = [rest EXCEPT ![t] = Deps(t)]

(* The loop over all specs visits those of packages not yet visited.       *)
NextSpec ==
  /\ stage = "order" /\ stack = <<>> /\ next < Len(plan)
  /\ next' = next + 1
  /\ IF Id(next + 1) \in visited THEN UNCHANGED <<visited, stack, todo>> ELSE Enter(next + 1, todo)
  /\ UNCHANGED order /\ Frame

(* visit, for a dependency of the spec the walk is in.                     *)
Visit(d) ==
  /\ stage = "order" /\ stack # <<>> /\ d \in todo[Here]
  /\ LET rest == [todo EXCEPT ![Here] = @ \ {d}] IN
     IF d \in visited THEN todo' = rest /\ UNCHANGED <<visited, stack>> ELSE Enter(ById(d), rest)
  /\ UNCHANGED <<next, order>> /\ Frame

(* Bug: a package is put before its dependencies.                          *)
LeaveFirst ==
  /\ stage = "order" /\ stack # <<>> /\ todo[Here] = {}
  /\ order' = <<Here>> \o order
  /\ stack' = SubSeq(stack, 1, Len(stack) - 1)
  /\ UNCHANGED <<visited, todo, next>> /\ Frame

Leave ==
  /\ stage = "order" /\ stack # <<>> /\ todo[Here] = {}
  /\ order' = Append(order, Here)
  /\ stack' = SubSeq(stack, 1, Len(stack) - 1)
  /\ UNCHANGED <<visited, todo, next>> /\ Frame

Ordered ==
  /\ stage = "order" /\ stack = <<>> /\ next = Len(plan)
  /\ stage' = "run"
  /\ UNCHANGED <<policy, walk, turn, ran>>

-----------------------------------------------------------------------------
(* The denylist comes before everything, the gate only where the policy    *)
(* asks for it.  A package that has no trigger passes both.                *)
Verdict(i) ==
  LET triggered == ScriptsOf[i] \cap Triggers # {} IN
  IF ScriptsOf[i] = {} \/ (triggered /\ i \in policy.never) THEN "skip"
  ELSE IF ~policy.enforce \/ ~triggered \/ policy.all \/ i \in policy.allowed THEN "run"
  ELSE IF policy.strict THEN "refuse" ELSE "skip"

Turn ==
  /\ stage = "run" /\ turn < Len(order)
  /\ turn' = turn + 1
  /\ LET t == order[turn + 1] IN
     /\ ran' = IF Verdict(Id(t)) = "run" THEN Append(ran, t) ELSE ran
     /\ stage' = IF Verdict(Id(t)) = "refuse" THEN "failed" ELSE "run"
  /\ UNCHANGED <<policy, walk>>

AllTurns ==
  /\ stage = "run" /\ turn = Len(order)
  /\ stage' = "root"
  /\ UNCHANGED <<policy, walk, turn, ran>>

(* One of the project's own scripts may fail, which ends the install.      *)
RootScripts ==
  /\ stage = "root"
  /\ stage' \in {"over", "failed"}
  /\ UNCHANGED <<policy, walk, turn, ran>>

Step ==
  \/ NextSpec \/ (\E d \in Ids : Visit(d)) \/ Leave \/ Ordered
  \/ Turn \/ AllTurns \/ RootScripts

-----------------------------------------------------------------------------
(* Whatever holds d and, with a package, its dependencies, holds i: d leads *)
(* to i along dependencies.                                                *)
Reaches(d, i) ==
  \A S \in SUBSET Planned :
    d \in S /\ (\A t \in DOMAIN plan : Id(t) \in S => Deps(t) \subseteq S) => i \in S

(* When the scripts of a package run, those of every dependency of it that *)
(* may build have run before, in whatever order Go walks its maps, unless  *)
(* the dependency leads back to the package (topoOrder,                    *)
(* runLifecycleScripts).                                                   *)
DepsBuiltFirst ==
  \A k \in DOMAIN ran : \A d \in Deps(ran[k]) :
    Verdict(d) = "run" /\ ~Reaches(d, Id(ran[k])) => \E l \in 1..(k - 1) : Id(ran[l]) = d
===============================================================================
