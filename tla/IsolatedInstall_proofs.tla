----------------------- MODULE IsolatedInstall_proofs -----------------------
(***************************************************************************)
(* Proofs about installs in the isolated layout, for every set of packages, *)
(* every plan an install may resolve to, any number of installs and kills,  *)
(* and any script policy: the links lead somewhere, an install that links   *)
(* wires what it resolved, and the scripts run in the order of dependencies.*)
(***************************************************************************)
EXTENDS IsolatedInstall, SequenceTheorems, FiniteSetTheorems, WellFoundedInduction, TLAPS

Members == DOMAIN plan
Working == {"look", "prepare", "fill", "files"}
Linkers == {"wire", "top", "shim", "prune", "linked"}

(* No link of any kind leads to the package.                               *)
Unlinked(i) ==
  /\ \A j \in Ids, n \in Names : wire[j][n] # i
  /\ \A n \in Tops : top[n] # i
  /\ \A b \in Bins : bin[b] # i

(* Tasks run in the first phase only, and what a task may remove is not     *)
(* linked to: it saw the directory absent.                                  *)
TasksInPlace ==
  /\ \A t \in Tasks : task[t] \in Working => t \in Members /\ phase = "fill"
  /\ \A t \in Members : task[t] \in {"prepare", "fill", "files"} => Unlinked(Id(t))

(* A directory that a task is done with exists, or a twin of the task has   *)
(* removed it and will fill it again or fail; one that is being filled      *)
(* exists.                                                                  *)
TwinsRefill ==
  /\ \A t \in Members : task[t] = "done" =>
       Exists(Id(t)) \/ \E u \in Members : Id(u) = Id(t) /\ task[u] \in {"fill", "failed"}
  /\ \A t \in Members : task[t] = "files" => Exists(Id(t))

(* A directory of this install is in part while a task fills it, and mixed  *)
(* only where twins filled it.                                              *)
PartsInWork ==
  \A t \in Members : Id(t) \notin found.dirs =>
    /\ dir[Id(t)] = "part" => \E u \in Members : Id(u) = Id(t) /\ task[u] \in {"files", "failed"}
    /\ dir[Id(t)] = "mixed" => Others(t) # {}
    /\ Others(t) = {} /\ task[t] \in {"wait", "look", "prepare", "fill"} => ~Exists(Id(t))

Filling == phase = "fill" => TwinsRefill /\ PartsInWork

(* Once the links are being made, every directory is there, ...             *)
Built ==
  \A t \in Members :
    /\ Exists(Id(t))
    /\ dir[Id(t)] = "whole" \/ Id(t) \in found.dirs \/ (Others(t) # {} /\ dir[Id(t)] = "mixed")
DirsBuilt == phase \in Linkers => Built

(* ... a loop links what its spec asks for, ...                             *)
LeftOfSpec ==
  left # {} =>
    at \in Members /\ phase \in {"wire", "top", "shim"} /\ left \subseteq ToLink(plan[at])

(* ... a link beside a package has the name of the dependency, and what is  *)
(* not found there is made by a spec of the package, ...                    *)
WiresOfPlan ==
  /\ \A i \in Ids, n \in Names : wire[i][n] # None => wire[i][n].name = n
  /\ phase \in Active \cup {"linked"} =>
       /\ \A i \in Ids, n \in Names : wire[i][n] # None =>
            <<i, n>> \in found.wires \/ \E t \in Members : Id(t) = i /\ wire[i][n] \in plan[t].deps
       /\ \A n \in Tops : top[n] # None =>
            n \in found.tops \/ \E t \in Members : plan[t].direct /\ plan[t].top = n /\ top[n] = Id(t)

(* ... and the specs a loop has passed have their links.                    *)
WiredBy(t, ds) == \A d \in ds : d.name # Id(t).name => wire[Id(t)][d.name] # None
TopBy(t) == plan[t].direct => top[plan[t].top] # None
Passed ==
  /\ phase = "wire" =>
       /\ \A t \in Members : t < at => WiredBy(t, plan[t].deps \cap Planned)
       /\ at \in Members => WiredBy(at, (plan[at].deps \cap Planned) \ left)
  /\ phase \in {"top", "shim", "prune", "linked"} => \A t \in Members : WiredBy(t, plan[t].deps \cap Planned)
  /\ phase = "top" =>
       /\ \A t \in Members : t < at => TopBy(t)
       /\ at \in Members /\ left = {} => TopBy(at)
  /\ phase \in {"shim", "prune", "linked"} => \A t \in Members : TopBy(t)
(* The first phase begins with the loops at rest.                           *)
LoopsAtRest == phase = "fill" => at = 0 /\ left = {}

LinkInv == /\ TypeOK /\ LinksLead
           /\ TasksInPlace /\ Filling /\ DirsBuilt
           /\ LoopsAtRest /\ LeftOfSpec /\ WiresOfPlan /\ Passed

USE DEF Members, Working, Linkers, Stages, Active, Exists

(* What a plan is made of.                                                  *)
LEMMA PlanFacts ==
  ASSUME NEW p \in Plans
  PROVE  /\ Len(p) \in Nat /\ DOMAIN p = 1..Len(p) /\ DOMAIN p \subseteq Tasks
         /\ \A t \in DOMAIN p :
              /\ p[t].id \in Ids /\ p[t].deps \subseteq Ids /\ p[t].direct \in BOOLEAN
              /\ p[t].top \in Tops /\ p[t].bins \subseteq Bins
              /\ \A d, e \in p[t].deps : d.name = e.name => d = e
<1> DEFINE Entry == [id : Ids, deps : SUBSET Ids, direct : BOOLEAN, top : Tops, bins : SUBSET Bins]
<1>1. p \in Seq(Entry)
  BY IsolatedAssumption
<1>2. Len(p) \in Nat /\ DOMAIN p = 1..Len(p) /\ DOMAIN p \subseteq Tasks
  BY <1>1 DEF Tasks
<1>3. \A t \in DOMAIN p : p[t] \in Entry
  <2> HIDE DEF Entry
  <2> QED
    BY <1>1, <1>2, ElementOfSeq
<1>4. \A t \in DOMAIN p : p[t] \in Specs
  BY DEF Specs
<1> QED
  BY <1>2, <1>3, <1>4, IsolatedAssumption

(* The packages of the plan.                                                *)
LEMMA MemberFacts ==
  ASSUME plan \in Plans
  PROVE  /\ Len(plan) \in Nat /\ Members = 1..Len(plan) /\ Members \subseteq Tasks
         /\ \A t \in Members :
              /\ Id(t) \in Ids /\ Id(t) \in Planned
              /\ plan[t].deps \subseteq Ids /\ plan[t].direct \in BOOLEAN
              /\ plan[t].top \in Tops /\ plan[t].bins \subseteq Bins
              /\ \A d, e \in plan[t].deps : d.name = e.name => d = e
  BY PlanFacts DEF Id, Planned

(* A package is not a missing link, and its name is a name.                 *)
LEMMA NamesOfIds == \A i \in Ids : i # None /\ i.name \in Names
  BY IsolatedAssumption DEF Names

(* The invariant holds before the first install.                            *)
LEMMA LinkInit == Init => LinkInv
<1> SUFFICES ASSUME Init PROVE LinkInv
  OBVIOUS
<1>0. plan \in Plans /\ MaxInstalls \in Nat
  BY IsolatedAssumption DEF Init
<1>1. TypeOK
  BY <1>0, MemberFacts DEF Init, TypeOK
<1>2. LinksLead /\ WiresOfPlan
  BY DEF Init, LinksLead, WiresOfPlan
<1>3. TasksInPlace
  BY <1>0, MemberFacts DEF Init, TasksInPlace
<1> QED
  BY <1>1, <1>2, <1>3 DEF Init, LinkInv, Filling, DirsBuilt, LoopsAtRest, LeftOfSpec, Passed

(* An install begins: what is there is found.                               *)
LEMMA BeginLinks == ASSUME LinkInv, Begin PROVE LinkInv'
<1>0. plan' \in Plans /\ phase' = "fill"
  BY DEF Begin
<1>1. TypeOK'
  BY IsolatedAssumption, MemberFacts DEF LinkInv, TypeOK, Begin, disk
<1>2. LinksLead'
  BY DEF LinkInv, LinksLead, Begin, disk
<1>3. TasksInPlace' /\ LoopsAtRest' /\ LeftOfSpec' /\ DirsBuilt' /\ Passed'
  BY <1>0, PlanFacts DEF TasksInPlace, LoopsAtRest, LeftOfSpec, DirsBuilt, Passed, Begin
<1>4. Filling'
  BY <1>0, PlanFacts DEF Filling, TwinsRefill, PartsInWork, Begin, disk, Id
<1>5. WiresOfPlan'
  BY DEF LinkInv, WiresOfPlan, Begin, disk, TypeOK
<1> QED
  BY <1>1, <1>2, <1>3, <1>4, <1>5 DEF LinkInv

(* A kill leaves what is on disk.                                           *)
LEMMA KillLinks == ASSUME LinkInv, Kill PROVE LinkInv'
<1>0. phase' = "idle" /\ UNCHANGED <<disk, plan>>
  BY DEF Kill
<1>1. TypeOK'
  BY MemberFacts DEF LinkInv, TypeOK, Kill, disk
<1>2. LinksLead'
  BY <1>0 DEF LinkInv, LinksLead, disk
<1>3. TasksInPlace' /\ LoopsAtRest' /\ LeftOfSpec' /\ DirsBuilt' /\ Filling' /\ Passed'
  BY <1>0, MemberFacts DEF LinkInv, TypeOK, TasksInPlace, LoopsAtRest, LeftOfSpec, DirsBuilt, Filling, Passed, Kill
<1>4. WiresOfPlan'
  BY <1>0 DEF LinkInv, WiresOfPlan, disk
<1> QED
  BY <1>1, <1>2, <1>3, <1>4 DEF LinkInv

(* The tasks work in the first phase, each on its directory.                *)
LEMMA WorkFrame ==
  ASSUME LinkInv, NEW t \in Members, Work(t)
  PROVE  /\ phase = "fill" /\ UNCHANGED <<wire, top, bin, plan, found, phase, at, left, installs>>
         /\ \E s \in Stages, x \in {"absent", "part", "whole", "mixed"} :
              /\ task' = [task EXCEPT ![t] = s]
              /\ dir' = [dir EXCEPT ![Id(t)] = x]
<1>0. t \in Tasks /\ Id(t) \in Ids /\ dir \in [Ids -> {"absent", "part", "whole", "mixed"}]
  BY MemberFacts DEF LinkInv, TypeOK
<1>1. phase = "fill"
  BY <1>0 DEF LinkInv, TasksInPlace, Work, StartTask, Look, Clone, FallBack, MakeDir, Fill, Fail
<1>2. UNCHANGED <<wire, top, bin, plan, found, phase, at, left, installs>>
  BY DEF Work, StartTask, Look, Clone, FallBack, MakeDir, Fill, Fail, Rest, Links, loop
<1>3. \E s \in Stages : task' = [task EXCEPT ![t] = s]
  BY DEF Work, StartTask, Look, Clone, FallBack, MakeDir, Fill, Fail, Set
<1>4. \E x \in {"absent", "part", "whole", "mixed"} : dir' = [dir EXCEPT ![Id(t)] = x]
  <2>1. CASE UNCHANGED dir
    BY <1>0, <2>1
  <2> QED
    BY <1>0, <2>1 DEF Work, StartTask, Look, Clone, FallBack, MakeDir, Fill, Fail, SetDir
<1> QED
  BY <1>1, <1>2, <1>3, <1>4

(* A task fills its directory, or leaves that to a twin.                    *)
LEMMA WorkLinks == ASSUME LinkInv, NEW t \in Members, Work(t) PROVE LinkInv'
<1>0. /\ phase = "fill" /\ UNCHANGED <<wire, top, bin, plan, found, phase, at, left, installs>>
      /\ task \in [Tasks -> Stages] /\ dir \in [Ids -> {"absent", "part", "whole", "mixed"}]
      /\ t \in Tasks /\ Id(t) \in Ids /\ plan \in Plans
  BY WorkFrame, MemberFacts DEF LinkInv, TypeOK
<1>f. PICK s \in Stages, x \in {"absent", "part", "whole", "mixed"} :
         task' = [task EXCEPT ![t] = s] /\ dir' = [dir EXCEPT ![Id(t)] = x]
  BY WorkFrame
<1>1. TypeOK'
  BY <1>0, <1>f DEF LinkInv, TypeOK
<1>2. LoopsAtRest' /\ LeftOfSpec' /\ WiresOfPlan' /\ DirsBuilt' /\ Passed'
  BY <1>0 DEF LinkInv, LoopsAtRest, LeftOfSpec, WiresOfPlan, DirsBuilt, Passed, Id
<1>3. x = "absent" => Unlinked(Id(t)) \/ dir' = dir
  <2>1. CASE task[t] \in {"prepare", "fill", "files"}
    BY <2>1 DEF LinkInv, TasksInPlace
  <2>2. CASE StartTask(t) \/ Look(t)
    BY <2>2 DEF StartTask, Look
  <2> QED
    BY <2>1, <2>2 DEF Work, Clone, FallBack, MakeDir, Fill, Fail
<1>4. LinksLead'
  BY <1>0, <1>f, <1>3 DEF LinkInv, TypeOK, LinksLead, Unlinked
<1>5. TasksInPlace'
  <2>1. s \in {"prepare", "fill", "files"} => Unlinked(Id(t))
    <3>1. CASE Look(t)
      BY <1>0, <1>f, <3>1, NamesOfIds DEF Look, Set, LinkInv, LinksLead, Unlinked, TypeOK
    <3>2. CASE StartTask(t)
      BY <1>0, <1>f, <3>2 DEF StartTask, Set
    <3>3. CASE task[t] \in {"prepare", "fill", "files"}
      BY <3>3 DEF LinkInv, TasksInPlace
    <3> QED
      BY <3>1, <3>2, <3>3 DEF Work, Clone, FallBack, MakeDir, Fill, Fail
  <2> QED
    BY <1>0, <1>f, <2>1 DEF LinkInv, TasksInPlace, Unlinked, Id
<1>6. TwinsRefill'
  <2> USE <1>0, <1>f DEF TwinsRefill, Id
  <2>0. TwinsRefill
    BY DEF LinkInv, Filling
  <2>1. CASE StartTask(t)
    BY <2>0, <2>1 DEF StartTask, Set
  <2>2. CASE Look(t)
    BY <2>0, <2>2 DEF Look, Set
  <2>3. CASE Clone(t)
    BY <2>0, <2>3 DEF Clone, Set, SetDir
  <2>4. CASE FallBack(t)
    BY <2>0, <2>4 DEF FallBack, Set, SetDir, Others
  <2>5. CASE MakeDir(t)
    BY <2>0, <2>5 DEF MakeDir, Set, SetDir
  <2>6. CASE Fill(t)
    BY <2>0, <2>6 DEF Fill, Set, SetDir
  <2>7. CASE Fail(t)
    BY <2>0, <2>7 DEF Fail, Set
  <2> QED
    BY <2>1, <2>2, <2>3, <2>4, <2>5, <2>6, <2>7 DEF Work
<1>7. PartsInWork'
  <2> USE <1>0, <1>f DEF PartsInWork, Id, Others
  <2>0. PartsInWork
    BY DEF LinkInv, Filling
  <2>1. CASE StartTask(t)
    BY <2>0, <2>1 DEF StartTask, Set
  <2>2. CASE Look(t)
    <3>1. task[t] = "look" /\ dir' = dir /\ (task'[t] = "done" \/ ~Exists(Id(t)))
      BY <2>2 DEF Look, Set
    <3> QED
      BY <2>0, <3>1
  <2>3. CASE Clone(t)
    <3>1. task[t] = "prepare" /\ task'[t] = "done" /\ dir'[Id(t)] = "whole"
      BY <2>3 DEF Clone, Set, SetDir
    <3> QED
      BY <2>0, <3>1
  <2>4. CASE FallBack(t)
    <3>1. task[t] = "prepare" /\ task'[t] = "fill"
      BY <2>4 DEF FallBack, Set
    <3>2. \/ dir' = dir
          \/ dir'[Id(t)] = "absent"
          \/ Others(t) # {} /\ dir'[Id(t)] = "mixed"
      BY <2>4 DEF FallBack, SetDir
    <3> QED
      BY <2>0, <3>1, <3>2
  <2>5. CASE MakeDir(t)
    BY <2>0, <2>5 DEF MakeDir, Set, SetDir
  <2>6. CASE Fill(t)
    <3>1. /\ task[t] = "files" /\ task'[t] = "done"
          /\ dir'[Id(t)] = "whole" \/ (dir[Id(t)] # "part" /\ dir' = dir)
      BY <2>6 DEF Fill, Set, SetDir
    <3> QED
      BY <2>0, <3>1
  <2>7. CASE Fail(t)
    BY <2>0, <2>7 DEF Fail, Set
  <2> QED
    BY <2>1, <2>2, <2>3, <2>4, <2>5, <2>6, <2>7 DEF Work
<1> QED
  BY <1>0, <1>1, <1>2, <1>4, <1>5, <1>6, <1>7 DEF LinkInv, Filling

(* When no task failed, every directory is there, and the links follow.     *)
LEMMA FilledLinks == ASSUME LinkInv, Filled PROVE LinkInv'
<1>0. /\ phase = "fill" /\ UNCHANGED <<disk, plan, found, task, loop, installs>>
      /\ phase' \in {"error", "wire"} /\ at = 0 /\ left = {}
      /\ plan \in Plans /\ dir \in [Ids -> {"absent", "part", "whole", "mixed"}]
  BY DEF LinkInv, LoopsAtRest, Filled, TypeOK
<1>1. TypeOK'
  BY <1>0 DEF LinkInv, TypeOK, disk, loop
<1>2. LinksLead' /\ WiresOfPlan'
  BY <1>0 DEF LinkInv, LinksLead, WiresOfPlan, disk, Id
<1>3. TasksInPlace'
  <2>1. \A t \in Tasks : task[t] \notin Working
    BY DEF LinkInv, TasksInPlace, Filled
  <2> QED
    BY <1>0, <2>1, MemberFacts DEF TasksInPlace
<1>4. DirsBuilt'
  <2>1. SUFFICES ASSUME phase' = "wire" PROVE Built
    BY <1>0 DEF DirsBuilt, Built, disk, Id, Others
  <2>2. \A t \in Members : task[t] = "done"
    BY <2>1 DEF Filled
  <2>3. TwinsRefill /\ PartsInWork
    BY <1>0 DEF LinkInv, Filling
  <2> QED
    BY <1>0, <2>2, <2>3, MemberFacts DEF TwinsRefill, PartsInWork, Built
<1>5. LoopsAtRest' /\ LeftOfSpec' /\ Filling' /\ Passed'
  BY <1>0, MemberFacts DEF LoopsAtRest, LeftOfSpec, Filling, Passed, loop
<1> QED
  BY <1>1, <1>2, <1>3, <1>4, <1>5 DEF LinkInv

(* The conjuncts that no step of the linking goroutine disturbs.            *)
LEMMA ConnectFrame ==
  ASSUME LinkInv, phase \in {"wire", "top", "shim", "prune"}, phase' \in Linkers,
         UNCHANGED <<dir, plan, found, task, installs>>
  PROVE  TasksInPlace' /\ DirsBuilt' /\ Filling' /\ LoopsAtRest'
<1>1. \A t \in Tasks : task[t] \notin Working
  BY DEF LinkInv, TasksInPlace
<1>2. plan \in Plans
  BY DEF LinkInv, TypeOK
<1> QED
  BY <1>1, <1>2, MemberFacts DEF LinkInv, TasksInPlace, DirsBuilt, Filling, LoopsAtRest, Built, Id, Others

(* A loop goes on to the next spec, with all that one asks for to link.     *)
LEMMA NextSpecLinks == ASSUME LinkInv, NextSpec PROVE LinkInv'
<1>0. /\ phase \in {"wire", "top", "shim"} /\ phase' = phase
      /\ left = {} /\ at \in 0..Len(plan) /\ at < Len(plan) /\ at' = at + 1
      /\ UNCHANGED <<dir, wire, top, bin, plan, found, task, installs>>
      /\ plan \in Plans /\ at' \in Members
      /\ left' = ToLink(plan[at'])
  BY MemberFacts DEF LinkInv, NextSpec, disk, TypeOK
<1>1. TypeOK'
  <2>1. left' \subseteq CASE phase = "wire" -> Ids [] phase = "top" -> Tops [] phase = "shim" -> Bins [] OTHER -> {}
    BY <1>0, MemberFacts DEF ToLink
  <2> QED
    BY <1>0, <2>1, MemberFacts DEF LinkInv, TypeOK
<1>2. LinksLead' /\ WiresOfPlan'
  BY <1>0 DEF LinkInv, LinksLead, WiresOfPlan, Id
<1>3. LeftOfSpec'
  BY <1>0 DEF LeftOfSpec, ToLink, Planned, Id
<1>4. Passed'
  <2>1. CASE phase = "wire"
    <3>1. \A t \in Members : t < at' => WiredBy(t, plan[t].deps \cap Planned)
      BY <1>0, <2>1, MemberFacts DEF LinkInv, Passed, WiredBy
    <3>2. (plan[at'].deps \cap Planned) \ left' = {}
      BY <1>0, <2>1 DEF ToLink
    <3> QED
      BY <1>0, <2>1, <3>1, <3>2 DEF Passed, WiredBy, Planned, Id
  <2>2. CASE phase = "top"
    <3>1. \A t \in Members : t < at' => TopBy(t)
      BY <1>0, <2>2, MemberFacts DEF LinkInv, Passed
    <3>2. left' = {} => TopBy(at')
      BY <1>0, <2>2 DEF ToLink, TopBy
    <3> QED
      BY <1>0, <2>2, <3>1, <3>2 DEF LinkInv, Passed, WiredBy, TopBy, Planned, Id
  <2>3. CASE phase = "shim"
    BY <1>0, <2>3 DEF LinkInv, Passed, WiredBy, TopBy, Planned, Id
  <2> QED
    BY <1>0, <2>1, <2>2, <2>3
<1> QED
  BY <1>0, <1>1, <1>2, <1>3, <1>4, ConnectFrame DEF LinkInv

(* A loop has passed every spec, and the next one begins.                   *)
LEMMA NextLoopLinks == ASSUME LinkInv, NextLoop PROVE LinkInv'
<1>0. /\ phase \in {"wire", "top", "shim"} /\ phase' = After(phase)
      /\ left = {} /\ at = Len(plan) /\ at' = 0 /\ left' = {}
      /\ UNCHANGED <<dir, wire, top, bin, plan, found, task, installs>>
      /\ plan \in Plans
  BY DEF LinkInv, NextLoop, disk, TypeOK
<1>a. /\ phase = "wire" => phase' = "top"
      /\ phase = "top" => phase' = "shim"
      /\ phase = "shim" => phase' = "prune"
  BY <1>0 DEF After
<1>1. TypeOK'
  BY <1>0, <1>a, MemberFacts DEF LinkInv, TypeOK
<1>2. LinksLead' /\ WiresOfPlan' /\ LeftOfSpec'
  BY <1>0, <1>a DEF LinkInv, LinksLead, WiresOfPlan, LeftOfSpec, Id
<1>3. Passed'
  <2>0. \A t \in Members : t < at \/ t = at
    BY <1>0, MemberFacts
  <2>1. CASE phase = "wire"
    <3>1. \A t \in Members : WiredBy(t, plan[t].deps \cap Planned)
      BY <1>0, <2>0, <2>1 DEF LinkInv, Passed
    <3> QED
      BY <1>0, <1>a, <2>1, <3>1, MemberFacts DEF Passed, WiredBy, Planned, Id
  <2>2. CASE phase = "top"
    <3>1. \A t \in Members : TopBy(t)
      BY <1>0, <2>0, <2>2 DEF LinkInv, Passed
    <3> QED
      BY <1>0, <1>a, <2>2, <3>1 DEF LinkInv, Passed, WiredBy, TopBy, Planned, Id
  <2>3. CASE phase = "shim"
    BY <1>0, <1>a, <2>3 DEF LinkInv, Passed, WiredBy, TopBy, Planned, Id
  <2> QED
    BY <1>0, <2>1, <2>2, <2>3
<1> QED
  BY <1>0, <1>a, <1>1, <1>2, <1>3, ConnectFrame DEF LinkInv

(* A dependency is linked beside its dependent, unless something is there.  *)
LEMMA WireLinks == ASSUME LinkInv, NEW d \in Ids, Wire(d) PROVE LinkInv'
<1>0. /\ phase = "wire" /\ d \in left /\ left' = left \ {d}
      /\ UNCHANGED <<dir, top, bin, plan, found, task, phase, at, installs>>
      /\ plan \in Plans /\ wire \in [Ids -> [Names -> Ids \cup {None}]]
      /\ d.name \in Names /\ d # None
  BY NamesOfIds DEF LinkInv, Wire, Linking, TypeOK
<1>a. at \in Members /\ Id(at) \in Ids /\ left \subseteq plan[at].deps \cap Planned
  BY <1>0, MemberFacts DEF LinkInv, LeftOfSpec, ToLink
<1>b. /\ wire' \in [Ids -> [Names -> Ids \cup {None}]]
      /\ \A i \in Ids, n \in Names : wire'[i][n] = wire[i][n]
                                  \/ (wire[i][n] = None /\ i = Id(at) /\ n = d.name /\ wire'[i][n] = d)
      /\ d.name # Id(at).name => wire'[Id(at)][d.name] # None
  <2>1. CASE d.name = Id(at).name \/ wire[Id(at)][d.name] # None
    <3>1. wire' = wire
      BY <2>1 DEF Wire
    <3> QED
      BY <1>0, <2>1, <3>1
  <2>2. CASE d.name # Id(at).name /\ wire[Id(at)][d.name] = None
    <3>1. wire' = [wire EXCEPT ![Id(at)] = [wire[Id(at)] EXCEPT ![d.name] = d]]
      BY <2>2 DEF Wire
    <3>2. [wire[Id(at)] EXCEPT ![d.name] = d] \in [Names -> Ids \cup {None}]
      BY <1>0, <1>a
    <3>3. wire' \in [Ids -> [Names -> Ids \cup {None}]]
      BY <1>0, <1>a, <3>1, <3>2
    <3>4. \A i \in Ids : i # Id(at) => wire'[i] = wire[i]
      BY <1>0, <3>1
    <3>5. wire'[Id(at)] = [wire[Id(at)] EXCEPT ![d.name] = d]
      BY <1>0, <1>a, <3>1
    <3>6. \A n \in Names : wire'[Id(at)][n] = IF n = d.name THEN d ELSE wire[Id(at)][n]
      BY <1>0, <1>a, <3>5
    <3> QED
      BY <1>0, <2>2, <3>3, <3>4, <3>6
  <2> QED
    BY <2>1, <2>2
<1>1. TypeOK'
  BY <1>0, <1>b DEF LinkInv, TypeOK
<1>2. LinksLead'
  <2>1. Exists(d)
    BY <1>0, <1>a DEF LinkInv, DirsBuilt, Built, Planned, Id
  <2> QED
    BY <1>0, <1>b, <2>1 DEF LinkInv, LinksLead
<1>3. LeftOfSpec'
  BY <1>0, <1>a DEF LinkInv, LeftOfSpec, ToLink, Planned, Id
<1>4. WiresOfPlan'
  <2>0. WiresOfPlan /\ \A t \in Members : Id(t)' = Id(t)
    BY <1>0 DEF LinkInv, Id
  <2>1. \A i \in Ids, n \in Names : wire'[i][n] # None => wire'[i][n].name = n
    BY <1>0, <1>b, <2>0 DEF WiresOfPlan
  <2>2. ASSUME NEW i \in Ids, NEW n \in Names, wire'[i][n] # None
        PROVE  <<i, n>> \in found.wires \/ \E t \in Members : Id(t) = i /\ wire'[i][n] \in plan[t].deps
    <3>1. CASE wire'[i][n] = wire[i][n]
      BY <1>0, <2>0, <2>2, <3>1 DEF WiresOfPlan
    <3>2. CASE i = Id(at) /\ wire'[i][n] = d
      BY <1>0, <1>a, <3>2
    <3> QED
      BY <1>b, <3>1, <3>2
  <2> QED
    BY <1>0, <2>0, <2>1, <2>2 DEF WiresOfPlan
<1>5. Passed'
  <2>1. \A t \in Members : Id(t) \in Ids /\ \A e \in plan[t].deps : e.name \in Names
    BY <1>0, MemberFacts, NamesOfIds
  <2>2. \A t \in Members : \A e \in plan[t].deps :
          wire[Id(t)][e.name] # None => wire'[Id(t)][e.name] # None
    BY <1>0, <1>b, <2>1
  <2>3. \A t \in Members : t < at =>
          \A e \in plan[t].deps \cap Planned : e.name # Id(t).name => wire'[Id(t)][e.name] # None
    BY <1>0, <2>2 DEF LinkInv, Passed, WiredBy
  <2>4. \A e \in (plan[at].deps \cap Planned) \ left' :
          e.name # Id(at).name => wire'[Id(at)][e.name] # None
    BY <1>0, <1>a, <1>b, <2>2 DEF LinkInv, Passed, WiredBy
  <2>5. plan' = plan /\ at' = at /\ phase' = "wire" /\ Planned' = Planned /\ \A t \in Members : Id(t)' = Id(t)
    BY <1>0 DEF Planned, Id
  <2>6. \A t \in Members' : t < at' => WiredBy(t, plan[t].deps \cap Planned)'
    BY <2>3, <2>5 DEF WiredBy
  <2>7. WiredBy(at, (plan[at].deps \cap Planned) \ left)'
    BY <1>a, <2>4, <2>5 DEF WiredBy
  <2> QED
    BY <2>5, <2>6, <2>7 DEF Passed
<1> QED
  BY <1>0, <1>1, <1>2, <1>3, <1>4, <1>5, ConnectFrame DEF LinkInv

(* A direct package is linked at the top, unless something is there.        *)
LEMMA LinkTopLinks == ASSUME LinkInv, NEW n \in Tops, LinkTop(n) PROVE LinkInv'
<1>0. /\ phase = "top" /\ n \in left /\ left' = left \ {n}
      /\ UNCHANGED <<dir, wire, bin, plan, found, task, phase, at, installs>>
      /\ plan \in Plans /\ top \in [Tops -> Ids \cup {None}]
  BY DEF LinkInv, LinkTop, Linking, TypeOK
<1>a. /\ at \in Members /\ Id(at) \in Ids /\ Id(at) # None
      /\ plan[at].direct /\ plan[at].top = n /\ left = {n}
  BY <1>0, MemberFacts, NamesOfIds DEF LinkInv, LeftOfSpec, ToLink
<1>b. /\ top' \in [Tops -> Ids \cup {None}] /\ top'[n] # None
      /\ \A m \in Tops : top'[m] = top[m] \/ (top[m] = None /\ m = n /\ top'[m] = Id(at))
  <2>1. CASE top[n] # None
    BY <1>0, <2>1 DEF LinkTop
  <2>2. CASE top[n] = None
    BY <1>0, <1>a, <2>2 DEF LinkTop
  <2> QED
    BY <2>1, <2>2
<1>1. TypeOK'
  BY <1>0, <1>b DEF LinkInv, TypeOK
<1>2. LinksLead'
  <2>1. Exists(Id(at))
    BY <1>0, <1>a DEF LinkInv, DirsBuilt, Built
  <2> QED
    BY <1>0, <1>b, <2>1 DEF LinkInv, LinksLead
<1>3. LeftOfSpec'
  BY <1>0, <1>a DEF LinkInv, LeftOfSpec
<1>4. WiresOfPlan'
  <2>0. WiresOfPlan /\ \A t \in Members : Id(t)' = Id(t)
    BY <1>0 DEF LinkInv, Id
  <2>1. ASSUME NEW m \in Tops, top'[m] # None
        PROVE  m \in found.tops \/ \E t \in Members : plan[t].direct /\ plan[t].top = m /\ top'[m] = Id(t)
    <3>1. CASE top'[m] = top[m]
      BY <1>0, <2>0, <2>1, <3>1 DEF WiresOfPlan
    <3>2. CASE m = n /\ top'[m] = Id(at)
      BY <1>a, <3>2
    <3> QED
      BY <1>b, <3>1, <3>2
  <2> QED
    BY <1>0, <2>0, <2>1 DEF WiresOfPlan
<1>5. Passed'
  <2>1. \A t \in Members : TopBy(t) => TopBy(t)'
    BY <1>0, <1>a, <1>b, MemberFacts DEF TopBy
  <2> QED
    BY <1>0, <1>a, <1>b, <2>1 DEF LinkInv, Passed, WiredBy, TopBy, Planned, Id
<1> QED
  BY <1>0, <1>1, <1>2, <1>3, <1>4, <1>5, ConnectFrame DEF LinkInv

(* The shim of a bin runs a package that is there.                          *)
LEMMA ShimLinks == ASSUME LinkInv, NEW b \in Bins, Shim(b) PROVE LinkInv'
<1>0. /\ phase = "shim" /\ b \in left /\ left' = left \ {b}
      /\ UNCHANGED <<dir, wire, top, plan, found, task, phase, at, installs>>
      /\ plan \in Plans /\ bin \in [Bins -> Ids \cup {None}]
  BY DEF LinkInv, Shim, Linking, TypeOK
<1>a. at \in Members /\ Id(at) \in Ids
  BY <1>0, MemberFacts DEF LinkInv, LeftOfSpec
<1>b. /\ bin' \in [Bins -> Ids \cup {None}]
      /\ \A m \in Bins : bin'[m] = bin[m] \/ bin'[m] = Id(at)
  BY <1>0, <1>a DEF Shim
<1>1. TypeOK'
  BY <1>0, <1>b DEF LinkInv, TypeOK
<1>2. LinksLead'
  <2>1. Exists(Id(at))
    BY <1>0, <1>a DEF LinkInv, DirsBuilt, Built
  <2> QED
    BY <1>0, <1>b, <2>1 DEF LinkInv, LinksLead
<1>3. LeftOfSpec' /\ WiresOfPlan'
  BY <1>0, <1>a DEF LinkInv, LeftOfSpec, WiresOfPlan, ToLink, Planned, Id
<1>4. Passed'
  BY <1>0 DEF LinkInv, Passed, WiredBy, TopBy, Planned, Id
<1> QED
  BY <1>0, <1>1, <1>2, <1>3, <1>4, ConnectFrame DEF LinkInv

(* The prune removes no name of the plan.                                   *)
LEMMA PruneLinks == ASSUME LinkInv, Prune PROVE LinkInv'
<1>0. /\ phase = "prune" /\ phase' = "linked"
      /\ UNCHANGED <<dir, wire, bin, plan, found, task, at, left, installs>>
      /\ plan \in Plans /\ top \in [Tops -> Ids \cup {None}] /\ left = {}
      /\ top' = [n \in Tops |-> IF n \in Kept THEN top[n] ELSE None]
  BY DEF LinkInv, Prune, loop, TypeOK
<1>1. TypeOK'
  BY <1>0 DEF LinkInv, TypeOK
<1>2. LinksLead' /\ LeftOfSpec'
  BY <1>0 DEF LinkInv, LinksLead, LeftOfSpec
<1>3. WiresOfPlan'
  BY <1>0 DEF LinkInv, WiresOfPlan, Id
<1>4. Passed'
  <2>1. \A t \in Members : TopBy(t)'
    BY <1>0, MemberFacts DEF LinkInv, Passed, TopBy, Kept
  <2> QED
    BY <1>0, <2>1 DEF LinkInv, Passed, WiredBy, Planned, Id
<1> QED
  BY <1>0, <1>1, <1>2, <1>3, <1>4, ConnectFrame DEF LinkInv

(* Whatever happens to node_modules, the invariant holds.                   *)
LEMMA LinkNext == LinkInv /\ [InstallNext]_installVars => LinkInv'
<1>1. CASE LinkInv /\ UNCHANGED vars
  BY <1>1
  DEF vars, disk, loop, LinkInv, TypeOK, LinksLead, TasksInPlace, Unlinked, Filling, TwinsRefill, PartsInWork,
      Others, DirsBuilt, Built, LoopsAtRest, LeftOfSpec, ToLink, WiresOfPlan, Passed, WiredBy, TopBy, Planned, Id
<1>2. ASSUME LinkInv, InstallNext PROVE LinkInv' \/ UNCHANGED vars
  BY <1>2, BeginLinks, KillLinks, WorkLinks, FilledLinks, NextSpecLinks, NextLoopLinks, WireLinks,
     LinkTopLinks, ShimLinks, PruneLinks
  DEF InstallNext, InstallBegins, LinkStep, ScriptStep, Killed, Connect
<1> QED
  BY <1>1, <1>2 DEF installVars

(* The invariant of the linker holds through any number of installs.        *)
THEOREM LinkInvariant == InstallSpec => []LinkInv
  BY LinkInit, LinkNext, PTL DEF InstallSpec, InstallInit

(* Every symlink and shim leads to a directory that exists, at any time and *)
(* wherever installs failed or were killed (IsolatedLinker.Link, prune).    *)
THEOREM LinksAlwaysLead == InstallSpec => []LinksLead
<1>1. LinkInv => LinksLead
  BY DEF LinkInv
<1> QED
  BY <1>1, LinkInvariant, PTL

(* An install that linked has every package whole and every edge wired as   *)
(* resolved, but for what it found there and for twins (Link).              *)
THEOREM InstallsWireEdges == InstallSpec => []EdgesWired
<1>1. ASSUME LinkInv, phase = "linked", NEW t \in Members
      PROVE  /\ dir[Id(t)] = "whole" \/ Id(t) \in found.dirs \/ (Others(t) # {} /\ dir[Id(t)] = "mixed")
             /\ \A d \in plan[t].deps \cap Planned : d.name # Id(t).name =>
                  LET e == wire[Id(t)][d.name] IN
                  /\ e.name = d.name
                  /\ e = d \/ <<Id(t), d.name>> \in found.wires \/ Others(t) # {}
             /\ plan[t].direct =>
                  \/ top[plan[t].top] = Id(t) \/ plan[t].top \in found.tops
                  \/ \E u \in DOMAIN plan \ {t} : plan[u].direct /\ plan[u].top = plan[t].top
  <2>0. plan \in Plans
    BY <1>1 DEF LinkInv, TypeOK
  <2>1. dir[Id(t)] = "whole" \/ Id(t) \in found.dirs \/ (Others(t) # {} /\ dir[Id(t)] = "mixed")
    BY <1>1 DEF LinkInv, DirsBuilt, Built
  <2>2. ASSUME NEW d \in plan[t].deps \cap Planned, d.name # Id(t).name
        PROVE  /\ wire[Id(t)][d.name].name = d.name
               /\ wire[Id(t)][d.name] = d \/ <<Id(t), d.name>> \in found.wires \/ Others(t) # {}
    <3>1. Id(t) \in Ids /\ d.name \in Names /\ wire[Id(t)][d.name] # None
      BY <1>1, <2>0, <2>2, MemberFacts, NamesOfIds DEF LinkInv, Passed, WiredBy
    <3>2. wire[Id(t)][d.name].name = d.name
      BY <1>1, <3>1 DEF LinkInv, WiresOfPlan
    <3>3. \/ <<Id(t), d.name>> \in found.wires
          \/ \E u \in Members : Id(u) = Id(t) /\ wire[Id(t)][d.name] \in plan[u].deps
      BY <1>1, <3>1 DEF LinkInv, WiresOfPlan
    <3> QED
      BY <2>0, <2>2, <3>2, <3>3, MemberFacts DEF Others
  <2>3. plan[t].direct =>
          \/ top[plan[t].top] = Id(t) \/ plan[t].top \in found.tops
          \/ \E u \in DOMAIN plan \ {t} : plan[u].direct /\ plan[u].top = plan[t].top
    BY <1>1, <2>0, MemberFacts DEF LinkInv, Passed, TopBy, WiresOfPlan
  <2> QED
    BY <2>1, <2>2, <2>3
<1>2. LinkInv => EdgesWired
  BY <1>1 DEF EdgesWired
<1> QED
  BY <1>2, LinkInvariant, PTL

-----------------------------------------------------------------------------
(* The walk over the packages.  What it has visited is on its stack or in   *)
(* the order, and it is inside no spec twice; ...                           *)
WalkType ==
  /\ stack \in Seq(Members) /\ order \in Seq(Members) /\ ran \in Seq(Members)
  /\ turn \in 0..Len(order) /\ next \in Nat
  /\ stage # "off" => todo \in [Members -> SUBSET S!Planned]
  /\ stage = "off" => stack = <<>> /\ order = <<>> /\ visited = {}
  /\ stage \in {"off", "order"} => ran = <<>> /\ turn = 0
OnStack(i) == \E m \in 1..Len(stack) : S!Id(stack[m]) = i
InOrder(i) == \E q \in 1..Len(order) : S!Id(order[q]) = i
VisitedIsWalked ==
  /\ \A i : i \in visited <=> OnStack(i) \/ InOrder(i)
  /\ \A j, m \in 1..Len(stack) : stack[j] = stack[m] => j = m

(* ... the stack is a path along dependencies; ...                          *)
Leads  == {e \in S!Planned \X S!Planned : S!Reaches(e[1], e[2])}
PathUp == \A j \in 1..Len(stack) : \A m \in 1..j : <<S!Id(stack[m]), S!Id(stack[j])>> \in Leads

(* ... what it has yet to look at for a spec are dependencies of the spec;  *)
(* ...                                                                     *)
TodoOfSpec == \A j \in 1..Len(stack) : todo[stack[j]] \subseteq S!Deps(stack[j])

(* ... a dependency of a spec on the stack that it has looked at is in the  *)
(* order, or on the stack: below the spec, where it closes a cycle, or just *)
(* above, where the walk is inside of it; ...                               *)
StackDeps ==
  \A j \in 1..Len(stack) : \A d \in S!Deps(stack[j]) :
     \/ d \in todo[stack[j]]
     \/ InOrder(d)
     \/ \E m \in 1..Len(stack) : m <= j + 1 /\ S!Id(stack[m]) = d

(* ... so a dependency precedes its dependent, or leads back to it.         *)
OrderDeps ==
  \A p \in 1..Len(order) : \A d \in S!Deps(order[p]) :
     <<d, S!Id(order[p])>> \in Leads \/ \E q \in 1..(p - 1) : S!Id(order[q]) = d

(* Of the specs that had their turn, those that may build ran, in order.    *)
Builders == {i \in Ids : S!Verdict(i) = "run"}
RanInOrder ==
  /\ \A k \in 1..Len(ran) : \E p \in 1..turn :
       /\ ran[k] = order[p]
       /\ \A q \in 1..(p - 1) : S!Id(order[q]) \in Builders => \E l \in 1..(k - 1) : ran[l] = order[q]
  /\ \A q \in 1..turn : S!Id(order[q]) \in Builders => \E l \in 1..Len(ran) : ran[l] = order[q]

(* Scripts run when the links are made.                                     *)
AfterLinks == stage # "off" => phase = "linked"

WalkInv == VisitedIsWalked /\ PathUp /\ TodoOfSpec /\ StackDeps /\ OrderDeps
ScriptInv == AfterLinks /\ WalkType /\ WalkInv /\ RanInOrder

(* A set of positions has a last one.                                       *)
LEMMA LastExists ==
  ASSUME NEW n \in Nat, NEW A \in SUBSET (1..n), A # {}
  PROVE  \E m \in A : \A k \in A : k <= m
<1> DEFINE T == {A \cap (x..n) : x \in A}
           R == StrictSubsetOrdering(A)
           F == FiniteSubsetsOf(A)
<1>1. IsFiniteSet(A)
  <2>1. 1 \in Int /\ n \in Int
    OBVIOUS
  <2>2. IsFiniteSet(1..n)
    BY <2>1, FS_Interval
  <2> QED
    BY <2>2, FS_Subset
<1>2. T \subseteq F /\ T # {}
  <2>1. ASSUME NEW x \in A PROVE A \cap (x..n) \in F
    <3>1. IsFiniteSet(A \cap (x..n))
      BY <1>1, FS_Subset
    <3> QED
      BY <3>1 DEF FiniteSubsetsOf
  <2> QED
    BY <2>1
<1>3. IsWellFoundedOn(R, F)
  BY FS_StrictSubsetOrderingWellFounded
<1>4. PICK X \in T : \A Y \in T : ~ (<<Y, X>> \in R)
  <2> HIDE DEF T, R, F
  <2> QED
    BY <1>2, <1>3, WFMin
<1>5. PICK m \in A : X = A \cap (m..n)
  OBVIOUS
<1>6. ASSUME NEW k \in A, ~(k <= m) PROVE FALSE
  <2> DEFINE Y == A \cap (k..n)
  <2>1. Y \in T /\ Y \subseteq X /\ m \in X /\ m \notin Y
    BY <1>5, <1>6
  <2>2. <<Y, X>> \in R
    BY <2>1 DEF StrictSubsetOrdering
  <2> QED
    BY <1>4, <2>1, <2>2
<1> QED
  BY <1>6

(* The map of packages holds a spec of each, the last.                      *)
LEMMA ByIdFacts ==
  ASSUME plan \in Plans, NEW i \in S!Planned
  PROVE  S!ById(i) \in Members /\ S!Id(S!ById(i)) = i
<1> DEFINE A == {t \in Members : S!Id(t) = i}
<1>1. Len(plan) \in Nat /\ A \in SUBSET (1..Len(plan)) /\ A # {}
  BY MemberFacts DEF S!Planned
<1>2. \E m \in A : \A k \in A : k <= m
  <2> HIDE DEF A
  <2> QED
    BY <1>1, LastExists
<1>3. \E t \in Members : S!Id(t) = i /\ \A u \in Members : S!Id(u) = i => u <= t
  BY <1>2
<1> QED
  BY <1>3 DEF S!ById

(* A package leads to itself, and to the dependencies of what it leads to.  *)
LEMMA LeadsSelf == \A i \in S!Planned : <<i, i>> \in Leads
  BY DEF Leads, S!Reaches

(* A path may be prolonged by an edge.                                      *)
LEMMA LeadsOn ==
  ASSUME NEW d, NEW t \in Members, NEW e \in S!Deps(t), <<d, S!Id(t)>> \in Leads
  PROVE  <<d, e>> \in Leads
  BY DEF Leads, S!Reaches, S!Deps

(* What leads where depends on the plan, and who may build on the policy.   *)
LEMMA PlanAlone ==
  /\ plan' = plan => S!Planned' = S!Planned /\ Leads' = Leads
  /\ plan' = plan /\ policy' = policy => Builders' = Builders
<1>1. plan' = plan => S!Planned' = S!Planned
  BY DEF S!Id, S!Planned
<1>2. plan' = plan => Leads' = Leads
  BY <1>1 DEF Leads, S!Reaches, S!Id, S!Deps
<1>3. plan' = plan /\ policy' = policy => Builders' = Builders
  BY DEF Builders, S!Verdict
<1> QED
  BY <1>1, <1>2, <1>3

(* The walk enters a package it has not visited: the next of the loop, or   *)
(* a dependency of the spec it is in.                                       *)
LEMMA EnterWalk ==
  ASSUME plan \in Plans, WalkType, WalkInv, stage = "order",
         NEW t \in Members, S!Id(t) \notin visited,
         NEW rest \in [Members -> SUBSET S!Planned],
         \/ stack = <<>> /\ rest = todo
         \/ stack # <<>> /\ S!Id(t) \in S!Deps(S!Here)
              /\ rest = [todo EXCEPT ![S!Here] = @ \ {S!Id(t)}],
         S!Enter(t, rest), UNCHANGED <<plan, order, policy, stage, turn, ran>>, next' \in Nat
  PROVE  WalkType' /\ WalkInv'
<1> DEFINE n == Len(stack)
<1>0. /\ n \in Nat /\ stack \in Seq(Members)
      /\ stack' = Append(stack, t) /\ Len(stack') = n + 1
      /\ stack'[n + 1] = t /\ \A j \in 1..n : stack'[j] = stack[j] /\ stack[j] \in Members
      /\ visited' = visited \cup {S!Id(t)}
      /\ todo \in [Members -> SUBSET S!Planned]
      /\ S!Deps(t) \subseteq S!Planned
  BY DEF WalkType, S!Enter, S!Deps
<1> USE DEF S!Id, S!Deps
<1>1. plan' = plan /\ S!Planned' = S!Planned /\ Leads' = Leads
  BY PlanAlone
<1>2. WalkType'
  <2>1. todo' \in [Members -> SUBSET S!Planned] /\ stack' \in Seq(Members)
    BY <1>0 DEF S!Enter
  <2> QED
    BY <1>1, <2>1 DEF WalkType
<1>3. \A j \in 1..n : stack[j] # t
  BY <1>0 DEF WalkInv, VisitedIsWalked, OnStack
<1>4. \A i : (OnStack(i)' <=> OnStack(i) \/ i = S!Id(t)) /\ (InOrder(i)' <=> InOrder(i))
  BY <1>0, <1>1 DEF OnStack, InOrder
<1>5. VisitedIsWalked'
  <2>1. \A i : i \in visited' <=> OnStack(i)' \/ InOrder(i)'
    BY <1>0, <1>4 DEF WalkInv, VisitedIsWalked
  <2>2. \A j, m \in 1..Len(stack') : stack'[j] = stack'[m] => j = m
    BY <1>0, <1>3 DEF WalkInv, VisitedIsWalked
  <2> QED
    BY <2>1, <2>2 DEF VisitedIsWalked
<1>6. PathUp'
  <2>1. \A m \in 1..n : <<S!Id(stack[m]), S!Id(t)>> \in Leads
    <3> SUFFICES ASSUME NEW m \in 1..n PROVE <<S!Id(stack[m]), S!Id(t)>> \in Leads
      OBVIOUS
    <3>1. S!Here \in Members /\ S!Id(t) \in S!Deps(S!Here) /\ <<S!Id(stack[m]), S!Id(S!Here)>> \in Leads
      BY <1>0 DEF WalkInv, PathUp, S!Here
    <3> QED
      BY <3>1, LeadsOn
  <2>2. <<S!Id(t), S!Id(t)>> \in Leads
    BY MemberFacts, LeadsSelf DEF S!Planned
  <2> QED
    BY <1>0, <1>1, <2>1, <2>2 DEF WalkInv, PathUp
<1>7. StackDeps'
  <2> SUFFICES ASSUME NEW j \in 1..(n + 1), NEW d \in S!Deps(stack'[j])
               PROVE  \/ d \in todo'[stack'[j]]
                      \/ InOrder(d)
                      \/ \E m \in 1..(n + 1) : m <= j + 1 /\ S!Id(stack'[m]) = d
    BY <1>0, <1>1, <1>4 DEF StackDeps
  <2>1. CASE j = n + 1
    BY <1>0, <2>1 DEF S!Enter
  <2>2. CASE j \in 1..n
    <3>1. todo'[stack[j]] = rest[stack[j]]
      BY <1>0, <1>3, <2>2 DEF S!Enter
    <3>2. \/ d \in todo[stack[j]] \/ InOrder(d)
          \/ \E m \in 1..n : m <= j + 1 /\ S!Id(stack[m]) = d
      BY <1>0, <2>2 DEF WalkInv, StackDeps
    <3>3. d \in todo[stack[j]] => d \in rest[stack[j]] \/ (j = n /\ d = S!Id(t))
      BY <1>0, <2>2 DEF WalkInv, VisitedIsWalked, S!Here
    <3>4. S!Id(stack'[j]) = S!Id(stack[j]) /\ stack'[j] = stack[j] /\ d \in S!Deps(stack[j])
      BY <1>0, <2>2
    <3>5. CASE d \in rest[stack[j]]
      BY <3>1, <3>4, <3>5
    <3>6. CASE j = n /\ d = S!Id(t)
      <4>1. stack'[n + 1] = t /\ n + 1 \in 1..(n + 1)
        BY <1>0
      <4> QED
        BY <1>0, <3>6, <4>1
    <3>7. CASE \E m \in 1..n : m <= j + 1 /\ S!Id(stack[m]) = d
      BY <1>0, <3>7
    <3> QED
      BY <3>2, <3>3, <3>5, <3>6, <3>7
  <2> QED
    BY <2>1, <2>2
<1>8. OrderDeps'
  BY <1>1 DEF WalkInv, OrderDeps
<1>9. TodoOfSpec'
  <2> SUFFICES ASSUME NEW j \in 1..(n + 1)
               PROVE  todo'[stack'[j]] \subseteq S!Deps(stack'[j])
    BY <1>0, <1>1 DEF TodoOfSpec
  <2>1. CASE j = n + 1
    BY <1>0, <2>1 DEF S!Enter
  <2>2. CASE j \in 1..n
    <3>1. todo'[stack[j]] = rest[stack[j]]
      BY <1>0, <1>3, <2>2 DEF S!Enter
    <3>2. rest[stack[j]] \subseteq todo[stack[j]]
      BY <1>0, <2>2
    <3> QED
      BY <1>0, <2>2, <3>1, <3>2 DEF WalkInv, TodoOfSpec
  <2> QED
    BY <2>1, <2>2
<1> QED
  BY <1>2, <1>5, <1>6, <1>7, <1>8, <1>9 DEF WalkInv

(* The walk passes over a package that it has visited before.               *)
LEMMA SkipWalk ==
  ASSUME plan \in Plans, WalkType, WalkInv, stage = "order",
         \/ UNCHANGED todo
         \/ stack # <<>> /\ \E d \in visited : todo' = [todo EXCEPT ![S!Here] = @ \ {d}],
         UNCHANGED <<plan, visited, stack, order, policy, stage, turn, ran>>, next' \in Nat
  PROVE  WalkType' /\ WalkInv'
<1> USE DEF S!Id, S!Deps
<1>1. plan' = plan /\ S!Planned' = S!Planned /\ Leads' = Leads
  BY PlanAlone
<1>2. /\ stack \in Seq(Members) /\ Len(stack) \in Nat /\ \A j \in 1..Len(stack) : stack[j] \in Members
      /\ todo \in [Members -> SUBSET S!Planned]
  BY DEF WalkType
<1>3. todo' \in [Members -> SUBSET S!Planned]
  BY <1>2
<1>4. \A i : (OnStack(i)' <=> OnStack(i)) /\ (InOrder(i)' <=> InOrder(i))
  BY <1>1 DEF OnStack, InOrder
<1>5. ASSUME NEW j \in 1..Len(stack), NEW d \in S!Deps(stack[j])
      PROVE  \/ d \in todo'[stack[j]] \/ InOrder(d)
             \/ \E m \in 1..Len(stack) : m <= j + 1 /\ S!Id(stack[m]) = d
  <2>1. \/ d \in todo[stack[j]] \/ InOrder(d)
        \/ \E m \in 1..Len(stack) : m <= j + 1 /\ S!Id(stack[m]) = d
    BY DEF WalkInv, StackDeps
  <2>2. d \in todo[stack[j]] => d \in todo'[stack[j]] \/ (j = Len(stack) /\ d \in visited)
    BY <1>2 DEF WalkInv, VisitedIsWalked, S!Here
  <2> QED
    BY <1>2, <2>1, <2>2 DEF WalkInv, VisitedIsWalked, OnStack
<1>6. StackDeps'
  BY <1>1, <1>4, <1>5 DEF StackDeps
<1>7. WalkType'
  BY <1>1, <1>3 DEF WalkType
<1>8. VisitedIsWalked'
  BY <1>4 DEF WalkInv, VisitedIsWalked
<1>9. PathUp' /\ OrderDeps'
  BY <1>1 DEF WalkInv, PathUp, OrderDeps
<1>10. TodoOfSpec'
  <2> SUFFICES ASSUME NEW j \in 1..Len(stack)
               PROVE  todo'[stack[j]] \subseteq todo[stack[j]]
    BY <1>1 DEF WalkInv, TodoOfSpec
  <2> QED
    BY <1>2
<1> QED
  BY <1>6, <1>7, <1>8, <1>9, <1>10 DEF WalkInv

(* The walk leaves a package whose dependencies it has all looked at: they  *)
(* are in the order, or below it on the stack and so lead to it.            *)
LEMMA LeaveWalk ==
  ASSUME plan \in Plans, WalkType, WalkInv, S!Leave, UNCHANGED plan
  PROVE  WalkType' /\ WalkInv'
<1> DEFINE n == Len(stack)
           o == Len(order)
<1>0. /\ stack \in Seq(Members) /\ order \in Seq(Members) /\ n \in Nat \ {0} /\ o \in Nat
      /\ S!Here = stack[n] /\ S!Here \in Members /\ todo[S!Here] = {}
      /\ UNCHANGED <<visited, todo, next, stage, turn, ran>> /\ stage = "order"
      /\ Len(stack) = n /\ Len(order) = o
  BY DEF WalkType, S!Leave, S!Frame, S!Here
<1> HIDE DEF n, o
<1> USE DEF S!Id, S!Deps
<1>1. plan' = plan /\ S!Planned' = S!Planned /\ Leads' = Leads
  BY PlanAlone
<1>2. stack' \in Seq(Members) /\ Len(stack') = n - 1 /\ \A j \in 1..(n - 1) : stack'[j] = stack[j]
  <2>1. stack' = SubSeq(stack, 1, n - 1) /\ 1 \in 1..(n + 1) /\ n - 1 \in 0..n
    BY <1>0 DEF S!Leave
  <2>2. SubSeq(stack, 1, n - 1) \in Seq(Members)
    BY <1>0, <2>1, SubSeqProperties
  <2>3. Len(SubSeq(stack, 1, n - 1)) = n - 1
    BY <1>0, <2>1, SubSeqProperties
  <2>4. \A j \in 1..(n - 1) : SubSeq(stack, 1, n - 1)[j] = stack[1 + j - 1]
    BY <1>0, <2>1, SubSeqProperties
  <2> QED
    BY <1>0, <2>1, <2>2, <2>3, <2>4
<1>3. /\ order' \in Seq(Members) /\ Len(order') = o + 1 /\ order'[o + 1] = stack[n]
      /\ \A q \in 1..o : order'[q] = order[q]
  BY <1>0 DEF S!Leave
<1>4. WalkType'
  BY <1>0, <1>1, <1>2, <1>3 DEF WalkType
<1>5. \A i : (OnStack(i) \/ InOrder(i)) <=> (OnStack(i)' \/ InOrder(i)')
  <2>1. \A i : OnStack(i) <=> OnStack(i)' \/ i = S!Id(stack[n])
    BY <1>0, <1>1, <1>2 DEF OnStack
  <2>2. \A i : InOrder(i)' <=> InOrder(i) \/ i = S!Id(stack[n])
    BY <1>0, <1>1, <1>3 DEF InOrder
  <2> QED
    BY <2>1, <2>2
<1>6. VisitedIsWalked'
  BY <1>0, <1>2, <1>5 DEF WalkInv, VisitedIsWalked
<1>7. PathUp'
  <2>1. \A j \in 1..(n - 1) : \A m \in 1..j : <<S!Id(stack[m]), S!Id(stack[j])>> \in Leads
    BY <1>0 DEF WalkInv, PathUp
  <2> QED
    BY <1>0, <1>1, <1>2, <2>1 DEF PathUp
<1>8. StackDeps'
  <2> SUFFICES ASSUME NEW j \in 1..(n - 1), NEW d \in S!Deps(stack[j])
               PROVE  \/ d \in todo[stack[j]] \/ InOrder(d)'
                      \/ \E m \in 1..(n - 1) : m <= j + 1 /\ S!Id(stack[m]) = d
    BY <1>0, <1>1, <1>2 DEF StackDeps
  <2>1. \/ d \in todo[stack[j]] \/ InOrder(d)
        \/ \E m \in 1..n : m <= j + 1 /\ S!Id(stack[m]) = d
    BY <1>0 DEF WalkInv, StackDeps
  <2>2. InOrder(d) \/ d = S!Id(stack[n]) => InOrder(d)'
    BY <1>0, <1>1, <1>3 DEF InOrder
  <2> QED
    BY <1>0, <2>1, <2>2
<1>9. OrderDeps'
  <2> SUFFICES ASSUME NEW p \in 1..(o + 1), NEW d \in S!Deps(order'[p])
               PROVE  <<d, S!Id(order'[p])>> \in Leads \/ \E q \in 1..(p - 1) : S!Id(order'[q]) = d
    BY <1>1, <1>3 DEF OrderDeps
  <2>1. CASE p \in 1..o
    <3>1. order'[p] = order[p] /\ \A q \in 1..(p - 1) : order'[q] = order[q]
      BY <1>0, <1>3, <2>1
    <3>2. <<d, S!Id(order[p])>> \in Leads \/ \E q \in 1..(p - 1) : S!Id(order[q]) = d
      BY <1>0, <2>1, <3>1 DEF WalkInv, OrderDeps
    <3> QED
      BY <3>1, <3>2
  <2>2. CASE p = o + 1
    <3>1. \/ InOrder(d) \/ \E m \in 1..n : S!Id(stack[m]) = d
      BY <1>0, <1>3, <2>2 DEF WalkInv, StackDeps
    <3>2. InOrder(d) => \E q \in 1..o : S!Id(order'[q]) = d
      BY <1>0, <1>3 DEF InOrder
    <3>3. \A m \in 1..n : <<S!Id(stack[m]), S!Id(stack[n])>> \in Leads
      BY <1>0 DEF WalkInv, PathUp
    <3> QED
      BY <1>0, <1>3, <2>2, <3>1, <3>2, <3>3
  <2> QED
    BY <1>0, <2>1, <2>2
<1>10. TodoOfSpec'
  BY <1>0, <1>1, <1>2 DEF WalkInv, TodoOfSpec
<1> QED
  BY <1>4, <1>6, <1>7, <1>8, <1>9, <1>10 DEF WalkInv

(* Where the walk is not changed, what is said of it stays.                 *)
LEMMA WalkStays ==
  ASSUME WalkType, WalkInv, UNCHANGED <<plan, visited, stack, todo, order>>
  PROVE  WalkInv'
<1>1. Leads' = Leads
  BY PlanAlone
<1>2. VisitedIsWalked'
  BY DEF WalkInv, VisitedIsWalked, OnStack, InOrder, S!Id
<1>3. PathUp'
  BY <1>1 DEF WalkInv, PathUp, S!Id
<1>4. TodoOfSpec'
  BY PlanAlone DEF WalkInv, TodoOfSpec, S!Id, S!Deps
<1>5. StackDeps'
  BY PlanAlone DEF WalkInv, StackDeps, InOrder, S!Id, S!Deps
<1>6. OrderDeps'
  BY <1>1, PlanAlone DEF WalkInv, OrderDeps, S!Id, S!Deps
<1> QED
  BY <1>2, <1>3, <1>4, <1>5, <1>6 DEF WalkInv

(* Before the scripts run, nothing is said of what ran.                     *)
LEMMA NoneRan ==
  ASSUME ran = <<>>, turn = 0
  PROVE  RanInOrder
  BY DEF RanInOrder

(* An install that begins, or is killed, has no walk.                       *)
LEMMA NoWalk ==
  ASSUME stage = "off", stack = <<>>, order = <<>>, visited = {}, ran = <<>>, turn = 0, next = 0
  PROVE  ScriptInv
<1>1. WalkType
  BY DEF WalkType
<1>2. WalkInv
  BY DEF WalkInv, VisitedIsWalked, OnStack, InOrder, PathUp, TodoOfSpec, StackDeps, OrderDeps
<1> QED
  BY <1>1, <1>2, NoneRan DEF ScriptInv, AfterLinks

(* A turn: the scripts of a spec run if they may, and those of the specs    *)
(* before it have had theirs.                                               *)
LEMMA TurnRuns ==
  ASSUME plan \in Plans, WalkType, RanInOrder, S!Turn, UNCHANGED plan
  PROVE  WalkType' /\ RanInOrder'
<1> DEFINE t == order[turn + 1]
           k == Len(ran)
<1>0. /\ turn \in Nat /\ turn < Len(order) /\ Len(order) \in Nat /\ t \in Members
      /\ ran \in Seq(Members) /\ k \in Nat /\ turn' = turn + 1 /\ stage = "run"
      /\ UNCHANGED <<order, visited, stack, todo, next, policy>> /\ stage' \in {"run", "failed"}
      /\ S!Id(t) \in Ids
  BY MemberFacts DEF WalkType, S!Turn, S!walk, S!Id, Id
<1>1. Builders' = Builders /\ S!Planned' = S!Planned
  BY <1>0, PlanAlone
<1>2. /\ S!Id(t) \in Builders => ran' = Append(ran, t)
      /\ S!Id(t) \notin Builders => ran' = ran
  BY <1>0 DEF S!Turn, Builders
<1>3. ran' \in Seq(Members)
  <2>1. Append(ran, t) \in Seq(Members)
    <3> HIDE DEF t
    <3> QED
      BY <1>0
  <2> QED
    BY <1>0, <1>2, <2>1
<1>4. WalkType'
  BY <1>0, <1>1, <1>3 DEF WalkType
<1>5. /\ Len(ran') \in Nat /\ \A l \in 1..k : l \in 1..Len(ran') /\ ran'[l] = ran[l]
      /\ S!Id(t) \in Builders => Len(ran') = k + 1 /\ ran'[k + 1] = t
      /\ S!Id(t) \notin Builders => Len(ran') = k
  BY <1>0, <1>2
<1> HIDE DEF t, k
<1>6. ASSUME NEW i \in 1..Len(ran')
      PROVE  \E p \in 1..(turn + 1) :
               /\ ran'[i] = order[p]
               /\ \A q \in 1..(p - 1) : S!Id(order[q]) \in Builders => \E l \in 1..(i - 1) : ran'[l] = order[q]
  <2>1. CASE i \in 1..k
    <3>1. PICK p \in 1..turn :
            /\ ran[i] = order[p]
            /\ \A q \in 1..(p - 1) : S!Id(order[q]) \in Builders => \E l \in 1..(i - 1) : ran[l] = order[q]
      BY <2>1 DEF RanInOrder, k
    <3>2. \A l \in 1..(i - 1) : l \in 1..k
      BY <1>0, <2>1
    <3>3. p \in 1..(turn + 1)
      BY <1>0
    <3> QED
      BY <1>5, <2>1, <3>1, <3>2, <3>3
  <2>2. CASE i \notin 1..k
    <3>1. i = k + 1 /\ ran'[i] = t /\ S!Id(t) \in Builders
      BY <1>0, <1>5, <2>2
    <3>2. \A q \in 1..turn : S!Id(order[q]) \in Builders => \E l \in 1..k : ran[l] = order[q]
      BY DEF RanInOrder, k
    <3>3. turn + 1 \in 1..(turn + 1) /\ (turn + 1) - 1 = turn /\ (k + 1) - 1 = k
      BY <1>0
    <3> QED
      BY <1>5, <3>1, <3>2, <3>3 DEF t
  <2> QED
    BY <2>1, <2>2
<1>7. ASSUME NEW q \in 1..(turn + 1), S!Id(order[q]) \in Builders
      PROVE  \E l \in 1..Len(ran') : ran'[l] = order[q]
  <2>1. CASE q \in 1..turn
    BY <1>5, <1>7, <2>1 DEF RanInOrder, k
  <2>2. CASE q = turn + 1
    <3>1. k + 1 \in 1..Len(ran') /\ ran'[k + 1] = order[q]
      BY <1>0, <1>5, <1>7, <2>2 DEF t
    <3> QED
      BY <3>1
  <2> QED
    BY <1>0, <2>1, <2>2
<1>8. RanInOrder'
  BY <1>0, <1>1, <1>6, <1>7 DEF RanInOrder, S!Id
<1> QED
  BY <1>4, <1>8

(* The loop over all specs visits the next one.                             *)
LEMMA NextSpecWalks ==
  ASSUME plan \in Plans, WalkType, WalkInv, S!NextSpec, UNCHANGED plan
  PROVE  WalkType' /\ WalkInv'
<1>0. /\ stage = "order" /\ stack = <<>> /\ next + 1 \in Members /\ todo \in [Members -> SUBSET S!Planned]
      /\ UNCHANGED <<plan, order, policy, stage, turn, ran>> /\ next' \in Nat
  BY MemberFacts DEF S!NextSpec, S!Frame, WalkType
<1>1. CASE S!Id(next + 1) \in visited
  BY <1>0, <1>1, SkipWalk DEF S!NextSpec
<1>2. CASE S!Id(next + 1) \notin visited
  BY <1>0, <1>2, EnterWalk DEF S!NextSpec
<1> QED
  BY <1>1, <1>2

(* The walk looks at a dependency of the spec it is in.                     *)
LEMMA VisitWalks ==
  ASSUME plan \in Plans, WalkType, WalkInv, NEW d \in Ids, S!Visit(d), UNCHANGED plan
  PROVE  WalkType' /\ WalkInv'
<1> DEFINE rest == [todo EXCEPT ![S!Here] = @ \ {d}]
<1>0. /\ stage = "order" /\ stack # <<>> /\ d \in todo[S!Here]
      /\ todo \in [Members -> SUBSET S!Planned]
      /\ UNCHANGED <<plan, order, policy, stage, turn, ran>> /\ next' \in Nat
  BY DEF S!Visit, S!Frame, WalkType
<1>1. S!Here \in Members /\ d \in S!Deps(S!Here) /\ d \in S!Planned
  BY <1>0 DEF WalkType, WalkInv, TodoOfSpec, S!Here, S!Deps
<1>2. rest \in [Members -> SUBSET S!Planned]
  BY <1>0, <1>1
<1>3. CASE d \in visited
  BY <1>0, <1>3, SkipWalk DEF S!Visit
<1>4. CASE d \notin visited
  <2>1. S!ById(d) \in Members /\ S!Id(S!ById(d)) = d
    BY <1>1, ByIdFacts
  <2>2. S!Enter(S!ById(d), rest)
    BY <1>4 DEF S!Visit
  <2> HIDE DEF S!Enter, S!ById
  <2> QED
    BY <1>0, <1>1, <1>2, <1>4, <2>1, <2>2, EnterWalk
<1> QED
  BY <1>3, <1>4

(* Every step of the scripts keeps the walk and what it says of the order.  *)
LEMMA ScriptSteps ==
  ASSUME plan \in Plans, ScriptInv, S!Begin \/ S!Step, phase = "linked", UNCHANGED vars
  PROVE  ScriptInv'
<1> USE DEF ScriptInv
<1>0. plan' = plan /\ AfterLinks' /\ WalkType /\ WalkInv /\ RanInOrder
  BY DEF AfterLinks, vars
<1>1. CASE S!Begin
  <2>1. WalkType'
    BY <1>0, <1>1, PlanAlone DEF S!Begin, WalkType
  <2>2. stack = <<>> /\ order = <<>> /\ visited = {} /\ ran = <<>> /\ turn = 0
    BY <1>0, <1>1 DEF S!Begin, WalkType
  <2>3. stack' = <<>> /\ order' = <<>> /\ visited' = {} /\ ran' = <<>> /\ turn' = 0
    BY <1>1, <2>2 DEF S!Begin
  <2>4. WalkInv'
    BY <2>3 DEF WalkInv, VisitedIsWalked, OnStack, InOrder, PathUp, TodoOfSpec, StackDeps, OrderDeps
  <2>5. RanInOrder'
    BY <2>3 DEF RanInOrder
  <2> QED
    BY <1>0, <2>1, <2>4, <2>5
<1>2. ASSUME S!NextSpec \/ (\E d \in Ids : S!Visit(d)) \/ S!Leave
      PROVE  ScriptInv'
  <2>1. WalkType' /\ WalkInv'
    BY <1>0, <1>2, NextSpecWalks, VisitWalks, LeaveWalk
  <2>2. ran' = <<>> /\ turn' = 0
    BY <1>0, <1>2 DEF S!NextSpec, S!Visit, S!Leave, S!Frame, WalkType
  <2>3. RanInOrder'
    BY <2>2 DEF RanInOrder
  <2> QED
    BY <1>0, <2>1, <2>3
<1>3. CASE S!Turn
  <2>1. UNCHANGED <<plan, visited, stack, todo, order>>
    BY <1>0, <1>3 DEF S!Turn, S!walk
  <2> QED
    BY <1>0, <1>3, <2>1, TurnRuns, WalkStays
<1>4. ASSUME S!Ordered \/ S!AllTurns \/ S!RootScripts
      PROVE  ScriptInv'
  <2>1. UNCHANGED <<plan, policy, visited, stack, todo, next, order, turn, ran>>
    BY <1>0, <1>4 DEF S!Ordered, S!AllTurns, S!RootScripts, S!walk
  <2>2. stage # "off" /\ stage' \in {"run", "root", "over", "failed"}
    BY <1>4 DEF S!Ordered, S!AllTurns, S!RootScripts
  <2>3. WalkType'
    BY <1>0, <2>1, <2>2, PlanAlone DEF WalkType
  <2>4. RanInOrder'
    BY <1>0, <2>1, PlanAlone DEF RanInOrder, S!Id
  <2> QED
    BY <1>0, <2>1, <2>3, <2>4, WalkStays
<1> QED
  BY <1>1, <1>2, <1>3, <1>4 DEF S!Step

(* The plan is that of one install while its scripts run.                   *)
LEMMA ScriptNext == LinkInv /\ ScriptInv /\ [InstallNext]_installVars => ScriptInv'
<1> SUFFICES ASSUME LinkInv, ScriptInv, [InstallNext]_installVars PROVE ScriptInv'
  OBVIOUS
<1>0. plan \in Plans
  BY DEF LinkInv, TypeOK
<1>1. ASSUME S!Reset PROVE ScriptInv'
  <2>1. /\ stage' = "off" /\ stack' = <<>> /\ order' = <<>> /\ visited' = {}
        /\ ran' = <<>> /\ turn' = 0 /\ next' = 0
    BY <1>1 DEF S!Reset
  <2>2. WalkType'
    BY <2>1 DEF WalkType
  <2>3. WalkInv'
    BY <2>1 DEF WalkInv, VisitedIsWalked, OnStack, InOrder, PathUp, TodoOfSpec, StackDeps, OrderDeps
  <2>4. RanInOrder' /\ AfterLinks'
    BY <2>1 DEF RanInOrder, AfterLinks
  <2> QED
    BY <2>2, <2>3, <2>4 DEF ScriptInv
<1>2. CASE InstallBegins \/ Killed
  BY <1>1, <1>2 DEF InstallBegins, Killed
<1>3. CASE LinkStep
  <2>1. UNCHANGED scriptVars /\ phase # "linked"
    <3>1. ASSUME NEW t \in DOMAIN plan, Work(t) PROVE phase = "fill"
      <4>1. task[t] \in {"wait"} \cup Working
        BY <3>1 DEF Work, StartTask, Look, Clone, FallBack, MakeDir, Fill, Fail
      <4> QED
        BY <1>0, <3>1, <4>1, MemberFacts DEF LinkInv, TasksInPlace, Work, StartTask, Look, Clone, FallBack, MakeDir, Fill, Fail
    <3>2. ASSUME Connect PROVE phase # "linked"
      BY <3>2 DEF Connect, Filled, NextSpec, NextLoop, Prune, Wire, LinkTop, Shim
    <3> QED
      BY <1>3, <3>1, <3>2 DEF LinkStep
  <2>2. stage = "off"
    BY <2>1 DEF ScriptInv, AfterLinks
  <2>3. /\ stage' = "off" /\ stack' = <<>> /\ order' = <<>> /\ visited' = {}
        /\ ran' = <<>> /\ turn' = 0 /\ next' \in Nat
    BY <2>1, <2>2 DEF scriptVars, ScriptInv, WalkType
  <2>4. WalkType'
    BY <2>3 DEF WalkType
  <2>5. WalkInv'
    BY <2>3 DEF WalkInv, VisitedIsWalked, OnStack, InOrder, PathUp, TodoOfSpec, StackDeps, OrderDeps
  <2>6. RanInOrder' /\ AfterLinks'
    BY <2>3 DEF RanInOrder, AfterLinks
  <2> QED
    BY <2>4, <2>5, <2>6 DEF ScriptInv
<1>4. CASE ScriptStep
  <2>1. S!Step => phase = "linked"
    BY DEF S!Step, S!NextSpec, S!Visit, S!Leave, S!Ordered, S!Turn, S!AllTurns, S!RootScripts, ScriptInv, AfterLinks
  <2> QED
    BY <1>0, <1>4, <2>1, ScriptSteps DEF ScriptStep
<1>5. CASE UNCHANGED installVars
  <2>1. UNCHANGED <<plan, phase, policy, stage, visited, stack, todo, next, order, turn, ran>>
    BY <1>5 DEF installVars, vars, scriptVars
  <2>2. WalkType' /\ AfterLinks'
    BY <2>1, PlanAlone DEF ScriptInv, WalkType, AfterLinks
  <2>3. RanInOrder'
    <3>1. RanInOrder /\ Builders' = Builders
      BY <2>1, PlanAlone DEF ScriptInv
    <3>2. (\A k \in 1..Len(ran) : \E p \in 1..turn :
             /\ ran[k] = order[p]
             /\ \A q \in 1..(p - 1) : S!Id(order[q]) \in Builders => \E l \in 1..(k - 1) : ran[l] = order[q])'
      BY <2>1, <3>1 DEF RanInOrder, S!Id
    <3>3. (\A q \in 1..turn : S!Id(order[q]) \in Builders => \E l \in 1..Len(ran) : ran[l] = order[q])'
      BY <2>1, <3>1 DEF RanInOrder, S!Id
    <3> QED
      BY <3>2, <3>3 DEF RanInOrder
  <2> QED
    BY <2>1, <2>2, <2>3, WalkStays DEF ScriptInv
<1> QED
  BY <1>2, <1>3, <1>4, <1>5 DEF InstallNext

(* The walk, the order it makes and the scripts that ran are as said, at    *)
(* any time of any sequence of installs and kills (topoOrder,               *)
(* runLifecycleScripts).                                                    *)
THEOREM ScriptInvariant == InstallSpec => []ScriptInv
<1>1. InstallInit => ScriptInv
  BY NoWalk DEF InstallInit, S!Init
<1> QED
  BY <1>1, LinkInvariant, ScriptNext, PTL DEF InstallSpec

(* When the scripts of a package run, those of every dependency of it that  *)
(* may build have run before, unless the dependency leads back to it: for   *)
(* any plan, with or without cycles, and whatever order Go walks its maps   *)
(* in (topoOrder, runLifecycleScripts).                                     *)
THEOREM DependenciesBuildFirst == InstallSpec => []DepsBuiltFirst
<1>1. ASSUME LinkInv, ScriptInv,
             NEW k \in DOMAIN ran, NEW d \in S!Deps(ran[k]),
             S!Verdict(d) = "run", ~S!Reaches(d, S!Id(ran[k]))
      PROVE  \E l \in 1..(k - 1) : S!Id(ran[l]) = d
  <2>1. plan \in Plans /\ WalkType /\ OrderDeps /\ RanInOrder
    BY <1>1 DEF LinkInv, TypeOK, ScriptInv, WalkInv
  <2>2. k \in 1..Len(ran) /\ turn \in 0..Len(order)
    BY <1>1, <2>1 DEF WalkType
  <2>3. PICK p \in 1..turn :
          /\ ran[k] = order[p]
          /\ \A q \in 1..(p - 1) : S!Id(order[q]) \in Builders => \E l \in 1..(k - 1) : ran[l] = order[q]
    BY <2>1, <2>2 DEF RanInOrder
  <2>4. p \in 1..Len(order)
    BY <2>1, <2>2 DEF WalkType
  <2>5. <<d, S!Id(ran[k])>> \notin Leads
    BY <1>1 DEF Leads
  <2>6. PICK q \in 1..(p - 1) : S!Id(order[q]) = d
    BY <2>1, <2>3, <2>4, <2>5 DEF OrderDeps
  <2>7. d \in Builders
    <3>1. d \in Ids
      BY <2>1, MemberFacts DEF S!Deps, S!Planned, S!Id, Id
    <3> QED
      BY <1>1, <3>1 DEF Builders
  <2> QED
    BY <2>3, <2>6, <2>7
<1>2. LinkInv /\ ScriptInv => DepsBuiltFirst
  BY <1>1 DEF DepsBuiltFirst, S!DepsBuiltFirst
<1> QED
  BY <1>2, LinkInvariant, ScriptInvariant, PTL
================================================================================
