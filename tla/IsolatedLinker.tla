---------------------------- MODULE IsolatedLinker ----------------------------
(***************************************************************************)
(* The isolated linker over the life of one node_modules                   *)
(* (internal/linker/isolated.go, prune of internal/installer): every       *)
(* package gets a directory of its own in the virtual store .pnpm, its     *)
(* dependencies are symlinks beside it, and the direct ones are symlinks   *)
(* at the top.  The directories are filled by concurrent tasks, one per    *)
(* link spec, and two specs of one name@version share a directory.  What   *)
(* is there is kept: by a later install, and after a kill.                 *)
(***************************************************************************)
EXTENDS Naturals, Sequences, FiniteSets

CONSTANTS
  Ids,          \* packages: [name, ver]
  Plans,        \* what installs may resolve to: sequences of link specs
  Limit,        \* tasks in flight (DefaultParallelism)
  Clones,       \* whether clonefile works here
  Fails,        \* whether a task may fail
  MaxInstalls   \* bound: installs run

Names == {i.name : i \in Ids}
None  == [name |-> "none"]

(* A link spec: the package, the packages its dependencies were resolved   *)
(* to, whether the project declares it, and its bins.  Direct packages     *)
(* appear at the top under their alias or name.                            *)
LinkSpec(id, deps, direct, top, bins) ==
  [id |-> id, deps |-> deps, direct |-> direct, top |-> top, bins |-> bins]

Specs == UNION {{p[k] : k \in DOMAIN p} : p \in Plans}
Tops  == {s.top : s \in Specs}
Bins  == UNION {s.bins : s \in Specs}
Tasks == UNION {DOMAIN p : p \in Plans}

ASSUME IsolatedAssumption ==
  /\ None \notin Ids
  /\ \A p \in Plans : p \in Seq([id : Ids, deps : SUBSET Ids, direct : BOOLEAN, top : Tops, bins : SUBSET Bins])
  /\ \A s \in Specs : \A d, e \in s.deps : d.name = e.name => d = e
  /\ Limit \in Nat \ {0} /\ MaxInstalls \in Nat
  /\ Clones \in BOOLEAN /\ Fails \in BOOLEAN

VARIABLES
  dir,      \* package -> its directory in .pnpm: absent, part, whole, or mixed:
            \* two tasks wrote to it at once
  wire,     \* package -> dependency name -> where the symlink beside it leads
  top,      \* top-level name -> where its symlink leads
  bin,      \* bin -> the package its shim runs
  plan,     \* the link specs of the install
  found,    \* what existed when it began: [dirs, wires, tops]
  task,     \* the tasks that fill the directories, one per link spec
  phase,    \* idle, fill, wire, top, shim, prune, linked or error
  at, left, \* the spec a loop is at, and what is left to link for it
  installs

disk == <<dir, wire, top, bin>>
loop == <<at, left>>
vars == <<disk, plan, found, task, phase, loop, installs>>

Stages == {"wait", "look", "prepare", "fill", "files", "done", "failed"}
Active == {"fill", "wire", "top", "shim", "prune"}

TypeOK ==
  /\ dir \in [Ids -> {"absent", "part", "whole", "mixed"}]
  /\ wire \in [Ids -> [Names -> Ids \cup {None}]]
  /\ top \in [Tops -> Ids \cup {None}]
  /\ bin \in [Bins -> Ids \cup {None}]
  /\ plan \in Plans
  /\ found \in [dirs : SUBSET Ids, wires : SUBSET (Ids \X Names), tops : SUBSET Tops]
  /\ task \in [Tasks -> Stages]
  /\ phase \in Active \cup {"idle", "linked", "error"}
  /\ at \in 0..Len(plan)
  /\ left \subseteq CASE phase = "wire" -> Ids [] phase = "top" -> Tops [] phase = "shim" -> Bins [] OTHER -> {}
  /\ installs \in 0..MaxInstalls

Init ==
  /\ dir = [i \in Ids |-> "absent"]
  /\ wire = [i \in Ids |-> [n \in Names |-> None]]
  /\ top = [n \in Tops |-> None]
  /\ bin = [b \in Bins |-> None]
  /\ plan \in Plans
  /\ found = [dirs |-> {}, wires |-> {}, tops |-> {}]
  /\ task = [t \in Tasks |-> "wait"]
  /\ phase = "idle"
  /\ at = 0 /\ left = {}
  /\ installs = 0

Id(t)   == plan[t].id
Planned == {Id(t) : t \in DOMAIN plan}
Exists(i) == dir[i] # "absent"

(* An install begins, on whatever an earlier one left.                     *)
Begin ==
  /\ phase \notin Active /\ installs < MaxInstalls
  /\ installs' = installs + 1
  /\ plan' \in Plans
  /\ found' = [dirs  |-> {i \in Ids : Exists(i)},
               wires |-> {e \in Ids \X Names : wire[e[1]][e[2]] # None},
               tops  |-> {n \in Tops : top[n] # None}]
  /\ task' = [t \in Tasks |-> "wait"]
  /\ phase' = "fill"
  /\ at' = 0 /\ left' = {}
  /\ UNCHANGED disk

(* The process is killed, perhaps in what follows the linking.             *)
Kill ==
  /\ phase \in Active \cup {"linked"}
  /\ phase' = "idle"
  /\ task' = [t \in Tasks |-> "wait"]
  /\ at' = 0 /\ left' = {}
  /\ UNCHANGED <<disk, plan, found, installs>>

-----------------------------------------------------------------------------
(* The directories are filled.                                             *)
InFlight == {t \in DOMAIN plan : task[t] \in {"look", "prepare", "fill", "files"}}
Others(t) == {u \in DOMAIN plan \ {t} : Id(u) = Id(t)}

Set(t, stage) == task' = [task EXCEPT ![t] = stage]
SetDir(t, what) == dir' = [dir EXCEPT ![Id(t)] = what]
Links == <<wire, top, bin>>
Rest  == <<Links, plan, found, phase, loop, installs>>

StartTask(t) ==
  /\ phase = "fill" /\ task[t] = "wait"
  /\ Cardinality(InFlight) < Limit
  /\ \A u \in 1..(t - 1) : task[u] # "wait"
  /\ Set(t, "look")
  /\ UNCHANGED <<dir, Rest>>

(* A directory that exists is taken to be materialized.                    *)
Look(t) ==
  /\ task[t] = "look"
  /\ Set(t, IF Exists(Id(t)) THEN "done" ELSE "prepare")
  /\ UNCHANGED <<dir, Rest>>

(* clonefile brings the package in one call, onto a path that must be free. *)
Clone(t) ==
  /\ Clones /\ task[t] = "prepare" /\ ~Exists(Id(t))
  /\ SetDir(t, "whole") /\ Set(t, "done")
  /\ UNCHANGED Rest

(* It is not to be had: what is at the path is removed, if the store has an *)
(* extracted tree, and the package is filled file by file.  A git package  *)
(* is copied at once.                                                      *)
FallBack(t) ==
  /\ task[t] = "prepare"
  /\ \/ SetDir(t, IF \E u \in Others(t) : task[u] = "files" THEN "mixed" ELSE "absent")
     \/ UNCHANGED dir
  /\ Set(t, "fill")
  /\ UNCHANGED Rest

MakeDir(t) ==
  /\ task[t] = "fill"
  /\ SetDir(t, IF Exists(Id(t)) THEN "mixed" ELSE "part")
  /\ Set(t, "files")
  /\ UNCHANGED Rest

Fill(t) ==
  /\ task[t] = "files"
  /\ SetDir(t, IF dir[Id(t)] = "part" THEN "whole" ELSE dir[Id(t)])
  /\ Set(t, "done")
  /\ UNCHANGED Rest

Fail(t) ==
  /\ Fails /\ task[t] \in {"prepare", "fill", "files"}
  /\ Set(t, "failed")
  /\ UNCHANGED <<dir, Rest>>

Work(t) == StartTask(t) \/ Look(t) \/ Clone(t) \/ FallBack(t) \/ MakeDir(t) \/ Fill(t) \/ Fail(t)

(* Bug: the links are made although a directory could not be filled.       *)
FilledAnyway ==
  /\ phase = "fill" /\ \A t \in DOMAIN plan : task[t] \in {"done", "failed"}
  /\ phase' = "wire"
  /\ UNCHANGED <<disk, plan, found, task, loop, installs>>

(* An error of any task ends the install, once all have ended.             *)
Filled ==
  /\ phase = "fill" /\ \A t \in DOMAIN plan : task[t] \in {"done", "failed"}
  /\ phase' = IF \E t \in DOMAIN plan : task[t] = "failed" THEN "error" ELSE "wire"
  /\ UNCHANGED <<disk, plan, found, task, loop, installs>>

-----------------------------------------------------------------------------
(* One goroutine links, spec by spec, in three loops.  What exists is kept. *)
After(ph) == CASE ph = "wire" -> "top" [] ph = "top" -> "shim" [] ph = "shim" -> "prune"

(* Bug: only what the project declares gets its dependencies.              *)
ToLinkDirect(s) ==
  CASE phase = "wire" -> IF s.direct THEN s.deps \cap Planned ELSE {}
    [] phase = "top"  -> IF s.direct THEN {s.top} ELSE {}
    [] phase = "shim" -> s.bins

ToLink(s) ==
  CASE phase = "wire" -> s.deps \cap Planned
    [] phase = "top"  -> IF s.direct THEN {s.top} ELSE {}
    [] phase = "shim" -> s.bins

NextSpec ==
  /\ phase \in {"wire", "top", "shim"} /\ left = {} /\ at < Len(plan)
  /\ at' = at + 1
  /\ left' = ToLink(plan[at + 1])
  /\ UNCHANGED <<disk, plan, found, task, phase, installs>>

NextLoop ==
  /\ phase \in {"wire", "top", "shim"} /\ left = {} /\ at = Len(plan)
  /\ phase' = After(phase)
  /\ at' = 0
  /\ UNCHANGED <<disk, plan, found, task, left, installs>>

Linking == UNCHANGED <<dir, plan, found, task, phase, at, installs>>

(* A dependency goes beside the package; the package itself holds its name. *)
Wire(d) ==
  /\ phase = "wire" /\ d \in left
  /\ left' = left \ {d}
  /\ wire' = IF d.name = Id(at).name \/ wire[Id(at)][d.name] # None THEN wire
             ELSE [wire EXCEPT ![Id(at)][d.name] = d]
  /\ UNCHANGED <<top, bin>> /\ Linking

LinkTop(n) ==
  /\ phase = "top" /\ n \in left
  /\ left' = left \ {n}
  /\ top' = IF top[n] # None THEN top ELSE [top EXCEPT ![n] = Id(at)]
  /\ UNCHANGED <<wire, bin>> /\ Linking

Shim(b) ==
  /\ phase = "shim" /\ b \in left
  /\ left' = left \ {b}
  /\ bin' = IF bin[b] # None THEN bin ELSE [bin EXCEPT ![b] = Id(at)]
  /\ UNCHANGED <<wire, top>> /\ Linking

(* Top-level names of packages that went away are removed; .pnpm and .bin  *)
(* are left as they are.                                                   *)
Kept == {plan[t].top : t \in DOMAIN plan}
Prune ==
  /\ phase = "prune"
  /\ top' = [n \in Tops |-> IF n \in Kept THEN top[n] ELSE None]
  /\ phase' = "linked"
  /\ UNCHANGED <<dir, wire, bin, plan, found, task, loop, installs>>

Connect ==
  \/ Filled \/ NextSpec \/ NextLoop \/ Prune
  \/ (\E d \in Ids : Wire(d)) \/ (\E n \in Tops : LinkTop(n)) \/ (\E b \in Bins : Shim(b))

Next == Begin \/ Kill \/ (\E t \in DOMAIN plan : Work(t)) \/ Connect

Spec == Init /\ [][Next]_vars

-----------------------------------------------------------------------------
(* Every symlink and every shim leads to a directory that exists, at any   *)
(* time: nothing is linked before it is there, and nothing that is linked  *)
(* is removed to be filled again, through failed and killed installs       *)
(* (IsolatedLinker.Link, prune).                                           *)
LinksLead ==
  /\ \A i \in Ids, n \in Names : wire[i][n] # None => Exists(wire[i][n])
  /\ \A n \in Tops : top[n] # None => Exists(top[n])
  /\ \A b \in Bins : bin[b] # None => Exists(bin[b])

(* After an install every package of it is whole, and finds each of its    *)
(* dependencies, in the version the install resolved, and so does the      *)
(* project; unless the directory or the link was there before, or another  *)
(* spec of the same name@version claims it too (IsolatedLinker.Link).      *)
EdgesWired ==
  phase = "linked" =>
    \A t \in DOMAIN plan :
      /\ dir[Id(t)] = "whole" \/ Id(t) \in found.dirs \/ (Others(t) # {} /\ dir[Id(t)] = "mixed")
      /\ \A d \in plan[t].deps \cap Planned : d.name # Id(t).name =>
           LET e == wire[Id(t)][d.name] IN
           /\ e.name = d.name
           /\ e = d \/ <<Id(t), d.name>> \in found.wires \/ Others(t) # {}
      /\ plan[t].direct =>
           \/ top[plan[t].top] = Id(t) \/ plan[t].top \in found.tops
           \/ \E u \in DOMAIN plan \ {t} : plan[u].direct /\ plan[u].top = plan[t].top

(* "wires each dependency": after an install the virtual store leads where *)
(* the install resolved.  TLC refutes it: a link that exists is kept,      *)
(* wherever it leads.                                                      *)
LinksAreCurrent ==
  phase = "linked" =>
    \A t \in DOMAIN plan : Others(t) = {} =>
      /\ \A d \in plan[t].deps \cap Planned : d.name # Id(t).name => wire[Id(t)][d.name] = d
      /\ plan[t].direct => top[plan[t].top] = Id(t)
===============================================================================
