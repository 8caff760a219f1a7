---------------------------- MODULE HoistedLinker ----------------------------
(***************************************************************************)
(* The hoisted linker over the life of one node_modules (internal/linker,  *)
(* applyLocalLinks, linkWorkspaces and prune of internal/installer): an    *)
(* install materializes its packages depth by depth, each depth as a batch *)
(* of concurrent tasks, links the project's local dependencies and, where  *)
(* it resolved them itself, the members of its workspace, and then removes *)
(* the other top-level entries.  An install straight from the lockfile     *)
(* (runLocked) links no member.  An install may fail, or be killed, and    *)
(* later ones start from what is there.                                    *)
(*                                                                         *)
(* A path is the sequence of package names from node_modules down.  A      *)
(* directory is bare (it holds only a nested node_modules), part, or whole *)
(* of some version; at the top level it may be a link to a directory of    *)
(* the user's.                                                             *)
(***************************************************************************)
EXTENDS Naturals, Sequences, FiniteSets

CONSTANTS
  Packages,     \* by name
  Paths,        \* the install paths, with every prefix of one
  Releases,
  Targets,      \* directories of the user's
  Layouts,      \* what installs may come to: [packages, local, members]: path -> version,
                \* and the names of local dependencies and of members -> target
  Limit,        \* tasks in flight (DefaultParallelism)
  Clones,       \* whether clonefile works here
  Fails,        \* whether a task may fail
  MaxInstalls   \* bound: installs run

ASSUME LinkerAssumption ==
  /\ Paths \subseteq Seq(Packages)
  /\ \A p \in Paths : Len(p) > 0 /\ \A k \in 1..Len(p) : SubSeq(p, 1, k) \in Paths
  /\ \A l \in Layouts :
       /\ DOMAIN l.packages \subseteq Paths /\ \A p \in DOMAIN l.packages : l.packages[p] \in Releases
       /\ \A m \in {l.local, l.members} : \A n \in DOMAIN m :
            /\ m[n] \in Targets
            /\ <<n>> \in Paths /\ \A p \in Paths : p[1] = n => Len(p) = 1
  /\ Limit \in Nat \ {0} /\ MaxInstalls \in Nat
  /\ Clones \in BOOLEAN /\ Fails \in BOOLEAN

VARIABLES
  nm,       \* path -> the directory there
  layout,   \* what the install comes to
  locked,   \* whether it is straight from the lockfile
  found,    \* paths that existed when it began
  depth,    \* the depth being linked
  left,     \* the local dependencies still to link
  task,     \* path -> wait, look, prepare, fill, done or failed
  phase,    \* idle, link, local, members, prune, ended or error
  installs

linkVars == <<nm, layout, locked, found, depth, left, task, phase, installs>>

Absent == [is |-> "absent"]
Bare   == [is |-> "bare"]
Part(v)  == [is |-> "part", ver |-> v]
Whole(v) == [is |-> "whole", ver |-> v]
Link(t)  == [is |-> "link", to |-> t]

Exists(p) == nm[p] # Absent
Top(p)    == p[1]
Above(p)  == {SubSeq(p, 1, k) : k \in 1..(Len(p) - 1)}
Below(p)  == {q \in Paths : Len(q) > Len(p) /\ SubSeq(q, 1, Len(p)) = p}
Linked    == DOMAIN layout.packages
Locals    == DOMAIN layout.local
Members   == DOMAIN layout.members

LinkTypeOK ==
  /\ nm \in [Paths -> {Absent, Bare} \cup {Part(v) : v \in Releases} \cup {Whole(v) : v \in Releases} \cup {Link(t) : t \in Targets}]
  /\ \A p \in Paths : Exists(p) => \A q \in Above(p) : Exists(q)
  /\ layout \in Layouts /\ locked \in BOOLEAN
  /\ found \subseteq Paths
  /\ depth \in Nat /\ left \subseteq Locals
  /\ task \in [Paths -> {"wait", "look", "prepare", "fill", "done", "failed"}]
  /\ Cardinality({p \in Paths : task[p] \in {"look", "prepare", "fill"}}) <= Limit
  /\ phase \in {"idle", "link", "local", "members", "prune", "ended", "error"}
  /\ installs \in 0..MaxInstalls

LinkInit ==
  /\ nm = [p \in Paths |-> Absent]
  /\ layout \in Layouts /\ locked = FALSE
  /\ found = {}
  /\ depth = 1 /\ left = {}
  /\ task = [p \in Paths |-> "wait"]
  /\ phase = "idle"
  /\ installs = 0

(* An install begins, on whatever an earlier one left.  The lockfile is not *)
(* taken where the project has local dependencies (lockMatchesPackageJSON). *)
Begin ==
  /\ phase \in {"idle", "ended", "error"}
  /\ installs < MaxInstalls
  /\ installs' = installs + 1
  /\ layout' \in Layouts /\ locked' \in BOOLEAN
  /\ locked' => DOMAIN layout'.local = {}
  /\ found' = {p \in Paths : Exists(p)}
  /\ depth' = 1 /\ left' = DOMAIN layout'.local
  /\ task' = [p \in Paths |-> "wait"]
  /\ phase' = "link"
  /\ UNCHANGED nm

(* The process is killed.                                                  *)
Kill ==
  /\ phase \in {"link", "local", "members", "prune"}
  /\ installs < MaxInstalls
  /\ phase' = "idle"
  /\ task' = [p \in Paths |-> "wait"]
  /\ UNCHANGED <<nm, layout, locked, found, depth, left, installs>>

-----------------------------------------------------------------------------
(* Bug: all depths are linked at once.                                     *)
GroupAll == Linked
Group == {p \in Linked : Len(p) = depth}

(* Bug: a task that fails keeps its slot.                                  *)
InFlightLeaking == {p \in Paths : task[p] \in {"look", "prepare", "fill", "failed"}}
InFlight == {p \in Paths : task[p] \in {"look", "prepare", "fill"}}

Set(p, stage) == task' = [task EXCEPT ![p] = stage]
Frame == UNCHANGED <<layout, locked, found, depth, left, phase, installs>>

(* ForEachLimited starts a task when one of its slots is free.             *)
StartTask(p) ==
  /\ phase = "link" /\ p \in Group /\ task[p] = "wait"
  /\ Cardinality(InFlight) < Limit
  /\ Set(p, "look")
  /\ UNCHANGED nm /\ Frame

(* A directory that exists is taken to be materialized.                    *)
Look(p) ==
  /\ task[p] = "look"
  /\ Set(p, IF Exists(p) THEN "done" ELSE "prepare")
  /\ UNCHANGED nm /\ Frame

MadeParents(p, d) == [q \in Paths |-> IF q \in Above(p) /\ d[q] = Absent THEN Bare ELSE d[q]]

(* The parents are made; clonefile then brings the package in one call,    *)
(* onto a path that must be free.                                          *)
Clone(p) ==
  /\ Clones /\ task[p] = "prepare" /\ ~Exists(p)
  /\ nm' = [MadeParents(p, nm) EXCEPT ![p] = Whole(layout.packages[p])]
  /\ Set(p, "done")
  /\ Frame

(* clonefile is not to be had or fails: whatever is at the path is removed *)
(* and the package is filled file by file.  Without an extracted tree in   *)
(* the store that comes at once.                                           *)
FallBack(p) ==
  /\ task[p] = "prepare"
  /\ \/ nm' = [q \in Paths |-> IF q \in {p} \cup Below(p) THEN Absent ELSE MadeParents(p, nm)[q]]
     \/ UNCHANGED nm
  /\ Set(p, "fill")
  /\ Frame

(* The directory comes first, then the files.                              *)
MakeDir(p) ==
  /\ task[p] = "fill" /\ nm[p] \in {Absent, Bare}
  /\ nm' = [MadeParents(p, nm) EXCEPT ![p] = Part(layout.packages[p])]
  /\ UNCHANGED task /\ Frame

Fill(p) ==
  /\ task[p] = "fill" /\ nm[p] = Part(layout.packages[p])
  /\ nm' = [nm EXCEPT ![p] = Whole(layout.packages[p])]
  /\ Set(p, "done")
  /\ Frame

Fail(p) ==
  /\ Fails /\ task[p] \in {"prepare", "fill"}
  /\ Set(p, "failed")
  /\ UNCHANGED nm /\ Frame

(* The batch is over when all its tasks are; an error ends the install,    *)
(* else the next depth follows, and after the last one the local links.    *)
NextDepth ==
  /\ phase = "link" /\ \A p \in Group : task[p] \in {"done", "failed"}
  /\ IF \E p \in Group : task[p] = "failed" THEN phase' = "error" /\ UNCHANGED depth
     ELSE IF \E p \in Linked : Len(p) > depth THEN depth' = depth + 1 /\ UNCHANGED phase
     ELSE phase' = "local" /\ UNCHANGED depth
  /\ UNCHANGED <<nm, layout, locked, found, left, task, installs>>

(* A link, or a directory that is still empty, is replaced.  A directory   *)
(* with something in it can be neither removed nor replaced, and the       *)
(* install fails.                                                          *)
LinkLocal(n) ==
  /\ phase = "local" /\ n \in left
  /\ \/ /\ nm[<<n>>].is \in {"absent", "link", "part"}
        /\ nm' = [nm EXCEPT ![<<n>>] = Link(layout.local[n])]
        /\ left' = left \ {n} /\ UNCHANGED phase
     \/ /\ nm[<<n>>].is \in {"part", "whole"}
        /\ phase' = "error" /\ UNCHANGED <<nm, left>>
  /\ UNCHANGED <<layout, locked, found, depth, task, installs>>

(* The members follow, but not in an install from the lockfile.            *)
LinkedLocals ==
  /\ phase = "local" /\ left = {}
  /\ phase' = IF locked THEN "prune" ELSE "members"
  /\ UNCHANGED <<nm, layout, locked, found, depth, left, task, installs>>

(* The names of members are linked where nothing is.                       *)
LinkMembers ==
  /\ phase = "members"
  /\ nm' = [p \in Paths |->
       IF Len(p) = 1 /\ Top(p) \in Members /\ nm[p] = Absent THEN Link(layout.members[Top(p)]) ELSE nm[p]]
  /\ phase' = "prune"
  /\ UNCHANGED <<layout, locked, found, depth, left, task, installs>>

(* Bug: an entry is kept when something was installed below it.            *)
KeptByPath == {Top(p) : p \in Linked} \cup Locals \cup Members
(* An entry is kept when a package of its name was installed anywhere, and *)
(* when it is that of a local dependency or a member, however installed.   *)
Kept == {p[Len(p)] : p \in Linked} \cup Locals \cup Members

(* The other top-level entries are removed with all they hold.             *)
Prune ==
  /\ phase = "prune"
  /\ nm' = [p \in Paths |-> IF Top(p) \in Kept THEN nm[p] ELSE Absent]
  /\ phase' = "ended"
  /\ UNCHANGED <<layout, locked, found, depth, left, task, installs>>

-----------------------------------------------------------------------------
Proceed(p) == StartTask(p) \/ Look(p) \/ Clone(p) \/ FallBack(p) \/ MakeDir(p) \/ Fill(p)
Work(p) == Proceed(p) \/ Fail(p)
Local == \E n \in Locals : LinkLocal(n)
LinkNext ==
  \/ Begin \/ Kill \/ (\E p \in Paths : Work(p)) \/ NextDepth
  \/ Local \/ LinkedLocals \/ LinkMembers \/ Prune

(* Goroutines run; an install need not begin, fail or be killed.           *)
LinkSpec ==
  /\ LinkInit /\ [][LinkNext]_linkVars
  /\ \A p \in Paths : WF_linkVars(Proceed(p))
  /\ WF_linkVars(NextDepth) /\ WF_linkVars(Local) /\ WF_linkVars(LinkedLocals)
  /\ WF_linkVars(LinkMembers) /\ WF_linkVars(Prune)

-----------------------------------------------------------------------------
(* After an install every package of it is there, and whole and of its     *)
(* version wherever nothing was before, apart from what is nested under a  *)
(* package left out for the platform (Link, Materialize, prune).           *)
EveryPackageInPlace ==
  phase = "ended" =>
    \A p \in {q \in Linked : Above(q) \subseteq Linked} :
      Exists(p) /\ (p \notin found => nm[p] = Whole(layout.packages[p]))

(* The members that have an entry of their own: all, or those that had it  *)
(* where the install is from the lockfile.                                 *)
LinkedMembers == {n \in Members : ~locked \/ <<n>> \in found}

(* After an install every hoisted package of it has its top-level entry and *)
(* so has every member, or every member that had it before where it is     *)
(* straight from the lockfile; every local dependency is linked to its     *)
(* directory, wherever it led before, and nothing is left of packages and  *)
(* links that went away.  Only the name of a nested package may protect an *)
(* old entry, or the directory that holds what is nested under it, where   *)
(* the hoisted namesake was left out for the platform (prune, TopLevelName, *)
(* applyLocalLinks, linkWorkspaces, runLocked).                            *)
TopLevelIsRight ==
  phase = "ended" =>
    LET entries == {p \in Paths : Len(p) = 1 /\ Exists(p)}
        wanted  == {p \in Linked : Len(p) = 1} \cup {<<n>> : n \in Locals \cup LinkedMembers}
    IN
    /\ wanted \subseteq entries
    /\ \A n \in Locals : nm[<<n>>] = Link(layout.local[n])
    /\ \A p \in entries \ wanted :
         /\ p \in found \/ \E q \in Linked : p \in Above(q)
         /\ \E q \in Linked : Len(q) > 1 /\ q[Len(q)] = Top(p)

(* An install that is not killed returns.                                  *)
InstallReturns == phase \in {"link", "local"} ~> phase \in {"ended", "error", "idle"}

(* "so the tree matches the resolved set" (prune): after an install         *)
(* node_modules holds the packages of it and nothing else.  TLC refutes it: *)
(* what is there is kept whatever its version.                              *)
TreeMatchesResolved ==
  phase = "ended" =>
    \A p \in Paths :
      IF p \in Linked THEN nm[p] = Whole(layout.packages[p])
      ELSE Exists(p) => Len(p) = 1 /\ Top(p) \in Locals \cup Members

(* "The root node_modules also gets a <memberName> -> member symlink" after *)
(* the root install (linkWorkspaces).  TLC refutes it: an install straight *)
(* from the lockfile into a fresh node_modules does not come to it.        *)
MembersAreLinked == phase = "ended" => \A n \in Members : Exists(<<n>>)

(* A local dependency can be linked where a package was before: an install *)
(* fails for it only when a task does.  TLC refutes it: a directory is not *)
(* empty, and every later install fails as well.                           *)
LocalsLink == phase = "error" => \E p \in Linked : task[p] = "failed"
=============================================================================
