----------------------------- MODULE InstallRuns -----------------------------
(***************************************************************************)
(* The commands that install in one project, over time (Operation.Run of   *)
(* internal/installer; install, ci, update, add, remove, run and exec of   *)
(* internal/cli): package.json, the lockfile, node_modules and the         *)
(* recorded workspace state, which lets an install, and the check before   *)
(* run and exec, conclude that there is nothing to do.  Nothing keeps two  *)
(* commands apart, and run and exec install on their own.  Meanwhile the   *)
(* user edits package.json or checks out another lockfile; a command may   *)
(* fail at several points or be killed between two writes.                 *)
(*                                                                         *)
(* A package stands for a direct dependency with all it brings, at one     *)
(* version.  The state hash is the pair of what it is computed from.       *)
(***************************************************************************)
EXTENDS Naturals, FiniteSets

CONSTANTS
  Procs,       \* gnpm processes at work in the project
  Pkgs,
  Manifests,   \* the package.json files a user may write
  Adds,        \* what is given to add: [field, name, spec]
  Removes,     \* the names given to remove
  Flags,       \* those given to install: [production, frozen, audit]; ci is frozen
  Vulnerable,  \* packages with an advisory at that level
  Fails, Kills,   \* whether installs fail once they link, are killed
  MaxRuns, MaxEdits   \* bounds: commands begun, edits by the user

Fields == {"deps", "dev"}
(* A bare name is added as "latest" and pinned to a range afterwards.      *)
Specifiers   == {"latest", "range"}
Dependencies == UNION {[S -> Specifiers] : S \in SUBSET Pkgs}
PackageJSON  == [Fields -> Dependencies]

ASSUME RunsAssumption ==
  /\ Manifests \subseteq PackageJSON /\ Manifests # {}
  /\ Adds \subseteq [field : Fields, name : Pkgs, spec : Specifiers] /\ Removes \subseteq Pkgs
  /\ Flags \subseteq [production : BOOLEAN, frozen : BOOLEAN, audit : BOOLEAN]
  /\ Vulnerable \subseteq Pkgs
  /\ Fails \in BOOLEAN /\ Kills \in BOOLEAN
  /\ MaxRuns \in Nat /\ MaxEdits \in Nat

VARIABLES
  manifest,  \* package.json, or that a write of it has only begun
  lock,      \* the lockfile: what it was made from and the packages in it
  modules,   \* the packages in node_modules
  state,     \* workspace-state.json: the hash of the last recorded install
  at,        \* process -> where its command is
  job,       \* process -> its command: flags and what it has read
  runs, edits,
  clean,     \* processes since whose reading nobody wrote package.json or the lockfile
  mixed,     \* processes that met one that had read another package.json
  torn       \* node_modules changed or the state was emptied, and no unmixed
             \* install has recorded it since

disk    == <<manifest, lock, modules, state>>
count   == <<runs, edits>>
history == <<clean, mixed, torn>>
vars    == <<disk, at, job, count, history>>

Cut     == <<>>       \* an empty file, or one that is no JSON
NoLock  == [made |-> FALSE]
NoState == [made |-> FALSE]
NoPin   == [field |-> "none"]
Lock(m, ps) == [made |-> TRUE, imp |-> m, pkgs |-> ps]
Hash(m, l)  == [made |-> TRUE, manifest |-> m, lock |-> l]

All(m) == DOMAIN m["deps"] \cup DOMAIN m["dev"]
(* What an install has to bring (declaredRegistryDeps).                    *)
Wanted(m, production) == IF production THEN DOMAIN m["deps"] ELSE All(m)

Ends     == {"idle", "uptodate", "done"}
Editing  == {"save", "saving", "read", "repin", "repinning"}
Steps    == {"begin", "ask", "resolve", "fetch", "check", "link", "prune", "scripts", "audit", "lock", "state", "stating"}

Files == {Cut} \cup PackageJSON
Locks == {NoLock} \cup [made : {TRUE}, imp : PackageJSON, pkgs : SUBSET Pkgs]
Jobs  == [flags : [production : BOOLEAN, frozen : BOOLEAN, audit : BOOLEAN],
          seen : Files, had : Locks, doc : Files,
          pin : {NoPin} \cup [field : Fields, name : Pkgs]]

TypeOK ==
  /\ manifest \in Files
  /\ lock \in Locks
  /\ modules \subseteq Pkgs
  /\ state \in {NoState} \cup [made : {TRUE}, manifest : PackageJSON, lock : Locks]
  /\ at \in [Procs -> Ends \cup Editing \cup Steps]
  /\ job \in [Procs -> Jobs]
  /\ runs \in 0..MaxRuns /\ edits \in 0..MaxEdits
  /\ clean \subseteq Procs /\ mixed \subseteq Procs /\ torn \in BOOLEAN

Plain == [production |-> FALSE, frozen |-> FALSE, audit |-> FALSE]
NoJob == [flags |-> Plain, seen |-> Cut, had |-> NoLock, doc |-> Cut, pin |-> NoPin]

Init ==
  /\ manifest \in Manifests
  /\ lock \in {NoLock} \cup {Lock(m, All(m)) : m \in Manifests}
  /\ modules = {}
  /\ state = NoState
  /\ at = [p \in Procs |-> "idle"]
  /\ job = [p \in Procs |-> NoJob]
  /\ runs = 0 /\ edits = 0
  /\ clean = {} /\ mixed = {} /\ torn = FALSE

Go(p, step) == at' = [at EXCEPT ![p] = step]
(* What a command has read is forgotten when it ends, but not when its     *)
(* install went well.                                                      *)
Stop(p) ==
  /\ Go(p, "idle")
  /\ job' = [job EXCEPT ![p] = NoJob]
  /\ clean' = clean \ {p} /\ mixed' = mixed \ {p}
Quiet(p)    == at[p] \in Ends /\ job[p].pin = NoPin

-----------------------------------------------------------------------------
(* The user edits package.json, or checks out files of another commit.     *)
Edit ==
  /\ edits < MaxEdits
  /\ edits' = edits + 1
  /\ manifest' \in Manifests
  /\ lock' \in {lock} \cup {Lock(m, All(m)) : m \in Manifests}
  /\ clean' = {}
  /\ UNCHANGED <<modules, state, at, job, runs, mixed, torn>>

(* gnpm clean, which may delete the lockfile too.                          *)
Clean ==
  /\ edits < MaxEdits /\ \A p \in Procs : Quiet(p)
  /\ edits' = edits + 1
  /\ modules' = {} /\ state' = NoState
  /\ lock' \in {lock, NoLock}
  /\ at' = [p \in Procs |-> "idle"] /\ job' = [p \in Procs |-> NoJob]
  /\ clean' = {} /\ mixed' = {} /\ torn' = FALSE
  /\ UNCHANGED <<manifest, runs>>

-----------------------------------------------------------------------------
(* add and remove first edit package.json: they read it, change it, and    *)
(* write it back.                                                          *)
Added(m, f, n, s) ==
  [m EXCEPT ![f] = [d \in DOMAIN m[f] \cup {n} |-> IF d = n THEN s ELSE m[f][d]]]
Removed(m, n) == [f \in Fields |-> [d \in DOMAIN m[f] \ {n} |-> m[f][d]]]

Load(p, doc, pin) ==
  /\ Quiet(p) /\ runs < MaxRuns /\ manifest # Cut
  /\ runs' = runs + 1
  /\ job' = [job EXCEPT ![p] = [NoJob EXCEPT !.doc = doc, !.pin = pin]]
  /\ Go(p, "save")
  /\ clean' = clean \ {p} /\ mixed' = mixed \ {p}
  /\ UNCHANGED <<disk, edits, torn>>

Add(p) ==
  \E a \in Adds :
    Load(p, Added(manifest, a.field, a.name, a.spec),
         IF a.spec = "latest" THEN [field |-> a.field, name |-> a.name] ELSE NoPin)
Remove(p) == \E n \in Removes : Load(p, Removed(manifest, n), NoPin)

(* A write of package.json truncates the file and then fills it.  When     *)
(* somebody else filled it in between, the rest of theirs may stay.        *)
Filled(p) == {job[p].doc} \cup IF manifest = Cut THEN {} ELSE {Cut}
Save(p) ==
  /\ clean' = {}
  /\ \/ /\ at[p] \in {"save", "repin"}
        /\ manifest' = Cut
        /\ Go(p, IF at[p] = "save" THEN "saving" ELSE "repinning")
        /\ UNCHANGED <<job, mixed>>
     \/ /\ at[p] = "saving"
        /\ manifest' \in Filled(p)
        /\ Go(p, "read")
        /\ job' = [job EXCEPT ![p].doc = Cut]
        /\ UNCHANGED mixed
     \/ /\ at[p] = "repinning"
        /\ manifest' \in Filled(p)
        /\ Go(p, "idle")
        /\ job' = [job EXCEPT ![p] = NoJob]
        /\ mixed' = mixed \ {p}
  /\ UNCHANGED <<lock, modules, state, count, torn>>

-----------------------------------------------------------------------------
(* Operation.Run begins: it reads package.json.                            *)
Differs(q, flags) == job[q].seen # manifest \/ job[q].flags.production # flags.production
Read(p, flags) ==
  /\ \/ manifest = Cut /\ Stop(p)
     \/ /\ manifest # Cut
        /\ Go(p, "begin")
        /\ job' = [job EXCEPT ![p] = [NoJob EXCEPT !.flags = flags, !.seen = manifest, !.pin = job[p].pin]]
        /\ clean' = clean \cup {p}
        /\ LET others == {q \in Procs \ {p} : at[q] \in Steps \cup {"done"} /\ Differs(q, flags)} IN
           mixed' = IF \E q \in others : at[q] \in Steps
                    THEN mixed \cup others \cup {p} ELSE (mixed \cup others) \ {p}
  /\ UNCHANGED <<disk, edits, torn>>

Install(p) ==
  /\ Quiet(p) /\ runs < MaxRuns
  /\ runs' = runs + 1
  /\ \E flags \in Flags : Read(p, flags)

InstallSaved(p) == at[p] = "read" /\ Read(p, Plain) /\ UNCHANGED runs

(* The recorded state matches the files as they are now.                   *)
UpToDate == state = Hash(manifest, lock)

(* The lockfile was made from this package.json, so no resolution is       *)
(* needed.                                                                 *)
LockMatches(l, m, production) ==
  /\ l.made
  /\ l.imp["deps"] = m["deps"]
  /\ production \/ l.imp["dev"] = m["dev"]

Full(p) == ~LockMatches(job[p].had, job[p].seen, job[p].flags.production)
(* What the install links, and the lockfile it writes.                     *)
Planned(p) == IF Full(p) THEN Wanted(job[p].seen, job[p].flags.production) ELSE job[p].had.pkgs
NewLock(p) == IF Full(p) THEN Lock(job[p].seen, Planned(p)) ELSE job[p].had

(* A step that changes nothing on disk, and one with which the command     *)
(* ends early.                                                             *)
Pass(p, from, to) ==
  at[p] = from /\ Go(p, to) /\ UNCHANGED <<disk, job, count, history>>
Leave(p, from) ==
  at[p] = from /\ Stop(p) /\ UNCHANGED <<disk, count, torn>>

(* It reads the lockfile, and then the recorded state: there may be        *)
(* nothing to do.  A frozen install does not ask, and needs a lockfile.    *)
ReadLock(p) ==
  /\ at[p] = "begin" /\ Go(p, "ask")
  /\ job' = [job EXCEPT ![p].had = lock]
  /\ UNCHANGED <<disk, count, history>>

NothingToDo(p) == ~job[p].flags.frozen /\ state = Hash(job[p].seen, job[p].had)
Begin(p) ==
  \/ NothingToDo(p) /\ IF job[p].pin = NoPin THEN Leave(p, "ask") ELSE Pass(p, "ask", "uptodate")
  \/ job[p].flags.frozen /\ ~job[p].had.made /\ Leave(p, "ask")
  \/ /\ ~NothingToDo(p) /\ (job[p].flags.frozen => job[p].had.made)
     /\ Pass(p, "ask", IF Full(p) THEN "resolve" ELSE "fetch")

(* The resolver settles the packages.                                      *)
Resolve(p) == Pass(p, "resolve", "check")

(* An install that trusts the lockfile fetches what the store lacks.       *)
Fetch(p) == Pass(p, "fetch", "link")

(* Settings, resolution or downloads fail before node_modules is touched.  *)
FailsEarly(p) == \E step \in {"ask", "resolve", "fetch"} : Leave(p, step)

(* A frozen install fails when a package is not in the lockfile.           *)
CheckFrozen(p) ==
  LET new == job[p].flags.frozen /\ job[p].had.made /\ ~(Planned(p) \subseteq job[p].had.pkgs) IN
  \/ ~new /\ Pass(p, "check", "link")
  \/ new /\ Leave(p, "check")

Link(p) ==
  /\ at[p] = "link" /\ Go(p, "prune")
  /\ modules' = modules \cup Planned(p) /\ torn' = TRUE
  /\ UNCHANGED <<manifest, lock, state, job, count, clean, mixed>>

(* Some packages are in place when another one fails.                      *)
LinkFails(p) ==
  /\ Fails /\ at[p] = "link" /\ Stop(p)
  /\ \E ps \in SUBSET Planned(p) : modules' = modules \cup ps
  /\ torn' = TRUE
  /\ UNCHANGED <<manifest, lock, state, count>>

Keep(p, ps) ==
  /\ at[p] = "prune" /\ Go(p, "scripts")
  /\ modules' = ps
  /\ UNCHANGED <<manifest, lock, state, job, count, history>>

(* Bug: prune is skipped when there was no node_modules state.             *)
PruneKnown(p) == Keep(p, IF state.made THEN modules \cap Planned(p) ELSE modules)

Prune(p) == Keep(p, modules \cap Planned(p))

(* Lifecycle scripts run.  An install that did not resolve audits next.    *)
Scripts(p) == Pass(p, "scripts", IF Full(p) THEN "lock" ELSE "audit")

(* An engine check or a script fails.                                      *)
ScriptsFail(p) == Fails /\ Leave(p, "scripts")

Audit(p) ==
  LET found == job[p].flags.audit /\ Planned(p) \cap Vulnerable # {} IN
  \/ ~found /\ Pass(p, "audit", IF Full(p) THEN "done" ELSE "lock")
  \/ found /\ Leave(p, "audit")

(* finish: the lockfile is replaced by a rename, if it has changed.        *)
WriteLock(p) ==
  /\ at[p] = "lock"
  /\ lock' = NewLock(p)
  /\ clean' = IF lock' = lock THEN clean ELSE clean \cap {p}
  /\ Go(p, "state")
  /\ UNCHANGED <<manifest, modules, state, job, count, mixed, torn>>

(* finish: the file of the state is truncated and then filled.             *)
TruncateState(p) ==
  /\ at[p] = "state" /\ Go(p, "stating")
  /\ state' = NoState /\ torn' = TRUE
  /\ UNCHANGED <<manifest, lock, modules, job, count, clean, mixed>>

Recorded(p) ==
  /\ Go(p, IF Full(p) THEN "audit" ELSE "done")
  /\ UNCHANGED <<manifest, lock, modules, job, count, clean, mixed>>

Write(p, hash) ==
  at[p] = "stating" /\ Recorded(p) /\ state' = hash /\ torn' = (p \in mixed)

(* Bug: the hash is of the lockfile the install began with.                *)
WriteStateOld(p) == Write(p, Hash(job[p].seen, job[p].had))

(* Bug: the hash is of the package.json on disk by now.                    *)
WriteStateFresh(p) == manifest # Cut /\ Write(p, Hash(manifest, NewLock(p)))

(* The state records the package.json read at the start and the lockfile   *)
(* just written.                                                           *)
WriteState(p) == Write(p, Hash(job[p].seen, NewLock(p)))

(* It cannot be written: a warning, and the install goes on.               *)
StateFails(p) ==
  Fails /\ at[p] \in {"state", "stating"} /\ Recorded(p) /\ UNCHANGED <<state, torn>>

-----------------------------------------------------------------------------
(* pinResolvedVersions: when the install went well, the lockfile and       *)
(* package.json are read once more, and a bare name gets its range.  A     *)
(* field that is empty may as well be missing, and is then left alone.     *)
Pin(p) ==
  /\ at[p] \in {"done", "uptodate"} /\ job[p].pin # NoPin
  /\ LET f == job[p].pin.field  n == job[p].pin.name IN
     \/ /\ lock.made /\ manifest # Cut /\ n \in lock.pkgs
        /\ Go(p, "repin")
        /\ job' = [job EXCEPT ![p] = [NoJob EXCEPT !.doc = Added(manifest, f, n, "range")]]
        /\ clean' = clean \ {p} /\ mixed' = mixed \ {p}
     \/ /\ ~(lock.made /\ manifest # Cut /\ n \in lock.pkgs /\ DOMAIN manifest[f] # {})
        /\ Stop(p)
  /\ UNCHANGED <<disk, count, torn>>

(* The process is killed: nothing is cleaned up.                           *)
Kill(p) ==
  /\ Kills /\ at[p] \in Steps \cup Editing
  /\ Stop(p)
  /\ UNCHANGED <<disk, count, torn>>

Step(p) ==
  \/ ReadLock(p) \/ Begin(p) \/ Resolve(p) \/ FailsEarly(p) \/ CheckFrozen(p) \/ Fetch(p) \/ Link(p)
  \/ LinkFails(p) \/ Prune(p) \/ Scripts(p) \/ ScriptsFail(p) \/ Audit(p) \/ WriteLock(p)
  \/ TruncateState(p) \/ WriteState(p) \/ StateFails(p)

Command(p) == Add(p) \/ Remove(p) \/ Save(p) \/ Install(p) \/ InstallSaved(p) \/ Pin(p)

Next == Edit \/ Clean \/ \E p \in Procs : Command(p) \/ Step(p) \/ Kill(p)

Spec == Init /\ [][Next]_vars

-----------------------------------------------------------------------------
(* Whenever the recorded state matches package.json and the lockfile, so   *)
(* that an install or the check before run would do nothing, node_modules  *)
(* holds what they call for: "reports whether node_modules matches the     *)
(* project's declared dependencies and lockfile", also while others        *)
(* install and edit; unless an install changed node_modules and ended      *)
(* unrecorded, or two of different files met (WorkspaceUpToDate, Run).     *)
UpToDateIsTrue == manifest # Cut /\ UpToDate /\ ~torn => modules = All(manifest)

(* "lets the very next install short-circuit when nothing changed": after  *)
(* an install that succeeds, with nobody having written package.json or    *)
(* another lockfile since it began, the state matches, whatever others     *)
(* installed meanwhile, unless it was not written to the end or installs   *)
(* of different files met (finish).                                        *)
RepeatIsNoop ==
  \A p \in Procs : at[p] = "done" /\ p \in clean /\ ~torn => UpToDate

(* An install that succeeds leaves node_modules with the packages it set   *)
(* out to install, and with the lockfile it wrote unless somebody changed  *)
(* that since; whatever other installs of the same files did at the same   *)
(* time (Run, runLocked, finish).                                          *)
DoneIsConsistent ==
  \A p \in Procs : at[p] = "done" /\ p \notin mixed =>
    /\ modules = Planned(p)
    /\ Wanted(job[p].seen, job[p].flags.production) \subseteq modules
    /\ p \in clean => lock.made /\ modules = lock.pkgs
=============================================================================
