--------------------------- MODULE InstallRuns_proofs ---------------------------
(***************************************************************************)
(* What the recorded state and a successful install promise, for any       *)
(* number of processes that install and edit in one project.  The          *)
(* argument: two installs that have read the same package.json do the same *)
(* to node_modules, the lockfile and the state, so that they may meet; and *)
(* an install that has read another one is noticed by both when the later  *)
(* of the two reads.                                                       *)
(* Then what the lockfile carries over any number of rounds of installs,   *)
(* gnpm's and other tools': what a file holds after a write is a function  *)
(* of the resolved tree, and reading it gives that tree back.              *)
(***************************************************************************)
EXTENDS InstallRuns, LockfileRounds, TLAPS

(* An install on its way or done, one that has linked, and one that has    *)
(* written the lockfile.                                                   *)
Busy       == Steps \cup {"done"}
Linked     == {"prune", "scripts", "audit", "lock", "state", "stating", "done"}
Written(p) == at[p] \in {"state", "stating", "done"} \/ (at[p] = "audit" /\ Full(p))

Seen(p)  == job[p].seen
Fresh(m) == Lock(m, All(m))

(* A lockfile holds what the package.json it was made from calls for.      *)
WholeLocks ==
  /\ lock.made => lock.pkgs = All(lock.imp)
  /\ \A p \in Procs : job[p].had.made => job[p].had.pkgs = All(job[p].had.imp)

(* An install has read a package.json, and the one on disk is that one as  *)
(* long as it is clean.                                                    *)
Reading ==
  \A p \in Procs : at[p] \in Busy =>
    /\ Seen(p) \in PackageJSON /\ ~job[p].flags.production
    /\ p \in clean => manifest = Seen(p)

(* Installs that are not mixed have read the same package.json as those    *)
(* they met, and as those that are clean.                                  *)
Agreement ==
  \A p, q \in Procs :
    at[p] \in Busy /\ at[q] \in Steps =>
      /\ p \notin mixed => Seen(p) = Seen(q)
      /\ p \in clean /\ q \notin mixed => Seen(p) = Seen(q)

(* What an install that is not mixed has linked stays.                     *)
LinkedStays ==
  \A p \in Procs \ mixed :
    /\ at[p] = "prune" => All(Seen(p)) \subseteq modules
    /\ at[p] \in Linked \ {"prune"} => modules = All(Seen(p))

(* A clean install finds its lockfile, and the state that it or another    *)
(* one like it recorded.                                                   *)
WrittenStays ==
  \A p \in Procs : p \in clean =>
    /\ Written(p) => lock = Fresh(Seen(p))
    /\ at[p] \in Linked => torn \/ state = Hash(Seen(p), Fresh(Seen(p)))

(* While nothing is torn, the state tells what is in node_modules, and     *)
(* whoever has linked and is not done yet agrees with it.                  *)
StateTells ==
  ~torn =>
    /\ state.made => modules = All(state.manifest)
    /\ \A p \in Procs : at[p] \in Linked \ {"done"} => state.made /\ Seen(p) = state.manifest

RunsInvariant ==
  TypeOK /\ WholeLocks /\ Reading /\ Agreement /\ LinkedStays /\ WrittenStays /\ StateTells

-----------------------------------------------------------------------------
(* What a step can be, as far as the invariant tells steps apart.          *)

(* A process leaves its install, or is in none; and perhaps a failing link *)
(* leaves something behind.                                                *)
Apart(p) ==
  /\ at' = [at EXCEPT ![p] = at'[p]] /\ at'[p] \notin Busy
  /\ \A q \in Procs \ {p} : job'[q] = job[q]
  /\ job'[p].had \in {NoLock, job[p].had}
  /\ clean' \subseteq clean /\ mixed' \ {p} = mixed \ {p}
  /\ manifest' = manifest \/ clean' = {}
  /\ UNCHANGED <<lock, state>>
Quits(p) == Apart(p) /\ UNCHANGED <<modules, torn>>
Breaks(p) ==
  /\ Apart(p)
  /\ at[p] = "link" /\ torn'
  /\ modules \subseteq modules' /\ modules' \subseteq modules \cup Planned(p)

(* An install reads package.json, with others of another one under way.    *)
Reads(p) ==
  /\ at' = [at EXCEPT ![p] = "begin"]
  /\ \A q \in Procs \ {p} : job'[q] = job[q]
  /\ manifest \in PackageJSON
  /\ Seen(p)' = manifest /\ ~job'[p].flags.production /\ job'[p].had = NoLock
  /\ clean' = clean \cup {p}
  /\ mixed \ {p} \subseteq mixed'
  /\ \A q \in Procs \ {p} : at[q] \in Busy /\ Seen(q) # manifest =>
       q \in mixed' /\ (at[q] \in Steps => p \in mixed')
  /\ UNCHANGED <<disk, torn>>

(* It reads the lockfile.                                                  *)
Goes(p) ==
  /\ at[p] = "begin"
  /\ at' = [at EXCEPT ![p] = "ask"]
  /\ job' = [job EXCEPT ![p].had = lock]
  /\ UNCHANGED <<disk, history>>

(* It goes on without touching a file.                                     *)
Advances(p) ==
  /\ at' = [at EXCEPT ![p] = at'[p]]
  /\ \/ at[p] \in {"ask", "resolve", "fetch", "check"} /\ at'[p] \in {"resolve", "fetch", "check", "link"}
     \/ at[p] = "scripts" /\ at'[p] = IF Full(p) THEN "lock" ELSE "audit"
     \/ at[p] = "audit" /\ at'[p] = IF Full(p) THEN "done" ELSE "lock"
  /\ UNCHANGED <<disk, job, history>>

(* It takes one of its own steps, or the last of them.                     *)
Onward(p) ==
  /\ at' = [at EXCEPT ![p] = at'[p]] /\ at[p] \in Steps /\ at'[p] \in Busy
  /\ Seen(p)' = Seen(p) /\ job'[p].flags = job[p].flags
  /\ \A q \in Procs \ {p} : job'[q] = job[q]
  /\ clean' \subseteq clean
  /\ UNCHANGED <<manifest, mixed>>

Acts(p) ==
  \/ Quits(p) \/ Breaks(p) \/ Reads(p) \/ Goes(p) \/ Advances(p)
  \/ Link(p) \/ Prune(p) \/ WriteLock(p) \/ TruncateState(p) \/ WriteState(p) \/ StateFails(p)

-----------------------------------------------------------------------------
(* What add and remove write is a package.json (cmdAdd, cmdRemove).        *)
LEMMA EditedFiles ==
  ASSUME NEW m \in PackageJSON, NEW f \in Fields, NEW n \in Pkgs, NEW s \in Specifiers
  PROVE  Added(m, f, n, s) \in PackageJSON /\ Removed(m, n) \in PackageJSON
<1>1. \A g \in Fields : m[g] \in Dependencies
  BY DEF PackageJSON
<1>2. \A g \in Fields : \E S \in SUBSET Pkgs : m[g] \in [S -> Specifiers]
  BY <1>1 DEF Dependencies
<1>3. [d \in DOMAIN m[f] \cup {n} |-> IF d = n THEN s ELSE m[f][d]] \in Dependencies
  <2>1. PICK S \in SUBSET Pkgs : m[f] \in [S -> Specifiers]
    BY <1>2
  <2>2. [d \in DOMAIN m[f] \cup {n} |-> IF d = n THEN s ELSE m[f][d]] \in [S \cup {n} -> Specifiers]
    BY <2>1
  <2> QED BY <2>2 DEF Dependencies
<1>4. \A g \in Fields : [d \in DOMAIN m[g] \ {n} |-> m[g][d]] \in Dependencies
  <2> TAKE g \in Fields
  <2>1. PICK S \in SUBSET Pkgs : m[g] \in [S -> Specifiers]
    BY <1>2
  <2>2. [d \in DOMAIN m[g] \ {n} |-> m[g][d]] \in [S \ {n} -> Specifiers]
    BY <2>1
  <2> QED BY <2>2 DEF Dependencies
<1> QED BY <1>1, <1>3, <1>4 DEF Added, Removed, PackageJSON

(* All is a set of packages.                                               *)
LEMMA AllArePackages ==
  ASSUME NEW m \in PackageJSON
  PROVE  All(m) \subseteq Pkgs
<1>1. \A g \in Fields : m[g] \in Dependencies
  BY DEF PackageJSON
<1>2. \A g \in Fields : DOMAIN m[g] \subseteq Pkgs
  BY <1>1 DEF Dependencies
<1> QED BY <1>2 DEF All, Fields

(* An install links what its package.json calls for and writes the         *)
(* lockfile made of that, whether it follows the lockfile or resolves      *)
(* (lockMatchesPackageJSON, runLocked, Run).                               *)
LEMMA PlannedIsCalledFor ==
  ASSUME TypeOK, WholeLocks, Reading, NEW p \in Procs, at[p] \in Busy
  PROVE  Planned(p) = All(Seen(p)) /\ NewLock(p) = Fresh(Seen(p))
<1> DEFINE had == job[p].had
<1>1. Seen(p) \in PackageJSON /\ ~job[p].flags.production
  BY DEF Reading
<1>2. CASE Full(p)
  BY <1>1, <1>2 DEF Planned, NewLock, Wanted, Fresh, Seen
<1>3. CASE ~Full(p)
  <2>1. /\ had.made /\ had.imp["deps"] = Seen(p)["deps"] /\ had.imp["dev"] = Seen(p)["dev"]
    BY <1>1, <1>3 DEF Full, LockMatches, Seen
  <2>2. had \in [made : {TRUE}, imp : PackageJSON, pkgs : SUBSET Pkgs]
    <3>1. job[p] \in Jobs
      BY DEF TypeOK
    <3>2. had \in Locks
      BY <3>1 DEF Jobs
    <3>3. NoLock.made = FALSE
      BY DEF NoLock
    <3>4. had # NoLock
      BY <2>1, <3>3
    <3> HIDE DEF had
    <3> QED BY <3>2, <3>4 DEF Locks
  <2>3. had.imp = Seen(p)
    <3>1. had.imp \in PackageJSON
      BY <2>2
    <3>2. \A f \in Fields : had.imp[f] = Seen(p)[f]
      BY <2>1 DEF Fields
    <3> HIDE DEF had
    <3> QED BY <1>1, <3>1, <3>2 DEF PackageJSON
  <2>4. had.pkgs = All(Seen(p))
    BY <2>1, <2>3 DEF WholeLocks
  <2>5. had = Fresh(Seen(p))
    BY <2>2, <2>3, <2>4 DEF Fresh, Lock
  <2> QED BY <1>3, <2>4, <2>5 DEF Planned, NewLock
<1> QED BY <1>2, <1>3

-----------------------------------------------------------------------------
(* A command that stops leaves its install.                                *)
LEMMA Stops ==
  ASSUME TypeOK, NEW p \in Procs, Stop(p), UNCHANGED <<manifest, lock, state>>
  PROVE  Apart(p)
<1>1. at' = [at EXCEPT ![p] = "idle"] /\ at'[p] = "idle"
  BY DEF Stop, Go, TypeOK
<1>2. /\ \A q \in Procs \ {p} : job'[q] = job[q]
      /\ job'[p] = NoJob
  BY DEF Stop, TypeOK
<1>3. job'[p].had = NoLock
  BY <1>2 DEF NoJob
<1> QED BY <1>1, <1>2, <1>3 DEF Apart, Stop, Busy, Steps

(* Every step of a process is of one of the kinds.                         *)
LEMMA StepsAreActs ==
  ASSUME TypeOK, RunsAssumption, \A f \in Flags : ~f.production,
         NEW p \in Procs, Command(p) \/ Step(p) \/ Kill(p)
  PROVE  Acts(p)
<1> USE DEF disk, history
<1>1. ASSUME Stop(p), UNCHANGED <<disk, torn>>
      PROVE  Quits(p)
  BY <1>1, Stops DEF Quits
<1>2. ASSUME NEW f, NEW g, Pass(p, f, g)
      PROVE  at[p] = f /\ at' = [at EXCEPT ![p] = g] /\ at'[p] = g /\ UNCHANGED <<disk, job, history>>
  BY <1>2 DEF Pass, Go, TypeOK
<1>3. ASSUME NEW doc, NEW pin, Load(p, doc, pin)
      PROVE  Quits(p)
  <2>1. at' = [at EXCEPT ![p] = "save"] /\ at'[p] = "save"
    BY <1>3 DEF Load, Go, TypeOK
  <2>2. /\ \A q \in Procs \ {p} : job'[q] = job[q]
        /\ job'[p] = [NoJob EXCEPT !.doc = doc, !.pin = pin]
    BY <1>3 DEF Load, TypeOK
  <2>3. job'[p].had = NoLock
    BY <2>2 DEF NoJob
  <2> QED BY <1>3, <2>1, <2>2, <2>3 DEF Load, Quits, Apart, Busy, Steps
<1>4. CASE Add(p) \/ Remove(p)
  BY <1>3, <1>4 DEF Add, Remove, Acts
<1>5. CASE Save(p)
  <2>1. at' = [at EXCEPT ![p] = at'[p]] /\ at'[p] \notin Busy
    BY <1>5 DEF Save, Go, TypeOK, Busy, Steps
  <2>2. \A q \in Procs \ {p} : job'[q] = job[q]
    BY <1>5 DEF Save, TypeOK
  <2>3. job'[p].had \in {NoLock, job[p].had}
    <3>1. CASE job' = job
      BY <3>1
    <3>2. CASE job' = [job EXCEPT ![p] = NoJob]
      BY <3>2 DEF TypeOK, NoJob
    <3>3. CASE job' = [job EXCEPT ![p].doc = Cut]
      BY <3>3 DEF TypeOK, Jobs
    <3> QED BY <1>5, <3>1, <3>2, <3>3 DEF Save
  <2> QED BY <1>5, <2>1, <2>2, <2>3 DEF Save, Quits, Apart, Acts
<1>6. ASSUME NEW flags, ~flags.production, Read(p, flags)
      PROVE  Quits(p) \/ Reads(p)
  <2>1. CASE manifest = Cut
    BY <1>1, <1>6, <2>1 DEF Read
  <2>2. CASE manifest # Cut
    <3> DEFINE others == {q \in Procs \ {p} : at[q] \in Steps \cup {"done"} /\ Differs(q, flags)}
    <3>1. /\ Go(p, "begin")
          /\ job' = [job EXCEPT ![p] = [NoJob EXCEPT !.flags = flags, !.seen = manifest, !.pin = job[p].pin]]
          /\ clean' = clean \cup {p}
          /\ mixed' = IF \E q \in others : at[q] \in Steps
                      THEN mixed \cup others \cup {p} ELSE (mixed \cup others) \ {p}
          /\ UNCHANGED <<disk, torn>>
      BY <1>6, <2>2 DEF Read
    <3>2. /\ \A q \in Procs \ {p} : job'[q] = job[q]
          /\ job'[p] = [NoJob EXCEPT !.flags = flags, !.seen = manifest, !.pin = job[p].pin]
      BY <3>1 DEF TypeOK
    <3>3. job'[p].seen = manifest /\ ~job'[p].flags.production /\ job'[p].had = NoLock
      BY <1>6, <3>2 DEF NoJob
    <3>4. manifest \in PackageJSON
      BY <2>2 DEF TypeOK, Files
    <3>5. \A q \in Procs \ {p} : at[q] \in Busy /\ Seen(q) # manifest => q \in others
      BY DEF Seen, Differs, Busy
    <3>6. mixed \ {p} \subseteq mixed'
      BY <3>1
    <3>7. \A q \in Procs \ {p} : at[q] \in Busy /\ Seen(q) # manifest =>
            q \in mixed' /\ (at[q] \in Steps => p \in mixed')
      <4> HIDE DEF others
      <4> QED BY <3>1, <3>5
    <3> HIDE DEF others
    <3> QED BY <3>1, <3>2, <3>3, <3>4, <3>6, <3>7 DEF Reads, Go, Seen
  <2> QED BY <2>1, <2>2
<1>7. CASE Install(p) \/ InstallSaved(p)
  <2>1. ~Plain.production
    BY DEF Plain
  <2> QED BY <1>6, <1>7, <2>1 DEF Install, InstallSaved, Acts
<1>8. CASE Pin(p)
  <2>1. CASE Stop(p)
    BY <1>1, <1>8, <2>1 DEF Pin, Acts
  <2>2. ASSUME NEW doc, Go(p, "repin"), job' = [job EXCEPT ![p] = [NoJob EXCEPT !.doc = doc]],
               clean' = clean \ {p} /\ mixed' = mixed \ {p}
        PROVE  Quits(p)
    <3>1. at' = [at EXCEPT ![p] = "repin"] /\ at'[p] = "repin"
      BY <2>2 DEF Go, TypeOK
    <3>2. /\ \A q \in Procs \ {p} : job'[q] = job[q]
          /\ job'[p] = [NoJob EXCEPT !.doc = doc]
      BY <2>2 DEF TypeOK
    <3>3. job'[p].had = NoLock
      BY <3>2 DEF NoJob
    <3> QED BY <1>8, <2>2, <3>1, <3>2, <3>3 DEF Pin, Quits, Apart, Busy, Steps
  <2> QED BY <1>8, <2>1, <2>2 DEF Pin, Acts
<1>9. CASE ReadLock(p)
  BY <1>9 DEF ReadLock, Go, Goes, Acts
<1>10. CASE Resolve(p) \/ Fetch(p)
  BY <1>2, <1>10 DEF Resolve, Fetch, Advances, Acts
<1>11. ASSUME NEW from, Leave(p, from)
       PROVE  Acts(p)
  BY <1>1, <1>11 DEF Leave, Acts
<1>12. CASE Begin(p)
  <2>1. ASSUME Pass(p, "ask", "uptodate")
        PROVE  Quits(p)
    BY <1>2, <2>1 DEF Quits, Apart, Busy, Steps
  <2>2. CASE Pass(p, "ask", IF Full(p) THEN "resolve" ELSE "fetch")
    BY <1>2, <2>2 DEF Advances, Acts
  <2> QED BY <1>11, <1>12, <2>1, <2>2 DEF Begin, Acts
<1>13. CASE FailsEarly(p) \/ ScriptsFail(p)
  BY <1>11, <1>13 DEF FailsEarly, ScriptsFail
<1>14. CASE CheckFrozen(p)
  BY <1>2, <1>11, <1>14 DEF CheckFrozen, Advances, Acts
<1>15. CASE Scripts(p)
  BY <1>2, <1>15 DEF Scripts, Advances, Acts
<1>16. CASE Audit(p)
  BY <1>2, <1>11, <1>16 DEF Audit, Advances, Acts
<1>17. CASE LinkFails(p)
  <2>1. Apart(p)
    BY <1>17, Stops DEF LinkFails
  <2> QED BY <1>17, <2>1 DEF LinkFails, Breaks, Acts
<1>18. CASE Kill(p)
  BY <1>1, <1>18 DEF Kill, Acts
<1>19. CASE Link(p) \/ Prune(p) \/ WriteLock(p) \/ TruncateState(p) \/ WriteState(p) \/ StateFails(p)
  BY <1>19 DEF Acts
<1> QED
  BY <1>4, <1>5, <1>7, <1>8, <1>9, <1>10, <1>12, <1>13, <1>14, <1>15, <1>16, <1>17,
     <1>18, <1>19
  DEF Command, Step

-----------------------------------------------------------------------------
(* The state of the project and of its processes is well formed.           *)
LEMMA InitiallyTyped ==
  ASSUME RunsAssumption, Init
  PROVE  TypeOK
<1>1. manifest \in PackageJSON
  BY DEF Init, RunsAssumption
<1>2. lock \in Locks
  <2>1. \A m \in Manifests : Lock(m, All(m)) \in Locks
    BY AllArePackages DEF Lock, Locks, RunsAssumption
  <2> QED BY <2>1 DEF Init, Locks
<1>3. NoJob \in Jobs
  BY DEF NoJob, Plain, Jobs, Files, Locks
<1>4. job \in [Procs -> Jobs]
  BY <1>3 DEF Init
<1>5. at \in [Procs -> Ends \cup Editing \cup Steps]
  BY DEF Init, Ends
<1>6. runs \in 0..MaxRuns /\ edits \in 0..MaxEdits
  BY DEF Init, RunsAssumption
<1>7. clean \subseteq Procs /\ mixed \subseteq Procs /\ torn \in BOOLEAN /\ modules \subseteq Pkgs
  BY DEF Init
<1>8. manifest \in Files /\ state = NoState
  BY <1>1 DEF Files, Init
<1> QED BY <1>2, <1>4, <1>5, <1>6, <1>7, <1>8 DEF TypeOK

LEMMA StaysTyped ==
  ASSUME RunsAssumption, TypeOK, WholeLocks, Reading, [Next]_vars
  PROVE  TypeOK'
<1> DEFINE AtOK == at \in [Procs -> Ends \cup Editing \cup Steps]
<1> USE DEF count
<1>0. NoJob \in Jobs /\ NoJob.pin = NoPin /\ Plain \in [production : BOOLEAN, frozen : BOOLEAN, audit : BOOLEAN]
  BY DEF NoJob, Plain, Jobs, Files, Locks
<1>1. CASE UNCHANGED vars
  BY <1>1 DEF vars, disk, history, TypeOK
<1>2. \A m \in Manifests : m \in PackageJSON /\ Lock(m, All(m)) \in Locks
  BY AllArePackages DEF Lock, Locks, RunsAssumption
<1>3. CASE Edit
  <2>1. lock' \in Locks
    <3>1. lock' = lock \/ \E m \in Manifests : lock' = Lock(m, All(m))
      BY <1>3 DEF Edit
    <3> QED BY <1>2, <3>1 DEF TypeOK
  <2>2. edits' \in 0..MaxEdits
    BY <1>3 DEF Edit, TypeOK, RunsAssumption
  <2> QED BY <1>2, <1>3, <2>1, <2>2 DEF Edit, TypeOK, Files
<1>4. CASE Clean
  <2>1. edits' \in 0..MaxEdits
    BY <1>4 DEF Clean, TypeOK, RunsAssumption
  <2>2. at' \in [Procs -> Ends \cup Editing \cup Steps] /\ job' \in [Procs -> Jobs]
    BY <1>0, <1>4 DEF Clean, Ends
  <2> QED BY <1>4, <2>1, <2>2 DEF Clean, TypeOK, Locks
<1>5. ASSUME NEW p \in Procs, Command(p) \/ Step(p) \/ Kill(p)
      PROVE  TypeOK'
  <2> USE DEF history, disk
  <2>1. ASSUME NEW step \in Ends \cup Editing \cup Steps, Go(p, step)
        PROVE  at' \in [Procs -> Ends \cup Editing \cup Steps]
    BY <2>1 DEF Go, TypeOK
  <2>2. ASSUME NEW j \in Jobs, job' = [job EXCEPT ![p] = j]
        PROVE  job' \in [Procs -> Jobs]
    BY <2>2 DEF TypeOK
  <2>3. ASSUME Stop(p), UNCHANGED <<disk, count, torn>>
        PROVE  TypeOK'
    BY <1>0, <2>1, <2>2, <2>3 DEF Stop, Ends, TypeOK
  <2>4. ASSUME NEW f, NEW g \in Ends \cup Editing \cup Steps, Pass(p, f, g)
        PROVE  TypeOK'
    BY <2>1, <2>4 DEF Pass, TypeOK
  <2>5. ASSUME NEW f, Leave(p, f)
        PROVE  TypeOK'
    BY <2>3, <2>5 DEF Leave
  <2>6. ASSUME NEW doc \in PackageJSON, NEW pin \in {NoPin} \cup [field : Fields, name : Pkgs], Load(p, doc, pin)
        PROVE  TypeOK'
    <3>1. [NoJob EXCEPT !.doc = doc, !.pin = pin] \in Jobs
      BY <1>0 DEF Jobs, Files
    <3>2. runs' \in 0..MaxRuns
      BY <2>6 DEF Load, TypeOK, RunsAssumption
    <3> QED BY <2>1, <2>2, <2>6, <3>1, <3>2 DEF Load, TypeOK, Editing
  <2>7. CASE Add(p)
    <3>1. PICK a \in Adds : Load(p, Added(manifest, a.field, a.name, a.spec),
            IF a.spec = "latest" THEN [field |-> a.field, name |-> a.name] ELSE NoPin)
      BY <2>7 DEF Add
    <3>2. a.field \in Fields /\ a.name \in Pkgs /\ a.spec \in Specifiers
      BY DEF RunsAssumption
    <3>3. manifest \in PackageJSON
      BY <3>1 DEF Load, TypeOK, Files
    <3>4. Added(manifest, a.field, a.name, a.spec) \in PackageJSON
      BY <3>2, <3>3, EditedFiles
    <3> QED BY <2>6, <3>1, <3>2, <3>4
  <2>8. CASE Remove(p)
    <3>1. PICK n \in Removes : Load(p, Removed(manifest, n), NoPin)
      BY <2>8 DEF Remove
    <3>2. manifest \in PackageJSON
      BY <3>1 DEF Load, TypeOK, Files
    <3>3. Removed(manifest, n) \in PackageJSON
      BY <3>2, EditedFiles DEF RunsAssumption, Fields, Specifiers
    <3> QED BY <2>6, <3>1, <3>3
  <2>9. CASE Save(p)
    <3>1. at' \in [Procs -> Ends \cup Editing \cup Steps]
      BY <2>1, <2>9 DEF Save, Ends, Editing
    <3>2. job[p] \in Jobs
      BY DEF TypeOK
    <3>3. [job[p] EXCEPT !.doc = Cut] \in Jobs
      BY <3>2 DEF Jobs, Files
    <3>4. job' \in [Procs -> Jobs]
      <4>1. CASE job' = job
        BY <4>1 DEF TypeOK
      <4>2. CASE job' = [job EXCEPT ![p].doc = Cut]
        BY <2>2, <3>3, <4>2
      <4>3. CASE job' = [job EXCEPT ![p] = NoJob]
        BY <1>0, <2>2, <4>3
      <4> QED BY <2>9, <4>1, <4>2, <4>3 DEF Save
    <3>5. manifest' \in Files
      <4>1. job[p].doc \in Files
        BY <3>2 DEF Jobs
      <4> QED BY <2>9, <4>1 DEF Save, Filled, Files
    <3>6. mixed' \subseteq Procs
      BY <2>9 DEF Save, TypeOK
    <3> QED BY <2>9, <3>1, <3>4, <3>5, <3>6 DEF Save, TypeOK
  <2>10. ASSUME NEW flags \in [production : BOOLEAN, frozen : BOOLEAN, audit : BOOLEAN],
                Read(p, flags), runs' \in 0..MaxRuns
         PROVE  TypeOK'
    <3>1. CASE manifest = Cut /\ Stop(p)
      BY <1>0, <2>1, <2>2, <2>10, <3>1 DEF Read, Stop, Ends, TypeOK
    <3>2. CASE manifest # Cut
      <4> DEFINE others == {q \in Procs \ {p} : at[q] \in Steps \cup {"done"} /\ Differs(q, flags)}
      <4> DEFINE new == [NoJob EXCEPT !.flags = flags, !.seen = manifest, !.pin = job[p].pin]
      <4>1. /\ Go(p, "begin") /\ job' = [job EXCEPT ![p] = new]
            /\ clean' = clean \cup {p}
            /\ mixed' = IF \E q \in others : at[q] \in Steps
                        THEN mixed \cup others \cup {p} ELSE (mixed \cup others) \ {p}
            /\ UNCHANGED <<disk, edits, torn>>
        BY <2>10, <3>2 DEF Read
      <4>2. new \in Jobs
        <5>1. manifest \in Files /\ job[p] \in Jobs
          BY DEF TypeOK
        <5>2. job[p].pin \in {NoPin} \cup [field : Fields, name : Pkgs]
          BY <5>1 DEF Jobs
        <5> QED BY <1>0, <5>1, <5>2 DEF Jobs
      <4>3. job' \in [Procs -> Jobs]
        <5> HIDE DEF new
        <5> QED BY <2>2, <4>1, <4>2
      <4>4. clean' \subseteq Procs /\ mixed' \subseteq Procs
        BY <4>1 DEF TypeOK
      <4> QED BY <2>1, <2>10, <4>1, <4>3, <4>4 DEF TypeOK, Steps
    <3> QED BY <2>10, <3>1, <3>2 DEF Read
  <2>11. CASE Install(p)
    <3>1. runs' \in 0..MaxRuns
      BY <2>11 DEF Install, TypeOK, RunsAssumption
    <3> QED BY <2>10, <2>11, <3>1 DEF Install, RunsAssumption
  <2>12. CASE InstallSaved(p)
    <3>1. runs' \in 0..MaxRuns
      BY <2>12 DEF InstallSaved, TypeOK
    <3> QED BY <1>0, <2>10, <2>12, <3>1 DEF InstallSaved
  <2>13. CASE Pin(p)
    <3>1. CASE Stop(p)
      BY <2>3, <2>13, <3>1 DEF Pin
    <3> DEFINE f == job[p].pin.field  n == job[p].pin.name  new == [NoJob EXCEPT !.doc = Added(manifest, f, n, "range")]
    <3>2. CASE /\ manifest # Cut /\ Go(p, "repin") /\ job' = [job EXCEPT ![p] = new]
               /\ clean' = clean \ {p} /\ mixed' = mixed \ {p}
      <4>1. job[p].pin \in {NoPin} \cup [field : Fields, name : Pkgs]
        BY DEF TypeOK, Jobs
      <4>2. job[p].pin # NoPin
        BY <2>13 DEF Pin
      <4>3. f \in Fields /\ n \in Pkgs
        BY <4>1, <4>2
      <4>4. manifest \in PackageJSON /\ "range" \in Specifiers
        BY <3>2 DEF TypeOK, Files, Specifiers
      <4>5. Added(manifest, f, n, "range") \in PackageJSON
        <5> HIDE DEF f, n
        <5> QED BY <4>3, <4>4, EditedFiles
      <4>6. new \in Jobs
        BY <1>0, <4>5 DEF Jobs, Files
      <4>7. job' \in [Procs -> Jobs]
        <5> HIDE DEF new
        <5> QED BY <2>2, <3>2, <4>6
      <4> QED BY <2>1, <2>13, <3>2, <4>7 DEF Pin, TypeOK, Editing
    <3> QED BY <2>13, <3>1, <3>2 DEF Pin
  <2>14. CASE ReadLock(p)
    <3>1. job[p] \in Jobs /\ lock \in Locks
      BY DEF TypeOK
    <3>2. [job[p] EXCEPT !.had = lock] \in Jobs
      BY <3>1 DEF Jobs
    <3>3. job' \in [Procs -> Jobs]
      BY <2>2, <2>14, <3>2 DEF ReadLock
    <3>4. at' \in [Procs -> Ends \cup Editing \cup Steps]
      BY <2>1, <2>14 DEF ReadLock, Steps
    <3> QED BY <2>14, <3>3, <3>4 DEF ReadLock, TypeOK
  <2>15. CASE Begin(p) \/ Resolve(p) \/ Fetch(p) \/ Scripts(p) \/ CheckFrozen(p) \/ Audit(p) \/ FailsEarly(p) \/ ScriptsFail(p)
    BY <2>4, <2>5, <2>15
    DEF Begin, Resolve, Fetch, Scripts, CheckFrozen, Audit, FailsEarly, ScriptsFail, Steps, Ends
  <2>16. ASSUME at[p] \in Busy
         PROVE  Planned(p) \subseteq Pkgs /\ Seen(p) \in PackageJSON /\ NewLock(p) \in Locks
    <3>1. Seen(p) \in PackageJSON
      BY <2>16 DEF Reading
    <3>2. Planned(p) = All(Seen(p)) /\ NewLock(p) = Fresh(Seen(p))
      BY <2>16, PlannedIsCalledFor
    <3>3. All(Seen(p)) \subseteq Pkgs
      BY <3>1, AllArePackages
    <3> QED BY <3>1, <3>2, <3>3 DEF Fresh, Lock, Locks
  <2>17. CASE Link(p)
    <3>1. modules' \subseteq Pkgs
      BY <2>16, <2>17 DEF Link, TypeOK, Busy, Steps
    <3> QED BY <2>1, <2>17, <3>1 DEF Link, TypeOK, Steps
  <2>18. CASE LinkFails(p)
    <3>1. modules' \subseteq Pkgs
      BY <2>16, <2>18 DEF LinkFails, TypeOK, Busy, Steps
    <3>2. job' \in [Procs -> Jobs]
      BY <1>0, <2>2, <2>18 DEF LinkFails, Stop
    <3> QED BY <2>1, <2>18, <3>1, <3>2 DEF LinkFails, Stop, TypeOK, Ends
  <2>19. CASE Prune(p)
    BY <2>1, <2>19 DEF Prune, Keep, TypeOK, Steps
  <2>20. CASE WriteLock(p)
    <3>1. lock' \in Locks
      BY <2>16, <2>20 DEF WriteLock, Busy, Steps
    <3>2. clean' \subseteq Procs
      BY <2>20 DEF WriteLock, TypeOK
    <3> QED BY <2>1, <2>20, <3>1, <3>2 DEF WriteLock, TypeOK, Steps
  <2>21. ASSUME Recorded(p)
         PROVE  at' \in [Procs -> Ends \cup Editing \cup Steps]
    BY <2>1, <2>21 DEF Recorded, Steps, Ends
  <2>22. CASE WriteState(p)
    <3>1. Hash(Seen(p), NewLock(p)) \in [made : {TRUE}, manifest : PackageJSON, lock : Locks]
      BY <2>16, <2>22 DEF WriteState, Write, Recorded, Busy, Steps, Hash
    <3>2. state' \in {NoState} \cup [made : {TRUE}, manifest : PackageJSON, lock : Locks]
      BY <2>22, <3>1 DEF WriteState, Write, Seen
    <3>3. torn' \in BOOLEAN
      BY <2>22 DEF WriteState, Write
    <3> QED BY <2>21, <2>22, <3>2, <3>3 DEF WriteState, Write, Recorded, TypeOK
  <2>23. CASE StateFails(p)
    BY <2>21, <2>23 DEF StateFails, Recorded, TypeOK
  <2>24. CASE TruncateState(p)
    BY <2>1, <2>24 DEF TruncateState, TypeOK, Steps
  <2>25. CASE Kill(p)
    BY <2>3, <2>25 DEF Kill
  <2> QED
    BY <1>5, <2>7, <2>8, <2>9, <2>11, <2>12, <2>13, <2>14, <2>15, <2>17, <2>18, <2>19, <2>20,
       <2>22, <2>23, <2>24, <2>25
    DEF Command, Step
<1> QED BY <1>1, <1>3, <1>4, <1>5 DEF Next

-----------------------------------------------------------------------------
(* A step of one process is no step of another, and does not make another  *)
(* clean or take it out of mixed.                                          *)
LEMMA OthersStay ==
  ASSUME TypeOK, NEW p \in Procs, Acts(p), NEW q \in Procs \ {p}
  PROVE  /\ at'[q] = at[q] /\ job'[q] = job[q]
         /\ Seen(q)' = Seen(q) /\ Full(q)' = Full(q)
         /\ q \in clean' => q \in clean
         /\ q \notin mixed' => q \notin mixed
<1> USE DEF history
<1>1. at'[q] = at[q]
  BY DEF TypeOK, Acts, Quits, Breaks, Apart, Reads, Goes, Advances, Link, Prune, Keep, WriteLock,
         TruncateState, WriteState, Write, StateFails, Recorded, Go
<1>2. job'[q] = job[q]
  BY DEF TypeOK, Acts, Quits, Breaks, Apart, Reads, Goes, Advances, Link, Prune, Keep, WriteLock,
         TruncateState, WriteState, Write, StateFails, Recorded
<1>3. (q \in clean' => q \in clean) /\ (q \notin mixed' => q \notin mixed)
  BY DEF Acts, Quits, Breaks, Apart, Reads, Goes, Advances, Link, Prune, Keep, WriteLock,
         TruncateState, WriteState, Write, StateFails, Recorded
<1> QED BY <1>1, <1>2, <1>3 DEF Seen, Full

LEMMA OnwardSteps ==
  ASSUME TypeOK, NEW p \in Procs,
         Goes(p) \/ Advances(p) \/ Link(p) \/ Prune(p) \/ WriteLock(p) \/ TruncateState(p) \/ WriteState(p) \/ StateFails(p)
  PROVE  Onward(p)
<1> USE DEF history, disk
<1>1. CASE Goes(p)
  <2>1. job' = [job EXCEPT ![p].had = lock] /\ job[p] \in Jobs
    BY <1>1 DEF Goes, TypeOK
  <2>2. job'[p].seen = job[p].seen /\ job'[p].flags = job[p].flags /\ \A q \in Procs \ {p} : job'[q] = job[q]
    BY <2>1 DEF TypeOK, Jobs
  <2>3. at'[p] = "ask" /\ at' = [at EXCEPT ![p] = at'[p]]
    BY <1>1 DEF Goes, TypeOK
  <2> QED BY <1>1, <2>2, <2>3 DEF Goes, Onward, Seen, Busy, Steps
<1>2. CASE Advances(p)
  BY <1>2 DEF Advances, Onward, Seen, Busy, Steps
<1>3. CASE Link(p) \/ Prune(p) \/ WriteLock(p)
  BY <1>3 DEF Link, Prune, Keep, WriteLock, Go, Onward, Seen, Busy, Steps, TypeOK
<1>4. CASE TruncateState(p) \/ WriteState(p) \/ StateFails(p)
  BY <1>4 DEF TruncateState, WriteState, Write, StateFails, Recorded, Go, Onward, Seen, Busy, Steps, TypeOK
<1> QED BY <1>1, <1>2, <1>3, <1>4

LEMMA WholeLocksStay ==
  ASSUME TypeOK, WholeLocks, Reading, NEW p \in Procs, Acts(p)
  PROVE  WholeLocks'
<1> USE DEF history, disk
<1>1. ~NoLock.made
  BY DEF NoLock
<1>2. lock'.made => lock'.pkgs = All(lock'.imp)
  <2>1. CASE UNCHANGED lock
    BY <2>1 DEF WholeLocks
  <2>2. CASE WriteLock(p)
    <3>1. lock' = Fresh(Seen(p))
      BY <2>2, PlannedIsCalledFor DEF WriteLock, Busy, Steps
    <3> QED BY <3>1 DEF Fresh, Lock
  <2> QED BY <2>1, <2>2 DEF Acts, Quits, Breaks, Apart, Reads, Goes, Advances, Link, Prune, Keep,
                            TruncateState, WriteState, Write, StateFails, Recorded
<1>3. job'[p].had \in {NoLock, lock, job[p].had}
  <2>1. CASE Goes(p)
    <3>1. job' = [job EXCEPT ![p].had = lock] /\ job[p] \in Jobs
      BY <2>1 DEF Goes, TypeOK
    <3> QED BY <3>1 DEF TypeOK, Jobs
  <2>2. CASE UNCHANGED job
    BY <2>2
  <2> QED BY <2>1, <2>2 DEF Acts, Quits, Breaks, Apart, Reads, Advances, Link, Prune, Keep,
                            WriteLock, TruncateState, WriteState, Write, StateFails, Recorded
<1>4. \A q \in Procs : job'[q].had.made => job'[q].had.pkgs = All(job'[q].had.imp)
  BY <1>1, <1>3, OthersStay DEF WholeLocks
<1> QED BY <1>2, <1>4 DEF WholeLocks, All

LEMMA ReadingStays ==
  ASSUME TypeOK, Reading, NEW p \in Procs, Acts(p)
  PROVE  Reading'
<1> SUFFICES ASSUME NEW q \in Procs, at'[q] \in Busy
             PROVE  /\ Seen(q)' \in PackageJSON /\ ~job'[q].flags.production
                    /\ q \in clean' => manifest' = Seen(q)'
  BY DEF Reading, PackageJSON, Busy, Steps
<1> USE DEF history, disk
<1>1. CASE q # p
  <2>1. /\ at[q] \in Busy /\ job'[q] = job[q] /\ Seen(q)' = Seen(q)
        /\ q \in clean' => q \in clean
    BY <1>1, OthersStay
  <2>2. manifest' = manifest \/ clean' = {}
    BY DEF Acts, Quits, Breaks, Apart, Reads, Goes, Advances, Link, Prune, Keep, WriteLock,
           TruncateState, WriteState, Write, StateFails, Recorded
  <2> QED BY <2>1, <2>2 DEF Reading
<1>2. CASE q = p /\ Reads(p)
  BY <1>2 DEF Reads
<1>3. CASE q = p /\ Onward(p)
  BY <1>3 DEF Onward, Reading, Busy
<1>4. ~Apart(p) \/ q # p
  BY DEF Apart
<1> QED BY <1>1, <1>2, <1>3, <1>4, OnwardSteps DEF Acts, Quits, Breaks

LEMMA AgreementStays ==
  ASSUME TypeOK, Reading, Agreement, NEW r \in Procs, Acts(r)
  PROVE  Agreement'
<1> SUFFICES ASSUME NEW p \in Procs, NEW q \in Procs, at'[p] \in Busy, at'[q] \in Steps
             PROVE  /\ p \notin mixed' => Seen(p)' = Seen(q)'
                    /\ p \in clean' /\ q \notin mixed' => Seen(p)' = Seen(q)'
  BY DEF Agreement, Busy, Steps
<1>1. CASE p = q
  BY <1>1
<1>2. CASE p # r /\ q # r
  BY <1>2, OthersStay DEF Agreement
<1>3. CASE Onward(r)
  <2>1. at[p] \in Busy /\ at[q] \in Steps /\ Seen(p)' = Seen(p) /\ Seen(q)' = Seen(q)
    BY <1>3, OthersStay DEF Onward, Busy
  <2> QED BY <1>3, <2>1 DEF Onward, Agreement
<1>4. CASE Reads(r) /\ p = r /\ q # r
  <2>1. at[q] \in Steps /\ Seen(q)' = Seen(q)
    BY <1>4, OthersStay
  <2> QED BY <1>4, <2>1 DEF Reads, Busy
<1>5. CASE Reads(r) /\ p # r /\ q = r
  <2>1. at[p] \in Busy /\ Seen(p)' = Seen(p) /\ (p \in clean' => p \in clean)
    BY <1>5, OthersStay
  <2> QED BY <1>5, <2>1 DEF Reads, Reading
<1>6. CASE Apart(r)
  BY <1>2, <1>6 DEF Apart, Busy
<1> QED BY <1>1, <1>2, <1>3, <1>4, <1>5, <1>6, OnwardSteps DEF Acts, Quits, Breaks

(* What an install has linked, others that are not mixed leave in place.   *)
LEMMA LinkedStaysSo ==
  ASSUME TypeOK, WholeLocks, Reading, Agreement, LinkedStays, NEW r \in Procs, Acts(r)
  PROVE  LinkedStays'
<1> SUFFICES ASSUME NEW p \in Procs, p \notin mixed'
             PROVE  /\ at'[p] = "prune" => All(Seen(p)') \subseteq modules'
                    /\ at'[p] \in Linked \ {"prune"} => modules' = All(Seen(p)')
  BY DEF LinkedStays, Linked, All
<1> USE DEF history, disk
<1>1. ASSUME at[r] \in Busy
      PROVE  Planned(r) = All(Seen(r))
  BY <1>1, PlannedIsCalledFor
<1>2. CASE p # r
  <2>1. at'[p] = at[p] /\ Seen(p)' = Seen(p) /\ p \notin mixed
    BY <1>2, OthersStay
  <2>2. CASE UNCHANGED modules \/ at[p] \notin Linked
    BY <2>1, <2>2 DEF LinkedStays, Linked
  <2>3. CASE at[p] \in Linked /\ at[r] \in Steps
    <3>1. Seen(p) = Seen(r)
      BY <2>1, <2>3 DEF Agreement, Linked, Busy, Steps
    <3>2. Planned(r) = All(Seen(p))
      BY <1>1, <2>3, <3>1 DEF Busy
    <3>3. CASE Link(r) \/ Breaks(r)
      <4>1. modules \subseteq modules' /\ modules' \subseteq modules \cup All(Seen(p))
        BY <3>2, <3>3 DEF Link, Breaks
      <4> QED BY <2>1, <4>1 DEF LinkedStays, Linked
    <3>4. CASE Prune(r)
      <4>1. modules' = modules \cap All(Seen(p))
        BY <3>2, <3>4 DEF Prune, Keep
      <4> QED BY <2>1, <4>1 DEF LinkedStays, Linked
    <3> QED BY <2>2, <3>3, <3>4 DEF Acts, Quits, Reads, Goes, Advances, WriteLock, TruncateState, WriteState, Write, StateFails, Recorded
  <2> QED BY <2>2, <2>3 DEF Acts, Quits, Breaks, Reads, Goes, Advances, Link, Prune, Keep, WriteLock,
                            TruncateState, WriteState, Write, StateFails, Recorded, Steps
<1>3. CASE p = r
  <2>1. CASE Link(r)
    <3>1. at'[p] = "prune" /\ modules' = modules \cup All(Seen(p)) /\ Seen(p)' = Seen(p)
      BY <1>1, <1>3, <2>1, OnwardSteps DEF Link, Go, TypeOK, Busy, Steps, Onward
    <3> QED BY <3>1
  <2>2. CASE Prune(r)
    <3>1. at[p] = "prune" /\ at'[p] = "scripts" /\ modules' = modules \cap All(Seen(p)) /\ Seen(p)' = Seen(p)
      BY <1>1, <1>3, <2>2, OnwardSteps DEF Prune, Keep, Go, TypeOK, Busy, Steps, Onward
    <3>2. All(Seen(p)) \subseteq modules
      BY <1>3, <2>2, <3>1 DEF LinkedStays, Prune, Keep
    <3> QED BY <3>1, <3>2
  <2>3. CASE Goes(r) \/ Advances(r) \/ WriteLock(r) \/ TruncateState(r) \/ WriteState(r) \/ StateFails(r)
    <3>1. Seen(p)' = Seen(p) /\ UNCHANGED <<modules, mixed>>
      BY <1>3, <2>3, OnwardSteps
      DEF Onward, Goes, Advances, WriteLock, TruncateState, WriteState, Write, StateFails, Recorded
    <3>2. at'[p] \in Linked => at[p] \in Linked \ {"prune"} /\ at'[p] # "prune"
      BY <1>3, <2>3 DEF Goes, Advances, WriteLock, TruncateState, WriteState, Write, StateFails, Recorded, Go, TypeOK, Linked
    <3> QED BY <3>1, <3>2 DEF LinkedStays, Linked
  <2>4. CASE Reads(r)
    BY <1>3, <2>4 DEF Reads, TypeOK, Linked
  <2>5. CASE Apart(r)
    BY <1>3, <2>5 DEF Apart, Linked, Busy, Steps
  <2> QED BY <2>1, <2>2, <2>3, <2>4, <2>5 DEF Acts, Quits, Breaks
<1> QED BY <1>2, <1>3

(* A clean install's lockfile and the state stay, or are written anew with *)
(* the same content.                                                       *)
LEMMA WrittenStaysSo ==
  ASSUME TypeOK, WholeLocks, Reading, Agreement, WrittenStays, NEW r \in Procs, Acts(r)
  PROVE  WrittenStays'
<1> SUFFICES ASSUME NEW p \in Procs, p \in clean'
             PROVE  /\ Written(p)' => lock' = Fresh(Seen(p)')
                    /\ at'[p] \in Linked => torn' \/ state' = Hash(Seen(p)', Fresh(Seen(p)'))
  BY DEF WrittenStays, Fresh, Hash, Lock, All, Linked
<1> USE DEF history, disk
<1>1. ASSUME at[r] \in Busy
      PROVE  NewLock(r) = Fresh(Seen(r))
  BY <1>1, PlannedIsCalledFor
<1>2. CASE p # r
  <2>1. /\ at'[p] = at[p] /\ Seen(p)' = Seen(p) /\ Written(p)' = Written(p) /\ p \in clean
    BY <1>2, OthersStay DEF Written
  <2>2. lock' = lock
    BY <1>2, <2>1 DEF Acts, Quits, Breaks, Apart, Reads, Goes, Advances, Link, Prune, Keep, WriteLock,
                      TruncateState, WriteState, Write, StateFails, Recorded
  <2>3. CASE UNCHANGED <<state, torn>> \/ torn'
    BY <2>1, <2>2, <2>3 DEF WrittenStays
  <2>4. CASE WriteState(r) /\ ~torn'
    <3>1. state' = Hash(Seen(r), Fresh(Seen(r))) /\ r \notin mixed /\ at[r] = "stating"
      BY <1>1, <2>4 DEF WriteState, Write, Recorded, Seen, Busy, Steps
    <3>2. at[p] \in Linked => Seen(p) = Seen(r)
      BY <2>1, <3>1 DEF Agreement, Linked, Busy, Steps
    <3> QED BY <2>1, <2>2, <3>1, <3>2 DEF WrittenStays
  <2> QED BY <2>3, <2>4 DEF Acts, Quits, Breaks, Apart, Reads, Goes, Advances, Link, Prune, Keep, WriteLock,
                            TruncateState, StateFails, Recorded
<1>3. CASE p = r
  <2>1. CASE Link(r)
    BY <1>3, <2>1 DEF Link, Go, TypeOK, Written
  <2>2. CASE Prune(r)
    <3>1. /\ at[p] = "prune" /\ at'[p] = "scripts" /\ p \in clean
          /\ UNCHANGED <<lock, state, torn>> /\ Seen(p)' = Seen(p)
      BY <1>3, <2>2 DEF Prune, Keep, Go, TypeOK, Seen
    <3> QED BY <3>1 DEF WrittenStays, Written, Linked
  <2>3. CASE Goes(r)
    BY <1>3, <2>3 DEF Goes, TypeOK, Written, Linked
  <2>4. CASE Advances(r)
    <3>1. p \in clean /\ UNCHANGED <<lock, state, torn, job>> /\ Seen(p)' = Seen(p) /\ Full(p)' = Full(p)
      BY <1>3, <2>4 DEF Advances, Seen, Full
    <3>2. at'[p] \in Linked => at[p] \in Linked
      BY <1>3, <2>4 DEF Advances, Linked
    <3>3. Written(p)' => Written(p)
      BY <1>3, <2>4, <3>1 DEF Advances, Written
    <3> QED BY <3>1, <3>2, <3>3 DEF WrittenStays
  <2>5. CASE WriteLock(r)
    <3>1. /\ at[p] = "lock" /\ at'[p] = "state" /\ p \in clean /\ lock' = Fresh(Seen(p))
          /\ UNCHANGED <<state, torn>> /\ Seen(p)' = Seen(p)
      BY <1>1, <1>3, <2>5 DEF WriteLock, Go, TypeOK, Seen, Busy, Steps
    <3> QED BY <3>1 DEF WrittenStays, Linked
  <2>6. CASE TruncateState(r) \/ WriteState(r) \/ StateFails(r)
    <3>1. /\ at[p] \in {"state", "stating"} /\ p \in clean /\ UNCHANGED lock /\ Seen(p)' = Seen(p)
          /\ torn' \/ state' = Hash(Seen(p), Fresh(Seen(p))) \/ UNCHANGED <<state, torn>>
      BY <1>1, <1>3, <2>6 DEF TruncateState, WriteState, Write, StateFails, Recorded, TypeOK, Seen, Busy, Steps
    <3> QED BY <3>1 DEF WrittenStays, Written, Linked
  <2>7. CASE Reads(r)
    BY <1>3, <2>7 DEF Reads, TypeOK, Written, Linked
  <2>8. CASE Apart(r)
    BY <1>3, <2>8 DEF Apart, Written, Linked, Busy, Steps
  <2> QED BY <2>1, <2>2, <2>3, <2>4, <2>5, <2>6, <2>7, <2>8 DEF Acts, Quits, Breaks
<1> QED BY <1>2, <1>3

(* The state tells the truth from when an install records it, to when the  *)
(* next one links.                                                         *)
LEMMA StateTellsOn ==
  ASSUME TypeOK, WholeLocks, Reading, Agreement, LinkedStays, StateTells, NEW r \in Procs, Acts(r)
  PROVE  StateTells'
<1> SUFFICES ASSUME ~torn'
             PROVE  /\ state'.made => modules' = All(state'.manifest)
                    /\ \A p \in Procs : at'[p] \in Linked \ {"done"} => state'.made /\ Seen(p)' = state'.manifest
  BY DEF StateTells, All, Linked
<1> USE DEF history, disk
<1>1. CASE Link(r) \/ Breaks(r) \/ TruncateState(r)
  BY <1>1 DEF Link, Breaks, TruncateState
<1>2. CASE WriteState(r)
  <2>1. /\ at[r] = "stating" /\ r \notin mixed /\ UNCHANGED modules
        /\ state'.made /\ state'.manifest = Seen(r) /\ Seen(r)' = Seen(r)
    BY <1>2 DEF WriteState, Write, Recorded, Seen, Hash
  <2>2. modules = All(Seen(r))
    BY <2>1 DEF LinkedStays, Linked
  <2>3. ASSUME NEW p \in Procs, at'[p] \in Linked \ {"done"}, p # r
        PROVE  Seen(p)' = Seen(r)
    <3>1. at[p] \in Linked \ {"done"} /\ Seen(p)' = Seen(p)
      BY <2>3, OthersStay
    <3> QED BY <2>1, <3>1 DEF Agreement, Linked, Busy, Steps
  <2> QED BY <2>1, <2>2, <2>3
<1>3. CASE ~torn /\ UNCHANGED state
  <2>1. ASSUME NEW p \in Procs, at'[p] \in Linked \ {"done"}, ~Link(r)
        PROVE  at[p] \in Linked \ {"done"} /\ Seen(p)' = Seen(p)
    <3>1. CASE p # r
      BY <2>1, <3>1, OthersStay
    <3>2. CASE p = r /\ (Apart(r) \/ Reads(r))
      BY <2>1, <3>2 DEF Apart, Reads, TypeOK, Linked, Busy, Steps
    <3>3. CASE p = r /\ (Goes(r) \/ Advances(r) \/ Prune(r) \/ WriteLock(r) \/ TruncateState(r) \/ WriteState(r) \/ StateFails(r))
      <4>1. Seen(p)' = Seen(p)
        BY <3>3, OnwardSteps DEF Onward
      <4>2. at[p] \in Linked \ {"done"}
        BY <2>1, <3>3 DEF Goes, Advances, Prune, Keep, WriteLock, TruncateState, WriteState, Write, StateFails, Recorded, Go, TypeOK, Linked
      <4> QED BY <4>1, <4>2
    <3> QED BY <2>1, <3>1, <3>2, <3>3 DEF Acts, Quits, Breaks
  <2>2. CASE Prune(r)
    <3>1. at[r] = "prune" /\ modules' = modules \cap Planned(r)
      BY <2>2 DEF Prune, Keep
    <3>2. state.made /\ modules = All(state.manifest) /\ Seen(r) = state.manifest
      BY <1>3, <3>1 DEF StateTells, Linked
    <3>3. Planned(r) = All(Seen(r))
      BY <3>1, PlannedIsCalledFor DEF Busy, Steps
    <3>4. ~Link(r)
      BY <3>1 DEF Link
    <3> QED BY <1>3, <2>1, <3>1, <3>2, <3>3, <3>4 DEF StateTells
  <2>3. CASE ~Prune(r) /\ ~Link(r) /\ ~Breaks(r)
    <3>1. UNCHANGED modules
      BY <2>3 DEF Acts, Quits, Reads, Goes, Advances, WriteLock, TruncateState, WriteState, Write, StateFails, Recorded
    <3> QED BY <1>3, <2>1, <2>3, <3>1 DEF StateTells
  <2> QED BY <1>1, <2>2, <2>3
<1> QED BY <1>1, <1>2, <1>3 DEF Acts, Quits, Reads, Apart, Goes, Advances, Prune, Keep, WriteLock, StateFails, Recorded

-----------------------------------------------------------------------------
LEMMA InvariantHoldsFirst ==
  ASSUME RunsAssumption, Init
  PROVE  RunsInvariant
<1>1. TypeOK
  BY InitiallyTyped
<1>2. \A p \in Procs : at[p] = "idle" /\ job[p] = NoJob
  BY DEF Init
<1>3. WholeLocks
  <2>1. lock = NoLock \/ \E m \in Manifests : lock = Lock(m, All(m))
    BY DEF Init
  <2>2. lock.made => lock.pkgs = All(lock.imp)
    BY <2>1 DEF NoLock, Lock
  <2> QED BY <1>2, <2>2 DEF WholeLocks, NoJob, NoLock
<1>4. Reading /\ Agreement /\ LinkedStays
  BY <1>2 DEF Reading, Agreement, LinkedStays, Linked, Busy, Steps
<1>5. WrittenStays /\ StateTells
  BY <1>2 DEF Init, WrittenStays, StateTells, Linked, NoState
<1> QED BY <1>1, <1>3, <1>4, <1>5 DEF RunsInvariant

(* The user's edits and gnpm clean.                                        *)
LEMMA UserKeepsInvariant ==
  ASSUME RunsAssumption, RunsInvariant, Edit \/ Clean
  PROVE  WholeLocks' /\ Reading' /\ Agreement' /\ LinkedStays' /\ WrittenStays' /\ StateTells'
<1> USE DEF RunsInvariant
<1>1. CASE Edit
  <2>1. lock' = lock \/ \E m \in Manifests : lock' = Lock(m, All(m))
    BY <1>1 DEF Edit
  <2>2. lock'.made => lock'.pkgs = All(lock'.imp)
    BY <2>1 DEF WholeLocks, Lock
  <2>3. WholeLocks'
    BY <1>1, <2>2 DEF WholeLocks, Edit, All
  <2>4. Reading'
    BY <1>1 DEF Reading, Edit, Seen, PackageJSON, Busy, Steps
  <2>5. Agreement'
    BY <1>1 DEF Agreement, Edit, Seen, Busy, Steps
  <2>6. LinkedStays'
    BY <1>1 DEF LinkedStays, Edit, Seen, Linked, All
  <2>7. WrittenStays'
    BY <1>1 DEF WrittenStays, Edit
  <2>8. StateTells'
    BY <1>1 DEF StateTells, Edit, Seen, Linked, All
  <2> QED BY <2>3, <2>4, <2>5, <2>6, <2>7, <2>8
<1>2. CASE Clean
  <2>1. \A p \in Procs : at'[p] = "idle" /\ job'[p] = NoJob
    BY <1>2 DEF Clean
  <2>2. lock' = lock \/ lock' = NoLock
    BY <1>2 DEF Clean
  <2>3. lock'.made => lock'.pkgs = All(lock'.imp)
    BY <2>2 DEF WholeLocks, NoLock
  <2>4. WholeLocks'
    BY <2>1, <2>3 DEF WholeLocks, NoJob, NoLock, All
  <2>5. Reading' /\ Agreement' /\ LinkedStays'
    BY <2>1 DEF Reading, Agreement, LinkedStays, Linked, Busy, Steps
  <2>6. WrittenStays' /\ StateTells'
    BY <1>2, <2>1 DEF Clean, WrittenStays, StateTells, Linked, NoState
  <2> QED BY <2>4, <2>5, <2>6
<1> QED BY <1>1, <1>2

LEMMA InvariantIsKept ==
  ASSUME RunsAssumption, \A f \in Flags : ~f.production, RunsInvariant, [Next]_vars
  PROVE  RunsInvariant'
<1>1. TypeOK'
  BY StaysTyped DEF RunsInvariant
<1>2. CASE UNCHANGED vars
  <2> USE <1>2 DEF vars, disk, history, RunsInvariant, Seen
  <2>1. WholeLocks' /\ Reading'
    BY DEF WholeLocks, Reading, All, PackageJSON, Busy, Steps
  <2>2. Agreement' /\ LinkedStays'
    BY DEF Agreement, LinkedStays, All, Linked, Busy, Steps
  <2>3. WrittenStays'
    BY DEF WrittenStays, Written, Full, Linked, Fresh, Hash, Lock, All
  <2>4. StateTells'
    BY DEF StateTells, Linked, All
  <2> QED BY <1>1, <2>1, <2>2, <2>3, <2>4
<1>3. CASE Edit \/ Clean
  BY <1>1, <1>3, UserKeepsInvariant DEF RunsInvariant
<1>4. ASSUME NEW p \in Procs, Command(p) \/ Step(p) \/ Kill(p)
      PROVE  RunsInvariant'
  <2>1. Acts(p)
    BY <1>4, StepsAreActs DEF RunsInvariant
  <2> QED
    BY <1>1, <2>1, WholeLocksStay, ReadingStays, AgreementStays, LinkedStaysSo, WrittenStaysSo, StateTellsOn
    DEF RunsInvariant
<1> QED BY <1>2, <1>3, <1>4 DEF Next

LEMMA InvariantHolds ==
  ASSUME RunsAssumption, \A f \in Flags : ~f.production
  PROVE  Spec => []RunsInvariant
<1>1. Init => RunsInvariant
  BY InvariantHoldsFirst
<1>2. RunsInvariant /\ [Next]_vars => RunsInvariant'
  BY InvariantIsKept
<1> QED BY <1>1, <1>2, PTL DEF Spec

-----------------------------------------------------------------------------
(* However many processes install and edit at once: when the recorded      *)
(* state says that there is nothing to do, node_modules holds what         *)
(* package.json calls for (WorkspaceUpToDate, Run, finish).                *)
THEOREM StateIsTrue ==
  ASSUME RunsAssumption, \A f \in Flags : ~f.production
  PROVE  Spec => []UpToDateIsTrue
<1>1. RunsInvariant => UpToDateIsTrue
  BY DEF RunsInvariant, StateTells, UpToDateIsTrue, UpToDate, Hash
<1> QED BY <1>1, InvariantHolds, PTL

(* An install that succeeds has the next one find nothing to do (finish).  *)
THEOREM RepeatDoesNothing ==
  ASSUME RunsAssumption, \A f \in Flags : ~f.production
  PROVE  Spec => []RepeatIsNoop
<1>1. ASSUME RunsInvariant
      PROVE  RepeatIsNoop
  <2> SUFFICES ASSUME NEW p \in Procs, at[p] = "done", p \in clean, ~torn
               PROVE  state = Hash(manifest, lock)
    BY DEF RepeatIsNoop, UpToDate
  <2>1. lock = Fresh(Seen(p)) /\ state = Hash(Seen(p), Fresh(Seen(p)))
    BY <1>1 DEF RunsInvariant, WrittenStays, Written, Linked
  <2>2. manifest = Seen(p)
    BY <1>1 DEF RunsInvariant, Reading, Busy
  <2> QED BY <2>1, <2>2
<1> QED BY <1>1, InvariantHolds, PTL

(* An install that succeeds leaves the project as it set out to            *)
(* (Run, runLocked, finish).                                               *)
THEOREM SuccessIsConsistent ==
  ASSUME RunsAssumption, \A f \in Flags : ~f.production
  PROVE  Spec => []DoneIsConsistent
<1>1. ASSUME RunsInvariant
      PROVE  DoneIsConsistent
  <2> SUFFICES ASSUME NEW p \in Procs, at[p] = "done", p \notin mixed
               PROVE  /\ modules = Planned(p)
                      /\ Wanted(job[p].seen, job[p].flags.production) \subseteq modules
                      /\ p \in clean => lock.made /\ modules = lock.pkgs
    BY DEF DoneIsConsistent
  <2>1. modules = All(Seen(p)) /\ Planned(p) = All(Seen(p))
    BY <1>1, PlannedIsCalledFor DEF RunsInvariant, LinkedStays, Linked, Busy
  <2>2. Wanted(job[p].seen, job[p].flags.production) = All(Seen(p))
    BY <1>1 DEF RunsInvariant, Reading, Wanted, Seen, Busy
  <2>3. p \in clean => lock = Fresh(Seen(p))
    BY <1>1 DEF RunsInvariant, WrittenStays, Written
  <2> QED BY <2>1, <2>2, <2>3 DEF Fresh, Lock
<1> QED BY <1>1, InvariantHolds, PTL
--------------------------------------------------------------------------------
(* What the lockfile carries from install to install.                       *)

(* Every edge of a pnpm file leads to a snapshot, every package has one.    *)
KeysIn(file)  == {s.key : s \in file.snapshots}
EdgesIn(file) == file.root \cup UNION {s.deps \cup s.opts : s \in file.snapshots}
KeysLead(file) ==
  /\ {e.to : e \in EdgesIn(file)} \subseteq KeysIn(file)
  /\ NameVersions(file.packages) = {<<k[1], k[2]>> : k \in KeysIn(file)}
Entries(packages) == {Entry(p) : p \in packages}

(* Entries have the names and the versions of their packages.               *)
LEMMA EntriesName ==
  ASSUME NEW packages
  PROVE  NameVersions(Entries(packages)) = NameVersions(packages)
<1>1. \A p \in packages : Entry(p).name = p.name /\ Entry(p).version = p.version
  BY DEF Entry
<1> QED BY <1>1 DEF NameVersions, Entries

(* A file whose snapshots and edges have the keys of its packages leads.    *)
LEMMA KeysOfPackages ==
  ASSUME NEW packages, NEW file, NEW key,
         file.packages = Entries(packages),
         \A k : k \in KeysIn(file) <=> \E p \in packages : k = key[p],
         \A p \in packages : key[p][1] = p.name /\ key[p][2] = p.version,
         \A e \in file.root : e.to \in KeysIn(file),
         \A s \in file.snapshots : \A e \in s.deps \cup s.opts : e.to \in KeysIn(file)
  PROVE  KeysLead(file)
<1>1. NameVersions(file.packages) = {<<p.name, p.version>> : p \in packages}
  BY EntriesName DEF NameVersions
<1>2. {<<k[1], k[2]>> : k \in KeysIn(file)} = {<<p.name, p.version>> : p \in packages}
  OBVIOUS
<1> QED BY <1>1, <1>2 DEF KeysLead, EdgesIn

(* What gnpm writes (LockfileToPnpm): a snapshot has the dependencies of    *)
(* its package that have a name in the file.                                *)
LEMMA WrittenLeads ==
  ASSUME NEW lf, NEW by \in ByName(lf), NEW order
  PROVE  LET file == WritePnpm(lf, by, order)
         IN /\ file.packages = Entries(lf.packages)
            /\ KeysLead(file)
            /\ \A s \in file.snapshots : \E p \in lf.packages :
                 /\ s.key[1] = p.name /\ s.key[2] = p.version
                 /\ Names(s.deps) = p.deps \cap DOMAIN by
<1> DEFINE suffix == PeerSuffixes(by, order)
           key == [p \in lf.packages |-> <<p.name, p.version, suffix[p.name]>>]
           Edges(ns) == {Edge(n, <<n, by[n].version, suffix[n]>>) : n \in ns \cap DOMAIN by}
           Snap(p) == Snapshot(<<p.name, p.version, suffix[p.name]>>, Edges(p.deps), Edges(p.opts))
           file == File(Edges(lf.root), Entries(lf.packages), {Snap(p) : p \in lf.packages}, lf.extra, NoExtra)
<1>1. WritePnpm(lf, by, order) = file
  BY DEF WritePnpm, Entries
<1>2. ASSUME NEW ns, NEW e \in Edges(ns) PROVE e.to \in {key[p] : p \in lf.packages}
  <2>1. PICK n \in DOMAIN by : e = Edge(n, <<n, by[n].version, suffix[n]>>)
    BY <1>2
  <2>2. by[n] \in lf.packages /\ by[n].name = n
    BY DEF ByName
  <2>3. e.to = <<n, by[n].version, suffix[n]>>
    BY <2>1 DEF Edge
  <2> QED BY <2>2, <2>3
<1>3. ASSUME NEW ns PROVE Names(Edges(ns)) = ns \cap DOMAIN by
  <2>1. \A n, k : Edge(n, k).name = n
    BY DEF Edge
  <2>2. Names(Edges(ns)) = {Edge(n, <<n, by[n].version, suffix[n]>>).name : n \in ns \cap DOMAIN by}
    BY DEF Names
  <2> QED BY <2>1, <2>2
<1> HIDE DEF Edges
<1>4. \A p \in lf.packages : /\ Snap(p).key = key[p]
                             /\ Snap(p).deps = Edges(p.deps) /\ Snap(p).opts = Edges(p.opts)
  BY DEF Snapshot
<1>5. \A p \in lf.packages : key[p][1] = p.name /\ key[p][2] = p.version
  OBVIOUS
<1> HIDE DEF key, Snap
<1>6. /\ file.root = Edges(lf.root) /\ file.packages = Entries(lf.packages)
      /\ file.snapshots = {Snap(p) : p \in lf.packages}
  BY DEF File
<1> HIDE DEF file
<1>7. KeysLead(file)
  <2>1. \A k : k \in KeysIn(file) <=> \E p \in lf.packages : k = key[p]
    BY <1>4, <1>6 DEF KeysIn
  <2>2. \A s \in file.snapshots : \A e \in s.deps \cup s.opts : e.to \in KeysIn(file)
    BY <1>2, <1>4, <1>6, <2>1
  <2>3. \A e \in file.root : e.to \in KeysIn(file)
    BY <1>2, <1>6, <2>1
  <2>4. file.packages = Entries(lf.packages)
    BY <1>6
  <2> QED BY <1>5, <2>1, <2>2, <2>3, <2>4, KeysOfPackages
<1>8. \A s \in file.snapshots : \E p \in lf.packages :
        /\ s.key[1] = p.name /\ s.key[2] = p.version
        /\ Names(s.deps) = p.deps \cap DOMAIN by
  BY <1>3, <1>4, <1>5, <1>6
<1> QED BY <1>1, <1>6, <1>7, <1>8

(* What pnpm writes: a snapshot has the dependencies in reach of a copy.    *)
Reaching(res, p) == {n \in p.deps : InReach(res, p.path, n) # {}}
LEMMA OwnLeads ==
  ASSUME NEW res, NEW extra, NEW foreign, NEW order
  PROVE  LET file == PnpmOwn(res, extra, foreign, order)
         IN /\ file.packages = Entries(res.tree)
            /\ KeysLead(file)
            /\ \A s \in file.snapshots : \E p \in res.tree :
                 /\ s.key[1] = p.name /\ s.key[2] = p.version
                 /\ Names(s.deps) = Reaching(res, p)
<1> DEFINE loaded == Loaded(res.root, res.tree, extra)
           suffix == PeerSuffixes(CHOOSE by \in ByName(loaded) : TRUE, order)
           Key(p) == <<p.name, p.version, suffix[p.name]>>
           key == [p \in res.tree |-> Key(p)]
           Edges(path, ns) == UNION {{Edge(n, Key(p)) : p \in InReach(res, path, n)} : n \in ns}
           Snap(p) == Snapshot(Key(p), Edges(p.path, p.deps), Edges(p.path, p.opts))
           file == File(Edges(<<>>, res.root), Entries(res.tree), {Snap(p) : p \in res.tree}, extra, foreign)
<1>1. PnpmOwn(res, extra, foreign, order) = file
  BY DEF PnpmOwn, Entries
<1>2. \A n, k : Edge(n, k).name = n /\ Edge(n, k).to = k
  BY DEF Edge
<1>3. \A path, n : InReach(res, path, n) \subseteq res.tree
  BY DEF InReach
<1>4. ASSUME NEW path, NEW ns
      PROVE  /\ \A e \in Edges(path, ns) : e.to \in {key[p] : p \in res.tree}
             /\ Names(Edges(path, ns)) = {n \in ns : InReach(res, path, n) # {}}
  <2> DEFINE Part(n) == {Edge(n, Key(p)) : p \in InReach(res, path, n)}
  <2>1. \A n : Part(n) = {Edge(n, Key(p)) : p \in InReach(res, path, n)}
    OBVIOUS
  <2>2. Edges(path, ns) = UNION {Part(n) : n \in ns}
    OBVIOUS
  <2>3. \A p \in res.tree : Key(p) = key[p]
    OBVIOUS
  <2> HIDE DEF Edges, Key, key, Part
  <2>4. \A e \in Edges(path, ns) : e.to \in {key[p] : p \in res.tree}
    BY <1>2, <1>3, <2>1, <2>2, <2>3
  <2>5. Names(Edges(path, ns)) = {n \in ns : InReach(res, path, n) # {}}
    <3>1. \A n \in ns : \A e \in Part(n) : e.name = n
      BY <1>2, <2>1
    <3>2. \A n \in ns : Part(n) # {} <=> InReach(res, path, n) # {}
      BY <2>1
    <3> QED BY <2>2, <3>1, <3>2 DEF Names
  <2> QED BY <2>4, <2>5
<1> HIDE DEF Edges
<1>5. \A p \in res.tree : /\ Snap(p).key = key[p]
                          /\ Snap(p).deps = Edges(p.path, p.deps) /\ Snap(p).opts = Edges(p.path, p.opts)
  BY DEF Snapshot
<1>6. \A p \in res.tree : key[p][1] = p.name /\ key[p][2] = p.version
  OBVIOUS
<1> HIDE DEF key, Snap
<1>7. /\ file.root = Edges(<<>>, res.root) /\ file.packages = Entries(res.tree)
      /\ file.snapshots = {Snap(p) : p \in res.tree}
  BY DEF File
<1> HIDE DEF file
<1>8. KeysLead(file)
  <2>1. \A k : k \in KeysIn(file) <=> \E p \in res.tree : k = key[p]
    BY <1>5, <1>7 DEF KeysIn
  <2>2. \A s \in file.snapshots : \A e \in s.deps \cup s.opts : e.to \in KeysIn(file)
    BY <1>4, <1>5, <1>7, <2>1
  <2>3. \A e \in file.root : e.to \in KeysIn(file)
    BY <1>4, <1>7, <2>1
  <2>4. file.packages = Entries(res.tree)
    BY <1>7
  <2> QED BY <1>6, <2>1, <2>2, <2>3, <2>4, KeysOfPackages
<1>9. ASSUME NEW s \in file.snapshots
      PROVE  \E p \in res.tree : /\ s.key[1] = p.name /\ s.key[2] = p.version
                                  /\ Names(s.deps) = Reaching(res, p)
  <2>1. PICK p \in res.tree : s = Snap(p)
    BY <1>7
  <2>2. Names(s.deps) = Reaching(res, p)
    BY <1>4, <1>5, <2>1 DEF Reaching
  <2> QED BY <1>5, <1>6, <2>1, <2>2
<1> QED BY <1>1, <1>7, <1>8, <1>9

(* What an npm file holds is at its place, without its C library, and       *)
(* under the name of its path once gnpm has written it (WriteNpmString,     *)
(* ImportNpm).                                                              *)
AnyOf(p)   == As(p.name, p)
PlaceOf(p) == As(NameOf(p.path), p)
LEMMA AtPathKeeps ==
  ASSUME NEW p, Placed(p)
  PROVE  /\ PlaceOf(AnyOf(p)) = PlaceOf(p) /\ PlaceOf(PlaceOf(p)) = PlaceOf(p)
         /\ AnyOf(PlaceOf(p)) = PlaceOf(p)
         /\ p.name = NameOf(p.path) => PlaceOf(p) = AnyOf(p)
         /\ \A q \in {AnyOf(p), PlaceOf(p)} :
              /\ q.version = p.version /\ q.path = p.path /\ q.path # <<>>
              /\ q.deps = p.deps /\ q.bin = p.bin /\ q.host = p.host
         /\ AnyOf(p).name = p.name
<1>1. \A n : /\ As(n, p).name = n /\ As(n, p).version = p.version /\ As(n, p).path = p.path
            /\ As(n, p).deps = p.deps /\ As(n, p).opts = p.opts /\ As(n, p).peers = p.peers
            /\ As(n, p).bin = p.bin /\ As(n, p).host = p.host
  BY DEF As, Package
<1>2. \A n, k : As(n, As(k, p)) = As(n, p)
  BY <1>1 DEF As
<1>3. p.path # <<>>
  BY DEF Placed
<1> QED BY <1>1, <1>2, <1>3 DEF AnyOf, PlaceOf

(* So a set of packages.                                                    *)
LEMMA AtPathSettles ==
  ASSUME NEW packages, \A p \in packages : Placed(p)
  PROVE  /\ AtPath(AnyLibc(packages)) = AtPath(packages)
         /\ AtPath(AtPath(packages)) = AtPath(packages)
         /\ AnyLibc(AtPath(packages)) = AtPath(packages)
         /\ (\A p \in packages : p.name = NameOf(p.path)) => AtPath(packages) = AnyLibc(packages)
<1>1. \A ps : AtPath(ps) = {PlaceOf(p) : p \in ps} /\ AnyLibc(ps) = {AnyOf(p) : p \in ps}
  BY DEF AtPath, AnyLibc, PlaceOf, AnyOf
<1>2. AtPath(AnyLibc(packages)) = {PlaceOf(AnyOf(p)) : p \in packages}
  <2>1. AtPath(AnyLibc(packages)) = {PlaceOf(q) : q \in {AnyOf(p) : p \in packages}}
    BY <1>1
  <2> QED BY <2>1
<1>3. AtPath(AtPath(packages)) = {PlaceOf(PlaceOf(p)) : p \in packages}
  <2>1. AtPath(AtPath(packages)) = {PlaceOf(q) : q \in {PlaceOf(p) : p \in packages}}
    BY <1>1
  <2> QED BY <2>1
<1>4. AnyLibc(AtPath(packages)) = {AnyOf(PlaceOf(p)) : p \in packages}
  <2>1. AnyLibc(AtPath(packages)) = {AnyOf(q) : q \in {PlaceOf(p) : p \in packages}}
    BY <1>1
  <2> QED BY <2>1
<1>5. \A p \in packages :
        /\ PlaceOf(AnyOf(p)) = PlaceOf(p) /\ PlaceOf(PlaceOf(p)) = PlaceOf(p) /\ AnyOf(PlaceOf(p)) = PlaceOf(p)
        /\ p.name = NameOf(p.path) => PlaceOf(p) = AnyOf(p)
  BY AtPathKeeps
<1>6. AtPath(packages) = {PlaceOf(p) : p \in packages} /\ AnyLibc(packages) = {AnyOf(p) : p \in packages}
  BY <1>1
<1> QED BY <1>2, <1>3, <1>4, <1>5, <1>6

(* What comes back from a pnpm file is every version of every package, and  *)
(* makes the same entries, with the dependencies of one of its snapshots    *)
(* (PnpmToLockfile, LockfileToPnpm).                                        *)
LEMMA PnpmGivesBack ==
  ASSUME NEW file, NEW packages, file.packages = Entries(packages), KeysLead(file)
  PROVE  LET back == ReadPnpm(file).packages
         IN /\ Entries(back) = Entries(packages)
            /\ NameVersions(back) = NameVersions(packages)
            /\ \A q \in back : \E p \in packages, s \in file.snapshots :
                 /\ q.name = p.name /\ q.version = p.version /\ q.host = p.host /\ q.path = <<>>
                 /\ s.key[1] = p.name /\ s.key[2] = p.version /\ q.deps = Names(s.deps)
            /\ \A p \in packages : \E q \in back :
                 q.name = p.name /\ q.version = p.version /\ q.host = p.host
<1> DEFINE Snap(e) == CHOOSE s \in file.snapshots : s.key[1] = e.name /\ s.key[2] = e.version
           Back(e) == [Package(e.name, e.version, <<>>, Names(Snap(e).deps), Names(Snap(e).opts),
                               e.peers, FALSE, e.host, TRUE) EXCEPT !.hasBin = e.hasBin]
           back == ReadPnpm(file).packages
<1>1. back = {Back(e) : e \in file.packages}
  BY DEF ReadPnpm, Loaded
<1>2. ASSUME NEW e
      PROVE  /\ Back(e).name = e.name /\ Back(e).version = e.version /\ Back(e).path = <<>>
             /\ Back(e).peers = e.peers /\ Back(e).hasBin = e.hasBin /\ Back(e).host = e.host
             /\ Back(e).deps = Names(Snap(e).deps)
  <2> HIDE DEF Snap
  <2> QED BY DEF Package
<1>3. ASSUME NEW p \in packages
      PROVE  /\ Snap(Entry(p)) \in file.snapshots
             /\ Snap(Entry(p)).key[1] = p.name /\ Snap(Entry(p)).key[2] = p.version
  <2>1. <<p.name, p.version>> \in NameVersions(file.packages)
    BY EntriesName DEF NameVersions
  <2>2. PICK s \in file.snapshots : <<s.key[1], s.key[2]>> = <<p.name, p.version>>
    BY <2>1 DEF KeysLead, KeysIn
  <2>3. Entry(p).name = p.name /\ Entry(p).version = p.version
    BY DEF Entry
  <2> QED BY <2>2, <2>3
<1> HIDE DEF Back, Snap
<1>4. \A p : /\ Entry(p).name = p.name /\ Entry(p).version = p.version /\ Entry(p).peers = p.peers
             /\ Entry(p).hasBin = p.hasBin /\ Entry(p).host = p.host
  BY DEF Entry
<1>5. back = {Back(Entry(p)) : p \in packages}
  BY <1>1 DEF Entries
<1> HIDE DEF back
<1>6. \A p \in packages : Entry(Back(Entry(p))) = Entry(p)
  BY <1>2, <1>4 DEF Entry
<1>7. Entries(back) = Entries(packages)
  <2>1. Entries(back) = {Entry(Back(Entry(p))) : p \in packages}
    BY <1>5 DEF Entries
  <2> QED BY <1>6, <2>1 DEF Entries
<1>8. NameVersions(back) = NameVersions(packages)
  BY <1>7, EntriesName
<1>9. \A q \in back : \E p \in packages, s \in file.snapshots :
        /\ q.name = p.name /\ q.version = p.version /\ q.host = p.host /\ q.path = <<>>
        /\ s.key[1] = p.name /\ s.key[2] = p.version /\ q.deps = Names(s.deps)
  BY <1>2, <1>3, <1>4, <1>5
<1>10. \A p \in packages : \E q \in back : q.name = p.name /\ q.version = p.version /\ q.host = p.host
  BY <1>2, <1>4, <1>5
<1> QED BY <1>7, <1>8, <1>9, <1>10 DEF back

(* What is in reach of a package has a name in the tree, where no name is   *)
(* an alias.                                                                *)
LEMMA WithinIsPlaced ==
  ASSUME NEW res, NoAlias(res), NEW p \in res.tree
  PROVE  Within(res, p) \subseteq PlacedNames(res)
<1> SUFFICES ASSUME NEW n \in Within(res, p) PROVE n \in PlacedNames(res)
  OBVIOUS
<1>1. InReach(res, p.path, n) # {}
  BY DEF Within
<1>2. PICK q \in res.tree, k \in 0..Len(p.path) : q.path = Append(SubSeq(p.path, 1, k), n)
  BY <1>1 DEF InReach
<1>3. NameOf(q.path) = n
  BY <1>2 DEF NameOf
<1> QED BY <1>3 DEF NoAlias, PlacedNames

(* A locked package that has the dependencies of what was resolved is wired *)
(* as that (Operation.runLocked).                                           *)
LEMMA SpecsAreWired ==
  ASSUME NEW res, NoAlias(res), NEW lf, NameVersions(lf.packages) = NameVersions(res.tree),
         NEW by \in ByName(lf), NEW p \in res.tree, NEW q,
         Within(res, p) \subseteq q.deps, q.deps \subseteq p.deps
  PROVE  WiredAsIn(res, LinkSpec(q, Locked(q, by)), p)
<1>1. LinkSpec(q, Locked(q, by)).deps = {<<n, by[n].version>> : n \in q.deps \cap DOMAIN by}
  BY DEF LinkSpec, Locked
<1>2. /\ DOMAIN by = {r.name : r \in lf.packages}
      /\ \A n \in DOMAIN by : by[n] \in lf.packages /\ by[n].name = n
  BY DEF ByName
<1>3. PlacedNames(res) \subseteq DOMAIN by
  <2> SUFFICES ASSUME NEW r \in res.tree PROVE r.name \in DOMAIN by
    BY DEF PlacedNames
  <2>1. <<r.name, r.version>> \in NameVersions(lf.packages)
    BY DEF NameVersions
  <2>2. PICK t \in lf.packages : <<t.name, t.version>> = <<r.name, r.version>>
    BY <2>1 DEF NameVersions
  <2> QED BY <1>2, <2>2
<1>4. \A n \in DOMAIN by : <<n, by[n].version>> \in NameVersions(res.tree)
  <2>1. \A n \in DOMAIN by : <<n, by[n].version>> \in NameVersions(lf.packages)
    BY <1>2 DEF NameVersions
  <2> QED BY <2>1
<1>5. {d[1] : d \in LinkSpec(q, Locked(q, by)).deps} = q.deps \cap DOMAIN by
  <2>1. {d[1] : d \in LinkSpec(q, Locked(q, by)).deps} = {<<n, by[n].version>>[1] : n \in q.deps \cap DOMAIN by}
    BY <1>1
  <2> QED BY <2>1
<1> QED BY <1>1, <1>3, <1>4, <1>5, WithinIsPlaced DEF WiredAsIn

(* The snapshots of a pnpm file have the required dependencies of a package *)
(* of the tree that all its copies have in reach.                           *)
SnapsWired(res, file) ==
  \A s \in file.snapshots : \E p \in res.tree :
    /\ s.key[1] = p.name /\ s.key[2] = p.version
    /\ Names(s.deps) \subseteq p.deps
    /\ NoAlias(res) => Within(res, p) \subseteq Names(s.deps)

(* An npm file has what was resolved as another tool wrote it, or under the *)
(* names of the paths and with no more than that as gnpm did.  A pnpm file  *)
(* has every package that was resolved, with its dependencies.              *)
NpmHolds ==
  /\ stored = NpmFile(stored.root, stored.packages, stored.foreign)
  /\ stored.packages \in {meant.tree, AtPath(meant.tree)}
  /\ writer # "other" => stored.packages = AtPath(meant.tree) /\ stored.foreign = NoExtra
RoundsInv ==
  /\ mode \in {"npm", "pnpm"}
  /\ meant = NoTree \/ meant \in Resolutions
  /\ mode = "npm" => NpmHolds
  /\ mode = "pnpm" => KeysLead(stored) /\ stored.packages = Entries(meant.tree) /\ SnapsWired(meant, stored)
  /\ LockReproduces

(* What is meant is a tree of placed packages.                              *)
LEMMA MeantIsPlaced ==
  ASSUME meant = NoTree \/ meant \in Resolutions
  PROVE  Alike(meant) /\ \A p \in meant.tree : Placed(p)
<1>1. NoTree.tree = {}
  BY DEF NoTree
<1> QED BY <1>1, PlacedAssumption DEF Alike

(* The parts of an npm file.                                                *)
LEMMA NpmFileFields ==
  ASSUME NEW root, NEW packages, NEW foreign
  PROVE  LET file == NpmFile(root, packages, foreign)
         IN /\ file.root = root /\ file.packages = packages /\ file.foreign = foreign
            /\ file.snapshots = {} /\ file.extra = NoExtra
BY DEF NpmFile, File

(* Before the first install there is no file.                               *)
LEMMA RoundsInvFirst == RoundsInit => RoundsInv
<1> SUFFICES ASSUME RoundsInit PROVE RoundsInv
  OBVIOUS
<1>1. /\ stored.packages = {} /\ stored.root = {} /\ stored.snapshots = {} /\ stored.foreign = NoExtra
      /\ stored = NpmFile(stored.root, stored.packages, stored.foreign)
      /\ meant = NoTree /\ meant.tree = {} /\ ~AfterLocked
  BY DEF RoundsInit, NoFile, NoTree, AfterLocked, NpmFile, File
<1>2. AtPath({}) = {}
  BY DEF AtPath
<1>3. KeysLead(stored) /\ stored.packages = Entries(meant.tree) /\ SnapsWired(meant, stored)
  BY <1>1 DEF KeysLead, KeysIn, EdgesIn, NameVersions, Entries, SnapsWired
<1>4. NpmHolds
  BY <1>1, <1>2 DEF NpmHolds
<1> QED BY <1>1, <1>3, <1>4 DEF RoundsInv, RoundsInit, LockReproduces

(* Where one version of a package has one list of dependencies, what gnpm   *)
(* writes of lists that are wired is wired (LockfileToPnpm).                *)
LEMMA WriteWires ==
  ASSUME NEW res, Alike(res), NEW lf, NEW by \in ByName(lf), NEW order,
         NameVersions(lf.packages) = NameVersions(res.tree),
         \A q \in lf.packages : \E p \in res.tree :
           /\ q.name = p.name /\ q.version = p.version /\ q.deps \subseteq p.deps
           /\ NoAlias(res) => Within(res, p) \subseteq q.deps
  PROVE  SnapsWired(res, WritePnpm(lf, by, order))
<1> DEFINE file == WritePnpm(lf, by, order)
<1> SUFFICES ASSUME NEW s \in file.snapshots
             PROVE  \E p \in res.tree :
                      /\ s.key[1] = p.name /\ s.key[2] = p.version
                      /\ Names(s.deps) \subseteq p.deps
                      /\ NoAlias(res) => Within(res, p) \subseteq Names(s.deps)
  BY DEF SnapsWired
<1>1. PICK q \in lf.packages : /\ s.key[1] = q.name /\ s.key[2] = q.version
                               /\ Names(s.deps) = q.deps \cap DOMAIN by
  BY WrittenLeads
<1>2. PICK p \in res.tree : /\ q.name = p.name /\ q.version = p.version /\ q.deps \subseteq p.deps
                            /\ NoAlias(res) => Within(res, p) \subseteq q.deps
  OBVIOUS
<1>3. PlacedNames(res) \subseteq DOMAIN by
  <2> SUFFICES ASSUME NEW r \in res.tree PROVE r.name \in DOMAIN by
    BY DEF PlacedNames
  <2>1. <<r.name, r.version>> \in NameVersions(lf.packages)
    BY DEF NameVersions
  <2>2. PICK t \in lf.packages : <<t.name, t.version>> = <<r.name, r.version>>
    BY <2>1 DEF NameVersions
  <2> QED BY <2>2 DEF ByName
<1> QED BY <1>1, <1>2, <1>3, WithinIsPlaced

(* A full install records the resolution.                                   *)
LEMMA FullKeeps ==
  ASSUME RoundsInv, NEW res \in Resolutions, FullInstall(res)
  PROVE  RoundsInv'
<1> DEFINE lf == Loaded(res.root, res.tree, NoExtra)
<1>1. /\ lf.packages = res.tree /\ mode' = mode /\ meant' = res /\ last' = "full" /\ writer' = "gnpm"
      /\ WriteFile(lf)
  BY DEF FullInstall, Loaded
<1>2. Alike(res) /\ \A p \in res.tree : Placed(p)
  BY PlacedAssumption
<1> HIDE DEF lf
<1>3. mode = "npm" => NpmHolds'
  <2>1. mode = "npm" => stored' = NpmFile(lf.root, AtPath(res.tree), NoExtra)
    BY <1>1 DEF WriteFile, WriteNpm
  <2> QED BY <1>1, <2>1, NpmFileFields DEF NpmHolds
<1>4. ASSUME mode = "pnpm"
      PROVE  KeysLead(stored') /\ stored'.packages = Entries(res.tree) /\ SnapsWired(res, stored')
  <2>1. PICK by \in ByName(lf), order \in Orders : stored' = WritePnpm(lf, by, order)
    BY <1>1, <1>4 DEF WriteFile, RoundsInv
  <2>2. \A q \in lf.packages : \E p \in res.tree :
           /\ q.name = p.name /\ q.version = p.version /\ q.deps \subseteq p.deps
           /\ NoAlias(res) => Within(res, p) \subseteq q.deps
    BY <1>1 DEF Within
  <2> QED BY <1>1, <1>2, <2>1, <2>2, WrittenLeads, WriteWires
<1>5. LockReproduces'
  BY <1>1 DEF LockReproduces, AfterLocked
<1> QED BY <1>1, <1>3, <1>4, <1>5 DEF RoundsInv

(* What is read back is what was meant: each version of each package, wired *)
(* as it was.                                                               *)
LEMMA PnpmReadsMeant ==
  ASSUME RoundsInv, mode = "pnpm"
  PROVE  LET back == ReadFile.packages
         IN /\ Entries(back) = Entries(meant.tree)
            /\ NameVersions(back) = NameVersions(meant.tree)
            /\ NameVersions({q \in back : q.host}) = NameVersions(Here(meant))
            /\ \A q \in back : \E p \in meant.tree :
                 /\ q.name = p.name /\ q.version = p.version /\ q.path = <<>> /\ q.deps \subseteq p.deps
                 /\ NoAlias(meant) => Within(meant, p) \subseteq q.deps
<1> DEFINE back == ReadFile.packages
<1>1. back = ReadPnpm(stored).packages
  BY DEF ReadFile
<1>2. Alike(meant) /\ \A p \in meant.tree : Placed(p)
  BY MeantIsPlaced DEF RoundsInv
<1> HIDE DEF back
<1>3. /\ Entries(back) = Entries(meant.tree)
      /\ NameVersions(back) = NameVersions(meant.tree)
      /\ \A q \in back : \E p \in meant.tree, s \in stored.snapshots :
           /\ q.name = p.name /\ q.version = p.version /\ q.host = p.host /\ q.path = <<>>
           /\ s.key[1] = p.name /\ s.key[2] = p.version /\ q.deps = Names(s.deps)
      /\ \A p \in meant.tree : \E q \in back :
           q.name = p.name /\ q.version = p.version /\ q.host = p.host
  BY <1>1, PnpmGivesBack DEF RoundsInv
<1>4. NameVersions({q \in back : q.host}) = NameVersions(Here(meant))
  <2>1. \A q \in back : q.host => \E p \in Here(meant) : q.name = p.name /\ q.version = p.version
    BY <1>3 DEF Here
  <2>2. \A p \in Here(meant) : \E q \in back : q.host /\ q.name = p.name /\ q.version = p.version
    BY <1>3 DEF Here
  <2> QED BY <2>1, <2>2 DEF NameVersions
<1>5. ASSUME NEW q \in back
      PROVE  \E p \in meant.tree :
               /\ q.name = p.name /\ q.version = p.version /\ q.path = <<>> /\ q.deps \subseteq p.deps
               /\ NoAlias(meant) => Within(meant, p) \subseteq q.deps
  <2>1. PICK p \in meant.tree, s \in stored.snapshots :
          /\ q.name = p.name /\ q.version = p.version /\ q.path = <<>>
          /\ s.key[1] = p.name /\ s.key[2] = p.version /\ q.deps = Names(s.deps)
    BY <1>3
  <2>2. PICK r \in meant.tree : /\ s.key[1] = r.name /\ s.key[2] = r.version
                                /\ Names(s.deps) \subseteq r.deps
                                /\ NoAlias(meant) => Within(meant, r) \subseteq Names(s.deps)
    BY DEF RoundsInv, SnapsWired
  <2> QED BY <2>1, <2>2
<1> QED BY <1>3, <1>4, <1>5 DEF back

(* An install from a pnpm file links what it holds and writes it back.      *)
LEMMA LockedPnpmKeeps ==
  ASSUME RoundsInv, LockedInstall, mode = "pnpm"
  PROVE  RoundsInv'
<1> DEFINE back == ReadFile.packages
<1>1. /\ mode' = mode /\ meant' = meant /\ WriteFile(ReadFile)
      /\ Alike(meant) /\ \A p \in meant.tree : Placed(p)
  BY MeantIsPlaced DEF LockedInstall, RoundsInv
<1>2. PICK by \in ByName(ReadFile) : linked' = LockedSpecs(back, by)
  BY DEF LockedInstall
<1>3. PICK some \in ByName(ReadFile), order \in Orders : stored' = WritePnpm(ReadFile, some, order)
  BY <1>1 DEF WriteFile
<1>4. /\ Entries(back) = Entries(meant.tree)
      /\ NameVersions(back) = NameVersions(meant.tree)
      /\ NameVersions({q \in back : q.host}) = NameVersions(Here(meant))
      /\ \A q \in back : \E p \in meant.tree :
           /\ q.name = p.name /\ q.version = p.version /\ q.path = <<>> /\ q.deps \subseteq p.deps
           /\ NoAlias(meant) => Within(meant, p) \subseteq q.deps
  BY PnpmReadsMeant
<1>5. KeysLead(stored') /\ stored'.packages = Entries(meant.tree) /\ SnapsWired(meant, stored')
  BY <1>1, <1>3, <1>4, WrittenLeads, WriteWires
<1>6. linked' = {LinkSpec(q, Locked(q, by)) : q \in {r \in back : r.host}}
  BY <1>2 DEF LockedSpecs
<1> HIDE DEF back
<1>7. \A q \in back : LET s == LinkSpec(q, Locked(q, by))
                      IN s.path = <<q.name>> /\ s.version = q.version
  BY <1>4 DEF LinkSpec
<1>8. {<<NameOf(s.path), s.version>> : s \in linked'} = NameVersions(Here(meant))
  <2>1. \A n : NameOf(<<n>>) = n
    BY DEF NameOf
  <2> DEFINE LinkOf(q) == LinkSpec(q, Locked(q, by))
  <2>2. \A q \in back : <<NameOf(LinkOf(q).path), LinkOf(q).version>> = <<q.name, q.version>>
    BY <1>7, <2>1
  <2>3. linked' = {LinkOf(q) : q \in {r \in back : r.host}}
    BY <1>6
  <2> HIDE DEF LinkOf
  <2>4. {<<NameOf(s.path), s.version>> : s \in linked'} = {<<q.name, q.version>> : q \in {r \in back : r.host}}
    BY <2>2, <2>3
  <2> QED BY <1>4, <2>4 DEF NameVersions
<1>9. ASSUME NoAlias(meant), NEW s \in linked'
      PROVE  \E p \in meant.tree :
               s.path \in {p.path, <<p.name>>} /\ s.version = p.version /\ WiredAsIn(meant, s, p)
  <2>1. PICK q \in back : s = LinkSpec(q, Locked(q, by))
    BY <1>6
  <2>2. PICK p \in meant.tree : /\ q.name = p.name /\ q.version = p.version /\ q.deps \subseteq p.deps
                                /\ Within(meant, p) \subseteq q.deps
    BY <1>4, <1>9
  <2>3. WiredAsIn(meant, s, p)
    BY <1>4, <1>9, <2>1, <2>2, SpecsAreWired DEF back
  <2> QED BY <1>7, <2>1, <2>2, <2>3
<1>10. LockReproduces'
  BY <1>1, <1>8, <1>9 DEF LockReproduces
<1> QED BY <1>1, <1>5, <1>10 DEF RoundsInv

(* And one from an npm file.                                                *)
LEMMA LockedNpmKeeps ==
  ASSUME RoundsInv, LockedInstall, mode = "npm"
  PROVE  /\ RoundsInv'
         /\ stored' = Stripped(stored)
         /\ writer # "other" => stored' = stored
<1> DEFINE back == AnyLibc(stored.packages)
<1>1. /\ mode' = mode /\ meant' = meant /\ writer' = "gnpm" /\ WriteFile(ReadFile)
      /\ Alike(meant) /\ \A p \in meant.tree : Placed(p)
      /\ NpmHolds
  BY MeantIsPlaced DEF LockedInstall, RoundsInv
<1>2. ReadFile.packages = back /\ ReadFile.root = stored.root
  BY DEF ReadFile, ReadNpm, Loaded
<1>3. /\ AtPath(AnyLibc(meant.tree)) = AtPath(meant.tree)
      /\ AtPath(AtPath(meant.tree)) = AtPath(meant.tree)
      /\ AnyLibc(AtPath(meant.tree)) = AtPath(meant.tree)
      /\ NoAlias(meant) => AtPath(meant.tree) = AnyLibc(meant.tree)
  BY <1>1, AtPathSettles DEF NoAlias
<1>4. AtPath(back) = AtPath(meant.tree) /\ AtPath(stored.packages) = AtPath(meant.tree)
  BY <1>1, <1>3 DEF NpmHolds
<1>5. stored' = NpmFile(stored.root, AtPath(meant.tree), NoExtra)
  BY <1>1, <1>2, <1>4 DEF WriteFile, WriteNpm
<1>6. /\ stored' = Stripped(stored)
      /\ writer # "other" => stored' = stored
  <2>1. /\ stored = NpmFile(stored.root, stored.packages, stored.foreign)
        /\ writer # "other" => stored.packages = AtPath(meant.tree) /\ stored.foreign = NoExtra
    BY <1>1 DEF NpmHolds
  <2>2. stored.snapshots = {} /\ stored.extra = NoExtra
    BY <2>1, NpmFileFields
  <2>3. Stripped(stored) = NpmFile(stored.root, AtPath(stored.packages), NoExtra)
    BY <2>2 DEF Stripped, NpmFile
  <2> QED BY <1>4, <1>5, <2>1, <2>3
<1>7. NpmHolds'
  BY <1>1, <1>5, NpmFileFields DEF NpmHolds
<1>8. PICK by \in ByName(ReadFile) : linked' = LockedSpecs(back, by)
  BY <1>2 DEF LockedInstall
<1>9. PICK f : /\ back = {f[p] : p \in meant.tree}
               /\ \A p \in meant.tree : f[p] \in {AnyOf(p), PlaceOf(p)}
               /\ NoAlias(meant) => \A p \in meant.tree : f[p].name = p.name
  <2>1. \A ps : AtPath(ps) = {PlaceOf(p) : p \in ps} /\ AnyLibc(ps) = {AnyOf(p) : p \in ps}
    BY DEF AtPath, AnyLibc, PlaceOf, AnyOf
  <2>2. CASE stored.packages = meant.tree
    <3> DEFINE f == [p \in meant.tree |-> AnyOf(p)]
    <3>1. \A p \in meant.tree : f[p] = AnyOf(p) /\ f[p].name = p.name
      BY <1>1, AtPathKeeps
    <3>2. back = {f[p] : p \in meant.tree}
      BY <2>1, <2>2
    <3> QED BY <3>1, <3>2
  <2>3. CASE stored.packages = AtPath(meant.tree)
    <3> DEFINE f == [p \in meant.tree |-> PlaceOf(p)]
    <3>1. \A p \in meant.tree : f[p] = PlaceOf(p)
      OBVIOUS
    <3>2. back = {f[p] : p \in meant.tree}
      BY <1>3, <2>1, <2>3
    <3>3. NoAlias(meant) => \A p \in meant.tree : f[p].name = p.name
      BY <1>1, <3>1, AtPathKeeps DEF NoAlias
    <3> HIDE DEF f
    <3> QED BY <3>1, <3>2, <3>3
  <2> QED BY <1>1, <2>2, <2>3 DEF NpmHolds
<1>10. \A p \in meant.tree : /\ f[p].version = p.version /\ f[p].path = p.path /\ f[p].path # <<>>
                             /\ f[p].deps = p.deps /\ f[p].bin = p.bin /\ f[p].host = p.host
  BY <1>1, <1>9, AtPathKeeps
<1> HIDE DEF back
<1>11. linked' = {LinkSpec(f[p], Locked(f[p], by)) : p \in Here(meant)}
  <2>1. linked' = {LinkSpec(q, Locked(q, by)) : q \in {r \in back : r.host}}
    BY <1>8 DEF LockedSpecs
  <2>2. {r \in back : r.host} = {f[p] : p \in Here(meant)}
    BY <1>9, <1>10 DEF Here
  <2> QED BY <2>1, <2>2
<1>12. \A p \in meant.tree : LET s == LinkSpec(f[p], Locked(f[p], by))
                             IN s.path = p.path /\ s.version = p.version /\ s.bin = p.bin
  BY <1>10 DEF LinkSpec
<1>13. {<<s.path, s.version, s.bin>> : s \in linked'} = {<<p.path, p.version, p.bin>> : p \in Here(meant)}
  <2>1. Here(meant) \subseteq meant.tree
    BY DEF Here
  <2> QED BY <1>11, <1>12, <2>1
<1>14. ASSUME NoAlias(meant), NEW s \in linked'
       PROVE  \E p \in meant.tree :
                s.path \in {p.path, <<p.name>>} /\ s.version = p.version /\ WiredAsIn(meant, s, p)
  <2>1. PICK p \in meant.tree : s = LinkSpec(f[p], Locked(f[p], by))
    BY <1>11 DEF Here
  <2>2. NameVersions(ReadFile.packages) = NameVersions(meant.tree)
    <3>1. \A r \in meant.tree : f[r].name = r.name /\ f[r].version = r.version
      BY <1>9, <1>10, <1>14
    <3> QED BY <1>2, <1>9, <3>1 DEF NameVersions
  <2>3. Within(meant, p) \subseteq f[p].deps /\ f[p].deps \subseteq p.deps
    BY <1>10 DEF Within
  <2>4. WiredAsIn(meant, s, p)
    BY <1>14, <2>1, <2>2, <2>3, SpecsAreWired
  <2> QED BY <1>12, <2>1, <2>4
<1>15. LockReproduces'
  BY <1>1, <1>13, <1>14 DEF LockReproduces
<1> QED BY <1>1, <1>6, <1>7, <1>15 DEF RoundsInv

(* Another tool records the resolution too.                                 *)
LEMMA OtherToolKeeps ==
  ASSUME RoundsInv, NEW res \in Resolutions, NEW extra, NEW foreign, OtherTool(res, extra, foreign)
  PROVE  RoundsInv'
<1>1. mode' = mode /\ meant' = res /\ last' = "other tool" /\ writer' = "other"
  BY DEF OtherTool
<1>2. Alike(res)
  BY PlacedAssumption
<1>3. ASSUME mode = "npm" PROVE NpmHolds'
  <2>1. stored' = NpmFile(res.root, res.tree, foreign)
    BY <1>3 DEF OtherTool
  <2>2. stored'.root = res.root /\ stored'.packages = res.tree /\ stored'.foreign = foreign
    BY <2>1, NpmFileFields
  <2> QED BY <1>1, <2>1, <2>2 DEF NpmHolds
<1>4. ASSUME mode = "pnpm"
      PROVE  KeysLead(stored') /\ stored'.packages = Entries(res.tree) /\ SnapsWired(res, stored')
  <2>1. PICK order \in Orders : stored' = PnpmOwn(res, extra, foreign, order)
    BY <1>4 DEF OtherTool
  <2>2. SnapsWired(res, stored')
    <3> SUFFICES ASSUME NEW s \in stored'.snapshots
                 PROVE  \E p \in res.tree :
                          /\ s.key[1] = p.name /\ s.key[2] = p.version
                          /\ Names(s.deps) \subseteq p.deps
                          /\ NoAlias(res) => Within(res, p) \subseteq Names(s.deps)
      BY DEF SnapsWired
    <3>1. PICK p \in res.tree : /\ s.key[1] = p.name /\ s.key[2] = p.version
                                /\ Names(s.deps) = Reaching(res, p)
      BY <2>1, OwnLeads
    <3>2. Within(res, p) \subseteq Reaching(res, p) /\ Reaching(res, p) \subseteq p.deps
      BY DEF Within, Reaching
    <3> QED BY <3>1, <3>2
  <2> QED BY <2>1, <2>2, OwnLeads
<1>5. LockReproduces'
  BY <1>1 DEF LockReproduces, AfterLocked
<1> QED BY <1>1, <1>3, <1>4, <1>5 DEF RoundsInv

(* RoundsInv holds in all rounds.                                           *)
LEMMA RoundsInvHolds == Rounds => []RoundsInv
<1>1. RoundsInv /\ [RoundsNext]_roundVars => RoundsInv'
  <2> SUFFICES ASSUME RoundsInv, [RoundsNext]_roundVars PROVE RoundsInv'
    OBVIOUS
  <2>1. ASSUME NEW root \in Roots, EditRoot(root) PROVE RoundsInv'
    BY <2>1 DEF EditRoot, RoundsInv, NpmHolds, AfterLocked, LockReproduces
  <2>2. CASE UNCHANGED roundVars
    BY <2>2 DEF roundVars, RoundsInv, NpmHolds, AfterLocked, LockReproduces
  <2>3. CASE LockedInstall
    BY <2>3, LockedNpmKeeps, LockedPnpmKeeps DEF RoundsInv
  <2> QED BY <2>1, <2>2, <2>3, FullKeeps, OtherToolKeeps DEF RoundsNext
<1> QED BY <1>1, RoundsInvFirst, PTL DEF Rounds

(* An install from the lockfile alone, whoever wrote the file, links what   *)
(* was resolved for this os and cpu, whatever the C library: in npm mode    *)
(* every copy at its path with its bins, in pnpm mode every version of      *)
(* every package; and each is wired to its required dependencies in         *)
(* versions that were resolved, where no name is an alias (WriteNpmString,  *)
(* ImportNpm, LockfileToPnpm, PnpmToLockfile, Operation.runLocked).         *)
THEOREM LockLinksWhatWasMeant == Rounds => []LockReproduces
<1>1. RoundsInv => LockReproduces
  BY DEF RoundsInv
<1> QED BY <1>1, RoundsInvHolds, PTL

(* Whatever peer contexts peerSuffixes computes, however names and cycles   *)
(* are nested and in whatever order Go walks its maps, every edge of a      *)
(* pnpm file leads to a snapshot and every package has one.                 *)
THEOREM SnapshotsAreThere == Rounds => []EdgesAreKeys
<1>1. RoundsInv => EdgesAreKeys
  BY DEF RoundsInv, EdgesAreKeys, KeysLead, KeysIn, EdgesIn
<1> QED BY <1>1, RoundsInvHolds, PTL

(* The peer contexts and the pnpm file of a steady tree: every edge leads   *)
(* to what has its name.                                                    *)
Named(res, n) == CHOOSE p \in res.tree : p.name = n
Bared(res)    == [n \in PlacedNames(res) |-> Bare(Named(res, n), PlacedNames(res))]
Contexts(res) == PeerSuffixes(Bared(res), CHOOSE order \in Orders : TRUE)
KeyOf(res, p) == <<p.name, p.version, Contexts(res)[p.name]>>
EdgeTo(res, p) == Edge(p.name, KeyOf(res, p))
EdgesTo(res, ns) == {EdgeTo(res, p) : p \in {q \in res.tree : q.name \in ns}}
SnapOf(res, p)  == Snapshot(KeyOf(res, p), EdgesTo(res, p.deps), EdgesTo(res, p.opts))
FileOf(res, extra, foreign) ==
  File(EdgesTo(res, res.root), Entries(res.tree), {SnapOf(res, p) : p \in res.tree}, extra, foreign)
Steady(res) ==
  OneVersion(res) /\ NoAlias(res) /\ Settled(res) /\ Alike(res) /\ \A p \in res.tree : Placed(p)

(* Copies of a package are alike, but for their paths.                      *)
LEMMA CopiesAreAlike ==
  ASSUME NEW res, Steady(res), NEW p \in res.tree, NEW q \in res.tree, p.name = q.name
  PROVE  /\ p.version = q.version /\ p.deps = q.deps /\ p.opts = q.opts /\ p.peers = q.peers
         /\ p.hasBin = q.hasBin /\ p.host = q.host
         /\ KeyOf(res, p) = KeyOf(res, q) /\ EdgeTo(res, p) = EdgeTo(res, q)
         /\ SnapOf(res, p) = SnapOf(res, q) /\ Entry(p) = Entry(q)
         /\ \A names : Bare(p, names) = Bare(q, names)
<1>1. p = [q EXCEPT !.path = p.path]
  BY DEF Steady, Alike, OneVersion
<1>2. q = Package(q.name, q.version, q.path, q.deps, q.opts, q.peers, q.bin, q.host, q.libc)
  BY DEF Steady, Placed
<1>3. p = Package(q.name, q.version, p.path, q.deps, q.opts, q.peers, q.bin, q.host, q.libc)
  BY <1>1, <1>2 DEF Package
<1>4. /\ p.version = q.version /\ p.deps = q.deps /\ p.opts = q.opts /\ p.peers = q.peers
      /\ p.hasBin = q.hasBin /\ p.host = q.host
  BY <1>2, <1>3 DEF Package
<1>5. KeyOf(res, p) = KeyOf(res, q)
  BY <1>4 DEF KeyOf
<1> QED BY <1>4, <1>5 DEF SnapOf, Entry, Bare, EdgeTo

(* The package of a name is there.                                          *)
LEMMA NamedIsThere ==
  ASSUME NEW res, NEW n \in PlacedNames(res)
  PROVE  Named(res, n) \in res.tree /\ Named(res, n).name = n
BY DEF Named, PlacedNames

(* Whichever copies LockfileToPnpm sees, and in whatever order, the peer    *)
(* contexts are those of the tree; and so they are of what is read back.    *)
LEMMA ContextsAgree ==
  ASSUME NEW res, Steady(res), NEW order \in Orders, NEW by \in ByName(Loaded(res.root, res.tree, NoExtra))
  PROVE  /\ DOMAIN by = PlacedNames(res)
         /\ [n \in DOMAIN by |-> Bare(by[n], DOMAIN by)] = Bared(res)
         /\ PeerSuffixes(by, order) = Contexts(res)
         /\ PeerSuffixes(Bared(res), order) = Contexts(res)
<1>1. /\ DOMAIN by = PlacedNames(res)
      /\ \A n \in PlacedNames(res) : by[n] \in res.tree /\ by[n].name = n
  BY DEF ByName, Loaded, PlacedNames
<1>2. \A n \in PlacedNames(res) : Bare(by[n], PlacedNames(res)) = Bare(Named(res, n), PlacedNames(res))
  <2> SUFFICES ASSUME NEW n \in PlacedNames(res)
               PROVE  Bare(by[n], PlacedNames(res)) = Bare(Named(res, n), PlacedNames(res))
    OBVIOUS
  <2>1. by[n] \in res.tree /\ Named(res, n) \in res.tree /\ by[n].name = Named(res, n).name
    BY <1>1, NamedIsThere
  <2> QED BY <2>1, CopiesAreAlike
<1>3. [n \in DOMAIN by |-> Bare(by[n], DOMAIN by)] = Bared(res)
  BY <1>1, <1>2 DEF Bared
<1>4. \A one, other \in Orders : PeerSuffixes(by, one) = PeerSuffixes(Bared(res), other)
  BY <1>3 DEF Steady, Settled
<1>5. (CHOOSE o \in Orders : TRUE) \in Orders
  OBVIOUS
<1> QED BY <1>1, <1>3, <1>4, <1>5 DEF Contexts

(* One copy can be chosen for every name.                                   *)
LEMMA SomeByName ==
  ASSUME NEW res, NEW extra
  PROVE  /\ ByName(Loaded(res.root, res.tree, extra)) = ByName(Loaded(res.root, res.tree, NoExtra))
         /\ \E by : by \in ByName(Loaded(res.root, res.tree, NoExtra))
<1>1. \A e : Loaded(res.root, res.tree, e).packages = res.tree
  BY DEF Loaded
<1>2. [n \in PlacedNames(res) |-> Named(res, n)] \in ByName(Loaded(res.root, res.tree, NoExtra))
  BY <1>1, NamedIsThere DEF ByName, PlacedNames
<1> QED BY <1>1, <1>2 DEF ByName

(* gnpm writes the file of the tree,                                        *)
LEMMA WritesFileOf ==
  ASSUME NEW res, Steady(res), NEW order \in Orders, NEW extra,
         NEW by \in ByName(Loaded(res.root, res.tree, NoExtra))
  PROVE  WritePnpm(Loaded(res.root, res.tree, extra), by, order) = FileOf(res, extra, NoExtra)
<1> DEFINE lf == Loaded(res.root, res.tree, extra)
           Edges(ns) == {Edge(n, <<n, by[n].version, Contexts(res)[n]>>) : n \in ns \cap DOMAIN by}
<1>1. lf.root = res.root /\ lf.packages = res.tree /\ lf.extra = extra
  BY DEF Loaded
<1>2. DOMAIN by = PlacedNames(res) /\ PeerSuffixes(by, order) = Contexts(res)
  BY ContextsAgree
<1>3. \A n \in PlacedNames(res) : by[n] \in res.tree /\ by[n].name = n
  BY DEF ByName, Loaded, PlacedNames
<1>4. ASSUME NEW ns PROVE Edges(ns) = EdgesTo(res, ns)
  <2>1. ASSUME NEW n \in ns \cap DOMAIN by
        PROVE  Edge(n, <<n, by[n].version, Contexts(res)[n]>>) \in EdgesTo(res, ns)
    <3>1. EdgeTo(res, by[n]) = Edge(n, <<n, by[n].version, Contexts(res)[n]>>)
      BY <1>2, <1>3, <2>1 DEF EdgeTo, KeyOf
    <3> QED BY <1>2, <1>3, <2>1, <3>1 DEF EdgesTo
  <2>2. ASSUME NEW q \in res.tree, q.name \in ns PROVE EdgeTo(res, q) \in Edges(ns)
    <3>1. q.name \in ns \cap DOMAIN by /\ by[q.name] \in res.tree /\ by[q.name].name = q.name
      BY <1>2, <1>3, <2>2 DEF PlacedNames
    <3>2. by[q.name].version = q.version
      BY <3>1, CopiesAreAlike
    <3> QED BY <3>1, <3>2 DEF EdgeTo, KeyOf
  <2> QED BY <2>1, <2>2 DEF EdgesTo
<1>5. WritePnpm(lf, by, order) =
        File(Edges(lf.root), Entries(lf.packages),
             {Snapshot(<<p.name, p.version, Contexts(res)[p.name]>>, Edges(p.deps), Edges(p.opts))
                : p \in lf.packages},
             lf.extra, NoExtra)
  BY <1>2 DEF WritePnpm, Entries
<1> HIDE DEF Edges, lf
<1>6. {Snapshot(<<p.name, p.version, Contexts(res)[p.name]>>, Edges(p.deps), Edges(p.opts)) : p \in res.tree}
        = {SnapOf(res, p) : p \in res.tree}
  BY <1>4 DEF SnapOf, KeyOf
<1> QED BY <1>1, <1>4, <1>5, <1>6 DEF FileOf, lf

(* and so does pnpm.                                                        *)
LEMMA OwnIsFileOf ==
  ASSUME NEW res, Steady(res), NEW order \in Orders, NEW extra, NEW foreign
  PROVE  PnpmOwn(res, extra, foreign, order) = FileOf(res, extra, foreign)
<1> DEFINE lf == Loaded(res.root, res.tree, extra)
           by0 == CHOOSE by \in ByName(lf) : TRUE
           Part(path, n) == {Edge(n, KeyOf(res, p)) : p \in InReach(res, path, n)}
           Edges(path, ns) == UNION {Part(path, n) : n \in ns}
<1>1. by0 \in ByName(Loaded(res.root, res.tree, NoExtra))
  BY SomeByName
<1> HIDE DEF by0
<1>2. PeerSuffixes(by0, order) = Contexts(res)
  BY <1>1, ContextsAgree
<1>3. ASSUME NEW path, NEW n, NEW p \in InReach(res, path, n)
      PROVE  p \in res.tree /\ p.name = n
  <2>1. PICK k \in 0..Len(path) : p.path = Append(SubSeq(path, 1, k), n) /\ p \in res.tree
    BY DEF InReach
  <2>2. p.name = NameOf(p.path)
    BY <2>1 DEF Steady, NoAlias
  <2>3. NameOf(Append(SubSeq(path, 1, k), n)) = n
    BY DEF NameOf
  <2> QED BY <2>1, <2>2, <2>3
<1>4. ASSUME NEW path, NEW ns, \A n \in ns \cap PlacedNames(res) : InReach(res, path, n) # {}
      PROVE  Edges(path, ns) = EdgesTo(res, ns)
  <2>1. ASSUME NEW n \in ns, NEW e \in Part(path, n) PROVE e \in EdgesTo(res, ns)
    <3>1. PICK p \in InReach(res, path, n) : e = Edge(n, KeyOf(res, p))
      BY <2>1
    <3> QED BY <1>3, <2>1, <3>1 DEF EdgesTo, EdgeTo
  <2>2. ASSUME NEW q \in res.tree, q.name \in ns PROVE EdgeTo(res, q) \in Part(path, q.name)
    <3>1. PICK p : p \in InReach(res, path, q.name)
      BY <1>4, <2>2 DEF PlacedNames
    <3>2. p \in res.tree /\ p.name = q.name
      BY <1>3, <3>1
    <3>3. EdgeTo(res, p) = EdgeTo(res, q)
      BY <3>2, CopiesAreAlike
    <3> QED BY <3>1, <3>2, <3>3 DEF EdgeTo
  <2> HIDE DEF Part
  <2> QED BY <2>1, <2>2 DEF EdgesTo
<1>5. PnpmOwn(res, extra, foreign, order) =
        File(Edges(<<>>, res.root), Entries(res.tree),
             {Snapshot(KeyOf(res, p), Edges(p.path, p.deps), Edges(p.path, p.opts)) : p \in res.tree},
             extra, foreign)
  <2> DEFINE Key(p) == <<p.name, p.version, PeerSuffixes(by0, order)[p.name]>>
             Bit(path, n) == {Edge(n, Key(p)) : p \in InReach(res, path, n)}
             Own(path, ns) == UNION {Bit(path, n) : n \in ns}
  <2>1. PnpmOwn(res, extra, foreign, order) =
          File(Own(<<>>, res.root), Entries(res.tree),
               {Snapshot(Key(p), Own(p.path, p.deps), Own(p.path, p.opts)) : p \in res.tree},
               extra, foreign)
    BY DEF PnpmOwn, Entries, by0
  <2>2. \A p : Key(p) = KeyOf(res, p)
    BY <1>2 DEF KeyOf
  <2> HIDE DEF Key
  <2>3. \A path, n : Bit(path, n) = Part(path, n)
    BY <2>2
  <2> HIDE DEF Bit, Part
  <2>4. \A path, ns : Own(path, ns) = Edges(path, ns)
    BY <2>3
  <2> HIDE DEF Own, Edges
  <2>5. {Snapshot(Key(p), Own(p.path, p.deps), Own(p.path, p.opts)) : p \in res.tree}
          = {Snapshot(KeyOf(res, p), Edges(p.path, p.deps), Edges(p.path, p.opts)) : p \in res.tree}
    BY <2>2, <2>4
  <2> QED BY <2>1, <2>4, <2>5
<1> HIDE DEF Edges
<1>6. Edges(<<>>, res.root) = EdgesTo(res, res.root)
  BY <1>4 DEF Steady, Settled
<1>7. ASSUME NEW p \in res.tree
      PROVE  Edges(p.path, p.deps) = EdgesTo(res, p.deps) /\ Edges(p.path, p.opts) = EdgesTo(res, p.opts)
  BY <1>4 DEF Steady, Settled
<1>8. {Snapshot(KeyOf(res, p), Edges(p.path, p.deps), Edges(p.path, p.opts)) : p \in res.tree}
        = {SnapOf(res, p) : p \in res.tree}
  BY <1>7 DEF SnapOf
<1> QED BY <1>5, <1>6, <1>8 DEF FileOf

(* What is read back from the file of a tree makes that file again, less    *)
(* what gnpm has no place for.                                              *)
LEMMA FileOfIsStable ==
  ASSUME NEW res, Steady(res), NEW extra, NEW foreign, NEW order \in Orders,
         NEW by \in ByName(ReadPnpm(FileOf(res, extra, foreign)))
  PROVE  WritePnpm(ReadPnpm(FileOf(res, extra, foreign)), by, order) = FileOf(res, extra, NoExtra)
<1> DEFINE file == FileOf(res, extra, foreign)
           names == PlacedNames(res)
           back == ReadPnpm(file)
           Snap(e) == CHOOSE s \in file.snapshots : s.key[1] = e.name /\ s.key[2] = e.version
           Back(e) == [Package(e.name, e.version, <<>>, Names(Snap(e).deps), Names(Snap(e).opts),
                               e.peers, FALSE, e.host, TRUE) EXCEPT !.hasBin = e.hasBin]
           Edges(ns) == {Edge(n, <<n, by[n].version, Contexts(res)[n]>>) : n \in ns \cap DOMAIN by}
<1>1. /\ file.root = EdgesTo(res, res.root) /\ file.packages = Entries(res.tree)
      /\ file.snapshots = {SnapOf(res, p) : p \in res.tree} /\ file.extra = extra
  BY DEF FileOf, File
<1>2. ASSUME NEW ns PROVE Names(EdgesTo(res, ns)) = ns \cap names
  <2>1. \A p : EdgeTo(res, p).name = p.name
    BY DEF EdgeTo, Edge
  <2>2. Names(EdgesTo(res, ns)) = {EdgeTo(res, p).name : p \in {q \in res.tree : q.name \in ns}}
    BY DEF Names, EdgesTo
  <2> QED BY <2>1, <2>2 DEF PlacedNames
<1>3. \A p \in res.tree : /\ SnapOf(res, p).key = KeyOf(res, p)
                          /\ SnapOf(res, p).deps = EdgesTo(res, p.deps) /\ SnapOf(res, p).opts = EdgesTo(res, p.opts)
                          /\ KeyOf(res, p)[1] = p.name /\ KeyOf(res, p)[2] = p.version
  BY DEF SnapOf, Snapshot, KeyOf
<1>4. \A p \in res.tree : /\ Entry(p).name = p.name /\ Entry(p).version = p.version /\ Entry(p).peers = p.peers
                          /\ Entry(p).hasBin = p.hasBin /\ Entry(p).host = p.host
  BY DEF Entry
<1> HIDE DEF file
<1>5. ASSUME NEW p \in res.tree
      PROVE  Snap(Entry(p)) = SnapOf(res, p)
  <2>1. SnapOf(res, p) \in file.snapshots /\ SnapOf(res, p).key[1] = p.name /\ SnapOf(res, p).key[2] = p.version
    BY <1>1, <1>3
  <2>2. PICK q \in res.tree : Snap(Entry(p)) = SnapOf(res, q) /\ SnapOf(res, q).key[1] = p.name
    BY <1>1, <1>4, <2>1
  <2>3. q.name = p.name
    BY <1>3, <2>2
  <2> QED BY <2>2, <2>3, CopiesAreAlike
<1>6. /\ back.root = Names(file.root) /\ back.extra = extra
      /\ back.packages = {Back(e) : e \in file.packages}
  BY <1>1 DEF ReadPnpm, Loaded, Passthrough
<1>7. ASSUME NEW p \in res.tree
      PROVE  Back(Entry(p)) = Bare(p, names)
  <2>1. Names(Snap(Entry(p)).deps) = p.deps \cap names /\ Names(Snap(Entry(p)).opts) = p.opts \cap names
    BY <1>2, <1>3, <1>5
  <2> HIDE DEF Snap, names
  <2> QED BY <1>4, <2>1 DEF Bare
<1> HIDE DEF Snap, Back, names
<1>8. back.packages = {Bare(p, names) : p \in res.tree}
  BY <1>1, <1>6, <1>7 DEF Entries
<1>9. back.root = res.root \cap names
  BY <1>1, <1>2, <1>6
<1>10. \A p : /\ Bare(p, names).name = p.name /\ Bare(p, names).version = p.version
              /\ Bare(p, names).deps = p.deps \cap names /\ Bare(p, names).opts = p.opts \cap names
              /\ Entry(Bare(p, names)) = Entry(p)
  BY DEF Bare, Package, Entry
<1> HIDE DEF back
<1>11. DOMAIN by = names /\ \A n \in names : by[n] \in back.packages /\ by[n].name = n
  <2>1. {p.name : p \in back.packages} = names
    <3>1. {p.name : p \in back.packages} = {Bare(p, names).name : p \in res.tree}
      BY <1>8
    <3> QED BY <1>10, <3>1 DEF PlacedNames, names
  <2>2. by \in [{p.name : p \in back.packages} -> back.packages] /\ \A n \in DOMAIN by : by[n].name = n
    BY DEF ByName, back, file
  <2> QED BY <2>1, <2>2
<1>12. ASSUME NEW n \in names PROVE by[n] = Bare(Named(res, n), names)
  <2>1. PICK p \in res.tree : by[n] = Bare(p, names)
    BY <1>8, <1>11
  <2>2. p.name = n /\ Named(res, n) \in res.tree /\ Named(res, n).name = n
    BY <1>10, <1>11, <2>1, NamedIsThere DEF names
  <2> QED BY <2>1, <2>2, CopiesAreAlike
<1>13. by = Bared(res)
  <2>1. by \in [names -> back.packages]
    BY <1>11 DEF ByName, back, file
  <2> QED BY <1>12, <2>1 DEF Bared, names
<1>14. PeerSuffixes(by, order) = Contexts(res)
  BY <1>13, SomeByName, ContextsAgree
<1>15. ASSUME NEW ns PROVE Edges(ns) = EdgesTo(res, ns) /\ Edges(ns \cap names) = EdgesTo(res, ns)
  <2>1. \A n \in names : by[n].version = Named(res, n).version
    BY <1>10, <1>12
  <2>2. ASSUME NEW n \in ns \cap names
        PROVE  Edge(n, <<n, by[n].version, Contexts(res)[n]>>) \in EdgesTo(res, ns)
    <3>1. EdgeTo(res, Named(res, n)) = Edge(n, <<n, by[n].version, Contexts(res)[n]>>)
      BY <2>1, <2>2, NamedIsThere DEF EdgeTo, KeyOf, names
    <3> QED BY <2>2, <3>1, NamedIsThere DEF EdgesTo, names
  <2>3. ASSUME NEW q \in res.tree, q.name \in ns PROVE EdgeTo(res, q) \in Edges(ns)
    <3>1. q.name \in names /\ Named(res, q.name) \in res.tree /\ Named(res, q.name).name = q.name
      BY NamedIsThere DEF PlacedNames, names
    <3>2. q.version = Named(res, q.name).version
      BY <3>1, CopiesAreAlike
    <3> QED BY <1>11, <2>1, <2>3, <3>1, <3>2 DEF EdgeTo, KeyOf
  <2>4. Edges(ns) = EdgesTo(res, ns)
    BY <1>11, <2>2, <2>3 DEF EdgesTo
  <2> QED BY <1>11, <2>4
<1>16. WritePnpm(back, by, order) =
        File(Edges(back.root), Entries(back.packages),
             {Snapshot(<<p.name, p.version, Contexts(res)[p.name]>>, Edges(p.deps), Edges(p.opts))
                : p \in back.packages},
             back.extra, NoExtra)
  BY <1>14 DEF WritePnpm, Entries
<1> HIDE DEF Edges
<1>17. Entries(back.packages) = Entries(res.tree)
  BY <1>8, <1>10 DEF Entries
<1>18. {Snapshot(<<p.name, p.version, Contexts(res)[p.name]>>, Edges(p.deps), Edges(p.opts)) : p \in back.packages}
         = {SnapOf(res, p) : p \in res.tree}
  <2> DEFINE Again(p) == Snapshot(<<p.name, p.version, Contexts(res)[p.name]>>, Edges(p.deps), Edges(p.opts))
  <2>1. \A p \in res.tree : Again(Bare(p, names)) = SnapOf(res, p)
    BY <1>10, <1>15 DEF SnapOf, KeyOf
  <2> HIDE DEF Again
  <2>2. {Again(p) : p \in back.packages} = {SnapOf(res, p) : p \in res.tree}
    BY <1>8, <2>1
  <2> QED BY <2>2 DEF Again
<1> QED BY <1>6, <1>9, <1>15, <1>16, <1>17, <1>18 DEF FileOf, back, file

(* A steady tree has its file, and a lockfile is rewritten only where the   *)
(* tree that it was written for is not steady.                              *)
FileInv ==
  /\ RoundsInv
  /\ mode = "pnpm" /\ meant \in Resolutions /\ Steady(meant) =>
       \E extra, foreign : /\ stored = FileOf(meant, extra, foreign)
                           /\ writer # "other" => foreign = NoExtra
  /\ mode = "pnpm" /\ meant \notin Resolutions => stored = NoFile
  /\ last = "rewritten" => mode = "pnpm" /\ meant \in Resolutions /\ ~Steady(meant)

(* The empty file is the file of the empty tree.                            *)
LEMMA FileInvFirst == RoundsInit => FileInv
<1> SUFFICES ASSUME RoundsInit PROVE FileInv
  OBVIOUS
<1>1. stored = NoFile /\ meant = NoTree /\ last = "none" /\ writer = "none"
  BY DEF RoundsInit
<1>2. FileOf(NoTree, NoExtra, NoExtra) = NoFile
  <2>1. NoTree.tree = {} /\ NoTree.root = {}
    BY DEF NoTree
  <2>2. /\ EdgesTo(NoTree, NoTree.root) = {} /\ Entries(NoTree.tree) = {}
        /\ {SnapOf(NoTree, p) : p \in NoTree.tree} = {}
    BY <2>1 DEF EdgesTo, Entries
  <2> QED BY <2>2 DEF FileOf, NoFile
<1>3. \E extra, foreign : stored = FileOf(meant, extra, foreign) /\ foreign = NoExtra
  BY <1>1, <1>2
<1> QED BY <1>1, <1>3, RoundsInvFirst DEF FileInv

(* A steady tree gets the same file from a full install and from pnpm, and  *)
(* an install from the lockfile writes that file again.                     *)
LEMMA FileInvKept == FileInv /\ RoundsInv' /\ [RoundsNext]_roundVars => FileInv'
<1> SUFFICES ASSUME FileInv, RoundsInv', [RoundsNext]_roundVars PROVE FileInv'
  OBVIOUS
<1>2. ASSUME NEW root \in Roots, EditRoot(root) PROVE FileInv'
  BY <1>2 DEF EditRoot, FileInv
<1>3. CASE UNCHANGED roundVars
  BY <1>3 DEF roundVars, FileInv
<1>4. ASSUME NEW res \in Resolutions, FullInstall(res) PROVE FileInv'
  <2>1. /\ mode' = mode /\ meant' = res /\ last' = "full" /\ writer' = "gnpm"
        /\ WriteFile(Loaded(res.root, res.tree, NoExtra))
    BY <1>4 DEF FullInstall
  <2>2. ASSUME mode = "pnpm", Steady(res) PROVE stored' = FileOf(res, NoExtra, NoExtra)
    <3>1. PICK by \in ByName(Loaded(res.root, res.tree, NoExtra)), order \in Orders :
            stored' = WritePnpm(Loaded(res.root, res.tree, NoExtra), by, order)
      BY <2>1, <2>2 DEF WriteFile
    <3> QED BY <2>2, <3>1, WritesFileOf
  <2> QED BY <2>1, <2>2 DEF FileInv
<1>5. ASSUME NEW res \in Resolutions, NEW extra \in Extras, NEW foreign \in Foreigns,
             OtherTool(res, extra, foreign)
      PROVE  FileInv'
  <2>1. mode' = mode /\ meant' = res /\ last' = "other tool" /\ writer' = "other"
    BY <1>5 DEF OtherTool
  <2>2. ASSUME mode = "pnpm", Steady(res) PROVE stored' = FileOf(res, extra, foreign)
    <3>1. PICK order \in Orders : stored' = PnpmOwn(res, extra, foreign, order)
      BY <1>5, <2>2 DEF OtherTool
    <3> QED BY <2>2, <3>1, OwnIsFileOf
  <2> QED BY <2>1, <2>2 DEF FileInv
<1>6. CASE LockedInstall
  <2>1. /\ mode' = mode /\ meant' = meant /\ WriteFile(ReadFile) /\ stored # NoFile /\ writer' = "gnpm"
        /\ last' = IF stored' = stored THEN "same"
                   ELSE IF writer = "other" /\ stored' = Stripped(stored) THEN "stripped"
                   ELSE "rewritten"
    BY <1>6 DEF LockedInstall, Mirrors
  <2>2. mode \in {"npm", "pnpm"} /\ RoundsInv
    BY DEF FileInv, RoundsInv
  <2>3. CASE mode = "npm"
    <3>1. stored' = Stripped(stored) /\ (writer # "other" => stored' = stored)
      BY <1>6, <2>2, <2>3, LockedNpmKeeps
    <3> QED BY <2>1, <2>3, <3>1 DEF FileInv
  <2>4. CASE mode = "pnpm"
    <3>1. meant \in Resolutions
      BY <2>1, <2>4 DEF FileInv
    <3>2. ASSUME Steady(meant)
          PROVE  /\ \E extra : stored' = FileOf(meant, extra, NoExtra)
                 /\ stored' = Stripped(stored) /\ (writer # "other" => stored' = stored)
      <4>1. PICK extra, foreign : /\ stored = FileOf(meant, extra, foreign)
                                  /\ writer # "other" => foreign = NoExtra
        BY <2>4, <3>1, <3>2 DEF FileInv
      <4>2. PICK by \in ByName(ReadPnpm(stored)), order \in Orders :
              stored' = WritePnpm(ReadPnpm(stored), by, order)
        BY <2>1, <2>4 DEF WriteFile, ReadFile
      <4>3. stored' = FileOf(meant, extra, NoExtra)
        BY <3>2, <4>1, <4>2, FileOfIsStable
      <4>4. Stripped(stored) = FileOf(meant, extra, NoExtra)
        BY <2>4, <4>1 DEF Stripped, FileOf, File
      <4> QED BY <4>1, <4>3, <4>4
    <3> QED BY <2>1, <2>4, <3>1, <3>2 DEF FileInv
  <2> QED BY <2>2, <2>3, <2>4
<1> QED BY <1>2, <1>3, <1>4, <1>5, <1>6 DEF RoundsNext

(* FileInv holds in all rounds.                                             *)
LEMMA FileInvHolds == Rounds => []FileInv
BY FileInvFirst, FileInvKept, RoundsInvHolds, PTL DEF Rounds

(* Reading a lockfile and writing it back leaves it as it is, less what     *)
(* only another tool writes and gnpm has no place for: in npm mode whatever *)
(* the tree, and in pnpm mode where a name has one version and is no alias  *)
(* and no packages need each other in a ring (convert.go, detect.go), for   *)
(* every set of resolutions whose peer contexts settle.                     *)
THEOREM RewritesChangeNothing == ContextsSettle => (Rounds => []RewriteIsStable)
<1> SUFFICES ASSUME ContextsSettle PROVE Rounds => []RewriteIsStable
  OBVIOUS
<1>1. FileInv => RewriteIsStable
  BY PlacedAssumption DEF ContextsSettle, Simple, Steady, FileInv, RewriteIsStable
<1> QED BY <1>1, FileInvHolds, PTL
================================================================================
