------------------------------- MODULE GitCache -------------------------------
(***************************************************************************)
(* The git cache in ~/.gnpm (fetchExotic, ensureGitClone and gitClone of   *)
(* internal/installer), which all installs on a machine share: one clone   *)
(* per checkout of a repository, in a directory that is taken to be good   *)
(* when it exists.  A clone, its checkout and what is read of it are       *)
(* separate calls of git; installs interleave between them, fail, and may  *)
(* be killed, and meanwhile branches move.                                 *)
(*                                                                         *)
(* There is one repository.  A directory is absent, part of a clone, or a  *)
(* clone at some commit, with the branches as they were when it was made.  *)
(***************************************************************************)
EXTENDS FiniteSets, Naturals

CONSTANTS
  Installs,
  Commits, Branches,
  Main,         \* the default branch
  Fetches,      \* some installs -> what each asks for: [ref, locked, full], where one
                \* that is not full follows the lockfile
  NoRef, NoLock, NoCommit,
  MaxMoves      \* bound: pushes to the repository

ASSUME GitAssumption ==
  /\ Main \in Branches
  /\ NoRef \notin Commits \cup Branches /\ Commits \cap Branches = {}
  /\ NoLock \notin Commits /\ NoCommit \notin Commits
  /\ \A f \in Fetches : DOMAIN f \subseteq Installs
  /\ \A f \in Fetches : \A i \in DOMAIN f :
       /\ f[i].ref \in Commits \cup Branches \cup {NoRef} /\ f[i].locked \in Commits \cup {NoLock}
       /\ f[i].full \in BOOLEAN /\ (f[i].full \/ f[i].locked # NoLock)
  /\ MaxMoves \in Nat

VARIABLES
  clone,     \* checkout -> the directory of its clone
  head,      \* branch -> its commit at the repository
  want,      \* install -> what it asks for
  at,      \* install -> where it is
  recorded,  \* install -> the commit it puts in the lockfile
  copied,    \* install -> the commit it copies into node_modules
  killed, shared,  \* checkouts at which a process was killed, or two met
  moves

gitVars == <<clone, head, want, at, recorded, copied, killed, shared, moves>>

(* Bug: the directory is named for what package.json says.                 *)
ByRef(w) == w.ref

(* The directory is named for the commit the lockfile pins, else the ref.  *)
Checkout(w) == IF w.locked # NoLock THEN w.locked ELSE w.ref
Checkouts   == Commits \cup Branches \cup {NoRef}
Key(i)      == Checkout(want[i])

Absent    == [is |-> "absent"]
Part(i)   == [is |-> "part", by |-> i]
Clone(c, refs) == [is |-> "clone", commit |-> c, refs |-> refs]

(* What a checkout means in a clone.                                       *)
Means(k, refs) == IF k \in Commits THEN k ELSE refs[IF k = NoRef THEN Main ELSE k]

Steps   == {"stat", "clone", "cloning", "checkout", "remove", "head", "copy"}
Settled == {"off", "copied", "failed", "killed"}

GitTypeOK ==
  /\ \A k \in Checkouts :
       \/ clone[k] = Absent
       \/ \E i \in DOMAIN want : clone[k] = Part(i)
       \/ clone[k].is = "clone" /\ clone[k].commit \in Commits /\ clone[k].refs \in [Branches -> Commits]
  /\ head \in [Branches -> Commits]
  /\ want \in Fetches
  /\ at \in [DOMAIN want -> Steps \cup Settled]
  /\ recorded \in [DOMAIN want -> Commits \cup {NoCommit}]
  /\ copied \in [DOMAIN want -> Commits \cup {NoCommit}]
  /\ killed \subseteq Checkouts /\ shared \subseteq Checkouts
  /\ moves \in 0..MaxMoves

GitInit ==
  /\ clone = [k \in Checkouts |-> Absent]
  /\ head \in [Branches -> Commits]
  /\ want \in Fetches
  /\ at = [i \in DOMAIN want |-> "off"]
  /\ recorded = [i \in DOMAIN want |-> NoCommit]
  /\ copied = [i \in DOMAIN want |-> NoCommit]
  /\ killed = {} /\ shared = {}
  /\ moves = 0

Go(i, s)     == at' = [at EXCEPT ![i] = s]
Put(i, what) == clone' = [clone EXCEPT ![Key(i)] = what]
Here(i)      == clone[Key(i)]
Frame        == UNCHANGED <<head, want, killed, shared, moves>>

-----------------------------------------------------------------------------
(* Somebody pushes to a branch.                                            *)
Push(b) ==
  /\ moves < MaxMoves
  /\ moves' = moves + 1
  /\ \E c \in Commits \ {head[b]} : head' = [head EXCEPT ![b] = c]
  /\ UNCHANGED <<clone, want, at, recorded, copied, killed, shared>>

(* An install comes to a git dependency.                                   *)
Arrive(i) ==
  /\ at[i] = "off"
  /\ Go(i, "stat")
  /\ shared' = IF \E j \in DOMAIN want \ {i} : at[j] \notin Settled /\ Key(j) = Key(i)
               THEN shared \cup {Key(i)} ELSE shared
  /\ UNCHANGED <<clone, head, want, recorded, copied, killed, moves>>

(* With the directory at hand, an install that resolves asks for its HEAD; *)
(* one that follows the lockfile only copies it.                           *)
Cloned(i) == IF want[i].full THEN "head" ELSE "copy"

Stat(i) ==
  /\ at[i] = "stat"
  /\ Go(i, IF Here(i) = Absent THEN "clone" ELSE Cloned(i))
  /\ UNCHANGED <<clone, recorded, copied>> /\ Frame

(* git clone refuses a directory that is there by now, and may fail at     *)
(* once; else it makes the directory.                                      *)
CloneBegins(i) ==
  /\ at[i] = "clone"
  /\ \/ Here(i) = Absent /\ Put(i, Part(i)) /\ Go(i, "cloning")
     \/ Go(i, "remove") /\ UNCHANGED clone
  /\ UNCHANGED <<recorded, copied>> /\ Frame

(* It is done, and leaves the default branch checked out; or it breaks off,*)
(* as it does when its directory was removed under it.                     *)
CloneEnds(i) ==
  /\ at[i] = "cloning"
  /\ \/ /\ Here(i) = Part(i)
        /\ Put(i, Clone(head[Main], head))
        /\ Go(i, IF Key(i) = NoRef THEN Cloned(i) ELSE "checkout")
     \/ Go(i, "remove") /\ UNCHANGED clone
  /\ UNCHANGED <<recorded, copied>> /\ Frame

(* git checkout takes any clone it finds there.                            *)
CheckOut(i) ==
  /\ at[i] = "checkout"
  /\ \/ /\ Here(i).is = "clone"
        /\ Put(i, Clone(Means(Key(i), Here(i).refs), Here(i).refs))
        /\ Go(i, Cloned(i))
     \/ Go(i, "remove") /\ UNCHANGED clone
  /\ UNCHANGED <<recorded, copied>> /\ Frame

(* Bug: a failed clone or checkout leaves its directory behind.            *)
RemoveNothing(i) ==
  /\ at[i] = "remove"
  /\ Go(i, "failed")
  /\ UNCHANGED <<clone, recorded, copied>> /\ Frame

(* What is there is removed, whoever made it.                              *)
Remove(i) ==
  /\ at[i] = "remove"
  /\ Put(i, Absent)
  /\ Go(i, "failed")
  /\ UNCHANGED <<recorded, copied>> /\ Frame

(* git rev-parse HEAD, and the commit goes into the lockfile.  Near its    *)
(* end a clone in progress has its HEAD too.                               *)
Head(i) ==
  /\ at[i] = "head"
  /\ \/ /\ Here(i) # Absent
        /\ recorded' = [recorded EXCEPT ![i] =
             IF Here(i).is = "clone" THEN Here(i).commit ELSE head[Main]]
        /\ Go(i, "copy")
     \/ Here(i).is # "clone" /\ Go(i, "failed") /\ UNCHANGED recorded
  /\ UNCHANGED <<clone, copied>> /\ Frame

(* The files, without .git, are copied into node_modules.                  *)
Copy(i) ==
  /\ at[i] = "copy"
  /\ IF Here(i) = Absent
     THEN Go(i, "failed") /\ UNCHANGED copied
     ELSE /\ Go(i, "copied")
          /\ copied' = [copied EXCEPT ![i] =
               IF Here(i).is = "clone" THEN Here(i).commit ELSE NoCommit]
  /\ UNCHANGED <<clone, recorded>> /\ Frame

(* The process is killed: nothing is cleaned up.                           *)
KillGit(i) ==
  /\ at[i] \in Steps
  /\ Go(i, "killed")
  /\ killed' = killed \cup {Key(i)}
  /\ UNCHANGED <<clone, head, want, recorded, copied, shared, moves>>

Follow(i) ==
  \/ Arrive(i) \/ Stat(i) \/ CloneBegins(i) \/ CloneEnds(i) \/ CheckOut(i) \/ Remove(i)
  \/ Head(i) \/ Copy(i)

GitNext == (\E i \in DOMAIN want : Follow(i) \/ KillGit(i)) \/ \E b \in Branches : Push(b)

GitSpec == GitInit /\ [][GitNext]_gitVars

-----------------------------------------------------------------------------
(* A failed fetch does not poison the cache: once every install of a       *)
(* checkout has ended, however they met and failed, the cache holds nothing*)
(* for it or what was asked for, as long as no process was killed in it    *)
(* (gitClone).                                                             *)
CacheIsGood ==
  \A k \in Checkouts \ killed :
    (\A i \in DOMAIN want : Key(i) = k => at[i] \in Settled) =>
      clone[k] = Absent \/ (clone[k].is = "clone" /\ clone[k].commit = Means(k, clone[k].refs))

(* An install copies the commit that the lockfile pins, or that it records *)
(* there itself, whatever was fetched before and failed; but not when two  *)
(* were at the checkout at once, or one was killed in it (fetchExotic,     *)
(* ensureGitClone).                                                        *)
CopiesWhatIsPinned ==
  \A i \in DOMAIN want :
    at[i] = "copied" /\ Key(i) \notin killed \cup shared =>
      /\ want[i].locked # NoLock => copied[i] = want[i].locked
      /\ want[i].full => copied[i] = recorded[i]
===============================================================================
