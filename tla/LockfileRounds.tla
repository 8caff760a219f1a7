----------------------------- MODULE LockfileRounds ----------------------------
(* What the lockfile carries from one install to the next: the conversions  *)
(* of internal/lockfile (npm.go, pnpm.go, convert.go), the write that skips *)
(* an unchanged file (detect.go), and the two ways an install uses them     *)
(* (installer.go, locked.go).  A full install records what was resolved; an *)
(* install whose package.json the lockfile mirrors reads the file, links    *)
(* from it alone and writes it back.                                        *)
(*                                                                          *)
(* A resolution, the result of the tree resolver with the fetched metadata, *)
(* is a set of placed packages.  A path is a sequence of names, <<"a">> at  *)
(* the top and <<"a", "x">> for a copy of x under a.  The integrity, the    *)
(* tarball URL and the other metadata that both formats carry go with the   *)
(* name and version.  Edges are to names; what they say is a range where    *)
(* they come from a packument and a snapshot key once a pnpm file is read.  *)
(* A file is its content: the layout, which the code compares byte by byte  *)
(* and which differs between the tools, is left out.                        *)
EXTENDS Naturals, Sequences, FiniteSets

CONSTANTS Resolutions,  \* [root: the direct dependencies, tree: the placed packages]
          Extras,       \* content that gnpm does not model but keeps, NoExtra for none
          Foreigns,     \* content that gnpm has no place for, NoExtra for none
          NoExtra,
          Orders,       \* orders in which Go walks a map of names
          PeerSuffixes(_, _)  \* the peer context of each name (PeerContexts)

File(root, packages, snapshots, extra, foreign) ==
  [root |-> root, packages |-> packages, snapshots |-> snapshots, extra |-> extra, foreign |-> foreign]
NoFile == File({}, {}, {}, NoExtra, NoExtra)

VARIABLES mode,      \* project.Mode
          declared,  \* the direct dependencies that package.json names
          stored,    \* the lockfile, NoFile when there is none
          linked,    \* the link specs of the last install
          meant,     \* history: the resolution that the lockfile was written for
          writer,    \* history: who wrote the lockfile, "gnpm" or "other", "none" before
          last       \* history: what happened last
roundVars == <<mode, declared, stored, linked, meant, writer, last>>
--------------------------------------------------------------------------------
(* The lockfile in memory (schema.go).  The path is empty once a pnpm file  *)
(* has been read; scripts and bins are known from a packument or from npm's *)
(* file only, and hasBin says no more than that there is one.  host says    *)
(* that the os and cpu lists admit this machine, libc that the list of C    *)
(* libraries does: a packument has it, a locked package has not.            *)
Package(name, version, path, deps, opts, peers, bin, host, libc) ==
  [name |-> name, version |-> version, path |-> path, deps |-> deps, opts |-> opts,
   peers |-> peers, hasBin |-> bin, bin |-> bin, host |-> host, libc |-> libc]
Loaded(root, packages, extra) == [root |-> root, packages |-> packages, extra |-> extra]

(* What the resolver places has a path, and copies of one version of a      *)
(* package differ in nothing else (infos is keyed by name@version).         *)
Placed(p) ==
  /\ p = Package(p.name, p.version, p.path, p.deps, p.opts, p.peers, p.bin, p.host, p.libc)
  /\ p.path # <<>>
Alike(res) ==
  \A p, q \in res.tree : p.name = q.name /\ p.version = q.version => p = [q EXCEPT !.path = p.path]
ASSUME PlacedAssumption == \A res \in Resolutions : Alike(res) /\ \A p \in res.tree : Placed(p)

(* package-lock.json: every package under its path.  gnpm writes neither    *)
(* the name nor the C library, npm does: the name beside an alias, which is *)
(* the only one that is not the last of the path.  gnpm reads such a name.  *)
NameOf(path) == path[Len(path)]
As(name, p)  == Package(name, p.version, p.path, p.deps, p.opts, p.peers, p.bin, p.host, TRUE)
AnyLibc(packages) == {As(p.name, p) : p \in packages}
AtPath(packages)  == {As(NameOf(p.path), p) : p \in packages}
NpmFile(root, packages, foreign) == File(root, packages, {}, NoExtra, foreign)
(* Bug: one entry per name, so nested copies go.                            *)
WriteNpmFlat(loaded) ==
  NpmFile(loaded.root, AtPath({p \in loaded.packages : Len(p.path) = 1}), NoExtra)
WriteNpm(loaded) == NpmFile(loaded.root, AtPath(loaded.packages), NoExtra)
ReadNpm(file)    == Loaded(file.root, AnyLibc(file.packages), NoExtra)
--------------------------------------------------------------------------------
(* LockfileToPnpm.  versionByName and byName are filled in the order of a   *)
(* map, so by is any choice of one package per name.                        *)
ByName(loaded) ==
  {by \in [{p.name : p \in loaded.packages} -> loaded.packages] : \A n \in DOMAIN by : by[n].name = n}

(* An edge, of an importer or of a snapshot, is a name and the snapshot key *)
(* that it leads to.                                                        *)
Edge(n, key) == [name |-> n, to |-> key]
(* Bug: a snapshot is keyed without its peer context.                       *)
SnapshotBare(key, deps, opts) == [key |-> <<key[1], key[2], {}>>, deps |-> deps, opts |-> opts]
Snapshot(key, deps, opts) == [key |-> key, deps |-> deps, opts |-> opts]
Entry(p) == [name |-> p.name, version |-> p.version, peers |-> p.peers,
             hasBin |-> p.hasBin, host |-> p.host]

WritePnpm(loaded, by, order) ==
  LET suffix    == PeerSuffixes(by, order)
      Edges(ns) == {Edge(n, <<n, by[n].version, suffix[n]>>) : n \in ns \cap DOMAIN by}
  IN File(Edges(loaded.root),
          {Entry(p) : p \in loaded.packages},
          {Snapshot(<<p.name, p.version, suffix[p.name]>>, Edges(p.deps), Edges(p.opts))
             : p \in loaded.packages},
          loaded.extra, NoExtra)

(* What pnpm wrote and the lockfile in memory does not model: the keys that *)
(* pnpm.go does not know, the settings and the version.  What it knows and  *)
(* PnpmToLockfile does not take over (deprecated, bundledDependencies,      *)
(* transitivePeerDependencies, catalogs, the rest of a resolution) is       *)
(* foreign, and nothing reads it.                                           *)
(* Bug: it is forgotten.                                                    *)
ForgetPassthrough(file) == NoExtra
Passthrough(file) == file.extra

(* PnpmToLockfile.  The edges of a package are those of the snapshot of its *)
(* name and version.                                                        *)
Names(edges) == {e.name : e \in edges}
ReadPnpm(file) ==
  Loaded(Names(file.root),
       {LET snap == CHOOSE s \in file.snapshots : s.key[1] = e.name /\ s.key[2] = e.version
        IN [Package(e.name, e.version, <<>>, Names(snap.deps), Names(snap.opts),
                    e.peers, FALSE, e.host, TRUE) EXCEPT !.hasBin = e.hasBin]
          : e \in file.packages},
       Passthrough(file))

ReadFile == IF mode = "pnpm" THEN ReadPnpm(stored) ELSE ReadNpm(stored)

(* Write: the file that Marshal makes of the lockfile in memory; writing    *)
(* the same content again and skipping the write leave the same file.       *)
WriteFile(loaded) ==
  IF mode = "npm" THEN stored' = WriteNpm(loaded)
  ELSE \E by \in ByName(loaded), order \in Orders : stored' = WritePnpm(loaded, by, order)
--------------------------------------------------------------------------------
(* Node's lookup of a name from a path: the copy in the nearest             *)
(* node_modules (resolveEdgeVersion).                                       *)
InReach(res, path, n) ==
  LET copyAt(k) == Append(SubSeq(path, 1, k), n)
  IN {p \in res.tree :
        \E k \in 0..Len(path) :
          /\ p.path = copyAt(k)
          /\ \A j \in (k + 1)..Len(path), q \in res.tree : q.path # copyAt(j)}

(* What the linker is given: a package at its path and the versions of its  *)
(* dependencies, which the isolated layout and the order of the scripts go  *)
(* by.  A full install takes what targets this host and the versions that   *)
(* node finds; one from the lockfile knows no C library, takes one version  *)
(* per name, any where there are several, and no optional dependencies.     *)
LinkSpec(p, wired) == [path |-> IF p.path = <<>> THEN <<p.name>> ELSE p.path,
                   version |-> p.version, bin |-> p.bin, deps |-> wired]
Resolved(res, p) ==
  UNION {{<<n, q.version>> : q \in InReach(res, p.path, n)} : n \in p.deps \cup p.opts}
FullSpecs(res) == {LinkSpec(p, Resolved(res, p)) : p \in {q \in res.tree : q.host /\ q.libc}}
Locked(p, by)  == {<<n, by[n].version>> : n \in p.deps \cap DOMAIN by}
LockedSpecs(packages, by) == {LinkSpec(p, Locked(p, by)) : p \in {q \in packages : q.host}}

(* lockMatchesPackageJSON, for registry dependencies. *)
Mirrors == stored # NoFile /\ ReadFile.root = declared

(* What is left of a file that another tool wrote: gnpm's own have no more. *)
Stripped(file) ==
  File(file.root, IF mode = "npm" THEN AtPath(file.packages) ELSE file.packages,
       file.snapshots, file.extra, NoExtra)

FullInstall(res) ==
  /\ ~Mirrors
  /\ res.root = declared
  /\ linked' = FullSpecs(res)
  /\ WriteFile(Loaded(res.root, res.tree, NoExtra))
  /\ meant' = res
  /\ writer' = "gnpm"
  /\ last' = "full"
  /\ UNCHANGED <<mode, declared>>

LockedInstall ==
  /\ Mirrors
  /\ \E by \in ByName(ReadFile) : linked' = LockedSpecs(ReadFile.packages, by)
  /\ WriteFile(ReadFile)
  /\ writer' = "gnpm"
  /\ last' = IF stored' = stored THEN "same"
             ELSE IF writer = "other" /\ stored' = Stripped(stored) THEN "stripped"
             ELSE "rewritten"
  /\ UNCHANGED <<mode, declared, meant>>

EditRoot(root) ==
  /\ root # declared
  /\ declared' = root
  /\ last' = "edited"
  /\ UNCHANGED <<mode, stored, linked, meant, writer>>

(* npm or pnpm itself resolves and writes its file.  pnpm's edges go to the *)
(* copies that the resolution puts in reach, an alias to a key of another   *)
(* name; these trees have no peers where a name has two versions.           *)
PnpmOwn(res, extra, foreign, order) ==
  LET suffix == PeerSuffixes(CHOOSE by \in ByName(Loaded(res.root, res.tree, extra)) : TRUE, order)
      Key(p) == <<p.name, p.version, suffix[p.name]>>
      Edges(path, ns) == UNION {{Edge(n, Key(p)) : p \in InReach(res, path, n)} : n \in ns}
  IN File(Edges(<<>>, res.root),
          {Entry(p) : p \in res.tree},
          {Snapshot(Key(p), Edges(p.path, p.deps), Edges(p.path, p.opts)) : p \in res.tree},
          extra, foreign)

OtherTool(res, extra, foreign) ==
  /\ IF mode = "npm" THEN stored' = NpmFile(res.root, res.tree, foreign)
     ELSE \E order \in Orders : stored' = PnpmOwn(res, extra, foreign, order)
  /\ declared' = res.root
  /\ meant' = res
  /\ writer' = "other"
  /\ last' = "other tool"
  /\ UNCHANGED <<mode, linked>>

Roots == {res.root : res \in Resolutions}
NoTree == [root |-> {}, tree |-> {}]
RoundsInit ==
  /\ mode \in {"npm", "pnpm"}
  /\ declared \in Roots
  /\ stored = NoFile
  /\ linked = {}
  /\ meant = NoTree
  /\ writer = "none"
  /\ last = "none"

RoundsNext ==
  \/ LockedInstall
  \/ \E res \in Resolutions : FullInstall(res)
  \/ \E root \in Roots : EditRoot(root)
  \/ \E res \in Resolutions, extra \in Extras, foreign \in Foreigns : OtherTool(res, extra, foreign)

Rounds == RoundsInit /\ [][RoundsNext]_roundVars
--------------------------------------------------------------------------------
AfterLocked == last \in {"same", "stripped", "rewritten"}
NameVersions(packages) == {<<p.name, p.version>> : p \in packages}
Here(res) == {p \in res.tree : p.host}

(* Where a resolution is simple: one version per name, no alias, and no     *)
(* packages that need each other in a ring of any length.                   *)
PlacedNames(res) == {p.name : p \in res.tree}
OneVersion(res) == \A p, q \in res.tree : p.name = q.name => p.version = q.version
NoAlias(res)    == \A p \in res.tree : p.name = NameOf(p.path)
NoCycle(res) ==
  \A S \in SUBSET PlacedNames(res) \ {{}} :
    \E n \in S : \A p \in res.tree :
      p.name = n => S \cap (p.deps \cup p.opts \cup p.peers) = {}

(* An install from the lockfile alone, gnpm's own or another tool's, links  *)
(* the tree that was resolved and the packages for another C library: in    *)
(* npm mode every copy at its path with its bins, in pnpm mode every        *)
(* version of every package.  Each is wired to the required dependencies    *)
(* that it has in reach, in a version that the resolution has (the one it   *)
(* resolved, where a name has one version), unless there are aliases.       *)
Within(res, p) ==
  {n \in p.deps : \A q \in res.tree :
     q.name = p.name /\ q.version = p.version => InReach(res, q.path, n) # {}}
WiredAsIn(res, spec, p) ==
  /\ Within(res, p) \subseteq {d[1] : d \in spec.deps}
  /\ {d[1] : d \in spec.deps} \subseteq p.deps
  /\ spec.deps \subseteq NameVersions(res.tree)
LockReproduces ==
  AfterLocked =>
    /\ IF mode = "npm"
       THEN {<<s.path, s.version, s.bin>> : s \in linked} = {<<p.path, p.version, p.bin>> : p \in Here(meant)}
       ELSE {<<NameOf(s.path), s.version>> : s \in linked} = NameVersions(Here(meant))
    /\ NoAlias(meant) =>
         \A s \in linked : \E p \in meant.tree :
           s.path \in {p.path, <<p.name>>} /\ s.version = p.version /\ WiredAsIn(meant, s, p)

(* Reading a lockfile and writing it back leaves it as it is (detect.go:    *)
(* unchanged lockfiles do not churn), but for what only another tool writes *)
(* and gnpm has no place for; except in pnpm mode where a name has two      *)
(* versions or is an alias, or packages need each other in a ring.          *)
Simple(res) == OneVersion(res) /\ NoAlias(res) /\ NoCycle(res)
RewriteIsStable == last = "rewritten" => mode = "pnpm" /\ ~Simple(meant)

(* What that takes of the simple trees: dependencies are in reach, and the  *)
(* peer context of a name does not depend on the order in which Go walks a  *)
(* map nor on what a pnpm file leaves out.                                  *)
Bare(p, names) ==
  [Package(p.name, p.version, <<>>, p.deps \cap names, p.opts \cap names, p.peers, FALSE, p.host, TRUE)
     EXCEPT !.hasBin = p.hasBin]
Settled(res) ==
  /\ \A n \in PlacedNames(res) :
       /\ n \in res.root => InReach(res, <<>>, n) # {}
       /\ \A p \in res.tree : n \in p.deps \cup p.opts => InReach(res, p.path, n) # {}
  /\ \A by \in ByName(Loaded(res.root, res.tree, NoExtra)), one, other \in Orders :
       PeerSuffixes(by, one) = PeerSuffixes([n \in DOMAIN by |-> Bare(by[n], DOMAIN by)], other)
ContextsSettle == \A res \in Resolutions : Simple(res) => Settled(res)

(* Whatever the peers, the cycles and the versions: in the pnpm file that   *)
(* gnpm writes every edge, of an importer or of a snapshot, leads to a      *)
(* snapshot, and every package has one.                                     *)
EdgesAreKeys ==
  mode = "pnpm" =>
    LET keys  == {s.key : s \in stored.snapshots}
        edges == stored.root \cup UNION {s.deps \cup s.opts : s \in stored.snapshots}
    IN /\ {e.to : e \in edges} \subseteq keys
       /\ NameVersions(stored.packages) = {<<k[1], k[2]>> : k \in keys}

(* spec.md: an install against a file that npm wrote reproduces the same    *)
(* tree, the one that an install without a file comes to.  TLC refutes it,  *)
(* whoever wrote the file: what is for another C library comes on top.      *)
NpmTreeIsReproduced ==
  AfterLocked /\ mode = "npm" => {s.path : s \in linked} = {s.path : s \in FullSpecs(meant)}

(* spec.md: the pnpm file that is written is equivalent in meaning to the   *)
(* one that was read.  TLC refutes it: catalogs and other keys are dropped. *)
PnpmContentIsKept == mode = "pnpm" => last # "stripped"

(* convert.go: the conversion from pnpm's file is lossless for install      *)
(* purposes.  TLC refutes it: bins and paths are not in that file.          *)
LosslessForInstall == AfterLocked => linked = FullSpecs(meant)

(* schema.go: pnpm-only content is preserved instead of silently dropped.   *)
KeepsPnpmContent ==
  [][last' \in {"full", "same", "stripped", "rewritten"} => stored'.extra = stored.extra]_roundVars
================================================================================
