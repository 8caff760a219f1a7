# A TLA+ development of gnpm

gnpm is a package manager for npm registries, written in Go. This directory holds
TLA+ models of its core, TLC configurations that check them on small instances, and
TLAPS proofs of what matters most for every instance. Every definition is translated
from the Go source under `src/internal`; `PROJECT.json` maps each one to its lines.

    tlc -config TarballFetcher.cfg TarballFetcher.tla       # a run: PROJECT.json names module and cfg
    tlapm FetchParts_proofs.tla                             # the proofs of a module

## 1. The system

`gnpm install` is one `Operation.Run` (`installer/installer.go`). It reads
`package.json`, the lockfile and the recorded workspace state. When the state matches,
it returns at once. When the lockfile mirrors `package.json`, `runLocked` installs what
the lockfile lists. Otherwise a resolver asks the registry and builds a tree, while a
pool downloads what it places. Both paths then link packages from a content-addressed
store into `node_modules`, prune what is left over, run lifecycle scripts, write the
lockfile and record the state.

| Component | State | Operations | Interacts with |
|---|---|---|---|
| Packument provider (`regprovider`) | one coalescing cache entry per name | `packumentFor`, `Warmup`, version filters | called by resolver, pool workers and prefetch goroutines at once; calls the registry client |
| Tarball pool (`installer/hoistedtree.go`) | bounded channel, dedupe set, result map, first error, context | `submit`, `worker`, `fetchOne`, `closeAndWait` | fed by the resolver's `OnResolved`; asks the provider; ingests into the store |
| Tree resolver (`treeresolver`) | tree of placements, FIFO of edges | `Resolve`, `resolveEdge`, `placeExotic` | asks the provider; calls `OnResolved` |
| Layout assembly (`installer/hoistedtree.go`) | none | `assembleHoisted`, `versionsByPath`, `resolveEdgeVersion` | between resolver and linker |
| Content store (`store`, `platform`) | stored files, index per tarball, extracted trees | `IngestTarball`, `Materialize` | shared by every process on the machine |
| Hoisted linker, prune (`linker`, `installer/prune.go`) | `node_modules` | `Link`, `prune` | reads the store; sees what earlier installs left |
| Isolated linker (`linker/isolated.go`) | virtual store and symlinks | `Link` | as above |
| Install operation (`installer`, `workspacestate`, `cli`) | `package.json`, lockfile, state file, `node_modules` | `Run`, `runLocked`, `finish`, `WorkspaceUpToDate`; the commands install, ci, update, add, remove, run, exec, clean | everything; the user edits files and other commands run meanwhile |
| Registry client and cache (`registry`) | packument bodies and etags on disk | `Packument`, `Tarball` | network; other processes |
| Trust history (`policy/trust.go`) | highest version installed per name | `Floors`, `Update`, `updateTrust` | filters what the provider offers the resolver |
| Exotic sources (`installer/exotic.go`, `nonregistry.go`) | git clones in the home directory | `fetchExotic`, `ensureGitClone`, `gitClone` | resolver, locked path; every process on the machine |
| Lifecycle scripts (`installer/scripts.go`, `scripts`) | order, build approvals | `topoOrder`, `runLifecycleScripts`, `Evaluate` | after linking |
| Workspaces, local links (`installer/workspaces.go`, `locallinks.go`) | links in `node_modules` | `applyLocalLinks`, `linkWorkspaces` | between link and prune |
| Lockfile formats (`lockfile`) | the lockfile | `Read`, `Write`, conversion from and to npm's and pnpm's format | install operation; npm and pnpm themselves read and write the file |
| Semantic versions (`semver`) | none | `ParseRange`, `Satisfies`, `Intersect`, `Union`, `Subset`, `Compare` | resolver, provider, solver |
| PubGrub solver (`resolver`) | assignments, incompatibilities, forbidden versions | `Solve` | a `PackageProvider`; the installer uses the tree resolver instead |
| Configuration, audit, signatures, SBOM, archives, rest of the command line | see `PROJECT.json` | | |

What is hard here, and why a test would hardly reach it:

* **Interleaving.** Resolver, workers and prefetch goroutines share one cache whose
  eviction happens after the lock was given up and by name; a bounded channel couples
  resolver and pool; linker tasks share directories, and in the isolated layout two of
  them may have the same one.
* **Several processes.** The store and the git cache are shared by all projects. Two
  installs may ingest one tarball, fill one directory or clone one repository at the same
  time. Nothing keeps two commands apart in one project either, and `run` and `exec`
  install on their own.
* **Crashes.** The store, `node_modules`, lockfile and state file are separate writes.
* **History.** The next install trusts what earlier ones left: an index, a directory,
  a lockfile, a state hash. Flags may differ from one install to the next.
* **Order.** The greedy tree walk never revises a placement, so the order of the queue
  is what makes its results right.
* **Conversions.** A lockfile is read, turned into the internal model and written again
  by every install, in two formats that do not carry the same things, and other tools
  edit it in between. Ranges are desugared, intersected and compared as rendered text.

The full list, each entry at its line, is under `hazards` in `PROJECT.json`, with the
properties that would catch it going wrong.

## 2. Modules

| Module | Models | Proofs |
|---|---|---|
| `PackumentFlight` | `Provider.packumentFor` | `FetchParts_proofs` |
| `FetchContract` | abstract: what resolve-and-fetch promises `Run` | |
| `TarballFetcher` | the pool; implements `FetchContract` | `FetchParts_proofs` |
| `PipelinedInstall` | resolver, pool and prefetch over one provider: composes the two above | `PipelinedInstall_proofs` |
| `ContentStore` | ingest and materialize, system call by system call | `SharedHome_proofs` |
| `GitCache` | clones of one repository, call of git by call of git | `SharedHome_proofs` |
| `TreeResolver` | the tree walk, with the provider's filters on versions | `Resolution_proofs` |
| `HoistedLayout` | placements to install paths; extends `TreeResolver` | `Resolution_proofs` |
| `TrustedInstalls` | walks one after another under no-downgrade; extends `HoistedLayout` | `Resolution_proofs` |
| `HoistedLinker` | batches, materialization, local links, members and prune over successive installs | `Resolution_proofs` |
| `IsolatedLinker` | the virtual store, its wiring, shims and prune over successive installs | |
| `LifecycleScripts` | order and gate of install scripts | |
| `IsolatedInstall` | an install in the isolated layout: composes the two above | `IsolatedInstall_proofs` |
| `InstallRuns` | the commands of several processes in one project over time | `InstallRuns_proofs` |
| `LockfileRounds` | what the lockfile carries from install to install, in both formats | `InstallRuns_proofs` |
| `PeerContexts` | the peer contexts by which the pnpm format keys its snapshots | |
| `SemverVersion` | precedence of versions | `Range_proofs` |
| `SemverRange` | the interval algebra, over any total order | `Range_proofs` |
| `RangeNormal` | the normal form of a range, inclusion and equality; extends `SemverRange` | `Range_proofs` |
| `SemverText` | desugaring of written ranges | `Range_proofs` |
| `RangeAlgebra` | the life of a range: read, then met with and joined to others | `Range_proofs` |
| `PubGrub` | the version solver; extends `RangeNormal` | `Solver_proofs` |
| `PackumentCache` | one packument in memory, on disk and at the registry | `SharedHome_proofs` |

`MC...` modules hold the data of the runs: small registries, layouts, plans.
`MCSharedHome` puts `ContentStore`, `GitCache` and `PackumentCache` in one run, and `MCProjectFiles` puts
`InstallRuns` and `LockfileRounds` in one. The models of a run have no state in common, and each is
explored with the others at rest: the variable `part` says which one moves.

**PackumentFlight.** The provider's cache maps a name to a request, `flight` maps a
request to its outcome, and each goroutine has a position: it owns an exchange, waits
for one, is about to evict, or has its answer. `Join`/`Open` are the two branches under
`p.mu`; `Publish` stores the result and closes `r.done` in one step, because no reader
looks at the result before the close; `Evict` is the separate critical section that
follows a failure. The exchange itself ends with any outcome.

**TarballFetcher.** The channel is a sequence of at most `Cap` keys with a `closed`
flag. Each worker has a position (`recv`, `dedup`, `slice`, `download`, `ingest`,
`record`, `exited`); the resolver side places, submits (the `select` on channel or
context is two disjuncts), closes and joins. A key is a `name@version`; two
placements may have one key. `Record` is the critical section at the end of a worker's
turn, in which the first error cancels the context.

**PipelinedInstall** instantiates both and lets their actions happen jointly with the
resolver's and the prefetch's. All asks go through the one provider, so a prefetch
goroutine may own the request a worker waits for. A package has one version here;
version conflicts are the subject of `TreeResolver`.

**ContentStore.** Index files are inodes: a writer keeps writing to the inode it opened,
wherever its path has been renamed to; that is what the shared temporary path
is about. `node_modules` entries are hard links to stored files or copies, so
that a truncating open through a link reaches the store. `Crash` drops descriptors and
skips deferred cleanup. A rename that fails, because another ingest took the temporary path away, is followed by the removal of
that path, which may be a third one's by then (`RemoveTmp`). Extraction happens in a private directory and is not
a step of its own, and neither is the staging tree of links, of which nobody else reads.

**GitCache.** There is one repository, and a directory per checkout: a key made of URL and ref.
A directory is absent, part of a clone, or a clone at a commit, with the branches as they
were when it was made. Each call of git (clone, checkout, rev-parse) and the copy are steps; an install that
finds the directory asks nothing further, as in the code. `killed` and `shared` remember at which checkouts a
process was killed, or two met.

**TreeResolver.** A node is its path, a sequence of names; an instance is name, version
and source. One action per way an edge is processed (reused, placed, kept, skipped,
failed, blocked, dropped). What a package depends on is chosen when the resolver
first asks and is then fixed, so one run covers many registries. Versions
are numbers and a range is the set of versions in it. The versions offered are what the
minimum release age and the floors leave (`Mature`, `AboveFloor`, `Offered`). **HoistedLayout** adds the map to
install paths, with aliases, and the lookup of edges over them. **TrustedInstalls** runs walks one after
another: a walk that ends well raises the records, which are floors for the next. Between walks
the manifest and the settings may change, the records grow too old, or the file is lost. `TextRank` is the
order of version strings, by which `placementVersions` compares.

**HoistedLinker.** An entry is absent, bare (it only holds a nested `node_modules`),
partly filled, whole of some version, or a link of a local dependency or a member. A batch is the set of install paths of one depth; at
most `Limit` tasks are between `look` and their end. Installs follow one another over
the same `nm`, and may fail or be killed. One straight from the lockfile (`locked`), which only a project without local
dependencies gets, goes from there to prune and links no member, as `runLocked` does.

**IsolatedLinker, LifecycleScripts, IsolatedInstall.** A package of the virtual store is absent, partly filled,
whole, or `mixed` when two tasks wrote to it at once; one task per link spec looks, clones or copies,
and fails or ends, at most `Limit` at a time; then come the three loops of `Link` and prune. `found`
remembers what was there when the install began. The scripts are a depth-first walk whose
choices are those of Go's map order, and a turn per package in which its scripts run, are
skipped, or fail the install. `IsolatedInstall` instantiates the scripts on the linker's plan.

**InstallRuns.** A package stands for a direct dependency with all it brings. The state
hash is the pair of what it is computed from, `package.json` and the lockfile. Every process
runs one command at a time. The steps of a command are the points between which files on disk are read or changed: the
edit of `package.json` by `add` and `remove` (a truncation, `Cut`, then the content),
its reading, those of the lockfile and of the state, link, prune, the rename of the lockfile, the truncation and
the writing of the state, and the range that `add` puts in place of a bare name afterwards (`Pin`).
`run` and `exec` are `Install` with the plain flags. Three history variables are for the properties. `clean`: the
processes since whose reading nobody wrote `package.json` or another lockfile. `mixed`: those
that met one that had read another `package.json`. `torn`: an install changed `node_modules`
and has not recorded it.

**LockfileRounds, PeerContexts.** A resolution is a set of placed packages; integrity, tarball URL and
the rest that both formats carry go with name and version. The lockfile on disk is
the union of what the two formats can hold: npm's entries keep the path and the bins,
pnpm's keep name, version and a snapshot keyed with its peer context, and an edge is a name and the key it leads to. The context of each name is the
parameter `PeerSuffixes`, which the run takes from `PeerContexts`: there `PeerSet` and
`Suffix` are the two memoized recursions of `peerSuffixes`, with the memo, so that
the order in which Go walks a map shows in the result. A package-lock.json of gnpm's has no names: `AtPath` takes them from the paths; npm writes the name beside an alias, and gnpm reads it.
`OtherTool` is npm or pnpm writing its own file, taken from how the code reads it.

A file that another tool wrote has two kinds of content beyond the packages. `extra` is what gnpm keeps without looking at it: the keys of pnpm's file that
`pnpm.go` does not know, its settings and version. `foreign` is what has no place in the lockfile in memory, and is gone when gnpm writes: pnpm's catalogs,
`deprecated`, `bundledDependencies`, `transitivePeerDependencies` and all of a resolution but its integrity; npm's `peerDependenciesMeta`, libc, license and flags.
What an install links is stated twice, because the two paths differ: `FullSpecs` is the resolving one, which asks for os, cpu and libc and wires each package to the versions that node
finds from its path; `LockedSpecs` is `runLocked`, which asks for os and cpu, wires required dependencies only, and takes one version per name for all of them.

**SemverVersion, SemverRange, RangeNormal, SemverText, RangeAlgebra.** `SemverRange` and `RangeNormal` are `range.go` with the
order of versions as a parameter, so that what is proved holds of every order; of it is assumed that versions which compare
equal are the same (`IdentityAssumption`: build metadata is dropped when a version is parsed). `SemverText`
extends them for the partial versions of `parse.go`, whose missing components are
`X`. A range is a set of clauses where the code has a slice; only `normalize` sorts, and
`Normalize` does it too. `RangeAlgebra` keeps, beside the range, what the texts
mean, defined component by component without any interval.

**PubGrub.** One step per incompatibility visited, and one per decision. `solution` is
the set of assignments, `incompat` the sequence of incompatibilities, `changed` and
`visit` are the two loops of `unitPropagate`; what is left to visit is a set of indices, taken newest first.
Packages are numbers, so that their order is the code's; `$root` is 0. Versions are releases in any total order, because the range
modules are extended as they are; the run takes numbers for them. Status, choice and undoing are operators named
for the methods.

**PackumentCache.** Processes ask for one packument again and again, online, preferring
the cache or offline, with publish times or without. `body` and `meta` are the two files; a
write truncates and then fills, which is two steps, and fails or is killed at either. A
registry sends no validator, one per packument, or one per packument and form (slim or
full). `history` and the fields `since` and `recent` of a call are for the property.
One call at a time per process and name is what `packumentFor` gives.

## 3. Runs

Passing runs:

| Run | Shows | Bounds, and why they are enough |
|---|---|---|
| `TarballFetcher` | a phase that succeeds has stored or skipped all; one fetch per key; the error is a root cause; it implements `FetchContract` | a channel of one slot is full as soon as one send precedes a receive; four placements of three keys give duplicates and a skip; two workers race. The safety part is proved for all sizes. |
| `PipelinedInstall` | with every ask over one provider: a worker never fails on metadata, success is closed under dependencies, no goroutine is left behind, the phase ends; requests for one name never overlap | a dependency cycle, an optional edge, a foreign-platform package, one semaphore slot for three prefetches, two flights per name so that each packument fails once and is asked for again. The safety of the provider and of the workers' asks is proved for all sizes. |
| `SharedHome` (`MCSharedHome`) | an index comes after its files and is whole once its writers live; whole packages for those who succeed; stored content survives; reruns succeed. A failed clone does not stay in the git cache; what is copied is the pinned commit; an online packument from the cache or the registry is as new as the call or as its max-age allows, through kills and failed writes; publish times are there when asked for | Store: four plans, which are kills with a rerun on hard links, copies across devices, three ingests of one tarball, one directory for two processes; two tarballs share a file. Git: two installs of any of five kinds, or three of one commit, two commits, two branches, one push; two suffice for one to meet the other's clone, half made or left behind, and the third finds what two leave. Packuments: two processes, three calls, two packuments, a clock that ticks once, two attempts of `doRetry`; both processes are at work at once within the first two calls. That is enough for a call that is killed while it writes, a publication, and a call that revalidates what is left. Proved for all sizes. |
| `TreeResolver` (`MCHoistedLayout`) | what is resolved stays resolved, edges over install paths lead where the resolver said, the walk ends unless two versions or two sources of one package need each other (`Alternating`); no version goes back under no-downgrade; the same manifest resolves to the same tree again | ten lists of root dependencies, three of them edited into one another, every combination of the listed dependency lists, two versions, of which some are young, two aliases, one of which takes the name of another package; a package with two edges for one name, in both orders, and one that takes a version from a source which the root has from the registry, in two walks; up to three walks, the fewest that record, edit and come back; two packages whose versions need each other's other version, and two whose sources do; conflicts nest up to three deep; the bound on nodes is reached in such rings only, or `Ends` would fail. Everything but `Ends` is proved for all sizes. |
| `HoistedLinker` | all packages in place, whole where nothing was before; every top-level name is a package, a link or a member of this install, and none is missing, but for members where the install is straight from the lockfile; the install returns | nine layouts on seven paths in three depths, with local dependencies that move and a member, each resolved or from the lockfile, two tasks at a time, three installs, with failures and kills. The safety part is proved for all sizes. |
| `IsolatedInstall` | no link or shim leads nowhere, at any time; after an install every package is whole and finds its dependencies; scripts run after those of the dependencies | two installs of any of four plans (a cycle, an update with two versions, a removal, a package resolved twice), two tasks at a time, failures and kills, with the copy file by file or clonefile; four script policies. Two installs are enough for one to find what another left. Proved for all sizes. |
| `ProjectFiles` (`MCProjectFiles`) | Commands: the recorded state never claims an outdated tree; a repeat does nothing; success means agreement of packages, tree and lockfile. The lockfile: an install from the lockfile links what was resolved, for any C library, and wires it to what was resolved; a rewrite leaves the file alone but for foreign content; every edge of a pnpm file leads to a snapshot | Commands: two processes, three commands (install, ci, an audited install, an add with its pin, a remove) and two edits; both processes are at work at once within the first two commands and the first edit. The lockfile: ten resolutions: two versions of one package, peers that bubble up and that a parent provides, rings of two and three with peers, packages for another platform, for another C library and missing ones, an alias; files with and without extra and foreign content; three orders of four names. The state space is finite without a bound; another tool writes only where neither it nor an edit came last, which leaves all states reachable. Both are proved for all sizes, the rewrites of contexts that settle. |
| `RangeAlgebra` | every written form means what npm says; inclusion, equality and emptiness are exact; no prerelease comes in unnamed | each operator on eleven partial versions around the zero components where carets differ, unions, hyphen ranges and empty sets, each combined twice with one of seven partners; the probes hold every triple up to 2.3.2 and five prereleases of every bound, which tell all ends apart (`ProbesTell`). Proved for all tidy texts, and the algebra for every order. |
| `PubGrub` | what is returned meets every requirement and holds nothing else; a lock that is a solution is followed; every resolution ends | 1,042 resolutions of up to five packages with up to three versions: every small triangle of requirements with four lockfiles, two independent conflicts, cycles, overrides, optional and peer dependencies, unreachable packages, ranges that are empty or do not parse. `MaxTurns`, for 50000, is reached by the empty range only. The safety part is proved for all sizes. |

Deadlock checking is off where the system may stop, because an install ends and nothing
forces another, or where a bound ends the run (`RangeAlgebra`). It is on in `PubGrub`.

Runs that are expected to violate one property each, which a doc or a comment states of the
code. They are findings in `PROJECT.json`:

* `StoreSameTarball`: `doc/spec.md` says concurrent ingests of a tarball are safe because
  of the temporary path and the rename. The temporary path is the same for all of
  them: the second writer truncates the inode the first one has just renamed onto the
  index, and a third party reads an index that does not parse. It heals when the writer
  finishes (`IndexIsWhole` holds), and stays broken if that writer is killed.
* `MembersLocked`: the comment of `linkWorkspaces` has it link the members after the root install. An install straight
  from the lockfile into a fresh `node_modules` does not call it (`MembersAreLinked`).
* `SourceRing`: `placeExotic` argues that a cycle of sources ends because the ancestor walk finds the matching instance. Where two sources of
  a name need each other, it finds the other one first, and a source is placed below itself (`SourcesAreReused`).

The properties of the passing runs are stated with these cases set apart, by a named
condition: `Alone` and `Apart` in `ContentStore`, `killed` and `shared` in `GitCache`, `p \notin found` in
`HoistedLinker`, whose `LinkedMembers` are those that an install links or finds, `found` and `Others` in `IsolatedLinker`, `clean`, `mixed` and `torn` in `InstallRuns`, whose
`Flags` have no `--production`, `Alternating` in `TreeResolver`, `Moved` in
`HoistedLayout`, `split`, `horizon = 0` and `flaw` in `TrustedInstalls`, `Simple` (one version per name, no alias, no ring), the last value `"stripped"` and `NoAlias` in `LockfileRounds`,
`~overlapped` in `PackumentCache`. Section 6 says what happens outside of them.

`TypeOK`, where a module has one, states the types of its variables. It is proved where
the module has proofs; elsewhere it documents them, holds in the runs of the module,
and is the base of the proofs to come. `EvictsOwnFailure`, `ArrivedIsFinal` and `LastIsBlamed` are proved and not run.

Every property of a passing run has a mutant under `mutants`: a changed form of a
mapped definition, kept beside it under the comment `Bug:`, under which TLC finds that
property violated.

## 4. Fairness

Liveness is stated only where the code's scheduling gives it. `PipelinedInstall` assumes weak fairness per goroutine: the Go
scheduler runs every goroutine that can run, HTTP exchanges have timeouts and so end,
and a channel or mutex operation that stays possible is eventually taken.
`HoistedLinker` assumes that the
tasks of a batch proceed, and not that they fail, and that the install goes from depth to depth, to the local links,
the members and prune, which is one goroutine. `TreeResolver` and `PubGrub` are one goroutine in one loop;
`TrustedInstalls` assumes that a walk goes on, not that another begins.
`TarballFetcher`, `ContentStore`, `GitCache`, `IsolatedInstall`, `InstallRuns`, `RangeAlgebra`, `LockfileRounds` and `PackumentCache` have no liveness property of their own; `PipelinedInstall` has that of the pool. No run assumes strong fairness, and none assumes
that an environment succeeds, except that `PipelinedInstall` lets the last permitted
request for a name succeed, which bounds the failures.

## 5. Proofs

`tlapm` checks these for every value of the constants; each theorem is about the
specification that TLC runs, by itself or as one part of `SharedHome` or `ProjectFiles`.

**FetchParts_proofs, the provider.** The inductive invariant `FlightInvariant` adds to `TypeOK`:
a cache entry points at a request of its name that is pending, has arrived, or failed
and has an owner about to evict it; a request that is pending has exactly one owner; a
waiter's request is either finished or owned. From it: `FlightTypeCorrect`, `Coalescing`
(`SingleFlight`), `NoLostWakeUp` (`WaitersHaveOwner`), `EvictionIsOwn`
(`EvictsOwnFailure`) and `Finality` (`ArrivedIsFinal`). It is needed because the
eviction is by name: that the entry it removes is the caller's own follows only from
the fact that no successor can have been opened while the failed entry stood.

**FetchParts_proofs, the pool.** `PoolInvariant` adds: where each key is (in the resolver's
hand, in the channel, with exactly one worker, or recorded), that the channel is closed
only after the walk, that an empty record implies an error, and that a `canceled` error
follows a recorded one. From it: `TypeCorrect`, `NothingLost`, `Deduplicates`,
`ErrorIsRoot`, `Quiescence`, and `Refinement`: every step of the pool is a step
of `FetchContract` under the mapping `settled`, `verdict`, or leaves it unchanged.
The assumptions are the `ASSUME`s of the modules, that is, that there is a worker
and a channel of positive capacity and that model values are distinct.

**PipelinedInstall_proofs.** The install is a client of the provider: `ProviderStep` shows
that each of its steps is a step of `PackumentFlight` or leaves the provider alone, so the
invariant proved there holds here, and with it `OneRequestPerName`, `EvictionsAreOwn` and
`PackumentsAreFinal`. In the same way each step is one of `TarballFetcher` or leaves the pool alone: so `InstallKeepsContract`,
a refinement of two levels: the pool of the install, whose tasks come from the walk and whose slices come from the shared provider,
is a `TarballFetcher`, and with it implements `FetchContract`. The invariant `IInv` joins those of both and adds what ties them:

* a request that succeeded is the cached one of its name, and the packument of a placed package is one of these
  (`OkIsCached`, `PlacedArrived`). With the pool's invariant, by which a worker's key was placed, this gives `WorkersFindSlices` (`SliceAtHand`).
* a worker is inside the provider while it asks for a slice and at no other time, a prefetch goroutine while it holds its slot
  (`CallsInPlace`), and none of the latter is left once `Run` has returned (`WarmJoined`): `NothingLeaks` (`NoLeak`).
* an edge of the project, or of a placed package, leads to a placed package, is optional, or is still in the queue, except
  while the dependencies of the head of the queue are being asked for (`AsksForHead`, `WalkCloses`). A walk that succeeds has an empty queue, which
  with `NothingLost` gives `SuccessIsClosed` (`Complete`).

Assumed are distinct goroutines, a well-formed dependency graph, a worker, and channels of positive capacity.

**SharedHome_proofs, the store.** `IndexStaysWhole` (`IndexIsWhole`), `StoreStaysIntact` (`StoreIntact`), `RerunsSucceed` (`RerunSucceeds`) and `SuccessIsComplete`
(`DoneIsComplete`), for any jobs, plans, tarballs that share files, directories and kills. The invariant `StoreInv` adds:

* files come first (`FilesFirst`): what an index or its temporary file stands for is stored already, and so is what a directory links to.
* a job past its commit has an index (`IndexAtHand`), although the path it renamed may have been renamed by another.
* until a process is killed, an inode with a path and no data is open at a job that will write it (`TornIsOpen`). That
  is why a torn index, which overlapping ingests do leave, heals; after a kill nobody may be left to heal it.
* no two paths have one inode (`PathsApart`), so that a job alone with its tarball writes to the path it renames (`AloneIsWhole`).
* a job alone with its directory fills it from nothing, file by file, and the others keep out of it (`OwnDirectory`).

Most steps are shown to be one of few kinds (`LinkingStep`, `IngestStep`): they move one job from a stage to a stage and store files, never the
reverse. Assumed is `StoreAssumption`: plans name jobs, tarballs and directories that there are.

**IsolatedInstall_proofs.** `LinksAlwaysLead` (`LinksLead`), `InstallsWireEdges` (`EdgesWired`) and `DependenciesBuildFirst` (`DepsBuiltFirst`), for any packages,
dependency graphs with cycles, tasks in flight, installs, failures and kills. The invariant is `LinkInv` for the linker and `ScriptInv` for the
scripts. `LinkInv` adds:

* tasks run in the first phase only, and a task that may remove a directory saw it absent, so that nothing links to it
  (`TasksInPlace`). `LinksLead` alone is not inductive: the fallback from `clonefile` removes a directory, possibly one that a twin has filled.
* a directory of a finished task that is gone again was removed by a twin that fills it again or fails (`TwinsRefill`), and one that is in part has a
  task at work on it (`PartsInWork`); so when all tasks are done, all directories are there (`DirsBuilt`).
* each loop links what its specs ask for and has linked what it passed (`LoopsAtRest`, `LeftOfSpec`, `WiresOfPlan`, `Passed`).

`ScriptInv` says of the walk of `topoOrder`: what was visited is on the stack or in the order (`VisitedIsWalked`), the stack is a path along
dependencies (`PathUp`), and a dependency of a spec on the stack that has been looked at is in the order, below it on the stack, or just above it
(`TodoOfSpec`, `StackDeps`). So when a spec leaves the stack its dependencies precede it, or they are below it and lead to it (`OrderDeps`).
Scripts run in that order (`RanInOrder`). Reachability is stated by closed sets of packages, so that a path may be prolonged without an induction.
Assumed are well-formed plans, in which a spec has one version per dependency name (`LinkSpec.Dependencies` is a map).

**Range_proofs.** For every total order of versions, dense or not. `IntersectIsAnd`, `IntersectLosesNothing` and
`ReleasesFollowTheAlgebra` (a release satisfies an intersection if and only if it satisfies both ranges), `EmptyIsUnsatisfiable`, `MergeIsOr` (two
clauses that `overlapsOrAdjacent` accepts merge into one that holds what either holds), and `InclusionIsDecided`: `Subset`,
`Equal` and `IsEmpty`, which compare normal forms, decide inclusion, equality and emptiness of any two finite ranges, however they are cut into clauses.

What a range holds is a set of *points*, which are the versions and the gaps just below and above each (`Points`): the bounds that the
code compares tell gaps apart although no version may lie in one. The fold that makes the normal form is unrolled by an induction over finite sets that is
proved here (`SubsetInduction`, `FoldExists`), in the order in which the sort presents the clauses: what is merged so far is in order, its clauses do not touch, and it
holds the points of the clauses taken (`Normal`, `Covers`). Two normal forms with the same points are equal clause by clause (`NormalFormIsUnique`).

The code's own order is one of these: `CompareOrdersVersions` says so of `Version.Compare` over all versions, whose lists of prerelease identifiers may
have any length (`FirstDifference` is where two of them part; `BelowComposes` follows it through three lists).

`RangesReadAsWritten` (`ReadsAsWritten`) and `PrereleasesAreNamed` (`PrereleaseIsNamed`) are about ranges as they are written. The reference, `Means`,
compares components and knows no intervals; each comparator is proved to agree with it on releases (`ComparatorMeans`, by `CaretEndMeans`,
`TildeEndMeans` and `XRangeMeans`), then a hyphen range, a set of comparators of any length (`SetIsAnd`, the fold of `parseClause` unrolled as above), and a text
of any number of sets (`TextIsRead`). From there the invariant `RangeInv`, which adds that each clause names what its texts name, goes through any chain of
meets and joins. Both are proved under `TextsFit`, which the run evaluates on its own texts:

* `Version` is a set of semantic versions in the order of `Precedence`, with the versions that bound the texts among them (`BoundsAreVersions`);
* the texts are tidy (`TidyPartial`): nothing follows a component that is left open, and a prerelease only follows three components. `parsePartial` also takes
  the likes of `1.x.3` and `^1-rc.0`. Of these nothing is claimed.

`ComparisonsAreExact` (`SubsetIsExact`) brings `InclusionIsDecided` to versions. Ranges that are put together of texts end only at the texts' own ends (`CutInv`), so a range
holds a point if and only if it holds a probe that lies to those ends as the point does (`PointIsProbed`). That there is such a probe for every point is `ProbesTell`, an assumption that the
run evaluates on its texts. It is needed, and npm's order does not grant it to all texts: no version lies between `1.0.0-a` and `1.0.0-a.0`, and `>1.0.0-a <1.0.0-a.0` is not empty
for `IsEmpty` although nothing satisfies it.

**Resolution_proofs, the walk and its tree.** `ResolvedStaysResolved` (`EdgesResolve`), `LayoutKeepsChoices` (`EdgesLeadToChoice`),
`TrustNeverDrops` (`NoDowngrade`) and `TrustTypesHold`, for any registry, graph of dependencies with cycles, overrides, sources, aliases, settings, and any
number of walks and edits between them. `EdgesResolve` alone is not inductive: a package placed
for one edge may shadow what another has found. It does not, because the queue is breadth-first, and that is what the invariant must say although the
queue holds edges and not the nodes' places. A *slot* `<<p, l>>` stands for the l-th dependency of node p, and the walk is told
by its tree, its dependencies and the set W of open slots (`Follows` ties the queue to a sequence of them in which no slot precedes one of an ancestor). `Sound` is:

* the slots of a node are taken in turn (`InTurn`), and a node with a slot done has no ancestor with one open (`AncestorsDone`): when something is placed
  in a directory above a node, that node has found nothing yet.
* what a node holds in its own directory it holds for a slot of its own that is done (`OwnHeld`), apart from what is hoisted to the root after the root's turn.
  So a package that is nested takes an empty place, or that of a twin.
* every required slot that is done is `Held`: its package is found from the node, or that of a *twin* is, an edge of the same node for the same name.
  What is hoisted to the root comes where every lookup ends, and changes none that found something (`StillFound`).

The heart is that a step which closes the next slot, without a package (`Taken`) or with one (`PlacingSound`), keeps `Sound`. Both are about any tree and any set of slots, and
the actions of the module only have to be shown to be such steps. `FindsStill` and the lemmas before it say what one more directory does to node's lookup, `MaxOf` of the depths that hold the
name, without an induction over paths. `LayoutKeepsChoices` needs only that a tree has every prefix of its paths and that a node is named as its place (`Grown`).
`TrustInv` adds that every placed version is at or above its floor (`FloorsKept`), and that for a name never placed in two versions the record, the floor made of it and what was seen agree.
Assumed are declared dependencies that are finite sequences of well-formed ones, finitely many versions, and that some walk happens.

`FloorsChangeNothing` (`ResolvesAgain`) compares two whole walks, of which the variables hold only the end of the first. `AgainInv` brings the rest back:

* what a step does is told by the age setting, the floors, the remembered dependencies, the tree and the queue (`Moves`, which `MovesOnce` shows to be a function, and
  `WalkMoves` to be what every walk does in which nothing fails). So the walk that led to the present tree exists as a `Trace`, a sequence of trees and queues (`Traced`), and is
  still one when more dependencies are remembered (`MovesStay`).
* the floors of a walk are the records that count for it (`FloorsCounted`), and those of the next one are the same or raised to what the last tree holds of the registry (`Raised`).
* a walk like the last recorded one stands on the trace of that one (`Retraced`), and every step goes one on (`AlongTrace`). For when a step placed a version, that version is in
  the last tree, alone of its name, and so above the raised floor; what the raised floor takes away was not chosen (`MovesAgain`, `RaisedOffers`). And a step that keeps the first
  of two for one place, for which candidates would matter, shows a tree with two of a package (`Clear`, by `TakenTwice`).

Assumed is that the root declares no name twice (`RootAssumption`): its dependencies come in one Go map.

Three properties were false beyond the run's data and were corrected, here and in the run. `ResolvesAgain` counted versions, where a tree may hold one version from
the registry and from a source (section 6). `EdgesResolve` did not allow for a node with two edges for one name whose first is satisfied
from above and whose second then nests another version, which shadows it (section 6). `EdgesLeadToChoice` set edges of an aliased package apart, and not those of a
package whose name the alias is. The run now has both.

**SharedHome_proofs, the git cache.** `CacheStaysGood` (`CacheIsGood`) and `PinnedIsCopied` (`CopiesWhatIsPinned`), for any
installs, branches, commits and pushes. The invariant `GitInv` adds: a directory that is not what was asked for
has an install that is about to finish it or remove it (`Tended`); where no two installs met, at most one is on its way (`OneEach`);
and an install past its clone that nobody disturbed has a good one (`Held`). They are needed because the
directory says nothing about who is making it: that an existing one may be used follows only from who else can be there.

**InstallRuns_proofs.** `StateIsTrue` (`UpToDateIsTrue`), `RepeatDoesNothing` (`RepeatIsNoop`) and `SuccessIsConsistent`
(`DoneIsConsistent`), for any number of processes, packages, commands and edits, provided that no install is given
`--production`, with which they are false (section 6). The argument is that installs which have read the same `package.json` do the same
to every file, so that it does not matter how they meet, and that the later of two that have read different ones notices.
`RunsInvariant` says so: a lockfile holds what the `package.json` it was made from calls for (`WholeLocks`); a clean install's `package.json` is the
one on disk (`Reading`); those that are not mixed have read what those they meet have read (`Agreement`); what they linked
(`LinkedStays`) and wrote (`WrittenStays`) stays or is written again alike; and while nothing is torn the state tells what is in
`node_modules` (`StateTells`). `StepsAreActs` reduces the twenty-odd actions to the ten kinds of step that differ for it.

**InstallRuns_proofs, the lockfile.** `LockLinksWhatWasMeant` (`LockReproduces`), `SnapshotsAreThere` (`EdgesAreKeys`) and `RewritesChangeNothing`
(`RewriteIsStable`), for any resolutions, orders of maps, edits and rounds of installs, gnpm's and other tools'. `RoundsInv` adds what a
file says of the tree it was written for: an npm file has every copy at its place, and what would be written again is that file without names and foreign content (`AtPathKeeps`); a pnpm file has an entry for every
package, and its keys lead (`KeysLead`). Both survive reading and writing, because a written file's keys are made of the packages that its entries are made of (`KeysOfPackages`)
and what is read back makes the same entries (`PnpmGivesBack`). Neither theorem assumes anything of peer contexts: `PeerSuffixes` may be any operator.

`RewritesChangeNothing` is about the whole file, contexts included. `FileInv` adds that the pnpm file of a settled tree is `FileOf` that tree, a function of the tree and of
nothing else: of no order of a map, of no choice among copies, and of no tool (`WritesFileOf`, `OwnIsFileOf`), and that it is written again from what is read of it (`FileOfIsStable`).
Its hypothesis `ContextsSettle` says that a resolution with one version per name, no alias and no ring of packages, of whatever length, is settled: its dependencies are in its reach, and `PeerSuffixes` gives the same contexts for every order and for what a pnpm file
leaves out. That it holds of `peerSuffixes` is what TLC checks on the run's resolutions (`ContextsSettleHere`); that it must be assumed of
the rest is because the recursion is out of the prover's reach. Assumed beside it is that what the resolver places has a path, and that copies of one version of a package differ in nothing else, as their metadata is one entry (`PlacedAssumption`).

**SharedHome_proofs, the packument cache.** `AnswersStayCurrent` (`AnswersAreCurrent`) and `TimesAreThere` (`TimesWhenRequired`), for any processes,
calls, registries, publications, ticks, and kills between any two file operations. `CacheInv` is about what a meta or an entry says of a
packument: `Claims(m, n)` is that packument `n` is no older than the validator of `m`, and than what was served at the tick from which its max-age counts. It adds:

* what is claimed is true of what is published (`MemoryOfPast`, `MetaOfPast`), and published packuments only rise (`HistoryRises`); an entry that is
  fresh while a call is on its way is as new as the call may expect (`AskedBefore`).
* a call that is to write has a packument it can use, and when it asks again for publish times it sends no validator, so that the second answer is not a 304 (`TimesAtHand`).
* while no two processes met at the files, what an entry in memory claims is true of its packument (`MemoryIsTrue`), what the meta claims is true of the body
  beside it, wherever a write was cut (`DiskIsTrue`), the packument to be written is one for which the meta still on disk is true (`WritesAreNewer`),
  and who has come half way finds the body as he read or wrote it (`BodyStays`).

They are needed because two files cannot be replaced at once: after a kill the old meta stands beside the new body. This is harmless only because the body is newer
than what the old meta is about, and a 304 confirms what the validator names and not what the file holds. `TimesAreThere` needs no such condition.
Assumed is, beside what the module says of bounds and registries, that no file and a torn file are no data (`NothingAssumption`).

**Resolution_proofs, the hoisted linker.** `PackagesInPlace` (`EveryPackageInPlace`) and `TopLevelStaysRight` (`TopLevelIsRight`), for any packages, paths of any
depth, layouts, tasks in flight, installs, failures and kills. `LinkerInv` adds:

* tasks at work are of the depth at hand, and all above it are done (`DepthByDepth`); at and below it nothing new is there that a task did not
  make for itself (`UntouchedBelow`, `OwnTask`). So a directory that a task meets and takes for materialized was there when the install
  began, and what a fallback removes, the package's directory and all below it, holds nothing of this install.
* what a task is done with stays until the install ends (`DoneStays`): deeper tasks make parents only where nothing is, and a local dependency is never linked over a package.
* the links made so far (`LinksMade`), that a member's name keeps the entry it had (`MembersStay`), where each entry comes from (`AllAccounted`), and that prune left only names it keeps (`KeptOnly`).

They are needed because `EveryPackageInPlace` speaks of the end only, and the depth-by-depth order is what lets a task remove and replace without looking
at the others: with all depths in one batch a fallback takes nested packages away. Assumed is that every prefix of an install path is a path, and that nothing is nested
under a local dependency or a member. The first attempt at `TopLevelStaysRight` failed on a case that the layouts of the run did not have:
a bare entry, made only to hold what is nested under a hoisted package left out for the platform, may stay under the protection of a nested namesake.
`TopLevelIsRight` now says so, and the run has such a layout (`UnderB`).

**Solver_proofs.** `SolverIsSound` (`SolvedIsSolution`), `ConflictUndoesTheLast` (`LastIsBlamed`) and `LockIsKept` (`LockedSolutionIsKept`), for
any packages, versions, ranges, overrides, requests and limit of turns. While it solves, the solver is in one of three states, and `SolverInv` says so:

* `Advancing`. Decisions stand on known versions that nobody has forbidden and that satisfy the ranges derived before them
  (`DecisionsStand`), there is one to each level (`OneEach`, `EveryLevel`), every derived range is a requirement of a decided version (`Caused`), and each requirement of a decided version is
  *covered*, by a decided version or by the ranges derived at its level, or is still to be visited (`CoveredAll`). An incompatibility is a requirement
  of some version or a version given up (`Forms`), and no version that is named is undecided (`ParentsDecided`).
* `Backtracked`. A version has just been given up. It was one of the package decided last, which had the fewest viable versions then
  (`PickedLast`) and has fewer now, so it is picked again at once (`Fewer`), before the incompatibility just learned could bear on anything else.
* `Stuck`. Nothing viable is left of a package that must be decided. The code then blames the package alone, and the proof shows
  that it never recovers: it fails or runs out of turns.

They are needed because `SolvedIsSolution` speaks of the end only: that a requirement of a decided version is still seen to after decisions were undone follows from
which of them are, and what was derived with them. That no decision but the last is ever undone is what makes the three states enough. For a lockfile that is a solution `LockInv` adds that
nothing is forbidden, that every decision is the lockfile's, and that the turn is that of the level (`FollowsTheLock`); so there must be more turns than packages, as 50000 are.
Assumed are finitely many packages, requests that name them, and versions that are releases. Ranges come in by `Range_proofs`: the status of a term is
a relation of points (`OpenStatus`).

Only model-checked, and why:

* all liveness (`Returns`, `InstallReturns`, `Ends`, `SolverEnds`), because no prover here does `WF` or `ENABLED`;
* what `peerSuffixes` computes (`PeerContexts`), which has RECURSIVE operators: the provers cannot use them. The theorems about `LockfileRounds` hold of any contexts,
  `RewritesChangeNothing` of those that settle.

## 6. Seen while modelling

Behaviours of the code that differ from what a comment or doc says, modelled as the
code does them but not run as findings:

* `regprovider/provider.go:102`: a lookup between the close of a failed request and its
  eviction gets the old failure, although the eviction is there "so a transient
  failure does not poison later lookups".
* `treeresolver.go:293` argues that cycles of git sources end because the ancestor walk
  finds the matching instance. Sources that alternate (a#1, b#1, a#2, b#2, a#1) shadow
  each other and nest without end (`SourceRing`). So do versions from the registry, without any source, at
  `treeresolver.go:195`: a@1 needs b@1, which needs a@2, which needs b@2, which needs a@1.
* `treeresolver.go:237`, "keep first": when the first of two edges of one requirer was
  satisfied from above, the second one nests another version that shadows it.
* `treeresolver.go:192`, "handled elsewhere": a transitive `npm:` alias is dropped and
  nothing handles it.
* `hoistedtree.go:107`: a hoisted package installed under the root's alias is no longer found
  by packages that require it under its own name; an alias equal to another package's
  name gives two placements one path. `EdgesLeadToChoice` sets these edges apart.
* `store.go:183`: the executable bit of a stored file is that of the first tarball
  with its content. `platform/fs.go:24`: the copy fallback truncates a target that is
  already a link to the stored file, when two jobs share a directory.
  `store.go:158`: a tarball that lists a path twice, and whose content is stored, makes the second link of the extracted tree fall back to
  that copy. The model has no such tarballs.
* `linker/hoisted.go:51`: a directory left partial by a kill is kept for good.
* `linker/isolated.go:75`: so is a link of the virtual store, wherever it leads; after an update a package may go on
  with the old version of its dependency (`LinksAreCurrent` states otherwise, and TLC refutes it).
* `installer/locallinks.go:48`: where a registry package was, a local dependency cannot be linked: `os.Remove` does not
  remove a directory that holds something, and this install and every later one fails
  (`LocalsLink`, which TLC refutes). The other way round, a package is never installed where the link was.
* `installer/scripts.go`: in the hoisted layout a nested package's scripts run in the directory of the top-level
  package of its name, because `linkedPath` takes `spec.Name`. A package whose only script is `prepare` runs it without asking the gate.
* `nonregistry.go:95`, "so a failed fetch can't poison the cache": a kill between clone and checkout leaves a clone at the
  default branch that every later install takes for the pinned commit. Two processes at one checkout take, or remove,
  each other's half-made clone, and may record the default branch's head for a tag. A checkout of a branch is never
  updated: an install that resolves anew records the commit of the first clone.
* `installer.go:245`: floors are recorded before the frozen check, the link and the scripts, so also for what is never installed.
  `installer.go:778` compares versions as text, so that 9.0.0 counts as more than 10.0.0. A tree with two versions of a
  package sets the floor to one of them, and under no-downgrade the same manifest may not resolve again. `trust.go:65` does not
  stamp a record whose version is placed again, so it grows too old; and the file goes with `node_modules`.
* `workspacestate/state.go:31`: the hash does not cover `--production`: a plain install after a production one has nothing to do, though
  `verify.go:12` speaks of "whether node_modules matches the project's declared dependencies".
* `cli/run_exec.go:152`, `installer.go:66`: two commands that read different `package.json` files at once may leave
  the packages of one recorded as the other's (`UpToDateIsTrue` without `mixed` in `torn`).
* `cli/install_commands.go:171`: `add` of a bare name writes its range into `package.json` after lockfile and state were written, so the
  install after it resolves anew, and writes the lockfile. The version is that of any package of that
  name in the lockfile. `install_commands.go:163`: an `add` that fails leaves its edit.
  `pkgedit.go:48`: a kill in the write leaves an empty `package.json`; an edit between load and save is lost.
* `installer.go:170`: `doc/spec.md:383` has `ci` abort when the lockfile does not match `package.json`. It resolves, fails only if
  a package is new, and may write the lockfile. `install_commands.go:215`: `update` sets an option that nothing reads,
  though `doc/spec.md:386` says that it bumps.
* `installer.go:265`: an install that fails after it has pruned leaves the previous
  state standing; putting `package.json` back makes it match.
* `installer.go:304`: a frozen install may write the lockfile. `locked.go:32`: the
  lockfile of a production install is trusted by a full one, and lacks its packages.
  `locked.go:130`: a production install on the locked path brings development packages.
* `locked.go:163`: the lockfile path links no member of the workspace (`MembersLocked`); whether members have their links depends on
  whether some earlier install resolved.
* `locked.go:131`: the lockfile in memory has no libc, so it also takes packages for another C library, which prune then keeps;
  `doc/spec.md:303` says that an install against a file of npm's reproduces the same tree (`NpmTreeIsReproduced` in `LockfileRounds`,
  which TLC refutes). `locked.go:134`: it does not wire optional
  dependencies, and `locked.go:124` takes one version per name, so in the isolated layout packages that
  need two versions of one get the same. `LockReproduces` asks for required dependencies, in some version of the resolution.
* `installer.go:307`: on the resolving path the audit comes after the state, so the
  install after one that failed its audit is up to date.

* `installer.go:172`: `doc/pipelined-install.md` says that the cancellation after a tarball
  failure makes the resolver's next ask fail. The provider holds the context of the
  install, not the derived one that is cancelled, so the resolver goes on fetching metadata.
* `installer.go:298`: a full resolve builds the lockfile without the `Pnpm` passthrough, so
  `overrides`, `patchedDependencies` and `settings` of pnpm's file are lost when a
  dependency is added, though `schema.go:17` says they are preserved (`KeepsPnpmContent`
  states it, and TLC refutes it).
* `convert.go:341`: peer contexts of packages that depend on each other depend on the order
  of a Go map, so the same lockfile is written in two ways, though `detect.go:63`
  says unchanged ones do not churn. `RewriteIsStable` sets them apart.
* `convert.go:192`: catalogs are read and never written; `convert.go:103`: `deprecated`, `bundledDependencies`, `transitivePeerDependencies` and all of
  a resolution but its integrity are dropped. `pnpm.go:10` says that a round trip through the writer is lossless, and `doc/spec.md:309` that
  what is written is equivalent in meaning (`PnpmContentIsKept` states it, and TLC refutes it). `npm.go:147`: `peerDependenciesMeta` is written and not read, and npm's libc, license
  and flags are not either. `RewriteIsStable` allows for such content of other tools' files (`Stripped`).
* `convert.go:136`: of a name with two versions one is picked for all edges of a pnpm file.
* `convert.go:278`: a direct dependency that was not installed (an optional one for another
  platform that is nowhere, an alias) is dropped from the pnpm importer, so the lockfile
  never mirrors `package.json` again and every install resolves anew.
* `npm.go:196`: the name of a package comes from its path, so an alias loses its name in
  `package-lock.json`.
* `linker/hoisted.go:51`: a directory that exists is kept whatever its version, and prune looks
  at top-level names only, so an install of other versions leaves the old ones in place, though
  `prune.go:14` speaks of a tree that "matches the resolved set" (`TreeMatchesResolved` in
  `HoistedLinker` states it, and TLC refutes it).
* `convert.go:75`: pnpm's file carries no bins, scripts or paths, so an install from it makes no
  shims in `.bin`, and two versions of one package are both meant for the top level;
  `convert.go:11` calls the conversion "lossless for install purposes"
  (`LosslessForInstall`, which TLC refutes).
* `pubgrub.go:14` argues that the loop ends because each conflict forbids a pair. A declared
  range that is empty adds the same incompatibility turn after turn until the cap of 50000.
  The culprit of a conflict is always the last decision (`ConflictUndoesTheLast`); and when the versions of a
  package run out, none is to blame and the whole resolution fails, though another
  version of the package that asked for it would do.
* `pubgrub.go:504`: an override under a parent is not asked when an optional dependency
  is tested for a satisfying version. `pubgrub.go:314`: one that cannot be reached fails everything.
* `registry/cache.go:109`: two processes that write one packument at once leave the body of one
  answer with the etag of another, which every later 304 confirms
  (`AnswersAreCurrent` without `~overlapped` finds it).
* `registry/client.go:121`: in `--offline` mode the second call for a packument whose freshness has
  run out fails, though the first was answered from the same file.
* `installer.go:245`: the records can stop a project that has not changed. A package that names
  another from a source, and again as a range that what it gets from there does not meet, keeps
  the first, as long as the range has a candidate; a floor raised by the same version from the
  registry takes it away, and the next full resolve fails (`ResolvesAgain` with versions counted
  instead of `OneOfEach` finds it).
* `range.go:101`: an intersection admits a prerelease that one side names, although the other side
  alone would reject it; `Subset` and `Equal` do not see prereleases at all.

## 7. Not modelled

JSON, YAML and tar parsing, signature cryptography, printing and flags are data or
I/O. In the models: `declaredRegistryDeps`
(aliases, catalogs, dist-tags) is `Wanted`; the fields copied into link specs are left out;
a lockfile is its content, so that layout and order of keys, by which the first write of another tool's file may differ, are left out;
bin shims and scope directories are left out of `HoistedLinker`; a `git` source is
an environment that answers or fails in `TreeResolver`. `PackumentCache` leaves the tarball cache out. Also left out are the
`node_modules` of workspace members, downloads over https and config dependencies, the environment
of a script, what a command of the user does with `node_modules`, and a `clean` while other
commands run (`Clean` waits for them). The engine key is constant, so that it is no part of the state hash. `PROJECT.json` lists each component with its status and reason.

## 8. Plan

1. Pure algorithms as operators with reference definitions: precedence of configuration,
   catalogs and overrides.
2. `dlx` and its cache, the tarball cache, the members' own `node_modules`.
3. Proofs: that the contexts of trees without cycles settle, with the recursions of `PeerContexts` as functions on finite sets.
