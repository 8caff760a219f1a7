---------------------------- MODULE ContentStore ----------------------------
(***************************************************************************)
(* The global content-addressable store (internal/store) under several     *)
(* installs at once: IngestTarball interns the files of a tarball, commits *)
(* an index through a temporary path and builds an extracted tree;         *)
(* Materialize reconstructs a package in node_modules by clonefile, hard   *)
(* links or copies.  A job is one linker task: ingest a tarball, then link *)
(* it into a directory that does not exist yet (internal/linker).  Jobs of *)
(* one or of several processes interleave at every system call, and a      *)
(* process may be killed between any two and be run again.                 *)
(*                                                                         *)
(* A stored file, and an index, is an inode: a hard link in node_modules   *)
(* shares it, and a writer with an open descriptor writes to the inode     *)
(* wherever its path has been renamed to.                                  *)
(*                                                                         *)
(* A plan says which jobs there are, what they ingest, where they link it, *)
(* on which platform, and how often one may be started.                    *)
(***************************************************************************)
EXTENDS Naturals, FiniteSets

CONSTANTS
  Jobs,      \* the ingest-and-link tasks
  Contents,  \* file contents, named by their SHA-512
  Tarballs,
  FilesOf,   \* tarball -> the contents of its files
  Dests,     \* directories in some node_modules
  Plans      \* [tarball, dest: job -> .., platform, runs]

(* clone: macOS; link: one file system; copy: links fail across devices.   *)
Platforms == {"clone", "link", "copy"}

ASSUME StoreAssumption ==
  /\ FilesOf \in [Tarballs -> SUBSET Contents]
  /\ \A p \in Plans :
       /\ DOMAIN p.tarball = DOMAIN p.dest /\ DOMAIN p.dest \subseteq Jobs
       /\ p.tarball \in [DOMAIN p.dest -> Tarballs] /\ p.dest \in [DOMAIN p.dest -> Dests]
       /\ p.platform \in Platforms
       /\ p.runs \in Nat \ {0}

VARIABLES
  plan,      \* who installs what, where; it never changes
  file,      \* content -> absent, good, or empty: the stored inode
  idx, tmp,  \* tarball -> inode at the index path and at path + ".tmp"
  data,      \* index inode -> empty or full
  extracted, \* tarballs with a committed extracted tree
  exists,    \* directories that exist under node_modules
  entry,     \* directory -> content -> absent, link, part, or copy
  pc, fd, todo, runs   \* job: position, open index inode, files left, starts

storeVars == <<plan, file, idx, tmp, data, extracted>>
destVars  == <<exists, entry>>
jobVars   == <<pc, fd, todo, runs>>
vars == <<storeVars, destVars, jobVars>>

(* Enough for every index path, temporary path and descriptor to have one. *)
NoInode == 0
Inodes  == 1..(2 * Cardinality(Tarballs) + Cardinality(Jobs))

Writing == {"write", "commit"}
Stages  == {"idle", "read", "intern", "open", "remove", "tree", "check", "clear",
            "manifest", "files", "done", "failed"} \cup Writing
Ended   == {"done", "failed"}

Active == DOMAIN plan.dest
T(j) == plan.tarball[j]
D(j) == plan.dest[j]
Full(t) == idx[t] # NoInode /\ data[idx[t]] = "full"

TypeOK ==
  /\ plan \in Plans
  /\ file \in [Contents -> {"absent", "good", "empty"}]
  /\ idx \in [Tarballs -> Inodes \cup {NoInode}]
  /\ tmp \in [Tarballs -> Inodes \cup {NoInode}]
  /\ data \in [Inodes -> {"empty", "full"}]
  /\ extracted \subseteq Tarballs
  /\ exists \subseteq Dests
  /\ entry \in [Dests -> [Contents -> {"absent", "link", "part", "copy"}]]
  /\ pc \in [Jobs -> Stages]
  /\ fd \in [Jobs -> Inodes \cup {NoInode}]
  /\ \A j \in Jobs : fd[j] # NoInode <=> pc[j] \in Writing
  /\ todo \in [Jobs -> SUBSET Contents]
  /\ runs \in [Jobs -> 0..plan.runs]
  /\ \A j \in Jobs \ Active : pc[j] = "idle"

Init ==
  /\ plan \in Plans
  /\ file = [c \in Contents |-> "absent"]
  /\ idx = [t \in Tarballs |-> NoInode]
  /\ tmp = [t \in Tarballs |-> NoInode]
  /\ data = [i \in Inodes |-> "empty"]
  /\ extracted = {}
  /\ exists = {}
  /\ entry = [d \in Dests |-> [c \in Contents |-> "absent"]]
  /\ pc = [j \in Jobs |-> "idle"]
  /\ fd = [j \in Jobs |-> NoInode]
  /\ todo = [j \in Jobs |-> {}]
  /\ runs = [j \in Jobs |-> 0]

Goto(j, stage) == pc' = [pc EXCEPT ![j] = stage]

-----------------------------------------------------------------------------
(* The job is started, for the first time or again.                        *)
Start(j) ==
  /\ j \in Active /\ pc[j] = "idle"
  /\ runs[j] < plan.runs
  /\ runs' = [runs EXCEPT ![j] = @ + 1]
  /\ Goto(j, "read")
  /\ UNCHANGED <<storeVars, destVars, fd, todo>>

(* The process is killed: it loses its descriptors and runs no deferred    *)
(* cleanup.                                                                *)
Crash(j) ==
  /\ pc[j] \notin {"idle"} \cup Ended
  /\ runs[j] < plan.runs
  /\ Goto(j, "idle")
  /\ fd' = [fd EXCEPT ![j] = NoInode]
  /\ todo' = [todo EXCEPT ![j] = {}]
  /\ UNCHANGED <<storeVars, destVars, runs>>

-----------------------------------------------------------------------------
(* ReadManifest: an existing index ends the ingest, one that does not      *)
(* parse fails it, and without one the tarball is extracted.               *)
ReadIndex(j) ==
  /\ pc[j] = "read"
  /\ IF idx[T(j)] = NoInode
     THEN Goto(j, "intern") /\ todo' = [todo EXCEPT ![j] = FilesOf[T(j)]]
     ELSE Goto(j, IF Full(T(j)) THEN "check" ELSE "failed") /\ UNCHANGED todo
  /\ UNCHANGED <<storeVars, destVars, fd, runs>>

(* intern: the first file with some content is renamed onto its path, a    *)
(* later one is dropped.  The index is next once every file is interned.   *)
Intern(j, c) ==
  /\ pc[j] = "intern" /\ c \in todo[j]
  /\ todo' = [todo EXCEPT ![j] = @ \ {c}]
  /\ IF file[c] = "absent"
     THEN file' = [file EXCEPT ![c] = "good"]
     ELSE UNCHANGED file
  /\ UNCHANGED <<plan, idx, tmp, data, extracted, destVars, pc, fd, runs>>

(* Bug: the index is opened while files are still being interned.          *)
InternedEarly(j) ==
  /\ pc[j] = "intern"
  /\ todo' = [todo EXCEPT ![j] = {}]
  /\ Goto(j, "open")
  /\ UNCHANGED <<storeVars, destVars, fd, runs>>

Interned(j) ==
  /\ pc[j] = "intern" /\ todo[j] = {}
  /\ Goto(j, "open")
  /\ UNCHANGED <<storeVars, destVars, fd, todo, runs>>

FreeInode(i) ==
  \A t \in Tarballs, j \in Jobs : i \notin {idx[t], tmp[t], fd[j]}

(* Bug: the index is written in place.                                     *)
OpenInPlace(j) ==
  /\ pc[j] = "open"
  /\ \E i \in Inodes :
       /\ IF idx[T(j)] # NoInode THEN i = idx[T(j)] ELSE FreeInode(i)
       /\ idx' = [idx EXCEPT ![T(j)] = i]
       /\ data' = [data EXCEPT ![i] = "empty"]
       /\ fd' = [fd EXCEPT ![j] = i]
  /\ Goto(j, "write")
  /\ UNCHANGED <<plan, file, tmp, extracted, destVars, todo, runs>>

(* os.WriteFile(path + ".tmp") opens with O_CREATE and O_TRUNC: the path   *)
(* is the same for every ingest of the tarball.                            *)
OpenTmp(j) ==
  /\ pc[j] = "open"
  /\ \E i \in Inodes :
       /\ IF tmp[T(j)] # NoInode
          THEN i = tmp[T(j)]
          ELSE FreeInode(i) /\ \A k \in 1..(i - 1) : ~FreeInode(k)
       /\ tmp' = [tmp EXCEPT ![T(j)] = i]
       /\ data' = [data EXCEPT ![i] = "empty"]
       /\ fd' = [fd EXCEPT ![j] = i]
  /\ Goto(j, "write")
  /\ UNCHANGED <<plan, file, idx, extracted, destVars, todo, runs>>

WriteTmp(j) ==
  /\ pc[j] = "write"
  /\ data' = [data EXCEPT ![fd[j]] = "full"]
  /\ Goto(j, "commit")
  /\ UNCHANGED <<plan, file, idx, tmp, extracted, destVars, fd, todo, runs>>

(* os.Rename onto the index path.  It fails when another ingest renamed or *)
(* removed the temporary path; the index is there by then, and stays, so   *)
(* that it does not matter when it is asked for.                           *)
Commit(j) ==
  /\ pc[j] = "commit"
  /\ fd' = [fd EXCEPT ![j] = NoInode]
  /\ tmp' = [tmp EXCEPT ![T(j)] = NoInode]
  /\ IF tmp[T(j)] # NoInode
     THEN idx' = [idx EXCEPT ![T(j)] = tmp[T(j)]] /\ Goto(j, "tree")
     ELSE UNCHANGED idx /\ Goto(j, IF idx[T(j)] # NoInode THEN "remove" ELSE "failed")
  /\ UNCHANGED <<plan, file, data, extracted, destVars, todo, runs>>

(* os.Remove of the temporary path, which may be that of a third ingest.   *)
RemoveTmp(j) ==
  /\ pc[j] = "remove"
  /\ tmp' = [tmp EXCEPT ![T(j)] = NoInode]
  /\ Goto(j, "tree")
  /\ UNCHANGED <<plan, file, idx, data, extracted, destVars, fd, todo, runs>>

(* populateExtracted: a private staging tree of hard links, renamed into   *)
(* place unless another ingest was first.  Its errors are ignored.  It is  *)
(* one step, since nobody else reads the staging tree and stored files are *)
(* only linked to; that is not so for a tarball that lists a path twice,   *)
(* where the second link falls back to a copy over the first (Hardlink),   *)
(* and FilesOf has no such tarballs.                                       *)
BuildTree(j) ==
  /\ pc[j] = "tree"
  /\ extracted' \in {extracted, extracted \cup {T(j)}}
  /\ Goto(j, "check")
  /\ UNCHANGED <<plan, file, idx, tmp, data, destVars, fd, todo, runs>>

-----------------------------------------------------------------------------
(* Bug: the linker materializes over an existing directory.                *)
CheckNothing(j) ==
  /\ pc[j] = "check"
  /\ Goto(j, "clear")
  /\ UNCHANGED <<storeVars, destVars, fd, todo, runs>>

(* The linker skips a directory that exists: "already materialized".       *)
Check(j) ==
  /\ pc[j] = "check"
  /\ Goto(j, IF D(j) \in exists THEN "done" ELSE "clear")
  /\ UNCHANGED <<storeVars, destVars, fd, todo, runs>>

(* Materialize, with an extracted tree: clonefile copies it in one call    *)
(* onto a path that must not exist; when it fails, or off macOS, the       *)
(* destination is removed and the per-file path follows.                   *)
CloneOrClear(j) ==
  /\ pc[j] = "clear"
  /\ IF T(j) \notin extracted
     THEN Goto(j, "manifest") /\ UNCHANGED destVars
     ELSE IF plan.platform = "clone" /\ D(j) \notin exists
     THEN /\ Goto(j, "done")
          /\ exists' = exists \cup {D(j)}
          /\ entry' = [entry EXCEPT ![D(j)] =
                         [c \in Contents |-> IF c \in FilesOf[T(j)] THEN "copy" ELSE "absent"]]
     ELSE /\ Goto(j, "manifest")
          /\ exists' = exists \ {D(j)}
          /\ entry' = [entry EXCEPT ![D(j)] = [c \in Contents |-> "absent"]]
  /\ UNCHANGED <<storeVars, fd, todo, runs>>

ReadManifest(j) ==
  /\ pc[j] = "manifest"
  /\ IF Full(T(j))
     THEN /\ Goto(j, "files")
          /\ exists' = exists \cup {D(j)}
          /\ todo' = [todo EXCEPT ![j] = FilesOf[T(j)]]
     ELSE Goto(j, "failed") /\ UNCHANGED <<exists, todo>>
  /\ UNCHANGED <<storeVars, entry, fd, runs>>

Set(d, c, how) == entry' = [entry EXCEPT ![d][c] = how]

(* os.Link onto a free name.                                               *)
LinkFile(j, c) ==
  /\ pc[j] = "files" /\ c \in todo[j]
  /\ plan.platform # "copy"
  /\ D(j) \in exists /\ entry[D(j)][c] = "absent" /\ file[c] # "absent"
  /\ Set(D(j), c, "link")
  /\ todo' = [todo EXCEPT ![j] = @ \ {c}]
  /\ UNCHANGED <<storeVars, exists, pc, fd, runs>>

(* The link failed, so CopyFile opens the target with O_TRUNC: a target    *)
(* that is a link to the stored file truncates the stored file, and the    *)
(* copy has nothing left to read.                                          *)
CopyOntoItself(j, c) ==
  /\ pc[j] = "files" /\ c \in todo[j]
  /\ D(j) \in exists /\ entry[D(j)][c] = "link"
  /\ file' = [file EXCEPT ![c] = "empty"]
  /\ todo' = [todo EXCEPT ![j] = @ \ {c}]
  /\ UNCHANGED <<plan, idx, tmp, data, extracted, destVars, pc, fd, runs>>

CopyBegin(j, c) ==
  /\ pc[j] = "files" /\ c \in todo[j]
  /\ D(j) \in exists /\ file[c] # "absent"
  /\ \/ entry[D(j)][c] = "copy"
     \/ (entry[D(j)][c] = "absent" /\ plan.platform = "copy")
  /\ Set(D(j), c, "part")
  /\ UNCHANGED <<storeVars, exists, jobVars>>

CopyEnd(j, c) ==
  /\ pc[j] = "files" /\ c \in todo[j]
  /\ D(j) \in exists /\ entry[D(j)][c] = "part"
  /\ Set(D(j), c, "copy")
  /\ todo' = [todo EXCEPT ![j] = @ \ {c}]
  /\ UNCHANGED <<storeVars, exists, pc, fd, runs>>

(* The stored file or the directory is gone: linking and copying fail.     *)
FileFails(j, c) ==
  /\ pc[j] = "files" /\ c \in todo[j]
  /\ D(j) \notin exists \/ file[c] = "absent"
  /\ Goto(j, "failed")
  /\ UNCHANGED <<storeVars, destVars, fd, todo, runs>>

(* Bug: Materialize returns before its file tasks have ended.              *)
FinishEarly(j) ==
  /\ pc[j] = "files"
  /\ Goto(j, "done")
  /\ UNCHANGED <<storeVars, destVars, fd, todo, runs>>

Finish(j) ==
  /\ pc[j] = "files" /\ todo[j] = {}
  /\ Goto(j, "done")
  /\ UNCHANGED <<storeVars, destVars, fd, todo, runs>>

-----------------------------------------------------------------------------
Ingest(j) ==
  \/ ReadIndex(j) \/ (\E c \in Contents : Intern(j, c)) \/ Interned(j)
  \/ OpenTmp(j) \/ WriteTmp(j) \/ Commit(j) \/ RemoveTmp(j) \/ BuildTree(j)

Materialize(j) ==
  \/ CloneOrClear(j) \/ ReadManifest(j)
  \/ \E c \in Contents :
       LinkFile(j, c) \/ CopyOntoItself(j, c) \/ CopyBegin(j, c) \/ CopyEnd(j, c) \/ FileFails(j, c)
  \/ Finish(j)

Step(j) == Start(j) \/ Ingest(j) \/ Check(j) \/ Materialize(j)

Next == \E j \in Jobs : Step(j) \/ Crash(j)

Spec == Init /\ [][Next]_vars

-----------------------------------------------------------------------------
Alone(j) == \A k \in Active \ {j} : T(k) # T(j)
Apart(j) == \A k \in Active \ {j} : D(k) # D(j)

(* An index is only ever committed after the files it lists, so whoever    *)
(* finds an index can link from it, whatever was killed and whoever else   *)
(* is ingesting; and once every job has ended and no process was killed,   *)
(* the index of every tarball is whole, however many ingests of it         *)
(* overlapped: a torn one is transient as long as its writers live         *)
(* (IngestTarball, writeIndex, Materialize).                               *)
IndexIsWhole ==
  /\ \A t \in Tarballs : idx[t] # NoInode => \A c \in FilesOf[t] : file[c] # "absent"
  /\ (\A j \in Active : pc[j] \in Ended /\ runs[j] = 1) => \A j \in Active : Full(T(j))

(* Linking into directories of their own never destroys stored content,    *)
(* which every other project on the machine shares (Materialize, Hardlink, *)
(* CopyFile).                                                              *)
StoreIntact == (\A j \in Active : Apart(j)) => \A c \in Contents : file[c] # "empty"

(* Whatever was killed before, a rerun over the same store succeeds, when  *)
(* its tarball and its directory are its own (IngestTarball, Materialize). *)
RerunSucceeds == \A j \in Active : Alone(j) /\ Apart(j) => pc[j] # "failed"

Intact(d, c) == entry[d][c] = "copy" \/ (entry[d][c] = "link" /\ file[c] = "good")

(* Unless directories are shared, a job that reports success at its first  *)
(* attempt has the whole package in place (Materialize).                   *)
DoneIsComplete ==
  (\A j \in Active : Apart(j)) =>
    \A j \in Active : pc[j] = "done" /\ runs[j] = 1 => \A c \in FilesOf[T(j)] : Intact(D(j), c)

(* "Ingest writes through a temp path and os.Rename so a concurrent ingest *)
(* of the same tarball is safe": no ingest finds an index it cannot read.  *)
ConcurrentIngestIsSafe == \A j \in Active : pc[j] # "failed"
=============================================================================
