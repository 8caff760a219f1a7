--------------------------- MODULE TarballFetcher ---------------------------
(***************************************************************************)
(* The tarball pool of a pipelined install (internal/installer,            *)
(* hoistedtree.go): the resolver submits each package the moment it is     *)
(* placed; a fixed set of workers takes packages from a bounded channel,   *)
(* deduplicates them by name@version, and downloads, verifies and ingests  *)
(* each one while resolution goes on.  The first error cancels the context *)
(* of the pool, and Operation.Run joins the pool before it reads the       *)
(* result.                                                                 *)
(*                                                                         *)
(* The metadata provider and the registry are an environment here: an ask  *)
(* or a download ends with any outcome.  PipelinedInstall composes the     *)
(* pool with the shared provider.                                          *)
(***************************************************************************)
EXTENDS Naturals, Sequences

CONSTANTS Keys,           \* resolved packages, name@version
          OtherPlatform,  \* those platformMatches rejects
          Workers,        \* the goroutines of the pool
          NoKey,          \* the key of a worker that holds none
          Cap,            \* capacity of the channel
          MaxPlacements   \* bound: placements of one resolution

ASSUME PoolAssumption ==
  /\ OtherPlatform \subseteq Keys
  /\ NoKey \notin Keys
  /\ Workers # {}
  /\ Cap \in Nat \ {0}
  /\ MaxPlacements \in Nat

VARIABLES
  ch, closed,      \* f.ch: buffered packages, and whether it was closed
  cancelled,       \* f.ctx is done
  seen,            \* f.seen
  infos,           \* f.infos: none, stored, skipped, or empty after an error
  ferr,            \* f.err: none, or the cause of the first error
  wpc, wkey,       \* each worker's position and the package it holds
  rpc, rkey,       \* Operation.Run's position and the package it submits
  rerr,            \* the error treeresolver.Resolve returned, if any
  placed, count,   \* packages handed to submit, and how many calls
  fetches,         \* package -> calls of fetchOne
  verdict          \* what the phase returned

chanVars == <<ch, closed>>
poolVars == <<cancelled, seen, infos, ferr, fetches>>
workVars == <<wpc, wkey>>
runVars  == <<rpc, rkey, rerr, placed, count, verdict>>
vars == <<chanVars, poolVars, workVars, runVars>>

Causes   == {"fetch", "canceled"}
InfoKind == {"none", "stored", "skipped", "empty"}

(* recv: blocked in range f.ch; dedup: holds a received package; slice:    *)
(* asks the provider; download: client.Tarball and verifySignature, both   *)
(* under f.ctx; ingest: IngestTarball; stored, skipped, fetch, canceled:   *)
(* holds that result of fetchOne, to be recorded; exited: has returned.    *)
WorkerPCs == {"recv", "dedup", "slice", "download", "ingest",
              "stored", "skipped", "fetch", "canceled", "exited"}
RunPCs == {"walk", "submit", "join", "returned"}

TypeOK ==
  /\ ch \in Seq(Keys) /\ Len(ch) <= Cap
  /\ closed \in BOOLEAN /\ cancelled \in BOOLEAN
  /\ seen \subseteq Keys
  /\ infos \in [Keys -> InfoKind]
  /\ ferr \in Causes \cup {"none"}
  /\ wpc \in [Workers -> WorkerPCs]
  /\ wkey \in [Workers -> Keys \cup {NoKey}]
  /\ \A w \in Workers : wpc[w] \in {"recv", "exited"} <=> wkey[w] = NoKey
  /\ rpc \in RunPCs
  /\ rkey \in Keys \cup {NoKey}
  /\ rpc = "submit" <=> rkey # NoKey
  /\ rerr \in BOOLEAN
  /\ placed \subseteq Keys
  /\ count \in 0..MaxPlacements
  /\ fetches \in [Keys -> Nat]
  /\ verdict \in {"running", "ok", "fetch", "canceled", "resolve"}

Init ==
  /\ ch = <<>> /\ closed = FALSE
  /\ cancelled = FALSE
  /\ seen = {}
  /\ infos = [k \in Keys |-> "none"]
  /\ ferr = "none"
  /\ wpc = [w \in Workers |-> "recv"]
  /\ wkey = [w \in Workers |-> NoKey]
  /\ rpc = "walk" /\ rkey = NoKey /\ rerr = FALSE
  /\ placed = {} /\ count = 0
  /\ fetches = [k \in Keys |-> 0]
  /\ verdict = "running"

-----------------------------------------------------------------------------
(* The resolver places a package and calls OnResolved, which is submit.    *)
Place(k) ==
  /\ rpc = "walk"
  /\ count < MaxPlacements
  /\ rpc' = "submit"
  /\ rkey' = k
  /\ placed' = placed \cup {k}
  /\ count' = count + 1
  /\ UNCHANGED <<chanVars, poolVars, workVars, rerr, verdict>>

(* submit, case f.ch <- u.                                                 *)
SubmitSend ==
  /\ rpc = "submit"
  /\ Len(ch) < Cap
  /\ ch' = Append(ch, rkey)
  /\ rpc' = "walk"
  /\ rkey' = NoKey
  /\ UNCHANGED <<closed, poolVars, workVars, rerr, placed, count, verdict>>

(* submit, case <-f.ctx.Done(): the package is dropped.                    *)
SubmitDrop ==
  /\ rpc = "submit"
  /\ cancelled
  /\ rpc' = "walk"
  /\ rkey' = NoKey
  /\ UNCHANGED <<chanVars, poolVars, workVars, rerr, placed, count, verdict>>

(* Resolve returns, with or without an error, and Run closes the channel.  *)
Resolved(err) ==
  /\ rpc = "walk"
  /\ rerr' = err
  /\ closed' = TRUE
  /\ rpc' = "join"
  /\ UNCHANGED <<ch, poolVars, workVars, rkey, placed, count, verdict>>

(* Bug: Run looks at the error of the resolver only.                       *)
JoinedUnchecked ==
  /\ rpc = "join"
  /\ \A w \in Workers : wpc[w] = "exited"
  /\ cancelled' = TRUE
  /\ rpc' = "returned"
  /\ verdict' = IF rerr THEN "resolve" ELSE "ok"
  /\ UNCHANGED <<chanVars, seen, infos, ferr, fetches, workVars, rkey, rerr, placed, count>>

(* closeAndWait returns once every worker has exited; Run prefers the      *)
(* pool's error over the resolver's.                                       *)
Joined ==
  /\ rpc = "join"
  /\ \A w \in Workers : wpc[w] = "exited"
  /\ cancelled' = TRUE
  /\ rpc' = "returned"
  /\ verdict' = IF ferr # "none" THEN ferr ELSE IF rerr THEN "resolve" ELSE "ok"
  /\ UNCHANGED <<chanVars, seen, infos, ferr, fetches, workVars, rkey, rerr, placed, count>>

-----------------------------------------------------------------------------
Goto(w, stage) == wpc' = [wpc EXCEPT ![w] = stage]

Receive(w) ==
  /\ wpc[w] = "recv"
  /\ ch # <<>>
  /\ ch' = Tail(ch)
  /\ wkey' = [wkey EXCEPT ![w] = Head(ch)]
  /\ Goto(w, "dedup")
  /\ UNCHANGED <<closed, poolVars, runVars>>

(* Bug: a worker leaves as soon as the channel is closed.                  *)
ExitUndrained(w) ==
  /\ wpc[w] = "recv"
  /\ closed
  /\ Goto(w, "exited")
  /\ UNCHANGED <<chanVars, poolVars, wkey, runVars>>

(* The range ends: the channel is closed and drained.                      *)
Exit(w) ==
  /\ wpc[w] = "recv"
  /\ closed
  /\ ch = <<>>
  /\ Goto(w, "exited")
  /\ UNCHANGED <<chanVars, poolVars, wkey, runVars>>

(* Bug: a package counts as seen once its result is recorded.              *)
DedupByInfo(w) ==
  /\ wpc[w] = "dedup"
  /\ IF infos[wkey[w]] # "none"
     THEN /\ Goto(w, "recv")
          /\ wkey' = [wkey EXCEPT ![w] = NoKey]
          /\ UNCHANGED <<seen, fetches>>
     ELSE /\ seen' = seen \cup {wkey[w]}
          /\ fetches' = [fetches EXCEPT ![wkey[w]] = @ + 1]
          /\ Goto(w, "slice")
          /\ UNCHANGED wkey
  /\ UNCHANGED <<chanVars, cancelled, infos, ferr, runVars>>

(* First critical section: a package seen before is dropped.               *)
Dedup(w) ==
  /\ wpc[w] = "dedup"
  /\ IF wkey[w] \in seen
     THEN /\ Goto(w, "recv")
          /\ wkey' = [wkey EXCEPT ![w] = NoKey]
          /\ UNCHANGED <<seen, fetches>>
     ELSE /\ seen' = seen \cup {wkey[w]}
          /\ fetches' = [fetches EXCEPT ![wkey[w]] = @ + 1]
          /\ Goto(w, "slice")
          /\ UNCHANGED wkey
  /\ UNCHANGED <<chanVars, cancelled, infos, ferr, runVars>>

(* SliceOf answers; a package for another platform is not downloaded.      *)
Sliced(w, found) ==
  /\ wpc[w] = "slice"
  /\ Goto(w, IF ~found THEN "fetch"
             ELSE IF wkey[w] \in OtherPlatform THEN "skipped" ELSE "download")
  /\ UNCHANGED <<chanVars, poolVars, wkey, runVars>>

(* The download and the signature check end.  A cancelled context may      *)
(* abort them; a tarball already cached is served all the same.            *)
Downloaded(w, outcome) ==
  /\ wpc[w] = "download"
  /\ outcome = "canceled" => cancelled
  /\ Goto(w, IF outcome = "ok" THEN "ingest" ELSE outcome)
  /\ UNCHANGED <<chanVars, poolVars, wkey, runVars>>

Ingested(w, outcome) ==
  /\ wpc[w] = "ingest"
  /\ Goto(w, IF outcome = "ok" THEN "stored" ELSE "fetch")
  /\ UNCHANGED <<chanVars, poolVars, wkey, runVars>>

(* Bug: the last error wins.                                               *)
RecordLast(w) ==
  /\ \/ /\ wpc[w] \in {"stored", "skipped"}
        /\ infos' = [infos EXCEPT ![wkey[w]] = wpc[w]]
        /\ UNCHANGED <<ferr, cancelled>>
     \/ /\ wpc[w] \in Causes
        /\ infos' = [infos EXCEPT ![wkey[w]] = "empty"]
        /\ ferr' = wpc[w]
        /\ cancelled' = TRUE
  /\ Goto(w, "recv")
  /\ wkey' = [wkey EXCEPT ![w] = NoKey]
  /\ UNCHANGED <<chanVars, seen, fetches, runVars>>

(* Second critical section: the first error wins and cancels the pool, and *)
(* an info is recorded either way.                                         *)
Record(w) ==
  /\ \/ /\ wpc[w] \in {"stored", "skipped"}
        /\ infos' = [infos EXCEPT ![wkey[w]] = wpc[w]]
        /\ UNCHANGED <<ferr, cancelled>>
     \/ /\ wpc[w] \in Causes
        /\ infos' = [infos EXCEPT ![wkey[w]] = "empty"]
        /\ ferr' = IF ferr = "none" THEN wpc[w] ELSE ferr
        /\ cancelled' = (cancelled \/ ferr = "none")
  /\ Goto(w, "recv")
  /\ wkey' = [wkey EXCEPT ![w] = NoKey]
  /\ UNCHANGED <<chanVars, seen, fetches, runVars>>

-----------------------------------------------------------------------------
Submit == SubmitSend \/ SubmitDrop

Run == (\E k \in Keys : Place(k)) \/ Submit \/ (\E e \in BOOLEAN : Resolved(e)) \/ Joined

Work(w) ==
  \/ Receive(w) \/ Exit(w) \/ Dedup(w)
  \/ \E found \in BOOLEAN : Sliced(w, found)
  \/ \E o \in Causes \cup {"ok"} : Downloaded(w, o)
  \/ \E o \in {"ok", "err"} : Ingested(w, o)
  \/ Record(w)

Next == Run \/ \E w \in Workers : Work(w)

Spec == Init /\ [][Next]_vars

-----------------------------------------------------------------------------
(* A run that reports success lost no package on the way: each placed one  *)
(* has been ingested, or skipped for another platform, whatever the order  *)
(* of sends, duplicates and errors (submit, worker, Run).                  *)
NoLostFetch ==
  verdict = "ok" => \A k \in placed : infos[k] \in {"stored", "skipped"}

(* A package placed at several paths is fetched once (worker, seen).       *)
FetchedOnce == \A k \in Keys : fetches[k] <= 1

(* The error that surfaces is the one that started the cancellation, never *)
(* a cancellation it caused itself (worker, f.err; Run).                   *)
RootCause == ferr # "canceled" /\ verdict # "canceled"

(* The assembly may read infos without the mutex: no worker touches pool   *)
(* state once Run has returned from the join (closeAndWait).               *)
Quiet == rpc = "returned" => UNCHANGED <<chanVars, poolVars, workVars>>
QuietAfterReturn == [][Quiet]_vars

-----------------------------------------------------------------------------
(* The pool seen through FetchContract.                                    *)
Settled == [k \in Keys |-> IF infos[k] \in {"stored", "skipped"} THEN infos[k] ELSE "open"]
Failed  == ferr # "none" \/ rerr
Outcome == IF verdict \in {"running", "ok"} THEN verdict ELSE "error"

Contract == INSTANCE FetchContract
              WITH settled <- Settled, failed <- Failed, verdict <- Outcome

(* The pool implements the contract of the phase.                          *)
ImplementsContract == Contract!Spec
=============================================================================
