-------------------------- MODULE PipelinedInstall --------------------------
(***************************************************************************)
(* The resolve-and-fetch phase of Operation.Run: the tree resolver, the    *)
(* tarball pool (TarballFetcher) and the packument prefetch                *)
(* (Provider.Warmup) run concurrently over one provider (PackumentFlight). *)
(* The actions of the two instances happen jointly with those of the       *)
(* resolver and of the prefetch goroutines, which are added here.          *)
(*                                                                         *)
(* Every package has one version, so a package is its name and an edge is  *)
(* satisfied once its name is placed; version conflicts are the subject of *)
(* TreeResolver.                                                           *)
(***************************************************************************)
EXTENDS Naturals, Sequences, FiniteSets

CONSTANTS
  Names, OtherPlatform, Workers, Resolver, NoKey,
  Cap, MaxPlacements, MaxFlights,
  RootDeps,    \* edges of the project: a sequence of [name, optional]
  Deps,        \* name -> the edges of that package
  SemSlots,    \* slots of the prefetch semaphore
  WarmDepth    \* how deep the prefetch follows dependencies

Edges == [name : Names, optional : BOOLEAN]
Prefetch(n) == <<"warm", n>>
Goroutines  == {Resolver} \cup Workers \cup {Prefetch(n) : n \in Names}

ASSUME GoroutineAssumption ==
  /\ Resolver \notin Workers
  /\ \A n \in Names : Prefetch(n) \notin Workers \cup {Resolver}
ASSUME GraphAssumption ==
  /\ RootDeps \in Seq(Edges)
  /\ Deps \in [Names -> Seq(Edges)]
  /\ NoKey \notin Names
ASSUME FetchAssumption ==
  /\ OtherPlatform \subseteq Names
  /\ Workers # {}
  /\ Cap \in Nat \ {0}
  /\ MaxPlacements \in Nat

VARIABLES
  ch, closed, cancelled, seen, infos, ferr, wpc, wkey,         \* the pool
  rpc, rkey, rerr, placed, count, fetches, verdict,
  cache, flight, pc, req,                                      \* the provider
  queue,   \* resolver: edges to process, the head is in progress
  asking,  \* resolver: "versions" before the placement, "deps" after it
  warm,    \* prefetch goroutine of a name: absent, sem, ask, or done
  budget,  \* the depth budget it was scheduled with
  warmed   \* Warmup has visited its seeds

poolVars == <<ch, closed, cancelled, seen, infos, ferr, wpc, wkey,
              rpc, rkey, rerr, placed, count, fetches, verdict>>
flightVars == <<cache, flight, pc, req>>
walkVars == <<queue, asking>>
warmVars == <<warm, budget, warmed>>
vars == <<poolVars, flightVars, walkVars, warmVars>>

Pool   == INSTANCE TarballFetcher WITH Keys <- Names
Flight == INSTANCE PackumentFlight WITH Callers <- Goroutines

Init ==
  /\ Pool!Init
  /\ Flight!Init
  /\ queue = RootDeps /\ asking = "versions"
  /\ warm = [n \in Names |-> "absent"]
  /\ budget = [n \in Names |-> 0]
  /\ warmed = FALSE

(* The answer packumentFor is about to give to c.                          *)
AnswerIs(c, outcome) == pc[c] = "got" /\ Flight!Answer(c) = outcome

-----------------------------------------------------------------------------
(* The exchange of c ends.  The last request of a name succeeds, which     *)
(* bounds the transient failures of a run.                                 *)
Exchange(c) ==
  /\ pc[c] = "own"
  /\ \E o \in {"ok", "err"} : (o = "err" => req[c][2] < MaxFlights) /\ Flight!Publish(c, o)
  /\ UNCHANGED <<poolVars, walkVars, warmVars>>

InsideAsk(c) ==
  \/ Exchange(c)
  \/ (Flight!Evict(c) \/ Flight!Wake(c)) /\ UNCHANGED <<poolVars, walkVars, warmVars>>

-----------------------------------------------------------------------------
(* resolveEdge: the name is visible already and satisfies every range.     *)
Reuse ==
  /\ rpc = "walk" /\ asking = "versions" /\ pc[Resolver] = "idle"
  /\ queue # <<>> /\ Head(queue).name \in placed
  /\ queue' = Tail(queue)
  /\ UNCHANGED <<poolVars, flightVars, asking, warmVars>>

(* s.versions before the placement, s.deps after it: both ask the provider *)
(* for the packument of the head edge.                                     *)
ResolverAsk ==
  /\ rpc = "walk" /\ queue # <<>>
  /\ asking = "versions" => Head(queue).name \notin placed
  /\ Flight!Lookup(Resolver, Head(queue).name)
  /\ UNCHANGED <<poolVars, queue, asking, warmVars>>

(* Versions are known: the package is placed and handed to OnResolved.     *)
GotVersions ==
  /\ rpc = "walk" /\ asking = "versions"
  /\ AnswerIs(Resolver, "ok")
  /\ Flight!Return(Resolver)
  /\ Pool!Place(Head(queue).name)
  /\ asking' = "deps"
  /\ UNCHANGED <<queue, warmVars>>

(* Bug: an edge whose packument cannot be had is skipped.                  *)
SkipAny ==
  /\ rpc = "walk" /\ asking = "versions"
  /\ AnswerIs(Resolver, "err")
  /\ Flight!Return(Resolver)
  /\ queue' = Tail(queue)
  /\ UNCHANGED <<poolVars, asking, warmVars>>

(* An optional edge whose packument cannot be had is skipped.              *)
SkipOptional ==
  /\ rpc = "walk" /\ asking = "versions"
  /\ AnswerIs(Resolver, "err")
  /\ Head(queue).optional
  /\ Flight!Return(Resolver)
  /\ queue' = Tail(queue)
  /\ UNCHANGED <<poolVars, asking, warmVars>>

GotDeps ==
  /\ rpc = "walk" /\ asking = "deps"
  /\ AnswerIs(Resolver, "ok")
  /\ Flight!Return(Resolver)
  /\ queue' = Tail(queue) \o Deps[Head(queue).name]
  /\ asking' = "versions"
  /\ UNCHANGED <<poolVars, warmVars>>

(* Any other failed ask is the error of Resolve.                           *)
ResolveFails ==
  /\ rpc = "walk"
  /\ AnswerIs(Resolver, "err")
  /\ ~(asking = "versions" /\ Head(queue).optional)
  /\ Flight!Return(Resolver)
  /\ Pool!Resolved(TRUE)
  /\ UNCHANGED <<walkVars, warmVars>>

ResolveEnds ==
  /\ queue = <<>>
  /\ Pool!Resolved(FALSE)
  /\ UNCHANGED <<flightVars, walkVars, warmVars>>

(* Bug: Run does not join the prefetch.                                    *)
RunReturnsEarly ==
  /\ Pool!Joined
  /\ UNCHANGED <<flightVars, walkVars, warmVars>>

(* closeAndWait, then <-warmupDone, then the verdict.                      *)
RunReturns ==
  /\ warmed /\ \A n \in Names : warm[n] \in {"absent", "done"}
  /\ Pool!Joined
  /\ UNCHANGED <<flightVars, walkVars, warmVars>>

Resolve ==
  \/ Reuse \/ ResolverAsk \/ InsideAsk(Resolver)
  \/ GotVersions \/ SkipOptional \/ GotDeps \/ ResolveFails \/ ResolveEnds
  \/ Pool!Submit /\ UNCHANGED <<flightVars, walkVars, warmVars>>
  \/ RunReturns

-----------------------------------------------------------------------------
(* fetchOne asks the shared provider for the slice of its package.         *)
WorkerAsk(w) ==
  /\ wpc[w] = "slice"
  /\ Flight!Lookup(w, wkey[w])
  /\ UNCHANGED <<poolVars, walkVars, warmVars>>

WorkerAnswered(w) ==
  /\ pc[w] = "got"
  /\ Flight!Return(w)
  /\ Pool!Sliced(w, Flight!Answer(w) = "ok")
  /\ UNCHANGED <<walkVars, warmVars>>

Worker(w) ==
  \/ WorkerAsk(w) \/ InsideAsk(w) \/ WorkerAnswered(w)
  \/ /\ \/ Pool!Receive(w) \/ Pool!Exit(w) \/ Pool!Dedup(w) \/ Pool!Record(w)
        \/ \E o \in {"ok", "fetch", "canceled"} : Pool!Downloaded(w, o)
        \/ \E o \in {"ok", "err"} : Pool!Ingested(w, o)
     /\ UNCHANGED <<flightVars, walkVars, warmVars>>

-----------------------------------------------------------------------------
NamesOf(edges) == {edges[i].name : i \in 1..Len(edges)}

(* visit(name, rng, b) of several names: the first visit schedules a name. *)
Visit(names, b, state) ==
  LET new == IF b = 0 THEN {} ELSE {n \in names : state[n] = "absent"}
  IN  /\ warm' = [n \in Names |-> IF n \in new THEN "sem" ELSE state[n]]
      /\ budget' = [n \in Names |-> IF n \in new THEN b ELSE budget[n]]

WarmSeeds ==
  /\ ~warmed
  /\ warmed' = TRUE
  /\ Visit(NamesOf(RootDeps), WarmDepth, warm)
  /\ UNCHANGED <<poolVars, flightVars, walkVars>>

(* sem <- struct{}{}                                                       *)
Acquire(n) ==
  /\ warm[n] = "sem"
  /\ Cardinality({m \in Names : warm[m] = "ask"}) < SemSlots
  /\ warm' = [warm EXCEPT ![n] = "ask"]
  /\ UNCHANGED <<poolVars, flightVars, walkVars, budget, warmed>>

WarmAsk(n) ==
  /\ warm[n] = "ask"
  /\ Flight!Lookup(Prefetch(n), n)
  /\ UNCHANGED <<poolVars, walkVars, warmVars>>

(* The slot is released, errors are ignored, dependencies are visited.     *)
WarmAnswered(n) ==
  /\ pc[Prefetch(n)] = "got"
  /\ Flight!Return(Prefetch(n))
  /\ Visit(IF Flight!Answer(Prefetch(n)) = "ok" THEN NamesOf(Deps[n]) ELSE {},
           budget[n] - 1, [warm EXCEPT ![n] = "done"])
  /\ UNCHANGED <<poolVars, walkVars, warmed>>

Warm(n) == Acquire(n) \/ WarmAsk(n) \/ InsideAsk(Prefetch(n)) \/ WarmAnswered(n)

Next ==
  \/ Resolve
  \/ \E w \in Workers : Worker(w)
  \/ WarmSeeds
  \/ \E n \in Names : Warm(n)

(* Every goroutine is scheduled and every exchange ends.                   *)
Fairness ==
  /\ WF_vars(Resolve)
  /\ \A w \in Workers : WF_vars(Worker(w))
  /\ WF_vars(WarmSeeds)
  /\ \A n \in Names : WF_vars(Warm(n))

Spec == Init /\ [][Next]_vars /\ Fairness

-----------------------------------------------------------------------------
(* A worker never fails on metadata: by the time a package reaches the     *)
(* pool, its packument is in the provider's cache for good, whatever the   *)
(* prefetch goroutines failed at before (submit, SliceOf, packumentFor).   *)
SliceAtHand ==
  \A w \in Workers :
    wpc[w] = "slice" => cache[wkey[w]] # Flight!NoRequest /\ flight[cache[wkey[w]]] = "ok"

(* A successful phase is closed under required dependencies, and all of it *)
(* is stored or belongs to another platform (Resolve, Run).                *)
Complete ==
  verdict = "ok" =>
    /\ \A n \in placed : infos[n] \in {"stored", "skipped"}
    /\ \A edges \in {RootDeps} \cup {Deps[n] : n \in placed} :
         \A i \in 1..Len(edges) : edges[i].name \in placed \/ edges[i].optional

(* "join the background prefetch - no leaked goroutine": when Run returns, *)
(* no goroutine of the phase is left inside the provider or waiting for a  *)
(* slot (Run, Warmup, closeAndWait).                                       *)
NoLeak ==
  verdict # "running" =>
    /\ \A c \in Goroutines : pc[c] = "idle"
    /\ \A n \in Names : warm[n] \notin {"sem", "ask"}
    /\ \A w \in Workers : wpc[w] = "exited"

(* The phase ends: the resolver blocked on a full channel, workers and     *)
(* prefetch goroutines blocked on each other's requests and prefetch       *)
(* goroutines blocked on the semaphore never wait in a circle.             *)
Returns == <>(verdict # "running")

(* What packumentFor promises whoever calls it (PackumentFlight), for the  *)
(* callers that the install has: one request per name on the wire, ...     *)
SingleFlight == Flight!SingleFlight

(* ... an eviction, by name, of nothing but its caller's failure, ...      *)
EvictsOwnFailure == Flight!EvictsOwnFailure

(* ... and no packument that arrived is dropped.                           *)
ArrivedIsFinal == Flight!ArrivedIsFinal
=============================================================================
