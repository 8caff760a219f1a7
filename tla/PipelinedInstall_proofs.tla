------------------------ MODULE PipelinedInstall_proofs ------------------------
(* The install is a client of the packument provider: each of its steps is  *)
(* a step of PackumentFlight or leaves the provider alone, so what is proved *)
(* of the provider holds in the install.  On it rests that a worker finds   *)
(* the packument of every package it is handed.                             *)
EXTENDS PipelinedInstall, SequenceTheorems, TLAPS

Parts == INSTANCE FetchParts_proofs WITH Keys <- Names, Callers <- Goroutines

USE DEF Flight!Indices, Flight!Requests, Flight!NoRequest, Flight!Outcomes,
        Parts!Flight!Indices, Parts!Flight!Requests, Parts!Flight!NoRequest, Parts!Flight!Outcomes

(* Both instances of the provider are one.                                  *)
LEMMA SameLookup ==
  ASSUME NEW c, NEW n
  PROVE  Flight!Lookup(c, n) <=> Parts!Flight!Lookup(c, n)
  BY DEF Flight!Lookup, Flight!Join, Flight!Open,
         Parts!Flight!Lookup, Parts!Flight!Join, Parts!Flight!Open

(* The same of the steps inside a call, ...                                 *)
LEMMA SameStep ==
  ASSUME NEW c, Flight!Evict(c) \/ Flight!Wake(c) \/ (\E o \in {"ok", "err"} : Flight!Publish(c, o))
  PROVE  Parts!Flight!Step(c)
  BY DEF Flight!Evict, Flight!Wake, Flight!Publish,
         Parts!Flight!Evict, Parts!Flight!Wake, Parts!Flight!Publish, Parts!Flight!Step

(* ... and of the return from packumentFor.                                 *)
LEMMA SameReturn ==
  ASSUME NEW c
  PROVE  Flight!Return(c) <=> Parts!Flight!Return(c)
  BY DEF Flight!Return, Parts!Flight!Return
--------------------------------------------------------------------------------
(* Every key that a worker holds belongs to a placed package, ...           *)
Busy == Pool!WorkerPCs \ {"recv", "exited"}
KeysArePlaced ==
  /\ placed \subseteq Names
  /\ wpc \in [Workers -> Pool!WorkerPCs]
  /\ \A w \in Workers : wpc[w] \in Busy => wkey[w] \in placed

(* ... the resolver asks for the name of its head edge, ...                 *)
AsksForHead ==
  /\ queue \in Seq(Edges)
  /\ pc[Resolver] # "idle" =>
       /\ rpc = "walk"
       /\ queue # <<>>
       /\ req[Resolver][1] = Head(queue).name

(* ... and a request that succeeded stays in the cache, that of a placed    *)
(* package among them.                                                      *)
OkIsCached == \A r \in Flight!Requests : flight[r] = "ok" => cache[r[1]] = r
Arrived(n) == cache[n] # Flight!NoRequest /\ flight[cache[n]] = "ok"
PlacedArrived == \A n \in placed : Arrived(n)

(* A worker is inside the provider while it asks for a slice and at no      *)
(* other time, a prefetch goroutine while it holds a slot, ...              *)
CallsInPlace ==
  /\ \A w \in Workers : pc[w] # "idle" => wpc[w] = "slice"
  /\ \A n \in Names : pc[Prefetch(n)] # "idle" => warm[n] = "ask"

(* ... and when Run has returned no prefetch goroutine is left or to come.  *)
WarmJoined ==
  /\ warm \in [Names -> {"absent", "sem", "ask", "done"}]
  /\ rpc = "returned" => warmed /\ \A n \in Names : warm[n] \in {"absent", "done"}

(* An edge is resolved, waived or still in the walk's queue: those of the   *)
(* project, and those of every placed package but the one in hand, whose    *)
(* dependencies are being asked for.  A walk that succeeds empties it.      *)
Accounted(e) == e.name \in placed \/ e.optional \/ \E j \in 1..Len(queue) : queue[j] = e
InHand(n) == asking = "deps" /\ n = Head(queue).name
WalkCloses ==
  /\ asking \in {"versions", "deps"}
  /\ asking = "deps" => queue # <<>> /\ Head(queue).name \in placed
  /\ \A i \in 1..Len(RootDeps) : Accounted(RootDeps[i])
  /\ \A n \in placed : InHand(n) \/ \A i \in 1..Len(Deps[n]) : Accounted(Deps[n][i])
  /\ rpc \in {"join", "returned"} /\ ~rerr => queue = <<>>

IInv == /\ Parts!FlightInv /\ Parts!IInv
        /\ AsksForHead /\ OkIsCached /\ PlacedArrived
        /\ CallsInPlace /\ WarmJoined /\ WalkCloses
--------------------------------------------------------------------------------

USE GoroutineAssumption, GraphAssumption, FetchAssumption

(* The invariant holds before the first goroutine runs.                     *)
LEMMA InitIInv == Init => IInv
<1> SUFFICES ASSUME Init PROVE IInv
  OBVIOUS
<1>1. Parts!FlightInv
  <2>1. Parts!Flight!Init
    BY DEF Init, Flight!Init, Parts!Flight!Init
  <2> QED
    BY <2>1, Parts!InitFlight
<1>2. Parts!IInv
  <2>1. Parts!Init
    BY DEF Init, Pool!Init, Parts!Init
  <2> QED
    BY <2>1, Parts!InitIInv
<1>3. AsksForHead
  BY DEF Init, Flight!Init, AsksForHead, Goroutines
<1>4. CallsInPlace
  BY DEF Init, Flight!Init, CallsInPlace, Goroutines
<1>5. WarmJoined /\ WalkCloses
  BY DEF Init, Pool!Init, WarmJoined, WalkCloses, Accounted
<1> QED
  BY <1>1, <1>2, <1>3, <1>4, <1>5 DEF Init, Flight!Init, Pool!Init, IInv, OkIsCached, PlacedArrived

(* What the pool's invariant says of the keys it holds.                     *)
LEMMA PoolKeys == Parts!IInv => KeysArePlaced
  BY DEF Parts!IInv, Parts!TypeOK, Parts!FromPlaced, Parts!FromPlaced, Parts!WorkerPCs, KeysArePlaced, Busy,
         Pool!WorkerPCs

(* The head of the walk's queue is an edge to a name.                       *)
LEMMA HeadEdge ==
  ASSUME NEW q \in Seq(Edges), q # <<>>
  PROVE  Head(q).name \in Names /\ Tail(q) \in Seq(Edges)
<1>1. Head(q) \in Edges /\ Tail(q) \in Seq(Edges)
  BY HeadTailProperties
<1> QED
  BY <1>1 DEF Edges

(* Each step of the install is a step of one caller of the provider, or     *)
(* leaves the provider alone.                                               *)
LEMMA ProviderStep ==
  ASSUME KeysArePlaced, AsksForHead, Next
  PROVE  Parts!Flight!Next \/ UNCHANGED Parts!Flight!vars
<1> USE DEF Goroutines, Parts!Flight!Next
<1>1. ASSUME NEW c \in Goroutines, InsideAsk(c) PROVE Parts!Flight!Next
  BY <1>1, SameStep DEF InsideAsk, Exchange
<1>2. CASE ResolverAsk
  <2>1. Head(queue).name \in Names
    BY <1>2, HeadEdge DEF ResolverAsk, AsksForHead
  <2> QED
    BY <1>2, <2>1, SameLookup DEF ResolverAsk
<1>3. CASE GotVersions \/ SkipOptional \/ GotDeps \/ ResolveFails
  BY <1>3, SameReturn DEF GotVersions, SkipOptional, GotDeps, ResolveFails
<1>4. ASSUME NEW w \in Workers, WorkerAsk(w) PROVE Parts!Flight!Next
  BY <1>4, SameLookup DEF WorkerAsk, KeysArePlaced, Busy, Pool!WorkerPCs
<1>5. ASSUME NEW w \in Workers, WorkerAnswered(w) PROVE Parts!Flight!Next
  BY <1>5, SameReturn DEF WorkerAnswered
<1>6. ASSUME NEW n \in Names, WarmAsk(n) PROVE Parts!Flight!Next
  BY <1>6, SameLookup DEF WarmAsk
<1>7. ASSUME NEW n \in Names, WarmAnswered(n) PROVE Parts!Flight!Next
  BY <1>7, SameReturn DEF WarmAnswered
<1>8. CASE UNCHANGED flightVars
  BY <1>8 DEF flightVars, Parts!Flight!vars
<1> QED
  BY <1>1, <1>2, <1>3, <1>4, <1>5, <1>6, <1>7, <1>8
  DEF Next, Resolve, Worker, Warm, Reuse, ResolveEnds, RunReturns, WarmSeeds, Acquire

(* Both instances of the pool are one, too: Run's half ...                  *)
LEMMA SameRun ==
  /\ \A k : Pool!Place(k) <=> Parts!Place(k)
  /\ Pool!SubmitSend <=> Parts!SubmitSend
  /\ Pool!SubmitDrop <=> Parts!SubmitDrop
  /\ \A e : Pool!Resolved(e) <=> Parts!Resolved(e)
  /\ Pool!Joined <=> Parts!Joined
<1>1. \A k : Pool!Place(k) <=> Parts!Place(k)
  BY DEF Pool!Place, Parts!Place, Pool!chanVars, Pool!poolVars, Pool!workVars, Pool!runVars,
     Parts!chanVars, Parts!poolVars, Parts!workVars, Parts!runVars
<1>2. Pool!SubmitSend <=> Parts!SubmitSend
  BY DEF Pool!SubmitSend, Parts!SubmitSend, Pool!chanVars, Pool!poolVars, Pool!workVars, Pool!runVars,
     Parts!chanVars, Parts!poolVars, Parts!workVars, Parts!runVars
<1>3. Pool!SubmitDrop <=> Parts!SubmitDrop
  BY DEF Pool!SubmitDrop, Parts!SubmitDrop, Pool!chanVars, Pool!poolVars, Pool!workVars, Pool!runVars,
     Parts!chanVars, Parts!poolVars, Parts!workVars, Parts!runVars
<1>4. \A e : Pool!Resolved(e) <=> Parts!Resolved(e)
  BY DEF Pool!Resolved, Parts!Resolved, Pool!chanVars, Pool!poolVars, Pool!workVars, Pool!runVars,
     Parts!chanVars, Parts!poolVars, Parts!workVars, Parts!runVars
<1>5. Pool!Joined <=> Parts!Joined
  BY DEF Pool!Joined, Parts!Joined, Pool!chanVars, Pool!poolVars, Pool!workVars, Pool!runVars,
     Parts!chanVars, Parts!poolVars, Parts!workVars, Parts!runVars
<1> QED
  BY <1>1, <1>2, <1>3, <1>4, <1>5

(* ... and the workers'.                                                    *)
LEMMA SameWork ==
  ASSUME NEW w
  PROVE  /\ Pool!Receive(w) <=> Parts!Receive(w)
         /\ Pool!Exit(w) <=> Parts!Exit(w)
         /\ Pool!Dedup(w) <=> Parts!Dedup(w)
         /\ \A found : Pool!Sliced(w, found) <=> Parts!Sliced(w, found)
         /\ \A o : Pool!Downloaded(w, o) <=> Parts!Downloaded(w, o)
         /\ \A o : Pool!Ingested(w, o) <=> Parts!Ingested(w, o)
         /\ Pool!Record(w) <=> Parts!Record(w)
<1> USE DEF Pool!Goto, Parts!Goto, Pool!chanVars, Pool!poolVars, Pool!workVars, Pool!runVars,
     Parts!chanVars, Parts!poolVars, Parts!workVars, Parts!runVars
<1>1. Pool!Receive(w) <=> Parts!Receive(w)
  BY DEF Pool!Receive, Parts!Receive
<1>2. Pool!Exit(w) <=> Parts!Exit(w)
  BY DEF Pool!Exit, Parts!Exit
<1>3. Pool!Dedup(w) <=> Parts!Dedup(w)
  BY DEF Pool!Dedup, Parts!Dedup
<1>4. \A found : Pool!Sliced(w, found) <=> Parts!Sliced(w, found)
  BY DEF Pool!Sliced, Parts!Sliced
<1>5. \A o : Pool!Downloaded(w, o) <=> Parts!Downloaded(w, o)
  BY DEF Pool!Downloaded, Parts!Downloaded
<1>6. \A o : Pool!Ingested(w, o) <=> Parts!Ingested(w, o)
  BY DEF Pool!Ingested, Parts!Ingested
<1>7. Pool!Record(w) <=> Parts!Record(w)
  BY DEF Pool!Record, Parts!Record, Pool!Causes, Parts!Causes
<1> QED
  BY <1>1, <1>2, <1>3, <1>4, <1>5, <1>6, <1>7

(* Each step of the install is a step of the pool, or leaves it alone.      *)
LEMMA PoolStep ==
  ASSUME AsksForHead, Next
  PROVE  Parts!Next \/ UNCHANGED Parts!vars
<1> USE SameRun, SameWork DEF Parts!Next, Parts!Run
<1>1. CASE GotVersions
  <2>1. Head(queue).name \in Names
    BY <1>1, HeadEdge DEF GotVersions, AnswerIs, AsksForHead
  <2> QED
    BY <1>1, <2>1 DEF GotVersions
<1>2. CASE Pool!Submit
  BY <1>2 DEF Pool!Submit, Parts!Submit
<1>3. CASE ResolveFails \/ ResolveEnds \/ RunReturns
  BY <1>3 DEF ResolveFails, ResolveEnds, RunReturns
<1>4. ASSUME NEW w \in Workers, Worker(w) PROVE Parts!Work(w) \/ UNCHANGED poolVars
  <2>1. CASE WorkerAnswered(w)
    BY <2>1 DEF WorkerAnswered, Parts!Work
  <2>2. CASE WorkerAsk(w) \/ InsideAsk(w)
    BY <2>2 DEF WorkerAsk, InsideAsk, Exchange
  <2> QED
    BY <1>4, <2>1, <2>2 DEF Worker, Parts!Work, Parts!Causes
<1>5. CASE UNCHANGED poolVars
  BY <1>5 DEF poolVars, Pool!chanVars, Pool!poolVars, Pool!workVars, Pool!runVars,
     Parts!chanVars, Parts!poolVars, Parts!workVars, Parts!runVars, Parts!vars
<1> QED
  BY <1>1, <1>2, <1>3, <1>4, <1>5
  DEF Next, Resolve, Warm, Reuse, ResolverAsk, InsideAsk, Exchange, SkipOptional, GotDeps, WarmSeeds,
      Acquire, WarmAsk, WarmAnswered

(* A step of one caller does not move another.                              *)
LEMMA OthersStay ==
  ASSUME Parts!Flight!TypeOK, NEW c \in Goroutines, NEW d \in Goroutines, c # d,
         (\E n \in Names : Parts!Flight!Lookup(c, n)) \/ Parts!Flight!Step(c) \/ Parts!Flight!Return(c)
  PROVE  pc'[d] = pc[d] /\ req'[d] = req[d]
  BY DEF Parts!Flight!TypeOK, Parts!Flight!Lookup, Parts!Flight!Join, Parts!Flight!Open, Parts!Flight!Step,
         Parts!Flight!Publish, Parts!Flight!Evict, Parts!Flight!Wake, Parts!Flight!Return

(* The walk moves on only between two calls of the provider.                *)
LEMMA WalkStep ==
  ASSUME Parts!FlightInv, KeysArePlaced, AsksForHead, Next
  PROVE  AsksForHead'
<1> USE DEF AsksForHead
<1>0. Resolver \in Goroutines /\ Parts!Flight!TypeOK /\ Parts!CachedIsOpened
  BY DEF Goroutines, Parts!FlightInv
<1>1. CASE Reuse
  BY <1>1, HeadEdge DEF Reuse, flightVars
<1>2. CASE ResolverAsk
  <2>1. Head(queue).name \in Names
    BY <1>2, HeadEdge DEF ResolverAsk
  <2>2. req'[Resolver][1] = Head(queue).name
    <3>1. CASE Flight!Join(Resolver, Head(queue).name)
      BY <1>0, <2>1, <3>1 DEF Flight!Join, Parts!Flight!TypeOK, Parts!CachedIsOpened
    <3>2. CASE Flight!Open(Resolver, Head(queue).name)
      BY <1>0, <2>1, <3>2 DEF Flight!Open, Parts!Flight!TypeOK
    <3> QED
      BY <1>2, <3>1, <3>2 DEF ResolverAsk, Flight!Lookup
  <2> QED
    BY <1>2, <2>2 DEF ResolverAsk, poolVars
<1>3. CASE InsideAsk(Resolver)
  <2>1. pc[Resolver] # "idle" /\ UNCHANGED <<req, queue, rpc>>
    BY <1>3 DEF InsideAsk, Exchange, Flight!Publish, Flight!Evict, Flight!Wake, poolVars, walkVars
  <2> QED
    BY <2>1
<1>4. CASE GotVersions \/ ResolveFails
  <2>1. pc'[Resolver] = "idle" /\ queue' = queue
    BY <1>0, <1>4 DEF GotVersions, ResolveFails, Flight!Return, Parts!Flight!TypeOK, walkVars
  <2> QED
    BY <2>1
<1>5. CASE SkipOptional \/ GotDeps
  <2>1. queue # <<>>
    BY <1>5 DEF SkipOptional, GotDeps, AnswerIs
  <2>2. queue' \in Seq(Edges)
    <3>1. Head(queue).name \in Names /\ Tail(queue) \in Seq(Edges)
      BY <2>1, HeadEdge
    <3>2. Deps[Head(queue).name] \in Seq(Edges)
      BY <3>1
    <3>3. Tail(queue) \o Deps[Head(queue).name] \in Seq(Edges)
      BY <3>1, <3>2, ConcatProperties
    <3> QED
      BY <1>5, <3>1, <3>3 DEF SkipOptional, GotDeps
  <2>3. pc'[Resolver] = "idle"
    BY <1>0, <1>5 DEF SkipOptional, GotDeps, Flight!Return, Parts!Flight!TypeOK
  <2> QED
    BY <2>2, <2>3
<1>6. CASE ResolveEnds \/ RunReturns \/ (Pool!Submit /\ UNCHANGED <<flightVars, walkVars, warmVars>>)
  <2>1. rpc # "walk" \/ queue = <<>>
    BY <1>6 DEF ResolveEnds, RunReturns, Pool!Joined, Pool!Submit, Pool!SubmitSend, Pool!SubmitDrop
  <2>2. UNCHANGED <<pc, queue>>
    BY <1>6 DEF ResolveEnds, RunReturns, flightVars, walkVars
  <2> QED
    BY <2>1, <2>2
<1>7. ASSUME NEW c \in Goroutines \ {Resolver}, UNCHANGED <<queue, rpc>>,
             (\E n \in Names : Parts!Flight!Lookup(c, n)) \/ Parts!Flight!Step(c) \/ Parts!Flight!Return(c)
      PROVE  AsksForHead'
  <2>1. pc'[Resolver] = pc[Resolver] /\ req'[Resolver] = req[Resolver]
    BY <1>0, <1>7, OthersStay
  <2> QED
    BY <1>7, <2>1
<1>8. ASSUME NEW w \in Workers, Worker(w) PROVE AsksForHead'
  <2>0. w \in Goroutines \ {Resolver}
    BY DEF Goroutines
  <2>1. CASE WorkerAsk(w)
    <3>1. wkey[w] \in Names
      BY <2>1 DEF WorkerAsk, KeysArePlaced, Busy, Pool!WorkerPCs
    <3> QED
      BY <1>7, <2>0, <2>1, <3>1, SameLookup DEF WorkerAsk, poolVars, walkVars
  <2>2. CASE InsideAsk(w)
    BY <1>7, <2>0, <2>2, SameStep DEF InsideAsk, Exchange, poolVars, walkVars
  <2>3. CASE WorkerAnswered(w)
    BY <1>7, <2>0, <2>3, SameReturn DEF WorkerAnswered, Pool!Sliced, Pool!runVars, walkVars
  <2>4. CASE UNCHANGED <<pc, req, queue, rpc>>
    BY <2>4
  <2> QED
    BY <1>8, <2>1, <2>2, <2>3, <2>4
    DEF Worker, Pool!Receive, Pool!Exit, Pool!Dedup, Pool!Record, Pool!Downloaded, Pool!Ingested,
        Pool!runVars, flightVars, walkVars
<1>9. ASSUME NEW n \in Names, Warm(n) PROVE AsksForHead'
  <2>0. Prefetch(n) \in Goroutines \ {Resolver}
    BY DEF Goroutines
  <2>1. CASE WarmAsk(n)
    BY <1>7, <2>0, <2>1, SameLookup DEF WarmAsk, poolVars, walkVars
  <2>2. CASE InsideAsk(Prefetch(n))
    BY <1>7, <2>0, <2>2, SameStep DEF InsideAsk, Exchange, poolVars, walkVars
  <2>3. CASE WarmAnswered(n)
    BY <1>7, <2>0, <2>3, SameReturn DEF WarmAnswered, poolVars, walkVars
  <2>4. CASE Acquire(n)
    BY <2>4 DEF Acquire, poolVars, flightVars, walkVars
  <2> QED
    BY <1>9, <2>1, <2>2, <2>3, <2>4 DEF Warm
<1>10. CASE WarmSeeds
  BY <1>10 DEF WarmSeeds, poolVars, flightVars, walkVars
<1> QED
  BY <1>1, <1>2, <1>3, <1>4, <1>5, <1>6, <1>8, <1>9, <1>10 DEF Next, Resolve

(* A goroutine enters the provider and leaves it in its own place, and      *)
(* after the return of Run none does.                                       *)
LEMMA CallsStep ==
  ASSUME Parts!FlightInv, KeysArePlaced, AsksForHead, CallsInPlace, WarmJoined, Next
  PROVE  CallsInPlace' /\ WarmJoined'
<1> USE DEF CallsInPlace, WarmJoined
<1>0. Parts!Flight!TypeOK /\ wpc \in [Workers -> Pool!WorkerPCs]
  BY DEF Parts!FlightInv, KeysArePlaced
<1>1. ASSUME NEW c \in Goroutines, NEW d \in Goroutines \ {c},
             (\E n \in Names : Parts!Flight!Lookup(c, n)) \/ Parts!Flight!Step(c) \/ Parts!Flight!Return(c)
      PROVE  pc'[d] = pc[d]
  BY <1>0, <1>1, OthersStay
<1>2. CASE UNCHANGED <<pc, wpc, rpc, warm, warmed>>
  BY <1>2
<1>3. CASE ResolverAsk \/ InsideAsk(Resolver)
  <2>1. \A d \in Goroutines \ {Resolver} : pc'[d] = pc[d]
    <3>1. CASE ResolverAsk
      <4>1. Head(queue).name \in Names
        BY <3>1, HeadEdge DEF ResolverAsk, AsksForHead
      <4> QED
        BY <1>1, <3>1, <4>1, SameLookup DEF ResolverAsk, Goroutines
    <3>2. CASE InsideAsk(Resolver)
      BY <1>1, <3>2, SameStep DEF InsideAsk, Exchange, Goroutines
    <3> QED
      BY <1>3, <3>1, <3>2
  <2>2. UNCHANGED <<wpc, rpc, warm, warmed>>
    BY <1>3 DEF ResolverAsk, InsideAsk, Exchange, poolVars, warmVars
  <2> QED
    BY <2>1, <2>2 DEF Goroutines
<1>4. CASE GotVersions \/ SkipOptional \/ GotDeps \/ ResolveFails
  <2>1. \A d \in Goroutines \ {Resolver} : pc'[d] = pc[d]
    BY <1>1, <1>4, SameReturn DEF GotVersions, SkipOptional, GotDeps, ResolveFails, Goroutines
  <2>2. UNCHANGED <<wpc, warm, warmed>> /\ rpc' # "returned"
    BY <1>4 DEF GotVersions, SkipOptional, GotDeps, ResolveFails, Pool!Place, Pool!Resolved,
                Pool!workVars, poolVars, warmVars
  <2> QED
    BY <2>1, <2>2 DEF Goroutines
<1>5. CASE ResolveEnds \/ RunReturns \/ (Pool!Submit /\ UNCHANGED <<flightVars, walkVars, warmVars>>)
  <2>1. UNCHANGED <<pc, wpc, warm, warmed>>
    BY <1>5 DEF ResolveEnds, RunReturns, Pool!Submit, Pool!SubmitSend, Pool!SubmitDrop,
                Pool!Resolved, Pool!Joined, Pool!workVars, flightVars, warmVars
  <2>2. rpc' = "returned" => warmed /\ \A n \in Names : warm[n] \in {"absent", "done"}
    BY <1>5 DEF ResolveEnds, RunReturns, Pool!Submit, Pool!SubmitSend, Pool!SubmitDrop,
                Pool!Resolved
  <2> QED
    BY <2>1, <2>2
<1>6. ASSUME NEW w \in Workers, Worker(w) PROVE CallsInPlace' /\ WarmJoined'
  <2>0. w \in Goroutines /\ \A n \in Names : Prefetch(n) \in Goroutines \ {w}
    BY DEF Goroutines
  <2>1. UNCHANGED <<rpc, warm, warmed>> /\ \A v \in Workers \ {w} : wpc'[v] = wpc[v]
    BY <1>0, <1>6
    DEF Worker, WorkerAsk, WorkerAnswered, InsideAsk, Exchange, poolVars, warmVars, Pool!Receive,
        Pool!Exit, Pool!Dedup, Pool!Record, Pool!Sliced, Pool!Downloaded, Pool!Ingested, Pool!Goto,
        Pool!workVars, Pool!runVars
  <2>2. CASE WorkerAsk(w)
    <3>1. wkey[w] \in Names
      BY <2>2 DEF WorkerAsk, KeysArePlaced, Busy, Pool!WorkerPCs
    <3>2. \A d \in Goroutines \ {w} : pc'[d] = pc[d]
      BY <1>1, <2>0, <2>2, <3>1, SameLookup DEF WorkerAsk
    <3> QED
      BY <2>0, <2>1, <2>2, <3>2 DEF WorkerAsk, poolVars, Goroutines
  <2>3. CASE InsideAsk(w)
    <3>1. \A d \in Goroutines \ {w} : pc'[d] = pc[d]
      BY <1>1, <2>0, <2>3, SameStep DEF InsideAsk, Exchange
    <3>2. pc[w] # "idle" /\ wpc' = wpc
      BY <2>3 DEF InsideAsk, Exchange, Flight!Publish, Flight!Evict, Flight!Wake, poolVars
    <3> QED
      BY <2>0, <2>1, <3>1, <3>2 DEF Goroutines
  <2>4. CASE WorkerAnswered(w)
    <3>1. \A d \in Goroutines \ {w} : pc'[d] = pc[d]
      BY <1>1, <2>0, <2>4, SameReturn DEF WorkerAnswered
    <3>2. pc'[w] = "idle"
      BY <1>0, <2>0, <2>4 DEF WorkerAnswered, Flight!Return, Parts!Flight!TypeOK
    <3> QED
      BY <2>0, <2>1, <3>1, <3>2 DEF Goroutines
  <2>5. CASE pc' = pc /\ wpc[w] # "slice"
    BY <2>1, <2>5
  <2> QED
    BY <1>6, <2>2, <2>3, <2>4, <2>5
    DEF Worker, Pool!Receive, Pool!Exit, Pool!Dedup, Pool!Record, Pool!Downloaded, Pool!Ingested,
        Pool!Causes, flightVars
<1>7. CASE WarmSeeds
  BY <1>7 DEF WarmSeeds, Visit, poolVars, flightVars
<1>8. ASSUME NEW n \in Names, Warm(n) PROVE CallsInPlace' /\ WarmJoined'
  <2>0. /\ Prefetch(n) \in Goroutines
        /\ \A w \in Workers : w \in Goroutines \ {Prefetch(n)}
        /\ \A m \in Names \ {n} : Prefetch(m) \in Goroutines \ {Prefetch(n)}
    BY DEF Goroutines, Prefetch
  <2>1. UNCHANGED <<wpc, rpc>>
    BY <1>8 DEF Warm, Acquire, WarmAsk, InsideAsk, Exchange, WarmAnswered, poolVars
  <2>2. CASE Acquire(n)
    BY <2>1, <2>2 DEF Acquire, flightVars
  <2>3. CASE WarmAsk(n)
    <3>1. \A d \in Goroutines \ {Prefetch(n)} : pc'[d] = pc[d]
      BY <1>1, <2>0, <2>3, SameLookup DEF WarmAsk
    <3> QED
      BY <2>0, <2>1, <2>3, <3>1 DEF WarmAsk, warmVars
  <2>4. CASE InsideAsk(Prefetch(n))
    <3>1. \A d \in Goroutines \ {Prefetch(n)} : pc'[d] = pc[d]
      BY <1>1, <2>0, <2>4, SameStep DEF InsideAsk, Exchange
    <3>2. pc[Prefetch(n)] # "idle" /\ UNCHANGED <<warm, warmed>>
      BY <2>4 DEF InsideAsk, Exchange, Flight!Publish, Flight!Evict, Flight!Wake, warmVars
    <3> QED
      BY <2>0, <2>1, <3>1, <3>2
  <2>5. CASE WarmAnswered(n)
    <3>1. \A d \in Goroutines \ {Prefetch(n)} : pc'[d] = pc[d]
      BY <1>1, <2>0, <2>5, SameReturn DEF WarmAnswered
    <3>2. pc'[Prefetch(n)] = "idle" /\ warm[n] = "ask"
      BY <1>0, <2>0, <2>5 DEF WarmAnswered, Flight!Return, Parts!Flight!TypeOK
    <3>3. /\ warm' \in [Names -> {"absent", "sem", "ask", "done"}]
          /\ \A m \in Names \ {n} : warm[m] = "ask" => warm'[m] = "ask"
      BY <2>5 DEF WarmAnswered, Visit
    <3> QED
      BY <2>0, <2>1, <3>1, <3>2, <3>3
  <2> QED
    BY <1>8, <2>2, <2>3, <2>4, <2>5 DEF Warm
<1>9. CASE Reuse
  BY <1>2, <1>9 DEF Reuse, poolVars, flightVars, warmVars
<1> QED
  BY <1>3, <1>4, <1>5, <1>6, <1>7, <1>8, <1>9 DEF Next, Resolve

(* The edges behind the head of the queue are those of its tail.            *)
LEMMA BehindHead ==
  ASSUME NEW q \in Seq(Edges), q # <<>>, NEW j \in 1..Len(q)
  PROVE  q[j] = Head(q) \/ \E i \in 1..Len(Tail(q)) : Tail(q)[i] = q[j]
<1>1. CASE j = 1
  BY <1>1
<1>2. CASE j # 1
  <2>1. j - 1 \in 1..Len(Tail(q)) /\ Tail(q)[j - 1] = q[j]
    BY <1>2, HeadTailProperties
  <2> QED
    BY <2>1
<1> QED
  BY <1>1, <1>2

(* The walk loses no edge: the head leaves the queue when it is resolved or *)
(* waived, and the dependencies of what it placed take its place.           *)
LEMMA EdgesStep ==
  ASSUME AsksForHead, WalkCloses, placed \subseteq Names, Next
  PROVE  WalkCloses'
<1>0. queue \in Seq(Edges) /\ (rpc # "walk" => pc[Resolver] = "idle")
  BY DEF AsksForHead
<1>1. ASSUME NEW e \in Edges, Accounted(e), placed' = placed, queue # <<>>,
             Head(queue).name \in placed \/ Head(queue).optional,
             \A i \in 1..Len(Tail(queue)) : \E j \in 1..Len(queue') : queue'[j] = Tail(queue)[i]
      PROVE  Accounted(e)'
  <2>1. CASE e.name \in placed \/ e.optional
    BY <1>1, <2>1 DEF Accounted
  <2>2. ASSUME NEW j \in 1..Len(queue), queue[j] = e PROVE Accounted(e)'
    <3>1. e = Head(queue) \/ \E i \in 1..Len(Tail(queue)) : Tail(queue)[i] = e
      BY <1>0, <1>1, <2>2, BehindHead
    <3> QED
      BY <1>1, <3>1 DEF Accounted
  <2> QED
    BY <1>1, <2>1, <2>2 DEF Accounted
<1>2. CASE UNCHANGED <<queue, asking, placed, rpc, rerr>>
  <2>1. \A e \in Edges : Accounted(e)' <=> Accounted(e)
    BY <1>2 DEF Accounted
  <2>2. \A n \in Names : InHand(n)' <=> InHand(n)
    BY <1>2 DEF InHand
  <2>3. /\ \A i \in 1..Len(RootDeps) : RootDeps[i] \in Edges
        /\ \A n \in Names : \A i \in 1..Len(Deps[n]) : Deps[n][i] \in Edges
    OBVIOUS
  <2>4. \A i \in 1..Len(RootDeps) : Accounted(RootDeps[i])'
    BY <2>1, <2>3 DEF WalkCloses
  <2>5. \A n \in placed : InHand(n)' \/ \A i \in 1..Len(Deps[n]) : Accounted(Deps[n][i])'
    BY <2>1, <2>2, <2>3 DEF WalkCloses
  <2> QED
    BY <1>2, <2>4, <2>5 DEF WalkCloses
<1>3. CASE Reuse \/ SkipOptional
  <2>1. /\ queue # <<>> /\ queue' = Tail(queue) /\ asking = "versions"
        /\ UNCHANGED <<asking, placed, rpc, rerr>> /\ rpc = "walk"
        /\ Head(queue).name \in placed \/ Head(queue).optional
    BY <1>3 DEF Reuse, SkipOptional, AsksForHead, AnswerIs, poolVars
  <2>2. \A e \in Edges : Accounted(e) => Accounted(e)'
    BY <1>1, <2>1
  <2>3. \A n \in Names : \A i \in 1..Len(Deps[n]) : Deps[n][i] \in Edges
    OBVIOUS
  <2>4. \A i \in 1..Len(RootDeps) : RootDeps[i] \in Edges
    OBVIOUS
  <2> QED
    BY <2>1, <2>2, <2>3, <2>4 DEF WalkCloses, InHand
<1>4. CASE GotVersions
  <2>1. /\ queue # <<>> /\ queue' = queue /\ asking = "versions" /\ asking' = "deps"
        /\ placed' = placed \cup {Head(queue).name} /\ rpc' = "submit"
    BY <1>4 DEF GotVersions, AsksForHead, AnswerIs, Pool!Place
  <2>2. \A e : Accounted(e) => Accounted(e)'
    BY <2>1 DEF Accounted
  <2> QED
    BY <2>1, <2>2 DEF WalkCloses, InHand
<1>5. CASE GotDeps
  <2>0. Head(queue).name \in Names /\ Tail(queue) \in Seq(Edges) /\ queue # <<>>
    BY <1>5, HeadEdge DEF GotDeps, AsksForHead, AnswerIs
  <2> PICK n \in Names : n = Head(queue).name
    BY <2>0
  <2> DEFINE new == Deps[n]
  <2>1. /\ queue' = Tail(queue) \o new /\ asking = "deps" /\ asking' = "versions"
        /\ UNCHANGED <<placed, rpc, rerr>> /\ rpc = "walk" /\ Head(queue).name \in placed
    BY <1>5 DEF GotDeps, WalkCloses, poolVars
  <2>2. /\ \A i \in 1..Len(Tail(queue)) : \E j \in 1..Len(queue') : queue'[j] = Tail(queue)[i]
        /\ \A i \in 1..Len(new) : \E j \in 1..Len(queue') : queue'[j] = new[i]
    <3>1. new \in Seq(Edges)
      BY <2>0
    <3>2. Len(queue') = Len(Tail(queue)) + Len(new)
      BY <2>0, <2>1, <3>1, ConcatProperties
    <3>3. \A i \in 1..Len(Tail(queue)) : i \in 1..Len(queue') /\ queue'[i] = Tail(queue)[i]
      BY <2>0, <2>1, <3>1, <3>2, ConcatProperties
    <3>4. \A i \in 1..Len(new) :
             Len(Tail(queue)) + i \in 1..Len(queue') /\ queue'[Len(Tail(queue)) + i] = new[i]
      BY <2>0, <2>1, <3>1, <3>2, ConcatProperties
    <3> QED
      BY <3>3, <3>4
  <2>3. \A e \in Edges : Accounted(e) => Accounted(e)'
    BY <1>1, <2>0, <2>1, <2>2
  <2>4. \A m \in Names : \A i \in 1..Len(Deps[m]) : Deps[m][i] \in Edges
    OBVIOUS
  <2>5. \A i \in 1..Len(RootDeps) : RootDeps[i] \in Edges
    OBVIOUS
  <2>6. \A i \in 1..Len(new) : Accounted(new[i])'
    BY <2>2 DEF Accounted
  <2> QED
    BY <2>1, <2>3, <2>4, <2>5, <2>6 DEF WalkCloses, InHand
<1>6. CASE ResolveFails \/ ResolveEnds \/ RunReturns
           \/ (Pool!Submit /\ UNCHANGED <<flightVars, walkVars, warmVars>>)
  <2>1. UNCHANGED <<queue, asking, placed>>
    BY <1>6 DEF ResolveFails, ResolveEnds, RunReturns, walkVars, Pool!Resolved, Pool!Joined,
                Pool!Submit, Pool!SubmitSend, Pool!SubmitDrop
  <2>2. rpc' \in {"join", "returned"} /\ ~rerr' => queue = <<>>
    BY <1>6 DEF ResolveFails, ResolveEnds, RunReturns, WalkCloses, Pool!Resolved, Pool!Joined,
                Pool!Submit, Pool!SubmitSend, Pool!SubmitDrop
  <2> QED
    BY <2>1, <2>2 DEF WalkCloses, Accounted, InHand
<1> QED
  BY <1>2, <1>3, <1>4, <1>5, <1>6
  DEF Next, Resolve, ResolverAsk, InsideAsk, Exchange, Worker, WorkerAsk, WorkerAnswered, WarmSeeds,
      Warm, Acquire, WarmAsk, WarmAnswered, Pool!Receive, Pool!Exit, Pool!Dedup, Pool!Record,
      Pool!Sliced, Pool!Downloaded, Pool!Ingested, Pool!runVars, poolVars, walkVars

(* What arrived stays, and a success is a success of the cached request.    *)
LEMMA ArrivedStays ==
  ASSUME Parts!FlightInv, OkIsCached, Parts!Flight!Next \/ UNCHANGED Parts!Flight!vars
  PROVE  OkIsCached' /\ \A n \in Names : Arrived(n) => Arrived(n)'
<1> USE DEF OkIsCached, Arrived, Parts!FlightInv, Parts!Flight!TypeOK
<1>1. ASSUME NEW c \in Goroutines, NEW n \in Names, Parts!Flight!Open(c, n)
      PROVE  OkIsCached' /\ \A m \in Names : Arrived(m) => Arrived(m)'
  BY <1>1 DEF Parts!Flight!Open
<1>2. ASSUME NEW c \in Goroutines, NEW o \in {"ok", "err"}, Parts!Flight!Publish(c, o)
      PROVE  OkIsCached' /\ \A m \in Names : Arrived(m) => Arrived(m)'
  BY <1>2 DEF Parts!Flight!Publish, Parts!BusyIsCached, Parts!Busy
<1>3. ASSUME NEW c \in Goroutines, Parts!Flight!Evict(c)
      PROVE  OkIsCached' /\ \A m \in Names : Arrived(m) => Arrived(m)'
  BY <1>3 DEF Parts!Flight!Evict, Parts!BusyIsCached, Parts!Busy
<1>4. CASE UNCHANGED <<cache, flight>>
  BY <1>4
<1> QED
  BY <1>1, <1>2, <1>3, <1>4
  DEF Parts!Flight!Next, Parts!Flight!Lookup, Parts!Flight!Join, Parts!Flight!Step, Parts!Flight!Wake, Parts!Flight!Return,
      Parts!Flight!vars

(* Every step preserves the invariant; only GotVersions places a package,   *)
(* and it has just been answered.                                           *)
LEMMA NextIInv == IInv /\ [Next]_vars => IInv'
<1>1. CASE IInv /\ UNCHANGED vars
  <2>1. UNCHANGED Parts!Flight!vars /\ UNCHANGED Parts!vars
    BY <1>1 DEF vars, poolVars, flightVars, Parts!Flight!vars, Parts!vars,
                Parts!chanVars, Parts!poolVars, Parts!workVars, Parts!runVars
  <2>2. Parts!FlightInv' /\ Parts!IInv'
    BY <1>1, <2>1, Parts!StutterFlight, Parts!StutterIInv DEF IInv
  <2> QED
    BY <1>1, <2>2
    DEF IInv, vars, poolVars, flightVars, walkVars, warmVars, AsksForHead, OkIsCached,
        PlacedArrived, Arrived, CallsInPlace, WarmJoined, WalkCloses, Accounted, InHand
<1>2. ASSUME IInv, Next PROVE IInv'
  <2>0. KeysArePlaced /\ placed \subseteq Names
    BY <1>2, PoolKeys DEF IInv, KeysArePlaced
  <2>1. Parts!Flight!Next \/ UNCHANGED Parts!Flight!vars
    BY <1>2, <2>0, ProviderStep DEF IInv
  <2>2. Parts!FlightInv' /\ Parts!IInv'
    <3>1. Parts!Next \/ UNCHANGED Parts!vars
      BY <1>2, PoolStep DEF IInv
    <3> QED
      BY <1>2, <2>1, <3>1, Parts!NextFlight, Parts!NextIInv DEF IInv
  <2>3. AsksForHead' /\ CallsInPlace' /\ WarmJoined' /\ WalkCloses'
    BY <1>2, <2>0, WalkStep, CallsStep, EdgesStep DEF IInv
  <2>4. OkIsCached' /\ \A n \in Names : Arrived(n) => Arrived(n)'
    BY <1>2, <2>1, ArrivedStays DEF IInv
  <2>5. CASE GotVersions
    <3>1. placed' = placed \cup {Head(queue).name}
      BY <2>5 DEF GotVersions, Pool!Place
    <3>2. req[Resolver] \in Flight!Requests /\ flight[req[Resolver]] = "ok"
      BY <1>2, <2>5
      DEF IInv, Parts!FlightInv, Parts!Flight!TypeOK, GotVersions, AnswerIs, Flight!Answer, Goroutines
    <3>3. Arrived(Head(queue).name) /\ Head(queue).name \in Names
      BY <1>2, <2>5, <3>2 DEF IInv, AsksForHead, OkIsCached, Arrived, GotVersions, AnswerIs
    <3> QED
      BY <1>2, <2>0, <2>2, <2>3, <2>4, <3>1, <3>3 DEF IInv, PlacedArrived
  <2>6. CASE placed' = placed
    BY <1>2, <2>0, <2>2, <2>3, <2>4, <2>6 DEF IInv, PlacedArrived
  <2> QED
    BY <1>2, <2>5, <2>6
    DEF Next, Resolve, Worker, Warm, Reuse, ResolverAsk, InsideAsk, Exchange, SkipOptional, GotDeps,
        ResolveFails, ResolveEnds, RunReturns, WorkerAsk, WorkerAnswered, WarmSeeds, Acquire, WarmAsk,
        WarmAnswered, Pool!Submit, Pool!SubmitSend, Pool!SubmitDrop, Pool!Joined, Pool!Resolved,
        Pool!Receive, Pool!Exit, Pool!Dedup, Pool!Record, Pool!Sliced, Pool!Downloaded,
        Pool!Ingested, Pool!runVars, poolVars
<1> QED
  BY <1>1, <1>2

(* The invariant holds throughout an install.                               *)
THEOREM InstallInvariant == Spec => []IInv
  BY InitIInv, NextIInv, PTL DEF Spec
(* Whatever the prefetch failed at before, a worker that asks for the slice *)
(* of a package finds its packument in the provider (fetchOne, SliceOf).    *)
THEOREM WorkersFindSlices == Spec => []SliceAtHand
<1>1. IInv => SliceAtHand
  BY PoolKeys DEF IInv, KeysArePlaced, PlacedArrived, Arrived, SliceAtHand, Busy, Pool!WorkerPCs
<1> QED
  BY <1>1, InstallInvariant, PTL

(* In the install the resolver, the workers and the prefetch never have two *)
(* requests for one packument on the wire (packumentFor).                   *)
THEOREM OneRequestPerName == Spec => []SingleFlight
<1>1. IInv => SingleFlight
  BY DEF IInv, Parts!FlightInv, Parts!PendingIsCached, SingleFlight, Flight!SingleFlight
<1> QED
  BY <1>1, InstallInvariant, PTL

(* No goroutine of the install evicts the request of another (packumentFor).*)
THEOREM EvictionsAreOwn == Spec => []EvictsOwnFailure
<1>1. IInv => EvictsOwnFailure
  BY DEF IInv, Parts!FlightInv, Parts!BusyIsCached, Parts!Busy, EvictsOwnFailure,
         Flight!EvictsOwnFailure, Flight!Answer
<1> QED
  BY <1>1, InstallInvariant, PTL

(* No goroutine of the install drops a packument that arrived               *)
(* (packumentFor): the resolver sees one version list per name throughout.  *)
THEOREM PackumentsAreFinal == Spec => ArrivedIsFinal
<1>1. IInv /\ [Next]_vars => [Flight!KeepsArrived]_(Flight!vars)
  <2>1. ASSUME IInv, Next PROVE Flight!KeepsArrived \/ UNCHANGED Flight!vars
    <3>1. IInv' /\ OkIsCached'
      BY <2>1, NextIInv DEF IInv
    <3>2. \A r \in Flight!Requests : flight[r] = "ok" => flight'[r] = "ok"
      <4>1. Parts!Flight!Next \/ UNCHANGED Parts!Flight!vars
        BY <2>1, PoolKeys, ProviderStep DEF IInv
      <4> QED
        BY <2>1, <4>1
        DEF IInv, Parts!FlightInv, Parts!Flight!TypeOK, Parts!BusyIsCached, Parts!Busy, Parts!Flight!Next,
            Parts!Flight!Lookup, Parts!Flight!Join, Parts!Flight!Open, Parts!Flight!Step, Parts!Flight!Publish,
            Parts!Flight!Evict, Parts!Flight!Wake, Parts!Flight!Return, Parts!Flight!vars
    <3> QED
      BY <2>1, <3>1, <3>2
      DEF Flight!KeepsArrived, IInv, Parts!FlightInv, Parts!Flight!TypeOK, Parts!CachedIsOpened, OkIsCached
  <2> QED
    BY <2>1 DEF vars, flightVars, Flight!vars
<1> QED
  BY <1>1, InstallInvariant, PTL DEF Spec, ArrivedIsFinal, Flight!ArrivedIsFinal

(* "join the background prefetch - no leaked goroutine": when Run has       *)
(* returned, whatever failed on the way, no goroutine of the phase is left  *)
(* in the provider, at the semaphore or at work (Run, Warmup).              *)
THEOREM NothingLeaks == Spec => []NoLeak
<1>1. ASSUME IInv, verdict # "running" PROVE rpc = "returned" /\ \A w \in Workers : wpc[w] = "exited"
  BY <1>1 DEF IInv, Parts!IInv, Parts!Verdict, Parts!Shutdown
<1>2. ASSUME IInv, verdict # "running" PROVE NoLeak
  <2>1. pc[Resolver] = "idle" /\ \A w \in Workers : pc[w] = "idle"
    BY <1>1, <1>2 DEF IInv, AsksForHead, CallsInPlace
  <2>2. \A n \in Names : warm[n] \in {"absent", "done"} /\ pc[Prefetch(n)] = "idle"
    BY <1>1, <1>2 DEF IInv, CallsInPlace, WarmJoined
  <2> QED
    BY <1>1, <1>2, <2>1, <2>2 DEF NoLeak, Goroutines
<1>3. IInv => NoLeak
  BY <1>2 DEF NoLeak
<1> QED
  BY <1>3, InstallInvariant, PTL

(* A phase that reports success has stored or skipped all it placed, and    *)
(* what it placed is closed under required dependencies (Resolve, Run).     *)
THEOREM SuccessIsClosed == Spec => []Complete
<1>1. ASSUME IInv, verdict = "ok"
      PROVE  /\ rpc = "returned" /\ ferr = "none" /\ ~rerr
             /\ \A w \in Workers : wpc[w] = "exited"
  BY <1>1 DEF IInv, Parts!IInv, Parts!Verdict, Parts!Shutdown, Parts!ErrorsTraced,
              Parts!TypeOK
<1>2. ASSUME IInv, verdict = "ok" PROVE \A n \in placed : infos[n] \in {"stored", "skipped"}
  BY <1>1, <1>2, Parts!DrainedIsSettled DEF IInv
<1>3. ASSUME IInv, verdict = "ok"
      PROVE  \A edges \in {RootDeps} \cup {Deps[n] : n \in placed} :
               \A i \in 1..Len(edges) : edges[i].name \in placed \/ edges[i].optional
  <2>1. queue = <<>> /\ asking = "versions"
    BY <1>1, <1>3 DEF IInv, WalkCloses
  <2>2. \A e : Accounted(e) => e.name \in placed \/ e.optional
    BY <2>1 DEF Accounted
  <2> QED
    BY <1>3, <2>1, <2>2 DEF IInv, WalkCloses, InHand
<1>4. IInv => Complete
  BY <1>2, <1>3 DEF Complete
<1> QED
  BY <1>4, InstallInvariant, PTL

(* The pool of the install, whose slices come from the shared provider and  *)
(* whose packages come from the walk, behaves as TarballFetcher alone does, *)
(* so it keeps the contract of the phase (FetchContract) there, too.        *)
THEOREM InstallKeepsContract == Spec => Parts!Spec /\ Parts!ImplementsContract
<1>1. Init => Parts!Init
  BY DEF Init, Pool!Init, Parts!Init
<1>2. IInv /\ [Next]_vars => [Parts!Next]_(Parts!vars)
  <2>1. UNCHANGED vars => UNCHANGED Parts!vars
    BY DEF vars, poolVars, Parts!vars, Parts!chanVars, Parts!poolVars, Parts!workVars,
           Parts!runVars
  <2> QED
    BY <2>1, PoolStep DEF IInv
<1>3. Spec => Parts!Spec
  BY <1>1, <1>2, InstallInvariant, PTL DEF Spec, Parts!Spec
<1> QED
  BY <1>3, Parts!Refinement, PTL
================================================================================
