------------------------- MODULE FetchParts_proofs -------------------------
(***************************************************************************)
(* Proofs about the two parts of resolve-and-fetch, for all sizes.  About  *)
(* the provider (PackumentFlight), for every set of callers and names and  *)
(* every bound on the requests per name: coalescing, no lost wake-up,      *)
(* evictions only of one's own failure, and the finality of an arrived     *)
(* packument.  About the pool (TarballFetcher), for every set of packages  *)
(* and workers, every channel capacity and every number of placements: the *)
(* safety properties its run checks, and that it implements FetchContract. *)
(***************************************************************************)
EXTENDS TarballFetcher, SequenceTheorems, TLAPS

CONSTANTS Callers, Names, MaxFlights
VARIABLES cache, flight, pc, req
Flight == INSTANCE PackumentFlight

(* The caller at work on a request: it performs the exchange, or it is     *)
(* between the two critical sections of a failed one.                      *)
Busy(c) == pc[c] \in {"own", "evict"}

(* A pending request is the one in the cache.                              *)
PendingIsCached ==
  \A r \in Flight!Requests : flight[r] = "pending" => cache[r[1]] = r

(* A busy caller's request is the cached one, pending while it is owned    *)
(* and failed once it is being evicted.                                    *)
BusyIsCached ==
  \A c \in Callers : Busy(c) =>
    /\ cache[req[c][1]] = req[c]
    /\ pc[c] = "own" => flight[req[c]] = "pending"
    /\ pc[c] = "evict" => flight[req[c]] = "err"

(* No two callers are at work on the same request.                         *)
OneBusy ==
  \A c, d \in Callers : Busy(c) /\ Busy(d) /\ req[c] = req[d] => c = d

(* A pending request has an owner.                                         *)
PendingHasOwner ==
  \A r \in Flight!Requests : flight[r] = "pending" =>
    \E o \in Callers : pc[o] = "own" /\ req[o] = r

(* A cached request has been opened for that name.                         *)
CachedIsOpened ==
  \A n \in Names : cache[n] # Flight!NoRequest =>
    cache[n] \in Flight!Requests /\ cache[n][1] = n /\ flight[cache[n]] # "unused"

FlightInv == /\ Flight!TypeOK
        /\ PendingIsCached
        /\ BusyIsCached
        /\ OneBusy
        /\ PendingHasOwner
        /\ CachedIsOpened

USE DEF Flight!Indices, Flight!Requests, Flight!NoRequest, Flight!Outcomes, Flight!Stages

(* The invariant holds of the empty provider.                               *)
LEMMA InitFlight == Flight!Init => FlightInv
  BY DEF Flight!Init, FlightInv, Flight!TypeOK, PendingIsCached, BusyIsCached, OneBusy, PendingHasOwner,
      CachedIsOpened, Busy

(* Joining a request changes nothing but its caller.                        *)
LEMMA JoinFlight ==
  ASSUME FlightInv, NEW c \in Callers, NEW n \in Names, Flight!Join(c, n)
  PROVE  FlightInv'
  BY DEF FlightInv, Flight!TypeOK, PendingIsCached, BusyIsCached, OneBusy, PendingHasOwner,
      CachedIsOpened, Busy, Flight!Join

(* A request is opened only where none is cached, so it is the only pending *)
(* one of its name.                                                         *)
LEMMA OpenFlight ==
  ASSUME FlightInv, NEW c \in Callers, NEW n \in Names, Flight!Open(c, n)
  PROVE  FlightInv'
<1>1. Flight!TypeOK'
  BY DEF FlightInv, Flight!TypeOK, Flight!Open
<1>2. PendingIsCached'
  BY DEF FlightInv, Flight!TypeOK, PendingIsCached, Flight!Open
<1>3. BusyIsCached'
  BY DEF FlightInv, Flight!TypeOK, BusyIsCached, Busy, Flight!Open
<1>4. OneBusy'
  BY DEF FlightInv, Flight!TypeOK, BusyIsCached, OneBusy, Busy, Flight!Open
<1>5. PendingHasOwner'
  BY DEF FlightInv, Flight!TypeOK, PendingHasOwner, Flight!Open
<1>6. CachedIsOpened'
  BY DEF FlightInv, Flight!TypeOK, CachedIsOpened, Flight!Open
<1> QED
  BY <1>1, <1>2, <1>3, <1>4, <1>5, <1>6 DEF FlightInv

(* A published request is no longer pending; a failed one is still the      *)
(* cached one.                                                              *)
LEMMA PublishFlight ==
  ASSUME FlightInv, NEW c \in Callers, NEW o \in Flight!Outcomes, Flight!Publish(c, o)
  PROVE  FlightInv'
<1>1. Flight!TypeOK'
  BY DEF FlightInv, Flight!TypeOK, Flight!Publish
<1>2. PendingIsCached'
  BY DEF FlightInv, PendingIsCached, Flight!Publish
<1>3. BusyIsCached'
  BY DEF FlightInv, Flight!TypeOK, BusyIsCached, OneBusy, Busy, Flight!Publish
<1>4. OneBusy'
  BY DEF FlightInv, OneBusy, Busy, Flight!Publish
<1>5. PendingHasOwner'
  BY DEF FlightInv, Flight!TypeOK, PendingHasOwner, Flight!Publish
<1>6. CachedIsOpened'
  BY DEF FlightInv, CachedIsOpened, Flight!Publish
<1> QED
  BY <1>1, <1>2, <1>3, <1>4, <1>5, <1>6 DEF FlightInv

(* The evicted request is the failed one of the caller, so no pending       *)
(* request goes.                                                            *)
LEMMA EvictFlight ==
  ASSUME FlightInv, NEW c \in Callers, Flight!Evict(c)
  PROVE  FlightInv'
<1>1. Flight!TypeOK'
  BY DEF FlightInv, Flight!TypeOK, Flight!Evict
<1>2. PendingIsCached'
  BY DEF FlightInv, PendingIsCached, BusyIsCached, Busy, Flight!Evict
<1>3. BusyIsCached'
  BY DEF FlightInv, Flight!TypeOK, BusyIsCached, OneBusy, Busy, Flight!Evict
<1>4. OneBusy'
  BY DEF FlightInv, OneBusy, Busy, Flight!Evict
<1>5. PendingHasOwner'
  BY DEF FlightInv, PendingHasOwner, Flight!Evict
<1>6. CachedIsOpened'
  BY DEF FlightInv, CachedIsOpened, Flight!Evict
<1> QED
  BY <1>1, <1>2, <1>3, <1>4, <1>5, <1>6 DEF FlightInv

(* A waiter wakes without touching the cache.                               *)
LEMMA WakeFlight ==
  ASSUME FlightInv, NEW c \in Callers, Flight!Wake(c)
  PROVE  FlightInv'
  BY DEF FlightInv, Flight!TypeOK, PendingIsCached, BusyIsCached, OneBusy, PendingHasOwner,
      CachedIsOpened, Busy, Flight!Wake

(* A call that returns leaves its request behind.                           *)
LEMMA ReturnFlight ==
  ASSUME FlightInv, NEW c \in Callers, Flight!Return(c)
  PROVE  FlightInv'
<1>1. Flight!TypeOK'
  BY DEF FlightInv, Flight!TypeOK, Flight!Return
<1>2. PendingIsCached'
  BY DEF FlightInv, PendingIsCached, Flight!Return
<1>3. BusyIsCached'
  BY DEF FlightInv, BusyIsCached, Busy, Flight!Return
<1>4. OneBusy'
  BY DEF FlightInv, OneBusy, Busy, Flight!Return
<1>5. PendingHasOwner'
  BY DEF FlightInv, PendingHasOwner, Flight!Return
<1>6. CachedIsOpened'
  BY DEF FlightInv, CachedIsOpened, Flight!Return
<1> QED
  BY <1>1, <1>2, <1>3, <1>4, <1>5, <1>6 DEF FlightInv

(* The invariant is about the variables of the provider alone.              *)
LEMMA StutterFlight == FlightInv /\ UNCHANGED Flight!vars => FlightInv'
  BY DEF FlightInv, Flight!TypeOK, PendingIsCached, BusyIsCached, OneBusy, PendingHasOwner,
      CachedIsOpened, Busy, Flight!vars

(* Every step of every caller preserves the invariant.                      *)
LEMMA NextFlight == FlightInv /\ [Flight!Next]_(Flight!vars) => FlightInv'
  BY JoinFlight, OpenFlight, PublishFlight, EvictFlight, WakeFlight, ReturnFlight, StutterFlight DEF
      Flight!Next, Flight!Lookup, Flight!Step

(* The inductive invariant holds in every reachable state.                 *)
THEOREM FlightInvariant == Flight!Spec => []FlightInv
  BY InitFlight, NextFlight, PTL DEF Flight!Spec

(* Every reachable state is well typed, and only idle callers hold no      *)
(* request.                                                                *)
THEOREM FlightTypeCorrect == Flight!Spec => []Flight!TypeOK
<1>1. FlightInv => Flight!TypeOK
  BY DEF FlightInv
<1> QED
  BY <1>1, FlightInvariant, PTL

(* At most one request per package name is on the wire.                    *)
THEOREM Coalescing == Flight!Spec => []Flight!SingleFlight
<1>1. FlightInv => Flight!SingleFlight
  BY DEF FlightInv, PendingIsCached, Flight!SingleFlight
<1> QED
  BY <1>1, FlightInvariant, PTL

(* A caller blocked on an open channel has a caller that will close it.    *)
THEOREM NoLostWakeUp == Flight!Spec => []Flight!WaitersHaveOwner
<1>1. FlightInv => Flight!WaitersHaveOwner
  BY DEF FlightInv, Flight!TypeOK, PendingHasOwner, Flight!WaitersHaveOwner
<1> QED
  BY <1>1, FlightInvariant, PTL

(* An eviction by name removes the evicting caller's own failed request.   *)
THEOREM EvictionIsOwn == Flight!Spec => []Flight!EvictsOwnFailure
<1>1. FlightInv => Flight!EvictsOwnFailure
  BY DEF FlightInv, BusyIsCached, Busy, Flight!EvictsOwnFailure, Flight!Answer
<1> QED
  BY <1>1, FlightInvariant, PTL

(* No step of any caller drops or replaces a packument that arrived.       *)
THEOREM Finality == Flight!Spec => Flight!ArrivedIsFinal
<1>1. FlightInv /\ [Flight!Next]_(Flight!vars) => [Flight!KeepsArrived]_(Flight!vars)
  <2> SUFFICES ASSUME FlightInv, Flight!Next PROVE Flight!KeepsArrived
    OBVIOUS
  <2> PICK c \in Callers : (\E n \in Names : Flight!Lookup(c, n)) \/ Flight!Step(c) \/ Flight!Return(c)
    BY DEF Flight!Next
  <2>1. ASSUME NEW n \in Names, Flight!Open(c, n) PROVE Flight!KeepsArrived
    BY <2>1 DEF Flight!Open, Flight!KeepsArrived
  <2>2. CASE Flight!Evict(c)
    BY <2>2 DEF FlightInv, BusyIsCached, Busy, Flight!Evict, Flight!KeepsArrived
  <2>3. CASE UNCHANGED cache
    BY <2>3 DEF Flight!KeepsArrived
  <2> QED
    BY <2>1, <2>2, <2>3 DEF Flight!Lookup, Flight!Join, Flight!Step, Flight!Publish, Flight!Wake, Flight!Return
<1> QED
  BY <1>1, FlightInvariant, PTL DEF Flight!ArrivedIsFinal, Flight!Spec
--------------------------------------------------------------------------------
(* The packages in the channel.                                            *)
Elements(s) == {s[i] : i \in 1..Len(s)}
Queued == Elements(ch)

(* Worker w is inside fetchOne, or holds its result.                       *)
Fetching(w) == wpc[w] \notin {"recv", "dedup", "exited"}

HeldBySome(k) == \E w \in Workers : wkey[w] = k /\ wpc[w] = "dedup"
FetchedBySome(k) == \E w \in Workers : wkey[w] = k /\ Fetching(w)

(* A placed package is on its way or has arrived at the pool, or an error  *)
(* has been recorded.                                                      *)
Accounted ==
  \A k \in placed : ferr # "none" \/ rkey = k \/ k \in Queued \/ HeldBySome(k) \/ k \in seen

(* A seen package has an info or a worker that will record one.            *)
SeenIsWorked == \A k \in seen : infos[k] # "none" \/ FetchedBySome(k)

(* Nothing is in the pool that was not placed, no info that was not seen.  *)
FromPlaced ==
  /\ rkey = NoKey \/ rkey \in placed
  /\ Queued \subseteq placed
  /\ \A w \in Workers : wkey[w] = NoKey \/ wkey[w] \in placed
  /\ seen \subseteq placed
  /\ \A k \in Keys : infos[k] # "none" => k \in seen

(* A package being fetched is seen, has no info yet, and has one worker.   *)
OneFetcher ==
  /\ \A w \in Workers : Fetching(w) => wkey[w] \in seen /\ infos[wkey[w]] = "none"
  /\ \A v, w \in Workers : Fetching(v) /\ Fetching(w) /\ wkey[v] = wkey[w] => v = w
  /\ \A k \in Keys : fetches[k] = IF k \in seen THEN 1 ELSE 0

(* An error leaves its trace, and its trace is a fetch error.              *)
ErrorsTraced ==
  /\ ferr \in {"none", "fetch"}
  /\ \A k \in Keys : infos[k] = "empty" => ferr # "none"
  /\ cancelled => ferr # "none" \/ rpc = "returned"
  /\ \A w \in Workers : wpc[w] = "canceled" => ferr # "none"

(* The channel closes when the resolver is done, workers leave it drained, *)
(* and Run returns after the last of them.                                 *)
Shutdown ==
  /\ closed <=> rpc \in {"join", "returned"}
  /\ \A w \in Workers : wpc[w] = "exited" => closed /\ Queued = {}
  /\ rpc = "returned" => \A w \in Workers : wpc[w] = "exited"

Verdict ==
  /\ rpc \in {"walk", "submit"} => rerr = FALSE
  /\ verdict = IF rpc # "returned" THEN "running"
               ELSE IF ferr # "none" THEN ferr ELSE IF rerr THEN "resolve" ELSE "ok"

IInv == TypeOK /\ Accounted /\ SeenIsWorked /\ FromPlaced /\ OneFetcher
        /\ ErrorsTraced /\ Shutdown /\ Verdict

USE PoolAssumption DEF Causes, InfoKind, WorkerPCs, RunPCs

(* Appending adds one element.                                             *)
LEMMA AppendElements ==
  ASSUME NEW S, NEW s \in Seq(S), NEW e \in S
  PROVE  Elements(Append(s, e)) = Elements(s) \cup {e}
  BY DEF Elements

(* Taking the head leaves the other elements, and duplicates of the head.  *)
LEMMA TailElements ==
  ASSUME NEW S, NEW s \in Seq(S), s # <<>>
  PROVE  /\ Head(s) \in S /\ Tail(s) \in Seq(S) /\ Len(Tail(s)) = Len(s) - 1
         /\ Elements(s) = Elements(Tail(s)) \cup {Head(s)}
<1>1. /\ Head(s) = s[1] /\ Head(s) \in S /\ Tail(s) \in Seq(S)
      /\ Len(s) \in Nat \ {0} /\ Len(Tail(s)) = Len(s) - 1
      /\ \A i \in 1..Len(Tail(s)) : Tail(s)[i] = s[i + 1]
  OBVIOUS
<1>2. \A i \in 1..Len(s) : i = 1 \/ (i - 1 \in 1..Len(Tail(s)) /\ Tail(s)[i - 1] = s[i])
  BY <1>1
<1>3. \A i \in 1..Len(Tail(s)) : i + 1 \in 1..Len(s)
  BY <1>1
<1>4. \A x \in Elements(s) : x \in Elements(Tail(s)) \/ x = Head(s)
  BY <1>1, <1>2 DEF Elements
<1>5. Head(s) \in Elements(s) /\ \A x \in Elements(Tail(s)) : x \in Elements(s)
  BY <1>1, <1>3 DEF Elements
<1> QED
  BY <1>1, <1>4, <1>5

(* The empty channel is the one without elements.                          *)
LEMMA NoElements ==
  ASSUME NEW S, NEW s \in Seq(S)
  PROVE  s = <<>> <=> Elements(s) = {}
<1>1. CASE s = <<>>
  BY <1>1 DEF Elements
<1>2. CASE s # <<>>
  <2>1. Len(s) \in Nat /\ Len(s) # 0
    BY <1>2
  <2>2. s[1] \in Elements(s)
    BY <2>1 DEF Elements
  <2> QED
    BY <1>2, <2>2
<1> QED
  BY <1>1, <1>2

(* The invariant holds of a pool that was just started.                     *)
LEMMA InitIInv == Init => IInv
<1> SUFFICES ASSUME Init PROVE IInv
  OBVIOUS
<1>0. Queued = {} /\ ch \in Seq(Keys) /\ Len(ch) = 0
  <2>1. ch = <<>> /\ ch \in Seq(Keys)
    BY DEF Init
  <2> QED
    BY <2>1, NoElements DEF Queued
<1>1. TypeOK
  <2>1. count \in 0..MaxPlacements /\ Len(ch) <= Cap
    BY <1>0 DEF Init
  <2> QED
    BY <1>0, <2>1 DEF Init, TypeOK
<1>2. Accounted
  BY <1>0 DEF Init, Accounted
<1>3. SeenIsWorked
  BY <1>0 DEF Init, SeenIsWorked
<1>4. FromPlaced
  BY <1>0 DEF Init, FromPlaced
<1>5. OneFetcher
  BY <1>0 DEF Init, OneFetcher, Fetching
<1>6. ErrorsTraced
  BY <1>0 DEF Init, ErrorsTraced
<1>7. Shutdown
  BY <1>0 DEF Init, Shutdown
<1>8. Verdict
  BY <1>0 DEF Init, Verdict, Fetching, HeldBySome, FetchedBySome
<1> QED
  BY <1>1, <1>2, <1>3, <1>4, <1>5, <1>6, <1>7, <1>8 DEF IInv

(* A package that is placed is on its way into the channel.                 *)
LEMMA PlaceIInv ==
  ASSUME IInv, NEW k \in Keys, Place(k)
  PROVE  IInv'
<1>1. TypeOK'
  BY DEF IInv, TypeOK, chanVars, workVars, runVars, Place, Goto, poolVars
<1>2. Accounted'
  BY DEF IInv, TypeOK, Accounted, Queued, HeldBySome, chanVars, workVars, runVars,
      Place, Goto, poolVars
<1>3. SeenIsWorked'
  BY DEF IInv, SeenIsWorked, Fetching, FetchedBySome, workVars, runVars, Place, Goto,
      poolVars
<1>4. FromPlaced'
  BY DEF IInv, FromPlaced, Queued, chanVars, workVars, runVars, Place, Goto, poolVars
<1>5. OneFetcher'
  BY DEF IInv, OneFetcher, Fetching, workVars, runVars, Place, Goto, poolVars
<1>6. ErrorsTraced'
  BY DEF IInv, ErrorsTraced, workVars, runVars, Place, Goto, poolVars
<1>7. Shutdown'
  BY DEF IInv, Shutdown, chanVars, workVars, runVars, Place, Goto
<1>8. Verdict'
  BY DEF IInv, Verdict, workVars, runVars, Place, Goto
<1> QED
  BY <1>1, <1>2, <1>3, <1>4, <1>5, <1>6, <1>7, <1>8 DEF IInv

(* A package that is sent passes from Run to the channel, which has room    *)
(* for it.                                                                  *)
LEMMA SubmitSendIInv ==
  ASSUME IInv, SubmitSend
  PROVE  IInv'
<1>1. TypeOK'
  BY AppendElements DEF IInv, TypeOK, workVars, runVars, SubmitSend, Goto, poolVars
<1>2. Accounted'
  BY AppendElements DEF IInv, TypeOK, Accounted, Queued, HeldBySome, workVars, runVars,
      SubmitSend, Goto, poolVars
<1>3. SeenIsWorked'
  BY AppendElements DEF IInv, SeenIsWorked, Fetching, FetchedBySome, workVars, runVars,
      SubmitSend, Goto, poolVars
<1>4. FromPlaced'
  BY AppendElements DEF IInv, TypeOK, FromPlaced, Queued, workVars, runVars, SubmitSend,
      Goto, poolVars
<1>5. OneFetcher'
  BY AppendElements DEF IInv, OneFetcher, Fetching, workVars, runVars, SubmitSend, Goto,
      poolVars
<1>6. ErrorsTraced'
  BY AppendElements DEF IInv, ErrorsTraced, workVars, runVars, SubmitSend, Goto, poolVars
<1>7. Shutdown'
  BY AppendElements DEF IInv, Shutdown, workVars, runVars, SubmitSend, Goto
<1>8. Verdict'
  BY AppendElements DEF IInv, Verdict, workVars, runVars, SubmitSend, Goto
<1> QED
  BY <1>1, <1>2, <1>3, <1>4, <1>5, <1>6, <1>7, <1>8 DEF IInv

(* A package is dropped only after a cancellation, which an error caused.   *)
LEMMA SubmitDropIInv ==
  ASSUME IInv, SubmitDrop
  PROVE  IInv'
<1>1. TypeOK'
  BY DEF IInv, TypeOK, chanVars, workVars, runVars, SubmitDrop, Goto, poolVars
<1>2. Accounted'
  BY DEF IInv, Accounted, ErrorsTraced, workVars, runVars, SubmitDrop, Goto, poolVars
<1>3. SeenIsWorked'
  BY DEF IInv, SeenIsWorked, Fetching, FetchedBySome, workVars, runVars, SubmitDrop,
      Goto, poolVars
<1>4. FromPlaced'
  BY DEF IInv, FromPlaced, Queued, chanVars, workVars, runVars, SubmitDrop, Goto,
      poolVars
<1>5. OneFetcher'
  BY DEF IInv, OneFetcher, Fetching, workVars, runVars, SubmitDrop, Goto, poolVars
<1>6. ErrorsTraced'
  BY DEF IInv, ErrorsTraced, workVars, runVars, SubmitDrop, Goto, poolVars
<1>7. Shutdown'
  BY DEF IInv, Shutdown, chanVars, workVars, runVars, SubmitDrop, Goto
<1>8. Verdict'
  BY DEF IInv, Verdict, workVars, runVars, SubmitDrop, Goto
<1> QED
  BY <1>1, <1>2, <1>3, <1>4, <1>5, <1>6, <1>7, <1>8 DEF IInv

(* The channel is closed once nothing more will be sent.                    *)
LEMMA ResolvedIInv ==
  ASSUME IInv, NEW e \in BOOLEAN, Resolved(e)
  PROVE  IInv'
<1>1. TypeOK'
  BY DEF IInv, TypeOK, workVars, runVars, Resolved, Goto, poolVars
<1>2. Accounted'
  BY DEF IInv, Accounted, Queued, HeldBySome, workVars, runVars, Resolved, Goto, poolVars
<1>3. SeenIsWorked'
  BY DEF IInv, SeenIsWorked, Fetching, FetchedBySome, workVars, runVars, Resolved, Goto,
      poolVars
<1>4. FromPlaced'
  BY DEF IInv, FromPlaced, Queued, workVars, runVars, Resolved, Goto, poolVars
<1>5. OneFetcher'
  BY DEF IInv, OneFetcher, Fetching, workVars, runVars, Resolved, Goto, poolVars
<1>6. ErrorsTraced'
  BY DEF IInv, ErrorsTraced, workVars, runVars, Resolved, Goto, poolVars
<1>7. Shutdown'
  BY DEF IInv, Shutdown, workVars, runVars, Resolved, Goto
<1>8. Verdict'
  BY DEF IInv, Verdict, workVars, runVars, Resolved, Goto
<1> QED
  BY <1>1, <1>2, <1>3, <1>4, <1>5, <1>6, <1>7, <1>8 DEF IInv

(* Run returns when every worker has exited, with the verdict of the pool.  *)
LEMMA JoinedIInv ==
  ASSUME IInv, Joined
  PROVE  IInv'
<1>1. TypeOK'
  BY DEF IInv, TypeOK, chanVars, workVars, runVars, Joined, Goto
<1>2. Accounted'
  BY DEF IInv, Accounted, Shutdown, HeldBySome, workVars, runVars, Joined, Goto
<1>3. SeenIsWorked'
  BY DEF IInv, SeenIsWorked, Fetching, FetchedBySome, workVars, runVars, Joined, Goto
<1>4. FromPlaced'
  BY DEF IInv, FromPlaced, Queued, chanVars, workVars, runVars, Joined, Goto
<1>5. OneFetcher'
  BY DEF IInv, OneFetcher, Fetching, workVars, runVars, Joined, Goto
<1>6. ErrorsTraced'
  BY DEF IInv, ErrorsTraced, workVars, runVars, Joined, Goto
<1>7. Shutdown'
  BY DEF IInv, Shutdown, Queued, chanVars, workVars, runVars, Joined, Goto
<1>8. Verdict'
  BY DEF Verdict, workVars, runVars, Joined, Goto
<1> QED
  BY <1>1, <1>2, <1>3, <1>4, <1>5, <1>6, <1>7, <1>8 DEF IInv

(* A package that is received passes from the channel to the worker.        *)
LEMMA ReceiveIInv ==
  ASSUME IInv, NEW w \in Workers, Receive(w)
  PROVE  IInv'
<1>1. TypeOK'
  BY TailElements DEF IInv, TypeOK, workVars, runVars, Receive, Goto, poolVars
<1>2. Accounted'
  BY TailElements DEF IInv, TypeOK, Accounted, Queued, HeldBySome, workVars, runVars,
      Receive, Goto, poolVars
<1>3. SeenIsWorked'
  BY TailElements DEF IInv, SeenIsWorked, Fetching, FetchedBySome, workVars, runVars,
      Receive, Goto, poolVars
<1>4. FromPlaced'
  BY TailElements DEF IInv, TypeOK, FromPlaced, Queued, workVars, runVars, Receive,
      Goto, poolVars
<1>5. OneFetcher'
  BY TailElements DEF IInv, OneFetcher, Fetching, workVars, runVars, Receive, Goto,
      poolVars
<1>6. ErrorsTraced'
  BY TailElements DEF IInv, ErrorsTraced, workVars, runVars, Receive, Goto, poolVars
<1>7. Shutdown'
  BY TailElements DEF IInv, TypeOK, Shutdown, Queued, workVars, runVars, Receive, Goto
<1>8. Verdict'
  BY TailElements DEF IInv, Verdict, workVars, runVars, Receive, Goto, poolVars
<1> QED
  BY <1>1, <1>2, <1>3, <1>4, <1>5, <1>6, <1>7, <1>8 DEF IInv

(* A worker leaves a channel that is closed and empty.                      *)
LEMMA ExitIInv ==
  ASSUME IInv, NEW w \in Workers, Exit(w)
  PROVE  IInv'
<1>1. TypeOK'
  BY DEF IInv, TypeOK, chanVars, workVars, runVars, Exit, Goto, poolVars
<1>2. Accounted'
  BY DEF IInv, Accounted, Queued, HeldBySome, chanVars, workVars, runVars, Exit, Goto,
      poolVars
<1>3. SeenIsWorked'
  BY DEF IInv, SeenIsWorked, Fetching, FetchedBySome, workVars, runVars, Exit, Goto,
      poolVars
<1>4. FromPlaced'
  BY DEF IInv, FromPlaced, Queued, chanVars, workVars, runVars, Exit, Goto, poolVars
<1>5. OneFetcher'
  BY DEF IInv, OneFetcher, Fetching, workVars, runVars, Exit, Goto, poolVars
<1>6. ErrorsTraced'
  BY DEF IInv, ErrorsTraced, workVars, runVars, Exit, Goto, poolVars
<1>7. Shutdown'
  BY NoElements DEF IInv, TypeOK, Shutdown, Queued, chanVars, workVars, runVars, Exit,
      Goto
<1>8. Verdict'
  BY DEF IInv, Verdict, workVars, runVars, Exit, Goto, poolVars
<1> QED
  BY <1>1, <1>2, <1>3, <1>4, <1>5, <1>6, <1>7, <1>8 DEF IInv

(* The first worker to see a package fetches it, any other drops it.        *)
LEMMA DedupIInv ==
  ASSUME IInv, NEW w \in Workers, Dedup(w)
  PROVE  IInv'
<1>0. /\ wkey[w] \in Keys /\ wpc[w] = "dedup"
      /\ UNCHANGED <<ch, closed, cancelled, infos, ferr>>
      /\ UNCHANGED <<rpc, rkey, rerr, placed, count, verdict>>
  BY DEF IInv, TypeOK, Dedup, chanVars, runVars
<1>1. CASE wkey[w] \in seen
  <2>1. /\ wpc' = [wpc EXCEPT ![w] = "recv"]
        /\ wkey' = [wkey EXCEPT ![w] = NoKey]
        /\ seen' = seen /\ fetches' = fetches
    BY <1>1 DEF Dedup, Goto
  <2>2. \A v \in Workers :
          /\ Fetching(v)' <=> Fetching(v)
          /\ v # w => wkey'[v] = wkey[v] /\ wpc'[v] = wpc[v]
    BY <1>0, <2>1 DEF Fetching
  <2>3. ~Fetching(w)
    BY <1>0 DEF Fetching
  <2>4. TypeOK'
    BY <1>0, <2>1 DEF IInv, TypeOK
  <2>5. Accounted'
    BY <1>0, <1>1, <2>1 DEF IInv, Accounted, HeldBySome, Queued
  <2>6. SeenIsWorked'
    BY <1>0, <2>1, <2>2, <2>3 DEF IInv, SeenIsWorked, FetchedBySome
  <2>7. FromPlaced'
    BY <1>0, <2>1 DEF IInv, FromPlaced, Queued
  <2>8. OneFetcher'
    BY <1>0, <2>1, <2>2, <2>3 DEF IInv, OneFetcher
  <2>9. ErrorsTraced' /\ Shutdown' /\ Verdict'
    BY <1>0, <2>1 DEF IInv, ErrorsTraced, Shutdown, Verdict, Queued
  <2> QED
    BY <2>4, <2>5, <2>6, <2>7, <2>8, <2>9 DEF IInv
<1>2. CASE wkey[w] \notin seen
  <2>1. /\ wpc' = [wpc EXCEPT ![w] = "slice"]
        /\ seen' = seen \cup {wkey[w]}
        /\ fetches' = [fetches EXCEPT ![wkey[w]] = @ + 1]
        /\ wkey' = wkey
    BY <1>2 DEF Dedup, Goto
  <2>2. \A v \in Workers :
          /\ Fetching(v)' <=> v = w \/ Fetching(v)
          /\ v # w => wpc'[v] = wpc[v]
    BY <1>0, <2>1 DEF IInv, TypeOK, Fetching
  <2>3. infos[wkey[w]] = "none"
    BY <1>0, <1>2 DEF IInv, FromPlaced
  <2>4. TypeOK'
    <3>1. fetches' \in [Keys -> Nat] /\ seen' \subseteq Keys
      BY <1>0, <2>1 DEF IInv, TypeOK
    <3>2. /\ wpc' \in [Workers -> WorkerPCs]
          /\ \A v \in Workers : wpc'[v] \in {"recv", "exited"} <=> wkey'[v] = NoKey
      BY <1>0, <2>1 DEF IInv, TypeOK
    <3> QED
      BY <1>0, <2>1, <3>1, <3>2 DEF IInv, TypeOK
  <2>5. Accounted'
    BY <1>0, <2>1 DEF IInv, Accounted, HeldBySome, Queued
  <2>6. SeenIsWorked'
    BY <1>0, <2>1, <2>2 DEF IInv, SeenIsWorked, FetchedBySome
  <2>7. FromPlaced'
    BY <1>0, <2>1 DEF IInv, FromPlaced, Queued
  <2>8. OneFetcher'
    <3>1. \A k \in Keys : fetches'[k] = IF k \in seen' THEN 1 ELSE 0
      BY <1>0, <1>2, <2>1 DEF IInv, TypeOK, OneFetcher
    <3> QED
      BY <1>0, <1>2, <2>1, <2>2, <2>3, <3>1 DEF IInv, OneFetcher
  <2>9. ErrorsTraced' /\ Shutdown' /\ Verdict'
    BY <1>0, <2>1 DEF IInv, ErrorsTraced, Shutdown, Verdict, Queued
  <2> QED
    BY <2>4, <2>5, <2>6, <2>7, <2>8, <2>9 DEF IInv
<1> QED
  BY <1>1, <1>2

(* A worker that has its slice still holds its package.                     *)
LEMMA SlicedIInv ==
  ASSUME IInv, NEW w \in Workers, NEW f \in BOOLEAN, Sliced(w, f)
  PROVE  IInv'
<1>1. TypeOK'
  <2>1. PICK at \in {"fetch", "skipped", "download"} : wpc' = [wpc EXCEPT ![w] = at]
    BY DEF Sliced, Goto
  <2>2. wpc[w] = "slice" /\ UNCHANGED <<chanVars, poolVars, wkey, runVars>>
    BY DEF Sliced
  <2> QED
    BY <2>1, <2>2 DEF IInv, TypeOK, chanVars, poolVars, runVars, WorkerPCs
<1>2. Accounted'
  BY DEF IInv, Accounted, Queued, HeldBySome, chanVars, workVars, runVars, Sliced, Goto,
      poolVars
<1>3. SeenIsWorked'
  BY DEF IInv, SeenIsWorked, Fetching, FetchedBySome, workVars, runVars, Sliced, Goto,
      poolVars
<1>4. FromPlaced'
  BY DEF IInv, FromPlaced, Queued, chanVars, workVars, runVars, Sliced, Goto, poolVars
<1>5. OneFetcher'
  BY DEF IInv, OneFetcher, Fetching, workVars, runVars, Sliced, Goto, poolVars
<1>6. ErrorsTraced'
  BY DEF IInv, ErrorsTraced, workVars, runVars, Sliced, Goto, poolVars
<1>7. Shutdown'
  BY DEF IInv, Shutdown, Queued, chanVars, workVars, runVars, Sliced, Goto
<1>8. Verdict'
  BY DEF IInv, Verdict, workVars, runVars, Sliced, Goto, poolVars
<1> QED
  BY <1>1, <1>2, <1>3, <1>4, <1>5, <1>6, <1>7, <1>8 DEF IInv

(* A download that was canceled happens only after an error.                *)
LEMMA DownloadedIInv ==
  ASSUME IInv, NEW w \in Workers, NEW o \in Causes \cup {"ok"}, Downloaded(w, o)
  PROVE  IInv'
<1>1. TypeOK'
  BY DEF IInv, TypeOK, chanVars, workVars, runVars, Downloaded, Goto, poolVars
<1>2. Accounted'
  BY DEF IInv, Accounted, Queued, HeldBySome, chanVars, workVars, runVars, Downloaded,
      Goto, poolVars
<1>3. SeenIsWorked'
  BY DEF IInv, SeenIsWorked, Fetching, FetchedBySome, workVars, runVars, Downloaded,
      Goto, poolVars
<1>4. FromPlaced'
  BY DEF IInv, FromPlaced, Queued, chanVars, workVars, runVars, Downloaded, Goto,
      poolVars
<1>5. OneFetcher'
  BY DEF IInv, OneFetcher, Fetching, workVars, runVars, Downloaded, Goto, poolVars
<1>6. ErrorsTraced'
  BY DEF IInv, ErrorsTraced, Shutdown, workVars, runVars, Downloaded, Goto, poolVars
<1>7. Shutdown'
  BY DEF IInv, Shutdown, Queued, chanVars, workVars, runVars, Downloaded, Goto
<1>8. Verdict'
  BY DEF IInv, Verdict, workVars, runVars, Downloaded, Goto, poolVars
<1> QED
  BY <1>1, <1>2, <1>3, <1>4, <1>5, <1>6, <1>7, <1>8 DEF IInv

(* A worker that has ingested still holds its package.                      *)
LEMMA IngestedIInv ==
  ASSUME IInv, NEW w \in Workers, NEW o \in {"ok", "err"}, Ingested(w, o)
  PROVE  IInv'
<1>1. TypeOK'
  BY DEF IInv, TypeOK, chanVars, workVars, runVars, Ingested, Goto, poolVars
<1>2. Accounted'
  BY DEF IInv, Accounted, Queued, HeldBySome, chanVars, workVars, runVars, Ingested,
      Goto, poolVars
<1>3. SeenIsWorked'
  BY DEF IInv, SeenIsWorked, Fetching, FetchedBySome, workVars, runVars, Ingested, Goto,
      poolVars
<1>4. FromPlaced'
  BY DEF IInv, FromPlaced, Queued, chanVars, workVars, runVars, Ingested, Goto, poolVars
<1>5. OneFetcher'
  BY DEF IInv, OneFetcher, Fetching, workVars, runVars, Ingested, Goto, poolVars
<1>6. ErrorsTraced'
  BY DEF IInv, ErrorsTraced, workVars, runVars, Ingested, Goto, poolVars
<1>7. Shutdown'
  BY DEF IInv, Shutdown, Queued, chanVars, workVars, runVars, Ingested, Goto
<1>8. Verdict'
  BY DEF IInv, Verdict, workVars, runVars, Ingested, Goto, poolVars
<1> QED
  BY <1>1, <1>2, <1>3, <1>4, <1>5, <1>6, <1>7, <1>8 DEF IInv

(* The result of a package is recorded by the worker that fetched it.       *)
LEMMA RecordIInv ==
  ASSUME IInv, NEW w \in Workers, Record(w)
  PROVE  IInv'
<1>0. wkey[w] \in Keys
  BY DEF IInv, TypeOK, Record, Causes
<1>1. TypeOK'
  <2>1. /\ infos' \in [Keys -> InfoKind] /\ ferr' \in Causes \cup {"none"}
        /\ cancelled' \in BOOLEAN
    <3>1. infos \in [Keys -> InfoKind] /\ ferr \in Causes \cup {"none"} /\ cancelled \in BOOLEAN
      BY DEF IInv, TypeOK
    <3>2. CASE wpc[w] \in {"stored", "skipped"} /\ infos' = [infos EXCEPT ![wkey[w]] = wpc[w]]
               /\ UNCHANGED <<ferr, cancelled>>
      BY <1>0, <3>1, <3>2 DEF InfoKind
    <3>3. CASE wpc[w] \in Causes /\ infos' = [infos EXCEPT ![wkey[w]] = "empty"]
               /\ ferr' = (IF ferr = "none" THEN wpc[w] ELSE ferr)
               /\ cancelled' = (cancelled \/ ferr = "none")
      BY <1>0, <3>1, <3>3 DEF InfoKind
    <3> QED
      BY <3>2, <3>3 DEF Record
  <2>2. /\ wpc' = [wpc EXCEPT ![w] = "recv"] /\ wkey' = [wkey EXCEPT ![w] = NoKey]
        /\ UNCHANGED <<chanVars, seen, fetches, runVars>>
    BY DEF Record, Goto
  <2> QED
    BY <2>1, <2>2 DEF IInv, TypeOK, chanVars, runVars, WorkerPCs
<1>2. Accounted'
  BY DEF IInv, Accounted, Queued, HeldBySome, chanVars, workVars, runVars, Record, Goto
<1>3. SeenIsWorked'
  BY DEF IInv, TypeOK, SeenIsWorked, OneFetcher, Fetching, FetchedBySome, chanVars,
      workVars, runVars, Record, Goto
<1>4. FromPlaced'
  BY DEF IInv, TypeOK, FromPlaced, OneFetcher, Queued, Fetching, chanVars, workVars,
      runVars, Record, Goto
<1>5. OneFetcher'
  BY DEF IInv, TypeOK, OneFetcher, Fetching, workVars, runVars, Record, Goto
<1>6. ErrorsTraced'
  BY DEF IInv, TypeOK, ErrorsTraced, workVars, runVars, Record, Goto
<1>7. Shutdown'
  BY DEF IInv, Shutdown, Queued, chanVars, workVars, runVars, Record, Goto
<1>8. Verdict'
  BY DEF IInv, Shutdown, Verdict, workVars, runVars, Record, Goto
<1> QED
  BY <1>1, <1>2, <1>3, <1>4, <1>5, <1>6, <1>7, <1>8 DEF IInv

(* The invariant is about the variables of the pool alone.                  *)
LEMMA StutterIInv == IInv /\ UNCHANGED vars => IInv'
  BY DEF IInv, TypeOK, Accounted, SeenIsWorked, FromPlaced, OneFetcher, ErrorsTraced,
      Shutdown, Verdict, Queued, Fetching, HeldBySome, FetchedBySome, chanVars,
      workVars, runVars, vars, poolVars

(* Every step of Run and of the workers preserves the invariant.            *)
LEMMA NextIInv == IInv /\ [Next]_vars => IInv'
  BY PlaceIInv, SubmitSendIInv, SubmitDropIInv, ResolvedIInv, JoinedIInv, ReceiveIInv,
      ExitIInv, DedupIInv, SlicedIInv, DownloadedIInv, IngestedIInv, RecordIInv,
      StutterIInv DEF Next, Run, Submit, Work

(* The inductive invariant holds in every reachable state.                 *)
THEOREM PoolInvariant == Spec => []IInv
  BY InitIInv, NextIInv, PTL DEF Spec

(* Every reachable state is well typed: the channel never exceeds its      *)
(* capacity and a worker holds a package exactly while it works on one.    *)
THEOREM TypeCorrect == Spec => []TypeOK
<1>1. IInv => TypeOK
  BY DEF IInv
<1> QED
  BY <1>1, PoolInvariant, PTL

(* When the workers have left without an error, every placed package has   *)
(* settled: nothing is queued, held or being fetched.                      *)
LEMMA DrainedIsSettled ==
  ASSUME IInv, rpc \in {"join", "returned"}, ferr = "none",
         \A w \in Workers : wpc[w] = "exited"
  PROVE  \A k \in placed : infos[k] \in {"stored", "skipped"}
<1> SUFFICES ASSUME NEW k \in placed
             PROVE  infos[k] \in {"stored", "skipped"}
  OBVIOUS
<1>1. Queued = {} /\ rkey = NoKey
  BY PoolAssumption DEF IInv, TypeOK, Shutdown
<1>2. k \in Keys /\ k \in seen
  BY <1>1 DEF IInv, TypeOK, Accounted, HeldBySome
<1>3. infos[k] # "none"
  BY <1>2 DEF IInv, SeenIsWorked, FetchedBySome, Fetching
<1> QED
  BY <1>2, <1>3 DEF IInv, TypeOK, ErrorsTraced

(* A successful run has stored or skipped every package it placed.         *)
THEOREM NothingLost == Spec => []NoLostFetch
<1>1. ASSUME IInv, verdict = "ok"
      PROVE  rpc = "returned" /\ ferr = "none" /\ \A w \in Workers : wpc[w] = "exited"
  BY <1>1 DEF IInv, Verdict, ErrorsTraced, Shutdown
<1>2. IInv => NoLostFetch
  BY <1>1, DrainedIsSettled DEF NoLostFetch
<1> QED
  BY <1>2, PoolInvariant, PTL

(* No package is fetched twice.                                            *)
THEOREM Deduplicates == Spec => []FetchedOnce
<1>1. ASSUME IInv, NEW k \in Keys PROVE fetches[k] <= 1
  <2>1. fetches[k] = IF k \in seen THEN 1 ELSE 0
    BY <1>1 DEF IInv, OneFetcher
  <2>2. fetches[k] = 0 \/ fetches[k] = 1
    BY <2>1
  <2> QED
    BY <2>2
<1>2. IInv => FetchedOnce
  BY <1>1 DEF FetchedOnce
<1> QED
  BY <1>2, PoolInvariant, PTL

(* The surfaced error is never a cancellation.                             *)
THEOREM ErrorIsRoot == Spec => []RootCause
<1>1. IInv => RootCause
  BY DEF IInv, ErrorsTraced, Verdict, RootCause
<1> QED
  BY <1>1, PoolInvariant, PTL

(* The pool is at rest once Run has returned from the join.                *)
THEOREM Quiescence == Spec => QuietAfterReturn
<1>1. IInv /\ [Next]_vars => [Quiet]_vars
  BY DEF IInv, Shutdown, Quiet, Next, Run, Submit, Work, Place, SubmitSend, SubmitDrop,
      Resolved, Joined, Receive, Exit, Dedup, Sliced, Downloaded, Ingested, Record
<1> QED
  BY <1>1, PoolInvariant, PTL DEF QuietAfterReturn, Spec

-----------------------------------------------------------------------------
(* The refinement: recording a good result settles a package, recording an *)
(* error or an error of the resolver fails the phase, the join gives the   *)
(* verdict, and everything else the pool does is a stutter.                *)
CVars == Contract!vars

(* The pool starts where the contract does.                                 *)
LEMMA ContractInit == Init => Contract!Init
  BY DEF Init, Contract!Init, Settled, Failed, Outcome

(* What is settled depends on the recorded infos alone.                     *)
LEMMA SettledUnchanged == infos' = infos => Settled' = Settled
  BY DEF Settled

(* A step of Run is a step of the contract or does not show in it.          *)
LEMMA RunRefines ==
  ASSUME IInv, Run
  PROVE  Contract!Next \/ UNCHANGED CVars
<1>1. ASSUME NEW k \in Keys, Place(k) PROVE Contract!Place(k)
  <2>1. Outcome = "running" /\ UNCHANGED <<infos, ferr, rerr, verdict>>
    BY <1>1 DEF Place, IInv, Verdict, Outcome, poolVars
  <2> QED
    BY <1>1, <2>1, SettledUnchanged DEF Place, Contract!Place, Failed, Outcome
<1>2. ASSUME Submit PROVE UNCHANGED CVars
  BY <1>2, SettledUnchanged DEF Submit, SubmitSend, SubmitDrop, CVars, Contract!vars,
      Failed, Outcome, poolVars
<1>3. ASSUME NEW e \in BOOLEAN, Resolved(e) PROVE Contract!Fail \/ UNCHANGED CVars
  <2>1. /\ Outcome = "running" /\ UNCHANGED <<infos, ferr, verdict, placed>>
        /\ rerr' = e /\ Settled' = Settled
    BY <1>3, SettledUnchanged DEF Resolved, IInv, Verdict, Outcome, poolVars
  <2>2. rerr = FALSE
    BY <1>3 DEF Resolved, IInv, Verdict
  <2> QED
    BY <2>1, <2>2 DEF CVars, Contract!vars, Contract!Fail, Failed, Outcome
<1>4. ASSUME Joined PROVE Contract!Succeed \/ Contract!GiveUp
  <2>1. /\ Outcome = "running" /\ UNCHANGED <<infos, ferr, rerr, placed>>
        /\ Settled' = Settled /\ Failed' = Failed
    BY <1>4, SettledUnchanged DEF Joined, runVars, IInv, Verdict, Outcome, Failed
  <2>2. verdict' = IF ferr # "none" THEN ferr ELSE IF rerr THEN "resolve" ELSE "ok"
    BY <1>4 DEF Joined
  <2>3. CASE Failed
    BY <2>1, <2>2, <2>3 DEF Contract!GiveUp, Failed, Outcome, IInv, ErrorsTraced
  <2>4. CASE ~Failed
    <3>1. verdict' = "ok"
      BY <2>2, <2>4 DEF Failed
    <3>2. \A k \in placed : Settled[k] # "open"
      <4>1. ferr = "none" /\ rpc = "join" /\ \A w \in Workers : wpc[w] = "exited"
        BY <1>4, <2>4 DEF Joined, Failed
      <4>2. placed \subseteq Keys
        BY DEF IInv, TypeOK
      <4> QED
        BY <4>1, <4>2, DrainedIsSettled DEF Settled
    <3> QED
      BY <2>1, <2>4, <3>1, <3>2 DEF Contract!Succeed, Outcome
  <2> QED
    BY <2>3, <2>4
<1> QED
  BY <1>1, <1>2, <1>3, <1>4 DEF Run, Contract!Next

(* A recorded result settles its package or fails the phase, once.          *)
LEMMA RecordRefines ==
  ASSUME IInv, NEW w \in Workers, Record(w)
  PROVE  Contract!Next \/ UNCHANGED CVars
<1>1. wkey[w] \in Keys /\ Fetching(w) /\ UNCHANGED <<rerr, placed, verdict>>
  BY DEF Record, Causes, IInv, TypeOK, Fetching, runVars
<1>2. wkey[w] \in placed /\ infos[wkey[w]] = "none" /\ Outcome = "running"
  BY <1>1 DEF IInv, OneFetcher, FromPlaced, Shutdown, Verdict, Outcome, Fetching
<1>3. CASE wpc[w] \in {"stored", "skipped"}
  <2>1. infos' = [infos EXCEPT ![wkey[w]] = wpc[w]] /\ ferr' = ferr
    BY <1>3 DEF Record, Causes
  <2>2. Settled' = [Settled EXCEPT ![wkey[w]] = wpc[w]] /\ Settled[wkey[w]] = "open"
    BY <1>1, <1>2, <1>3, <2>1 DEF Settled, IInv, TypeOK
  <2>3. Contract!Settle(wkey[w], wpc[w])
    BY <1>1, <1>2, <2>1, <2>2 DEF Contract!Settle, Failed, Outcome
  <2> QED
    BY <1>1, <1>3, <2>3 DEF Contract!Next
<1>4. CASE wpc[w] \in Causes
  <2>1. infos' = [infos EXCEPT ![wkey[w]] = "empty"] /\ ferr' # "none"
    BY <1>4 DEF Record, Causes
  <2>2. Settled' = Settled
    BY <1>1, <1>2, <2>1 DEF Settled
  <2>3. Contract!Fail
    BY <1>1, <1>2, <2>1, <2>2 DEF Contract!Fail, Failed, Outcome
  <2> QED
    BY <2>3 DEF Contract!Next
<1> QED
  BY <1>3, <1>4 DEF Record

(* A step of a worker is a step of the contract or does not show in it.     *)
LEMMA WorkRefines ==
  ASSUME IInv, NEW w \in Workers, Work(w)
  PROVE  Contract!Next \/ UNCHANGED CVars
<1>1. CASE Record(w)
  BY <1>1, RecordRefines
<1>2. CASE ~Record(w)
  <2>1. UNCHANGED <<infos, ferr, rerr, placed, verdict>>
    BY <1>2 DEF Work, Receive, Exit, Dedup, Sliced, Downloaded, Ingested, runVars,
        poolVars
  <2> QED
    BY <2>1, SettledUnchanged DEF CVars, Contract!vars, Failed, Outcome
<1> QED
  BY <1>1, <1>2

(* Every behaviour of the pool is one the contract of the phase allows.    *)
THEOREM Refinement == Spec => ImplementsContract
<1>1. IInv /\ [Next]_vars => [Contract!Next]_CVars
  <2>1. UNCHANGED vars => UNCHANGED CVars
    BY SettledUnchanged DEF vars, runVars, CVars, Contract!vars, Failed, Outcome,
        poolVars
  <2> QED
    BY <2>1, RunRefines, WorkRefines DEF Next
<1> QED
  BY <1>1, ContractInit, PoolInvariant, PTL DEF ImplementsContract, Contract!Spec, Spec,
      CVars
=============================================================================
