--------------------------- MODULE PackumentFlight ---------------------------
(***************************************************************************)
(* The per-name packument cache that the tree resolver, the tarball        *)
(* workers and the background prefetch share (internal/regprovider,        *)
(* Provider.packumentFor).  A lookup either joins the request already in   *)
(* the cache or opens a new one; the caller that opened it performs the    *)
(* HTTP exchange, publishes the result by closing a channel, and, when the *)
(* exchange failed, removes the entry in a second critical section.        *)
(*                                                                         *)
(* A request (pkgResult) is a pair <<n, i>>: the i-th opened for the       *)
(* packument of n.  Callers keep a pointer to the request they joined, so  *)
(* an evicted one stays visible to those that wait on it.                  *)
(***************************************************************************)
EXTENDS Naturals

CONSTANTS Callers,    \* goroutines that ask for packuments
          Names,      \* package names
          MaxFlights  \* bound: requests opened per name

VARIABLES cache,   \* p.cache: name -> its request, NoRequest when absent
          flight,  \* request -> unused, pending, or its published outcome
          pc,      \* where each caller is inside packumentFor
          req      \* the request each caller inside packumentFor works with

vars == <<cache, flight, pc, req>>

Indices   == 1..MaxFlights
Requests  == Names \X Indices
NoRequest == <<>>
Outcomes  == {"ok", "err"}

(* "own" performs the exchange, "evict" is between close(r.done) and the   *)
(* second critical section, "wait" blocks on r.done, "got" has a result    *)
(* to hand to its caller.                                                  *)
Stages == {"idle", "own", "evict", "wait", "got"}

TypeOK ==
  /\ cache \in [Names -> Requests \cup {NoRequest}]
  /\ flight \in [Requests -> {"unused", "pending"} \cup Outcomes]
  /\ pc \in [Callers -> Stages]
  /\ req \in [Callers -> Requests \cup {NoRequest}]
  /\ \A c \in Callers : pc[c] = "idle" <=> req[c] = NoRequest

Init ==
  /\ cache = [n \in Names |-> NoRequest]
  /\ flight = [r \in Requests |-> "unused"]
  /\ pc = [c \in Callers |-> "idle"]
  /\ req = [c \in Callers |-> NoRequest]

-----------------------------------------------------------------------------
(* First critical section, entry present: wait for whoever opened it.      *)
Join(c, n) ==
  /\ pc[c] = "idle"
  /\ cache[n] # NoRequest
  /\ pc' = [pc EXCEPT ![c] = "wait"]
  /\ req' = [req EXCEPT ![c] = cache[n]]
  /\ UNCHANGED <<cache, flight>>

(* Bug: the lookup and the insertion are two critical sections.            *)
OpenUnlocked(c, n) ==
  /\ pc[c] = "idle"
  /\ \E i \in Indices :
       /\ flight[<<n, i>>] = "unused"
       /\ \A j \in 1..(i - 1) : flight[<<n, j>>] # "unused"
       /\ cache' = [cache EXCEPT ![n] = <<n, i>>]
       /\ flight' = [flight EXCEPT ![<<n, i>>] = "pending"]
       /\ req' = [req EXCEPT ![c] = <<n, i>>]
  /\ pc' = [pc EXCEPT ![c] = "own"]

(* First critical section, entry absent: open a request and own it.        *)
Open(c, n) ==
  /\ pc[c] = "idle"
  /\ cache[n] = NoRequest
  /\ \E i \in Indices :
       /\ flight[<<n, i>>] = "unused"
       /\ \A j \in 1..(i - 1) : flight[<<n, j>>] # "unused"
       /\ cache' = [cache EXCEPT ![n] = <<n, i>>]
       /\ flight' = [flight EXCEPT ![<<n, i>>] = "pending"]
       /\ req' = [req EXCEPT ![c] = <<n, i>>]
  /\ pc' = [pc EXCEPT ![c] = "own"]

Lookup(c, n) == Join(c, n) \/ Open(c, n)

(* Bug: the failure path returns without closing the channel.              *)
PublishNoClose(c, outcome) ==
  /\ pc[c] = "own"
  /\ flight' = [flight EXCEPT ![req[c]] = IF outcome = "err" THEN @ ELSE outcome]
  /\ pc' = [pc EXCEPT ![c] = IF outcome = "err" THEN "evict" ELSE "got"]
  /\ UNCHANGED <<cache, req>>

(* Bug: the eviction is not restricted to failures.                        *)
PublishThenEvict(c, outcome) ==
  /\ pc[c] = "own"
  /\ flight' = [flight EXCEPT ![req[c]] = outcome]
  /\ pc' = [pc EXCEPT ![c] = "evict"]
  /\ UNCHANGED <<cache, req>>

(* The exchange ends and close(r.done) publishes r.pack and r.err.         *)
Publish(c, outcome) ==
  /\ pc[c] = "own"
  /\ flight' = [flight EXCEPT ![req[c]] = outcome]
  /\ pc' = [pc EXCEPT ![c] = IF outcome = "err" THEN "evict" ELSE "got"]
  /\ UNCHANGED <<cache, req>>

(* Second critical section, only after a failure: delete(p.cache, name).   *)
Evict(c) ==
  /\ pc[c] = "evict"
  /\ cache' = [cache EXCEPT ![req[c][1]] = NoRequest]
  /\ pc' = [pc EXCEPT ![c] = "got"]
  /\ UNCHANGED <<flight, req>>

(* <-r.done returns once the channel is closed.                            *)
Wake(c) ==
  /\ pc[c] = "wait"
  /\ flight[req[c]] \in Outcomes
  /\ pc' = [pc EXCEPT ![c] = "got"]
  /\ UNCHANGED <<cache, flight, req>>

(* packumentFor returns r.pack and r.err to its caller.                    *)
Answer(c) == flight[req[c]]

Return(c) ==
  /\ pc[c] = "got"
  /\ pc' = [pc EXCEPT ![c] = "idle"]
  /\ req' = [req EXCEPT ![c] = NoRequest]
  /\ UNCHANGED <<cache, flight>>

(* The steps of c inside one packumentFor call.                            *)
Step(c) == (\E o \in Outcomes : Publish(c, o)) \/ Evict(c) \/ Wake(c)

Next == \E c \in Callers : (\E n \in Names : Lookup(c, n)) \/ Step(c) \/ Return(c)

Spec == Init /\ [][Next]_vars

-----------------------------------------------------------------------------
(* Requests for one name never overlap on the wire: concurrent callers     *)
(* coalesce, and an eviction never opens the door to a second request      *)
(* while the successor of the evicted one is pending (packumentFor).       *)
SingleFlight ==
  \A n \in Names, i, j \in Indices :
    flight[<<n, i>>] = "pending" /\ flight[<<n, j>>] = "pending" => i = j

(* No lost wake-up: a goroutine blocked on r.done always has a live owner  *)
(* that will close it (packumentFor).                                      *)
WaitersHaveOwner ==
  \A c \in Callers :
    pc[c] = "wait" /\ flight[req[c]] = "pending" =>
      \E o \in Callers : pc[o] = "own" /\ req[o] = req[c]

(* delete(p.cache, name) is by name, not by entry: it must never remove a  *)
(* request other than the failed one its caller opened (packumentFor).     *)
EvictsOwnFailure ==
  \A c \in Callers :
    pc[c] = "evict" => cache[req[c][1]] = req[c] /\ Answer(c) = "err"

(* A packument that arrived is final: no later step drops it, so two asks  *)
(* of one install never see different version lists (packumentFor).        *)
KeepsArrived ==
  \A n \in Names :
    cache[n] # NoRequest /\ flight[cache[n]] = "ok" => cache'[n] = cache[n]
ArrivedIsFinal == [][KeepsArrived]_vars
=============================================================================
