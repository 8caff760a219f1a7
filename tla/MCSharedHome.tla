---------------------------- MODULE MCSharedHome ----------------------------
(* The three caches in a user's home directory that installs share: the    *)
(* store, the git cache and the packuments.  They have no state in common, *)
(* so each is explored with the others at rest.                            *)
EXTENDS MCContentStore, GitCache, PackumentCache, TLC

CONSTANTS i1, i2, i3, c1, c2, main, dev

VARIABLE part  \* the cache that is explored

(* The default branch, another branch, a tag or commit; two of these are   *)
(* pinned by a lockfile, which is followed or resolved anew.               *)
Want(ref, locked, full) == [ref |-> ref, locked |-> locked, full |-> full]
SomeWants ==
  {Want(NoRef, NoLock, TRUE), Want(dev, NoLock, TRUE), Want(c2, NoLock, TRUE),
   Want(dev, c1, TRUE), Want(NoRef, c1, FALSE)}
NoFetch == <<>>
ThreeOfOne ==
  [i \in {i1, i2, i3} |-> IF i = i1 THEN Want(dev, c1, TRUE) ELSE Want(NoRef, c1, FALSE)]
SomeFetches == [{i1, i2} -> SomeWants] \cup {ThreeOfOne, NoFetch}

NoPlan == Plan(<<>>, <<>>, "link", 1)
HomePlans == AllPlans \cup {NoPlan}

(* With and without validators and a max-age; processes interchangeable.   *)
Plainest == [validators |-> "none", maxAge |-> 0]
SomeRegistries ==
  {Plainest, [validators |-> "shared", maxAge |-> 1], [validators |-> "perForm", maxAge |-> 0]}
AnyProcess == Permutations(Process)
(* Processes are at work at once within the first two calls only.           *)
AtOnce == ~\E p \in Process : Idle(p)
FewAtOnce == CacheNext /\ (AtOnce' => calls' <= 2)

HomeInit ==
  /\ part \in {"store", "git", "packuments"}
  /\ Init /\ GitInit /\ CacheInit
  /\ part = "store" \/ plan = NoPlan
  /\ part = "git" \/ (want = NoFetch /\ head = [b \in Branches |-> c1])
  /\ part = "packuments" \/ registry = Plainest
HomeNext ==
  /\ UNCHANGED part
  /\ \/ part = "store" /\ Next /\ UNCHANGED <<gitVars, cacheVars>>
     \/ part = "git" /\ GitNext /\ UNCHANGED <<vars, cacheVars>>
     \/ part = "packuments" /\ FewAtOnce /\ UNCHANGED <<vars, gitVars>>
HomeSpec == HomeInit /\ [][HomeNext]_<<part, vars, gitVars, cacheVars>>
=============================================================================
