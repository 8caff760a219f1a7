--------------------------- MODULE SharedHome_proofs ---------------------------
(***************************************************************************)
(* What the three caches in a user's home directory promise to the         *)
(* installs that share them: the git cache, for every number of installs,  *)
(* checkouts, branches and pushes; the store, for every number of jobs,    *)
(* files, tarballs and directories, every plan and every point at which a  *)
(* process is killed; and the packument cache, for every number of         *)
(* processes, calls, packuments and ticks, any registries and a kill       *)
(* between any two file operations.                                        *)
(***************************************************************************)
EXTENDS ContentStore, GitCache, PackumentCache, TLAPS

-----------------------------------------------------------------------------
(* The git cache.                                                          *)
Good(k) == clone[k].is = "clone" /\ clone[k].commit = Means(k, clone[k].refs)

Shape ==
  /\ want \in Fetches
  /\ clone = [k \in Checkouts |-> clone[k]]
  /\ at \in [DOMAIN want -> Steps \cup Settled]
  /\ recorded = [i \in DOMAIN want |-> recorded[i]]
  /\ copied = [i \in DOMAIN want |-> copied[i]]

(* A directory that is not what was asked for has somebody who will finish *)
(* or remove it.                                                           *)
TendedBy(k, i) ==
  /\ Key(i) = k
  /\ at[i] \in {"checkout", "remove"} \/ (at[i] = "cloning" /\ clone[k] = Part(i))

Tended ==
  \A k \in Checkouts \ killed :
    clone[k] = Absent \/ Good(k) \/ \E i \in DOMAIN want : TendedBy(k, i)

(* Where no two installs met, one at most is at the checkout.              *)
OneEach ==
  \A i, j \in DOMAIN want :
    Key(i) = Key(j) /\ Key(i) \notin shared /\ at[i] \notin Settled /\ at[j] \notin Settled => i = j

(* An undisturbed install that is past the clone has a good one.           *)
Held ==
  \A i \in DOMAIN want :
    Key(i) \notin killed \cup shared =>
      /\ at[i] \in {"head", "copy"} => Good(Key(i))
      /\ at[i] = "copy" /\ want[i].full => recorded[i] = clone[Key(i)].commit

GitInv == Shape /\ Tended /\ OneEach /\ Held /\ CopiesWhatIsPinned

-----------------------------------------------------------------------------
LEMMA Keys == ASSUME GitAssumption, want \in Fetches PROVE \A i \in DOMAIN want : Key(i) \in Checkouts
BY DEF GitAssumption, Key, Checkout, Checkouts

LEMMA InitGitInv == GitAssumption /\ GitInit => GitInv
BY DEF GitAssumption, GitInit, GitInv, Shape, Tended, OneEach, Held, CopiesWhatIsPinned, Settled, Steps, Absent, Good

LEMMA PushKeeps == ASSUME GitInv, NEW b \in Branches, Push(b) PROVE GitInv'
<1>1. UNCHANGED <<clone, want, at, recorded, copied, killed, shared>>
  BY DEF Push
<1>2. Shape' /\ OneEach'
  BY <1>1 DEF GitInv, Shape, OneEach, Key, Checkout
<1>3. Tended'
  BY <1>1 DEF GitInv, Tended, TendedBy, Good, Key, Checkout, Means
<1>4. Held' /\ CopiesWhatIsPinned'
  BY <1>1 DEF GitInv, Held, CopiesWhatIsPinned, Key, Checkout, Good, Means
<1> QED BY <1>2, <1>3, <1>4 DEF GitInv

LEMMA ArriveKeeps == ASSUME GitInv, NEW i \in DOMAIN want, Arrive(i) PROVE GitInv'
<1>1. UNCHANGED <<clone, want, recorded, copied, killed>> /\ shared \subseteq shared'
  BY DEF Arrive
<1>2. at' = [at EXCEPT ![i] = "stat"] /\ at[i] = "off"
  BY DEF Arrive, Go
<1>3. Shape'
  BY <1>1, <1>2 DEF GitInv, Shape, Steps
<1>4. \A j \in DOMAIN want : j # i => at'[j] = at[j]
  BY <1>2 DEF GitInv, Shape
<1>5. Tended'
  <2> SUFFICES ASSUME NEW k \in Checkouts \ killed
      PROVE  clone[k] = Absent \/ Good(k) \/ \E j \in DOMAIN want : TendedBy(k, j)'
    BY <1>1 DEF Tended, Good, Means
  <2>1. \A j \in DOMAIN want : TendedBy(k, j) => TendedBy(k, j)'
    BY <1>1, <1>2, <1>4 DEF TendedBy, Key, Checkout
  <2> QED BY <2>1 DEF GitInv, Tended
<1>6. ASSUME NEW j \in DOMAIN want, j # i, Key(j) = Key(i), Key(i) \notin shared'
      PROVE  at[j] \in Settled
  BY <1>6 DEF Arrive
<1>7. OneEach'
  BY <1>1, <1>2, <1>4, <1>6 DEF GitInv, OneEach, Key, Checkout
<1>8. Held'
  BY <1>1, <1>2, <1>4 DEF GitInv, Shape, Held, Good, Key, Checkout, Means
<1>9. CopiesWhatIsPinned'
  BY <1>1, <1>2, <1>4 DEF GitInv, Shape, CopiesWhatIsPinned, Good, Key, Checkout, Means
<1> QED BY <1>3, <1>5, <1>7, <1>8, <1>9 DEF GitInv

LEMMA KillKeeps == ASSUME GitInv, NEW i \in DOMAIN want, KillGit(i) PROVE GitInv'
<1>1. UNCHANGED <<clone, want, recorded, copied, shared>> /\ killed' = killed \cup {Key(i)}
  BY DEF KillGit
<1>2. at' = [at EXCEPT ![i] = "killed"]
  BY DEF KillGit, Go
<1>3. Shape'
  BY <1>1, <1>2 DEF GitInv, Shape, Settled
<1>4. \A j \in DOMAIN want : j # i => at'[j] = at[j]
  BY <1>2 DEF GitInv, Shape
<1>5. Tended'
  <2> SUFFICES ASSUME NEW k \in Checkouts \ killed, k # Key(i)
      PROVE  clone[k] = Absent \/ Good(k) \/ \E j \in DOMAIN want : TendedBy(k, j)'
    BY <1>1 DEF Tended, Good, Means
  <2>1. \A j \in DOMAIN want : TendedBy(k, j) => TendedBy(k, j)'
    BY <1>1, <1>2, <1>4 DEF TendedBy, Key, Checkout
  <2> QED BY <2>1 DEF GitInv, Tended
<1>6. OneEach'
  BY <1>1, <1>2, <1>4 DEF GitInv, Shape, OneEach, Key, Checkout, Settled
<1>7. Held' /\ CopiesWhatIsPinned'
  BY <1>1, <1>2, <1>4 DEF GitInv, Held, CopiesWhatIsPinned, Good, Key, Checkout, Means
<1> QED BY <1>3, <1>5, <1>6, <1>7 DEF GitInv

(* A step of install i past its arrival, that may change its own directory:*)
(* what must be shown of the directory and of i for the invariant to hold  *)
(* again.                                                                  *)
LEMMA OwnStepKeeps ==
  ASSUME GitInv, NEW i \in DOMAIN want, UNCHANGED <<want, killed, shared>>,
         at[i] \in Steps, NEW s \in Steps \cup Settled, at' = [at EXCEPT ![i] = s],
         NEW what, clone' = [clone EXCEPT ![Key(i)] = what], Key(i) \in Checkouts,
         recorded' = [recorded EXCEPT ![i] = recorded'[i]],
         copied' = [copied EXCEPT ![i] = copied'[i]],
         Key(i) \notin killed =>
           \/ what = Absent
           \/ what.is = "clone" /\ what.commit = Means(Key(i), what.refs)
           \/ s = "cloning" /\ what = Part(i)
           \/ s \in {"checkout", "remove"}
           \/ what = clone[Key(i)] /\ at[i] \notin {"cloning", "checkout", "remove"},
         Key(i) \notin killed \cup shared =>
           /\ s \in {"head", "copy"} => what.is = "clone" /\ what.commit = Means(Key(i), what.refs)
           /\ s = "copy" /\ want[i].full => recorded'[i] = what.commit
           /\ s = "copied" =>
                /\ want[i].locked # NoLock => copied'[i] = want[i].locked
                /\ want[i].full => copied'[i] = recorded'[i]
  PROVE  GitInv'
<1>1. /\ at'[i] = s /\ \A j \in DOMAIN want : j # i => at'[j] = at[j] /\ recorded'[j] = recorded[j]
                                                    /\ copied'[j] = copied[j]
      /\ clone'[Key(i)] = what /\ \A k \in Checkouts : k # Key(i) => clone'[k] = clone[k]
  BY DEF GitInv, Shape
<1>2. Shape'
  BY DEF GitInv, Shape
<1>3. Tended'
  <2> SUFFICES ASSUME NEW k \in Checkouts \ killed
      PROVE  clone'[k] = Absent \/ Good(k)' \/ \E j \in DOMAIN want : TendedBy(k, j)'
    BY DEF Tended
  <2>1. CASE k # Key(i)
    <3>1. \A j \in DOMAIN want : TendedBy(k, j) => TendedBy(k, j)'
      BY <2>1, <1>1 DEF TendedBy, Key, Checkout
    <3> QED BY <2>1, <3>1, <1>1 DEF GitInv, Tended, Good, Means
  <2>2. CASE k = Key(i) /\ what = Absent
    BY <2>2, <1>1
  <2>3. CASE k = Key(i) /\ what.is = "clone" /\ what.commit = Means(Key(i), what.refs)
    BY <2>3, <1>1 DEF Good, Means
  <2>4. CASE k = Key(i) /\ (s \in {"checkout", "remove"} \/ (s = "cloning" /\ what = Part(i)))
    <3>1. TendedBy(k, i)'
      BY <2>4, <1>1 DEF TendedBy, Key, Checkout, Part
    <3> QED BY <3>1
  <2>5. CASE k = Key(i) /\ what = clone[k] /\ at[i] \notin {"cloning", "checkout", "remove"}
    <3>1. \A j \in DOMAIN want : TendedBy(k, j) => TendedBy(k, j)'
      BY <2>5, <1>1 DEF TendedBy, Key, Checkout
    <3> QED BY <2>5, <3>1, <1>1 DEF GitInv, Tended, Good, Means
  <2> QED BY <2>1, <2>2, <2>3, <2>4, <2>5
<1>4. OneEach'
  BY <1>1 DEF GitInv, OneEach, Key, Checkout, Settled, Steps
<1>5. Held'
  <2> SUFFICES ASSUME NEW j \in DOMAIN want, Key(j) \notin killed \cup shared
      PROVE  /\ at'[j] \in {"head", "copy"} => Good(Key(j))'
             /\ at'[j] = "copy" /\ want[j].full => recorded'[j] = clone'[Key(j)].commit
    BY DEF Held, Key, Checkout, Good, Means
  <2>1. CASE j = i
    BY <2>1, <1>1 DEF Good, Key, Checkout, Means
  <2>2. CASE j # i /\ Key(j) # Key(i)
    <3>1. Key(j) \in Checkouts
      BY Keys, GitAssumption DEF GitInv, Shape
    <3> QED BY <2>2, <3>1, <1>1 DEF GitInv, Held, Good, Key, Checkout, Means
  <2>3. CASE j # i /\ Key(j) = Key(i)
    <3>1. at[j] \in Settled
      <4>1. at[i] \notin Settled
        BY DEF Settled, Steps
      <4> QED BY <2>3, <4>1 DEF GitInv, OneEach
    <3> QED BY <2>3, <3>1, <1>1 DEF Settled
  <2> QED BY <2>1, <2>2, <2>3
<1>6. CopiesWhatIsPinned'
  BY <1>1 DEF GitInv, CopiesWhatIsPinned, Key, Checkout
<1> QED BY <1>2, <1>3, <1>4, <1>5, <1>6 DEF GitInv

(* And when it leaves the directory as it is.                              *)
LEMMA StillKeeps ==
  ASSUME GitInv, NEW i \in DOMAIN want, UNCHANGED <<clone, want, killed, shared>>,
         Key(i) \in Checkouts, at[i] \in Steps,
         NEW s \in Steps \cup Settled, at' = [at EXCEPT ![i] = s],
         s = "remove" \/ at[i] \notin {"cloning", "checkout", "remove"},
         recorded' = [recorded EXCEPT ![i] = recorded'[i]],
         copied' = [copied EXCEPT ![i] = copied'[i]],
         Key(i) \notin killed \cup shared =>
           /\ s \in {"head", "copy"} => Good(Key(i))
           /\ s = "copy" /\ want[i].full => recorded'[i] = clone[Key(i)].commit
           /\ s = "copied" =>
                /\ want[i].locked # NoLock => copied'[i] = want[i].locked
                /\ want[i].full => copied'[i] = recorded'[i]
  PROVE  GitInv'
<1>1. clone' = [clone EXCEPT ![Key(i)] = clone[Key(i)]]
  BY DEF GitInv, Shape
<1> QED BY <1>1, OwnStepKeeps DEF Good

-----------------------------------------------------------------------------
LEMMA FollowKeeps == ASSUME GitInv, NEW i \in DOMAIN want, Follow(i) PROVE GitInv'
<1> USE DEF Frame, Go, Put, Here, Steps, Settled, Absent
<1>1. Key(i) \in Checkouts
  BY Keys, GitAssumption DEF GitInv, Shape
<1>2. /\ clone = [clone EXCEPT ![Key(i)] = clone[Key(i)]]
      /\ recorded = [recorded EXCEPT ![i] = recorded[i]]
      /\ copied = [copied EXCEPT ![i] = copied[i]]
  BY <1>1 DEF GitInv, Shape
<1>3. Key(i) \notin killed \cup shared =>
        /\ at[i] \in {"head", "copy"} => Good(Key(i))
        /\ at[i] = "copy" /\ want[i].full => recorded[i] = clone[Key(i)].commit
  BY DEF GitInv, Held
<1>4. CASE Arrive(i)
  BY <1>4, ArriveKeeps
<1>5. CASE Stat(i)
  <2>1. Key(i) \notin killed \cup shared /\ clone[Key(i)] # Absent => Good(Key(i))
    <3>1. ASSUME NEW j \in DOMAIN want, TendedBy(Key(i), j), Key(i) \notin shared PROVE FALSE
      <4>1. Key(j) = Key(i) /\ at[j] \notin Settled /\ at[i] \notin Settled /\ at[i] # at[j]
        BY <1>5, <3>1 DEF Stat, TendedBy
      <4> QED BY <4>1, <3>1 DEF GitInv, OneEach
    <3> QED BY <3>1, <1>1 DEF GitInv, Tended
  <2>2. PICK s \in {"clone", Cloned(i)} : s = IF Here(i) = Absent THEN "clone" ELSE Cloned(i)
    BY DEF Cloned
  <2>3. /\ UNCHANGED <<want, killed, shared, clone, recorded, copied>>
        /\ at' = [at EXCEPT ![i] = s] /\ at[i] = "stat"
    BY <1>5, <2>2 DEF Stat
  <2>4. s \in {"clone", "head", "copy"} /\ (s = "copy" => ~want[i].full)
    BY <2>2 DEF Cloned
  <2> QED BY <1>1, <1>2, <2>1, <2>2, <2>3, <2>4, StillKeeps
<1>6. CASE CloneBegins(i)
  <2>1. CASE Go(i, "cloning") /\ Put(i, Part(i))
    BY <1>1, <1>2, <1>6, <2>1, OwnStepKeeps DEF CloneBegins
  <2>2. CASE Go(i, "remove") /\ UNCHANGED clone
    BY <1>1, <1>2, <1>6, <2>2, StillKeeps DEF CloneBegins
  <2> QED BY <1>6, <2>1, <2>2 DEF CloneBegins
<1>7. CASE CloneEnds(i)
  <2>1. CASE Key(i) = NoRef /\ Put(i, Clone(head[Main], head)) /\ Go(i, Cloned(i))
    <3>1. PICK what : what = Clone(head[Main], head)
      OBVIOUS
    <3>2. what.is = "clone" /\ what.commit = Means(Key(i), what.refs)
      BY <2>1, <3>1, GitAssumption DEF Clone, Means, GitAssumption
    <3>3. PICK s \in {"head", "copy"} : s = Cloned(i) /\ (s = "copy" => ~want[i].full)
      BY DEF Cloned
    <3> QED BY <1>1, <1>2, <1>7, <2>1, <3>1, <3>2, <3>3, OwnStepKeeps DEF CloneEnds
  <2>2. CASE Put(i, Clone(head[Main], head)) /\ Go(i, "checkout")
    BY <1>1, <1>2, <1>7, <2>2, OwnStepKeeps DEF CloneEnds
  <2>3. CASE Go(i, "remove") /\ UNCHANGED clone
    BY <1>1, <1>2, <1>7, <2>3, StillKeeps DEF CloneEnds
  <2> QED BY <1>7, <2>1, <2>2, <2>3 DEF CloneEnds
<1>8. CASE CheckOut(i)
  <2>1. CASE /\ Put(i, Clone(Means(Key(i), Here(i).refs), Here(i).refs))
             /\ Go(i, Cloned(i))
    <3>1. PICK what : what = Clone(Means(Key(i), Here(i).refs), Here(i).refs)
      OBVIOUS
    <3>2. what.is = "clone" /\ what.commit = Means(Key(i), what.refs)
      BY <3>1 DEF Clone
    <3>3. PICK s \in {"head", "copy"} : s = Cloned(i) /\ (s = "copy" => ~want[i].full)
      BY DEF Cloned
    <3> QED BY <1>1, <1>2, <1>8, <2>1, <3>1, <3>2, <3>3, OwnStepKeeps DEF CheckOut
  <2>2. CASE Go(i, "remove") /\ UNCHANGED clone
    BY <1>1, <1>2, <1>8, <2>2, StillKeeps DEF CheckOut
  <2> QED BY <1>8, <2>1, <2>2 DEF CheckOut
<1>9. CASE Remove(i)
  <2>1. /\ UNCHANGED <<want, killed, shared, recorded, copied>>
        /\ at' = [at EXCEPT ![i] = "failed"] /\ at[i] = "remove"
        /\ clone' = [clone EXCEPT ![Key(i)] = Absent]
    BY <1>9 DEF Remove
  <2>2. /\ recorded' = [recorded EXCEPT ![i] = recorded'[i]]
        /\ copied' = [copied EXCEPT ![i] = copied'[i]]
    BY <1>2, <2>1
  <2>3. PICK what : what = Absent
    OBVIOUS
  <2>4. clone' = [clone EXCEPT ![Key(i)] = what]
    BY <2>1, <2>3
  <2> QED
    <3> HIDE DEF Frame, Go, Put, Here, Steps, Settled, Absent
    <3>1. "failed" \in Steps \cup Settled /\ at[i] \in Steps
      BY <2>1 DEF Steps, Settled
    <3> QED BY <1>1, <2>1, <2>2, <2>3, <2>4, <3>1, OwnStepKeeps
<1>10. CASE Head(i)
  <2>1. CASE /\ recorded' = [recorded EXCEPT ![i] =
                  IF Here(i).is = "clone" THEN Here(i).commit ELSE head[Main]]
             /\ Go(i, "copy")
    <3>1. PICK r : r = IF Here(i).is = "clone" THEN Here(i).commit ELSE head[Main]
      OBVIOUS
    <3>2. at[i] = "head" /\ UNCHANGED <<clone, copied, want, killed, shared>>
      BY <1>10 DEF Head
    <3>3. Key(i) \notin killed \cup shared => Good(Key(i)) /\ r = clone[Key(i)].commit
      BY <1>3, <3>1, <3>2 DEF Good
    <3>4. recorded' = [recorded EXCEPT ![i] = recorded'[i]] /\ recorded'[i] = r
      BY <2>1, <3>1 DEF GitInv, Shape
    <3>5. copied' = [copied EXCEPT ![i] = copied'[i]]
      BY <1>2, <3>2
    <3>6. at' = [at EXCEPT ![i] = "copy"]
      BY <2>1
    <3> QED BY <1>1, <3>2, <3>3, <3>4, <3>5, <3>6, StillKeeps
  <2>2. CASE Go(i, "failed") /\ UNCHANGED recorded
    BY <1>1, <1>2, <1>10, <2>2, StillKeeps DEF Head
  <2> QED BY <1>10, <2>1, <2>2 DEF Head
<1>11. CASE Copy(i)
  <2>1. CASE Go(i, "failed") /\ UNCHANGED copied
    BY <1>1, <1>2, <1>11, <2>1, StillKeeps DEF Copy
  <2>2. CASE /\ Go(i, "copied")
             /\ copied' = [copied EXCEPT ![i] =
                  IF Here(i).is = "clone" THEN Here(i).commit ELSE NoCommit]
    <3>1. PICK c : c = IF Here(i).is = "clone" THEN Here(i).commit ELSE NoCommit
      OBVIOUS
    <3>2. at[i] = "copy" /\ UNCHANGED <<clone, recorded, want, killed, shared>>
      BY <1>11 DEF Copy
    <3>3. Key(i) \notin killed \cup shared => c = Means(Key(i), clone[Key(i)].refs) /\ c = clone[Key(i)].commit
      BY <1>3, <3>1, <3>2 DEF Good
    <3>4. want[i].locked # NoLock => Key(i) = want[i].locked /\ Key(i) \in Commits
      BY GitAssumption DEF GitAssumption, GitInv, Shape, Key, Checkout
    <3>5. Key(i) \notin killed \cup shared /\ want[i].locked # NoLock => c = want[i].locked
      BY <3>3, <3>4 DEF Means
    <3>6. Key(i) \notin killed \cup shared /\ want[i].full => c = recorded[i]
      BY <1>3, <3>2, <3>3
    <3>7. copied' = [copied EXCEPT ![i] = copied'[i]] /\ copied'[i] = c
      BY <2>2, <3>1 DEF GitInv, Shape
    <3>8. recorded' = [recorded EXCEPT ![i] = recorded'[i]]
      BY <1>2, <3>2
    <3>9. at' = [at EXCEPT ![i] = "copied"] /\ recorded'[i] = recorded[i]
      BY <2>2, <3>2
    <3> QED BY <1>1, <3>2, <3>5, <3>6, <3>7, <3>8, <3>9, StillKeeps
  <2> QED BY <1>11, <2>1, <2>2 DEF Copy
<1> QED BY <1>4, <1>5, <1>6, <1>7, <1>8, <1>9, <1>10, <1>11 DEF Follow

LEMMA StepKeepsGitInv == GitInv /\ [GitNext]_gitVars => GitInv'
<1> SUFFICES ASSUME GitInv, [GitNext]_gitVars PROVE GitInv'
  OBVIOUS
<1>1. CASE UNCHANGED gitVars
  <2>1. Shape' /\ OneEach'
    BY <1>1 DEF gitVars, GitInv, Shape, OneEach, Key, Checkout
  <2>2. Tended'
    BY <1>1 DEF gitVars, GitInv, Tended, TendedBy, Good, Key, Checkout, Means
  <2>3. Held' /\ CopiesWhatIsPinned'
    BY <1>1 DEF gitVars, GitInv, Held, CopiesWhatIsPinned, Key, Checkout, Good, Means
  <2> QED BY <2>1, <2>2, <2>3 DEF GitInv
<1>2. ASSUME NEW i \in DOMAIN want, Follow(i) PROVE GitInv'
  BY <1>2, FollowKeeps
<1>3. ASSUME NEW i \in DOMAIN want, KillGit(i) PROVE GitInv'
  BY <1>3, KillKeeps
<1>4. ASSUME NEW b \in Branches, Push(b) PROVE GitInv'
  BY <1>4, PushKeeps
<1> QED BY <1>1, <1>2, <1>3, <1>4 DEF GitNext

LEMMA GitInvHolds == GitSpec => []GitInv
BY InitGitInv, StepKeepsGitInv, GitAssumption, PTL DEF GitSpec

(* However many installs meet at a checkout, and however they fail: when   *)
(* none is under way and none was killed in it, the cache holds nothing    *)
(* for it, or what was asked for (gitClone).                               *)
THEOREM CacheStaysGood == GitSpec => []CacheIsGood
<1>1. GitInv => CacheIsGood
  BY DEF GitInv, Tended, TendedBy, Good, CacheIsGood, Settled
<1> QED BY <1>1, GitInvHolds, PTL

(* An install that met nobody at its checkout, where nobody was killed,    *)
(* copies the commit the lockfile pins, or the one it puts there, however  *)
(* branches move (fetchExotic, ensureGitClone).                            *)
THEOREM PinnedIsCopied == GitSpec => []CopiesWhatIsPinned
<1>1. GitInv => CopiesWhatIsPinned
  BY DEF GitInv
<1> QED BY <1>1, GitInvHolds, PTL

-----------------------------------------------------------------------------
(* The store.                                                              *)
Stored(t) == \A c \in FilesOf[t] : file[c] # "absent"

(* Files come before indexes: what has, or is about to have, an index is   *)
(* interned, and what a directory links to is stored.                      *)
FilesFirst ==
  /\ \A t \in Tarballs : idx[t] # NoInode \/ tmp[t] # NoInode => Stored(t)
  /\ \A j \in Active : pc[j] \in {"open"} \cup Writing => Stored(T(j))
  /\ \A j \in Active : pc[j] = "intern" => \A c \in FilesOf[T(j)] \ todo[j] : file[c] # "absent"
  /\ \A d \in Dests, c \in Contents : entry[d][c] = "link" => file[c] # "absent"

(* A job past its commit has an index to read; one that is writing it has  *)
(* a temporary path, or another has renamed that onto the index.           *)
Before == {"idle", "read", "intern", "open"}
IndexAtHand ==
  \A j \in Active :
    /\ pc[j] \in Writing => idx[T(j)] # NoInode \/ tmp[T(j)] # NoInode
    /\ pc[j] \notin Before \cup Writing => idx[T(j)] # NoInode

(* Until a process is killed, an inode that has a path and no data is open *)
(* at a job that will write it.                                            *)
WasKilled(j) == runs[j] > 1 \/ (runs[j] = 1 /\ pc[j] = "idle")
Writer(j, i) == pc[j] = "write" /\ fd[j] = i
TornIsOpen ==
  (\A j \in Active : ~WasKilled(j)) =>
    \A t \in Tarballs : \A i \in {idx[t], tmp[t]} \ {NoInode} :
      data[i] = "empty" => \E j \in Active : Writer(j, i)

(* No inode has two paths, and who ingests a tarball alone writes to the   *)
(* temporary path and finds its index whole.                               *)
PathsApart ==
  \A t \in Tarballs : tmp[t] # NoInode =>
    \A u \in Tarballs : tmp[t] # idx[u] /\ (t # u => tmp[t] # tmp[u])
AloneIsWhole ==
  \A j \in Active : Alone(j) =>
    /\ pc[j] \in Writing => tmp[T(j)] = fd[j]
    /\ pc[j] = "commit" => data[fd[j]] = "full"
    /\ idx[T(j)] # NoInode => Full(T(j))

(* A directory of one's own is filled from nothing, file by file.          *)
Beginning == {"read", "intern", "open", "remove", "tree", "check"} \cup Writing
OwnDirectory ==
  \A j \in Active : Apart(j) =>
    /\ D(j) \notin exists => \A c \in Contents : entry[D(j)][c] = "absent"
    /\ pc[j] \in {"clear", "manifest"} => D(j) \notin exists
    /\ pc[j] = "files" =>
         /\ D(j) \in exists /\ todo[j] \subseteq FilesOf[T(j)]
         /\ \A c \in todo[j] : entry[D(j)][c] \in {"absent", "part"}
         /\ \A c \in FilesOf[T(j)] \ todo[j] : entry[D(j)][c] \in {"link", "copy"}
    /\ runs[j] = 0 \/ (runs[j] = 1 /\ pc[j] \in Beginning) => D(j) \notin exists
    /\ runs[j] = 1 /\ pc[j] = "done" => \A c \in FilesOf[T(j)] : entry[D(j)][c] \in {"link", "copy"}

Started == \A j \in Jobs : runs[j] = 0 => pc[j] = "idle"

StoreInv ==
  /\ TypeOK /\ Started
  /\ FilesFirst /\ IndexAtHand /\ TornIsOpen
  /\ PathsApart /\ AloneIsWhole /\ OwnDirectory
  /\ StoreIntact /\ RerunSucceeds

USE StoreAssumption

-----------------------------------------------------------------------------
LEMMA NoInodeIsNone == NoInode \notin Inodes
BY DEF Inodes, NoInode

LEMMA ActiveFacts ==
  ASSUME TypeOK
  PROVE  /\ Active \subseteq Jobs
         /\ \A j \in Active : T(j) \in Tarballs /\ D(j) \in Dests
         /\ \A t \in Tarballs : FilesOf[t] \subseteq Contents
         /\ \A j \in Jobs : pc[j] # "idle" => j \in Active
         /\ plan.runs \in Nat
BY DEF TypeOK, Active, T, D

LEMMA InitStoreInv == Init => StoreInv
<1> SUFFICES ASSUME Init PROVE StoreInv
  OBVIOUS
<1> USE DEF Init
<1>1. TypeOK /\ Started
  BY NoInodeIsNone DEF TypeOK, Started, Stages, Writing, Active
<1>2. Active \subseteq Jobs /\ \A j \in Active : D(j) \in Dests /\ T(j) \in Tarballs
  BY <1>1, ActiveFacts
<1>3. FilesFirst /\ IndexAtHand /\ TornIsOpen /\ PathsApart /\ AloneIsWhole
  BY <1>2 DEF FilesFirst, IndexAtHand, TornIsOpen, PathsApart, AloneIsWhole, Writing, Before
<1>4. OwnDirectory /\ StoreIntact /\ RerunSucceeds
  BY <1>2 DEF OwnDirectory, StoreIntact, RerunSucceeds
<1> QED
  BY <1>1, <1>3, <1>4 DEF StoreInv

-----------------------------------------------------------------------------
(* Every step moves one job, to a stage that its own stage leads to.       *)
Moves(j, from, to) == pc[j] \in from /\ \E s \in to : pc' = [pc EXCEPT ![j] = s]

Frames == UNCHANGED <<plan, idx, tmp, data, fd, runs>>

(* Linking leaves the indexes and their writers alone, ...                 *)
LEMMA LinkingStep ==
  ASSUME TypeOK, NEW j \in Jobs, Check(j) \/ Materialize(j)
  PROVE  /\ Frames
         /\ Moves(j, {"check", "clear", "manifest", "files"}, {"clear", "manifest", "files", "done", "failed"})
         /\ \A c \in Contents : file[c] # "absent" => file'[c] # "absent"
         /\ \A k \in Jobs \ {j} : todo'[k] = todo[k]
<1> USE DEF TypeOK, Stages, Moves, Frames, Goto, storeVars, destVars, jobVars
<1>1. CASE Check(j)
  BY <1>1 DEF Check
<1>2. CASE CloneOrClear(j)
  BY <1>2 DEF CloneOrClear
<1>3. CASE ReadManifest(j)
  BY <1>3 DEF ReadManifest
<1>4. ASSUME NEW c \in Contents,
             LinkFile(j, c) \/ CopyOntoItself(j, c) \/ CopyBegin(j, c) \/ CopyEnd(j, c) \/ FileFails(j, c)
      PROVE  /\ Frames
             /\ Moves(j, {"files"}, {"files", "failed"})
             /\ \A k \in Contents : file[k] # "absent" => file'[k] # "absent"
             /\ \A k \in Jobs \ {j} : todo'[k] = todo[k]
  BY <1>4 DEF LinkFile, CopyOntoItself, CopyBegin, CopyEnd, FileFails
<1>5. CASE Finish(j)
  BY <1>5 DEF Finish
<1> QED
  BY <1>1, <1>2, <1>3, <1>4, <1>5 DEF Materialize

(* ... and an ingest leaves the directories alone, and no file is ever     *)
(* unstored by either.                                                     *)
LEMMA IngestStep ==
  ASSUME TypeOK, NEW j \in Jobs, Ingest(j)
  PROVE  /\ UNCHANGED <<plan, exists, entry, runs>>
         /\ Moves(j, Beginning \ {"check"}, (Beginning \ {"read"}) \cup {"failed"})
         /\ \A c \in Contents : file'[c] = file[c] \/ (file[c] = "absent" /\ file'[c] = "good")
         /\ \A k \in Jobs \ {j} : todo'[k] = todo[k]
<1> USE DEF TypeOK, Stages, Moves, Beginning, Writing, Goto, storeVars, destVars
<1>1. CASE ReadIndex(j)
  BY <1>1 DEF ReadIndex
<1>2. ASSUME NEW c \in Contents, Intern(j, c)
      PROVE  /\ UNCHANGED <<plan, exists, entry, runs>>
             /\ Moves(j, {"intern"}, {"intern"})
             /\ \A k \in Contents : file'[k] = file[k] \/ (file[k] = "absent" /\ file'[k] = "good")
             /\ \A k \in Jobs \ {j} : todo'[k] = todo[k]
  BY <1>2 DEF Intern
<1>3. CASE Interned(j) \/ OpenTmp(j) \/ WriteTmp(j) \/ BuildTree(j)
  BY <1>3 DEF Interned, OpenTmp, WriteTmp, BuildTree
<1>4. CASE Commit(j)
  BY <1>4 DEF Commit
<1>5. CASE RemoveTmp(j)
  BY <1>5 DEF RemoveTmp
<1> QED
  BY <1>1, <1>2, <1>3, <1>4, <1>5 DEF Ingest

-----------------------------------------------------------------------------
(* The plan never changes, nor what is read off it.                        *)
LEMMA PlanStays ==
  ASSUME NEW j \in Jobs, Step(j) \/ Crash(j)
  PROVE  /\ plan' = plan /\ Active' = Active
         /\ \A k : T(k)' = T(k) /\ D(k)' = D(k) /\ (Alone(k)' <=> Alone(k)) /\ (Apart(k)' <=> Apart(k))
<1>1. plan' = plan
  BY DEF Step, Start, Crash, Ingest, ReadIndex, Intern, Interned, OpenTmp, WriteTmp, Commit, RemoveTmp, BuildTree,
         Check, Materialize, CloneOrClear, ReadManifest, LinkFile, CopyOntoItself, CopyBegin, CopyEnd,
         FileFails, Finish, storeVars
<1> QED
  BY <1>1 DEF T, D, Active, Alone, Apart

LEMMA TypeStep == ASSUME TypeOK, NEW j \in Jobs, Step(j) \/ Crash(j) PROVE TypeOK'
<1> USE DEF Goto, storeVars, destVars, jobVars, Stages, Writing
<1>0. NoInode \notin Inodes /\ plan.runs \in Nat /\ Active \subseteq Jobs
      /\ (\A k \in Active : T(k) \in Tarballs /\ D(k) \in Dests /\ FilesOf[T(k)] \subseteq Contents)
      /\ (pc[j] # "idle" => j \in Active)
  BY ActiveFacts, NoInodeIsNone
<1>p. plan' = plan /\ Active' = Active
  BY PlanStays
(* Stages and descriptors, ...                                             *)
<1>1. /\ pc' \in [Jobs -> Stages] /\ fd' \in [Jobs -> Inodes \cup {NoInode}]
      /\ \A k \in Jobs : fd'[k] # NoInode <=> pc'[k] \in Writing
  <2>0. /\ pc \in [Jobs -> Stages] /\ fd \in [Jobs -> Inodes \cup {NoInode}]
        /\ \A k \in Jobs : fd[k] # NoInode <=> pc[k] \in Writing
    BY DEF TypeOK
  <2>1. CASE Start(j) \/ Crash(j)
    BY <1>0, <2>0, <2>1 DEF Start, Crash, Ended
  <2>2. CASE Check(j) \/ Materialize(j)
    BY <2>0, <2>2, LinkingStep DEF Moves, Frames
  <2>3. CASE ReadIndex(j) \/ (\E c \in Contents : Intern(j, c)) \/ Interned(j) \/ BuildTree(j)
    <3>1. fd' = fd /\ Moves(j, {"read", "intern", "tree"}, {"intern", "open", "check", "failed"})
      BY <2>0, <2>3 DEF ReadIndex, Intern, Interned, BuildTree, Moves
    <3> QED
      BY <2>0, <3>1 DEF Moves
  <2>4. CASE OpenTmp(j)
    <3>1. PICK i \in Inodes : fd' = [fd EXCEPT ![j] = i]
      BY <2>4 DEF OpenTmp
    <3> QED
      BY <1>0, <2>0, <2>4, <3>1 DEF OpenTmp
  <2>6. CASE WriteTmp(j)
    BY <1>0, <2>0, <2>6 DEF WriteTmp
  <2>5. CASE Commit(j)
    <3>1. fd' = [fd EXCEPT ![j] = NoInode] /\ Moves(j, {"commit"}, {"remove", "tree", "failed"})
      BY <2>5 DEF Commit, Moves
    <3> QED
      BY <2>0, <3>1 DEF Moves
  <2>7. CASE RemoveTmp(j)
    BY <2>0, <2>7 DEF RemoveTmp
  <2> QED
    BY <2>1, <2>2, <2>3, <2>4, <2>5, <2>6, <2>7 DEF Step, Ingest
(* ... the store, ...                                                      *)
<1>2. file' \in [Contents -> {"absent", "good", "empty"}]
  <2>1. CASE \E c \in Contents : Intern(j, c) \/ CopyOntoItself(j, c)
    BY <2>1 DEF Intern, CopyOntoItself, TypeOK
  <2>2. CASE file' = file
    BY <2>2 DEF TypeOK
  <2> QED
    BY <2>1, <2>2
    DEF Step, Start, Crash, Ingest, ReadIndex, Interned, OpenTmp, WriteTmp, Commit, RemoveTmp, BuildTree,
        Check, Materialize, CloneOrClear, ReadManifest, LinkFile, CopyBegin, CopyEnd, FileFails, Finish
<1>3. /\ idx' \in [Tarballs -> Inodes \cup {NoInode}] /\ tmp' \in [Tarballs -> Inodes \cup {NoInode}]
      /\ data' \in [Inodes -> {"empty", "full"}] /\ extracted' \subseteq Tarballs
  <2>1. CASE OpenTmp(j)
    BY <1>0, <2>1 DEF OpenTmp, TypeOK
  <2>2. CASE WriteTmp(j)
    BY <1>0, <2>2 DEF WriteTmp, TypeOK
  <2>3. CASE Commit(j)
    BY <1>0, <2>3 DEF Commit, TypeOK
  <2>4. CASE UNCHANGED <<idx, tmp, data, extracted>>
    BY <2>4 DEF TypeOK
  <2>5. CASE BuildTree(j)
    BY <1>0, <2>5 DEF BuildTree, TypeOK
  <2>6. CASE RemoveTmp(j)
    BY <1>0, <2>6 DEF RemoveTmp, TypeOK
  <2> QED
    BY <2>1, <2>2, <2>3, <2>4, <2>5, <2>6
    DEF Step, Start, Crash, Ingest, ReadIndex, Intern, Interned, Check, Materialize, CloneOrClear,
        ReadManifest, LinkFile, CopyOntoItself, CopyBegin, CopyEnd, FileFails, Finish
(* ... the directories, ...                                                *)
<1>4. exists' \subseteq Dests /\ entry' \in [Dests -> [Contents -> {"absent", "link", "part", "copy"}]]
  <2>1. CASE CloneOrClear(j)
    <3>1. D(j) \in Dests /\ exists \subseteq Dests
          /\ entry \in [Dests -> [Contents -> {"absent", "link", "part", "copy"}]]
      BY <1>0, <2>1 DEF CloneOrClear, TypeOK
    <3>2. \/ UNCHANGED destVars
          \/ \E files \in [Contents -> {"absent", "copy"}] :
               exists' \in {exists \cup {D(j)}, exists \ {D(j)}} /\ entry' = [entry EXCEPT ![D(j)] = files]
      BY <2>1 DEF CloneOrClear
    <3> QED
      BY <3>1, <3>2
  <2>2. CASE \E c \in Contents : LinkFile(j, c) \/ CopyBegin(j, c) \/ CopyEnd(j, c)
    <3>1. PICK c \in Contents, how \in {"link", "part", "copy"} : Set(D(j), c, how)
      BY <2>2 DEF LinkFile, CopyBegin, CopyEnd
    <3>2. entry \in [Dests -> [Contents -> {"absent", "link", "part", "copy"}]] /\ D(j) \in Dests
      BY <1>0, <2>2 DEF LinkFile, CopyBegin, CopyEnd, TypeOK
    <3> QED
      BY <2>2, <3>1, <3>2 DEF Set, LinkFile, CopyBegin, CopyEnd, TypeOK
  <2>3. CASE UNCHANGED destVars
    BY <2>3 DEF TypeOK
  <2>4. CASE ReadManifest(j)
    BY <1>0, <2>4 DEF ReadManifest, TypeOK
  <2> QED
    BY <2>1, <2>2, <2>3, <2>4
    DEF Step, Start, Crash, Ingest, ReadIndex, Intern, Interned, OpenTmp, WriteTmp, Commit, RemoveTmp, BuildTree,
        Check, Materialize, CopyOntoItself, FileFails, Finish
(* ... and what a job has left to do and how often it was started.         *)
<1>5. todo' \in [Jobs -> SUBSET Contents]
  <2>1. CASE ReadIndex(j) \/ ReadManifest(j)
    BY <1>0, <2>1 DEF ReadIndex, ReadManifest, TypeOK
  <2>2. CASE Crash(j) \/ \E c \in Contents : Intern(j, c) \/ LinkFile(j, c) \/ CopyOntoItself(j, c) \/ CopyEnd(j, c)
    BY <2>2 DEF Crash, Intern, LinkFile, CopyOntoItself, CopyEnd, TypeOK
  <2>3. CASE todo' = todo
    BY <2>3 DEF TypeOK
  <2> QED
    BY <2>1, <2>2, <2>3
    DEF Step, Start, Ingest, Interned, OpenTmp, WriteTmp, Commit, RemoveTmp, BuildTree,
        Check, Materialize, CloneOrClear, CopyBegin, FileFails, Finish
<1>6. runs' \in [Jobs -> 0..plan.runs]
  <2>1. CASE Start(j)
    BY <1>0, <2>1 DEF Start, TypeOK
  <2>2. CASE runs' = runs
    BY <2>2 DEF TypeOK
  <2> QED
    BY <2>1, <2>2, IngestStep, LinkingStep DEF Step, Crash, Frames
<1>7. \A k \in Jobs \ Active : pc'[k] = "idle"
  <2>1. j \in Active /\ \A k \in Jobs \ {j} : pc'[k] = pc[k]
    <3>1. CASE Start(j) \/ Crash(j)
      BY <1>0, <3>1 DEF Start, Crash, TypeOK
    <3>2. CASE Ingest(j) \/ Check(j) \/ Materialize(j)
      BY <1>0, <3>2, IngestStep, LinkingStep DEF Moves, Beginning, TypeOK
    <3> QED
      BY <3>1, <3>2 DEF Step
  <2> QED
    BY <2>1 DEF TypeOK
<1> QED
  BY <1>1, <1>2, <1>3, <1>4, <1>5, <1>6, <1>7, <1>p DEF TypeOK

LEMMA StartedStep == ASSUME TypeOK, Started, NEW j \in Jobs, Step(j) \/ Crash(j) PROVE Started'
<1> USE DEF TypeOK, Started
<1>1. CASE Start(j)
  <2>1. runs[j] \in Nat
    BY ActiveFacts
  <2> QED
    BY <1>1, <2>1 DEF Start, Goto
<1>2. CASE Crash(j)
  BY <1>2 DEF Crash, Goto
<1>3. CASE Ingest(j)
  BY <1>3, IngestStep DEF Moves, Beginning, Writing
<1>4. CASE Check(j) \/ Materialize(j)
  BY <1>4, LinkingStep DEF Moves, Frames
<1> QED
  BY <1>1, <1>2, <1>3, <1>4 DEF Step

LEMMA FilesFirstStep ==
  ASSUME TypeOK, FilesFirst, IndexAtHand, NEW j \in Jobs, Step(j) \/ Crash(j)
  PROVE  FilesFirst'
<1> USE DEF Goto, storeVars, destVars, Writing
<1>0. /\ pc \in [Jobs -> Stages] /\ Active \subseteq Jobs
      /\ \A k \in Active : T(k) \in Tarballs /\ D(k) \in Dests
      /\ \A t \in Tarballs : FilesOf[t] \subseteq Contents
      /\ (pc[j] # "idle" => j \in Active)
  BY ActiveFacts DEF TypeOK
<1>p. Active' = Active /\ \A k : T(k)' = T(k)
  BY PlanStays
<1>f. \A c \in Contents : file[c] # "absent" => file'[c] # "absent"
  <2>1. CASE Start(j) \/ Crash(j)
    BY <2>1 DEF Start, Crash
  <2> QED
    BY <2>1, IngestStep, LinkingStep DEF Step
<1>s. \A t \in Tarballs : Stored(t) => Stored(t)'
  BY <1>0, <1>f DEF Stored
<1>1. \A t \in Tarballs : idx'[t] # NoInode \/ tmp'[t] # NoInode => Stored(t)'
  <2>1. CASE OpenTmp(j)
    BY <1>0, <1>s, <2>1 DEF OpenTmp, FilesFirst, TypeOK
  <2>2. CASE Commit(j)
    BY <1>0, <1>s, <2>2 DEF Commit, FilesFirst, TypeOK
  <2>3. CASE UNCHANGED <<idx, tmp>>
    BY <1>s, <2>3 DEF FilesFirst
  <2>4. CASE RemoveTmp(j)
    BY <1>0, <1>s, <2>4 DEF RemoveTmp, FilesFirst, TypeOK
  <2> QED
    BY <2>1, <2>2, <2>3, <2>4, LinkingStep
    DEF Step, Start, Crash, Ingest, ReadIndex, Intern, Interned, WriteTmp, BuildTree, Frames
<1>2. \A k \in Active : pc'[k] \in {"open"} \cup Writing => Stored(T(k))'
  <2>1. \A k \in Active : Stored(T(k)) => Stored(T(k))'
    BY <1>0, <1>f, <1>p DEF Stored
  <2>2. CASE Interned(j)
    <3>1. Stored(T(j))
      BY <1>0, <2>2 DEF Interned, FilesFirst, Stored
    <3> QED
      BY <1>0, <2>1, <2>2, <3>1 DEF Interned, FilesFirst
  <2>3. CASE OpenTmp(j) \/ WriteTmp(j) \/ (\E c \in Contents : Intern(j, c))
    BY <1>0, <2>1, <2>3 DEF OpenTmp, WriteTmp, Intern, FilesFirst
  <2>4. CASE Start(j) \/ Crash(j)
    BY <1>0, <2>1, <2>4 DEF Start, Crash, FilesFirst
  <2>5. CASE Moves(j, Stages, {"intern", "remove", "tree", "check", "clear", "manifest", "files", "done", "failed"})
    BY <1>0, <2>1, <2>5 DEF Moves, FilesFirst
  <2>6. ReadIndex(j) \/ Commit(j) \/ RemoveTmp(j) \/ BuildTree(j)
        => Moves(j, Stages, {"intern", "remove", "tree", "check", "failed"})
    BY <1>0 DEF ReadIndex, Commit, RemoveTmp, BuildTree, Moves
  <2> QED
    BY <1>p, <2>2, <2>3, <2>4, <2>5, <2>6, LinkingStep DEF Step, Ingest, Moves, Stages
<1>3. \A k \in Active : pc'[k] = "intern" => \A c \in FilesOf[T(k)] \ todo'[k] : file'[c] # "absent"
  <2>0. todo \in [Jobs -> SUBSET Contents]
    BY DEF TypeOK
  <2>1. \A k \in Active \ {j} : pc'[k] = pc[k] /\ todo'[k] = todo[k]
    <3>1. CASE Start(j) \/ Crash(j)
      BY <1>0, <2>0, <3>1 DEF Start, Crash
    <3>2. CASE Ingest(j)
      BY <1>0, <3>2, IngestStep DEF Moves
    <3>3. CASE Check(j) \/ Materialize(j)
      BY <1>0, <3>3, LinkingStep DEF Moves
    <3> QED
      BY <3>1, <3>2, <3>3 DEF Step
  <2>2. ASSUME j \in Active, pc'[j] = "intern", NEW c \in FilesOf[T(j)] \ todo'[j]
        PROVE  file'[c] # "absent"
    <3>1. CASE ReadIndex(j)
      BY <1>0, <2>0, <2>2, <3>1 DEF ReadIndex
    <3>2. ASSUME NEW k \in Contents, Intern(j, k)
          PROVE  file'[c] # "absent"
      BY <1>0, <1>f, <2>0, <2>2, <3>2 DEF Intern, FilesFirst, TypeOK
    <3>3. CASE Start(j) \/ Crash(j)
      BY <1>0, <2>2, <3>3 DEF Start, Crash
    <3>4. CASE Interned(j) \/ OpenTmp(j) \/ WriteTmp(j) \/ BuildTree(j)
      BY <1>0, <2>2, <3>4 DEF Interned, OpenTmp, WriteTmp, BuildTree
    <3>5. CASE Commit(j) \/ RemoveTmp(j)
      BY <1>0, <2>2, <3>5 DEF Commit, RemoveTmp
    <3>6. CASE Check(j) \/ Materialize(j)
      BY <1>0, <2>2, <3>6, LinkingStep DEF Moves
    <3> QED
      BY <3>1, <3>2, <3>3, <3>4, <3>5, <3>6 DEF Step, Ingest
  <2> QED
    BY <1>0, <1>f, <2>1, <2>2 DEF FilesFirst
<1>4. \A d \in Dests, c \in Contents : entry'[d][c] = "link" => file'[c] # "absent"
  <2>0. entry \in [Dests -> [Contents -> {"absent", "link", "part", "copy"}]]
    BY DEF TypeOK
  <2>1. ASSUME NEW c \in Contents, LinkFile(j, c) \/ CopyBegin(j, c) \/ CopyEnd(j, c)
        PROVE  \A d \in Dests, k \in Contents : entry'[d][k] = "link" => file'[k] # "absent"
    <3>1. PICK how \in {"link", "part", "copy"} :
            /\ entry' = [entry EXCEPT ![D(j)][c] = how] /\ (how = "link" => file[c] # "absent")
      BY <2>1 DEF LinkFile, CopyBegin, CopyEnd, Set
    <3>2. D(j) \in Dests
      BY <1>0, <2>1 DEF LinkFile, CopyBegin, CopyEnd
    <3> QED
      BY <1>f, <2>0, <3>1, <3>2 DEF FilesFirst
  <2>2. CASE CloneOrClear(j)
    <3>1. \A d \in Dests, c \in Contents : entry'[d][c] = "link" => entry[d][c] = "link"
      BY <2>0, <2>2 DEF CloneOrClear
    <3> QED
      BY <1>f, <3>1 DEF FilesFirst
  <2>3. CASE entry' = entry
    BY <1>f, <2>3 DEF FilesFirst
  <2> QED
    BY <2>1, <2>2, <2>3, IngestStep
    DEF Step, Start, Crash, Check, Materialize, ReadManifest, CopyOntoItself, FileFails, Finish
<1> QED
  BY <1>1, <1>2, <1>3, <1>4, <1>p DEF FilesFirst

LEMMA IndexStep ==
  ASSUME TypeOK, IndexAtHand, NEW j \in Jobs, Step(j) \/ Crash(j)
  PROVE  IndexAtHand'
<1> USE DEF IndexAtHand, Before, Goto, storeVars, destVars, Writing
<1>0. /\ pc \in [Jobs -> Stages] /\ Active \subseteq Jobs /\ (pc[j] # "idle" => j \in Active)
      /\ \A k \in Active : T(k) \in Tarballs
      /\ idx \in [Tarballs -> Inodes \cup {NoInode}] /\ tmp \in [Tarballs -> Inodes \cup {NoInode}]
      /\ Active' = Active /\ \A k : T(k)' = T(k)
  BY ActiveFacts, PlanStays DEF TypeOK
<1>1. CASE Start(j) \/ Crash(j)
  BY <1>0, <1>1 DEF Start, Crash
<1>2. CASE ReadIndex(j)
  BY <1>0, <1>2 DEF ReadIndex
<1>3. CASE (\E c \in Contents : Intern(j, c)) \/ Interned(j)
  BY <1>0, <1>3 DEF Intern, Interned
<1>4. CASE OpenTmp(j)
  BY <1>0, <1>4, NoInodeIsNone DEF OpenTmp
<1>5. CASE WriteTmp(j) \/ BuildTree(j)
  BY <1>0, <1>5 DEF WriteTmp, BuildTree
<1>6. CASE Commit(j)
  <2>1. tmp[T(j)] # NoInode \/ idx[T(j)] # NoInode
    BY <1>0, <1>6 DEF Commit
  <2>2. idx'[T(j)] # NoInode /\ (\A t \in Tarballs : idx[t] # NoInode => idx'[t] # NoInode)
    BY <1>0, <1>6, <2>1 DEF Commit
  <2>3. \A t \in Tarballs \ {T(j)} : tmp'[t] = tmp[t]
    BY <1>0, <1>6 DEF Commit
  <2> QED
    BY <1>0, <1>6, <2>2, <2>3 DEF Commit
<1>7. CASE Check(j) \/ Materialize(j)
  BY <1>0, <1>7, LinkingStep DEF Moves, Frames
<1>8. CASE RemoveTmp(j)
  BY <1>0, <1>8 DEF RemoveTmp
<1> QED
  BY <1>1, <1>2, <1>3, <1>4, <1>5, <1>6, <1>7, <1>8 DEF Step, Ingest

(* The writer of an inode goes on until it has written it, or is killed.   *)
LEMMA TornStep ==
  ASSUME TypeOK, Started, TornIsOpen, NEW j \in Jobs, Step(j) \/ Crash(j)
  PROVE  TornIsOpen'
<1> USE DEF Goto, storeVars, destVars, Writer
<1>0. /\ pc \in [Jobs -> Stages] /\ Active \subseteq Jobs /\ (pc[j] # "idle" => j \in Active)
      /\ runs \in [Jobs -> 0..plan.runs] /\ plan.runs \in Nat
      /\ Active' = Active /\ \A k : T(k)' = T(k)
  BY ActiveFacts, PlanStays DEF TypeOK
<1> SUFFICES ASSUME \A k \in Active : ~WasKilled(k)', NEW t \in Tarballs, NEW i, i \in {idx'[t], tmp'[t]} \ {NoInode},
                    data'[i] = "empty"
             PROVE  \E k \in Active : Writer(k, i)'
  BY <1>0 DEF TornIsOpen
<1>8. ~Crash(j)
  <2> SUFFICES ASSUME Crash(j) PROVE WasKilled(j)'
    BY <1>0 DEF Crash
  <2>1. pc'[j] = "idle" /\ runs'[j] = runs[j] /\ runs[j] # 0
    BY <1>0 DEF Crash, Started
  <2> QED
    BY <1>0, <2>1 DEF WasKilled
<1>1. \A k \in Active : ~WasKilled(k)
  <2>2. CASE Start(j)
    BY <1>0, <2>2 DEF Start, WasKilled
  <2>3. CASE Ingest(j) \/ Check(j) \/ Materialize(j)
    BY <1>0, <2>3, IngestStep, LinkingStep DEF WasKilled, Moves, Frames, Beginning, Writing
  <2> QED
    BY <1>8, <2>2, <2>3 DEF Step
<1>2. \A u \in Tarballs : \A k \in {idx[u], tmp[u]} \ {NoInode} :
        data[k] = "empty" => \E l \in Active : Writer(l, k)
  BY <1>1 DEF TornIsOpen
<1>3. CASE Start(j) \/ Check(j) \/ Materialize(j)
  <2>1. UNCHANGED <<idx, tmp, data, fd>> /\ pc[j] # "write" /\ \A k \in Jobs \ {j} : pc'[k] = pc[k]
    BY <1>0, <1>3, LinkingStep DEF Start, Moves, Frames
  <2> QED
    BY <1>0, <1>2, <2>1
<1>4. CASE ReadIndex(j) \/ (\E c \in Contents : Intern(j, c)) \/ Interned(j) \/ BuildTree(j)
  <2>1. UNCHANGED <<idx, tmp, data, fd>> /\ pc[j] # "write" /\ \A k \in Jobs \ {j} : pc'[k] = pc[k]
    BY <1>0, <1>4 DEF ReadIndex, Intern, Interned, BuildTree
  <2> QED
    BY <1>0, <1>2, <2>1
<1>5. CASE OpenTmp(j)
  <2>1. PICK o \in Inodes : /\ tmp' = [tmp EXCEPT ![T(j)] = o] /\ fd' = [fd EXCEPT ![j] = o]
                            /\ data' = [data EXCEPT ![o] = "empty"]
    BY <1>5 DEF OpenTmp
  <2>2. CASE i = o
    BY <1>0, <1>5, <2>1, <2>2 DEF OpenTmp, TypeOK
  <2>3. CASE i # o
    <3>1. i \in {idx[t], tmp[t]} /\ data[i] = "empty"
      BY <1>5, <2>1, <2>3, NoInodeIsNone DEF OpenTmp, TypeOK
    <3> QED
      BY <1>0, <1>2, <1>5, <2>1, <3>1 DEF OpenTmp, TypeOK
  <2> QED
    BY <2>2, <2>3
<1>6. CASE WriteTmp(j)
  <2>1. i # fd[j] /\ data[i] = "empty"
    BY <1>6, NoInodeIsNone DEF WriteTmp, TypeOK
  <2> QED
    BY <1>0, <1>2, <1>6, <2>1 DEF WriteTmp
<1>7. CASE Commit(j)
  <2>1. \E u \in Tarballs : i \in {idx[u], tmp[u]}
    BY <1>0, <1>7 DEF Commit, TypeOK
  <2>2. data[i] = "empty" /\ pc[j] # "write" /\ \A k \in Jobs \ {j} : pc'[k] = pc[k] /\ fd'[k] = fd[k]
    BY <1>0, <1>7 DEF Commit, TypeOK
  <2> QED
    BY <1>0, <1>2, <2>1, <2>2
<1>9. CASE RemoveTmp(j)
  BY <1>0, <1>2, <1>9 DEF RemoveTmp, TypeOK
<1> QED
  BY <1>3, <1>4, <1>5, <1>6, <1>7, <1>8, <1>9 DEF Step, Ingest

LEMMA PathsStep ==
  ASSUME TypeOK, PathsApart, NEW j \in Jobs, Step(j) \/ Crash(j)
  PROVE  PathsApart'
<1>0. (pc[j] # "idle" => T(j) \in Tarballs) /\ NoInode \notin Inodes
      /\ idx \in [Tarballs -> Inodes \cup {NoInode}] /\ tmp \in [Tarballs -> Inodes \cup {NoInode}]
  BY ActiveFacts, NoInodeIsNone DEF TypeOK
<1>1. CASE OpenTmp(j)
  <2>1. PICK i \in Inodes : tmp' = [tmp EXCEPT ![T(j)] = i] /\ (i = tmp[T(j)] \/ FreeInode(i))
    BY <1>1 DEF OpenTmp
  <2> QED
    BY <1>0, <1>1, <2>1 DEF OpenTmp, PathsApart, FreeInode
<1>2. CASE Commit(j) \/ RemoveTmp(j)
  BY <1>0, <1>2 DEF Commit, RemoveTmp, PathsApart
<1>3. CASE UNCHANGED <<idx, tmp>>
  BY <1>3 DEF PathsApart
<1> QED
  BY <1>1, <1>2, <1>3, LinkingStep
  DEF Step, Start, Crash, Ingest, ReadIndex, Intern, Interned, WriteTmp, BuildTree, Frames, storeVars

LEMMA AloneStep ==
  ASSUME TypeOK, AloneIsWhole, PathsApart, NEW j \in Jobs, Step(j) \/ Crash(j)
  PROVE  AloneIsWhole'
<1> USE DEF Goto, storeVars, destVars, Writing
<1>0. /\ pc \in [Jobs -> Stages] /\ Active \subseteq Jobs /\ (pc[j] # "idle" => j \in Active)
      /\ \A k \in Active : T(k) \in Tarballs
      /\ idx \in [Tarballs -> Inodes \cup {NoInode}] /\ tmp \in [Tarballs -> Inodes \cup {NoInode}]
      /\ data \in [Inodes -> {"empty", "full"}] /\ fd \in [Jobs -> Inodes \cup {NoInode}]
      /\ (\A k \in Jobs : fd[k] # NoInode <=> pc[k] \in {"write", "commit"}) /\ NoInode \notin Inodes
      /\ Active' = Active /\ \A k : T(k)' = T(k) /\ (Alone(k)' <=> Alone(k))
  BY ActiveFacts, PlanStays, NoInodeIsNone DEF TypeOK
<1> SUFFICES ASSUME NEW k \in Active, Alone(k)
             PROVE  /\ pc'[k] \in Writing => tmp'[T(k)] = fd'[k]
                    /\ pc'[k] = "commit" => data'[fd'[k]] = "full"
                    /\ idx'[T(k)] # NoInode => Full(T(k))'
  BY <1>0 DEF AloneIsWhole, Full
<1>k. /\ pc[k] \in Writing => tmp[T(k)] = fd[k]
      /\ pc[k] = "commit" => data[fd[k]] = "full"
      /\ idx[T(k)] # NoInode => data[idx[T(k)]] = "full"
      /\ (j \in Active /\ j # k => T(j) # T(k))
  BY DEF AloneIsWhole, Alone, Full
<1>1. CASE OpenTmp(j)
  <2>1. PICK i \in Inodes : /\ tmp' = [tmp EXCEPT ![T(j)] = i] /\ fd' = [fd EXCEPT ![j] = i]
                            /\ data' = [data EXCEPT ![i] = "empty"] /\ (i = tmp[T(j)] \/ FreeInode(i))
    BY <1>1 DEF OpenTmp
  <2>2. j \in Active /\ pc' = [pc EXCEPT ![j] = "write"] /\ idx' = idx
    BY <1>0, <1>1 DEF OpenTmp
  <2>3. i # idx[T(k)] /\ (j # k => i # tmp[T(k)])
    BY <1>0, <1>k, <2>1, <2>2 DEF FreeInode, PathsApart
  <2> QED
    BY <1>0, <1>k, <2>1, <2>2, <2>3 DEF Full
<1>2. CASE WriteTmp(j)
  BY <1>0, <1>k, <1>2 DEF WriteTmp, Full
<1>3. CASE Commit(j)
  <2>1. j \in Active /\ UNCHANGED data /\ fd' = [fd EXCEPT ![j] = NoInode]
        /\ tmp' = [tmp EXCEPT ![T(j)] = NoInode] /\ idx' \in {idx, [idx EXCEPT ![T(j)] = tmp[T(j)]]}
        /\ pc[j] = "commit" /\ pc'[j] \notin Writing /\ \A l \in Jobs \ {j} : pc'[l] = pc[l]
    BY <1>0, <1>3 DEF Commit
  <2> QED
    BY <1>0, <1>k, <2>1 DEF Full
<1>4. CASE UNCHANGED <<idx, tmp, data>> /\ pc'[j] \notin Writing /\ \A l \in Jobs \ {j} : pc'[l] = pc[l] /\ fd'[l] = fd[l]
  BY <1>0, <1>k, <1>4 DEF Full
<1>5. ASSUME Start(j) \/ Crash(j) \/ Check(j) \/ Materialize(j)
      PROVE  UNCHANGED <<idx, tmp, data>> /\ pc'[j] \notin Writing /\ \A l \in Jobs \ {j} : pc'[l] = pc[l] /\ fd'[l] = fd[l]
  BY <1>0, <1>5, LinkingStep DEF Start, Crash, Moves, Frames
<1>6. ASSUME ReadIndex(j) \/ (\E c \in Contents : Intern(j, c)) \/ Interned(j) \/ BuildTree(j)
      PROVE  UNCHANGED <<idx, tmp, data>> /\ pc'[j] \notin Writing /\ \A l \in Jobs \ {j} : pc'[l] = pc[l] /\ fd'[l] = fd[l]
  BY <1>0, <1>6 DEF ReadIndex, Intern, Interned, BuildTree
<1>7. CASE RemoveTmp(j)
  BY <1>0, <1>k, <1>7 DEF RemoveTmp, Full
<1> QED
  BY <1>1, <1>2, <1>3, <1>4, <1>5, <1>6, <1>7 DEF Step, Ingest

LEMMA DirectoryStep ==
  ASSUME TypeOK, Started, OwnDirectory, NEW j \in Jobs, Step(j) \/ Crash(j)
  PROVE  OwnDirectory'
<1> USE DEF Goto, storeVars, destVars
<1>0. /\ pc \in [Jobs -> Stages] /\ Active \subseteq Jobs /\ (pc[j] # "idle" => j \in Active)
      /\ (\A k \in Active : D(k) \in Dests /\ FilesOf[T(k)] \subseteq Contents)
      /\ runs \in [Jobs -> Nat] /\ todo \in [Jobs -> SUBSET Contents] /\ exists \subseteq Dests
      /\ entry \in [Dests -> [Contents -> {"absent", "link", "part", "copy"}]]
      /\ Active' = Active /\ \A k : T(k)' = T(k) /\ D(k)' = D(k) /\ (Apart(k)' <=> Apart(k))
  BY ActiveFacts, PlanStays DEF TypeOK
<1> DEFINE
  Emptied(k) == D(k) \notin exists => \A c \in Contents : entry[D(k)][c] = "absent"
  Filling(k) ==
    pc[k] = "files" =>
      /\ D(k) \in exists /\ todo[k] \subseteq FilesOf[T(k)]
      /\ \A c \in todo[k] : entry[D(k)][c] \in {"absent", "part"}
      /\ \A c \in FilesOf[T(k)] \ todo[k] : entry[D(k)][c] \in {"link", "copy"}
  Free(k) ==
    /\ pc[k] \in {"clear", "manifest"} => D(k) \notin exists
    /\ runs[k] = 0 \/ (runs[k] = 1 /\ pc[k] \in Beginning) => D(k) \notin exists
  Filled(k) == runs[k] = 1 /\ pc[k] = "done" => \A c \in FilesOf[T(k)] : entry[D(k)][c] \in {"link", "copy"}
<1> SUFFICES ASSUME NEW k \in Active, Apart(k)
             PROVE  Emptied(k)' /\ Filling(k)' /\ Free(k)' /\ Filled(k)'
  BY <1>0 DEF OwnDirectory
<1>k. Emptied(k) /\ Filling(k) /\ Free(k) /\ Filled(k) /\ (runs[k] = 0 => pc[k] = "idle")
      /\ (j \in Active /\ j # k => D(j) # D(k))
  BY <1>0 DEF OwnDirectory, Apart, Started
<1>1. CASE Start(j) \/ Crash(j)
  BY <1>0, <1>1, <1>k DEF Start, Crash, Beginning, Writing
<1>2. CASE Ingest(j)
  <2>1. UNCHANGED <<exists, entry, runs>> /\ \A l \in Jobs \ {j} : pc'[l] = pc[l] /\ todo'[l] = todo[l]
    BY <1>0, <1>2, IngestStep DEF Moves
  <2>2. pc[j] \in Beginning /\ pc'[j] \in Beginning \cup {"failed"}
    BY <1>0, <1>2, IngestStep DEF Moves
  <2> QED
    BY <1>0, <1>k, <2>1, <2>2 DEF Beginning, Writing
<1>3. CASE j # k /\ (Check(j) \/ Materialize(j))
  <2>1. j \in Active /\ pc'[k] = pc[k] /\ runs'[k] = runs[k] /\ todo'[k] = todo[k]
    BY <1>0, <1>3, LinkingStep DEF Moves, Frames
  <2>2. (D(k) \in exists' <=> D(k) \in exists) /\ entry'[D(k)] = entry[D(k)]
    <3>1. CASE CloneOrClear(j) \/ ReadManifest(j)
      BY <1>0, <1>k, <1>3, <2>1, <3>1 DEF CloneOrClear, ReadManifest
    <3>2. ASSUME NEW c \in Contents, LinkFile(j, c) \/ CopyBegin(j, c) \/ CopyEnd(j, c)
          PROVE  (D(k) \in exists' <=> D(k) \in exists) /\ entry'[D(k)] = entry[D(k)]
      BY <1>0, <1>k, <1>3, <2>1, <3>2 DEF LinkFile, CopyBegin, CopyEnd, Set
    <3>3. CASE UNCHANGED destVars
      BY <3>3
    <3> QED
      BY <1>3, <3>1, <3>2, <3>3 DEF Check, Materialize, CopyOntoItself, FileFails, Finish
  <2> QED
    BY <1>0, <1>k, <2>1, <2>2
<1>4. CASE Check(k)
  BY <1>0, <1>k, <1>4 DEF Check, Beginning, Writing
<1>5. CASE CloneOrClear(k)
  BY <1>0, <1>k, <1>5 DEF CloneOrClear, Beginning, Writing
<1>6. CASE ReadManifest(k)
  BY <1>0, <1>k, <1>6 DEF ReadManifest, Beginning, Writing
<1>7. ASSUME NEW c \in Contents, LinkFile(k, c) \/ CopyBegin(k, c) \/ CopyEnd(k, c)
      PROVE  Emptied(k)' /\ Filling(k)' /\ Free(k)' /\ Filled(k)'
  <2>1. PICK how \in {"link", "part", "copy"} :
          /\ entry' = [entry EXCEPT ![D(k)][c] = how] /\ UNCHANGED <<exists, pc, runs>>
          /\ todo' = [todo EXCEPT ![k] = IF how = "part" THEN @ ELSE @ \ {c}]
    BY <1>0, <1>7 DEF LinkFile, CopyBegin, CopyEnd, Set, jobVars
  <2>2. pc[k] = "files" /\ c \in todo[k] /\ D(k) \in exists
    BY <1>7 DEF LinkFile, CopyBegin, CopyEnd
  <2> QED
    BY <1>0, <1>k, <2>1, <2>2 DEF Beginning, Writing
<1>8. ASSUME NEW c \in Contents, CopyOntoItself(k, c) \/ FileFails(k, c)
      PROVE  Emptied(k)' /\ Filling(k)' /\ Free(k)' /\ Filled(k)'
  BY <1>0, <1>k, <1>8 DEF CopyOntoItself, FileFails, Beginning, Writing
<1>9. CASE Finish(k)
  BY <1>0, <1>k, <1>9 DEF Finish, Beginning, Writing
<1> QED
  BY <1>1, <1>2, <1>3, <1>4, <1>5, <1>6, <1>7, <1>8, <1>9 DEF Step, Materialize

(* Where directories are apart nobody copies a file onto itself.           *)
LEMMA IntactStep ==
  ASSUME TypeOK, OwnDirectory, StoreIntact, NEW j \in Jobs, Step(j) \/ Crash(j)
  PROVE  StoreIntact'
<1> SUFFICES ASSUME \A k \in Active : Apart(k), NEW c \in Contents PROVE file'[c] # "empty"
  BY PlanStays DEF StoreIntact
<1>0. file \in [Contents -> {"absent", "good", "empty"}] /\ file[c] # "empty"
  BY DEF TypeOK, StoreIntact
<1>1. ASSUME NEW k \in Contents PROVE ~CopyOntoItself(j, k)
  <2>1. pc[j] = "files" => j \in Active
    BY ActiveFacts
  <2> QED
    BY <2>1 DEF CopyOntoItself, OwnDirectory
<1>2. CASE Ingest(j)
  BY <1>0, <1>2, IngestStep
<1>3. CASE file' = file
  BY <1>0, <1>3
<1> QED
  BY <1>1, <1>2, <1>3
  DEF Step, Start, Crash, Check, Materialize, CloneOrClear, ReadManifest, LinkFile, CopyBegin, CopyEnd,
      FileFails, Finish, storeVars

(* A job fails at a torn index, at a lost temporary path, at a missing file *)
(* or directory, and meets none of these where it is on its own.            *)
LEMMA RerunStep ==
  ASSUME StoreInv, NEW j \in Jobs, Step(j) \/ Crash(j)
  PROVE  RerunSucceeds'
<1> USE DEF Goto
<1>0. /\ pc \in [Jobs -> Stages] /\ Active \subseteq Jobs /\ (pc[j] # "idle" => j \in Active)
      /\ T(j) \in Tarballs \/ j \notin Active
      /\ Active' = Active /\ \A k : (Alone(k)' <=> Alone(k)) /\ (Apart(k)' <=> Apart(k))
  BY ActiveFacts, PlanStays DEF TypeOK, StoreInv
<1>1. \A k \in Active \ {j} : pc'[k] = pc[k]
  <2>1. CASE Start(j) \/ Crash(j)
    BY <1>0, <2>1 DEF Start, Crash
  <2> QED
    BY <1>0, <2>1, IngestStep, LinkingStep DEF Step, Moves, StoreInv
<1>2. ASSUME j \in Active, Alone(j), Apart(j) PROVE pc'[j] # "failed"
  <2>1. /\ pc[j] = "commit" => tmp[T(j)] # NoInode
        /\ pc[j] = "manifest" => Full(T(j))
        /\ pc[j] = "read" => idx[T(j)] = NoInode \/ Full(T(j))
    BY <1>2 DEF StoreInv, AloneIsWhole, IndexAtHand, TypeOK, Writing, Before
  <2>2. pc[j] = "files" => D(j) \in exists /\ \A c \in todo[j] : file[c] # "absent"
    BY <1>0, <1>2 DEF StoreInv, OwnDirectory, IndexAtHand, FilesFirst, Stored, Before, Writing
  <2>3. ASSUME NEW c \in Contents PROVE ~FileFails(j, c)
    BY <2>2 DEF FileFails
  <2>4. CASE Start(j) \/ Crash(j)
    BY <1>0, <2>4 DEF Start, Crash
  <2>5. CASE ReadIndex(j) \/ (\E c \in Contents : Intern(j, c)) \/ Interned(j) \/ OpenTmp(j) \/ WriteTmp(j) \/ RemoveTmp(j)
             \/ BuildTree(j)
    BY <1>0, <2>1, <2>5 DEF ReadIndex, Intern, Interned, OpenTmp, WriteTmp, RemoveTmp, BuildTree
  <2>6. CASE Commit(j) \/ ReadManifest(j)
    BY <1>0, <2>1, <2>6 DEF Commit, ReadManifest
  <2>7. CASE Check(j) \/ CloneOrClear(j) \/ Finish(j)
    BY <1>0, <2>7 DEF Check, CloneOrClear, Finish
  <2>8. CASE \E c \in Contents : LinkFile(j, c) \/ CopyOntoItself(j, c) \/ CopyBegin(j, c) \/ CopyEnd(j, c)
    BY <1>0, <2>8 DEF LinkFile, CopyOntoItself, CopyBegin, CopyEnd, jobVars
  <2> QED
    BY <2>3, <2>4, <2>5, <2>6, <2>7, <2>8 DEF Step, Ingest, Materialize
<1> QED
  BY <1>0, <1>1, <1>2 DEF StoreInv, RerunSucceeds

-----------------------------------------------------------------------------
LEMMA NextStoreInv == StoreInv /\ [Next]_vars => StoreInv'
<1> SUFFICES ASSUME StoreInv, [Next]_vars PROVE StoreInv'
  OBVIOUS
<1>1. ASSUME NEW j \in Jobs, Step(j) \/ Crash(j) PROVE StoreInv'
  BY <1>1, TypeStep, StartedStep, FilesFirstStep, IndexStep, TornStep, PathsStep, AloneStep,
     DirectoryStep, IntactStep, RerunStep DEF StoreInv
<1>2. CASE UNCHANGED vars
  <2>1. UNCHANGED <<plan, file, idx, tmp, data, extracted, exists, entry, pc, fd, todo, runs>>
    BY <1>2 DEF vars, storeVars, destVars, jobVars
  <2> USE <2>1 DEF T, D, Active, Alone, Apart, Full
  <2>2. TypeOK' /\ Started' /\ FilesFirst' /\ IndexAtHand'
    BY DEF StoreInv, TypeOK, Started, FilesFirst, Stored, IndexAtHand
  <2>3. TornIsOpen' /\ PathsApart' /\ AloneIsWhole'
    BY DEF StoreInv, TornIsOpen, Writer, WasKilled, PathsApart, AloneIsWhole
  <2>4. OwnDirectory'
    BY DEF StoreInv, OwnDirectory
  <2>5. StoreIntact' /\ RerunSucceeds'
    BY DEF StoreInv, StoreIntact, RerunSucceeds
  <2> QED
    BY <2>2, <2>3, <2>4, <2>5 DEF StoreInv
<1> QED
  BY <1>1, <1>2 DEF Next

LEMMA StoreInvariant == Spec => []StoreInv
BY InitStoreInv, NextStoreInv, PTL DEF Spec

(* Whoever finds an index finds the files it lists, whatever was killed    *)
(* when; and ingests that overlap leave a whole index, once all have ended *)
(* (IngestTarball, writeIndex).                                            *)
THEOREM IndexStaysWhole == Spec => []IndexIsWhole
<1>1. StoreInv => IndexIsWhole
  <2> SUFFICES ASSUME StoreInv, \A j \in Active : pc[j] \in Ended /\ runs[j] = 1, NEW j \in Active
      PROVE  Full(T(j))
    BY DEF IndexIsWhole, StoreInv, FilesFirst, Stored
  <2>1. idx[T(j)] # NoInode /\ T(j) \in Tarballs
    BY ActiveFacts DEF StoreInv, IndexAtHand, Ended, Before, Writing
  <2>2. \A k \in Active : ~WasKilled(k) /\ pc[k] # "write"
    BY DEF WasKilled, Ended
  <2>3. data[idx[T(j)]] # "empty"
    BY <2>1, <2>2 DEF StoreInv, TornIsOpen, Writer
  <2> QED
    BY <2>1, <2>3 DEF Full, StoreInv, TypeOK
<1> QED
  BY <1>1, StoreInvariant, PTL

(* Jobs that link into directories of their own leave every stored file as *)
(* it is, for every other project on the machine (Materialize, CopyFile).  *)
THEOREM StoreStaysIntact == Spec => []StoreIntact
<1>1. StoreInv => StoreIntact
  BY DEF StoreInv
<1> QED
  BY <1>1, StoreInvariant, PTL

(* A job with a tarball and a directory of its own never fails, whatever   *)
(* was killed before it (IngestTarball, Materialize).                      *)
THEOREM RerunsSucceed == Spec => []RerunSucceeds
<1>1. StoreInv => RerunSucceeds
  BY DEF StoreInv
<1> QED
  BY <1>1, StoreInvariant, PTL

(* Where directories are apart, success at the first attempt means the     *)
(* whole package is in place (Materialize).                                *)
THEOREM SuccessIsComplete == Spec => []DoneIsComplete
<1>1. StoreInv => DoneIsComplete
  <2> SUFFICES ASSUME StoreInv, \A k \in Active : Apart(k), NEW j \in Active,
                      pc[j] = "done", runs[j] = 1, NEW c \in FilesOf[T(j)]
      PROVE  Intact(D(j), c)
    BY DEF DoneIsComplete
  <2>1. entry[D(j)][c] \in {"link", "copy"}
    BY DEF StoreInv, OwnDirectory
  <2>2. c \in Contents /\ D(j) \in Dests
    BY ActiveFacts DEF StoreInv
  <2>3. file[c] # "empty" /\ file[c] \in {"absent", "good", "empty"}
    BY <2>2 DEF StoreInv, StoreIntact, TypeOK
  <2> QED
    BY <2>1, <2>2, <2>3 DEF Intact, StoreInv, FilesFirst
<1> QED
  BY <1>1, StoreInvariant, PTL

-----------------------------------------------------------------------------
(* The packument cache: what a call answers is as new, and has the publish *)
(* times, that it must.                                                    *)

(* What a validator and a max-age say of a packument, that it is as new as  *)
(* the one they came with, is true of packument number n.                   *)
Claims(m, n) ==
  /\ m.validator # Missing => m.validator.number <= n
  /\ m.freshUntil # 0 =>
       \E c \in 1..clock : m.freshUntil = c + registry.maxAge /\ history[c] <= n
Known(m) == m \notin {Missing, Torn}

(* The registry goes forwards, and so does its history.                     *)
HistoryRises == \A c, d \in 1..clock : c <= d => history[c] <= history[d]

(* An entry that is still fresh was served within the max-age, and so is    *)
(* no older than what the call takes for recent.                            *)
AskedBefore(p) ==
  \A c \in 1..clock : clock < c + registry.maxAge => ask[p].recent <= history[c]

(* Nobody knows of a packument that is not published yet.                   *)
MemoryOfPast(p) == memory[p] # Missing => Claims(memory[p], published)
MetaOfPast      == Known(meta) => Claims(meta, published)

(* A call has a usable packument before it writes; and when it asks again,  *)
(* for times, it sends no validator.                                        *)
TimesAtHand(p) ==
  /\ doing[p] \in WritingFiles => memory[p] # Missing /\ Usable(p, memory[p].pack)
  /\ doing[p] = "readMeta" => read[p] # Missing
  /\ doing[p] = "send" => attempt[p].pass = 1 \/ (memory[p] # Missing /\ memory[p].validator = Missing)

(* While no two processes meet at the files, an entry in memory, and what is *)
(* on disk, is as new as its validator and its freshness say, between any   *)
(* two file operations: a body is replaced before its meta, ...             *)
MemoryIsTrue(p) == memory[p] # Missing => Claims(memory[p], memory[p].pack.number)
DiskIsTrue      == Known(meta) /\ Known(body) => Claims(meta, body.number)

(* ... by a packument that is not older than what the meta is about; ...    *)
WritesAreNewer(p) ==
  doing[p] \in WritingFiles =>
       /\ memory[p].pack.number >= ask[p].since
       /\ Known(meta) => Claims(meta, memory[p].pack.number)

(* ... and who has come half way finds the body as he read or wrote it.     *)
BodyStays(p) ==
  /\ doing[p] = "readMeta" => Known(body) /\ read[p] = body
  /\ doing[p] \in {"cutMeta", "writeMeta"} => body = memory[p].pack

AnswerIsRight(p) ==
  HasAnswer(p) =>
    /\ ~overlapped =>
         /\ answer[p].how = "registry" => answer[p].pack.number >= ask[p].since
         /\ answer[p].how = "cache" /\ ask[p].mode = "online" =>
              answer[p].pack.number >= ask[p].recent
    /\ ask[p].times => answer[p].pack.times

CallInv(p)     == AskedBefore(p) /\ MemoryOfPast(p) /\ TimesAtHand(p) /\ AnswerIsRight(p)
Undisturbed(p) == MemoryIsTrue(p) /\ WritesAreNewer(p) /\ BodyStays(p)

CacheInv ==
  /\ CacheTypeOK /\ HistoryRises /\ MetaOfPast
  /\ \A p \in Process : CallInv(p)
  /\ ~overlapped => DiskIsTrue /\ \A p \in Process : Undisturbed(p)


USE CacheAssumption, RegistriesAssumption, NothingAssumption

--------------------------------------------------------------------------------
(* An entry has the fields of a meta, and neither is nothing.               *)
LEMMA EntryFacts ==
  /\ \A e \in Entries : e # Missing /\ Meta(e) \in Metas /\ e.pack # Missing /\ e.pack # Torn
  /\ \A m \in Metas : m # Missing /\ m # Torn
  /\ \A k \in Packs : k # Missing /\ k # Torn
  /\ NoMeta \in Metas
  BY DEF Entries, Metas, Packs, Meta, NoMeta, Validators

(* A registry's validator is of what it serves.                             *)
LEMMA ValidatorFacts ==
  ASSUME CacheTypeOK, NEW times \in BOOLEAN
  PROVE  /\ Pack(published, times) \in Packs /\ Pack(published, times).number = published
         /\ Pack(published, times).times = times
         /\ Validator(times) \in Validators
         /\ Validator(times) # Missing => Validator(times).number = published
         /\ FreshUntil \in Nat /\ registry.maxAge \in Nat
<1>1. /\ Pack(published, times) \in Packs /\ Pack(published, FALSE) \in Packs
      /\ Pack(published, times).number = published /\ Pack(published, FALSE).number = published
      /\ Pack(published, times).times = times
  BY DEF CacheTypeOK, Pack, Packs
<1>2. registry.validators \in {"none", "shared", "perForm"} /\ registry.maxAge \in Nat
  BY DEF CacheTypeOK
<1>3. Validator(times) \in {Missing, Pack(published, FALSE), Pack(published, times)}
  BY <1>2 DEF Validator
<1>4. FreshUntil \in Nat
  BY <1>2 DEF FreshUntil, CacheTypeOK
<1> QED
  BY <1>1, <1>2, <1>3, <1>4, EntryFacts DEF Validators, CacheTypeOK

(* What a call is about when it asks is of the past.                        *)
LEMMA RecentFacts ==
  ASSUME CacheTypeOK, HistoryRises
  PROVE  /\ Recent \in 1..published
         /\ \A c \in 1..clock : clock < c + registry.maxAge => Recent <= history[c]
<1>1. registry.maxAge \in Nat /\ clock \in Nat \ {0} /\ history \in [1..clock -> 1..published] /\ published \in Nat \ {0}
  BY DEF CacheTypeOK
<1>2. CASE registry.maxAge = 0
  BY <1>1, <1>2 DEF Recent
<1>3. CASE registry.maxAge # 0 /\ registry.maxAge > clock
  BY <1>1, <1>3 DEF Recent
<1>4. CASE registry.maxAge # 0 /\ ~(registry.maxAge > clock)
  <2> DEFINE b == clock - registry.maxAge + 1
  <2>1. b \in 1..clock /\ Recent = history[b]
    BY <1>1, <1>4 DEF Recent
  <2>2. \A c \in 1..clock : clock < c + registry.maxAge => b <= c
    BY <1>1, <1>4
  <2> QED
    BY <1>1, <2>1, <2>2 DEF HistoryRises
<1> QED
  BY <1>2, <1>3, <1>4

(* A claim of the past is true of what is served, and of newer packuments.  *)
LEMMA ClaimsOfNewer ==
  ASSUME CacheTypeOK, NEW m, m.validator \in Validators, NEW n \in Nat, NEW k \in Nat, n <= k, Claims(m, n)
  PROVE  Claims(m, k)
  BY DEF CacheTypeOK, Claims, Validators, Packs

(* What a fresh entry claims of its packument is what a call may expect.    *)
LEMMA FreshIsRecent ==
  ASSUME CacheTypeOK, NEW p \in Process, AskedBefore(p), NEW e \in Entries,
         Claims(e, e.pack.number), IsFresh(e)
  PROVE  e.pack.number >= ask[p].recent
<1>1. PICK c \in 1..clock : e.freshUntil = c + registry.maxAge /\ history[c] <= e.pack.number
  BY DEF Claims, IsFresh
<1>2. clock < c + registry.maxAge /\ e.freshUntil \in Nat /\ e.pack.number \in Nat
  BY <1>1 DEF IsFresh, Entries, Packs
<1>3. ask[p].recent <= history[c] /\ history[c] \in Nat /\ ask[p].recent \in Nat
  BY <1>1, <1>2 DEF AskedBefore, CacheTypeOK
<1> QED
  BY <1>1, <1>2, <1>3

LEMMA InitCache == CacheInit => CacheInv
<1> SUFFICES ASSUME CacheInit PROVE CacheInv
  OBVIOUS
<1>1. CacheTypeOK
  <2>1. NoAsk \in [mode : Modes, times : BOOLEAN, since : 1..1, recent : 1..1]
    BY DEF NoAsk, Modes
  <2>2. NotTried \in [pass : 0..2, try : 0..MaxAttempts]
    BY DEF NotTried
  <2>3. Failed \in [pack : Validators, how : {"cache", "registry", "error"}]
    BY DEF Failed, Answered, Validators
  <2>4. /\ published = 1 /\ clock = 1
        /\ published \in 1..MaxPublished /\ clock \in Nat \ {0} /\ calls \in Nat
    BY DEF CacheInit
  <2>5. /\ ask \in [Process -> [mode : Modes, times : BOOLEAN, since : 1..published, recent : 1..published]]
        /\ attempt \in [Process -> [pass : 0..2, try : 0..MaxAttempts]]
        /\ answer \in [Process -> [pack : Validators, how : {"cache", "registry", "error"}]]
        /\ memory \in [Process -> Entries \cup {Missing}]
        /\ read \in [Process -> Validators]
        /\ doing \in [Process -> {"idle", "look", "send"} \cup Reading \cup WritingFiles]
    BY <2>1, <2>2, <2>3, <2>4 DEF CacheInit, Validators
  <2>7. history \in [1..clock -> 1..published]
    <3>1. history = [t \in 1..1 |-> 1] /\ clock = 1 /\ published = 1
      BY DEF CacheInit
    <3> QED
      BY <3>1
  <2>8. overlapped \in BOOLEAN
    BY DEF CacheInit
  <2>6. registry \in Registries /\ body \in Packs \cup {Missing, Torn} /\ meta \in Metas \cup {Missing, Torn}
    BY DEF CacheInit
  <2> QED
    BY <2>4, <2>5, <2>6, <2>7, <2>8 DEF CacheTypeOK
<1>2. HistoryRises /\ MetaOfPast /\ DiskIsTrue
  BY DEF CacheInit, HistoryRises, MetaOfPast, DiskIsTrue, Known
<1>3. ASSUME NEW p \in Process PROVE CallInv(p) /\ Undisturbed(p)
  BY DEF CacheInit, NoAsk, Failed, Answered, HasAnswer, WritingFiles, CallInv, AskedBefore, MemoryOfPast, TimesAtHand, AnswerIsRight,
         Undisturbed, MemoryIsTrue, WritesAreNewer, BodyStays
<1> QED
  BY <1>1, <1>2, <1>3 DEF CacheInv

--------------------------------------------------------------------------------
(* A step of one process leaves the registry and the others alone, and it   *)
(* meets nobody at the files, or it says so.                                *)
LEMMA ProcessFrame ==
  ASSUME CacheTypeOK, NEW p \in Process, ProcessStep(p) \/ Restart(p)
  PROVE  /\ UNCHANGED env /\ (overlapped => overlapped') /\ overlapped' \in BOOLEAN
         /\ UNCHANGED disk \/ overlapped' = Overwrites(p)
         /\ \A q \in Process \ {p} :
              /\ memory'[q] = memory[q] /\ doing'[q] = doing[q] /\ ask'[q] = ask[q]
              /\ read'[q] = read[q] /\ attempt'[q] = attempt[q] /\ answer'[q] = answer[q]
<1> USE DEF CacheTypeOK, disk, local, Return, Fetch, Overlaps, Overwrites
<1>1. CASE Ask(p)
  BY <1>1 DEF Ask
<1>2. CASE LookInMemory(p)
  <2>1. UNCHANGED <<env, disk, memory, ask, overlapped>>
    BY <1>2 DEF LookInMemory
  <2>2. (\E result : Return(p, result)) \/ Fetch(p) \/ (doing' = [doing EXCEPT ![p] = "readBody"] /\ UNCHANGED <<read, attempt, answer>>)
    BY <1>2 DEF LookInMemory
  <2> QED
    BY <2>1, <2>2
<1>3. CASE ReadMeta(p)
  BY <1>3 DEF ReadMeta
<1>4. CASE Transient(p) \/ Refused(p)
  BY <1>4 DEF Transient, Refused
<1>5. CASE NotModified(p)
  <2>1. UNCHANGED <<env, disk, ask, overlapped>> /\ \A q \in Process \ {p} : memory'[q] = memory[q]
    BY <1>5 DEF NotModified
  <2>2. \/ \E result : Return(p, result)
        \/ attempt' = [attempt EXCEPT ![p] = [pass |-> 2, try |-> 1]] /\ UNCHANGED <<doing, read, answer>>
        \/ doing' = [doing EXCEPT ![p] = "cutBody"] /\ UNCHANGED <<read, attempt, answer>>
    BY <1>5 DEF NotModified
  <2> QED
    BY <2>1, <2>2
<1>6. CASE Sent(p)
  BY <1>6 DEF Sent
<1>7. CASE CutBody(p) \/ WriteBody(p)
  BY <1>7 DEF CutBody, WriteBody
<1>8. CASE CutMeta(p) \/ WriteMeta(p) \/ WriteFails(p)
  BY <1>8 DEF CutMeta, WriteMeta, WriteFails
<1>9. CASE Restart(p)
  BY <1>9 DEF Restart
<1>10. CASE ReadBody(p)
  <2>1. UNCHANGED <<env, disk, memory, ask>> /\ overlapped' = Overlaps(p)
    BY <1>10 DEF ReadBody
  <2>2. Fetch(p) \/ (/\ doing' = [doing EXCEPT ![p] = "readMeta"] /\ read' = [read EXCEPT ![p] = body]
                     /\ UNCHANGED <<attempt, answer>>)
    BY <1>10 DEF ReadBody
  <2> QED
    BY <2>1, <2>2
<1> QED
  BY <1>1, <1>2, <1>3, <1>4, <1>5, <1>6, <1>7, <1>8, <1>9, <1>10 DEF ProcessStep

(* So what is said of the others stays.                                     *)
LEMMA OthersStay ==
  ASSUME CacheInv, NEW p \in Process, ProcessStep(p) \/ Restart(p), NEW q \in Process \ {p}
  PROVE  CallInv(q)' /\ (~overlapped' => Undisturbed(q)')
<1>1. /\ UNCHANGED env /\ (overlapped => overlapped')
      /\ memory'[q] = memory[q] /\ doing'[q] = doing[q] /\ ask'[q] = ask[q]
      /\ read'[q] = read[q] /\ attempt'[q] = attempt[q] /\ answer'[q] = answer[q]
  BY ProcessFrame DEF CacheInv
<1>2. UNCHANGED disk \/ overlapped' \/ ~Using(q)
  BY ProcessFrame DEF CacheInv, Overwrites
<1>3. CallInv(q) /\ (~overlapped => Undisturbed(q))
  BY DEF CacheInv
<1>4. AskedBefore(q)' /\ TimesAtHand(q)' /\ AnswerIsRight(q)'
  BY <1>1, <1>3 DEF CallInv, AskedBefore, TimesAtHand, AnswerIsRight, HasAnswer, Idle, Usable, env
<1>5. MemoryOfPast(q)' /\ (~overlapped' => MemoryIsTrue(q)')
  BY <1>1, <1>3 DEF CallInv, MemoryOfPast, Undisturbed, MemoryIsTrue, Claims, env
<1>6. ASSUME ~overlapped' PROVE WritesAreNewer(q)' /\ BodyStays(q)'
  <2>1. CASE ~Using(q)
    BY <1>1, <2>1 DEF Using, Reading, WritesAreNewer, BodyStays, WritingFiles
  <2>2. CASE UNCHANGED disk
    BY <1>1, <1>3, <1>6, <2>2 DEF disk, env, Undisturbed, WritesAreNewer, BodyStays, Claims, Known
  <2> QED
    BY <1>2, <1>6, <2>1, <2>2
<1> QED
  BY <1>4, <1>5, <1>6 DEF CallInv, Undisturbed

--------------------------------------------------------------------------------
(* Each step keeps the types.                                               *)
LEMMA CacheTypeStep ==
  ASSUME CacheTypeOK, HistoryRises, NEW p \in Process, ProcessStep(p) \/ Restart(p),
         \A q \in Process : TimesAtHand(q)
  PROVE  CacheTypeOK'
<1> DEFINE PCs == {"idle", "look", "send"} \cup Reading \cup WritingFiles
           Asks == [mode : Modes, times : BOOLEAN, since : 1..published, recent : 1..published]
           Tries == [pass : 0..2, try : 0..MaxAttempts]
           Answers == [pack : Validators, how : {"cache", "registry", "error"}]
           Locals == /\ doing' \in [Process -> PCs] /\ read' \in [Process -> Validators]
                     /\ attempt' \in [Process -> Tries] /\ answer' \in [Process -> Answers]
<1>1. /\ registry \in Registries /\ published \in 1..MaxPublished /\ clock \in Nat \ {0}
      /\ history \in [1..clock -> 1..published]
      /\ body \in Packs \cup {Missing, Torn} /\ meta \in Metas \cup {Missing, Torn}
      /\ memory \in [Process -> Entries \cup {Missing}] /\ doing \in [Process -> PCs]
      /\ ask \in [Process -> Asks] /\ read \in [Process -> Validators]
      /\ attempt \in [Process -> Tries] /\ answer \in [Process -> Answers]
      /\ calls \in Nat /\ overlapped \in BOOLEAN
  BY DEF CacheTypeOK
<1>2. UNCHANGED env /\ overlapped' \in BOOLEAN
  BY ProcessFrame
<1>3. SUFFICES /\ body' \in Packs \cup {Missing, Torn} /\ meta' \in Metas \cup {Missing, Torn}
               /\ memory' \in [Process -> Entries \cup {Missing}] /\ ask' \in [Process -> Asks]
               /\ calls' \in Nat /\ Locals
  BY <1>1, <1>2 DEF CacheTypeOK, env
<1>4. /\ \A k \in Validators, how \in {"cache", "registry", "error"} : Answered(k, how) \in Answers
      /\ NotTried \in Tries /\ Missing \in Validators /\ NoAsk \in Asks
      /\ [pass |-> 1, try |-> 1] \in Tries /\ [pass |-> 2, try |-> 1] \in Tries
  BY <1>1 DEF Answered, NotTried, Validators, NoAsk, Modes
<1> HIDE DEF Answers, Tries, PCs, Asks
<1>5. ASSUME NEW result \in Answers, Return(p, result) PROVE Locals
  BY <1>1, <1>4, <1>5 DEF Return, PCs
<1>6. Failed \in Answers /\ \A k \in Packs : k \in Validators
  BY <1>4 DEF Failed, Validators
<1>7. ASSUME Fetch(p) PROVE Locals
  <2>1. CASE ask[p].mode = "offline"
    BY <1>5, <1>6, <1>7, <2>1 DEF Fetch
  <2>2. CASE ask[p].mode # "offline"
    <3>1. /\ doing' = [doing EXCEPT ![p] = "send"] /\ attempt' = [attempt EXCEPT ![p] = [pass |-> 1, try |-> 1]]
          /\ read' = [read EXCEPT ![p] = Missing] /\ answer' = answer
      BY <1>7, <2>2 DEF Fetch
    <3>2. "send" \in PCs
      BY DEF PCs
    <3> QED
      BY <1>1, <1>4, <3>1, <3>2
  <2> QED
    BY <2>1, <2>2
<1>8. \A e \in Entries : e.pack \in Packs /\ e.validator \in Validators /\ e.freshUntil \in Nat /\ Meta(e) \in Metas
  BY DEF Entries, Meta, Metas
<1>10. CASE Ask(p)
  <2>1. PICK times \in BOOLEAN, mode \in Modes :
          ask' = [ask EXCEPT ![p] = [mode |-> mode, times |-> times, since |-> published, recent |-> Recent]]
    BY <1>10 DEF Ask
  <2>2. [mode |-> mode, times |-> times, since |-> published, recent |-> Recent] \in Asks
    BY <1>1, RecentFacts DEF Asks
  <2> QED
    BY <1>1, <1>6, <1>10, <2>1, <2>2 DEF Ask, disk, PCs
<1>11. CASE LookInMemory(p)
  <2>1. UNCHANGED <<disk, memory, ask, calls>>
    BY <1>11 DEF LookInMemory
  <2>2. memory[p] # Missing => Answered(memory[p].pack, "cache") \in Answers
    BY <1>1, <1>4, <1>6, <1>8
  <2>3. Locals
    BY <1>1, <1>5, <1>7, <1>11, <2>2 DEF LookInMemory, Reading, PCs
  <2> QED
    BY <1>1, <2>1, <2>3 DEF disk
<1>12. CASE ReadBody(p)
  <2>1. UNCHANGED <<disk, memory, ask, calls>>
    BY <1>12 DEF ReadBody
  <2>2. ASSUME body \in {Missing, Torn} PROVE Locals
    BY <1>7, <1>12, <2>2 DEF ReadBody
  <2>3. ASSUME body \notin {Missing, Torn} PROVE Locals
    <3>1. body \in Validators /\ "readMeta" \in PCs
      BY <1>1, <1>6, <2>3 DEF PCs, Reading
    <3>2. /\ doing' = [doing EXCEPT ![p] = "readMeta"] /\ read' = [read EXCEPT ![p] = body]
          /\ attempt' = attempt /\ answer' = answer
      BY <1>12, <2>3 DEF ReadBody
    <3> QED
      BY <1>1, <3>1, <3>2
  <2> QED
    BY <1>1, <2>1, <2>2, <2>3 DEF disk
<1>13. CASE ReadMeta(p)
  <2> DEFINE known == IF meta \in {Missing, Torn} THEN NoMeta ELSE meta
             found == Entry(read[p], known.validator, known.freshUntil)
  <2>1. known \in Metas /\ read[p] \in Packs
    BY <1>1, <1>13, EntryFacts DEF ReadMeta, TimesAtHand, Validators
  <2>2. found \in Entries /\ found.pack \in Packs
    BY <2>1 DEF Entry, Entries, Metas
  <2>3. UNCHANGED <<disk, ask, calls>> /\ memory' = [memory EXCEPT ![p] = found]
    BY <1>13 DEF ReadMeta
  <2>4. Answered(found.pack, "cache") \in Answers
    BY <1>4, <1>6, <2>2
  <2>5. Fetch(p) \/ Return(p, Answered(found.pack, "cache"))
    BY <1>13 DEF ReadMeta
  <2>6. Locals
    <3> HIDE DEF found, known
    <3> QED
      BY <1>5, <1>7, <2>4, <2>5
  <2> QED
    BY <1>1, <2>2, <2>3, <2>6 DEF disk
<1>14. CASE Transient(p)
  <2>1. UNCHANGED <<disk, memory, ask, calls>>
    BY <1>14 DEF Transient
  <2>2. attempt[p].try < MaxAttempts => [attempt[p] EXCEPT !.try = @ + 1] \in Tries
    <3>1. attempt[p] \in Tries
      BY <1>1
    <3> QED
      BY <3>1 DEF Tries
  <2>3. CASE attempt[p].try < MaxAttempts
    <3>1. attempt' = [attempt EXCEPT ![p] = [attempt[p] EXCEPT !.try = @ + 1]] /\ UNCHANGED <<doing, read, answer>>
      BY <1>14, <2>3 DEF Transient
    <3> QED
      BY <1>1, <2>1, <2>2, <2>3, <3>1 DEF disk
  <2>4. CASE ~(attempt[p].try < MaxAttempts)
    <3>1. Return(p, Failed)
      BY <1>14, <2>4 DEF Transient
    <3> QED
      BY <1>1, <1>5, <1>6, <2>1, <3>1 DEF disk
  <2> QED
    BY <2>3, <2>4
<1>15. CASE Refused(p)
  BY <1>1, <1>5, <1>6, <1>15 DEF Refused, disk
<1>16. CASE NotModified(p)
  <2>1. memory[p] \in Entries /\ UNCHANGED <<disk, ask, calls>> /\ FreshUntil \in Nat
    BY <1>1, <1>16, ValidatorFacts DEF NotModified, Matches, disk
  <2>2. /\ [memory[p] EXCEPT !.validator = Missing] \in Entries
        /\ [memory[p] EXCEPT !.freshUntil = FreshUntil] \in Entries
    BY <2>1, <1>4 DEF Entries
  <2>3. memory' \in [Process -> Entries \cup {Missing}]
    BY <1>1, <1>16, <2>2 DEF NotModified
  <2>4. Answered(memory[p].pack, "registry") \in Answers
    BY <1>4, <1>6, <1>8, <2>1
  <2>5. Locals
    <3>1. CASE Return(p, Answered(memory[p].pack, "registry"))
      BY <1>5, <2>4, <3>1
    <3>2. CASE attempt' = [attempt EXCEPT ![p] = [pass |-> 2, try |-> 1]] /\ UNCHANGED <<doing, read, answer>>
      BY <1>1, <1>4, <3>2
    <3>3. CASE doing' = [doing EXCEPT ![p] = "cutBody"] /\ UNCHANGED <<read, attempt, answer>>
      <4>1. "cutBody" \in PCs
        BY DEF WritingFiles, PCs
      <4> QED
        BY <1>1, <3>3, <4>1
    <3> QED
      BY <1>16, <3>1, <3>2, <3>3 DEF NotModified
  <2> QED
    BY <1>1, <2>1, <2>3, <2>5 DEF disk
<1>17. CASE Sent(p)
  <2>1. Entry(Pack(published, ask[p].times), Validator(ask[p].times), FreshUntil) \in Entries
    BY <1>1, ValidatorFacts DEF Entry, Entries, Asks
  <2> QED
    BY <1>1, <1>17, <2>1 DEF Sent, disk, local, WritingFiles, PCs
<1>18. ASSUME doing[p] \in WritingFiles
       PROVE  memory[p] \in Entries /\ Answered(memory[p].pack, "registry") \in Answers
  BY <1>1, <1>4, <1>6, <1>8, <1>18 DEF TimesAtHand
<1>19. CASE CutBody(p) \/ CutMeta(p)
  BY <1>1, <1>19 DEF CutBody, CutMeta, local, disk, WritingFiles, PCs
<1>20. CASE WriteBody(p)
  <2>1. Locals
    BY <1>1, <1>5, <1>18, <1>20 DEF WriteBody, WritingFiles, PCs
  <2> QED
    BY <1>1, <1>8, <1>18, <1>20, <2>1 DEF WriteBody, WritingFiles
<1>21. CASE WriteMeta(p)
  BY <1>1, <1>5, <1>8, <1>18, <1>21 DEF WriteMeta, WritingFiles
<1>22. CASE WriteFails(p)
  BY <1>1, <1>5, <1>18, <1>22 DEF WriteFails, disk
<1>23. CASE Restart(p)
  BY <1>1, <1>4, <1>5, <1>6, <1>23 DEF Restart, disk
<1> QED
  BY <1>10, <1>11, <1>12, <1>13, <1>14, <1>15, <1>16, <1>17, <1>19, <1>20, <1>21, <1>22, <1>23 DEF ProcessStep

--------------------------------------------------------------------------------
(* What a step of a process has to keep, beside the types and the others.   *)
Keeps(p) ==
  /\ MetaOfPast' /\ CallInv(p)'
  /\ ~overlapped' => DiskIsTrue' /\ Undisturbed(p)'

(* A call begins: what it takes for recent is of now.                       *)
LEMMA AskKeeps == ASSUME CacheInv, NEW p \in Process, Ask(p) PROVE Keeps(p)
<1>1. /\ UNCHANGED <<env, disk, memory, overlapped>> /\ doing'[p] = "look" /\ ask'[p].recent = Recent
  BY DEF CacheInv, CacheTypeOK, Ask
<1>2. CacheTypeOK /\ HistoryRises /\ MetaOfPast /\ CallInv(p) /\ (~overlapped => DiskIsTrue /\ Undisturbed(p))
  BY DEF CacheInv
<1>3. MetaOfPast' /\ MemoryOfPast(p)' /\ (~overlapped' => DiskIsTrue' /\ MemoryIsTrue(p)')
  BY <1>1, <1>2 DEF env, disk, MetaOfPast, CallInv, MemoryOfPast, DiskIsTrue, Undisturbed, MemoryIsTrue, Claims, Known
<1>4. AskedBefore(p)'
  BY <1>1, <1>2, RecentFacts DEF env, AskedBefore
<1>5. TimesAtHand(p)' /\ WritesAreNewer(p)' /\ BodyStays(p)' /\ AnswerIsRight(p)'
  BY <1>1 DEF TimesAtHand, WritesAreNewer, BodyStays, AnswerIsRight, HasAnswer, Idle, WritingFiles
<1> QED
  BY <1>3, <1>4, <1>5 DEF Keeps, CallInv, Undisturbed

(* A step that leaves the registry, the files and the entry of the process  *)
(* alone, and returns, asks the registry, or goes on to read.               *)
LEMMA LookingKeeps ==
  ASSUME CacheInv, NEW p \in Process, UNCHANGED <<env, disk, ask>>, overlapped => overlapped',
         memory'[p] = memory[p],
         \/ doing'[p] = "idle" /\ AnswerIsRight(p)'
         \/ doing'[p] = "send" /\ attempt'[p].pass = 1
         \/ doing'[p] = "send" /\ memory[p] # Missing /\ memory[p].validator = Missing
         \/ doing'[p] = "readBody"
         \/ doing'[p] = "readMeta" /\ Known(body) /\ read'[p] = body
  PROVE  Keeps(p)
<1>2. CacheTypeOK /\ HistoryRises /\ MetaOfPast /\ CallInv(p) /\ (~overlapped => DiskIsTrue /\ Undisturbed(p))
  BY DEF CacheInv
<1>3. MetaOfPast' /\ MemoryOfPast(p)' /\ (~overlapped' => DiskIsTrue' /\ MemoryIsTrue(p)')
  BY <1>2 DEF env, disk, MetaOfPast, CallInv, MemoryOfPast, DiskIsTrue, Undisturbed, MemoryIsTrue, Claims, Known
<1>4. AskedBefore(p)'
  BY <1>2 DEF env, CallInv, AskedBefore
<1>5. TimesAtHand(p)' /\ WritesAreNewer(p)' /\ BodyStays(p)'
  BY DEF TimesAtHand, WritesAreNewer, BodyStays, WritingFiles, Known, disk
<1>6. AnswerIsRight(p)'
  BY DEF AnswerIsRight, HasAnswer, Idle
<1> QED
  BY <1>3, <1>4, <1>5, <1>6 DEF Keeps, CallInv, Undisturbed

(* A call that fails has no answer.                                         *)
LEMMA FailedKeeps ==
  ASSUME CacheTypeOK, NEW p \in Process, Return(p, Failed)
  PROVE  doing'[p] = "idle" /\ AnswerIsRight(p)'
  BY DEF CacheTypeOK, Return, Failed, Answered, AnswerIsRight, HasAnswer

LEMMA FetchKeeps ==
  ASSUME CacheTypeOK, NEW p \in Process, Fetch(p)
  PROVE  \/ doing'[p] = "idle" /\ AnswerIsRight(p)'
         \/ doing'[p] = "send" /\ attempt'[p].pass = 1
<1>1. CASE ask[p].mode = "offline"
  BY <1>1, FailedKeeps DEF Fetch
<1>2. CASE ask[p].mode # "offline"
  BY <1>2 DEF Fetch, CacheTypeOK
<1> QED
  BY <1>1, <1>2

(* An answer from the cache is usable, and fresh where that is asked for.   *)
LEMMA CachedKeeps ==
  ASSUME CacheInv, NEW p \in Process, UNCHANGED ask, overlapped => overlapped', NEW e \in Entries,
         ~overlapped' => Claims(e, e.pack.number),
         Return(p, Answered(e.pack, "cache")), ask[p].mode # "online" \/ IsFresh(e), Usable(p, e.pack)
  PROVE  doing'[p] = "idle" /\ AnswerIsRight(p)'
<1>1. doing'[p] = "idle" /\ answer'[p].pack = e.pack /\ answer'[p].how = "cache"
  BY DEF CacheInv, CacheTypeOK, Return, Answered
<1>2. ~overlapped' /\ ask[p].mode = "online" => e.pack.number >= ask[p].recent
  BY FreshIsRecent DEF CacheInv, CallInv
<1> QED
  BY <1>1, <1>2 DEF AnswerIsRight, Usable

LEMMA LookInMemoryKeeps == ASSUME CacheInv, NEW p \in Process, LookInMemory(p) PROVE Keeps(p)
<1>1. UNCHANGED <<env, disk, memory, ask, overlapped>> /\ CacheTypeOK
  BY DEF LookInMemory, CacheInv
<1>2. CASE memory[p] = Missing
  BY <1>1, <1>2, LookingKeeps DEF LookInMemory, CacheTypeOK
<1>3. CASE memory[p] # Missing
  <2>1. memory[p] \in Entries /\ (~overlapped' => Claims(memory[p], memory[p].pack.number))
    BY <1>1, <1>3 DEF CacheTypeOK, CacheInv, Undisturbed, MemoryIsTrue
  <2>2. \/ Fetch(p)
        \/ /\ ask[p].mode = "preferOffline" \/ IsFresh(memory[p])
           /\ Usable(p, memory[p].pack) /\ Return(p, Answered(memory[p].pack, "cache"))
    BY <1>3 DEF LookInMemory
  <2>3. CASE Fetch(p)
    BY <1>1, <2>3, FetchKeeps, LookingKeeps
  <2>4. CASE ~Fetch(p)
    <3>1. doing'[p] = "idle" /\ AnswerIsRight(p)'
      BY <1>1, <2>1, <2>2, <2>4, CachedKeeps
    <3> QED
      BY <1>1, <3>1, LookingKeeps
  <2> QED
    BY <2>3, <2>4
<1> QED
  BY <1>2, <1>3

LEMMA ReadBodyKeeps == ASSUME CacheInv, NEW p \in Process, ReadBody(p) PROVE Keeps(p)
<1>1. UNCHANGED <<env, disk, memory, ask>> /\ CacheTypeOK /\ (overlapped => overlapped')
  BY DEF ReadBody, CacheInv, Overlaps
<1>2. CASE body \in {Missing, Torn}
  BY <1>1, <1>2, FetchKeeps, LookingKeeps DEF ReadBody
<1>3. CASE body \notin {Missing, Torn}
  <2>1. doing'[p] = "readMeta" /\ Known(body) /\ read'[p] = body
    BY <1>1, <1>3 DEF ReadBody, CacheTypeOK, Known
  <2> QED
    BY <1>1, <2>1, LookingKeeps
<1> QED
  BY <1>2, <1>3

LEMMA ReadMetaKeeps == ASSUME CacheInv, NEW p \in Process, ReadMeta(p) PROVE Keeps(p)
<1> DEFINE known == IF meta \in {Missing, Torn} THEN NoMeta ELSE meta
           e == Entry(read[p], known.validator, known.freshUntil)
<1>1. UNCHANGED <<env, disk, ask>> /\ CacheTypeOK /\ (overlapped => overlapped') /\ doing[p] = "readMeta"
  BY DEF ReadMeta, CacheInv, Overlaps
<1>2. MetaOfPast /\ CallInv(p) /\ (~overlapped => DiskIsTrue /\ Undisturbed(p))
  BY DEF CacheInv
<1>3. known \in Metas /\ read[p] \in Packs
  BY <1>1, <1>2, EntryFacts DEF CacheTypeOK, CallInv, TimesAtHand, Validators
<1>4. /\ e \in Entries /\ e.pack = read[p]
      /\ e.validator = known.validator /\ e.freshUntil = known.freshUntil
  BY <1>3 DEF Entry, Entries, Metas
<1>5. \A n : Known(meta) \/ Claims(NoMeta, n)
  BY DEF Claims, NoMeta
<1>6. Claims(e, published) /\ (~overlapped => Claims(e, e.pack.number))
  <2>1. CASE Known(meta)
    BY <1>1, <1>2, <1>4, <2>1 DEF Known, MetaOfPast, DiskIsTrue, Undisturbed, BodyStays, Claims
  <2>2. CASE ~Known(meta)
    BY <1>4, <1>5, <2>2 DEF Known, Claims
  <2> QED
    BY <2>1, <2>2
<1>7. memory' = [memory EXCEPT ![p] = e] /\ memory'[p] = e
  BY <1>1 DEF ReadMeta, CacheTypeOK
<1>8. \/ Fetch(p)
      \/ (ask[p].mode # "online" \/ IsFresh(e)) /\ Usable(p, e.pack) /\ Return(p, Answered(e.pack, "cache"))
  BY DEF ReadMeta
<1> HIDE DEF e, known
<1>9. MetaOfPast' /\ MemoryOfPast(p)' /\ (~overlapped' => DiskIsTrue' /\ MemoryIsTrue(p)')
  BY <1>1, <1>2, <1>6, <1>7 DEF env, disk, MetaOfPast, MemoryOfPast, DiskIsTrue, MemoryIsTrue, Claims, Known
<1>10. AskedBefore(p)'
  BY <1>1, <1>2 DEF env, CallInv, AskedBefore
<1>11. \/ doing'[p] = "idle" /\ AnswerIsRight(p)'
       \/ doing'[p] = "send" /\ attempt'[p].pass = 1
  BY <1>1, <1>4, <1>6, <1>8, FetchKeeps, CachedKeeps
<1>12. TimesAtHand(p)' /\ WritesAreNewer(p)' /\ BodyStays(p)' /\ AnswerIsRight(p)'
  BY <1>11 DEF TimesAtHand, WritesAreNewer, BodyStays, WritingFiles, AnswerIsRight, HasAnswer, Idle
<1> QED
  BY <1>9, <1>10, <1>12 DEF Keeps, CallInv, Undisturbed

(* A request that fails, and one that fails for good.                       *)
LEMMA FailingKeeps == ASSUME CacheInv, NEW p \in Process, Transient(p) \/ Refused(p) PROVE Keeps(p)
<1>1. UNCHANGED <<env, disk, memory, ask, overlapped>> /\ CacheTypeOK /\ doing[p] = "send"
  BY DEF Transient, Refused, CacheInv
<1>2. CASE Return(p, Failed)
  BY <1>1, <1>2, FailedKeeps, LookingKeeps
<1>3. CASE attempt' = [attempt EXCEPT ![p].try = @ + 1] /\ UNCHANGED <<doing, read, answer>>
  <2>1. attempt'[p].pass = attempt[p].pass /\ doing'[p] = "send" /\ memory'[p] = memory[p]
    BY <1>1, <1>3 DEF CacheTypeOK
  <2>2. attempt[p].pass = 1 \/ (memory[p] # Missing /\ memory[p].validator = Missing)
    BY <1>1 DEF CacheInv, CallInv, TimesAtHand
  <2> QED
    BY <1>1, <2>1, <2>2, LookingKeeps
<1> QED
  BY <1>2, <1>3 DEF Transient, Refused

(* An entry that the registry has just sent or confirmed goes to disk.      *)
LEMMA ArrivedKeeps ==
  ASSUME CacheInv, NEW p \in Process, UNCHANGED <<env, disk, ask, overlapped>>,
         NEW e \in Entries, memory'[p] = e, doing'[p] = "cutBody", Usable(p, e.pack),
         Claims(e, published), ~overlapped => published <= e.pack.number
  PROVE  Keeps(p)
<1>1. CacheTypeOK /\ HistoryRises /\ MetaOfPast /\ CallInv(p) /\ (~overlapped => DiskIsTrue /\ Undisturbed(p))
  BY DEF CacheInv
<1>2. e # Missing /\ e.pack.number \in Nat /\ published \in Nat /\ e.validator \in Validators
  BY <1>1, EntryFacts DEF CacheTypeOK, Entries, Packs
<1>3. ~overlapped => /\ Claims(e, e.pack.number)
                     /\ Known(meta) => Claims(meta, e.pack.number)
  <2>1. Known(meta) => meta.validator \in Validators /\ Claims(meta, published)
    BY <1>1 DEF CacheTypeOK, Known, Metas, MetaOfPast
  <2> QED
    BY <1>1, <1>2, <2>1, ClaimsOfNewer
<1>4. MetaOfPast' /\ (~overlapped' => DiskIsTrue')
  BY <1>1 DEF env, disk, MetaOfPast, DiskIsTrue, Claims, Known
<1>5. MemoryOfPast(p)' /\ (~overlapped' => MemoryIsTrue(p)')
  BY <1>3 DEF env, MemoryOfPast, MemoryIsTrue, Claims
<1>6. AskedBefore(p)'
  BY <1>1 DEF env, CallInv, AskedBefore
<1>7. ~overlapped' => WritesAreNewer(p)' /\ BodyStays(p)'
  <2>1. ask[p].since \in Nat /\ ask[p].since <= published
    BY <1>1 DEF CacheTypeOK
  <2>2. ~overlapped => e.pack.number >= ask[p].since
    BY <1>2, <2>1
  <2> QED
    BY <1>3, <2>2 DEF env, disk, WritesAreNewer, BodyStays, Claims, Known
<1>8. TimesAtHand(p)' /\ AnswerIsRight(p)'
  BY <1>2 DEF TimesAtHand, Usable, AnswerIsRight, HasAnswer, Idle
<1> QED
  BY <1>4, <1>5, <1>6, <1>7, <1>8 DEF Keeps, CallInv, Undisturbed

LEMMA SentKeeps == ASSUME CacheInv, NEW p \in Process, Sent(p) PROVE Keeps(p)
<1> DEFINE e == Entry(Pack(published, ask[p].times), Validator(ask[p].times), FreshUntil)
<1>1. CacheTypeOK /\ UNCHANGED <<env, disk, ask, overlapped>> /\ memory'[p] = e /\ doing'[p] = "cutBody"
  BY DEF CacheInv, CacheTypeOK, Sent, local
<1>2. ask[p].times \in BOOLEAN
  BY <1>1 DEF CacheTypeOK
<1>3. /\ e \in Entries /\ e.pack.number = published /\ e.pack.times = ask[p].times
      /\ e.validator = Validator(ask[p].times) /\ e.freshUntil = FreshUntil
  BY <1>1, <1>2, ValidatorFacts DEF Entry, Entries
<1>4. FreshUntil # 0 => FreshUntil = clock + registry.maxAge
  BY DEF FreshUntil
<1>5. clock \in 1..clock /\ history[clock] <= published /\ published \in Nat
  BY <1>1 DEF CacheTypeOK
<1> HIDE DEF e
<1>6. Claims(e, published)
  BY <1>1, <1>2, <1>3, <1>4, <1>5, ValidatorFacts DEF Claims
<1> QED
  BY <1>1, <1>3, <1>5, <1>6, ArrivedKeeps DEF Usable

(* A 304 that is taken: the entry is what the registry serves, or newer     *)
(* than it once was; and it is usable, for the second request sends none.   *)
LEMMA NotModifiedKeeps == ASSUME CacheInv, NEW p \in Process, NotModified(p) PROVE Keeps(p)
<1>0. CacheTypeOK /\ CallInv(p) /\ (~overlapped => Undisturbed(p))
  BY DEF CacheInv
<1>1. /\ UNCHANGED <<env, disk, ask, overlapped>> /\ doing[p] = "send"
      /\ memory[p] \in Entries /\ memory[p] # Missing /\ memory[p].validator # Missing
      /\ memory[p].validator = Validator(ask[p].times) /\ ask[p].times \in BOOLEAN
  BY <1>0 DEF NotModified, Matches, CacheTypeOK
<1>2. memory[p].validator.number = published /\ published \in Nat /\ memory[p].pack.number \in Nat
  <2>1. memory[p].validator.number = published
    BY <1>0, <1>1, ValidatorFacts
  <2> QED
    BY <1>0, <1>1, <2>1 DEF CacheTypeOK, Entries, Packs
<1>3. ~overlapped => published <= memory[p].pack.number
  BY <1>0, <1>1, <1>2 DEF Undisturbed, MemoryIsTrue, Claims
<1>4. attempt[p].pass = 1
  BY <1>0, <1>1 DEF CallInv, TimesAtHand
<1>5. CASE ask[p].times /\ ~memory[p].pack.times
  <2> DEFINE e == [memory[p] EXCEPT !.validator = Missing]
  <2>1. memory'[p] = e /\ attempt'[p].pass = 2 /\ doing'[p] = "send"
    BY <1>0, <1>1, <1>4, <1>5 DEF NotModified, CacheTypeOK
  <2>2. e \in Entries /\ e # Missing /\ e.validator = Missing /\ e.pack = memory[p].pack /\ e.freshUntil = memory[p].freshUntil
    BY <1>1, EntryFacts DEF Entries, Validators
  <2>3. MetaOfPast' /\ (~overlapped' => DiskIsTrue')
    BY <1>1 DEF CacheInv, env, disk, MetaOfPast, DiskIsTrue, Claims, Known
  <2> HIDE DEF e
  <2>4. MemoryOfPast(p)' /\ (~overlapped' => MemoryIsTrue(p)')
    BY <1>0, <1>1, <2>1, <2>2 DEF env, CallInv, MemoryOfPast, Undisturbed, MemoryIsTrue, Claims
  <2>5. AskedBefore(p)'
    BY <1>0, <1>1 DEF env, CallInv, AskedBefore
  <2>6. TimesAtHand(p)' /\ WritesAreNewer(p)' /\ BodyStays(p)' /\ AnswerIsRight(p)'
    BY <2>1, <2>2 DEF TimesAtHand, WritesAreNewer, BodyStays, WritingFiles, AnswerIsRight, HasAnswer, Idle
  <2> QED
    BY <2>3, <2>4, <2>5, <2>6 DEF Keeps, CallInv, Undisturbed
<1>6. CASE ~(ask[p].times /\ ~memory[p].pack.times) /\ FreshUntil # 0
  <2> DEFINE e == [memory[p] EXCEPT !.freshUntil = FreshUntil]
  <2>1. memory'[p] = e /\ doing'[p] = "cutBody"
    BY <1>0, <1>1, <1>6 DEF NotModified, CacheTypeOK
  <2>2. /\ e \in Entries /\ e.pack = memory[p].pack
        /\ e.validator = memory[p].validator /\ e.freshUntil = FreshUntil
    BY <1>0, <1>1, ValidatorFacts DEF Entries
  <2>3. FreshUntil = clock + registry.maxAge
    BY <1>6 DEF FreshUntil
  <2>4. clock \in 1..clock /\ history[clock] <= published
    BY <1>0 DEF CacheTypeOK
  <2> HIDE DEF e
  <2>5. Claims(e, published)
    BY <1>2, <2>2, <2>3, <2>4 DEF Claims
  <2> QED
    BY <1>1, <1>3, <1>6, <2>1, <2>2, <2>5, ArrivedKeeps DEF Usable
<1>7. CASE ~(ask[p].times /\ ~memory[p].pack.times) /\ FreshUntil = 0
  <2>1. Return(p, Answered(memory[p].pack, "registry")) /\ UNCHANGED memory
    BY <1>7 DEF NotModified
  <2>2. doing'[p] = "idle" /\ answer'[p].pack = memory[p].pack /\ answer'[p].how = "registry"
    BY <1>0, <2>1 DEF CacheTypeOK, Return, Answered
  <2>3. ask[p].since \in Nat /\ ask[p].since <= published
    BY <1>0 DEF CacheTypeOK
  <2>4. ~overlapped => memory[p].pack.number >= ask[p].since
    BY <1>2, <1>3, <2>3
  <2>5. AnswerIsRight(p)'
    BY <1>1, <1>7, <2>2, <2>4 DEF AnswerIsRight
  <2> QED
    BY <1>1, <2>1, <2>2, <2>5, LookingKeeps
<1> QED
  BY <1>5, <1>6, <1>7

(* What is written is the answer, too.                                      *)
LEMMA WrittenKeeps ==
  ASSUME CacheInv, NEW p \in Process, doing[p] \in WritingFiles, UNCHANGED <<memory, ask>>, overlapped => overlapped',
         Return(p, Answered(memory[p].pack, "registry"))
  PROVE  doing'[p] = "idle" /\ AnswerIsRight(p)'
<1>1. doing'[p] = "idle" /\ answer'[p].pack = memory[p].pack /\ answer'[p].how = "registry"
  BY DEF CacheInv, CacheTypeOK, Return, Answered
<1>2. Usable(p, memory[p].pack) /\ (~overlapped => memory[p].pack.number >= ask[p].since)
  BY DEF CacheInv, CallInv, TimesAtHand, Undisturbed, WritesAreNewer
<1> QED
  BY <1>1, <1>2 DEF AnswerIsRight, Usable

(* A write leaves a body that is as new as the meta beside it, or one that  *)
(* does not parse, and so does a write that fails.                          *)
LEMMA WriteKeeps ==
  ASSUME CacheInv, NEW p \in Process,
         CutBody(p) \/ WriteBody(p) \/ CutMeta(p) \/ WriteMeta(p) \/ WriteFails(p)
  PROVE  Keeps(p)
<1>0. CacheTypeOK /\ MetaOfPast /\ CallInv(p) /\ (~overlapped => DiskIsTrue /\ Undisturbed(p))
  BY DEF CacheInv
<1>1. UNCHANGED <<env, memory, ask>> /\ (overlapped => overlapped') /\ doing[p] \in WritingFiles
  <2>1. UNCHANGED <<env, memory, ask>>
    BY DEF CutBody, WriteBody, CutMeta, WriteMeta, WriteFails, local
  <2>2. overlapped => overlapped'
    BY ProcessFrame, <1>0 DEF ProcessStep
  <2>3. doing[p] \in WritingFiles
    BY DEF CutBody, WriteBody, CutMeta, WriteMeta, WriteFails, WritingFiles
  <2> QED
    BY <2>1, <2>2, <2>3
<1>2. /\ memory[p] \in Entries /\ memory[p] # Missing /\ Usable(p, memory[p].pack)
      /\ Known(memory[p].pack) /\ Known(Meta(memory[p]))
  BY <1>0, <1>1, EntryFacts DEF CallInv, TimesAtHand, CacheTypeOK, Known
<1>3. AskedBefore(p)' /\ MemoryOfPast(p)' /\ (~overlapped' => MemoryIsTrue(p)')
  BY <1>0, <1>1 DEF env, CallInv, AskedBefore, MemoryOfPast, Undisturbed, MemoryIsTrue, Claims
<1>4. MetaOfPast'
  <2>1. meta' \in {meta, Torn, Meta(memory[p])}
    BY DEF CutBody, WriteBody, CutMeta, WriteMeta, WriteFails, disk
  <2> QED
    BY <1>0, <1>1, <1>2, <2>1 DEF env, MetaOfPast, CallInv, MemoryOfPast, Claims, Known, Meta
<1>5. ASSUME ~overlapped' PROVE DiskIsTrue'
  <2>1. MemoryIsTrue(p) /\ WritesAreNewer(p) /\ BodyStays(p) /\ DiskIsTrue
    BY <1>0, <1>1, <1>5 DEF Undisturbed
  <2>2. CASE CutBody(p) \/ CutMeta(p)
    BY <2>2 DEF CutBody, CutMeta, DiskIsTrue, Known
  <2>3. CASE WriteBody(p)
    BY <1>1, <2>1, <2>3 DEF WriteBody, env, WritesAreNewer, DiskIsTrue, Claims, Known
  <2>4. CASE WriteMeta(p)
    BY <1>1, <1>2, <2>1, <2>4 DEF WriteMeta, env, BodyStays, MemoryIsTrue, DiskIsTrue, Claims, Meta
  <2>5. CASE WriteFails(p)
    BY <1>1, <2>1, <2>5 DEF WriteFails, env, disk, DiskIsTrue, Claims, Known
  <2> QED
    BY <2>2, <2>3, <2>4, <2>5
<1>6. \/ doing'[p] = "idle" /\ AnswerIsRight(p)'
      \/ /\ doing'[p] \in WritingFiles /\ (Known(meta') => meta' = meta)
         /\ doing'[p] \in {"cutMeta", "writeMeta"} =>
                 \/ body' = memory[p].pack
                 \/ doing[p] \in {"cutMeta", "writeMeta"} /\ body' = body
  <2>1. CASE CutBody(p) \/ CutMeta(p)
    BY <1>0, <2>1 DEF CutBody, CutMeta, CacheTypeOK, WritingFiles, Known
  <2>2. CASE Return(p, Answered(memory[p].pack, "registry"))
    BY <1>1, <2>2, WrittenKeeps
  <2>3. CASE WriteBody(p) /\ ~Return(p, Answered(memory[p].pack, "registry"))
    BY <1>0, <2>3 DEF WriteBody, CacheTypeOK, WritingFiles
  <2> QED
    BY <2>1, <2>2, <2>3 DEF WriteMeta, WriteFails
<1>7. TimesAtHand(p)' /\ AnswerIsRight(p)'
  BY <1>1, <1>2, <1>6 DEF TimesAtHand, Usable, WritingFiles, AnswerIsRight, HasAnswer, Idle
<1>8. ASSUME ~overlapped' PROVE WritesAreNewer(p)' /\ BodyStays(p)'
  <2>1. WritesAreNewer(p) /\ BodyStays(p)
    BY <1>0, <1>1, <1>8 DEF Undisturbed
  <2> QED
    BY <1>1, <1>6, <2>1 DEF env, WritesAreNewer, BodyStays, Claims, WritingFiles
<1> QED
  BY <1>3, <1>4, <1>5, <1>7, <1>8 DEF Keeps, CallInv, Undisturbed

(* A process that is killed leaves the files as they are.                   *)
LEMMA RestartKeeps == ASSUME CacheInv, NEW p \in Process, Restart(p) PROVE Keeps(p)
<1>0. CacheTypeOK /\ MetaOfPast /\ (~overlapped => DiskIsTrue)
  BY DEF CacheInv
<1>1. /\ UNCHANGED <<env, disk, overlapped>> /\ memory'[p] = Missing /\ ask'[p] = NoAsk
      /\ doing'[p] = "idle" /\ answer'[p] = Failed
  BY <1>0 DEF Restart, CacheTypeOK, Return
<1>2. MetaOfPast' /\ (~overlapped' => DiskIsTrue')
  BY <1>0, <1>1 DEF env, disk, MetaOfPast, DiskIsTrue, Claims, Known
<1>3. AskedBefore(p)'
  BY <1>0, <1>1 DEF env, CacheTypeOK, AskedBefore, NoAsk
<1>4. MemoryOfPast(p)' /\ TimesAtHand(p)' /\ AnswerIsRight(p)' /\ Undisturbed(p)'
  BY <1>1 DEF MemoryOfPast, TimesAtHand, AnswerIsRight, HasAnswer, Failed, Answered,
     Undisturbed, MemoryIsTrue, WritesAreNewer, BodyStays, WritingFiles
<1> QED
  BY <1>2, <1>3, <1>4 DEF Keeps, CallInv

--------------------------------------------------------------------------------
(* The registry and the clock go on: what was claimed stays true, and the   *)
(* new tick begins with what every call takes for recent, or newer.         *)
LEMMA EnvKeeps == ASSUME CacheInv, Publish \/ Tick PROVE CacheInv'
<1>1. /\ UNCHANGED <<registry, body, meta, memory, doing, ask, read, attempt, answer, calls, overlapped>>
      /\ CacheTypeOK /\ published' \in Nat /\ clock' \in Nat \ {0} /\ published <= published' /\ clock <= clock'
      /\ published' \in 1..MaxPublished
  <2>1. CacheTypeOK /\ published \in 1..MaxPublished /\ clock \in Nat \ {0}
    BY DEF CacheInv, CacheTypeOK
  <2>2. CASE Publish
    BY <2>1, <2>2 DEF Publish, local, disk
  <2>3. CASE Tick
    BY <2>1, <2>3 DEF Tick, local, disk
  <2> QED
    BY <2>2, <2>3
<1>2. /\ history' \in [1..clock' -> 1..published']
      /\ \A c \in 1..clock : c \in 1..clock' /\ history'[c] = history[c]
      /\ \A c \in 1..clock' : c \in 1..clock \/ history'[c] = published
  <2>1. history \in [1..clock -> 1..published] /\ clock \in Nat \ {0} /\ published \in Nat \ {0}
    BY <1>1 DEF CacheTypeOK
  <2>2. CASE Publish
    BY <1>1, <2>1, <2>2 DEF Publish
  <2>3. CASE Tick
    BY <1>1, <2>1, <2>3 DEF Tick
  <2> QED
    BY <2>2, <2>3
<1>3. CacheTypeOK'
  <2>1. /\ published \in Nat /\ published' \in Nat /\ published <= published'
        /\ ask \in [Process -> [mode : Modes, times : BOOLEAN, since : 1..published, recent : 1..published]]
    BY <1>1 DEF CacheTypeOK
  <2>2. ask \in [Process -> [mode : Modes, times : BOOLEAN, since : 1..published', recent : 1..published']]
    BY <2>1
  <2> QED
    BY <1>1, <1>2, <2>2 DEF CacheTypeOK
<1>4. HistoryRises'
  <2>1. \A c \in 1..clock : history[c] <= published
    BY <1>1 DEF CacheTypeOK
  <2>2. \A c, d \in 1..clock : c <= d => history[c] <= history[d]
    BY DEF CacheInv, HistoryRises
  <2>3. published \in Nat /\ clock \in Nat /\ clock' \in Nat
    BY <1>1 DEF CacheTypeOK
  <2> SUFFICES ASSUME NEW c \in 1..clock', NEW d \in 1..clock', c <= d PROVE history'[c] <= history'[d]
    BY DEF HistoryRises
  <2>4. CASE d \in 1..clock
    <3>1. c \in 1..clock
      BY <2>3, <2>4
    <3> QED
      BY <1>2, <2>2, <2>4, <3>1
  <2>5. CASE d \notin 1..clock
    <3>1. history'[d] = published
      BY <1>2, <2>5
    <3>2. CASE c \in 1..clock
      BY <1>2, <2>1, <3>1, <3>2
    <3>3. CASE c \notin 1..clock
      BY <1>2, <2>3, <3>1, <3>3
    <3> QED
      BY <3>2, <3>3
  <2> QED
    BY <2>4, <2>5
<1>5. ASSUME NEW m, m.validator \in Validators, NEW n \in Nat, NEW k \in Nat, n <= k, Claims(m, n)
      PROVE  /\ m.validator # Missing => m.validator.number <= k
             /\ m.freshUntil # 0 =>
                  \E c \in 1..clock' : m.freshUntil = c + registry' .maxAge /\ history'[c] <= k
  <2>1. Claims(m, k)
    BY <1>1, <1>5, ClaimsOfNewer
  <2> QED
    BY <1>1, <1>2, <2>1 DEF Claims
<1>6. published \in Nat
  BY <1>1 DEF CacheTypeOK
<1>7. MetaOfPast' /\ (DiskIsTrue => DiskIsTrue')
  <2>1. Known(meta) => meta.validator \in Validators
    BY <1>1 DEF CacheTypeOK, Known, Metas
  <2>2. Known(body) => body.number \in Nat
    BY <1>1 DEF CacheTypeOK, Known, Packs
  <2> QED
    BY <1>1, <1>5, <1>6, <2>1, <2>2 DEF CacheInv, MetaOfPast, DiskIsTrue, Claims, Known
<1>8. ASSUME NEW p \in Process PROVE CallInv(p)' /\ (Undisturbed(p) => Undisturbed(p)')
  <2>0. CallInv(p) /\ ask[p].recent <= published
    BY <1>1 DEF CacheInv, CacheTypeOK
  <2>1. memory[p] # Missing => memory[p].validator \in Validators /\ memory[p].pack.number \in Nat
    <3>1. memory[p] \in Entries \cup {Missing}
      BY <1>1 DEF CacheTypeOK
    <3> QED
      BY <3>1 DEF Entries, Packs
  <2>2. AskedBefore(p)'
    <3> SUFFICES ASSUME NEW c \in 1..clock', clock' < c + registry.maxAge PROVE ask[p].recent <= history'[c]
      BY <1>1 DEF AskedBefore
    <3>1. CASE c \in 1..clock
      <4>1. clock < c + registry.maxAge
        BY <1>1 DEF CacheTypeOK
      <4> QED
        BY <1>2, <2>0, <3>1, <4>1 DEF CallInv, AskedBefore
    <3> QED
      BY <1>2, <2>0, <3>1
  <2>3. MemoryOfPast(p)' /\ (MemoryIsTrue(p) => MemoryIsTrue(p)')
    BY <1>1, <1>5, <1>6, <2>0, <2>1 DEF CallInv, MemoryOfPast, MemoryIsTrue, Claims
  <2>4. TimesAtHand(p)' /\ AnswerIsRight(p)' /\ (BodyStays(p) => BodyStays(p)')
    BY <1>1, <2>0 DEF CallInv, TimesAtHand, AnswerIsRight, HasAnswer, Idle, BodyStays, Known, Usable
  <2>5. WritesAreNewer(p) => WritesAreNewer(p)'
    <3>1. Known(meta) => meta.validator \in Validators
      BY <1>1 DEF CacheTypeOK, Known, Metas
    <3>2. doing[p] \in WritingFiles => memory[p].pack.number \in Nat
      BY <2>0, <2>1 DEF CallInv, TimesAtHand
    <3> QED
      BY <1>1, <1>5, <3>1, <3>2 DEF WritesAreNewer, Claims, Known
  <2> QED
    BY <2>2, <2>3, <2>4, <2>5 DEF CallInv, Undisturbed
<1> QED
  BY <1>1, <1>3, <1>4, <1>7, <1>8 DEF CacheInv

LEMMA NextCache == CacheInv /\ [CacheNext]_cacheVars => CacheInv'
<1> SUFFICES ASSUME CacheInv, [CacheNext]_cacheVars PROVE CacheInv'
  OBVIOUS
<1>1. CASE Publish \/ Tick
  BY <1>1, EnvKeeps
<1>2. ASSUME NEW p \in Process, ProcessStep(p) \/ Restart(p) PROVE CacheInv'
  <2>1. CacheTypeOK'
    BY <1>2, CacheTypeStep DEF CacheInv, CallInv
  <2>2. HistoryRises'
    BY <1>2, ProcessFrame DEF CacheInv, HistoryRises, env
  <2>3. Keeps(p)
    BY <1>2, AskKeeps, LookInMemoryKeeps, ReadBodyKeeps, ReadMetaKeeps, FailingKeeps, NotModifiedKeeps, SentKeeps,
       WriteKeeps, RestartKeeps DEF ProcessStep
  <2>4. \A q \in Process \ {p} : CallInv(q)' /\ (~overlapped' => Undisturbed(q)')
    BY <1>2, OthersStay
  <2> QED
    BY <2>1, <2>2, <2>3, <2>4 DEF CacheInv, Keeps
<1>3. CASE UNCHANGED cacheVars
  <2>1. UNCHANGED <<registry, published, history, clock, body, meta, memory, doing, ask, read, attempt, answer, calls, overlapped>>
    BY <1>3 DEF cacheVars, env, disk, local
  <2>2. CacheTypeOK' /\ HistoryRises'
    BY <2>1 DEF CacheInv, CacheTypeOK, HistoryRises
  <2>3. MetaOfPast' /\ (DiskIsTrue => DiskIsTrue')
    BY <2>1 DEF CacheInv, MetaOfPast, DiskIsTrue, Claims, Known
  <2>4. ASSUME NEW p \in Process PROVE CallInv(p)'
    <3>1. CallInv(p)
      BY DEF CacheInv
    <3> QED
      BY <2>1, <3>1 DEF CallInv, AskedBefore, MemoryOfPast, TimesAtHand, AnswerIsRight, HasAnswer, Idle, Usable, Claims
  <2>5. ASSUME NEW p \in Process, Undisturbed(p) PROVE Undisturbed(p)'
    BY <2>1, <2>5 DEF Undisturbed, MemoryIsTrue, WritesAreNewer, BodyStays, Claims, Known
  <2> QED
    BY <2>1, <2>2, <2>3, <2>4, <2>5 DEF CacheInv
<1> QED
  BY <1>1, <1>2, <1>3 DEF CacheNext

(* The invariant holds through any calls, writes, kills and publications.   *)
THEOREM CacheInvariant == CacheSpec => []CacheInv
  BY InitCache, NextCache, PTL DEF CacheSpec

(* As long as no two processes met at the files, an answer of the registry  *)
(* is no older than the call, and an online answer from the cache no older  *)
(* than the max-age allows, wherever a process was killed before            *)
(* (Client.Packument, WritePackument).                                      *)
THEOREM AnswersStayCurrent == CacheSpec => []AnswersAreCurrent
<1>1. CacheInv => AnswersAreCurrent
  BY DEF CacheInv, CallInv, AnswerIsRight, AnswersAreCurrent
<1> QED
  BY <1>1, CacheInvariant, PTL

(* A call that needs publish times gets none without, met or not            *)
(* (Client.Packument).                                                      *)
THEOREM TimesAreThere == CacheSpec => []TimesWhenRequired
<1>1. CacheInv => TimesWhenRequired
  BY DEF CacheInv, CallInv, AnswerIsRight, TimesWhenRequired
<1> QED
  BY <1>1, CacheInvariant, PTL
================================================================================
