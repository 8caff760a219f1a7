---------------------------- MODULE Resolution_proofs ---------------------------
(***************************************************************************)
(* Proofs about how dependencies are resolved and laid out: the            *)
(* breadth-first walk, the layout of its tree and the records of the trust *)
(* policy, for any registry, any graph of dependencies, and any number of  *)
(* walks; then the linker that brings a hoisted layout into node_modules.  *)
(***************************************************************************)
EXTENDS TrustedInstalls, HoistedLinker, SequenceTheorems, FiniteSetTheorems, WellFoundedInduction, TLAPS

--------------------------------------------------------------------------------
(* The maximum of a finite set of numbers.                                  *)
MaxOf(S) == CHOOSE k \in S : \A l \in S : l <= k

LEMMA MaxFacts ==
  ASSUME NEW S, IsFiniteSet(S), S \subseteq Int, S # {}
  PROVE  MaxOf(S) \in S /\ \A l \in S : l <= MaxOf(S)
<1> DEFINE UpFrom(k) == {l \in S : k <= l}
           T == {UpFrom(k) : k \in S}
<1>1. IsWellFoundedOn(StrictSubsetOrdering(S), FiniteSubsetsOf(S))
  BY FS_StrictSubsetOrderingWellFounded
<1>2. T \subseteq FiniteSubsetsOf(S) /\ T # {}
  <2>1. \A k \in S : UpFrom(k) \subseteq S /\ IsFiniteSet(UpFrom(k))
    BY FS_Subset
  <2> QED
    BY <2>1 DEF FiniteSubsetsOf
<1>3. \E U \in T : \A V \in T : ~ (<<V, U>> \in StrictSubsetOrdering(S))
  <2> HIDE DEF T
  <2> QED
    BY <1>1, <1>2, WFMin
<1>4. PICK k \in S : \A V \in T : ~ (<<V, UpFrom(k)>> \in StrictSubsetOrdering(S))
  BY <1>3
<1>5. ASSUME NEW l \in S, ~(l <= k) PROVE FALSE
  <2>1. UpFrom(l) \subseteq UpFrom(k) /\ UpFrom(l) # UpFrom(k)
    <3>1. k \in Int /\ l \in Int /\ k < l
      BY <1>5
    <3>2. k \in UpFrom(k) /\ k \notin UpFrom(l)
      BY <3>1
    <3>3. \A m \in S : l <= m => k <= m
      BY <3>1
    <3> QED
      BY <3>2, <3>3
  <2>2. UpFrom(l) \in T /\ UpFrom(l) \in SUBSET S /\ UpFrom(k) \in SUBSET S
    OBVIOUS
  <2>3. <<UpFrom(l), UpFrom(k)>> \in StrictSubsetOrdering(S)
    <3> HIDE DEF UpFrom
    <3> QED
      BY <2>1, <2>2 DEF StrictSubsetOrdering
  <2> QED
    BY <1>4, <2>2, <2>3
<1>6. \E m \in S : \A l \in S : l <= m
  BY <1>5
<1> QED
  BY <1>6 DEF MaxOf

LEMMA MaxIs ==
  ASSUME NEW S, S \subseteq Int, NEW k \in S, \A l \in S : l <= k
  PROVE  MaxOf(S) = k
<1>1. MaxOf(S) \in S /\ \A l \in S : l <= MaxOf(S)
  BY DEF MaxOf
<1>2. k <= MaxOf(S) /\ MaxOf(S) <= k /\ k \in Int /\ MaxOf(S) \in Int
  BY <1>1
<1> QED
  BY <1>2

(* The depths of the directories on the way from p up that hold n, in a     *)
(* tree of the paths D, and what Node's lookup finds there.                 *)
HeldIn(D, p, n)  == {k \in 0..Len(p) : Append(SubSeq(p, 1, k), n) \in D}
FoundIn(D, p, n) == Append(SubSeq(p, 1, MaxOf(HeldIn(D, p, n))), n)

LEMMA SameLookup ==
  ASSUME NEW p, NEW n
  PROVE  /\ Holders(p, n) = HeldIn(DOMAIN tree, p, n)
         /\ Visible(p, n) <=> HeldIn(DOMAIN tree, p, n) # {}
         /\ NearestAt(p, n) = FoundIn(DOMAIN tree, p, n)
         /\ Nearest(p, n) = tree[FoundIn(DOMAIN tree, p, n)]
<1>1. Holders(p, n) = HeldIn(DOMAIN tree, p, n)
  BY DEF Holders, HeldIn
<1>2. Deepest(p, n) = MaxOf(HeldIn(DOMAIN tree, p, n))
  BY <1>1 DEF Deepest, MaxOf
<1> QED
  BY <1>1, <1>2 DEF Visible, NearestAt, Nearest, FoundIn

NodePaths == Seq(Names)

LEMMA PathFacts ==
  ASSUME NEW p \in NodePaths
  PROVE  /\ Len(p) \in Nat /\ SubSeq(p, 1, Len(p)) = p /\ SubSeq(p, 1, 0) = <<>>
         /\ \A k \in 0..Len(p) : SubSeq(p, 1, k) \in NodePaths /\ Len(SubSeq(p, 1, k)) = k
         /\ \A k \in 0..Len(p) : \A j \in 0..k : SubSeq(SubSeq(p, 1, k), 1, j) = SubSeq(p, 1, j)
<1>1. Len(p) \in Nat
  BY DEF NodePaths
<1>2. \A k \in 0..Len(p) : SubSeq(p, 1, k) \in NodePaths /\ Len(SubSeq(p, 1, k)) = k
  BY <1>1 DEF NodePaths
<1>3. SubSeq(p, 1, Len(p)) = p /\ SubSeq(p, 1, 0) = <<>>
  BY <1>1 DEF NodePaths
<1>4. ASSUME NEW k \in 0..Len(p), NEW j \in 0..k PROVE SubSeq(SubSeq(p, 1, k), 1, j) = SubSeq(p, 1, j)
  BY <1>1, <1>2 DEF NodePaths
<1> QED
  BY <1>1, <1>2, <1>3, <1>4

LEMMA AppendFacts ==
  ASSUME NEW p \in NodePaths, NEW n \in Names
  PROVE  /\ Append(p, n) \in NodePaths /\ Len(Append(p, n)) = Len(p) + 1
         /\ Append(p, n)[Len(p) + 1] = n /\ Last(Append(p, n)) = n
         /\ \A k \in 0..Len(p) : SubSeq(Append(p, n), 1, k) = SubSeq(p, 1, k)
         /\ \A q \in NodePaths : \A m \in Names : Append(p, n) = Append(q, m) => p = q /\ n = m
<1>1. Len(p) \in Nat /\ Append(p, n) \in NodePaths /\ Len(Append(p, n)) = Len(p) + 1 /\ Append(p, n)[Len(p) + 1] = n
  BY DEF NodePaths
<1>2. \A k \in 0..Len(p) : SubSeq(Append(p, n), 1, k) = SubSeq(p, 1, k)
  BY <1>1 DEF NodePaths
<1>3. ASSUME NEW q \in NodePaths, NEW m \in Names, Append(p, n) = Append(q, m) PROVE p = q /\ n = m
  BY <1>3 DEF NodePaths
<1> QED
  BY <1>1, <1>2, <1>3 DEF Last

(* A place belongs to one directory and one name.                           *)
LEMMA AppendOnce ==
  ASSUME NEW p \in NodePaths, NEW n \in Names, NEW q \in NodePaths, NEW m \in Names, Append(p, n) = Append(q, m)
  PROVE  p = q /\ n = m
BY DEF NodePaths

(* What is held, by a tree with a package more.                             *)
LEMMA HeldFacts ==
  ASSUME NEW D, NEW p \in NodePaths, NEW n
  PROVE  /\ IsFiniteSet(HeldIn(D, p, n)) /\ HeldIn(D, p, n) \subseteq Int
         /\ HeldIn(D, p, n) # {} => /\ MaxOf(HeldIn(D, p, n)) \in HeldIn(D, p, n)
                                    /\ \A l \in HeldIn(D, p, n) : l <= MaxOf(HeldIn(D, p, n))
                                    /\ FoundIn(D, p, n) \in D
<1>1. HeldIn(D, p, n) \subseteq 0..Len(p) /\ Len(p) \in Nat
  BY PathFacts DEF HeldIn
<1>2. IsFiniteSet(HeldIn(D, p, n)) /\ HeldIn(D, p, n) \subseteq Int
  <2>1. IsFiniteSet(0..Len(p))
    BY <1>1, FS_Interval
  <2>2. IsFiniteSet(HeldIn(D, p, n))
    BY <1>1, <2>1, FS_Subset
  <2> QED
    BY <1>1, <2>2
<1>3. ASSUME HeldIn(D, p, n) # {}
      PROVE  /\ MaxOf(HeldIn(D, p, n)) \in HeldIn(D, p, n)
             /\ \A l \in HeldIn(D, p, n) : l <= MaxOf(HeldIn(D, p, n))
  BY <1>2, <1>3, MaxFacts
<1>4. ASSUME HeldIn(D, p, n) # {} PROVE FoundIn(D, p, n) \in D
  BY <1>3, <1>4 DEF FoundIn, HeldIn
<1> QED
  BY <1>2, <1>3, <1>4

(* A package in p's own directory is the one found from p.                  *)
LEMMA OwnFirst ==
  ASSUME NEW D, NEW p \in NodePaths, NEW n \in Names, Append(p, n) \in D
  PROVE  HeldIn(D, p, n) # {} /\ FoundIn(D, p, n) = Append(p, n)
<1>1. Len(p) \in Nat /\ SubSeq(p, 1, Len(p)) = p
  BY PathFacts
<1>2. Len(p) \in HeldIn(D, p, n) /\ \A l \in HeldIn(D, p, n) : l <= Len(p)
  <2>1. Append(SubSeq(p, 1, Len(p)), n) \in D
    BY <1>1
  <2> QED
    BY <1>1, <2>1 DEF HeldIn
<1>3. MaxOf(HeldIn(D, p, n)) = Len(p)
  BY <1>2, HeldFacts, MaxIs
<1> QED
  BY <1>1, <1>2, <1>3 DEF FoundIn

(* A package that comes in under t changes nothing for a lookup of another  *)
(* name, or one that does not pass t, or when t is the root, the last place *)
(* where a lookup looks.                                                    *)
SameFound(D, x, p, n) == FoundIn(D \cup {x}, p, n) = FoundIn(D, p, n)
Passes(p, t) == Len(t) <= Len(p) /\ SubSeq(p, 1, Len(t)) = t

LEMMA StillFound ==
  ASSUME NEW D, NEW t \in NodePaths, NEW m \in Names, NEW p \in NodePaths, NEW n \in Names,
         HeldIn(D, p, n) # {},
         t = Root \/ n # m \/ ~Passes(p, t)
  PROVE  /\ HeldIn(D \cup {Append(t, m)}, p, n) # {}
         /\ SameFound(D, Append(t, m), p, n)
<1> DEFINE D2 == D \cup {Append(t, m)}
           k == MaxOf(HeldIn(D, p, n))
<1>1. k \in HeldIn(D, p, n) /\ (\A l \in HeldIn(D, p, n) : l <= k) /\ k \in Nat
  <2>1. k \in HeldIn(D, p, n) /\ (\A l \in HeldIn(D, p, n) : l <= k)
    BY HeldFacts
  <2>2. HeldIn(D, p, n) \subseteq Nat
    BY DEF HeldIn
  <2> QED
    BY <2>1, <2>2
<1>2. k \in HeldIn(D2, p, n)
  BY <1>1 DEF HeldIn
<1>3. ASSUME NEW l \in HeldIn(D2, p, n) PROVE l <= k
  <2>1. l \in 0..Len(p) /\ SubSeq(p, 1, l) \in NodePaths /\ Len(SubSeq(p, 1, l)) = l /\ Len(p) \in Nat
    BY PathFacts DEF HeldIn
  <2>2. CASE Append(SubSeq(p, 1, l), n) \in D
    BY <1>1, <2>1, <2>2 DEF HeldIn
  <2>3. CASE Append(SubSeq(p, 1, l), n) = Append(t, m)
    <3>1. SubSeq(p, 1, l) = t /\ n = m
      <4>1. \A q \in NodePaths : \A x \in Names : Append(t, m) = Append(q, x) => t = q /\ m = x
        BY AppendFacts
      <4> QED
        BY <2>1, <2>3, <4>1
    <3>2. l = Len(t)
      BY <2>1, <3>1
    <3>3. Passes(p, t)
      BY <2>1, <3>1, <3>2 DEF Passes
    <3>4. l = 0
      BY <3>1, <3>2, <3>3 DEF Root
    <3> QED
      BY <1>1, <3>4
  <2> QED
    BY <2>2, <2>3 DEF HeldIn
<1>4. MaxOf(HeldIn(D2, p, n)) = k
  <2> HIDE DEF k, D2
  <2> QED
    BY <1>2, <1>3, HeldFacts, MaxIs
<1> QED
  BY <1>2, <1>4 DEF FoundIn, SameFound

--------------------------------------------------------------------------------
(* A walk, told by the tree t, the dependencies D and what is left to do:   *)
(* a slot <<p, l>> stands for the l-th dependency of the node p.            *)
Instances == [name : Names, ver : Versions \cup {NoVersion}, src : Sources \cup {NoSource}]

Grown(t) ==
  /\ DOMAIN t \subseteq NodePaths /\ Root \notin DOMAIN t
  /\ \A p \in DOMAIN t :
       /\ t[p] \in Instances /\ t[p].name = Last(p)
       /\ t[p].src = NoSource => t[p].ver \in Versions
       /\ \A k \in 1..Len(p) : SubSeq(p, 1, k) \in DOMAIN t

NodesOf(t) == DOMAIN t \cup {Root}
KeyAt(t, p) == IF p = Root THEN RootInstance ELSE Key(t[p])
Known(t, D) == D \in [DOMAIN D -> Declared] /\ \A p \in NodesOf(t) : KeyAt(t, p) \in DOMAIN D
DepsIn(t, D, p) == D[KeyAt(t, p)]
Slots(t, D) == {s \in NodesOf(t) \X (Nat \ {0}) : s[2] <= Len(DepsIn(t, D, s[1]))}
Wanted(t, D, s) == DepsIn(t, D, s[1])[s[2]]

(* The proper ancestors of a node.                                          *)
Under(p) == {SubSeq(p, 1, k) : k \in 0..(Len(p) - 1)}

(* Where Finds, Resolves, Twins and what EdgesResolve says come to.         *)
FindsIn(t, from, p, d) ==
  HeldIn(DOMAIN t, from, d.name) # {} /\ Meets(t[FoundIn(DOMAIN t, from, d.name)], Effective(p, d))
AboveIn(t, p, d) == p # Root /\ FindsIn(t, SubSeq(p, 1, Len(p) - 1), p, d)
Counts(p, d) == Effective(p, d).kind \in {"range", "exotic"}
FirstSlot(t, D, s) == \A k \in 1..(s[2] - 1) : Wanted(t, D, <<s[1], k>>).name # Wanted(t, D, s).name
TwinFound(t, D, s) ==
  \E r \in Slots(t, D) :
    /\ r[1] = s[1] /\ Wanted(t, D, r).name = Wanted(t, D, s).name
    /\ Counts(r[1], Wanted(t, D, r)) /\ FindsIn(t, r[1], r[1], Wanted(t, D, r))
Held(t, D, s) ==
  \/ FindsIn(t, s[1], s[1], Wanted(t, D, s))
  \/ TwinFound(t, D, s) /\ (FirstSlot(t, D, s) => AboveIn(t, s[1], Wanted(t, D, s)))

(* Of a node's dependencies the first are done and the rest are open.  A    *)
(* node none of whose ancestors is done has not been begun.  What a node    *)
(* holds it holds for a dependency of its own that is done, apart from what *)
(* is hoisted once the root is done.                                        *)
InTurn(t, D, W) == \A s \in W : \A m \in (s[2] + 1)..Len(DepsIn(t, D, s[1])) : <<s[1], m>> \in W
AncestorsDone(t, D, W) == \A s \in Slots(t, D) \ W : \A w \in W : w[1] \notin Under(s[1])
OwnHeld(t, D, W) ==
  \A p \in NodesOf(t), n \in Names :
    Append(p, n) \in DOMAIN t /\ (p # Root \/ \E w \in W : w[1] = Root) =>
      \E s \in Slots(t, D) \ W :
        /\ s[1] = p /\ Wanted(t, D, s).name = n /\ Counts(p, Wanted(t, D, s))
        /\ Meets(t[Append(p, n)], Effective(p, Wanted(t, D, s)))
AllHeld(t, D, W) ==
  \A s \in Slots(t, D) \ W :
    ~Wanted(t, D, s).optional /\ Counts(s[1], Wanted(t, D, s)) => Held(t, D, s)

Sound(t, D, W) ==
  /\ W \subseteq Slots(t, D)
  /\ InTurn(t, D, W) /\ AncestorsDone(t, D, W) /\ OwnHeld(t, D, W) /\ AllHeld(t, D, W)

(* The slot that breadth-first order takes next.                            *)
Next1(W, s) == \A w \in W \ {s} : w[1] \notin Under(s[1]) /\ (w[1] = s[1] => s[2] < w[2])

LEMMA DeclaredFacts ==
  ASSUME NEW deps \in Declared
  PROVE  /\ Len(deps) \in Nat
         /\ \A i \in 1..Len(deps) : deps[i] \in [name : Names, spec : Specifiers, optional : BOOLEAN]
<1> DEFINE E == [name : Names, spec : Specifiers, optional : BOOLEAN]
<1>1. deps \in Seq(E)
  BY DEF Declared
<1> HIDE DEF E
<1>2. Len(deps) \in Nat /\ \A i \in 1..Len(deps) : deps[i] \in E
  BY <1>1
<1> QED
  BY <1>2 DEF E

LEMMA SlotFacts ==
  ASSUME NEW t, NEW D, Grown(t), Known(t, D), NEW s \in Slots(t, D)
  PROVE  /\ s = <<s[1], s[2]>> /\ s[1] \in NodesOf(t) /\ s[1] \in NodePaths /\ s[2] \in 1..Len(DepsIn(t, D, s[1]))
         /\ DepsIn(t, D, s[1]) \in Declared /\ Len(DepsIn(t, D, s[1])) \in Nat
         /\ Wanted(t, D, s) \in [name : Names, spec : Specifiers, optional : BOOLEAN]
<1>1. s = <<s[1], s[2]>> /\ s[1] \in NodesOf(t) /\ s[2] \in Nat \ {0} /\ s[2] <= Len(DepsIn(t, D, s[1]))
  BY DEF Slots
<1>2. s[1] \in NodePaths
  <2>1. Root \in NodePaths
    BY DEF Root, NodePaths
  <2> QED
    BY <1>1, <2>1 DEF Grown, NodesOf
<1>3. DepsIn(t, D, s[1]) \in Declared
  BY <1>1 DEF Known, DepsIn
<1>4. Len(DepsIn(t, D, s[1])) \in Nat /\ s[2] \in 1..Len(DepsIn(t, D, s[1])) /\ Wanted(t, D, s) \in [name : Names, spec : Specifiers, optional : BOOLEAN]
  BY <1>1, <1>3, DeclaredFacts DEF Wanted
<1> QED
  BY <1>1, <1>2, <1>3, <1>4

(* A slot is done without a change of the tree: it is held, or need not be. *)
LEMMA Taken ==
  ASSUME NEW t, NEW D, NEW W, NEW s \in W, Grown(t), Known(t, D), Sound(t, D, W), Next1(W, s),
         ~Wanted(t, D, s).optional /\ Counts(s[1], Wanted(t, D, s)) => Held(t, D, s)
  PROVE  Sound(t, D, W \ {s})
<1>1. W \ {s} \subseteq Slots(t, D) /\ s \in Slots(t, D)
  BY DEF Sound
<1>2. InTurn(t, D, W \ {s})
  <2> SUFFICES ASSUME NEW r \in W \ {s}, NEW m \in (r[2] + 1)..Len(DepsIn(t, D, r[1]))
               PROVE  <<r[1], m>> \in W \ {s}
    BY DEF InTurn
  <2>1. <<r[1], m>> \in W
    BY DEF Sound, InTurn
  <2>2. ASSUME <<r[1], m>> = s PROVE FALSE
    <3>1. r[1] = s[1] /\ m = s[2] /\ s[2] < r[2]
      BY <2>2 DEF Next1
    <3>2. r[2] \in Int /\ m \in Int /\ r[2] < m
      BY <1>1, SlotFacts
    <3> QED
      BY <3>1, <3>2
  <2> QED
    BY <2>1, <2>2
<1>3. AncestorsDone(t, D, W \ {s})
  BY DEF Sound, AncestorsDone, Next1
<1>4. OwnHeld(t, D, W \ {s})
  BY DEF Sound, OwnHeld
<1>5. AllHeld(t, D, W \ {s})
  BY DEF Sound, AllHeld
<1> QED
  BY <1>1, <1>2, <1>3, <1>4, <1>5 DEF Sound

(* A node that holds the package already holds it for an earlier dependency.*)
LEMMA TwinHolds ==
  ASSUME NEW t, NEW D, NEW W, NEW s \in W, Grown(t), Known(t, D), Sound(t, D, W), Next1(W, s),
         Append(s[1], Wanted(t, D, s).name) \in DOMAIN t
  PROVE  Held(t, D, s)
<1> DEFINE n == Wanted(t, D, s).name
<1>1. s \in Slots(t, D) /\ s = <<s[1], s[2]>> /\ s[1] \in NodesOf(t) /\ s[1] \in NodePaths /\ n \in Names /\ s[2] \in Int
  <2>1. s \in Slots(t, D)
    BY DEF Sound
  <2> QED
    BY <2>1, SlotFacts
<1>2. PICK r \in Slots(t, D) \ W :
        /\ r[1] = s[1] /\ Wanted(t, D, r).name = n /\ Counts(s[1], Wanted(t, D, r))
        /\ Meets(t[Append(s[1], n)], Effective(s[1], Wanted(t, D, r)))
  <2>1. s[1] # Root \/ \E w \in W : w[1] = Root
    OBVIOUS
  <2> QED
    BY <1>1, <2>1 DEF Sound, OwnHeld
<1>3. HeldIn(DOMAIN t, s[1], n) # {} /\ FoundIn(DOMAIN t, s[1], n) = Append(s[1], n)
  BY <1>1, OwnFirst
<1>4. FindsIn(t, s[1], s[1], Wanted(t, D, r))
  BY <1>2, <1>3 DEF FindsIn
<1>5. TwinFound(t, D, s)
  BY <1>2, <1>4 DEF TwinFound
<1>6. r = <<r[1], r[2]>> /\ r[2] \in 1..Len(DepsIn(t, D, r[1])) /\ Len(DepsIn(t, D, r[1])) \in Nat
  BY SlotFacts
<1>7. r[2] < s[2]
  <2>1. ASSUME r[2] = s[2] PROVE FALSE
    BY <1>1, <1>2, <1>6, <2>1
  <2>2. ASSUME s[2] < r[2] PROVE FALSE
    <3>1. r[2] \in (s[2] + 1)..Len(DepsIn(t, D, s[1]))
      BY <1>1, <1>2, <1>6, <2>2
    <3>2. <<s[1], r[2]>> \in W
      BY <3>1 DEF Sound, InTurn
    <3> QED
      BY <1>2, <1>6, <3>2
  <2> QED
    BY <1>1, <1>6, <2>1, <2>2
<1>8. ~FirstSlot(t, D, s)
  <2>1. r[2] \in 1..(s[2] - 1) /\ Wanted(t, D, <<s[1], r[2]>>).name = n
    BY <1>1, <1>2, <1>6, <1>7
  <2> QED
    BY <2>1 DEF FirstSlot
<1> QED
  BY <1>5, <1>8 DEF Held

With(t, x, inst) == [q \in DOMAIN t \cup {x} |-> IF q = x THEN inst ELSE t[q]]

(* What was found is still found when m comes in under g.                   *)
LEMMA FindsStill ==
  ASSUME NEW t, NEW g \in NodePaths, NEW m \in Names, NEW inst, Append(g, m) \notin DOMAIN t,
         NEW from \in NodePaths, NEW p, NEW d, d.name \in Names, FindsIn(t, from, p, d),
         g = Root \/ d.name # m \/ ~Passes(from, g)
  PROVE  FindsIn(With(t, Append(g, m), inst), from, p, d)
<1> DEFINE t2 == With(t, Append(g, m), inst)
           D1 == DOMAIN t
           n  == d.name
<1>1. DOMAIN t2 = D1 \cup {Append(g, m)} /\ \A q \in D1 : t2[q] = t[q]
  BY DEF With
<1>2. HeldIn(D1, from, n) # {}
  BY DEF FindsIn
<1>4. HeldIn(D1 \cup {Append(g, m)}, from, n) # {} /\ FoundIn(D1 \cup {Append(g, m)}, from, n) = FoundIn(D1, from, n)
  <2>1. n \in Names /\ (g = Root \/ n # m \/ ~Passes(from, g))
    OBVIOUS
  <2> HIDE DEF D1, n
  <2>2. g \in NodePaths /\ m \in Names /\ from \in NodePaths /\ n \in Names
    BY <2>1
  <2>3. HeldIn(D1 \cup {Append(g, m)}, from, n) # {} /\ SameFound(D1, Append(g, m), from, n)
    BY <1>2, <2>1, <2>2, StillFound
  <2> QED
    BY <2>3 DEF SameFound
<1>5. FoundIn(D1, from, n) \in D1
  BY <1>2, HeldFacts
<1>6. Meets(t[FoundIn(D1, from, n)], Effective(p, d))
  BY DEF FindsIn
<1>7. HeldIn(DOMAIN t2, from, n) # {} /\ Meets(t2[FoundIn(DOMAIN t2, from, n)], Effective(p, d))
  <2> HIDE DEF t2, D1, n
  <2>1. FoundIn(DOMAIN t2, from, n) = FoundIn(D1, from, n)
    BY <1>1, <1>4
  <2>2. t2[FoundIn(DOMAIN t2, from, n)] = t[FoundIn(D1, from, n)]
    BY <1>1, <1>5, <2>1
  <2> QED
    BY <1>1, <1>4, <1>6, <2>2
<1> QED
  BY <1>7 DEF FindsIn

(* A node without the package in its own directory finds what its parent    *)
(* finds.                                                                   *)
LEMMA FindsAbove ==
  ASSUME NEW t, NEW p \in NodePaths, p # Root, NEW d, d.name \in Names,
         Append(p, d.name) \notin DOMAIN t, FindsIn(t, p, p, d)
  PROVE  AboveIn(t, p, d)
<1> DEFINE D1 == DOMAIN t
           n  == d.name
           up == SubSeq(p, 1, Len(p) - 1)
<1>1. Len(p) \in Nat \ {0} /\ Len(p) - 1 \in 0..Len(p)
  <2>1. Len(p) \in Nat /\ Len(p) # 0
    BY DEF NodePaths, Root
  <2> QED
    BY <2>1
<1>2. up \in NodePaths /\ Len(up) = Len(p) - 1
  BY <1>1, PathFacts
<1>3. \A k \in 0..(Len(p) - 1) : SubSeq(up, 1, k) = SubSeq(p, 1, k)
  BY <1>1, PathFacts
<1>4. HeldIn(D1, p, n) = HeldIn(D1, up, n)
  <2>1. Len(p) \notin HeldIn(D1, p, n)
    BY PathFacts DEF HeldIn
  <2>2. ASSUME NEW k \in HeldIn(D1, p, n) PROVE k \in HeldIn(D1, up, n)
    <3>1. k \in 0..Len(p) /\ k # Len(p) /\ Append(SubSeq(p, 1, k), n) \in D1
      BY <2>1, <2>2 DEF HeldIn
    <3>2. k \in 0..(Len(p) - 1)
      BY <1>1, <3>1
    <3> QED
      BY <1>2, <1>3, <3>1, <3>2 DEF HeldIn
  <2>3. ASSUME NEW k \in HeldIn(D1, up, n) PROVE k \in HeldIn(D1, p, n)
    <3>1. k \in 0..(Len(p) - 1) /\ Append(SubSeq(up, 1, k), n) \in D1
      BY <1>2 DEF HeldIn
    <3>2. k \in 0..Len(p) /\ SubSeq(up, 1, k) = SubSeq(p, 1, k)
      BY <1>1, <1>3, <3>1
    <3> QED
      BY <3>1, <3>2 DEF HeldIn
  <2> QED
    BY <2>2, <2>3
<1>5. HeldIn(D1, up, n) # {}
  BY <1>4 DEF FindsIn
<1>6. FoundIn(D1, up, n) = FoundIn(D1, p, n)
  <2>1. MaxOf(HeldIn(D1, up, n)) \in 0..(Len(p) - 1)
    BY <1>2, <1>5, HeldFacts DEF HeldIn
  <2> QED
    BY <1>3, <1>4, <2>1 DEF FoundIn
<1> QED
  BY <1>5, <1>6 DEF FindsIn, AboveIn

(* An instance is placed for the slot s: as x, under g.                     *)
Placing(t, D, W, s, g, x, inst, t2, D2) ==
  /\ Grown(t) /\ Known(t, D) /\ Sound(t, D, W)
  /\ s \in W /\ Next1(W, s)
  /\ Counts(s[1], Wanted(t, D, s))
  /\ inst.name = Wanted(t, D, s).name /\ Meets(inst, Effective(s[1], Wanted(t, D, s)))
  /\ g = (IF HeldIn(DOMAIN t, s[1], inst.name) # {} THEN s[1] ELSE Root)
  /\ x = Append(g, inst.name) /\ x \notin DOMAIN t
  /\ t2 = With(t, x, inst)
  /\ \A p \in NodesOf(t) : DepsIn(t2, D2, p) = DepsIn(t, D, p)

NewSlots(t, D, x) == {r \in {x} \X (Nat \ {0}) : r[2] <= Len(DepsIn(t, D, x))}

OneMore(t, D, x, t2, D2) ==
  /\ NodesOf(t2) = NodesOf(t) \cup {x} /\ x \notin NodesOf(t)
  /\ Slots(t2, D2) = Slots(t, D) \cup NewSlots(t2, D2, x)
  /\ \A r \in Slots(t, D) : r[1] # x /\ Wanted(t2, D2, r) = Wanted(t, D, r)

LEMMA PlacingFacts ==
  ASSUME NEW t, NEW D, NEW W, NEW s, NEW g, NEW x, NEW inst, NEW t2, NEW D2,
         Placing(t, D, W, s, g, x, inst, t2, D2)
  PROVE  /\ s \in Slots(t, D) /\ s = <<s[1], s[2]>> /\ s[1] \in NodesOf(t) /\ s[1] \in NodePaths /\ s[2] \in Int
         /\ inst.name \in Names /\ g \in NodesOf(t) /\ g \in NodePaths /\ x # Root /\ x \in NodePaths
         /\ OneMore(t, D, x, t2, D2)
<1> USE DEF Placing
<1>1. s \in Slots(t, D) /\ s = <<s[1], s[2]>> /\ s[1] \in NodesOf(t) /\ s[1] \in NodePaths /\ s[2] \in Int /\ inst.name \in Names
  <2>1. s \in Slots(t, D)
    BY DEF Sound
  <2> QED
    BY <2>1, SlotFacts
<1>2. g \in NodesOf(t) /\ g \in NodePaths
  <2>1. Root \in NodePaths
    BY DEF Root, NodePaths
  <2> QED
    BY <1>1, <2>1 DEF NodesOf
<1>3. x # Root /\ x \in NodePaths
  <2>1. x \in NodePaths /\ Len(x) = Len(g) + 1 /\ Len(g) \in Nat
    BY <1>1, <1>2, AppendFacts, PathFacts
  <2>2. Len(Root) = 0
    BY DEF Root
  <2> QED
    BY <2>1, <2>2
<1>4. DOMAIN t2 = DOMAIN t \cup {x} /\ t2[x] = inst /\ \A q \in DOMAIN t : t2[q] = t[q]
  BY DEF With
<1>5. NodesOf(t2) = NodesOf(t) \cup {x} /\ x \notin NodesOf(t)
  BY <1>3, <1>4 DEF NodesOf
<1>6. \A r \in Slots(t, D) : r[1] \in NodesOf(t)
  BY SlotFacts
<1>7. \A r \in Slots(t, D) : r[1] # x /\ Wanted(t2, D2, r) = Wanted(t, D, r)
  BY <1>5, <1>6 DEF Wanted
<1>8. Slots(t2, D2) = Slots(t, D) \cup NewSlots(t2, D2, x)
  <2>1. ASSUME NEW p \in NodesOf(t2), NEW l \in Nat \ {0}
        PROVE  <<p, l>> \in Slots(t2, D2) <=> <<p, l>> \in Slots(t, D) \cup NewSlots(t2, D2, x)
    BY <1>5 DEF Slots, NewSlots
  <2>2. \A r \in Slots(t2, D2) : r = <<r[1], r[2]>> /\ r[1] \in NodesOf(t2) /\ r[2] \in Nat \ {0}
    BY DEF Slots
  <2>3. \A r \in Slots(t, D) \cup NewSlots(t2, D2, x) : r = <<r[1], r[2]>> /\ r[1] \in NodesOf(t2) /\ r[2] \in Nat \ {0}
    BY <1>5 DEF Slots, NewSlots
  <2>4. ASSUME NEW r \in Slots(t2, D2) PROVE r \in Slots(t, D) \cup NewSlots(t2, D2, x)
    <3>1. r = <<r[1], r[2]>> /\ r[1] \in NodesOf(t2) /\ r[2] \in Nat \ {0}
      BY <2>2
    <3>2. <<r[1], r[2]>> \in Slots(t2, D2) <=> <<r[1], r[2]>> \in Slots(t, D) \cup NewSlots(t2, D2, x)
      BY <2>1, <3>1
    <3>3. <<r[1], r[2]>> \in Slots(t2, D2)
      BY <3>1, Zenon
    <3>4. <<r[1], r[2]>> \in Slots(t, D) \cup NewSlots(t2, D2, x)
      BY <3>2, <3>3
    <3> QED
      BY <3>1, <3>4, Zenon
  <2>5. ASSUME NEW r \in Slots(t, D) \cup NewSlots(t2, D2, x) PROVE r \in Slots(t2, D2)
    <3>1. r = <<r[1], r[2]>> /\ r[1] \in NodesOf(t2) /\ r[2] \in Nat \ {0}
      BY <2>3
    <3>2. <<r[1], r[2]>> \in Slots(t2, D2) <=> <<r[1], r[2]>> \in Slots(t, D) \cup NewSlots(t2, D2, x)
      BY <2>1, <3>1
    <3>3. <<r[1], r[2]>> \in Slots(t, D) \cup NewSlots(t2, D2, x)
      BY <3>1, Zenon
    <3>4. <<r[1], r[2]>> \in Slots(t2, D2)
      BY <3>2, <3>3
    <3> QED
      BY <3>1, <3>4, Zenon
  <2> QED
    BY <2>4, <2>5
<1> QED
  BY <1>1, <1>2, <1>3, <1>5, <1>7, <1>8 DEF OneMore

(* What was placed for s is found for s.                                    *)
LEMMA PlacingFinds ==
  ASSUME NEW t, NEW D, NEW W, NEW s, NEW g, NEW x, NEW inst, NEW t2, NEW D2,
         Placing(t, D, W, s, g, x, inst, t2, D2)
  PROVE  FindsIn(t2, s[1], s[1], Wanted(t, D, s))
<1> DEFINE p == s[1]
           m == inst.name
<1>1. p \in NodePaths /\ m \in Names /\ g \in NodePaths /\ DOMAIN t2 = DOMAIN t \cup {x} /\ t2[x] = inst
  <2>1. s[1] \in NodePaths /\ inst.name \in Names /\ g \in NodePaths
    BY PlacingFacts
  <2>2. DOMAIN t2 = DOMAIN t \cup {x} /\ t2[x] = inst
    BY DEF Placing, With
  <2> QED
    BY <2>1, <2>2
<1> USE DEF Placing
<1>2. HeldIn(DOMAIN t2, p, m) # {} /\ FoundIn(DOMAIN t2, p, m) = x
  <2>1. CASE g = p
    <3>1. Append(p, m) \in DOMAIN t2
      BY <1>1, <2>1
    <3> HIDE DEF Placing
    <3>2. x = Append(p, m)
      BY <2>1 DEF Placing
    <3> HIDE DEF p, m
    <3> QED
      BY <1>1, <3>1, <3>2, OwnFirst
  <2>2. CASE g # p
    <3>1. HeldIn(DOMAIN t, p, m) = {} /\ g = Root
      BY <2>2
    <3>2. 0 \in HeldIn(DOMAIN t2, p, m)
      <4>1. SubSeq(p, 1, 0) = Root /\ Len(p) \in Nat
        BY <1>1, PathFacts DEF Root
      <4>2. Append(SubSeq(p, 1, 0), m) \in DOMAIN t2
        BY <1>1, <3>1, <4>1
      <4> QED
        BY <4>1, <4>2 DEF HeldIn
    <3>3. FoundIn(DOMAIN t2, p, m) \in DOMAIN t2 /\ MaxOf(HeldIn(DOMAIN t2, p, m)) \in HeldIn(DOMAIN t2, p, m)
      BY <1>1, <3>2, HeldFacts
    <3>4. FoundIn(DOMAIN t2, p, m) \notin DOMAIN t
      BY <3>1, <3>3 DEF FoundIn, HeldIn
    <3> QED
      BY <1>1, <3>2, <3>3, <3>4
  <2> QED
    BY <2>1, <2>2
<1> QED
  BY <1>1, <1>2 DEF FindsIn

(* What is done with keeps what it finds, from its parent always, and from  *)
(* itself but for the name that comes in.                                   *)
LEMMA PlacingKeeps ==
  ASSUME NEW t, NEW D, NEW W, NEW s, NEW g, NEW x, NEW inst, NEW t2, NEW D2,
         Placing(t, D, W, s, g, x, inst, t2, D2),
         NEW r \in Slots(t, D) \ W, NEW d, d.name \in Names
  PROVE  /\ FindsIn(t, r[1], r[1], d) /\ (g = Root \/ r[1] # g \/ d.name # inst.name) => FindsIn(t2, r[1], r[1], d)
         /\ AboveIn(t, r[1], d) => AboveIn(t2, r[1], d)
<1> DEFINE p == r[1]
           m == inst.name
<1>1. p \in NodePaths /\ m \in Names /\ g \in NodePaths /\ s \in W /\ x = Append(g, m) /\ t2 = With(t, x, inst)
      /\ Append(g, m) \notin DOMAIN t /\ (g = Root \/ g = s[1])
  <2>1. p \in NodePaths
    BY SlotFacts DEF Placing
  <2>2. m \in Names /\ g \in NodePaths
    BY PlacingFacts
  <2> QED
    BY <2>1, <2>2 DEF Placing
<1>2. Len(p) \in Nat /\ Len(g) \in Nat /\ SubSeq(p, 1, Len(p)) = p
  BY <1>1, PathFacts
<1>3. ASSUME g # Root, Passes(p, g), Len(g) < Len(p) PROVE FALSE
  <2>1. Len(g) \in 0..(Len(p) - 1) /\ g = SubSeq(p, 1, Len(g))
    BY <1>2, <1>3 DEF Passes
  <2>2. g \in Under(p)
    BY <2>1 DEF Under
  <2> QED
    BY <1>1, <1>3, <2>2 DEF Placing, Sound, AncestorsDone
<1>4. ASSUME FindsIn(t, p, p, d), g = Root \/ p # g \/ d.name # m PROVE FindsIn(t2, p, p, d)
  <2>1. g = Root \/ d.name # m \/ ~Passes(p, g)
    <3>1. Passes(p, g) /\ Len(g) = Len(p) => p = g
      BY <1>2 DEF Passes
    <3>2. Passes(p, g) => Len(g) <= Len(p)
      BY DEF Passes
    <3> QED
      BY <1>2, <1>3, <1>4, <3>1, <3>2
  <2> HIDE DEF p, m
  <2> QED
    BY <1>1, <1>4, <2>1, FindsStill
<1>5. ASSUME AboveIn(t, p, d) PROVE AboveIn(t2, p, d)
  <2> DEFINE up == SubSeq(p, 1, Len(p) - 1)
  <2>1. p # Root /\ FindsIn(t, up, p, d)
    BY <1>5 DEF AboveIn
  <2>2. Len(p) - 1 \in 0..Len(p)
    <3>1. Len(p) # 0
      BY <1>1, <2>1 DEF NodePaths, Root
    <3> QED
      BY <1>2, <3>1
  <2>3. up \in NodePaths /\ Len(up) = Len(p) - 1
    BY <1>1, <2>2, PathFacts
  <2>4. g = Root \/ ~Passes(up, g)
    <3>1. ASSUME Passes(up, g) PROVE Passes(p, g) /\ Len(g) < Len(p)
      <4>1. Len(g) \in 0..(Len(p) - 1) /\ SubSeq(up, 1, Len(g)) = g
        BY <1>2, <2>3, <3>1 DEF Passes
      <4>2. SubSeq(up, 1, Len(g)) = SubSeq(p, 1, Len(g))
        BY <1>1, <2>2, <4>1, PathFacts
      <4> QED
        BY <1>2, <4>1, <4>2 DEF Passes
    <3> QED
      BY <1>3, <3>1
  <2> HIDE DEF up, p, m
  <2>5. FindsIn(t2, up, p, d)
    BY <1>1, <2>1, <2>3, <2>4, FindsStill
  <2> QED
    BY <2>1, <2>5 DEF AboveIn, up
<1> QED
  BY <1>4, <1>5

LEMMA PlacingHolds ==
  ASSUME NEW t, NEW D, NEW W, NEW s, NEW g, NEW x, NEW inst, NEW t2, NEW D2,
         Placing(t, D, W, s, g, x, inst, t2, D2),
         NEW r \in Slots(t, D) \ W, Held(t, D, r)
  PROVE  Held(t2, D2, r)
<1> DEFINE p == r[1]
           d == Wanted(t, D, r)
           m == inst.name
<1>1. Grown(t) /\ Known(t, D) /\ s \in W /\ Counts(s[1], Wanted(t, D, s)) /\ Wanted(t, D, s).name = m
      /\ x \notin DOMAIN t /\ x = Append(g, m) /\ (g = Root \/ g = s[1])
  BY DEF Placing
<1>2. p \in NodesOf(t) /\ p \in NodePaths /\ d.name \in Names
  BY <1>1, SlotFacts
<1>3. s \in Slots(t, D)
  BY PlacingFacts
<1>4. \A e \in Slots(t, D) : e \in Slots(t2, D2) /\ Wanted(t2, D2, e) = Wanted(t, D, e)
  <2>1. OneMore(t, D, x, t2, D2)
    BY PlacingFacts
  <2> QED
    BY <2>1 DEF OneMore
<1>5. FirstSlot(t2, D2, r) => FirstSlot(t, D, r)
  <2>1. DepsIn(t2, D2, p) = DepsIn(t, D, p)
    BY <1>2 DEF Placing
  <2> QED
    BY <2>1 DEF FirstSlot, Wanted
<1>6. \A c : c.name \in Names /\ AboveIn(t, p, c) => AboveIn(t2, p, c)
  BY PlacingKeeps
<1>7. \A c : c.name \in Names /\ FindsIn(t, p, p, c) /\ (g = Root \/ p # g \/ c.name # m) => FindsIn(t2, p, p, c)
  BY PlacingKeeps
<1>8. CASE g = Root \/ p # g \/ d.name # m
  <2>1. FindsIn(t, p, p, d) => FindsIn(t2, p, p, d)
    BY <1>2, <1>7, <1>8
  <2>2. TwinFound(t, D, r) => TwinFound(t2, D2, r)
    <3> SUFFICES ASSUME NEW e \in Slots(t, D), e[1] = p, Wanted(t, D, e).name = d.name,
                        Counts(e[1], Wanted(t, D, e)), FindsIn(t, e[1], e[1], Wanted(t, D, e))
                 PROVE  TwinFound(t2, D2, r)
      BY DEF TwinFound
    <3>1. FindsIn(t2, e[1], e[1], Wanted(t, D, e))
      BY <1>2, <1>7, <1>8
    <3>2. Wanted(t2, D2, e) = Wanted(t, D, e) /\ e \in Slots(t2, D2) /\ Wanted(t2, D2, r) = d
      BY <1>4
    <3> QED
      BY <3>1, <3>2 DEF TwinFound
  <2>3. AboveIn(t, p, d) => AboveIn(t2, p, d)
    BY <1>2, <1>6
  <2>4. Wanted(t2, D2, r) = d
    BY <1>4
  <2> QED
    BY <1>5, <2>1, <2>2, <2>3, <2>4 DEF Held
<1>9. CASE g # Root /\ p = g /\ d.name = m
  <2>1. TwinFound(t2, D2, r)
    <3>1. FindsIn(t2, s[1], s[1], Wanted(t, D, s))
      BY PlacingFinds
    <3>2. s \in Slots(t2, D2) /\ Wanted(t2, D2, s) = Wanted(t, D, s) /\ Wanted(t2, D2, r) = d
      BY <1>3, <1>4
    <3>3. s[1] = r[1]
      BY <1>1, <1>9
    <3> QED
      BY <1>1, <1>9, <3>1, <3>2, <3>3 DEF TwinFound
  <2>2. FirstSlot(t, D, r) => AboveIn(t, p, d)
    <3>1. Append(p, d.name) \notin DOMAIN t
      BY <1>1, <1>9
    <3>2. FindsIn(t, p, p, d) => AboveIn(t, p, d)
      BY <1>2, <1>9, <3>1, FindsAbove
    <3> QED
      BY <3>2 DEF Held
  <2>3. Wanted(t2, D2, r) = d
    BY <1>4
  <2> QED
    BY <1>2, <1>5, <1>6, <2>1, <2>2, <2>3 DEF Held
<1> QED
  BY <1>8, <1>9

(* Placing an instance keeps the walk sound: what is new is open.           *)
LEMMA PlacingSound ==
  ASSUME NEW t, NEW D, NEW W, NEW s, NEW g, NEW x, NEW inst, NEW t2, NEW D2,
         Placing(t, D, W, s, g, x, inst, t2, D2)
  PROVE  Sound(t2, D2, (W \ {s}) \cup NewSlots(t2, D2, x))
<1> DEFINE New == NewSlots(t2, D2, x)
           W2  == (W \ {s}) \cup New
           m   == inst.name
<1>1. /\ Grown(t) /\ Known(t, D) /\ s \in W /\ Next1(W, s)
      /\ W \subseteq Slots(t, D) /\ InTurn(t, D, W) /\ AncestorsDone(t, D, W) /\ OwnHeld(t, D, W) /\ AllHeld(t, D, W)
      /\ Counts(s[1], Wanted(t, D, s)) /\ Wanted(t, D, s).name = m /\ Meets(inst, Effective(s[1], Wanted(t, D, s)))
      /\ x \notin DOMAIN t /\ x = Append(g, m)
      /\ g = (IF HeldIn(DOMAIN t, s[1], m) # {} THEN s[1] ELSE Root)
  BY DEF Placing, Sound
<1>2. /\ s = <<s[1], s[2]>> /\ s[1] \in NodesOf(t) /\ s[1] \in NodePaths /\ s[2] \in Int
      /\ m \in Names /\ g \in NodesOf(t) /\ g \in NodePaths /\ x # Root /\ x \in NodePaths
      /\ NodesOf(t2) = NodesOf(t) \cup {x} /\ x \notin NodesOf(t)
  <2>1. OneMore(t, D, x, t2, D2)
    BY PlacingFacts
  <2>2. /\ s = <<s[1], s[2]>> /\ s[1] \in NodesOf(t) /\ s[1] \in NodePaths /\ s[2] \in Int
        /\ m \in Names /\ g \in NodesOf(t) /\ g \in NodePaths /\ x # Root /\ x \in NodePaths
    BY PlacingFacts
  <2> QED
    BY <2>1, <2>2 DEF OneMore
<1>3. Slots(t2, D2) = Slots(t, D) \cup New /\ \A r \in Slots(t, D) : r[1] # x /\ Wanted(t2, D2, r) = Wanted(t, D, r)
  <2>1. OneMore(t, D, x, t2, D2)
    BY PlacingFacts
  <2> QED
    BY <2>1 DEF OneMore
<1>4. DOMAIN t2 = DOMAIN t \cup {x} /\ t2[x] = inst /\ \A q \in DOMAIN t : t2[q] = t[q]
  BY DEF Placing, With
<1>5. \A r \in New : r[1] = x /\ r \notin Slots(t, D)
  <2>1. \A r \in New : r[1] = x
    BY DEF NewSlots
  <2> QED
    BY <1>3, <2>1
<1>6. \A r \in Slots(t2, D2) \ W2 : r \in Slots(t, D) /\ (r \in W => r = s)
  BY <1>3
<1>7. W2 \subseteq Slots(t2, D2)
  BY <1>1, <1>3
<1>8. \A r \in Slots(t, D) : DepsIn(t2, D2, r[1]) = DepsIn(t, D, r[1]) /\ r[1] \in NodesOf(t)
  BY <1>1, SlotFacts DEF Placing
<1>9. InTurn(t2, D2, W2)
  <2> SUFFICES ASSUME NEW r \in W2, NEW l \in (r[2] + 1)..Len(DepsIn(t2, D2, r[1]))
               PROVE  <<r[1], l>> \in W2
    BY DEF InTurn
  <2>1. CASE r \in W \ {s}
    <3>1. <<r[1], l>> \in W /\ r[2] \in Nat /\ l \in Int /\ r[2] < l
      <4>1. r \in Slots(t, D) /\ r[2] \in Nat
        BY <1>1, <2>1 DEF Slots
      <4> QED
        BY <1>1, <1>8, <2>1, <4>1 DEF InTurn
    <3>2. <<r[1], l>> # s
      <4>1. r[1] = s[1] => s[2] < r[2]
        BY <1>1, <2>1 DEF Next1
      <4> QED
        BY <1>2, <3>1, <4>1
    <3> QED
      BY <3>1, <3>2
  <2>2. CASE r \in New
    <3>1. r[1] = x /\ r[2] \in Nat \ {0}
      BY <2>2 DEF NewSlots
    <3>2. l \in Nat \ {0} /\ l <= Len(DepsIn(t2, D2, x))
      <4>1. l \in Int /\ r[2] + 1 <= l /\ l <= Len(DepsIn(t2, D2, x))
        BY <3>1
      <4> QED
        BY <3>1, <4>1
    <3> QED
      BY <3>1, <3>2 DEF NewSlots
  <2> QED
    BY <2>1, <2>2
<1>10. AncestorsDone(t2, D2, W2)
  <2> SUFFICES ASSUME NEW r \in Slots(t2, D2) \ W2, NEW w \in W2, w[1] \in Under(r[1])
               PROVE  FALSE
    BY DEF AncestorsDone
  <2>1. CASE w \in W \ {s}
    <3>1. CASE r = s
      BY <1>1, <2>1, <3>1 DEF Next1
    <3>2. CASE r # s
      BY <1>1, <1>6, <2>1, <3>2 DEF AncestorsDone
    <3> QED
      BY <3>1, <3>2
  <2>2. CASE w \in New
    <3>1. r[1] \in NodesOf(t) /\ w[1] = x
      BY <1>5, <1>6, <1>8, <2>2
    <3>2. PICK k \in 0..(Len(r[1]) - 1) : x = SubSeq(r[1], 1, k)
      BY <3>1 DEF Under
    <3>3. r[1] \in NodePaths /\ Len(r[1]) \in Nat
      BY <1>1, <1>6, SlotFacts, PathFacts
    <3>4. k # 0
      <4>1. SubSeq(r[1], 1, 0) = Root
        BY <3>3, PathFacts DEF Root
      <4> QED
        BY <1>2, <3>2, <4>1
    <3>5. k \in 1..Len(r[1])
      BY <3>2, <3>3, <3>4
    <3>6. r[1] # Root
      BY <3>5 DEF Root
    <3>7. x \in DOMAIN t
      BY <1>1, <3>1, <3>2, <3>5, <3>6 DEF Grown, NodesOf
    <3> QED
      BY <1>1, <3>7
  <2> QED
    BY <2>1, <2>2
<1>11. OwnHeld(t2, D2, W2)
  <2> SUFFICES ASSUME NEW p \in NodesOf(t2), NEW n \in Names, Append(p, n) \in DOMAIN t2,
                      p # Root \/ \E w \in W2 : w[1] = Root
               PROVE  \E r \in Slots(t2, D2) \ W2 :
                        /\ r[1] = p /\ Wanted(t2, D2, r).name = n /\ Counts(p, Wanted(t2, D2, r))
                        /\ Meets(t2[Append(p, n)], Effective(p, Wanted(t2, D2, r)))
    BY DEF OwnHeld
  <2>1. p # Root \/ \E w \in W \ {s} : w[1] = Root
    BY <1>2, <1>5
  <2>2. CASE Append(p, n) \in DOMAIN t
    <3>1. p \in NodesOf(t)
      <4>1. p \in NodePaths
        <5>1. DOMAIN t \subseteq NodePaths /\ Root \in NodePaths
          BY <1>1 DEF Grown, Root, NodePaths
        <5> QED
          BY <1>2, <5>1 DEF NodesOf
      <4>2. CASE p = Root
        BY <4>2 DEF NodesOf
      <4>3. CASE p # Root
        <5>1. Len(p) \in Nat /\ Len(p) # 0
          BY <4>1, <4>3 DEF NodePaths, Root
        <5>2. Len(Append(p, n)) = Len(p) + 1 /\ SubSeq(Append(p, n), 1, Len(p)) = SubSeq(p, 1, Len(p))
          BY <4>1, <5>1, AppendFacts
        <5>3. Len(p) \in 1..Len(Append(p, n)) /\ SubSeq(Append(p, n), 1, Len(p)) = p
          BY <4>1, <5>1, <5>2, PathFacts
        <5>4. SubSeq(Append(p, n), 1, Len(p)) \in DOMAIN t
          BY <1>1, <2>2, <5>3 DEF Grown
        <5> QED
          BY <5>3, <5>4 DEF NodesOf
      <4> QED
        BY <4>2, <4>3
    <3>2. PICK r \in Slots(t, D) \ W :
            /\ r[1] = p /\ Wanted(t, D, r).name = n /\ Counts(p, Wanted(t, D, r))
            /\ Meets(t[Append(p, n)], Effective(p, Wanted(t, D, r)))
      BY <1>1, <2>1, <2>2, <3>1 DEF OwnHeld
    <3>3. r \in Slots(t2, D2) \ W2
      BY <1>3, <1>5
    <3> QED
      BY <1>3, <1>4, <2>2, <3>2, <3>3
  <2>3. CASE Append(p, n) = x
    <3>1. p = g /\ n = m
      <4>1. p \in NodePaths
        <5>1. DOMAIN t \subseteq NodePaths /\ Root \in NodePaths
          BY <1>1 DEF Grown, Root, NodePaths
        <5> QED
          BY <1>2, <5>1 DEF NodesOf
      <4>2. \A q \in NodePaths : \A y \in Names : Append(g, m) = Append(q, y) => g = q /\ m = y
        BY <1>2, AppendOnce
      <4> QED
        BY <1>1, <2>3, <4>1, <4>2
    <3>2. p = s[1]
      <4>1. SUFFICES ASSUME p # s[1] PROVE FALSE
        OBVIOUS
      <4>2. p = Root /\ s[1] # Root
        BY <1>1, <3>1, <4>1
      <4>3. Root \in Under(s[1])
        <5>1. Len(s[1]) \in Nat /\ Len(s[1]) # 0
          BY <1>2, <4>2 DEF NodePaths, Root
        <5>2. SubSeq(s[1], 1, 0) = Root /\ 0 \in 0..(Len(s[1]) - 1)
          BY <1>2, <5>1, PathFacts DEF Root
        <5> QED
          BY <5>2 DEF Under
      <4> QED
        BY <1>1, <2>1, <4>2, <4>3 DEF Next1
    <3>3. s \in Slots(t2, D2) \ W2
      <4>1. s \in Slots(t, D)
        BY <1>1
      <4> QED
        BY <1>3, <1>5, <4>1
    <3>4. Wanted(t2, D2, s) = Wanted(t, D, s) /\ t2[Append(p, n)] = inst
      BY <1>1, <1>3, <1>4, <2>3
    <3> QED
      BY <1>1, <3>1, <3>2, <3>3, <3>4
  <2> QED
    BY <1>4, <2>2, <2>3
<1>12. AllHeld(t2, D2, W2)
  <2> SUFFICES ASSUME NEW r \in Slots(t2, D2) \ W2,
                      ~Wanted(t2, D2, r).optional, Counts(r[1], Wanted(t2, D2, r))
               PROVE  Held(t2, D2, r)
    BY DEF AllHeld
  <2>1. r \in Slots(t, D) /\ Wanted(t2, D2, r) = Wanted(t, D, r)
    BY <1>3, <1>6
  <2>2. CASE r = s
    <3>1. FindsIn(t2, s[1], s[1], Wanted(t, D, s))
      BY PlacingFinds
    <3> QED
      BY <2>1, <2>2, <3>1 DEF Held
  <2>3. CASE r # s
    <3>1. r \in Slots(t, D) \ W
      BY <1>6, <2>1, <2>3
    <3>2. Held(t, D, r)
      BY <1>1, <2>1, <3>1 DEF AllHeld
    <3> QED
      BY <3>1, <3>2, PlacingHolds
  <2> QED
    BY <2>2, <2>3
<1> QED
  BY <1>7, <1>9, <1>10, <1>11, <1>12 DEF Sound

(* The queue: its i-th edge is that of the slot f[i].                       *)
Edge == [req : NodePaths, name : Names, spec : Specifiers, optional : BOOLEAN]
EdgeAt(p, d) == [req |-> p, name |-> d.name, spec |-> d.spec, optional |-> d.optional]
InOrder(f, n) ==
  \A j \in 1..n : \A i \in 1..(j - 1) :
    f[j][1] \notin Under(f[i][1]) /\ (f[j][1] = f[i][1] => f[i][2] < f[j][2])
Open(f, n) == {f[i] : i \in 1..n}
Follows(t, D, q, f) ==
  /\ q \in Seq(Edge)
  /\ \A i \in 1..Len(q) : f[i] \in Slots(t, D) /\ q[i] = EdgeAt(f[i][1], Wanted(t, D, f[i]))
  /\ InOrder(f, Len(q))
  /\ Sound(t, D, Open(f, Len(q)))

LEMMA TailFacts ==
  ASSUME NEW S, NEW q \in Seq(S), q # <<>>
  PROVE  /\ Len(q) \in Nat \ {0} /\ Head(q) = q[1] /\ q[1] \in S
         /\ Tail(q) \in Seq(S) /\ Len(Tail(q)) = Len(q) - 1
         /\ \A i \in 1..(Len(q) - 1) : Tail(q)[i] = q[i + 1]
<1>1. Len(q) \in Nat /\ Len(q) # 0
  OBVIOUS
<1> QED
  BY <1>1

LEMMA ConcatFacts ==
  ASSUME NEW S, NEW q \in Seq(S), NEW r \in Seq(S)
  PROVE  /\ q \o r \in Seq(S) /\ Len(q \o r) = Len(q) + Len(r)
         /\ \A i \in 1..(Len(q) + Len(r)) : (q \o r)[i] = IF i <= Len(q) THEN q[i] ELSE r[i - Len(q)]
OBVIOUS

Shift(f, n) == [i \in 1..(n - 1) |-> f[i + 1]]

(* The head of the queue is the slot that comes next.                       *)
LEMMA HeadFacts ==
  ASSUME NEW t, NEW D, NEW q, NEW f, Grown(t), Known(t, D), Follows(t, D, q, f), q # <<>>
  PROVE  /\ Len(q) \in Nat \ {0}
         /\ Head(q) = EdgeAt(f[1][1], Wanted(t, D, f[1])) /\ f[1] \in Open(f, Len(q))
         /\ Next1(Open(f, Len(q)), f[1])
         /\ InOrder(Shift(f, Len(q)), Len(q) - 1)
         /\ Open(Shift(f, Len(q)), Len(q) - 1) = Open(f, Len(q)) \ {f[1]}
         /\ \A i \in 1..(Len(q) - 1) : Shift(f, Len(q))[i] = f[i + 1]
<1> DEFINE n == Len(q)
           h == Shift(f, n)
<1>1. n \in Nat \ {0} /\ Head(q) = q[1]
  BY TailFacts DEF Follows
<1>2. \A i \in 1..(n - 1) : i + 1 \in 1..n /\ h[i] = f[i + 1]
  BY <1>1 DEF Shift
<1>3. \A i \in 1..n : f[i] \in Slots(t, D) /\ f[i][2] \in Int
  BY SlotFacts DEF Follows
<1>4. 1 \in 1..n /\ \A i \in 1..n : i # 1 => i - 1 \in 1..(n - 1) /\ 1 \in 1..(i - 1)
  BY <1>1
<1>5. ASSUME NEW i \in 1..n, i # 1
      PROVE  f[i][1] \notin Under(f[1][1]) /\ (f[i][1] = f[1][1] => f[1][2] < f[i][2])
  BY <1>4, <1>5 DEF Follows, InOrder
<1>6. \A i \in 1..n : i # 1 => f[i] # f[1]
  <2> SUFFICES ASSUME NEW i \in 1..n, i # 1, f[i] = f[1] PROVE FALSE
    OBVIOUS
  <2>1. f[1][2] < f[i][2] /\ f[1][2] = f[i][2] /\ f[i][2] \in Int
    BY <1>3, <1>5
  <2> QED
    BY <2>1
<1>7. f[1] \in Open(f, n) /\ Head(q) = EdgeAt(f[1][1], Wanted(t, D, f[1]))
  BY <1>1, <1>4 DEF Open, Follows
<1>8. Next1(Open(f, n), f[1])
  BY <1>5 DEF Next1, Open
<1>9. InOrder(h, n - 1)
  <2> SUFFICES ASSUME NEW j \in 1..(n - 1), NEW i \in 1..(j - 1)
               PROVE  h[j][1] \notin Under(h[i][1]) /\ (h[j][1] = h[i][1] => h[i][2] < h[j][2])
    BY DEF InOrder
  <2>1. i \in 1..(n - 1) /\ i + 1 \in 1..((j + 1) - 1)
    BY <1>1
  <2>2. f[j + 1][1] \notin Under(f[i + 1][1]) /\ (f[j + 1][1] = f[i + 1][1] => f[i + 1][2] < f[j + 1][2])
    BY <1>2, <2>1 DEF Follows, InOrder
  <2> QED
    BY <1>2, <2>1, <2>2
<1>10. Open(h, n - 1) = Open(f, n) \ {f[1]}
  <2>1. \A i \in 1..(n - 1) : h[i] \in Open(f, n) \ {f[1]}
    <3> SUFFICES ASSUME NEW i \in 1..(n - 1) PROVE h[i] \in Open(f, n) \ {f[1]}
      OBVIOUS
    <3>1. i + 1 \in 1..n /\ i + 1 # 1 /\ h[i] = f[i + 1]
      BY <1>1, <1>2
    <3> QED
      BY <1>6, <3>1 DEF Open
  <2>2. \A i \in 1..n : i # 1 => f[i] \in Open(h, n - 1)
    <3> SUFFICES ASSUME NEW i \in 1..n, i # 1 PROVE f[i] \in Open(h, n - 1)
      OBVIOUS
    <3>1. i - 1 \in 1..(n - 1) /\ h[i - 1] = f[i]
      <4>1. i - 1 \in 1..(n - 1) /\ (i - 1) + 1 = i
        BY <1>4
      <4> QED
        BY <1>2, <4>1
    <3> QED
      BY <3>1 DEF Open
  <2> HIDE DEF h
  <2> QED
    BY <2>1, <2>2 DEF Open
<1> QED
  BY <1>1, <1>2, <1>7, <1>8, <1>9, <1>10

(* The head of the queue is dropped.                                        *)
LEMMA DropStep ==
  ASSUME NEW t, NEW D, NEW q, NEW f, Grown(t), Known(t, D), Follows(t, D, q, f), q # <<>>,
         ~Wanted(t, D, f[1]).optional /\ Counts(f[1][1], Wanted(t, D, f[1])) => Held(t, D, f[1])
  PROVE  Follows(t, D, Tail(q), Shift(f, Len(q)))
<1> DEFINE n == Len(q)
           h == Shift(f, n)
<1>1. /\ n \in Nat \ {0} /\ f[1] \in Open(f, n) /\ Next1(Open(f, n), f[1])
      /\ InOrder(h, n - 1) /\ \A i \in 1..(n - 1) : h[i] = f[i + 1]
  BY HeadFacts
<1>2. Open(h, n - 1) = Open(f, n) \ {f[1]}
  BY HeadFacts
<1>3. Tail(q) \in Seq(Edge) /\ Len(Tail(q)) = n - 1 /\ \A i \in 1..(n - 1) : Tail(q)[i] = q[i + 1]
  BY TailFacts DEF Follows
<1>4. ASSUME NEW i \in 1..(n - 1)
      PROVE  h[i] \in Slots(t, D) /\ Tail(q)[i] = EdgeAt(h[i][1], Wanted(t, D, h[i]))
  <2>1. i + 1 \in 1..n
    BY <1>1
  <2> QED
    BY <1>1, <1>3, <2>1 DEF Follows
<1>5. Sound(t, D, Open(f, n) \ {f[1]})
  <2>1. Sound(t, D, Open(f, n))
    BY DEF Follows
  <2> QED
    BY <1>1, <2>1, Taken
<1> HIDE DEF h
<1>6. Sound(t, D, Open(h, Len(Tail(q)))) /\ InOrder(h, Len(Tail(q)))
  BY <1>1, <1>2, <1>3, <1>5
<1>7. \A i \in 1..Len(Tail(q)) : h[i] \in Slots(t, D) /\ Tail(q)[i] = EdgeAt(h[i][1], Wanted(t, D, h[i]))
  BY <1>3, <1>4
<1>8. Follows(t, D, Tail(q), h)
  BY <1>3, <1>6, <1>7 DEF Follows
<1> QED
  BY <1>8 DEF h

(* An instance is placed for the head, and its edges are queued.            *)
Behind(f, n, x, m) == [i \in 1..((n - 1) + m) |-> IF i <= n - 1 THEN f[i + 1] ELSE <<x, i - (n - 1)>>]

LEMMA PutStep ==
  ASSUME NEW t, NEW D, NEW q, NEW f, Follows(t, D, q, f), q # <<>>,
         NEW g, NEW x, NEW inst, NEW t2, NEW D2,
         Placing(t, D, Open(f, Len(q)), f[1], g, x, inst, t2, D2),
         DepsIn(t2, D2, x) \in Declared
  PROVE  Follows(t2, D2, Tail(q) \o Edges(x, DepsIn(t2, D2, x)), Behind(f, Len(q), x, Len(DepsIn(t2, D2, x))))
<1> DEFINE n    == Len(q)
           deps == DepsIn(t2, D2, x)
           m    == Len(deps)
           h    == Behind(f, n, x, m)
           new  == Edges(x, deps)
           q2   == Tail(q) \o new
           W    == Open(f, n)
<1>1. Grown(t) /\ Known(t, D)
  BY DEF Placing
<1>2. /\ n \in Nat \ {0} /\ InOrder(Shift(f, n), n - 1)
      /\ \A i \in 1..(n - 1) : Shift(f, n)[i] = f[i + 1]
  BY <1>1, HeadFacts
<1>3. Open(Shift(f, n), n - 1) = W \ {f[1]}
  BY <1>1, HeadFacts
<1>4. m \in Nat /\ \A i \in 1..m : deps[i] \in [name : Names, spec : Specifiers, optional : BOOLEAN]
  BY DeclaredFacts
<1>5. x \in NodePaths /\ x # Root /\ OneMore(t, D, x, t2, D2) /\ x \notin DOMAIN t
  <2>1. x \in NodePaths /\ x # Root /\ OneMore(t, D, x, t2, D2)
    BY PlacingFacts
  <2> QED
    BY <2>1 DEF Placing
<1>6. new \in Seq(Edge) /\ Len(new) = m /\ \A i \in 1..m : new[i] = EdgeAt(x, deps[i])
  <2>1. \A i \in 1..m : EdgeAt(x, deps[i]) \in Edge
    BY <1>4, <1>5 DEF EdgeAt, Edge
  <2>2. new = [i \in 1..m |-> EdgeAt(x, deps[i])]
    BY DEF Edges, EdgeAt
  <2> HIDE DEF new, deps, m
  <2> QED
    BY <1>4, <2>1, <2>2
<1>7. Tail(q) \in Seq(Edge) /\ Len(Tail(q)) = n - 1 /\ \A i \in 1..(n - 1) : Tail(q)[i] = q[i + 1]
  BY TailFacts DEF Follows
<1>8. /\ q2 \in Seq(Edge) /\ Len(q2) = (n - 1) + m
      /\ \A i \in 1..((n - 1) + m) : q2[i] = IF i <= n - 1 THEN q[i + 1] ELSE EdgeAt(x, deps[i - (n - 1)])
  <2>1. /\ q2 \in Seq(Edge) /\ Len(q2) = Len(Tail(q)) + Len(new)
        /\ \A i \in 1..(Len(Tail(q)) + Len(new)) : q2[i] = IF i <= Len(Tail(q)) THEN Tail(q)[i] ELSE new[i - Len(Tail(q))]
    <3>1. \A a, b \in Seq(Edge) :
            /\ a \o b \in Seq(Edge) /\ Len(a \o b) = Len(a) + Len(b)
            /\ \A i \in 1..(Len(a) + Len(b)) : (a \o b)[i] = IF i <= Len(a) THEN a[i] ELSE b[i - Len(a)]
      BY ConcatFacts
    <3> HIDE DEF new
    <3> QED
      BY <1>6, <1>7, <3>1
  <2> HIDE DEF new, q2, deps, m, n
  <2>2. ASSUME NEW i \in 1..((n - 1) + m)
        PROVE  q2[i] = IF i <= n - 1 THEN q[i + 1] ELSE EdgeAt(x, deps[i - (n - 1)])
    <3>1. q2[i] = IF i <= n - 1 THEN Tail(q)[i] ELSE new[i - (n - 1)]
      BY <1>6, <1>7, <2>1
    <3>2. i <= n - 1 => i \in 1..(n - 1)
      BY <1>2
    <3>3. ~(i <= n - 1) => i - (n - 1) \in 1..m
      BY <1>2, <1>4
    <3> QED
      BY <1>6, <1>7, <3>1, <3>2, <3>3
  <2> QED
    BY <1>6, <1>7, <2>1, <2>2
<1>9. \A i \in 1..(n - 1) : h[i] = f[i + 1] /\ i + 1 \in 1..n
  BY <1>2, <1>4 DEF Behind
<1>10. \A i \in 1..((n - 1) + m) : i <= n - 1 \/ (i - (n - 1) \in 1..m /\ h[i] = <<x, i - (n - 1)>>)
  BY <1>2, <1>4 DEF Behind
<1> HIDE DEF h
<1>11. \A l \in 1..m : <<x, l>> \in NewSlots(t2, D2, x) /\ <<x, l>> \in Slots(t2, D2) /\ Wanted(t2, D2, <<x, l>>) = deps[l]
  <2>1. \A l \in 1..m : <<x, l>> \in NewSlots(t2, D2, x)
    BY <1>4 DEF NewSlots
  <2> QED
    BY <1>5, <2>1 DEF OneMore, Wanted
<1>12. ASSUME NEW i \in 1..((n - 1) + m)
       PROVE  h[i] \in Slots(t2, D2) /\ q2[i] = EdgeAt(h[i][1], Wanted(t2, D2, h[i]))
  <2>1. CASE i <= n - 1
    <3>1. i \in 1..(n - 1)
      BY <1>2, <2>1
    <3>2. f[i + 1] \in Slots(t, D) /\ q[i + 1] = EdgeAt(f[i + 1][1], Wanted(t, D, f[i + 1]))
      BY <1>9, <3>1 DEF Follows
    <3>3. q2[i] = q[i + 1] /\ h[i] = f[i + 1]
      BY <1>8, <1>9, <2>1, <3>1
    <3> QED
      BY <1>5, <3>2, <3>3 DEF OneMore
  <2>2. CASE ~(i <= n - 1)
    <3>1. i - (n - 1) \in 1..m /\ h[i] = <<x, i - (n - 1)>>
      BY <1>10, <2>2
    <3>2. q2[i] = EdgeAt(x, deps[i - (n - 1)])
      BY <1>8, <2>2
    <3>3. Wanted(t2, D2, h[i]) = deps[i - (n - 1)] /\ h[i] \in Slots(t2, D2) /\ h[i][1] = x
      BY <1>11, <3>1
    <3> QED
      BY <3>2, <3>3
  <2> QED
    BY <2>1, <2>2
<1>13. InOrder(h, (n - 1) + m)
  <2> SUFFICES ASSUME NEW j \in 1..((n - 1) + m), NEW i \in 1..(j - 1)
               PROVE  h[j][1] \notin Under(h[i][1]) /\ (h[j][1] = h[i][1] => h[i][2] < h[j][2])
    BY DEF InOrder
  <2>1. CASE j <= n - 1
    <3>1. j \in 1..(n - 1) /\ i \in 1..(n - 1)
      BY <1>2, <2>1
    <3>2. h[i] = Shift(f, n)[i] /\ h[j] = Shift(f, n)[j]
      BY <1>2, <1>9, <3>1
    <3> QED
      BY <1>2, <3>1, <3>2 DEF InOrder
  <2>2. CASE ~(j <= n - 1)
    <3>1. j - (n - 1) \in 1..m /\ h[j] = <<x, j - (n - 1)>>
      BY <1>10, <2>2
    <3>2. CASE i <= n - 1
      <4>1. i \in 1..(n - 1)
        BY <1>2, <3>2
      <4>2. h[i] \in Slots(t, D)
        BY <1>9, <4>1 DEF Follows
      <4>3. h[i][1] # x /\ h[i][1] \in NodesOf(t) /\ h[i][1] \in NodePaths
        BY <1>1, <1>5, <4>2, SlotFacts DEF OneMore
      <4>4. ASSUME x \in Under(h[i][1]) PROVE FALSE
        <5> DEFINE p == h[i][1]
        <5>1. PICK k \in 0..(Len(p) - 1) : x = SubSeq(p, 1, k)
          BY <4>4 DEF Under
        <5>2. Len(p) \in Nat /\ SubSeq(p, 1, 0) = Root
          BY <4>3, PathFacts DEF Root
        <5>3. k \in 1..Len(p) /\ p # Root
          <6>1. k # 0
            BY <1>5, <5>1, <5>2
          <6>2. k \in 1..Len(p)
            BY <5>1, <5>2, <6>1
          <6> QED
            BY <6>2 DEF Root
        <5> QED
          BY <1>1, <1>5, <4>3, <5>1, <5>3 DEF Grown, NodesOf
      <4> QED
        BY <3>1, <4>3, <4>4
    <3>3. CASE ~(i <= n - 1)
      <4>1. i \in 1..((n - 1) + m)
        BY <1>2, <1>4
      <4>2. i - (n - 1) \in 1..m /\ h[i] = <<x, i - (n - 1)>>
        BY <1>10, <3>3, <4>1
      <4>3. x \notin Under(x)
        <5>1. \A k \in 0..Len(x) : Len(SubSeq(x, 1, k)) = k
          BY <1>5, PathFacts
        <5>2. Len(x) \in Nat
          BY <1>5, PathFacts
        <5> QED
          BY <5>1, <5>2 DEF Under
      <4>4. i - (n - 1) < j - (n - 1)
        BY <1>2, <1>4
      <4> QED
        BY <3>1, <4>2, <4>3, <4>4
    <3> QED
      BY <3>2, <3>3
  <2> QED
    BY <2>1, <2>2
<1>14. Open(h, (n - 1) + m) = (W \ {f[1]}) \cup NewSlots(t2, D2, x)
  <2>1. ASSUME NEW i \in 1..((n - 1) + m) PROVE h[i] \in (W \ {f[1]}) \cup NewSlots(t2, D2, x)
    <3>1. CASE i <= n - 1
      <4>1. i \in 1..(n - 1)
        BY <1>2, <3>1
      <4>2. h[i] = Shift(f, n)[i]
        BY <1>2, <1>9, <4>1
      <4> QED
        BY <1>3, <4>1, <4>2 DEF Open
    <3>2. CASE ~(i <= n - 1)
      BY <1>10, <1>11, <3>2
    <3> QED
      BY <3>1, <3>2
  <2>2. ASSUME NEW w \in (W \ {f[1]}) \cup NewSlots(t2, D2, x) PROVE w \in Open(h, (n - 1) + m)
    <3>1. CASE w \in W \ {f[1]}
      <4>1. PICK i \in 1..(n - 1) : w = Shift(f, n)[i]
        BY <1>3, <3>1 DEF Open
      <4>2. w = h[i] /\ i \in 1..((n - 1) + m)
        BY <1>2, <1>4, <1>9, <4>1
      <4> QED
        BY <4>2 DEF Open
    <3>2. CASE w \in NewSlots(t2, D2, x)
      <4>1. w = <<x, w[2]>> /\ w[2] \in 1..m
        BY <1>4, <3>2 DEF NewSlots
      <4>2. w[2] + (n - 1) \in 1..((n - 1) + m) /\ ~(w[2] + (n - 1) <= n - 1) /\ (w[2] + (n - 1)) - (n - 1) = w[2]
        BY <1>2, <1>4, <4>1
      <4>3. h[w[2] + (n - 1)] = <<x, w[2]>>
        BY <1>10, <4>2
      <4>4. h[w[2] + (n - 1)] = w
        BY <4>1, <4>3
      <4> QED
        BY <4>2, <4>4 DEF Open
    <3> QED
      BY <3>1, <3>2
  <2> QED
    BY <2>1, <2>2 DEF Open
<1>15. Sound(t2, D2, (W \ {f[1]}) \cup NewSlots(t2, D2, x))
  BY PlacingSound
<1>16. Follows(t2, D2, q2, h)
  <2> HIDE DEF q2, W, m, n
  <2> QED
    BY <1>8, <1>12, <1>13, <1>14, <1>15 DEF Follows
<1> QED
  BY <1>16 DEF h

--------------------------------------------------------------------------------
FloorsKept(t, fl) == \A p \in DOMAIN t : t[p].src = NoSource => fl[t[p].name] <= t[p].ver

WalkShape ==
  /\ Grown(tree) /\ FloorsKept(tree, floors)
  /\ depsOf \in [DOMAIN depsOf -> Declared] /\ RootInstance \in DOMAIN depsOf
  /\ queue \in Seq(Edge) /\ \A i \in 1..Len(queue) : queue[i].req \in NodesOf(tree)
  /\ asked \subseteq Names
  /\ status \in {"running", "done", "error"}
  /\ age \in Ages /\ floors \in [Names -> Versions \cup {NoVersion}]
  /\ status = "done" => queue = <<>>

(* Until the walk fails, what every node depends on is known, and the queue *)
(* is what is left of a breadth-first order.                                *)
Breadth == Known(tree, depsOf) /\ \E f : Follows(tree, depsOf, queue, f)
WalkInv == WalkShape /\ (status # "error" => Breadth)

LEMMA EffectiveType ==
  ASSUME NEW p, NEW d, d.spec \in Specifiers
  PROVE  Effective(p, d) \in Specifiers
BY ResolverAssumption DEF Effective

(* The edge at the head of the queue, told by its slot.                     *)
LEMMA EdgeFacts ==
  ASSUME WalkInv, status = "running", queue # <<>>, NEW f, Follows(tree, depsOf, queue, f)
  PROVE  LET d == Wanted(tree, depsOf, f[1]) IN
         /\ edge.req = f[1][1] /\ edge.name = d.name /\ edge.optional = d.optional
         /\ eff = Effective(edge.req, d)
         /\ edge.req \in NodesOf(tree) /\ edge.req \in NodePaths /\ edge.name \in Names /\ eff \in Specifiers
         /\ f[1] \in Slots(tree, depsOf)
         /\ Reusable <=> FindsIn(tree, edge.req, edge.req, d)
         /\ Occupied(edge.req, edge.name) => Append(edge.req, edge.name) \in DOMAIN tree
         /\ Target(edge.req, edge.name) = IF HeldIn(DOMAIN tree, edge.req, edge.name) # {} THEN edge.req ELSE Root
<1> DEFINE d == Wanted(tree, depsOf, f[1])
<1>1. Grown(tree) /\ Known(tree, depsOf)
  BY DEF WalkInv, WalkShape, Breadth
<1>2. Head(queue) = EdgeAt(f[1][1], d) /\ f[1] \in Slots(tree, depsOf)
  <2>1. Head(queue) = EdgeAt(f[1][1], d) /\ f[1] \in Open(f, Len(queue))
    BY <1>1, HeadFacts
  <2>2. Open(f, Len(queue)) \subseteq Slots(tree, depsOf)
    BY DEF Follows, Open
  <2> QED
    BY <2>1, <2>2
<1>3. f[1][1] \in NodesOf(tree) /\ f[1][1] \in NodePaths /\ d.name \in Names /\ d.spec \in Specifiers
  BY <1>1, <1>2, SlotFacts
<1>4. edge.req = f[1][1] /\ edge.name = d.name /\ edge.optional = d.optional /\ edge.spec = d.spec
  BY <1>2 DEF edge, EdgeAt
<1>5. eff = Effective(edge.req, d)
  BY <1>4 DEF eff, Effective
<1>6. eff \in Specifiers
  BY <1>3, <1>5, EffectiveType
<1>7. /\ Visible(edge.req, edge.name) <=> HeldIn(DOMAIN tree, edge.req, edge.name) # {}
      /\ Nearest(edge.req, edge.name) = tree[FoundIn(DOMAIN tree, edge.req, edge.name)]
  BY SameLookup
<1>8. Reusable <=> FindsIn(tree, edge.req, edge.req, d)
  BY <1>4, <1>5, <1>7 DEF Reusable, FindsIn
<1>9. Target(edge.req, edge.name) = IF HeldIn(DOMAIN tree, edge.req, edge.name) # {} THEN edge.req ELSE Root
  BY <1>7 DEF Target
<1>10. ASSUME Occupied(edge.req, edge.name) PROVE Append(edge.req, edge.name) \in DOMAIN tree
  <2>1. CASE HeldIn(DOMAIN tree, edge.req, edge.name) # {}
    BY <1>9, <1>10, <2>1 DEF Occupied
  <2>2. CASE HeldIn(DOMAIN tree, edge.req, edge.name) = {}
    <3>1. Append(Root, edge.name) \in DOMAIN tree
      BY <1>9, <1>10, <2>2 DEF Occupied
    <3>2. Len(edge.req) \in Nat /\ SubSeq(edge.req, 1, 0) = Root
      BY <1>3, <1>4, PathFacts DEF Root
    <3>3. 0 \in HeldIn(DOMAIN tree, edge.req, edge.name)
      <4>1. Append(SubSeq(edge.req, 1, 0), edge.name) \in DOMAIN tree
        BY <3>1, <3>2, Zenon
      <4>2. 0 \in 0..Len(edge.req)
        BY <3>2
      <4> QED
        BY <4>1, <4>2 DEF HeldIn
    <3> QED
      BY <2>2, <3>3
  <2> QED
    BY <2>1, <2>2
<1> HIDE DEF d
<1> QED
  BY <1>2, <1>3, <1>4, <1>5, <1>6, <1>8, <1>9, <1>10 DEF d

(* Nothing is placed, and the head is held or need not be.                  *)
LEMMA DropKeeps ==
  ASSUME WalkInv, status = "running", queue # <<>>, Drop, asked' \subseteq Names, UNCHANGED settings,
         \A f : Follows(tree, depsOf, queue, f) =>
           LET d == Wanted(tree, depsOf, f[1]) IN
           ~d.optional /\ Counts(f[1][1], d) => Held(tree, depsOf, f[1])
  PROVE  WalkInv'
<1> USE DEF Drop, settings
<1>1. PICK f : Follows(tree, depsOf, queue, f)
  BY DEF WalkInv, Breadth
<1>2. Grown(tree) /\ Known(tree, depsOf)
  BY DEF WalkInv, Breadth, WalkShape
<1>3. Follows(tree, depsOf, Tail(queue), Shift(f, Len(queue)))
  BY <1>1, <1>2, DropStep
<1>4. Breadth'
  BY <1>2, <1>3 DEF Breadth
<1>5. WalkShape'
  <2>1. /\ Len(queue) \in Nat \ {0} /\ Tail(queue) \in Seq(Edge) /\ Len(Tail(queue)) = Len(queue) - 1
        /\ \A i \in 1..(Len(queue) - 1) : Tail(queue)[i] = queue[i + 1]
    BY TailFacts DEF WalkInv, WalkShape
  <2>2. ASSUME NEW i \in 1..Len(queue') PROVE queue'[i].req \in NodesOf(tree')
    <3>1. queue'[i] = queue[i + 1] /\ i + 1 \in 1..Len(queue)
      BY <2>1
    <3> QED
      BY <3>1 DEF WalkInv, WalkShape
  <2> QED
    BY <2>1, <2>2 DEF WalkInv, WalkShape
<1> QED
  BY <1>4, <1>5 DEF WalkInv

(* The walk fails.                                                          *)
LEMMA FailKeeps ==
  ASSUME WalkInv, status' = "error", Grown(tree'), FloorsKept(tree', floors), DOMAIN tree \subseteq DOMAIN tree',
         asked' \subseteq Names, UNCHANGED <<queue, depsOf, settings>>
  PROVE  WalkInv'
BY DEF WalkInv, WalkShape, settings, NodesOf

LEMMA SkipKeeps ==
  ASSUME WalkInv, status = "running", queue # <<>>, SkipOrFail, asked' \subseteq Names, UNCHANGED settings
  PROVE  WalkInv'
<1>1. CASE edge.optional
  <2>1. Drop
    BY <1>1 DEF SkipOrFail, Drop
  <2>2. \A f : Follows(tree, depsOf, queue, f) => Wanted(tree, depsOf, f[1]).optional
    BY <1>1, EdgeFacts
  <2> QED
    BY <2>1, <2>2, DropKeeps
<1>2. CASE ~edge.optional
  BY <1>2, FailKeeps DEF SkipOrFail, WalkInv, WalkShape
<1> QED
  BY <1>1, <1>2

(* What is there already is kept.                                           *)
LEMMA OccupiedKeeps ==
  ASSUME WalkInv, status = "running", queue # <<>>, Drop, asked' \subseteq Names, UNCHANGED settings,
         Reusable \/ Occupied(edge.req, edge.name)
  PROVE  WalkInv'
<1> SUFFICES ASSUME NEW f, Follows(tree, depsOf, queue, f)
             PROVE  Held(tree, depsOf, f[1])
  BY DropKeeps
<1>1. Grown(tree) /\ Known(tree, depsOf)
  BY DEF WalkInv, Breadth, WalkShape
<1>2. /\ edge.req = f[1][1] /\ edge.name = Wanted(tree, depsOf, f[1]).name
      /\ Reusable <=> FindsIn(tree, edge.req, edge.req, Wanted(tree, depsOf, f[1]))
      /\ Occupied(edge.req, edge.name) => Append(edge.req, edge.name) \in DOMAIN tree
  BY EdgeFacts
<1>3. CASE Reusable
  BY <1>2, <1>3 DEF Held
<1>4. CASE Occupied(edge.req, edge.name)
  <2>1. f[1] \in Open(f, Len(queue)) /\ Next1(Open(f, Len(queue)), f[1])
    BY <1>1, HeadFacts
  <2>2. Sound(tree, depsOf, Open(f, Len(queue)))
    BY DEF Follows
  <2> QED
    BY <1>1, <1>2, <1>4, <2>1, <2>2, TwinHolds
<1> QED
  BY <1>3, <1>4

LEMMA GrownMore ==
  ASSUME NEW t, Grown(t), NEW g \in NodesOf(t), NEW inst \in Instances,
         inst.src = NoSource => inst.ver \in Versions
  PROVE  Grown(With(t, Append(g, inst.name), inst))
<1> DEFINE m  == inst.name
           x  == Append(g, m)
           t2 == With(t, x, inst)
<1>1. m \in Names
  BY DEF Instances
<1>2. g \in NodePaths
  <2>1. Root \in NodePaths
    BY DEF Root, NodePaths
  <2> QED
    BY <2>1 DEF Grown, NodesOf
<1>3. x \in NodePaths /\ Len(x) = Len(g) + 1 /\ Last(x) = m /\ Len(g) \in Nat /\ SubSeq(x, 1, Len(x)) = x
      /\ \A k \in 0..Len(g) : SubSeq(x, 1, k) = SubSeq(g, 1, k)
  BY <1>1, <1>2, AppendFacts, PathFacts
<1>4. DOMAIN t2 = DOMAIN t \cup {x} /\ t2[x] = inst /\ \A q \in DOMAIN t : q # x => t2[q] = t[q]
  BY DEF With
<1>5. x # Root
  BY <1>3 DEF Root
<1>6. ASSUME NEW k \in 1..Len(x) PROVE SubSeq(x, 1, k) \in DOMAIN t2
  <2>1. CASE k = Len(x)
    BY <1>3, <1>4, <2>1
  <2>2. CASE k # Len(x)
    <3>1. k \in 1..Len(g)
      BY <1>3, <2>2
    <3>2. g # Root
      BY <3>1 DEF Root
    <3>3. SubSeq(g, 1, k) \in DOMAIN t
      BY <3>1, <3>2 DEF Grown, NodesOf
    <3>4. SubSeq(x, 1, k) = SubSeq(g, 1, k)
      BY <1>3, <3>1
    <3> QED
      BY <1>4, <3>3, <3>4
  <2> QED
    BY <2>1, <2>2
<1>7. ASSUME NEW p \in DOMAIN t2
      PROVE  /\ t2[p] \in Instances /\ t2[p].name = Last(p)
             /\ t2[p].src = NoSource => t2[p].ver \in Versions
             /\ \A k \in 1..Len(p) : SubSeq(p, 1, k) \in DOMAIN t2
  <2>1. CASE p = x
    BY <1>3, <1>4, <1>6, <2>1
  <2>2. CASE p # x
    BY <1>4, <2>2 DEF Grown
  <2> QED
    BY <2>1, <2>2
<1>8. DOMAIN t2 \subseteq NodePaths /\ Root \notin DOMAIN t2
  BY <1>3, <1>4, <1>5 DEF Grown
<1> QED
  BY <1>7, <1>8 DEF Grown

(* What an instance depends on is remembered.                               *)
Remember(D, k, deps) == [i \in DOMAIN D \cup {k} |-> IF i = k THEN deps ELSE D[i]]

Recorded(t, D, x, deps, t2, D2) ==
  /\ Known(t2, D2) /\ DepsIn(t2, D2, x) = deps
  /\ \A p \in NodesOf(t) : DepsIn(t2, D2, p) = DepsIn(t, D, p)

LEMMA KnownMore ==
  ASSUME NEW t, NEW D, Grown(t), Known(t, D), NEW x, x # Root, x \notin DOMAIN t, NEW inst,
         NEW deps \in Declared, Key(inst) \in DOMAIN D => deps = D[Key(inst)]
  PROVE  Recorded(t, D, x, deps, With(t, x, inst), Remember(D, Key(inst), deps))
<1> DEFINE t2 == With(t, x, inst)
           D2 == Remember(D, Key(inst), deps)
<1>1. NodesOf(t2) = NodesOf(t) \cup {x} /\ KeyAt(t2, x) = Key(inst) /\ \A p \in NodesOf(t) : KeyAt(t2, p) = KeyAt(t, p)
  BY DEF With, NodesOf, KeyAt
<1>2. DOMAIN D2 = DOMAIN D \cup {Key(inst)} /\ D2[Key(inst)] = deps /\ \A i \in DOMAIN D : D2[i] = D[i]
  BY DEF Remember
<1>3. D2 \in [DOMAIN D2 -> Declared]
  BY DEF Known, Remember
<1> HIDE DEF t2, D2
<1>4. Known(t2, D2)
  BY <1>1, <1>2, <1>3 DEF Known
<1>5. DepsIn(t2, D2, x) = deps
  BY <1>1, <1>2 DEF DepsIn
<1>6. \A p \in NodesOf(t) : DepsIn(t2, D2, p) = DepsIn(t, D, p)
  BY <1>1, <1>2 DEF DepsIn, Known
<1> QED
  BY <1>4, <1>5, <1>6 DEF t2, D2, Recorded

(* An instance that the head of the queue accepts is placed.                *)
LEMMA PutKeeps ==
  ASSUME WalkInv, status = "running", queue # <<>>, asked' \subseteq Names, UNCHANGED settings,
         eff.kind \in {"range", "exotic"}, ~Occupied(edge.req, edge.name),
         NEW inst \in Instances, inst.name = edge.name, Meets(inst, eff),
         inst.src = NoSource => inst.ver \in Versions /\ floors[inst.name] <= inst.ver,
         Put(inst)
  PROVE  WalkInv'
<1> DEFINE g  == Target(edge.req, edge.name)
           x  == Append(g, inst.name)
           t2 == With(tree, x, inst)
           k  == Key(inst)
<1>1. Grown(tree) /\ Known(tree, depsOf)
  BY DEF WalkInv, Breadth, WalkShape
<1>2. PICK f : Follows(tree, depsOf, queue, f)
  BY DEF WalkInv, Breadth
<1> DEFINE W == Open(f, Len(queue))
           d == Wanted(tree, depsOf, f[1])
<1>3. /\ edge.req = f[1][1] /\ edge.name = d.name /\ eff = Effective(edge.req, d)
      /\ edge.req \in NodesOf(tree) /\ edge.req \in NodePaths /\ edge.name \in Names
      /\ g = IF HeldIn(DOMAIN tree, edge.req, edge.name) # {} THEN edge.req ELSE Root
  BY <1>2, EdgeFacts
<1>4. g \in NodesOf(tree) /\ x \notin DOMAIN tree
  BY <1>3 DEF NodesOf, Occupied
<1>5. x # Root
  <2>1. g \in NodePaths
    BY <1>3, PathFacts DEF Root, NodePaths
  <2>2. Len(x) = Len(g) + 1 /\ Len(g) \in Nat
    BY <1>3, <2>1, AppendFacts, PathFacts
  <2>3. Len(Root) = 0
    BY DEF Root
  <2> HIDE DEF x
  <2> QED
    BY <2>2, <2>3
<1>6. tree' = t2 /\ UNCHANGED status
  BY DEF Put, PutAt, With
<1>7. PICK deps \in IF k \in DOMAIN depsOf THEN {depsOf[k]} ELSE DepChoices[k.name] :
        /\ depsOf' = Remember(depsOf, k, deps)
        /\ queue' = Tail(queue) \o Edges(x, deps)
  BY DEF Put, Enqueue, Remember
<1>8. deps \in Declared /\ (k \in DOMAIN depsOf => deps = depsOf[k])
  <2>1. CASE k \in DOMAIN depsOf
    BY <1>1, <1>7, <2>1 DEF Known
  <2>2. CASE k \notin DOMAIN depsOf
    <3>1. k.name \in Names \cup Sources
      BY DEF Key, Instances
    <3> QED
      BY <1>7, <2>2, <3>1, ResolverAssumption
  <2> QED
    BY <2>1, <2>2
<1> HIDE DEF k
<1>9. /\ Known(tree', depsOf') /\ DepsIn(tree', depsOf', x) = deps
      /\ \A p \in NodesOf(tree) : DepsIn(tree', depsOf', p) = DepsIn(tree, depsOf, p)
  <2>1. Recorded(tree, depsOf, x, deps, t2, Remember(depsOf, Key(inst), deps))
    <3> HIDE DEF x
    <3> QED
      BY <1>1, <1>4, <1>5, <1>8, KnownMore DEF k
  <2> QED
    BY <1>6, <1>7, <2>1 DEF Recorded, k
<1>10. Grown(tree')
  BY <1>1, <1>4, <1>6, GrownMore
<1>11. Placing(tree, depsOf, W, f[1], g, x, inst, tree', depsOf')
  <2>1. f[1] \in W /\ Next1(W, f[1])
    BY <1>1, <1>2, HeadFacts
  <2>2. Sound(tree, depsOf, W)
    BY <1>2 DEF Follows
  <2>3. Counts(f[1][1], d) /\ Meets(inst, Effective(f[1][1], d)) /\ inst.name = d.name
    BY <1>3 DEF Counts
  <2> QED
    BY <1>1, <1>3, <1>4, <1>6, <1>9, <2>1, <2>2, <2>3 DEF Placing
<1>12. Follows(tree', depsOf', queue', Behind(f, Len(queue), x, Len(deps)))
  <2>1. Follows(tree', depsOf', Tail(queue) \o Edges(x, DepsIn(tree', depsOf', x)),
                Behind(f, Len(queue), x, Len(DepsIn(tree', depsOf', x))))
    <3> HIDE DEF x, g
    <3> QED
      BY <1>2, <1>8, <1>9, <1>11, PutStep
  <2> QED
    BY <1>7, <1>9, <2>1
<1>13. Breadth'
  BY <1>9, <1>12 DEF Breadth
<1>14. FloorsKept(tree', floors')
  <2>1. floors' = floors /\ inst.src = NoSource => floors[inst.name] <= inst.ver
    BY DEF settings
  <2> QED
    BY <1>6, <2>1 DEF FloorsKept, With, WalkInv, WalkShape, settings
<1>15. queue' \in Seq(Edge) /\ \A i \in 1..Len(queue') : queue'[i].req \in NodesOf(tree')
  <2> DEFINE h == Behind(f, Len(queue), x, Len(deps))
  <2>1. queue' \in Seq(Edge)
    BY <1>12 DEF Follows
  <2>2. \A i \in 1..Len(queue') : h[i] \in Slots(tree', depsOf') /\ queue'[i].req = h[i][1]
    <3> HIDE DEF h
    <3>1. \A i \in 1..Len(queue') : h[i] \in Slots(tree', depsOf')
                                    /\ queue'[i] = EdgeAt(h[i][1], Wanted(tree', depsOf', h[i]))
      BY <1>12 DEF Follows, h
    <3>2. \A p, d2 : EdgeAt(p, d2).req = p
      BY DEF EdgeAt
    <3> SUFFICES ASSUME NEW i \in 1..Len(queue')
                 PROVE  h[i] \in Slots(tree', depsOf') /\ queue'[i].req = h[i][1]
      OBVIOUS
    <3>3. queue'[i] = EdgeAt(h[i][1], Wanted(tree', depsOf', h[i]))
      BY <3>1
    <3>4. queue'[i].req = h[i][1]
      BY <3>2, <3>3
    <3> QED
      BY <3>1, <3>4
  <2>3. \A r \in Slots(tree', depsOf') : r[1] \in NodesOf(tree')
    BY DEF Slots
  <2> QED
    BY <2>1, <2>2, <2>3
<1>16. depsOf' \in [DOMAIN depsOf' -> Declared] /\ RootInstance \in DOMAIN depsOf'
  BY <1>7, <1>9 DEF Known, WalkInv, WalkShape, Remember
<1>17. WalkShape'
  BY <1>6, <1>10, <1>14, <1>15, <1>16 DEF WalkInv, WalkShape, settings
<1> QED
  BY <1>13, <1>17 DEF WalkInv

LEMMA OfferedFacts ==
  ASSUME WalkInv, NEW n \in Names
  PROVE  Offered(n) \subseteq Versions /\ \A v \in Offered(n) : floors[n] <= v
<1>1. Published[n] \subseteq Versions /\ Mature(n) \subseteq Published[n]
  BY ResolverAssumption DEF Mature
<1> QED
  BY <1>1 DEF Offered, AboveFloor

LEMMA BestFacts ==
  ASSUME WalkInv, NEW n \in Names, NEW spec, Offered(n) \cap spec.in # {}
  PROVE  Best(n, spec) \in Offered(n) \cap spec.in
<1> DEFINE fit == Offered(n) \cap spec.in
<1>1. fit \subseteq Versions /\ Versions \subseteq Int
  BY OfferedFacts, ResolverAssumption
<1>2. IsFiniteSet(fit)
  <2>1. IsFiniteSet(Versions)
    BY ResolverAssumption
  <2> HIDE DEF fit
  <2> QED
    BY <1>1, <2>1, FS_Subset
<1>3. MaxOf(fit) \in fit
  <2> HIDE DEF fit
  <2> QED
    BY <1>1, <1>2, MaxFacts DEF fit
<1>4. Best(n, spec) = IF Latest[n] \in fit THEN Latest[n] ELSE MaxOf(fit)
  BY DEF Best, MaxOf
<1> QED
  BY <1>3, <1>4

(* The instances that a walk places are what the edge asks for, and a       *)
(* registry version is not below its floor.                                 *)
LEMMA RegistryFacts ==
  ASSUME WalkInv, AtNewRange, Candidates # {}
  PROVE  /\ RegistryInstance \in Instances /\ RegistryInstance.name = edge.name /\ Meets(RegistryInstance, eff)
         /\ RegistryInstance.ver \in Versions /\ floors[edge.name] <= RegistryInstance.ver
<1>1. status = "running" /\ queue # <<>> /\ eff.kind = "range"
  BY DEF AtNewRange, AtEdge
<1>2. edge.name \in Names
  <2>1. PICK f : Follows(tree, depsOf, queue, f)
    BY <1>1 DEF WalkInv, Breadth
  <2> QED
    BY <1>1, <2>1, EdgeFacts
<1>3. Best(edge.name, eff) \in Offered(edge.name) \cap eff.in
  BY <1>2, BestFacts DEF Candidates
<1>4. Best(edge.name, eff) \in Versions /\ floors[edge.name] <= Best(edge.name, eff)
  BY <1>2, <1>3, OfferedFacts
<1> QED
  BY <1>1, <1>2, <1>3, <1>4 DEF RegistryInstance, Instances, Meets

LEMMA ExoticFacts ==
  ASSUME WalkInv, AtEdge("exotic")
  PROVE  /\ ExoticInstance \in Instances /\ ExoticInstance.name = edge.name /\ Meets(ExoticInstance, eff)
         /\ ExoticInstance.src # NoSource
<1>1. status = "running" /\ queue # <<>> /\ eff.kind = "exotic"
  BY DEF AtEdge
<1>2. edge.name \in Names /\ eff \in Specifiers
  <2>1. PICK f : Follows(tree, depsOf, queue, f)
    BY <1>1 DEF WalkInv, Breadth
  <2> QED
    BY <1>1, <2>1, EdgeFacts
<1>3. eff.src \in Sources
  BY <1>1, <1>2 DEF Specifiers, Other
<1> QED
  BY <1>1, <1>2, <1>3, ResolverAssumption DEF ExoticInstance, Instances, Meets

(* Every step of a walk keeps the invariant.                                *)
LEMMA WalkStep ==
  ASSUME WalkInv, Next
  PROVE  WalkInv'
<1>1. UNCHANGED settings /\ (ResolveEdge \/ Done)
  BY DEF Next
<1>2. ASSUME ResolveEdge PROVE status = "running" /\ queue # <<>> /\ edge.name \in Names /\ asked' \subseteq Names
  <2>1. status = "running" /\ queue # <<>>
    BY <1>2 DEF ResolveEdge, Block, ExoticFails, ExoticReused, ExoticPlaced, Unparseable, Reuse, AskFails,
                AllTooYoung, NoMatch, KeepFirst, Place, DepsFail, AtNewRange, AtEdge
  <2>2. edge.name \in Names
    <3>1. PICK f : Follows(tree, depsOf, queue, f)
      BY <2>1 DEF WalkInv, Breadth
    <3> QED
      BY <2>1, <3>1, EdgeFacts
  <2>3. asked' = asked \/ asked' = asked \cup {edge.name}
    BY <1>2 DEF ResolveEdge, Block, ExoticFails, ExoticReused, ExoticPlaced, Unparseable, Reuse, AskFails,
                AllTooYoung, NoMatch, KeepFirst, Place, DepsFail
  <2> QED
    BY <2>1, <2>2, <2>3 DEF WalkInv, WalkShape
<1>3. CASE Block
  BY <1>1, <1>3, FailKeeps DEF Block, WalkInv, WalkShape
<1>4. CASE ExoticFails \/ AskFails \/ AllTooYoung \/ NoMatch
  <2>1. SkipOrFail /\ ResolveEdge
    BY <1>4 DEF ExoticFails, AskFails, AllTooYoung, NoMatch, ResolveEdge
  <2> QED
    BY <1>1, <1>2, <2>1, SkipKeeps
<1>5. CASE ExoticReused \/ Reuse \/ KeepFirst
  <2>1. Drop /\ (Reusable \/ Occupied(edge.req, edge.name)) /\ ResolveEdge
    BY <1>5 DEF ExoticReused, Reuse, KeepFirst, ResolveEdge
  <2> QED
    BY <1>1, <1>2, <2>1, OccupiedKeeps
<1>6. CASE Unparseable
  <2>1. Drop /\ ResolveEdge /\ eff.kind = "other"
    BY <1>6 DEF Unparseable, ResolveEdge, AtEdge
  <2>2. ASSUME NEW f, Follows(tree, depsOf, queue, f)
        PROVE  ~Counts(f[1][1], Wanted(tree, depsOf, f[1]))
    BY <1>2, <2>1, <2>2, EdgeFacts DEF Counts
  <2> QED
    BY <1>1, <1>2, <2>1, <2>2, DropKeeps
<1>7. CASE ExoticPlaced
  <2>1. AtEdge("exotic") /\ ~Occupied(edge.req, edge.name) /\ Put(ExoticInstance) /\ ResolveEdge /\ eff.kind = "exotic"
    BY <1>7 DEF ExoticPlaced, ResolveEdge, AtEdge
  <2>2. /\ ExoticInstance \in Instances /\ ExoticInstance.name = edge.name /\ Meets(ExoticInstance, eff)
        /\ ExoticInstance.src # NoSource
    BY <2>1, ExoticFacts
  <2> QED
    BY <1>1, <1>2, <2>1, <2>2, PutKeeps
<1>8. CASE Place
  <2>1. AtNewRange /\ Candidates # {} /\ ~Occupied(edge.req, edge.name) /\ Put(RegistryInstance) /\ ResolveEdge
        /\ eff.kind = "range"
    BY <1>8 DEF Place, ResolveEdge, AtNewRange, AtEdge
  <2>2. /\ RegistryInstance \in Instances /\ RegistryInstance.name = edge.name /\ Meets(RegistryInstance, eff)
        /\ RegistryInstance.ver \in Versions /\ floors[edge.name] <= RegistryInstance.ver
    BY <2>1, RegistryFacts
  <2> QED
    BY <1>1, <1>2, <2>1, <2>2, PutKeeps
<1>9. CASE DepsFail
  <2> DEFINE g == Target(edge.req, edge.name)
             x == Append(g, edge.name)
  <2>1. AtNewRange /\ Candidates # {} /\ ResolveEdge /\ status' = "error" /\ UNCHANGED <<queue, depsOf>>
        /\ tree' = With(tree, x, RegistryInstance)
    BY <1>9 DEF DepsFail, ResolveEdge, PutAt, With
  <2>2. /\ RegistryInstance \in Instances /\ RegistryInstance.name = edge.name
        /\ RegistryInstance.ver \in Versions /\ floors[edge.name] <= RegistryInstance.ver
    BY <2>1, RegistryFacts
  <2>3. g \in NodesOf(tree)
    <3>1. PICK f : Follows(tree, depsOf, queue, f)
      BY <1>2, <2>1 DEF WalkInv, Breadth
    <3>2. edge.req \in NodesOf(tree)
      BY <1>2, <2>1, <3>1, EdgeFacts
    <3> QED
      BY <3>2 DEF Target, NodesOf
  <2>4. Grown(tree')
    <3>1. Grown(tree)
      BY DEF WalkInv, WalkShape
    <3>2. Grown(With(tree, Append(g, RegistryInstance.name), RegistryInstance))
      <4> HIDE DEF g
      <4> QED
        BY <2>2, <2>3, <3>1, GrownMore
    <3> QED
      BY <2>1, <2>2, <3>2
  <2>5. FloorsKept(tree', floors)
    BY <2>1, <2>2 DEF FloorsKept, With, WalkInv, WalkShape
  <2>6. DOMAIN tree \subseteq DOMAIN tree'
    BY <2>1 DEF With
  <2> QED
    BY <1>1, <1>2, <2>1, <2>4, <2>5, <2>6, FailKeeps
<1>10. CASE Done
  <2>1. UNCHANGED <<tree, queue, depsOf, asked, settings>> /\ status = "running" /\ status' = "done" /\ queue = <<>>
    BY <1>1, <1>10 DEF Done
  <2>2. WalkShape'
    BY <2>1 DEF WalkInv, WalkShape, settings
  <2>3. Breadth'
    BY <2>1 DEF WalkInv, Breadth
  <2> QED
    BY <2>2, <2>3 DEF WalkInv
<1> QED
  BY <1>1, <1>3, <1>4, <1>5, <1>6, <1>7, <1>8, <1>9, <1>10 DEF ResolveEdge

(* A walk that starts with the dependencies of the root.                    *)
LEMMA WalkStarts ==
  ASSUME NEW t, DOMAIN t = {}, NEW D, D \in [DOMAIN D -> Declared], RootInstance \in DOMAIN D
  PROVE  /\ Grown(t) /\ \A fl : FloorsKept(t, fl)
         /\ Known(t, D)
         /\ Follows(t, D, Edges(Root, D[RootInstance]), [i \in 1..Len(D[RootInstance]) |-> <<Root, i>>])
<1> DEFINE deps == D[RootInstance]
           n == Len(deps)
           q == Edges(Root, deps)
           f == [i \in 1..n |-> <<Root, i>>]
<1>1. Grown(t) /\ \A fl : FloorsKept(t, fl)
  BY DEF Grown, FloorsKept, Root
<1>2. NodesOf(t) = {Root} /\ KeyAt(t, Root) = RootInstance
  BY DEF NodesOf, KeyAt
<1>3. Known(t, D) /\ DepsIn(t, D, Root) = deps
  BY <1>2 DEF Known, DepsIn
<1>4. n \in Nat /\ \A i \in 1..n : deps[i] \in [name : Names, spec : Specifiers, optional : BOOLEAN]
  BY DeclaredFacts
<1>5. q \in Seq(Edge) /\ Len(q) = n /\ \A i \in 1..n : q[i] = EdgeAt(Root, deps[i])
  <2>1. \A i \in 1..n : EdgeAt(Root, deps[i]) \in Edge
    BY <1>4 DEF EdgeAt, Edge, Root, NodePaths
  <2>2. q = [i \in 1..n |-> EdgeAt(Root, deps[i])]
    BY DEF Edges, EdgeAt
  <2> HIDE DEF q, deps, n
  <2> QED
    BY <1>4, <2>1, <2>2
<1>6. Open(f, n) = Slots(t, D)
  <2>1. \A s \in Slots(t, D) : s = <<Root, s[2]>> /\ s[2] \in 1..n
    BY <1>2, <1>3, <1>4 DEF Slots
  <2>2. \A i \in 1..n : <<Root, i>> \in Slots(t, D)
    BY <1>2, <1>3, <1>4 DEF Slots
  <2> QED
    BY <2>1, <2>2 DEF Open
<1>7. \A i \in 1..n : f[i] \in Slots(t, D) /\ q[i] = EdgeAt(f[i][1], Wanted(t, D, f[i]))
  BY <1>3, <1>5, <1>6 DEF Open, Wanted
<1>8. InOrder(f, n)
  <2>1. Under(Root) = {}
    BY DEF Under, Root
  <2> QED
    BY <1>4, <2>1 DEF InOrder
<1>9. Sound(t, D, Slots(t, D))
  <2>1. InTurn(t, D, Slots(t, D))
    <3> SUFFICES ASSUME NEW s \in Slots(t, D), NEW m \in (s[2] + 1)..Len(DepsIn(t, D, s[1]))
                 PROVE  <<s[1], m>> \in Slots(t, D)
      BY DEF InTurn
    <3>1. s[1] = Root /\ s[2] \in Nat \ {0} /\ m \in Nat \ {0} /\ m <= n
      BY <1>2, <1>3, <1>4 DEF Slots
    <3> QED
      BY <1>2, <1>3, <3>1 DEF Slots
  <2>2. AncestorsDone(t, D, Slots(t, D)) /\ AllHeld(t, D, Slots(t, D))
    BY DEF AncestorsDone, AllHeld
  <2>3. OwnHeld(t, D, Slots(t, D))
    BY DEF OwnHeld
  <2> QED
    BY <2>1, <2>2, <2>3 DEF Sound
<1>10. Follows(t, D, q, f)
  <2> HIDE DEF q, f, n
  <2> QED
    BY <1>5, <1>6, <1>7, <1>8, <1>9 DEF Follows
<1> QED
  BY <1>1, <1>3, <1>10

--------------------------------------------------------------------------------
LEMMA RequiredFacts ==
  ASSUME NEW kinds, NEW pd \in Required(kinds)
  PROVE  /\ pd[1] \in NodesOf(tree)
         /\ \E i \in 1..Len(DepsAt(pd[1])) : pd[2] = DepsAt(pd[1])[i]
         /\ ~pd[2].optional /\ Kind(pd[1], pd[2]) \in kinds
<1>1. PICK p \in DOMAIN tree \cup {Root} : pd \in {p} \X Declares(p)
  BY DEF Required
<1>2. pd[1] = p /\ pd[2] \in Declares(p)
  BY <1>1
<1> QED
  BY <1>1, <1>2 DEF Required, Declares, NodesOf

LEMMA SameDeps ==
  ASSUME NEW p
  PROVE  DepsAt(p) = DepsIn(tree, depsOf, p)
BY DEF DepsAt, DepsIn, At, Key, KeyAt, RootInstance

(* A required edge is in the queue, or held.                                *)
LEMMA EdgesHeld ==
  ASSUME WalkInv, status # "error", NEW p \in NodesOf(tree), NEW l \in 1..Len(DepsAt(p)),
         ~DepsAt(p)[l].optional, Kind(p, DepsAt(p)[l]) \in {"range", "exotic"}
  PROVE  InQueue(p, DepsAt(p)[l]) \/ Held(tree, depsOf, <<p, l>>)
<1> DEFINE s == <<p, l>>
           d == DepsAt(p)[l]
<1>1. PICK f : Follows(tree, depsOf, queue, f)
  BY DEF WalkInv, Breadth
<1>2. DepsAt(p) = DepsIn(tree, depsOf, p)
  BY SameDeps
<1>3. Len(DepsAt(p)) \in Nat
  <2>1. DepsIn(tree, depsOf, p) \in Declared
    BY DEF WalkInv, Breadth, Known, DepsIn
  <2> QED
    BY <1>2, <2>1, DeclaredFacts
<1>4. s \in Slots(tree, depsOf) /\ s[1] = p /\ Wanted(tree, depsOf, s) = d
  <2>1. l \in Nat \ {0} /\ l <= Len(DepsAt(p))
    BY <1>3
  <2> QED
    BY <1>2, <2>1 DEF Slots, Wanted
<1>5. CASE s \in Open(f, Len(queue))
  <2>1. PICK i \in 1..Len(queue) : s = f[i]
    BY <1>5 DEF Open
  <2>2. queue[i] = EdgeAt(f[i][1], Wanted(tree, depsOf, f[i]))
    BY <1>1 DEF Follows
  <2>3. queue[i] = EdgeAt(p, d)
    BY <1>4, <2>1, <2>2
  <2>4. queue[i].req = p /\ queue[i].name = d.name /\ queue[i].spec = d.spec
    BY <2>3 DEF EdgeAt
  <2> QED
    BY <2>4 DEF InQueue
<1>6. CASE s \notin Open(f, Len(queue))
  BY <1>1, <1>4, <1>6 DEF Follows, Sound, AllHeld, Counts, Kind
<1> QED
  BY <1>5, <1>6

LEMMA FindsMeans ==
  ASSUME NEW from, NEW p, NEW d
  PROVE  Finds(from, p, d) <=> FindsIn(tree, from, p, d)
BY SameLookup DEF Finds, FindsIn

LEMMA HeldMeans ==
  ASSUME Known(tree, depsOf), NEW p \in NodesOf(tree), NEW l \in 1..Len(DepsAt(p)),
         Held(tree, depsOf, <<p, l>>)
  PROVE  LET d == DepsAt(p)[l] IN
         \/ Resolves(p, d)
         \/ /\ \E e \in Twins(p, d) : Resolves(p, e)
            /\ (\A k \in 1..(l - 1) : DepsAt(p)[k].name # d.name) => ResolvesAbove(p, d)
<1> DEFINE d == DepsAt(p)[l]
           s == <<p, l>>
<1>1. DepsAt(p) = DepsIn(tree, depsOf, p)
  BY SameDeps
<1>2. s[1] = p /\ s[2] = l /\ Wanted(tree, depsOf, s) = d
  BY <1>1 DEF Wanted
<1>3. CASE FindsIn(tree, p, p, d)
  BY <1>3, FindsMeans DEF Resolves
<1>4. CASE TwinFound(tree, depsOf, s) /\ (FirstSlot(tree, depsOf, s) => AboveIn(tree, p, d))
  <2>1. PICK r \in Slots(tree, depsOf) :
          /\ r[1] = p /\ Wanted(tree, depsOf, r).name = d.name
          /\ Counts(r[1], Wanted(tree, depsOf, r)) /\ FindsIn(tree, r[1], r[1], Wanted(tree, depsOf, r))
    BY <1>2, <1>4 DEF TwinFound
  <2> DEFINE e == Wanted(tree, depsOf, r)
  <2>2. e \in Declares(p)
    <3>1. e = DepsAt(p)[r[2]]
      BY <1>1, <2>1 DEF Wanted
    <3>2. r[2] \in 1..Len(DepsAt(p))
      <4>1. r[2] \in Nat \ {0} /\ r[2] <= Len(DepsAt(p))
        BY <1>1, <2>1 DEF Slots
      <4>2. Len(DepsAt(p)) \in Nat
        BY <1>1, DeclaredFacts DEF Known, DepsIn
      <4> QED
        BY <4>1, <4>2
    <3> QED
      BY <3>1, <3>2 DEF Declares
  <2>3. e \in Twins(p, d) /\ Resolves(p, e)
    BY <2>1, <2>2, FindsMeans DEF Twins, Counts, Kind, Resolves
  <2>4. (\A k \in 1..(l - 1) : DepsAt(p)[k].name # d.name) => FirstSlot(tree, depsOf, s)
    BY <1>1, <1>2 DEF FirstSlot, Wanted
  <2>5. AboveIn(tree, p, d) => ResolvesAbove(p, d)
    BY FindsMeans DEF AboveIn, ResolvesAbove
  <2> QED
    BY <1>4, <2>3, <2>4, <2>5
<1> QED
  BY <1>2, <1>3, <1>4 DEF Held

LEMMA EdgesFollow ==
  ASSUME WalkInv
  PROVE  EdgesResolve
<1> SUFFICES ASSUME status # "error", NEW pd \in Required({"range", "exotic"}), ~InQueue(pd[1], pd[2])
             PROVE  \/ Resolves(pd[1], pd[2])
                    \/ /\ \E e \in Twins(pd[1], pd[2]) : Resolves(pd[1], e)
                       /\ IsFirst(pd[1], pd[2]) => ResolvesAbove(pd[1], pd[2])
  BY DEF EdgesResolve
<1> DEFINE p == pd[1]
           d == pd[2]
<1>1. /\ p \in NodesOf(tree) /\ ~d.optional /\ Kind(p, d) \in {"range", "exotic"}
      /\ \E i \in 1..Len(DepsAt(p)) : d = DepsAt(p)[i]
  BY RequiredFacts
<1> HIDE DEF p, d
<1>2. PICK l \in 1..Len(DepsAt(p)) :
        d = DepsAt(p)[l] /\ (IsFirst(p, d) => \A k \in 1..(l - 1) : DepsAt(p)[k].name # d.name)
  <2>1. CASE IsFirst(p, d)
    BY <2>1 DEF IsFirst
  <2>2. CASE ~IsFirst(p, d)
    BY <1>1, <2>2
  <2> QED
    BY <2>1, <2>2
<1>3. Held(tree, depsOf, <<p, l>>)
  <2>1. ~InQueue(p, d)
    BY DEF p, d
  <2> QED
    BY <1>1, <1>2, <2>1, EdgesHeld
<1>4. \/ Resolves(p, d)
      \/ /\ \E e \in Twins(p, d) : Resolves(p, e)
         /\ (\A k \in 1..(l - 1) : DepsAt(p)[k].name # d.name) => ResolvesAbove(p, d)
  <2>1. Known(tree, depsOf)
    BY DEF WalkInv, Breadth
  <2> QED
    BY <1>1, <1>2, <1>3, <2>1, HeldMeans
<1> QED
  BY <1>2, <1>4 DEF p, d

(* Where no alias plays a part, the install paths are the nodes.            *)
LEMMA PathsAreNodes ==
  ASSUME WalkInv, NEW a \in NodePaths, NEW n \in Names,
         n \notin DOMAIN AliasOf, \A m \in DOMAIN AliasOf : AliasOf[m] # n
  PROVE  /\ Append(a, n) \in InstallPaths <=> Append(a, n) \in DOMAIN tree
         /\ Append(a, n) \in DOMAIN tree => InstalledAt(Append(a, n)) = {tree[Append(a, n)]}
<1> DEFINE q == Append(a, n)
<1>1. q \in NodePaths /\ Len(q) = Len(a) + 1 /\ q[Len(a) + 1] = n /\ Len(a) \in Nat
  BY AppendFacts, PathFacts
<1>2. InstallPath(q) = q
  <2>1. Len(q) = 1 => q[1] = n
    <3>1. Len(q) = 1 => Len(a) + 1 = 1
      BY <1>1
    <3> QED
      BY <1>1, <3>1
  <2> QED
    BY <2>1 DEF InstallPath
<1> HIDE DEF q
<1>3. ASSUME NEW r \in DOMAIN tree, InstallPath(r) = q PROVE r = q
  <2>1. CASE Len(r) = 1 /\ r[1] \in DOMAIN AliasOf
    <3>1. q = <<AliasOf[r[1]]>>
      BY <1>3, <2>1 DEF InstallPath
    <3>2. Len(q) = 1 /\ q[1] = AliasOf[r[1]]
      BY <3>1
    <3>3. Len(a) + 1 = 1
      BY <1>1, <3>2
    <3>4. q[1] = n
      BY <1>1, <3>3
    <3> QED
      BY <2>1, <3>2, <3>4
  <2>2. CASE ~(Len(r) = 1 /\ r[1] \in DOMAIN AliasOf)
    BY <1>3, <2>2 DEF InstallPath
  <2> QED
    BY <2>1, <2>2
<1>4. q \in InstallPaths <=> q \in DOMAIN tree
  BY <1>2, <1>3 DEF InstallPaths
<1>5. q \in DOMAIN tree => InstalledAt(q) = {tree[q]}
  BY <1>2, <1>3 DEF InstalledAt
<1> QED
  BY <1>4, <1>5 DEF q

LEMMA EdgesLead ==
  ASSUME WalkInv
  PROVE  EdgesLeadToChoice
<1> SUFFICES ASSUME status = "done", NEW pd \in NodeEdges({"range", "exotic"}), ~Moved(pd[1], pd[2])
             PROVE  ResolveEdgeVersion(InstallPath(pd[1]), pd[2].name) = {Nearest(pd[1], pd[2].name)}
  BY DEF EdgesLeadToChoice
<1> DEFINE p == pd[1]
           d == pd[2]
           n == d.name
<1>1. pd \in Required({"range", "exotic"})
  BY DEF NodeEdges
<1>2. p \in NodesOf(tree) /\ \E i \in 1..Len(DepsAt(p)) : d = DepsAt(p)[i]
  BY <1>1, RequiredFacts
<1>3. Grown(tree) /\ Known(tree, depsOf) /\ queue = <<>>
  BY DEF WalkInv, WalkShape, Breadth
<1>4. p \in NodePaths /\ n \in Names
  <2>1. Root \in NodePaths
    BY DEF Root, NodePaths
  <2>2. DepsAt(p) \in Declared
    BY <1>2, <1>3, SameDeps DEF Known, DepsIn
  <2>3. d \in [name : Names, spec : Specifiers, optional : BOOLEAN]
    BY <1>2, <2>2, DeclaredFacts
  <2> QED
    BY <1>2, <1>3, <2>1, <2>3 DEF Grown, NodesOf
<1>5. Visible(p, n)
  <2>1. EdgesResolve
    BY EdgesFollow
  <2>2. ~InQueue(p, d)
    BY <1>3 DEF InQueue
  <2>3. Resolves(p, d) \/ \E e \in Twins(p, d) : Resolves(p, e)
    BY <1>1, <2>1, <2>2 DEF EdgesResolve
  <2> QED
    BY <2>3 DEF Resolves, Finds, Twins
<1>6. InstallPath(p) = p /\ n \notin DOMAIN AliasOf /\ \A m \in DOMAIN AliasOf : AliasOf[m] # n
  BY DEF Moved
<1> HIDE DEF p, d, n
<1>7. \A k \in 0..Len(p) :
        /\ Append(SubSeq(p, 1, k), n) \in InstallPaths <=> Append(SubSeq(p, 1, k), n) \in DOMAIN tree
        /\ Append(SubSeq(p, 1, k), n) \in DOMAIN tree =>
             InstalledAt(Append(SubSeq(p, 1, k), n)) = {tree[Append(SubSeq(p, 1, k), n)]}
  <2>1. \A k \in 0..Len(p) : SubSeq(p, 1, k) \in NodePaths
    BY <1>4, PathFacts
  <2> QED
    BY <1>4, <1>6, <2>1, PathsAreNodes
<1> DEFINE held == {k \in 0..Len(p) : Append(SubSeq(p, 1, k), n) \in InstallPaths}
<1>8. held = HeldIn(DOMAIN tree, p, n)
  BY <1>7 DEF HeldIn
<1>9. HeldIn(DOMAIN tree, p, n) # {} /\ Nearest(p, n) = tree[FoundIn(DOMAIN tree, p, n)]
  BY <1>5, SameLookup
<1>10. MaxOf(HeldIn(DOMAIN tree, p, n)) \in HeldIn(DOMAIN tree, p, n)
  BY <1>4, <1>9, HeldFacts
<1>11. InstalledAt(FoundIn(DOMAIN tree, p, n)) = {Nearest(p, n)}
  BY <1>7, <1>9, <1>10 DEF HeldIn, FoundIn
<1>12. ResolveEdgeVersion(p, n) = InstalledAt(FoundIn(DOMAIN tree, p, n))
  <2>1. ResolveEdgeVersion(p, n) = IF held = {} THEN {} ELSE InstalledAt(Append(SubSeq(p, 1, MaxOf(held)), n))
    BY DEF ResolveEdgeVersion, MaxOf
  <2> HIDE DEF held
  <2> QED
    BY <1>8, <1>9, <2>1 DEF FoundIn
<1> QED
  BY <1>6, <1>11, <1>12 DEF p, d, n

--------------------------------------------------------------------------------
(* The records: away from packages that were placed in two versions they    *)
(* are what was seen, and until a walk has raised them they are its floors. *)
TrustTypes ==
  /\ trust \in BOOLEAN /\ recorded \in BOOLEAN /\ flaw \in BOOLEAN
  /\ mark \in [Names -> Versions \cup {NoVersion}] /\ seen \in [Names -> Versions \cup {NoVersion}]
  /\ stamp \in [Names -> 0..walks] /\ horizon \in 0..walks /\ walks \in 1..MaxWalks
  /\ split \subseteq Names /\ root \in RootDeps

TrustInv ==
  /\ WalkInv /\ TrustTypes
  /\ \A n \in Names \ split : mark[n] = seen[n]
  /\ \A n \in Names : stamp[n] = 0 => mark[n] = NoVersion
  /\ recorded => status = "done" /\ NoDowngrade
  /\ trust /\ horizon = 0 /\ ~recorded => \A n \in Names \ split : mark[n] <= floors[n]

LEMMA PlacedFacts ==
  ASSUME WalkInv, NEW n \in Names
  PROVE  /\ Placed(n) \subseteq Versions /\ Placed(n) \subseteq Nat /\ IsFiniteSet(Placed(n))
         /\ \A v \in Placed(n) : floors[n] <= v
         /\ Placed(n) # {} => Picked(n) \in Placed(n) /\ MaxOf(Placed(n)) \in Placed(n)
         /\ Cardinality(Placed(n)) <= 1 => \A v, w \in Placed(n) : v = w
<1>1. Placed(n) \subseteq Versions /\ \A v \in Placed(n) : floors[n] <= v
  BY DEF WalkInv, WalkShape, Grown, FloorsKept, Placed
<1>2. Placed(n) \subseteq Nat /\ Versions \subseteq Nat /\ IsFiniteSet(Versions)
  BY <1>1, ResolverAssumption
<1>3. IsFiniteSet(Placed(n))
  BY <1>1, <1>2, FS_Subset
<1>4. ASSUME Placed(n) # {} PROVE Picked(n) \in Placed(n)
  <2> DEFINE R == {TextRank[v] : v \in Placed(n)}
  <2>1. R \subseteq Nat /\ R # {}
    BY <1>1, <1>4, TrustAssumption
  <2>2. IsFiniteSet(R)
    <3> DEFINE h == [v \in Placed(n) |-> TextRank[v]]
    <3>1. h \in Surjection(Placed(n), R)
      BY DEF Surjection
    <3> HIDE DEF h, R
    <3> QED
      BY <1>3, <3>1, FS_Surjection
  <2>3. MaxOf(R) \in R /\ \A l \in R : l <= MaxOf(R)
    <3>1. R \subseteq Int
      BY <2>1
    <3> HIDE DEF R
    <3> QED
      BY <2>1, <2>2, <3>1, MaxFacts
  <2>4. \E v \in Placed(n) : \A w \in Placed(n) : TextRank[w] <= TextRank[v]
    BY <2>3
  <2> QED
    BY <2>4 DEF Picked
<1>5. Placed(n) # {} => MaxOf(Placed(n)) \in Placed(n)
  BY <1>2, <1>3, MaxFacts
<1>6. ASSUME NEW v \in Placed(n), NEW w \in Placed(n), v # w PROVE ~(Cardinality(Placed(n)) <= 1)
  <2>1. IsFiniteSet({v}) /\ Cardinality({v}) = 1
    BY FS_Singleton
  <2>2. IsFiniteSet({v} \cup {w}) /\ Cardinality({v} \cup {w}) = 2
    <3>1. w \notin {v}
      BY <1>6
    <3>2. IsFiniteSet({v} \cup {w}) /\ Cardinality({v} \cup {w}) = Cardinality({v}) + 1
      BY <2>1, <3>1, FS_AddElement, Zenon
    <3> QED
      BY <2>1, <3>2
  <2>3. {v} \cup {w} \subseteq Placed(n)
    OBVIOUS
  <2>4. Cardinality({v} \cup {w}) <= Cardinality(Placed(n)) /\ Cardinality(Placed(n)) \in Nat
    BY <1>3, <2>3, FS_Subset, FS_CardinalityType
  <2> QED
    BY <2>2, <2>4
<1> QED
  BY <1>1, <1>2, <1>3, <1>4, <1>5, <1>6

(* Before the records are raised the floors hold for what is placed.        *)
LEMMA FloorsHold ==
  ASSUME WalkInv, TrustTypes, \A n \in Names \ split : mark[n] = seen[n],
         trust, horizon = 0, \A n \in Names \ split : mark[n] <= floors[n],
         NEW n \in Names \ split, NEW v \in Placed(n)
  PROVE  seen[n] <= v
<1>1. v \in Nat /\ floors[n] <= v
  BY PlacedFacts
<1>2. seen[n] \in Nat /\ floors[n] \in Nat /\ seen[n] <= floors[n]
  BY ResolverAssumption DEF TrustTypes, WalkInv, WalkShape, NoVersion
<1> QED
  BY <1>1, <1>2

LEMMA RecordsKept ==
  ASSUME TrustInv
  PROVE  NoDowngrade
<1>1. CASE recorded
  BY <1>1 DEF TrustInv
<1>2. CASE ~recorded
  BY <1>2, FloorsHold DEF TrustInv, NoDowngrade
<1> QED
  BY <1>1, <1>2

LEMMA WalkStays ==
  ASSUME WalkInv, UNCHANGED vars
  PROVE  WalkInv'
BY DEF WalkInv, WalkShape, Breadth, vars, walkVars, settings

LEMMA TrustStarts ==
  ASSUME TrustInit
  PROVE  TrustInv
<1>1. PICK deps \in RootDeps : queue = Edges(Root, deps) /\ depsOf = [i \in {RootInstance} |-> deps]
  BY DEF TrustInit, Init
<1>2. deps \in Declared
  BY ResolverAssumption
<1>3. DOMAIN tree = {} /\ DOMAIN depsOf = {RootInstance} /\ depsOf[RootInstance] = deps
      /\ depsOf \in [DOMAIN depsOf -> Declared]
  BY <1>1, <1>2 DEF TrustInit, Init
<1>4. /\ Grown(tree) /\ FloorsKept(tree, floors) /\ Known(tree, depsOf)
      /\ Follows(tree, depsOf, queue, [i \in 1..Len(deps) |-> <<Root, i>>])
  BY <1>1, <1>3, WalkStarts
<1>5. Breadth
  BY <1>4 DEF Breadth
<1>6. queue \in Seq(Edge) /\ \A i \in 1..Len(queue) : queue[i].req \in NodesOf(tree)
  <2>1. queue \in Seq(Edge)
    BY <1>4 DEF Follows
  <2>2. Len(queue) = Len(deps) /\ \A i \in 1..Len(deps) : queue[i].req = Root
    BY <1>1, <1>2, DeclaredFacts DEF Edges
  <2> QED
    BY <2>1, <2>2 DEF NodesOf
<1>7. WalkShape
  <2>1. age \in Ages
    BY DEF TrustInit, Init
  <2>2. floors \in [Names -> Versions \cup {NoVersion}]
    BY DEF TrustInit, Init, NoFloors
  <2> QED
    BY <1>3, <1>4, <1>6, <2>1, <2>2 DEF WalkShape, TrustInit, Init
<1>8. TrustTypes
  <2>1. root \in RootDeps
    BY <1>3 DEF TrustInit
  <2>2. trust \in BOOLEAN
    BY TrustAssumption DEF TrustInit
  <2>3. walks \in 1..MaxWalks
    BY TrustAssumption DEF TrustInit
  <2>4. mark = NoFloors /\ seen = NoFloors /\ NoFloors \in [Names -> Versions \cup {NoVersion}]
    BY DEF TrustInit, NoFloors
  <2>5. stamp \in [Names -> 0..walks] /\ horizon \in 0..walks
    BY <2>3 DEF TrustInit
  <2>6. recorded \in BOOLEAN /\ flaw \in BOOLEAN /\ split \subseteq Names
    BY DEF TrustInit
  <2> QED
    BY <2>1, <2>2, <2>3, <2>4, <2>5, <2>6 DEF TrustTypes
<1>9. /\ \A n \in Names : mark[n] = seen[n] /\ mark[n] = NoVersion /\ mark[n] <= floors[n]
      /\ ~recorded
  BY DEF TrustInit, Init, NoFloors, NoVersion
<1> QED
  BY <1>5, <1>7, <1>8, <1>9 DEF TrustInv, WalkInv

LEMMA UpdateStep ==
  ASSUME TrustInv, Update
  PROVE  TrustInv'
<1>1. /\ WalkInv /\ TrustTypes /\ status = "done" /\ trust /\ ~recorded
      /\ UNCHANGED <<vars, trust, horizon, walks, root, flaw>> /\ recorded' = TRUE
      /\ mark' = [n \in Names |-> IF Raises(n) THEN Picked(n) ELSE mark[n]]
      /\ stamp' = [n \in Names |-> IF Raises(n) THEN walks ELSE stamp[n]]
      /\ seen' = [n \in Names |-> IF \E v \in Placed(n) : seen[n] < v THEN MaxOf(Placed(n)) ELSE seen[n]]
      /\ split' = split \cup {n \in Names : Cardinality(Placed(n)) > 1}
  BY DEF TrustInv, Update, MaxOf
<1>2. WalkInv' /\ UNCHANGED <<status, tree, floors>>
  <2>1. UNCHANGED <<status, tree, floors>>
    BY <1>1 DEF vars, walkVars, settings
  <2> QED
    BY <1>1, <2>1, WalkStays
<1>3. \A n \in Names : Raises(n) => Picked(n) \in Placed(n) /\ Placed(n) # {} /\ mark[n] < Picked(n)
  BY <1>1, PlacedFacts DEF Raises
<1>4. TrustTypes'
  <2>1. \A n \in Names : Raises(n) => Picked(n) \in Versions
    BY <1>1, <1>3, PlacedFacts
  <2>2. \A n \in Names : (\E v \in Placed(n) : seen[n] < v) => MaxOf(Placed(n)) \in Versions
    BY <1>1, PlacedFacts
  <2>3. walks \in 0..walks
    BY <1>1, TrustAssumption DEF TrustTypes
  <2>4. mark' \in [Names -> Versions \cup {NoVersion}] /\ seen' \in [Names -> Versions \cup {NoVersion}]
    BY <1>1, <2>1, <2>2 DEF TrustTypes
  <2>5. stamp' \in [Names -> 0..walks'] /\ horizon' \in 0..walks' /\ walks' \in 1..MaxWalks
    BY <1>1, <2>3 DEF TrustTypes
  <2>6. split' \subseteq Names /\ root' \in RootDeps /\ trust' \in BOOLEAN /\ recorded' \in BOOLEAN /\ flaw' \in BOOLEAN
    BY <1>1 DEF TrustTypes
  <2> QED
    BY <2>4, <2>5, <2>6 DEF TrustTypes
<1>5. ASSUME NEW n \in Names \ split'
      PROVE  /\ n \in Names \ split /\ mark[n] = seen[n] /\ \A v, w \in Placed(n) : v = w
             /\ mark[n] \in Nat /\ seen[n] \in Nat /\ Placed(n) \subseteq Nat
  <2>1. n \in Names \ split /\ mark[n] = seen[n]
    BY <1>1, <1>5 DEF TrustInv
  <2>2. Cardinality(Placed(n)) <= 1
    <3>1. Cardinality(Placed(n)) \in Nat /\ ~(Cardinality(Placed(n)) > 1)
      BY <1>1, <1>5, PlacedFacts, FS_CardinalityType
    <3> QED
      BY <3>1
  <2>3. mark[n] \in Nat /\ seen[n] \in Nat /\ Placed(n) \subseteq Nat
    BY <1>1, <2>1, ResolverAssumption, PlacedFacts DEF TrustTypes, NoVersion
  <2> QED
    BY <1>1, <2>1, <2>2, <2>3, PlacedFacts
<1>6. ASSUME NEW n \in Names \ split' PROVE mark'[n] = seen'[n]
  <2>1. n \in Names
    BY <1>5, <1>6
  <2>2. CASE \E v \in Placed(n) : seen[n] < v
    <3>1. MaxOf(Placed(n)) = Picked(n) /\ Raises(n)
      <4>1. Placed(n) # {} /\ Picked(n) \in Placed(n) /\ MaxOf(Placed(n)) \in Placed(n)
        BY <1>1, <2>1, <2>2, PlacedFacts
      <4>2. MaxOf(Placed(n)) = Picked(n) /\ mark[n] < Picked(n)
        BY <1>5, <1>6, <2>2, <4>1
      <4> QED
        BY <4>1, <4>2 DEF Raises
    <3> QED
      BY <1>1, <2>1, <2>2, <3>1
  <2>3. CASE ~ \E v \in Placed(n) : seen[n] < v
    <3>1. ~Raises(n)
      BY <1>3, <1>5, <1>6, <2>1, <2>3
    <3> QED
      BY <1>1, <1>5, <1>6, <2>1, <2>3, <3>1
  <2> QED
    BY <2>2, <2>3
<1>7. ASSUME NEW n \in Names, stamp'[n] = 0 PROVE mark'[n] = NoVersion
  <2>1. walks # 0
    BY <1>1, TrustAssumption DEF TrustTypes
  <2>2. ~Raises(n)
    BY <1>1, <1>7, <2>1
  <2> QED
    BY <1>1, <1>7, <2>2 DEF TrustInv
<1>8. NoDowngrade'
  <2>1. \A n : Placed(n)' = Placed(n)
    BY <1>2 DEF Placed
  <2>2. ASSUME trust', horizon' = 0, NEW n \in Names \ split', NEW v \in Placed(n) PROVE seen'[n] <= v
    <3>1. n \in Names \ split /\ v \in Nat /\ seen[n] \in Nat /\ \A w \in Placed(n) : w = v
      BY <1>5, <2>2
    <3>2. seen[n] <= v
      BY <1>1, <2>2, <3>1, FloorsHold DEF TrustInv
    <3>3. CASE \E w \in Placed(n) : seen[n] < w
      <4>1. MaxOf(Placed(n)) \in Placed(n)
        BY <1>1, <2>2, <3>1, PlacedFacts
      <4>2. seen'[n] = v
        BY <1>1, <3>1, <3>3, <4>1
      <4> QED
        BY <3>1, <4>2
    <3>4. CASE ~ \E w \in Placed(n) : seen[n] < w
      BY <1>1, <3>1, <3>2, <3>4
    <3> QED
      BY <3>3, <3>4
  <2> QED
    BY <2>1, <2>2 DEF NoDowngrade
<1> QED
  BY <1>1, <1>2, <1>4, <1>6, <1>7, <1>8 DEF TrustInv

LEMMA LoseStep ==
  ASSUME TrustInv, Lose
  PROVE  TrustInv'
<1>1. /\ WalkInv /\ TrustTypes /\ UNCHANGED <<vars, trust, horizon, walks, recorded, root, flaw>>
      /\ mark' = NoFloors /\ stamp' = [n \in Names |-> 0] /\ seen' = NoFloors /\ split' = {}
  BY DEF TrustInv, Lose
<1>2. WalkInv' /\ UNCHANGED <<status, tree, floors>>
  <2>1. UNCHANGED <<status, tree, floors>>
    BY <1>1 DEF vars, walkVars, settings
  <2> QED
    BY <1>1, <2>1, WalkStays
<1>3. TrustTypes'
  <2>1. NoFloors \in [Names -> Versions \cup {NoVersion}]
    BY DEF NoFloors
  <2>2. stamp' \in [Names -> 0..walks']
    BY <1>1, TrustAssumption DEF TrustTypes
  <2> QED
    BY <1>1, <2>1, <2>2 DEF TrustTypes
<1>4. \A n \in Names : mark'[n] = 0 /\ seen'[n] = 0 /\ floors'[n] \in Nat
  BY <1>1, <1>2, ResolverAssumption DEF NoFloors, NoVersion, WalkInv, WalkShape
<1>5. NoDowngrade'
  <2>1. \A n \in Names : Placed(n)' \subseteq Nat
    <3>1. \A n \in Names : Placed(n)' = Placed(n)
      BY <1>2 DEF Placed
    <3> QED
      BY <1>1, <3>1, PlacedFacts
  <2> QED
    BY <1>4, <2>1 DEF NoDowngrade
<1> QED
  BY <1>1, <1>2, <1>3, <1>4, <1>5 DEF TrustInv, NoVersion

LEMMA NewWalkStep ==
  ASSUME TrustInv, NEW deps \in Edits[root], NEW p \in Policies, NewWalk(deps, p)
  PROVE  TrustInv'
<1>1. WalkInv /\ TrustTypes /\ p.trust \in BOOLEAN /\ p.age \in Ages /\ deps \in RootDeps /\ deps \in Declared
  BY TrustAssumption, ResolverAssumption DEF TrustInv, TrustTypes
<1>2. /\ DOMAIN tree' = {} /\ depsOf' \in [DOMAIN depsOf' -> Declared] /\ RootInstance \in DOMAIN depsOf'
      /\ depsOf'[RootInstance] = deps /\ queue' = Edges(Root, deps) /\ status' = "running" /\ asked' = {}
      /\ age' = p.age /\ trust' = p.trust /\ recorded' = FALSE /\ root' = deps /\ flaw' = FALSE
      /\ horizon' \in 0..walks /\ walks' = walks + 1 /\ walks < MaxWalks
      /\ floors' = [n \in Names |-> IF p.trust /\ stamp[n] > horizon' THEN mark[n] ELSE NoVersion]
      /\ UNCHANGED <<mark, stamp, seen, split>>
  BY <1>1 DEF NewWalk, WalkInv, WalkShape
<1>3. /\ Grown(tree') /\ FloorsKept(tree', floors') /\ Known(tree', depsOf')
      /\ Follows(tree', depsOf', queue', [i \in 1..Len(deps) |-> <<Root, i>>])
  BY <1>2, WalkStarts
<1>4. Breadth'
  BY <1>3 DEF Breadth
<1>5. queue' \in Seq(Edge) /\ \A i \in 1..Len(queue') : queue'[i].req \in NodesOf(tree')
  <2>1. queue' \in Seq(Edge)
    BY <1>3 DEF Follows
  <2>2. Len(queue') = Len(deps) /\ \A i \in 1..Len(deps) : queue'[i].req = Root
    BY <1>1, <1>2, DeclaredFacts DEF Edges
  <2> QED
    BY <2>1, <2>2 DEF NodesOf
<1>6. floors' \in [Names -> Versions \cup {NoVersion}]
  BY <1>1, <1>2 DEF TrustTypes
<1>7. WalkShape'
  BY <1>1, <1>2, <1>3, <1>5, <1>6 DEF WalkShape
<1>8. TrustTypes'
  <2>1. walks \in Nat /\ walks' \in 1..MaxWalks /\ 0..walks \subseteq 0..walks'
    BY <1>1, <1>2, TrustAssumption DEF TrustTypes
  <2>2. stamp' \in [Names -> 0..walks']
    BY <1>1, <1>2, <2>1 DEF TrustTypes
  <2> QED
    BY <1>1, <1>2, <2>1, <2>2 DEF TrustTypes
<1>9. ASSUME trust', horizon' = 0, NEW n \in Names \ split' PROVE mark'[n] <= floors'[n]
  <2>1. mark[n] \in Nat /\ stamp[n] \in Nat /\ (stamp[n] = 0 => mark[n] = 0)
    <3>1. stamp[n] \in 0..walks /\ walks \in 1..MaxWalks
      BY <1>1 DEF TrustTypes
    <3>2. mark[n] \in Nat
      BY <1>1, ResolverAssumption DEF TrustTypes, NoVersion
    <3> QED
      BY <3>1, <3>2 DEF TrustInv, NoVersion
  <2>2. floors'[n] = IF stamp[n] > 0 THEN mark[n] ELSE 0
    BY <1>2, <1>9 DEF NoVersion
  <2> QED
    BY <1>2, <2>1, <2>2
<1>10. (\A n \in Names \ split' : mark'[n] = seen'[n]) /\ (\A n \in Names : stamp'[n] = 0 => mark'[n] = NoVersion)
  BY <1>2 DEF TrustInv
<1> QED
  BY <1>2, <1>4, <1>7, <1>8, <1>9, <1>10 DEF TrustInv, WalkInv

LEMMA TrustStep ==
  ASSUME TrustInv, [TrustNext]_<<vars, trustVars, history>>
  PROVE  TrustInv'
<1>1. CASE Walk
  <2>1. /\ WalkInv /\ TrustTypes /\ Next /\ flaw' \in BOOLEAN
        /\ UNCHANGED <<trust, mark, stamp, horizon, walks, recorded, root, seen, split>>
    BY <1>1 DEF TrustInv, Walk, trustVars
  <2>2. WalkInv'
    BY <2>1, WalkStep
  <2>3. TrustTypes'
    BY <2>1 DEF TrustTypes
  <2>4. status = "running" /\ floors' = floors
    BY <2>1 DEF Next, settings, Done, ResolveEdge, Block, ExoticFails, ExoticReused, ExoticPlaced, Unparseable, Reuse,
                AskFails, AllTooYoung, NoMatch, KeepFirst, Place, DepsFail, AtNewRange, AtEdge
  <2>5. ~recorded
    BY <2>4 DEF TrustInv
  <2> QED
    BY <2>1, <2>2, <2>3, <2>4, <2>5 DEF TrustInv
<1>2. CASE Update
  BY <1>2, UpdateStep
<1>3. CASE Lose
  BY <1>3, LoseStep
<1>4. ASSUME NEW deps \in Edits[root], NEW p \in Policies, NewWalk(deps, p) PROVE TrustInv'
  BY <1>4, NewWalkStep
<1>5. CASE UNCHANGED <<vars, trustVars, history>>
  <2>1. UNCHANGED <<vars, trust, mark, stamp, horizon, walks, recorded, root, seen, split, flaw>>
    BY <1>5 DEF trustVars, history
  <2>2. WalkInv' /\ UNCHANGED <<status, tree, floors>>
    <3>1. UNCHANGED <<status, tree, floors>>
      BY <2>1 DEF vars, walkVars, settings
    <3> QED
      BY <2>1, <3>1, WalkStays DEF TrustInv
  <2>3. TrustTypes'
    BY <2>1 DEF TrustInv, TrustTypes
  <2>4. NoDowngrade' <=> NoDowngrade
    BY <2>1, <2>2 DEF NoDowngrade, Placed
  <2> QED
    BY <2>1, <2>2, <2>3, <2>4 DEF TrustInv
<1> QED
  BY <1>1, <1>2, <1>3, <1>4, <1>5 DEF TrustNext

LEMMA TrustAlways == TrustSpec => []TrustInv
<1>1. TrustInit => TrustInv
  BY TrustStarts
<1>2. TrustInv /\ [TrustNext]_<<vars, trustVars, history>> => TrustInv'
  BY TrustStep
<1> QED
  BY <1>1, <1>2, PTL DEF TrustSpec

LEMMA TypesFollow ==
  ASSUME TrustInv
  PROVE  TrustTypeOK
<1>1. WalkInv /\ TrustTypes
  BY DEF TrustInv
<1>2. TypeOK
  <2>1. ASSUME NEW p \in DOMAIN tree
        PROVE  /\ p # Root /\ p \in Seq(Names)
               /\ tree[p].name = Last(p)
               /\ tree[p].ver \in Versions \cup {NoVersion} /\ tree[p].src \in Sources \cup {NoSource}
               /\ Len(p) > 1 => SubSeq(p, 1, Len(p) - 1) \in DOMAIN tree
               /\ status # "error" => Key(tree[p]) \in DOMAIN depsOf
    <3>1. /\ p # Root /\ p \in NodePaths /\ tree[p] \in Instances /\ tree[p].name = Last(p)
          /\ \A k \in 1..Len(p) : SubSeq(p, 1, k) \in DOMAIN tree
      BY <1>1 DEF WalkInv, WalkShape, Grown
    <3>2. Len(p) > 1 => Len(p) - 1 \in 1..Len(p)
      BY <3>1, PathFacts
    <3>3. status # "error" => Key(tree[p]) \in DOMAIN depsOf
      BY <1>1, <3>1 DEF WalkInv, Breadth, Known, KeyAt, NodesOf
    <3> QED
      BY <3>1, <3>2, <3>3 DEF NodePaths, Instances
  <2> QED
    BY <1>1, <2>1 DEF TypeOK, WalkInv, WalkShape, NodesOf
<1> QED
  BY <1>1, <1>2 DEF TrustTypeOK, TrustTypes

(* The state keeps its types over all the walks of a project: a tree of     *)
(* nodes whose ancestors are nodes, with dependencies known for each        *)
(* (Resolve, place, Update).                                                *)
THEOREM TrustTypesHold == TrustSpec => []TrustTypeOK
<1>1. TrustInv => TrustTypeOK
  BY TypesFollow
<1> QED
  BY <1>1, TrustAlways, PTL

(* Every required edge that has been resolved stays resolved, whatever is   *)
(* placed after it, for any registry, overrides and settings, and graphs of *)
(* any size (Resolve, resolveEdge, placeExotic).                            *)
THEOREM ResolvedStaysResolved == TrustSpec => []EdgesResolve
<1>1. TrustInv => EdgesResolve
  BY EdgesFollow DEF TrustInv
<1> QED
  BY <1>1, TrustAlways, PTL

(* Over the install paths Node's lookup leads to the instance the resolver  *)
(* chose (assembleHoisted, versionsByPath, resolveEdgeVersion).             *)
THEOREM LayoutKeepsChoices == TrustSpec => []EdgesLeadToChoice
<1>1. TrustInv => EdgesLeadToChoice
  BY EdgesLead DEF TrustInv
<1> QED
  BY <1>1, TrustAlways, PTL

(* No walk under the policy places a version below what was placed before,  *)
(* over any number of walks (Update, Floors, applyFloor).                   *)
THEOREM TrustNeverDrops == TrustSpec => []NoDowngrade
<1>1. TrustInv => NoDowngrade
  BY RecordsKept
<1> QED
  BY <1>1, TrustAlways, PTL
--------------------------------------------------------------------------------
(* What a walk does with an edge, told by the age setting a, the floors F,  *)
(* and the tree t: nothing is chosen.                                       *)
MatureAt(a, n) == IF a = "any" THEN Published[n] ELSE Published[n] \ Young[n]
YoungOnly(a, n) == a = "strict" /\ MatureAt(a, n) = {} /\ Published[n] # {}
OfferedAt(a, F, n) ==
  {v \in IF MatureAt(a, n) # {} THEN MatureAt(a, n)
         ELSE {w \in Published[n] : \A u \in Published[n] : w <= u} : F[n] <= v}
Fit(a, F, e) == OfferedAt(a, F, e.name) \cap Effective(e.req, e).in
BestAt(a, F, e) ==
  IF Latest[e.name] \in Fit(a, F, e) THEN Latest[e.name] ELSE MaxOf(Fit(a, F, e))

KindOf(e)   == Effective(e.req, e).kind
Met(t, e)   == FindsIn(t, e.req, e.req, e)
Place1(t, e) == Append(IF HeldIn(DOMAIN t, e.req, e.name) # {} THEN e.req ELSE Root, e.name)
Taken1(t, e) == Place1(t, e) \in DOMAIN t
Free(t, e)  == ~Met(t, e) /\ ~Taken1(t, e)
Lawful(e)   == e.req = Root \/ ~BlockExotic \/ Effective(e.req, e).src \in Trusted
Refused(a, F, e) == YoungOnly(a, e.name) \/ Fit(a, F, e) = {}
OfRegistry(a, F, e) == [name |-> e.name, ver |-> BestAt(a, F, e), src |-> NoSource]
OfSource(e) == [name |-> e.name, ver |-> SourceVersion[Effective(e.req, e).src], src |-> Effective(e.req, e).src]

Drops(a, F, t, e) ==
  \/ KindOf(e) = "exotic" /\ Lawful(e) /\ ~Free(t, e)
  \/ KindOf(e) = "other"
  \/ KindOf(e) = "range" /\ Met(t, e)
  \/ KindOf(e) = "range" /\ ~Met(t, e) /\ Refused(a, F, e) /\ e.optional
  \/ KindOf(e) = "range" /\ ~Met(t, e) /\ ~Refused(a, F, e) /\ Taken1(t, e)
Puts(a, F, t, e, inst) ==
  \/ KindOf(e) = "exotic" /\ Lawful(e) /\ Free(t, e) /\ inst = OfSource(e)
  \/ KindOf(e) = "range" /\ ~Refused(a, F, e) /\ Free(t, e) /\ inst = OfRegistry(a, F, e)
Stops(a, F, t, e) ==
  \/ KindOf(e) = "exotic" /\ ~Lawful(e)
  \/ KindOf(e) = "range" /\ ~Met(t, e) /\ Refused(a, F, e) /\ ~e.optional

Moves(a, F, D, t, q, t2, q2) ==
  /\ q # <<>>
  /\ \/ Drops(a, F, t, Head(q)) /\ t2 = t /\ q2 = Tail(q)
     \/ \E inst :
          /\ Puts(a, F, t, Head(q), inst)
          /\ Key(inst) \in DOMAIN D /\ Key(inst) # RootInstance
          /\ t2 = With(t, Place1(t, Head(q)), inst)
          /\ q2 = Tail(q) \o Edges(Place1(t, Head(q)), D[Key(inst)])

(* What is nested differs from what it is nested below.                     *)
Nested(t) == \A p \in DOMAIN t : Len(p) > 1 => \E q \in DOMAIN t : t[q].name = t[p].name /\ t[q] # t[p]
(* An edge finds its place taken only where there are two of its package.   *)
Clear(t, e) == ~Met(t, e) /\ Taken1(t, e) => ~OneOfEach(t)
PartOf(t, t2) == DOMAIN t \subseteq DOMAIN t2 /\ \A p \in DOMAIN t : t2[p] = t[p]

(* The walk looks an edge up as the definitions above do.                   *)
LEMMA HeadMeans ==
  ASSUME WalkInv, status = "running", queue # <<>>
  PROVE  /\ edge.req \in NodesOf(tree) /\ edge.req \in NodePaths /\ edge.name \in Names /\ eff \in Specifiers
         /\ Reusable <=> Met(tree, edge)
         /\ Append(Target(edge.req, edge.name), edge.name) = Place1(tree, edge)
         /\ Occupied(edge.req, edge.name) <=> Taken1(tree, edge)
         /\ eff = Effective(edge.req, edge)
<1>1. PICK f : Follows(tree, depsOf, queue, f)
  BY DEF WalkInv, Breadth
<1>2. edge.req \in NodesOf(tree) /\ edge.req \in NodePaths /\ edge.name \in Names /\ eff \in Specifiers
  BY <1>1, EdgeFacts
<1>3. /\ Visible(edge.req, edge.name) <=> HeldIn(DOMAIN tree, edge.req, edge.name) # {}
      /\ Nearest(edge.req, edge.name) = tree[FoundIn(DOMAIN tree, edge.req, edge.name)]
  BY SameLookup
<1>4. Reusable <=> Met(tree, edge)
  BY <1>3 DEF Reusable, Met, FindsIn, eff
<1>5. Target(edge.req, edge.name) = IF HeldIn(DOMAIN tree, edge.req, edge.name) # {} THEN edge.req ELSE Root
  BY <1>3 DEF Target
<1> QED
  BY <1>2, <1>4, <1>5 DEF Place1, Taken1, Occupied, eff

(* A slot of the root is one of its dependencies.                           *)
LEMMA SlotOfRoot ==
  ASSUME NEW t, NEW D, NEW s \in Slots(t, D), s[1] = Root, Len(DepsIn(t, D, Root)) \in Nat
  PROVE  s = <<Root, s[2]>> /\ s[2] \in 1..Len(DepsIn(t, D, Root))
<1>1. s \in NodesOf(t) \X (Nat \ {0}) /\ s[2] <= Len(DepsIn(t, D, s[1]))
  BY DEF Slots
<1>2. s = <<s[1], s[2]>> /\ s[2] \in Nat \ {0}
  BY <1>1
<1> QED BY <1>1, <1>2

(* An edge of the root finds its place taken by no other of its own, and an *)
(* edge of a node only by what was nested there for not being the one       *)
(* above.                                                                   *)
LEMMA TakenTwice ==
  ASSUME WalkInv, status = "running", queue # <<>>, Nested(tree), depsOf[RootInstance] \in RootDeps
  PROVE  Clear(tree, edge)
<1> SUFFICES ASSUME Taken1(tree, edge) PROVE ~OneOfEach(tree)
  BY DEF Clear
<1>1. PICK f : Follows(tree, depsOf, queue, f)
  BY DEF WalkInv, Breadth
<1>2. Grown(tree) /\ Known(tree, depsOf)
  BY DEF WalkInv, WalkShape, Breadth
<1> DEFINE W == Open(f, Len(queue))
           d == Wanted(tree, depsOf, f[1])
<1>3. /\ edge.req = f[1][1] /\ edge.name = d.name
      /\ edge.req \in NodesOf(tree) /\ edge.req \in NodePaths /\ edge.name \in Names
      /\ f[1] \in Slots(tree, depsOf) /\ f[1] \in W
      /\ Append(edge.req, edge.name) \in DOMAIN tree
  BY <1>1, <1>2, EdgeFacts, HeadFacts, HeadMeans
<1>4. CASE edge.req = Root
  <2>1. PICK s \in Slots(tree, depsOf) \ W : s[1] = Root /\ Wanted(tree, depsOf, s).name = edge.name
    <3>1. OwnHeld(tree, depsOf, W)
      BY <1>1 DEF Follows, Sound
    <3>2. Root \in NodesOf(tree) /\ Append(Root, edge.name) \in DOMAIN tree /\ \E w \in W : w[1] = Root
      BY <1>3, <1>4
    <3> HIDE DEF W
    <3> QED
      BY <1>3, <3>1, <3>2 DEF OwnHeld
  <2>2. DepsIn(tree, depsOf, Root) = depsOf[RootInstance]
    BY DEF DepsIn, KeyAt
  <2>3. /\ s = <<Root, s[2]>> /\ s[2] \in 1..Len(depsOf[RootInstance])
        /\ f[1] = <<Root, f[1][2]>> /\ f[1][2] \in 1..Len(depsOf[RootInstance])
    <3>1. Len(depsOf[RootInstance]) \in Nat
      BY ResolverAssumption, DeclaredFacts
    <3> QED
      BY <1>2, <1>3, <1>4, <2>1, <2>2, <3>1, SlotOfRoot
  <2>4. depsOf[RootInstance][s[2]].name = depsOf[RootInstance][f[1][2]].name
    BY <1>3, <1>4, <2>1, <2>2 DEF Wanted
  <2>5. s[2] = f[1][2]
    BY <2>3, <2>4, RootAssumption
  <2> QED
    BY <1>3, <2>1, <2>3, <2>5
<1>5. CASE edge.req # Root
  <2>1. Len(Append(edge.req, edge.name)) > 1
    <3>1. Len(Append(edge.req, edge.name)) = Len(edge.req) + 1 /\ Len(edge.req) \in Nat
      BY <1>3, AppendFacts, PathFacts
    <3>2. Len(edge.req) # 0
      BY <1>3, <1>5 DEF Root, NodePaths
    <3> QED
      BY <3>1, <3>2
  <2> QED
    BY <1>3, <2>1 DEF Nested, OneOfEach
<1> QED
  BY <1>4, <1>5

(* What is offered is told by the age setting and the floors alone.         *)
LEMMA OfferedIs ==
  ASSUME NEW n
  PROVE  /\ TooYoung(n) <=> YoungOnly(age, n)
         /\ Offered(n) = OfferedAt(age, floors, n)
BY DEF TooYoung, YoungOnly, Mature, MatureAt, Offered, OfferedAt, AboveFloor

(* So is what a registry or a source gives for an edge.                     *)
LEMMA CandidatesAre ==
  /\ Candidates = Fit(age, floors, edge)
  /\ RegistryInstance = OfRegistry(age, floors, edge)
  /\ ExoticInstance = OfSource(edge)
  /\ (TooYoung(edge.name) \/ Candidates = {}) <=> Refused(age, floors, edge)
<1>1. Candidates = Fit(age, floors, edge)
  BY OfferedIs DEF Candidates, Fit, eff
<1>2. Best(edge.name, eff) = BestAt(age, floors, edge)
  <2>1. Offered(edge.name) \cap eff.in = Fit(age, floors, edge)
    BY <1>1 DEF Candidates
  <2>2. Best(edge.name, eff) = IF Latest[edge.name] \in Offered(edge.name) \cap eff.in THEN Latest[edge.name]
                              ELSE MaxOf(Offered(edge.name) \cap eff.in)
    BY DEF Best, MaxOf
  <2> QED
    BY <2>1, <2>2 DEF BestAt
<1> QED
  BY <1>1, <1>2, OfferedIs DEF RegistryInstance, OfRegistry, ExoticInstance, OfSource, Refused, eff

(* What was remembered stays so: all, or all but what the root declares.    *)
KeptDeps(D, D2) == \A k \in DOMAIN D : k \in DOMAIN D2 /\ D2[k] = D[k]
KeptBelow(D, D2) == \A k \in DOMAIN D : k # RootInstance => k \in DOMAIN D2 /\ D2[k] = D[k]

(* A placement is a move, and nests only what differs from what is above.   *)
LEMMA PutMoves ==
  ASSUME WalkInv, status = "running", queue # <<>>, Nested(tree), ~Reusable, ~Occupied(edge.req, edge.name),
         NEW inst \in Instances, inst.name = edge.name, Meets(inst, eff),
         inst.src = NoSource => inst.ver \in Versions,
         Puts(age, floors, tree, edge, inst), Put(inst)
  PROVE  /\ Moves(age, floors, depsOf', tree, queue, tree', queue')
         /\ PartOf(tree, tree') /\ Nested(tree') /\ KeptDeps(depsOf, depsOf') /\ status' = status
<1> DEFINE x == Place1(tree, edge)
           k == Key(inst)
<1>1. /\ edge.req \in NodesOf(tree) /\ edge.req \in NodePaths /\ edge.name \in Names
      /\ Append(Target(edge.req, edge.name), edge.name) = x
      /\ x \notin DOMAIN tree /\ ~Met(tree, edge) /\ eff = Effective(edge.req, edge)
  BY HeadMeans DEF Taken1
<1>2. tree' = With(tree, x, inst) /\ status' = status
  BY <1>1 DEF Put, PutAt, With
<1>3. \E deps : depsOf' = Remember(depsOf, k, deps) /\ queue' = Tail(queue) \o Edges(x, deps)
               /\ (k \in DOMAIN depsOf => deps = depsOf[k])
  BY <1>1 DEF Put, Enqueue, Remember
<1> HIDE DEF x, k
<1>4. /\ k \in DOMAIN depsOf' /\ queue' = Tail(queue) \o Edges(x, depsOf'[k])
      /\ KeptDeps(depsOf, depsOf')
  BY <1>3 DEF Remember, KeptDeps
<1>5. k # RootInstance
  <2>1. CASE inst.src = NoSource
    <3>1. k = inst /\ inst.ver \in Versions /\ NoVersion \notin Versions
      BY <2>1, ResolverAssumption DEF k, Key
    <3>2. RootInstance.ver = NoVersion
      BY DEF RootInstance
    <3> QED
      BY <3>1, <3>2
  <2>2. CASE inst.src # NoSource
    BY <2>2 DEF k, Key, RootInstance, Instances
  <2> QED
    BY <2>1, <2>2
<1>6. Moves(age, floors, depsOf', tree, queue, tree', queue')
  BY <1>2, <1>4, <1>5 DEF Moves, edge, x, k
<1>7. PartOf(tree, tree')
  BY <1>1, <1>2 DEF PartOf, With
<1>8. Nested(tree')
  <2>1. ASSUME Len(x) > 1 PROVE \E q \in DOMAIN tree : tree[q].name = inst.name /\ tree[q] # inst
    <3>1. HeldIn(DOMAIN tree, edge.req, edge.name) # {}
      <4>1. Len(Append(Root, edge.name)) = 1
        BY DEF Root
      <4> QED
        BY <2>1, <4>1 DEF x, Place1
    <3> DEFINE q == FoundIn(DOMAIN tree, edge.req, edge.name)
    <3>2. q \in DOMAIN tree
      BY <1>1, <3>1, HeldFacts
    <3>3. tree[q].name = edge.name
      <4>1. PICK j \in 0..Len(edge.req) : q = Append(SubSeq(edge.req, 1, j), edge.name)
        BY <1>1, <3>1, HeldFacts DEF FoundIn, HeldIn
      <4>2. SubSeq(edge.req, 1, j) \in NodePaths
        BY <1>1, PathFacts
      <4>3. Last(q) = edge.name
        <5>1. Last(Append(SubSeq(edge.req, 1, j), edge.name)) = edge.name
          BY <1>1, <4>2, AppendFacts
        <5> HIDE DEF q
        <5> QED
          BY <4>1, <5>1
      <4> HIDE DEF q
      <4> QED
        BY <3>2, <4>3 DEF WalkInv, WalkShape, Grown
    <3>4. ~Meets(tree[q], eff)
      BY <1>1, <3>1 DEF Met, FindsIn
    <3> HIDE DEF q
    <3> QED
      BY <3>2, <3>3, <3>4
  <2> QED
    BY <1>1, <1>2, <2>1 DEF Nested, With
<1> QED
  BY <1>2, <1>4, <1>6, <1>7, <1>8

(* An edge that is dropped is a move.                                       *)
LEMMA DropMoves ==
  ASSUME queue # <<>>, Drop, status = "running", Nested(tree), Drops(age, floors, tree, edge)
  PROVE  /\ Moves(age, floors, depsOf', tree, queue, tree', queue')
         /\ PartOf(tree, tree') /\ Nested(tree') /\ KeptDeps(depsOf, depsOf') /\ status' = "running"
<1>1. tree' = tree /\ queue' = Tail(queue) /\ depsOf' = depsOf /\ status' = status
  BY DEF Drop
<1> QED
  BY <1>1 DEF Moves, PartOf, KeptDeps, edge

(* A step of a walk in which nothing failed is the one that the tree and    *)
(* the queue call for.                                                      *)
LEMMA WalkMoves ==
  ASSUME WalkInv, Next, Nested(tree), ~ExoticFails, ~AskFails, ~DepsFail
  PROVE  /\ status = "running" /\ KeptDeps(depsOf, depsOf')
         /\ \/ /\ status' = "running" /\ Moves(age, floors, depsOf', tree, queue, tree', queue')
               /\ PartOf(tree, tree') /\ Nested(tree')
            \/ status' = "error" /\ queue # <<>> /\ Stops(age, floors, tree, edge)
            \/ status' = "done" /\ queue = <<>> /\ UNCHANGED <<tree, queue>>
<1>1. ASSUME ResolveEdge PROVE status = "running" /\ queue # <<>>
  BY <1>1 DEF ResolveEdge, Block, ExoticFails, ExoticReused, ExoticPlaced, Unparseable, Reuse, AskFails,
              AllTooYoung, NoMatch, KeepFirst, Place, DepsFail, AtNewRange, AtEdge
<1> USE DEF KindOf, AtEdge
<1>2. CASE Block
  BY <1>1, <1>2, HeadMeans DEF Block, ResolveEdge, Stops, Allowed, Lawful, KeptDeps
<1>3. CASE ExoticReused
  <2>1. Drop /\ Drops(age, floors, tree, edge)
    BY <1>1, <1>3, HeadMeans DEF ExoticReused, ResolveEdge, Drops, Allowed, Lawful, Free
  <2> QED
    BY <1>1, <1>3, <2>1, DropMoves DEF ResolveEdge
<1>4. CASE ExoticPlaced
  <2>1. /\ AtEdge("exotic") /\ Put(ExoticInstance) /\ ~Reusable /\ ~Occupied(edge.req, edge.name)
        /\ Allowed /\ status = "running" /\ queue # <<>>
    BY <1>4 DEF ExoticPlaced
  <2>2. Puts(age, floors, tree, edge, ExoticInstance)
    BY <2>1, HeadMeans, CandidatesAre DEF Puts, Allowed, Lawful, Free
  <2> QED
    BY <2>1, <2>2, ExoticFacts, PutMoves
<1>5. CASE Unparseable
  <2>1. Drop /\ Drops(age, floors, tree, edge)
    BY <1>1, <1>5, HeadMeans DEF Unparseable, ResolveEdge, Drops
  <2> QED
    BY <1>1, <1>5, <2>1, DropMoves DEF ResolveEdge
<1>6. CASE Reuse
  <2>1. Drop /\ Drops(age, floors, tree, edge)
    BY <1>1, <1>6, HeadMeans DEF Reuse, ResolveEdge, Drops
  <2> QED
    BY <1>1, <1>6, <2>1, DropMoves DEF ResolveEdge
<1>7. CASE AllTooYoung \/ NoMatch
  <2>1. /\ SkipOrFail /\ eff.kind = "range" /\ ~Met(tree, edge) /\ Refused(age, floors, edge)
        /\ status = "running" /\ queue # <<>> /\ eff = Effective(edge.req, edge)
    BY <1>7, HeadMeans, CandidatesAre DEF AllTooYoung, NoMatch, AtNewRange
  <2>2. CASE edge.optional
    <3>1. Drop /\ Drops(age, floors, tree, edge)
      BY <2>1, <2>2 DEF SkipOrFail, Drop, Drops
    <3> QED
      BY <2>1, <3>1, DropMoves
  <2>3. CASE ~edge.optional
    BY <2>1, <2>3 DEF SkipOrFail, Stops, KeptDeps
  <2> QED
    BY <2>2, <2>3
<1>8. CASE KeepFirst
  <2>1. Drop /\ Drops(age, floors, tree, edge) /\ status = "running" /\ queue # <<>>
    BY <1>8, HeadMeans, CandidatesAre DEF KeepFirst, AtNewRange, Drops
  <2> QED
    BY <2>1, DropMoves
<1>9. CASE Place
  <2>1. /\ AtNewRange /\ Put(RegistryInstance) /\ ~Reusable /\ ~Occupied(edge.req, edge.name)
        /\ status = "running" /\ queue # <<>> /\ eff.kind = "range" /\ ~TooYoung(edge.name) /\ Candidates # {}
    BY <1>9 DEF Place, AtNewRange
  <2>2. Puts(age, floors, tree, edge, RegistryInstance)
    BY <2>1, HeadMeans, CandidatesAre DEF Puts, Free
  <2> QED
    BY <2>1, <2>2, RegistryFacts, PutMoves
<1>10. CASE Done
  BY <1>10 DEF Done, KeptDeps
<1> QED
  BY <1>2, <1>3, <1>4, <1>5, <1>6, <1>7, <1>8, <1>9, <1>10 DEF Next, ResolveEdge

--------------------------------------------------------------------------------
(* There is one move, and it is none when the walk stops.                   *)
LEMMA MovesOnce ==
  ASSUME NEW a, NEW F, NEW D, NEW t, NEW q, NEW t2, NEW q2, Moves(a, F, D, t, q, t2, q2)
  PROVE  /\ ~Stops(a, F, t, Head(q))
         /\ \A t3, q3 : Moves(a, F, D, t, q, t3, q3) => t3 = t2 /\ q3 = q2
<1> DEFINE e == Head(q)
           One(inst) == IF KindOf(e) = "exotic" THEN OfSource(e) ELSE OfRegistry(a, F, e)
<1>1. ~Stops(a, F, t, e) /\ \A inst : Puts(a, F, t, e, inst) => ~Drops(a, F, t, e)
  <2>1. KindOf(e) = "exotic" => KindOf(e) # "range" /\ KindOf(e) # "other"
    OBVIOUS
  <2>2. KindOf(e) = "other" => KindOf(e) # "range"
    OBVIOUS
  <2>3. Drops(a, F, t, e) \/ \E inst : Puts(a, F, t, e, inst)
    BY DEF Moves
  <2> HIDE DEF e
  <2> QED
    BY <2>1, <2>2, <2>3 DEF Stops, Puts, Drops, Free
<1>2. \A i1, i2 : Puts(a, F, t, e, i1) /\ Puts(a, F, t, e, i2) => i1 = i2
  <2> HIDE DEF e
  <2> QED
    BY DEF Puts
<1> QED
  BY <1>1, <1>2 DEF Moves

(* What instances depend on is remembered.                                  *)
LEMMA MovesStay ==
  ASSUME NEW a, NEW F, NEW D, NEW t, NEW q, NEW t2, NEW q2, Moves(a, F, D, t, q, t2, q2),
         NEW D2, \A k \in DOMAIN D : k # RootInstance => k \in DOMAIN D2 /\ D2[k] = D[k]
  PROVE  Moves(a, F, D2, t, q, t2, q2)
<1>1. CASE Drops(a, F, t, Head(q)) /\ t2 = t /\ q2 = Tail(q)
  BY <1>1 DEF Moves
<1>2. ASSUME NEW inst, Puts(a, F, t, Head(q), inst), Key(inst) \in DOMAIN D, Key(inst) # RootInstance,
             t2 = With(t, Place1(t, Head(q)), inst),
             q2 = Tail(q) \o Edges(Place1(t, Head(q)), D[Key(inst)])
      PROVE  Moves(a, F, D2, t, q, t2, q2)
  BY <1>2 DEF Moves
<1> QED
  BY <1>1, <1>2 DEF Moves

(* Floors that were raised to what a tree holds lead to the same tree.      *)
Floors == [Names -> Versions \cup {NoVersion}]
Raised(F, G, t) ==
  \A n \in Names :
    \/ G[n] = F[n]
    \/ \E p \in DOMAIN t : t[p].name = n /\ t[p].src = NoSource /\ G[n] = t[p].ver

(* Raised floors offer no more, and what the tree holds still.              *)
LEMMA RaisedOffers ==
  ASSUME NEW F \in Floors, NEW G \in Floors, NEW t, Grown(t), FloorsKept(t, F), Raised(F, G, t), OneOfEach(t),
         NEW n \in Names, NEW a
  PROVE  /\ OfferedAt(a, G, n) \subseteq OfferedAt(a, F, n) /\ OfferedAt(a, F, n) \subseteq Versions
         /\ \A p \in DOMAIN t :
              t[p].name = n /\ t[p].src = NoSource /\ t[p].ver \in OfferedAt(a, F, n) => t[p].ver \in OfferedAt(a, G, n)
<1>1. OfferedAt(a, F, n) \subseteq Published[n] /\ Published[n] \subseteq Versions
      /\ OfferedAt(a, G, n) \subseteq Published[n]
  <2>1. MatureAt(a, n) \subseteq Published[n] /\ Published[n] \subseteq Versions
    BY ResolverAssumption DEF MatureAt
  <2> QED
    BY <2>1 DEF OfferedAt
<1>2. Versions \subseteq Nat /\ F[n] \in Nat /\ G[n] \in Nat
  BY ResolverAssumption DEF Floors, NoVersion
<1>3. F[n] <= G[n]
  <2>1. CASE G[n] = F[n]
    BY <1>2, <2>1
  <2>2. CASE G[n] # F[n]
    <3>1. PICK p \in DOMAIN t : t[p].name = n /\ t[p].src = NoSource /\ G[n] = t[p].ver
      BY <2>2 DEF Raised
    <3> QED
      BY <3>1 DEF FloorsKept
  <2> QED
    BY <2>1, <2>2
<1>4. OfferedAt(a, G, n) \subseteq OfferedAt(a, F, n)
  <2> SUFFICES ASSUME NEW v \in OfferedAt(a, G, n) PROVE v \in OfferedAt(a, F, n)
    OBVIOUS
  <2>1. v \in Nat /\ G[n] <= v
    BY <1>1, <1>2 DEF OfferedAt
  <2>2. F[n] <= v
    BY <1>2, <1>3, <2>1
  <2> QED
    BY <2>2 DEF OfferedAt
<1>5. ASSUME NEW p \in DOMAIN t, t[p].name = n, t[p].src = NoSource, t[p].ver \in OfferedAt(a, F, n)
      PROVE  t[p].ver \in OfferedAt(a, G, n)
  <2>1. t[p].ver \in Nat /\ F[n] <= t[p].ver
    BY <1>1, <1>2, <1>5 DEF OfferedAt
  <2>2. G[n] <= t[p].ver
    <3>1. CASE G[n] = F[n]
      BY <2>1, <3>1
    <3>2. CASE G[n] # F[n]
      <4>1. PICK r \in DOMAIN t : t[r].name = n /\ t[r].src = NoSource /\ G[n] = t[r].ver
        BY <3>2 DEF Raised
      <4>2. t[r] = t[p]
        BY <1>5, <4>1 DEF OneOfEach
      <4> QED
        BY <1>2, <2>1, <4>1, <4>2
    <3> QED
      BY <3>1, <3>2
  <2> QED
    BY <1>5, <2>2 DEF OfferedAt
<1> QED
  BY <1>1, <1>4, <1>5

(* What a step below the old floors did, it does below the raised ones.     *)
LEMMA MovesAgain ==
  ASSUME NEW F \in Floors, NEW G \in Floors, NEW end, Grown(end), FloorsKept(end, F), Raised(F, G, end), OneOfEach(end),
         NEW a, NEW D, NEW t, NEW q, NEW t2, NEW q2, Moves(a, F, D, t, q, t2, q2),
         PartOf(t, end), PartOf(t2, end), Clear(t, Head(q)), Head(q).name \in Names
  PROVE  Moves(a, G, D, t, q, t2, q2)
<1> DEFINE e == Head(q)
           n == e.name
<1>1. OneOfEach(t)
  BY DEF OneOfEach, PartOf
<1>2. Met(t, e) \/ ~Taken1(t, e)
  BY <1>1 DEF Clear
<1>3. Refused(a, F, e) => Refused(a, G, e)
  <2>1. OfferedAt(a, G, n) \subseteq OfferedAt(a, F, n)
    BY RaisedOffers
  <2> HIDE DEF e
  <2> QED
    BY <2>1 DEF Refused, Fit, n
<1>4. CASE Drops(a, F, t, e) /\ t2 = t /\ q2 = Tail(q)
  <2>1. Drops(a, G, t, e)
    <3> HIDE DEF e
    <3> QED
      BY <1>2, <1>3, <1>4 DEF Drops
  <2> QED
    BY <1>4, <2>1 DEF Moves
<1>5. ASSUME NEW inst, Puts(a, F, t, e, inst), Key(inst) \in DOMAIN D, Key(inst) # RootInstance,
             t2 = With(t, Place1(t, e), inst),
             q2 = Tail(q) \o Edges(Place1(t, e), D[Key(inst)])
      PROVE  Moves(a, G, D, t, q, t2, q2)
  <2>1. Puts(a, G, t, e, inst)
    <3>1. CASE KindOf(e) = "exotic"
      BY <1>5, <3>1 DEF Puts
    <3>2. CASE KindOf(e) = "range"
      <4>1. inst = OfRegistry(a, F, e) /\ ~Refused(a, F, e) /\ Free(t, e)
        BY <1>5, <3>2 DEF Puts
      <4> DEFINE x == Place1(t, e)
                 v == BestAt(a, F, e)
      <4>2. x \in DOMAIN end /\ end[x] = inst
        <5>1. x \in DOMAIN t2 /\ t2[x] = inst
          BY <1>5 DEF With
        <5> HIDE DEF x
        <5> QED
          BY <5>1 DEF PartOf
      <4>3. end[x].name = n /\ end[x].src = NoSource /\ end[x].ver = v
        BY <4>1, <4>2 DEF OfRegistry
      <4> HIDE DEF x, v, e
      <4>4. /\ Fit(a, G, e) \subseteq Fit(a, F, e) /\ Fit(a, F, e) \subseteq Versions
            /\ v \in Fit(a, F, e) => v \in Fit(a, G, e)
        <5>1. /\ OfferedAt(a, G, n) \subseteq OfferedAt(a, F, n) /\ OfferedAt(a, F, n) \subseteq Versions
              /\ v \in OfferedAt(a, F, n) => v \in OfferedAt(a, G, n)
          BY <4>2, <4>3, RaisedOffers DEF e
        <5> QED
          BY <5>1 DEF Fit, n
      <4>5. IsFiniteSet(Fit(a, F, e)) /\ Fit(a, F, e) \subseteq Int /\ Fit(a, F, e) # {}
        <5>1. IsFiniteSet(Versions) /\ Versions \subseteq Int
          BY ResolverAssumption
        <5> QED
          BY <4>1, <4>4, <5>1, FS_Subset DEF Refused
      <4>6. v \in Fit(a, F, e) /\ (Latest[n] \notin Fit(a, F, e) => \A l \in Fit(a, F, e) : l <= v)
        <5>1. CASE Latest[n] \in Fit(a, F, e)
          BY <5>1 DEF v, BestAt, n
        <5>2. CASE Latest[n] \notin Fit(a, F, e)
          <6>1. MaxOf(Fit(a, F, e)) \in Fit(a, F, e) /\ \A l \in Fit(a, F, e) : l <= MaxOf(Fit(a, F, e))
            BY <4>5, MaxFacts
          <6>2. v = MaxOf(Fit(a, F, e))
            BY <5>2 DEF v, BestAt, n
          <6> QED
            BY <6>1, <6>2
        <5> QED
          BY <5>1, <5>2
      <4>7. BestAt(a, G, e) = v
        <5>1. CASE Latest[n] \in Fit(a, F, e)
          BY <4>4, <4>6, <5>1 DEF BestAt, v, n
        <5>2. CASE Latest[n] \notin Fit(a, F, e)
          <6>1. \A l \in Fit(a, F, e) : l <= v
            BY <4>6, <5>2
          <6>2. MaxOf(Fit(a, G, e)) = v
            BY <4>4, <4>5, <4>6, <6>1, MaxIs
          <6> QED
            BY <4>4, <5>2, <6>2 DEF BestAt, n
        <5> QED
          BY <5>1, <5>2
      <4>8. ~Refused(a, G, e)
        BY <4>1, <4>4, <4>6 DEF Refused
      <4> QED
        BY <3>2, <4>1, <4>7, <4>8 DEF Puts, OfRegistry, v
    <3> QED
      BY <1>5, <3>1, <3>2 DEF Puts
  <2> QED
    BY <1>5, <2>1 DEF Moves
<1> QED
  BY <1>4, <1>5 DEF Moves

--------------------------------------------------------------------------------
(* The steps of a walk, and the trees and queues between them.              *)
Trace(a, F, D, deps, N, tt, qq, t, q) ==
  /\ N \in Nat
  /\ tt[0] = [p \in {} |-> RootInstance] /\ qq[0] = Edges(Root, deps)
  /\ tt[N] = t /\ qq[N] = q
  /\ \A i \in 0..(N - 1) :
       /\ Moves(a, F, D, tt[i], qq[i], tt[i + 1], qq[i + 1])
       /\ Clear(tt[i], Head(qq[i])) /\ Head(qq[i]).name \in Names
  /\ \A i \in 0..N : PartOf(tt[i], t)

(* A trace is one when more is remembered.                                  *)
LEMMA TraceStays ==
  ASSUME NEW a, NEW F, NEW D, NEW deps, NEW N, NEW tt, NEW qq, NEW t, NEW q,
         Trace(a, F, D, deps, N, tt, qq, t, q), NEW D2, KeptBelow(D, D2)
  PROVE  Trace(a, F, D2, deps, N, tt, qq, t, q)
<1>1. \A i \in 0..(N - 1) : Moves(a, F, D2, tt[i], qq[i], tt[i + 1], qq[i + 1])
  <2> TAKE i \in 0..(N - 1)
  <2>1. Moves(a, F, D, tt[i], qq[i], tt[i + 1], qq[i + 1])
    BY DEF Trace
  <2> QED
    BY <2>1, MovesStay DEF KeptBelow
<1> QED
  BY <1>1 DEF Trace

(* A move makes a trace longer.                                             *)
LEMMA TraceGrows ==
  ASSUME NEW a, NEW F, NEW D, NEW deps, NEW N, NEW tt, NEW qq, NEW t, NEW q,
         Trace(a, F, D, deps, N, tt, qq, t, q), NEW t2, NEW q2,
         Moves(a, F, D, t, q, t2, q2), PartOf(t, t2), Clear(t, Head(q)), Head(q).name \in Names
  PROVE  \E N2, tt2, qq2 : Trace(a, F, D, deps, N2, tt2, qq2, t2, q2)
<1> DEFINE tt2 == [i \in 0..(N + 1) |-> IF i = N + 1 THEN t2 ELSE tt[i]]
           qq2 == [i \in 0..(N + 1) |-> IF i = N + 1 THEN q2 ELSE qq[i]]
<1>1. N \in Nat
  BY DEF Trace
<1>2. /\ \A i \in 0..N : tt2[i] = tt[i] /\ qq2[i] = qq[i]
      /\ tt2[N + 1] = t2 /\ qq2[N + 1] = q2
  BY <1>1
<1> HIDE DEF tt2, qq2
<1>3. tt2[0] = tt[0] /\ qq2[0] = qq[0]
  BY <1>1, <1>2
<1>4. ASSUME NEW i \in 0..N
      PROVE  /\ Moves(a, F, D, tt2[i], qq2[i], tt2[i + 1], qq2[i + 1])
             /\ Clear(tt2[i], Head(qq2[i])) /\ Head(qq2[i]).name \in Names
  <2>1. CASE i = N
    BY <1>1, <1>2, <2>1 DEF Trace
  <2>2. CASE i # N
    <3>1. i \in 0..(N - 1) /\ i + 1 \in 0..N
      BY <1>1, <2>2
    <3> QED
      BY <1>2, <3>1 DEF Trace
  <2> QED
    BY <2>1, <2>2
<1>5. ASSUME NEW i \in 0..(N + 1) PROVE PartOf(tt2[i], t2)
  <2>1. CASE i = N + 1
    BY <1>2, <2>1 DEF PartOf
  <2>2. CASE i # N + 1
    <3>1. i \in 0..N
      BY <1>1, <2>2
    <3>2. PartOf(tt[i], t) /\ tt2[i] = tt[i]
      BY <1>2, <3>1 DEF Trace
    <3> QED
      BY <3>2 DEF PartOf
  <2> QED
    BY <2>1, <2>2
<1>6. N + 1 \in Nat /\ (N + 1) - 1 = N
  BY <1>1
<1>7. Trace(a, F, D, deps, N + 1, tt2, qq2, t2, q2)
  BY <1>2, <1>3, <1>4, <1>5, <1>6 DEF Trace
<1> QED
  BY <1>7

(* Whatever happens, what was remembered of dependencies stays.             *)
LEMMA NextKeeps ==
  ASSUME Next
  PROVE  KeptDeps(depsOf, depsOf')
<1>1. ASSUME NEW inst, Put(inst) PROVE KeptDeps(depsOf, depsOf')
  BY <1>1 DEF Put, KeptDeps
<1>2. CASE ExoticPlaced
  BY <1>1, <1>2 DEF ExoticPlaced
<1>3. CASE Place
  BY <1>1, <1>3 DEF Place
<1>4. CASE UNCHANGED depsOf
  BY <1>4 DEF KeptDeps
<1> QED
  BY <1>2, <1>3, <1>4 DEF Next, ResolveEdge, Block, ExoticFails, ExoticReused, Unparseable, Reuse, AskFails,
     AllTooYoung, NoMatch, KeepFirst, DepsFail, Done, Drop, SkipOrFail

--------------------------------------------------------------------------------
(* Every walk without a failure has its trace; the floors of a walk are the *)
(* records that count for it; and a walk like the last recorded one is      *)
(* somewhere on the trace of that one.                                      *)
Counted(h) == [n \in Names |-> IF stamp[n] > h THEN mark[n] ELSE NoVersion]

Traced ==
  ~flaw /\ status # "error" =>
    /\ Nested(tree)
    /\ \E N, tt, qq : Trace(age, floors, depsOf, root, N, tt, qq, tree, queue)

FloorsCounted ==
  status = "running" \/ (status = "done" /\ trust /\ ~recorded) =>
    \A n \in Names : floors[n] = IF trust /\ stamp[n] > horizon THEN mark[n] ELSE NoVersion

Alike == last.root = root /\ last.policy = Policy /\ OneOfEach(last.tree) /\ ~flaw

OnTrace(F, N, tt, qq) ==
  /\ F \in Floors /\ FloorsKept(last.tree, F) /\ Raised(F, Counted(last.policy.horizon), last.tree)
  /\ Trace(last.policy.age, F, depsOf, last.root, N, tt, qq, last.tree, <<>>)
  /\ Alike => status # "error" /\ \E k \in 0..N : tree = tt[k] /\ queue = qq[k]

Retraced ==
  last # NoWalk =>
    /\ last.policy.trust /\ Grown(last.tree)
    /\ \E F, N, tt, qq : OnTrace(F, N, tt, qq)

AgainInv ==
  /\ depsOf[RootInstance] = root
  /\ Traced /\ FloorsCounted /\ Retraced

(* The empty tree and the edges of the root make a trace of no step.        *)
LEMMA TraceStarts ==
  ASSUME NEW a, NEW F, NEW D, NEW deps
  PROVE  LET none == [p \in {} |-> RootInstance] IN
         /\ Nested(none)
         /\ \E N, tt, qq : Trace(a, F, D, deps, N, tt, qq, none, Edges(Root, deps))
<1> DEFINE none == [p \in {} |-> RootInstance]
           tt == [i \in {0} |-> none]
           qq == [i \in {0} |-> Edges(Root, deps)]
<1>1. DOMAIN none = {}
  OBVIOUS
<1>2. tt[0] = none /\ qq[0] = Edges(Root, deps)
  OBVIOUS
<1>3. 0..(0 - 1) = {} /\ 0..0 = {0}
  OBVIOUS
<1>4. Trace(a, F, D, deps, 0, tt, qq, none, Edges(Root, deps))
  <2>1. PartOf(none, none)
    BY DEF PartOf
  <2> HIDE DEF tt, qq
  <2> QED
    BY <1>2, <1>3, <2>1 DEF Trace
<1>5. Nested(none)
  BY <1>1 DEF Nested
<1> HIDE DEF tt, qq
<1> QED
  BY <1>4, <1>5

(* The first walk has its trace.                                            *)
LEMMA AgainStarts ==
  ASSUME TrustInit
  PROVE  AgainInv
<1>1. PICK deps \in RootDeps : queue = Edges(Root, deps) /\ depsOf = [i \in {RootInstance} |-> deps]
  BY DEF TrustInit, Init
<1>2. root = deps /\ depsOf[RootInstance] = root /\ tree = [p \in {} |-> RootInstance]
      /\ queue = Edges(Root, root) /\ last = NoWalk /\ mark = NoFloors /\ floors = NoFloors
  BY <1>1 DEF TrustInit, Init
<1>3. Traced
  BY <1>2, TraceStarts DEF Traced
<1>4. FloorsCounted
  BY <1>2 DEF FloorsCounted, NoFloors
<1> QED
  BY <1>2, <1>3, <1>4 DEF AgainInv, Retraced

(* A walk on the trace of the last one goes one step on along it.           *)
LEMMA AlongTrace ==
  ASSUME TrustInv, AgainInv, Walk, last # NoWalk, Alike', NEW F, NEW N, NEW tt, NEW qq,
         OnTrace(F, N, tt, qq), Trace(last.policy.age, F, depsOf', last.root, N, tt, qq, last.tree, <<>>)
  PROVE  status' # "error" /\ \E k \in 0..N : tree' = tt[k] /\ queue' = qq[k]
<1>1. /\ WalkInv /\ TrustTypes /\ Next /\ UNCHANGED <<trustVars, root, seen, split, last, age, floors>>
      /\ ~flaw /\ ~ExoticFails /\ ~AskFails /\ ~DepsFail
  BY DEF TrustInv, Walk, Alike, Next, settings
<1>2. Alike
  BY <1>1 DEF Alike, Policy, trustVars
<1>3. PICK k \in 0..N : status # "error" /\ tree = tt[k] /\ queue = qq[k]
  BY <1>2 DEF OnTrace
<1>4. Nested(tree)
  BY <1>1, <1>3 DEF AgainInv, Traced
<1>5. status = "running"
  BY <1>1, <1>4, WalkMoves
<1>6. /\ last.policy.trust /\ last.policy.age = age /\ last.policy.horizon = horizon /\ trust = last.policy.trust
      /\ Grown(last.tree) /\ OneOfEach(last.tree)
      /\ F \in Floors /\ FloorsKept(last.tree, F) /\ Raised(F, Counted(horizon), last.tree)
      /\ N \in Nat /\ tt[N] = last.tree /\ qq[N] = <<>>
  BY <1>2 DEF Alike, Policy, OnTrace, AgainInv, Retraced, Trace
<1>7. floors \in Floors /\ Counted(horizon) = floors
  <2>1. floors \in Floors
    BY <1>1 DEF WalkInv, WalkShape, Floors
  <2>2. \A n \in Names : floors[n] = Counted(horizon)[n]
    BY <1>5, <1>6 DEF AgainInv, FloorsCounted, Counted
  <2>3. floors = [n \in Names |-> floors[n]] /\ Counted(horizon) = [n \in Names |-> Counted(horizon)[n]]
    BY <2>1 DEF Floors, Counted
  <2> QED
    BY <2>1, <2>2, <2>3
<1>8. ASSUME queue # <<>>
      PROVE  Moves(age, floors, depsOf', tree, queue, tt[k + 1], qq[k + 1]) /\ k + 1 \in 0..N
  <2>1. k \in 0..(N - 1) /\ k + 1 \in 0..N
    BY <1>3, <1>6, <1>8
  <2>2. /\ Moves(age, F, depsOf', tt[k], qq[k], tt[k + 1], qq[k + 1])
        /\ Clear(tt[k], Head(qq[k])) /\ Head(qq[k]).name \in Names
        /\ PartOf(tt[k], last.tree) /\ PartOf(tt[k + 1], last.tree)
    BY <1>6, <2>1 DEF Trace
  <2>3. Moves(age, floors, depsOf', tt[k], qq[k], tt[k + 1], qq[k + 1])
    BY <1>6, <1>7, <2>2, MovesAgain
  <2> QED
    BY <1>3, <2>1, <2>3
<1>9. CASE status' = "running" /\ Moves(age, floors, depsOf', tree, queue, tree', queue')
  <2>1. queue # <<>>
    BY <1>9 DEF Moves
  <2>2. Moves(age, floors, depsOf', tree, queue, tt[k + 1], qq[k + 1]) /\ k + 1 \in 0..N
    BY <1>8, <2>1
  <2>3. tree' = tt[k + 1] /\ queue' = qq[k + 1]
    BY <1>9, <2>2, MovesOnce
  <2> QED
    BY <1>9, <2>2, <2>3
<1>10. CASE queue # <<>> /\ Stops(age, floors, tree, edge)
  BY <1>8, <1>10, MovesOnce DEF edge
<1>11. CASE status' = "done" /\ UNCHANGED <<tree, queue>>
  BY <1>3, <1>11
<1> QED
  BY <1>1, <1>4, <1>9, <1>10, <1>11, WalkMoves

(* A step of a walk keeps the traces.                                       *)
LEMMA AgainWalk ==
  ASSUME TrustInv, AgainInv, Walk
  PROVE  AgainInv'
<1>1. /\ WalkInv /\ TrustTypes /\ Next /\ UNCHANGED <<trust, mark, stamp, horizon, walks, recorded, root, last, age, floors>>
      /\ flaw' = (flaw \/ ExoticFails \/ AskFails \/ DepsFail)
  BY DEF TrustInv, Walk, Next, settings, trustVars
<1>2. KeptDeps(depsOf, depsOf')
  BY <1>1, NextKeeps
<1>3. depsOf'[RootInstance] = root' /\ depsOf[RootInstance] \in RootDeps /\ KeptBelow(depsOf, depsOf')
  BY <1>1, <1>2 DEF KeptDeps, KeptBelow, AgainInv, WalkInv, WalkShape, TrustTypes
<1>4. status = "running"
  BY <1>1 DEF Next, ResolveEdge, Block, ExoticFails, ExoticReused, ExoticPlaced, Unparseable, Reuse, AskFails,
     AllTooYoung, NoMatch, KeepFirst, Place, DepsFail, Done, AtNewRange, AtEdge
<1>5. Traced'
  <2> SUFFICES ASSUME ~flaw', status' # "error"
               PROVE  /\ Nested(tree')
                      /\ \E N, tt, qq : Trace(age, floors, depsOf', root, N, tt, qq, tree', queue')
    BY <1>1 DEF Traced
  <2>1. ~flaw /\ ~ExoticFails /\ ~AskFails /\ ~DepsFail
    BY <1>1
  <2>2. PICK N, tt, qq : Trace(age, floors, depsOf, root, N, tt, qq, tree, queue) /\ Nested(tree)
    BY <1>4, <2>1 DEF AgainInv, Traced
  <2>3. Trace(age, floors, depsOf', root, N, tt, qq, tree, queue)
    BY <1>3, <2>2, TraceStays
  <2>4. CASE Moves(age, floors, depsOf', tree, queue, tree', queue') /\ PartOf(tree, tree') /\ Nested(tree')
    <3>1. queue # <<>>
      BY <2>4 DEF Moves
    <3>2. Clear(tree, Head(queue)) /\ Head(queue).name \in Names
      BY <1>1, <1>3, <1>4, <2>2, <3>1, TakenTwice, HeadMeans DEF edge
    <3> QED
      BY <2>3, <2>4, <3>2, TraceGrows
  <2>5. CASE UNCHANGED <<tree, queue>>
    BY <2>2, <2>3, <2>5
  <2> QED
    BY <1>1, <2>1, <2>2, <2>4, <2>5, WalkMoves
<1>6. FloorsCounted'
  <2>1. floors' = floors /\ trust' = trust /\ stamp' = stamp /\ horizon' = horizon /\ mark' = mark
    BY <1>1
  <2>2. \A n \in Names : floors[n] = IF trust /\ stamp[n] > horizon THEN mark[n] ELSE NoVersion
    BY <1>4 DEF AgainInv, FloorsCounted
  <2> QED
    BY <2>1, <2>2 DEF FloorsCounted
<1>7. Retraced'
  <2> SUFFICES ASSUME last # NoWalk
               PROVE  last.policy.trust /\ Grown(last.tree) /\ \E F, N, tt, qq : OnTrace(F, N, tt, qq)'
    BY <1>1 DEF Retraced
  <2>1. PICK F, N, tt, qq : OnTrace(F, N, tt, qq)
    BY DEF AgainInv, Retraced
  <2>2. Trace(last.policy.age, F, depsOf', last.root, N, tt, qq, last.tree, <<>>)
    BY <1>3, <2>1, TraceStays DEF OnTrace
  <2>3. Alike' => status' # "error" /\ \E k \in 0..N : tree' = tt[k] /\ queue' = qq[k]
    BY <2>1, <2>2, AlongTrace
  <2>4. OnTrace(F, N, tt, qq)'
    BY <1>1, <2>1, <2>2, <2>3 DEF OnTrace, Counted
  <2> QED
    BY <2>4 DEF AgainInv, Retraced
<1> QED
  BY <1>3, <1>5, <1>6, <1>7 DEF AgainInv

(* The walk that is recorded leaves its trace behind.                       *)
LEMMA AgainUpdate ==
  ASSUME TrustInv, AgainInv, Update
  PROVE  AgainInv'
<1>1. /\ WalkInv /\ TrustTypes /\ status = "done" /\ trust /\ ~recorded /\ recorded' = TRUE
      /\ UNCHANGED <<tree, queue, depsOf, status, age, floors, trust, horizon, walks, root, flaw>>
      /\ mark' = [n \in Names |-> IF Raises(n) THEN Picked(n) ELSE mark[n]]
      /\ stamp' = [n \in Names |-> IF Raises(n) THEN walks ELSE stamp[n]]
      /\ last' = IF flaw THEN NoWalk ELSE [root |-> root, policy |-> Policy, tree |-> tree]
  BY DEF TrustInv, Update, vars, walkVars, settings
<1>2. depsOf'[RootInstance] = root' /\ Traced' /\ FloorsCounted'
  BY <1>1 DEF AgainInv, Traced, FloorsCounted
<1>3. CASE flaw
  BY <1>1, <1>2, <1>3 DEF AgainInv, Retraced
<1>4. CASE ~flaw
  <2>1. /\ last'.root = root /\ last'.tree = tree /\ last'.policy.age = age /\ last'.policy.horizon = horizon
        /\ last'.policy.trust
    BY <1>1, <1>4 DEF Policy
  <2>2. queue = <<>> /\ Grown(tree) /\ FloorsKept(tree, floors) /\ floors \in Floors
    BY <1>1 DEF WalkInv, WalkShape, Breadth, Floors
  <2>3. PICK N, tt, qq : Trace(age, floors, depsOf, root, N, tt, qq, tree, queue)
    BY <1>1, <1>4 DEF AgainInv, Traced
  <2>4. ASSUME NEW n \in Names
        PROVE  \/ Counted(horizon)'[n] = floors[n]
               \/ \E p \in DOMAIN tree : tree[p].name = n /\ tree[p].src = NoSource /\ Counted(horizon)'[n] = tree[p].ver
    <3>1. floors[n] = IF stamp[n] > horizon THEN mark[n] ELSE NoVersion
      BY <1>1 DEF AgainInv, FloorsCounted
    <3>2. Counted(horizon)'[n] = IF stamp'[n] > horizon THEN mark'[n] ELSE NoVersion
      BY <1>1 DEF Counted
    <3>3. CASE ~Raises(n)
      BY <1>1, <3>1, <3>2, <3>3
    <3>4. CASE Raises(n)
      <4>1. stamp'[n] = walks /\ mark'[n] = Picked(n) /\ Picked(n) \in Placed(n)
        BY <1>1, <3>4, PlacedFacts DEF Raises
      <4>2. stamp[n] \in Nat /\ stamp[n] <= walks /\ walks \in Nat /\ horizon \in Nat
        BY <1>1, TrustAssumption DEF TrustTypes
      <4>3. CASE walks > horizon
        BY <3>2, <4>1, <4>3 DEF Placed
      <4>4. CASE ~(walks > horizon)
        BY <3>1, <3>2, <4>1, <4>2, <4>4
      <4> QED
        BY <4>3, <4>4
    <3> QED
      BY <3>3, <3>4
  <2>5. Raised(floors, Counted(horizon)', tree)
    BY <2>4 DEF Raised
  <2>6. \E k \in 0..N : tree = tt[k] /\ queue = qq[k]
    BY <2>3 DEF Trace
  <2>7. OnTrace(floors, N, tt, qq)'
    BY <1>1, <2>1, <2>2, <2>3, <2>5, <2>6 DEF OnTrace, Counted
  <2>8. Retraced'
    BY <1>1, <2>1, <2>2, <2>7 DEF Retraced
  <2> QED
    BY <1>2, <2>8 DEF AgainInv
<1> QED
  BY <1>3, <1>4

(* A new walk begins where every trace over its manifest does.              *)
LEMMA AgainNewWalk ==
  ASSUME TrustInv, AgainInv, NEW deps \in Edits[root], NEW p \in Policies, NewWalk(deps, p)
  PROVE  AgainInv'
<1>1. /\ WalkInv /\ TrustTypes
      /\ tree' = [q \in {} |-> RootInstance] /\ queue' = Edges(Root, deps) /\ status' = "running"
      /\ age' = p.age /\ trust' = p.trust /\ recorded' = FALSE /\ root' = deps /\ flaw' = FALSE
      /\ floors' = [n \in Names |-> IF p.trust /\ stamp[n] > horizon' THEN mark[n] ELSE NoVersion]
      /\ UNCHANGED <<mark, stamp, last>>
  BY DEF TrustInv, NewWalk
<1>2. depsOf'[RootInstance] = root' /\ KeptBelow(depsOf, depsOf')
  BY <1>1 DEF NewWalk, WalkInv, WalkShape, KeptBelow
<1>3. Traced'
  BY <1>1, TraceStarts DEF Traced
<1>4. FloorsCounted'
  BY <1>1 DEF FloorsCounted
<1>5. Retraced'
  <2> SUFFICES ASSUME last # NoWalk
               PROVE  last.policy.trust /\ Grown(last.tree) /\ \E F, N, tt, qq : OnTrace(F, N, tt, qq)'
    BY <1>1 DEF Retraced
  <2>1. PICK F, N, tt, qq : OnTrace(F, N, tt, qq)
    BY DEF AgainInv, Retraced
  <2>2. Trace(last.policy.age, F, depsOf', last.root, N, tt, qq, last.tree, <<>>)
    BY <1>2, <2>1, TraceStays DEF OnTrace
  <2>3. Alike' => \E k \in 0..N : tree' = tt[k] /\ queue' = qq[k]
    <3>1. 0 \in 0..N /\ tt[0] = tree' /\ (last.root = deps => qq[0] = queue')
      BY <1>1, <2>2 DEF Trace
    <3> QED
      BY <1>1, <3>1 DEF Alike
  <2>4. OnTrace(F, N, tt, qq)'
    BY <1>1, <2>1, <2>2, <2>3 DEF OnTrace, Counted
  <2> QED
    BY <2>4 DEF AgainInv, Retraced
<1> QED
  BY <1>2, <1>3, <1>4, <1>5 DEF AgainInv

(* Every step keeps the traces.                                             *)
LEMMA AgainStep ==
  ASSUME TrustInv, AgainInv, [TrustNext]_<<vars, trustVars, history>>
  PROVE  AgainInv'
<1>1. CASE Walk
  BY <1>1, AgainWalk
<1>2. CASE Update
  BY <1>2, AgainUpdate
<1>3. CASE Lose
  <2>1. UNCHANGED <<tree, queue, depsOf, status, age, floors, trust, horizon, recorded, root, flaw>> /\ last' = NoWalk
    BY <1>3 DEF Lose, vars, walkVars, settings
  <2>2. ~(status = "running" \/ (status = "done" /\ trust /\ ~recorded))
    BY <1>3 DEF Lose
  <2> QED
    BY <2>1, <2>2 DEF AgainInv, Traced, FloorsCounted, Retraced
<1>4. ASSUME NEW deps \in Edits[root], NEW p \in Policies, NewWalk(deps, p) PROVE AgainInv'
  BY <1>4, AgainNewWalk
<1>5. CASE UNCHANGED <<vars, trustVars, history>>
  <2>1. UNCHANGED <<tree, queue, depsOf, status, age, floors, trust, mark, stamp, horizon, recorded, root, last, flaw>>
    BY <1>5 DEF vars, walkVars, settings, trustVars, history
  <2>2. \A F, N, tt, qq : OnTrace(F, N, tt, qq)' <=> OnTrace(F, N, tt, qq)
    BY <2>1 DEF OnTrace, Alike, Policy, Counted
  <2> QED
    BY <2>1, <2>2 DEF AgainInv, Traced, FloorsCounted, Retraced
<1> QED
  BY <1>1, <1>2, <1>3, <1>4, <1>5 DEF TrustNext

(* At the end of a walk the queue is empty, which on a trace is only its end. *)
LEMMA AgainMeans ==
  ASSUME TrustInv, AgainInv
  PROVE  ResolvesAgain
<1> SUFFICES ASSUME status # "running", ~flaw, last # NoWalk, last.root = root, last.policy = Policy, OneOfEach(last.tree)
             PROVE  status = "done" /\ tree = last.tree
  BY DEF ResolvesAgain
<1>1. PICK F, N, tt, qq : OnTrace(F, N, tt, qq)
  BY DEF AgainInv, Retraced
<1>2. PICK k \in 0..N : status # "error" /\ tree = tt[k] /\ queue = qq[k]
  BY <1>1 DEF OnTrace, Alike
<1>3. status = "done" /\ queue = <<>>
  BY <1>2 DEF TrustInv, WalkInv, WalkShape, Breadth
<1>4. N \in Nat /\ tt[N] = last.tree /\ \A i \in 0..(N - 1) : qq[i] # <<>>
  BY <1>1 DEF OnTrace, Trace, Moves
<1>5. k = N
  <2>1. k # N => k \in 0..(N - 1)
    BY <1>4
  <2> QED
    BY <1>2, <1>3, <1>4, <2>1
<1> QED
  BY <1>2, <1>3, <1>4, <1>5

(* Floors never stop a project whose manifest, settings and registry have   *)
(* stayed as they were, nor lead it to another tree: for all packages,      *)
(* versions and sources, manifests and their edits, settings, orders of     *)
(* version strings, and any number of walks (Update, Floors, applyFloor,    *)
(* resolveEdge).                                                            *)
THEOREM FloorsChangeNothing == TrustSpec => []ResolvesAgain
<1>1. TrustInit => AgainInv
  BY AgainStarts
<1>2. TrustInv /\ AgainInv /\ [TrustNext]_<<vars, trustVars, history>> => AgainInv'
  BY AgainStep
<1>3. TrustInv /\ AgainInv => ResolvesAgain
  BY AgainMeans
<1> QED
  BY <1>1, <1>2, <1>3, TrustAlways, PTL DEF TrustSpec

--------------------------------------------------------------------------------
(* The hoisted linker, for any packages, paths of any depth, any layouts an *)
(* install may come to, any tasks in flight, and any number of installs     *)
(* that end, fail or are killed: what an install leaves in node_modules.    *)

Working == {"look", "prepare", "fill"}
Linking == {"link", "local", "members", "prune"}

(* A task at work is of the depth at hand; those above it are done.         *)
DepthByDepth ==
  /\ \A p \in Paths : task[p] # "wait" => p \in Linked /\ Len(p) <= depth
  /\ \A p \in Paths : task[p] \in Working => phase = "link" /\ Len(p) = depth
  /\ phase = "link" => \A p \in Linked : Len(p) < depth => task[p] = "done"
  /\ phase \in {"local", "members", "prune", "ended"} => \A p \in Linked : task[p] = "done"

(* At and below the depth at hand nothing is made but by the task of a path *)
(* itself.                                                                  *)
UntouchedBelow ==
  phase = "link" =>
    \A p \in Paths : Len(p) >= depth /\ task[p] \in {"wait", "look"} /\ p \notin found => ~Exists(p)
OwnTask ==
  \A p \in Paths :
    /\ task[p] = "prepare" => ~Exists(p)
    /\ task[p] = "fill" => nm[p] \in {Absent, Part(layout.packages[p])}

(* What a task is done with stays in place.                                 *)
DoneStays ==
  phase \in Linking =>
    \A p \in Paths : task[p] = "done" =>
      Exists(p) /\ (p \notin found => nm[p] = Whole(layout.packages[p]))

(* The links that are to be made, and those that are.                       *)
LinksMade ==
  /\ phase = "link" => left = Locals
  /\ phase = "members" => ~locked
  /\ phase \in {"members", "prune", "ended"} => left = {}
  /\ phase \in {"local", "members", "prune", "ended"} =>
       \A n \in Locals \ left : nm[<<n>>] = Link(layout.local[n])
  /\ phase \in {"prune", "ended"} /\ ~locked => \A n \in Members : Exists(<<n>>)

(* What a member had for an entry stays.                                    *)
MembersStay ==
  phase \in Linking \cup {"ended"} => \A n \in Members : <<n>> \in found => Exists(<<n>>)

(* Whatever is there was there before, is of this install, or holds what is.*)
Accounted(p) ==
  \/ p \in found \cup Linked
  \/ \E q \in Linked : p \in Above(q)
  \/ Len(p) = 1 /\ (Top(p) \in Locals \/ (~locked /\ Top(p) \in Members))
AllAccounted ==
  phase \in Linking \cup {"ended"} => \A p \in Paths : Exists(p) => Accounted(p)

KeptOnly == phase = "ended" => \A p \in Paths : Exists(p) => Top(p) \in Kept

LinkerInv ==
  /\ LinkTypeOK /\ IsFiniteSet(InFlight)
  /\ DepthByDepth /\ UntouchedBelow /\ OwnTask /\ DoneStays
  /\ LinksMade /\ MembersStay /\ AllAccounted /\ KeptOnly /\ EveryPackageInPlace

--------------------------------------------------------------------------------
(* What there may be at a path, told apart.                                 *)
Dirs == {Absent, Bare} \cup {Part(v) : v \in Releases} \cup {Whole(v) : v \in Releases} \cup {Link(t) : t \in Targets}

LEMMA KindFacts ==
  /\ Absent.is = "absent" /\ Bare.is = "bare"
  /\ \A v : Part(v).is = "part" /\ Whole(v).is = "whole"
  /\ \A t : Link(t).is = "link"
  /\ Bare # Absent
  /\ \A v : Part(v) # Absent /\ Whole(v) # Absent /\ Part(v) # Bare
  /\ \A t : Link(t) # Absent
  /\ Absent \in Dirs /\ Bare \in Dirs
  /\ \A v \in Releases : Part(v) \in Dirs /\ Whole(v) \in Dirs
  /\ \A t \in Targets : Link(t) \in Dirs
<1>1. /\ Absent.is = "absent" /\ Bare.is = "bare"
      /\ \A v : Part(v).is = "part" /\ Whole(v).is = "whole"
      /\ \A t : Link(t).is = "link"
  BY DEF Absent, Bare, Part, Whole, Link
<1>2. /\ Absent \in Dirs /\ Bare \in Dirs
      /\ \A v \in Releases : Part(v) \in Dirs /\ Whole(v) \in Dirs
      /\ \A t \in Targets : Link(t) \in Dirs
  BY DEF Dirs
<1> QED
  BY <1>1, <1>2

(* The paths above a path.                                                  *)
LEMMA AboveFacts ==
  ASSUME NEW p \in Paths
  PROVE  /\ p \in Seq(Packages) /\ Len(p) \in Nat /\ Len(p) > 0
         /\ \A q \in Above(p) :
              /\ q \in Paths /\ Len(q) \in Nat /\ Len(q) > 0 /\ Len(q) < Len(p) /\ Top(q) = Top(p)
              /\ Above(q) \subseteq Above(p)
<1>1. p \in Seq(Packages) /\ Len(p) \in Nat /\ Len(p) > 0
  BY LinkerAssumption
<1>2. ASSUME NEW k \in 1..(Len(p) - 1)
      PROVE  /\ SubSeq(p, 1, k) \in Paths /\ Len(SubSeq(p, 1, k)) = k /\ Top(SubSeq(p, 1, k)) = Top(p)
             /\ Above(SubSeq(p, 1, k)) \subseteq Above(p)
  <2>1. SubSeq(p, 1, k) \in Paths
    BY <1>1, LinkerAssumption
  <2>2. Len(SubSeq(p, 1, k)) = k /\ \A j \in 1..k : SubSeq(p, 1, k)[j] = p[j]
    BY <1>1
  <2>3. ASSUME NEW j \in 1..(k - 1) PROVE SubSeq(SubSeq(p, 1, k), 1, j) = SubSeq(p, 1, j)
    BY <1>1, <2>2
  <2>4. Above(SubSeq(p, 1, k)) \subseteq Above(p)
    <3>1. Above(SubSeq(p, 1, k)) = {SubSeq(p, 1, j) : j \in 1..(k - 1)}
      BY <2>2, <2>3 DEF Above
    <3>2. \A j \in 1..(k - 1) : j \in 1..(Len(p) - 1)
      BY <1>1
    <3> QED
      BY <3>1, <3>2 DEF Above
  <2> QED
    BY <2>1, <2>2, <2>4 DEF Top
<1>3. ASSUME NEW q \in Above(p)
      PROVE  q \in Paths /\ Len(q) \in Nat /\ Len(q) > 0 /\ Len(q) < Len(p) /\ Top(q) = Top(p) /\ Above(q) \subseteq Above(p)
  <2>1. PICK k \in 1..(Len(p) - 1) : q = SubSeq(p, 1, k)
    BY DEF Above
  <2>2. k \in Nat /\ k > 0 /\ k < Len(p)
    BY <1>1
  <2> QED
    BY <1>2, <2>1, <2>2
<1> QED
  BY <1>1, <1>3

(* A path has its top-level one above it, unless it is that one.            *)
LEMMA TopFacts ==
  ASSUME NEW p \in Paths
  PROVE  /\ Len(p) = 1 => p = <<Top(p)>> /\ Above(p) = {}
         /\ Len(p) > 1 => <<Top(p)>> \in Above(p)
<1>1. p \in Seq(Packages) /\ Len(p) \in Nat /\ Len(p) > 0
  BY AboveFacts
<1>2. CASE Len(p) = 1
  BY <1>1, <1>2 DEF Top, Above
<1>3. CASE Len(p) > 1
  <2>1. 1 \in 1..(Len(p) - 1)
    BY <1>1, <1>3
  <2>2. SubSeq(p, 1, 1) = <<p[1]>>
    <3>1. SubSeq(p, 1, 1) \in Seq(Packages) /\ <<p[1]>> \in Seq(Packages)
      BY <1>1, <2>1
    <3>2. Len(SubSeq(p, 1, 1)) = 1 /\ SubSeq(p, 1, 1)[1] = p[1] /\ Len(<<p[1]>>) = 1 /\ <<p[1]>>[1] = p[1]
      BY <1>1, <2>1
    <3> QED
      <4> DEFINE s == SubSeq(p, 1, 1)
                 t == <<p[1]>>
      <4>1. Len(s) = Len(t) /\ \A i \in 1..Len(s) : s[i] = t[i]
        BY <3>2, SMTT(20)
      <4> HIDE DEF s, t
      <4> QED
        BY <3>1, <4>1, SeqEqual DEF s, t
  <2>3. <<Top(p)>> \in Above(p)
    BY <2>1, <2>2 DEF Top, Above
  <2>4. ~(Len(p) = 1)
    <3>1. \A n \in Nat : n > 1 => ~(n = 1)
      OBVIOUS
    <3> QED
      BY <1>1, <1>3, <3>1, Zenon
  <2> QED
    BY <2>3, <2>4, Zenon
<1> QED
  BY <1>1, <1>2, <1>3

LEMMA BelowFacts == \A p, q \in Paths : q \in Below(p) <=> p \in Above(q)
<1> SUFFICES ASSUME NEW p \in Paths, NEW q \in Paths PROVE q \in Below(p) <=> p \in Above(q)
  OBVIOUS
<1>1. Len(p) \in Nat /\ Len(p) > 0 /\ Len(q) \in Nat /\ Len(q) > 0
  BY AboveFacts
<1>2. ASSUME q \in Below(p) PROVE p \in Above(q)
  <2>1. Len(p) \in 1..(Len(q) - 1) /\ p = SubSeq(q, 1, Len(p))
    BY <1>1, <1>2 DEF Below
  <2> QED
    BY <2>1 DEF Above
<1>3. ASSUME p \in Above(q) PROVE q \in Below(p)
  <2>1. PICK k \in 1..(Len(q) - 1) : p = SubSeq(q, 1, k)
    BY <1>3 DEF Above
  <2>2. Len(p) = k
    BY <1>1, <2>1
  <2> QED
    BY <1>1, <2>1, <2>2 DEF Below
<1> QED
  BY <1>2, <1>3

(* The links of a layout are at the top level, with nothing below them.     *)
LEMMA NameFacts ==
  ASSUME layout \in Layouts
  PROVE  /\ Linked \subseteq Paths /\ \A p \in Linked : layout.packages[p] \in Releases
         /\ \A n \in Locals \cup Members : <<n>> \in Paths /\ Len(<<n>>) = 1 /\ Top(<<n>>) = n
         /\ \A n \in Locals : layout.local[n] \in Targets
         /\ \A n \in Members : layout.members[n] \in Targets
         /\ \A n \in Members : \A p \in Paths : Top(p) = n => Len(p) = 1
  BY LinkerAssumption DEF Linked, Locals, Members, Top

(* The slots: a task that starts takes a free one, others give theirs back. *)
LEMMA LinkSlotFacts ==
  ASSUME IsFiniteSet(InFlight), Cardinality(InFlight) <= Limit
  PROVE  /\ InFlight' \subseteq InFlight => IsFiniteSet(InFlight)' /\ Cardinality(InFlight)' <= Limit
         /\ \A p : Cardinality(InFlight) < Limit /\ InFlight' = InFlight \cup {p} =>
              IsFiniteSet(InFlight)' /\ Cardinality(InFlight)' <= Limit
<1>1. Cardinality(InFlight) \in Nat /\ Limit \in Nat
  BY FS_CardinalityType, LinkerAssumption
<1>2. ASSUME InFlight' \subseteq InFlight PROVE IsFiniteSet(InFlight') /\ Cardinality(InFlight') <= Limit
  <2>1. IsFiniteSet(InFlight') /\ Cardinality(InFlight') <= Cardinality(InFlight)
    BY <1>2, FS_Subset
  <2> QED
    BY <1>1, <2>1, FS_CardinalityType
<1>3. ASSUME NEW p, Cardinality(InFlight) < Limit, InFlight' = InFlight \cup {p}
      PROVE  IsFiniteSet(InFlight') /\ Cardinality(InFlight') <= Limit
  <2>1. IsFiniteSet(InFlight') /\ Cardinality(InFlight') \in {Cardinality(InFlight), Cardinality(InFlight) + 1}
    BY <1>3, FS_AddElement
  <2> QED
    BY <1>1, <1>3, <2>1
<1> QED
  BY <1>2, <1>3
--------------------------------------------------------------------------------
LEMMA InitLinker == LinkInit => LinkerInv
<1> SUFFICES ASSUME LinkInit PROVE LinkerInv
  OBVIOUS
<1>1. InFlight = {} /\ {p \in Paths : task[p] \in {"look", "prepare", "fill"}} = InFlight
  BY DEF LinkInit, InFlight
<1>2. IsFiniteSet(InFlight) /\ Cardinality(InFlight) <= Limit
  BY <1>1, FS_EmptySet, LinkerAssumption
<1>3. nm \in [Paths -> Dirs] /\ \A p \in Paths : ~Exists(p)
  BY KindFacts DEF LinkInit, Exists
<1>4. LinkTypeOK
  <2>1. 0 \in 0..MaxInstalls
    BY LinkerAssumption
  <2>2. Cardinality({p \in Paths : task[p] \in {"look", "prepare", "fill"}}) <= Limit
    BY <1>1, <1>2
  <2> QED
    BY <1>3, <2>1, <2>2 DEF LinkInit, LinkTypeOK, Dirs
<1>5. DepthByDepth /\ UntouchedBelow /\ OwnTask /\ DoneStays
  BY DEF LinkInit, DepthByDepth, UntouchedBelow, OwnTask, DoneStays, Working, Linking
<1>6. LinksMade /\ MembersStay /\ AllAccounted /\ KeptOnly /\ EveryPackageInPlace
  BY DEF LinkInit, LinksMade, MembersStay, AllAccounted, KeptOnly, EveryPackageInPlace, Linking
<1> QED
  BY <1>2, <1>4, <1>5, <1>6 DEF LinkerInv

(* The parts of LinkTypeOK.                                                 *)
LEMMA TypeFacts ==
  ASSUME LinkerInv
  PROVE  /\ nm \in [Paths -> Dirs] /\ layout \in Layouts /\ locked \in BOOLEAN /\ found \subseteq Paths
         /\ \A p \in Paths : Exists(p) => \A q \in Above(p) : Exists(q)
         /\ depth \in Nat /\ left \subseteq Locals /\ installs \in 0..MaxInstalls
         /\ task \in [Paths -> {"wait", "look", "prepare", "fill", "done", "failed"}]
         /\ phase \in {"idle", "link", "local", "members", "prune", "ended", "error"}
         /\ IsFiniteSet(InFlight) /\ Cardinality(InFlight) <= Limit
  BY DEF LinkerInv, LinkTypeOK, Dirs, InFlight

(* An install begins, with no task begun.                                   *)
LEMMA BeginLinker == ASSUME LinkerInv, Begin PROVE LinkerInv'
<1>1. /\ phase' = "link" /\ depth' = 1 /\ nm' = nm /\ layout' \in Layouts /\ locked' \in BOOLEAN /\ left' = Locals'
      /\ found' = {p \in Paths : Exists(p)} /\ task' = [p \in Paths |-> "wait"]
      /\ installs' \in 0..MaxInstalls
  BY LinkerAssumption, TypeFacts DEF Begin, Locals
<1>2. InFlight' = {} /\ {p \in Paths : task'[p] \in {"look", "prepare", "fill"}} = InFlight'
  BY <1>1 DEF InFlight
<1>3. IsFiniteSet(InFlight)' /\ Cardinality(InFlight)' <= Limit
  BY <1>2, FS_EmptySet, LinkerAssumption
<1>4. LinkTypeOK'
  BY <1>1, <1>2, <1>3, TypeFacts DEF LinkTypeOK, Dirs, Exists
<1>5. DepthByDepth' /\ OwnTask'
  <2>1. \A p \in Linked' : Len(p) > 0 /\ Len(p) \in Nat
    BY <1>1, AboveFacts, LinkerAssumption DEF Linked
  <2> QED
    BY <1>1, <2>1 DEF DepthByDepth, OwnTask, Working
<1>6. UntouchedBelow' /\ DoneStays' /\ AllAccounted' /\ MembersStay'
  BY <1>1 DEF UntouchedBelow, DoneStays, AllAccounted, Accounted, MembersStay, Exists
<1>7. LinksMade' /\ KeptOnly' /\ EveryPackageInPlace'
  BY <1>1 DEF LinksMade, KeptOnly, EveryPackageInPlace
<1> QED
  BY <1>3, <1>4, <1>5, <1>6, <1>7 DEF LinkerInv

(* A kill leaves what is there, and no task at work.                        *)
LEMMA KillLinker == ASSUME LinkerInv, Kill PROVE LinkerInv'
<1>1. /\ phase' = "idle" /\ task' = [p \in Paths |-> "wait"]
      /\ UNCHANGED <<nm, layout, locked, found, depth, left, installs>>
  BY DEF Kill
<1>2. InFlight' = {} /\ {p \in Paths : task'[p] \in {"look", "prepare", "fill"}} = InFlight'
  BY <1>1 DEF InFlight
<1>3. IsFiniteSet(InFlight)' /\ Cardinality(InFlight)' <= Limit
  BY <1>2, FS_EmptySet, LinkerAssumption
<1>4. LinkTypeOK'
  BY <1>1, <1>2, <1>3, TypeFacts DEF LinkTypeOK, Dirs, Exists, Locals
<1>5. DepthByDepth' /\ UntouchedBelow' /\ OwnTask' /\ DoneStays'
  BY <1>1 DEF DepthByDepth, UntouchedBelow, OwnTask, DoneStays, Working, Linking
<1>6. LinksMade' /\ MembersStay' /\ AllAccounted' /\ KeptOnly' /\ EveryPackageInPlace'
  BY <1>1 DEF LinksMade, MembersStay, AllAccounted, KeptOnly, EveryPackageInPlace, Linking
<1> QED
  BY <1>3, <1>4, <1>5, <1>6 DEF LinkerInv

(* A task that goes on makes, or clears, its own directory, and makes those *)
(* above it.  The others of its depth, and what was linked above, stay.     *)
LEMMA TaskStep ==
  ASSUME LinkerInv, NEW p \in Paths, phase = "link", p \in Linked, Len(p) = depth, Frame,
         NEW s \in {"look", "prepare", "fill", "done", "failed"}, task' = [task EXCEPT ![p] = s],
         task[p] \in {"wait", "look", "prepare", "fill"},
         task[p] = "wait" => Cardinality(InFlight) < Limit,
         nm' \in [Paths -> Dirs],
         \A q \in Paths : Exists(q)' => \A r \in Above(q) : Exists(r)',
         \A q \in Paths \ {p} : Len(q) <= depth /\ Exists(q) => nm'[q] = nm[q],
         \A q \in Paths \ {p} : Exists(q)' => Exists(q) \/ q \in Above(p),
         Exists(p) => Exists(p)',
         s = "look" => nm' = nm /\ task[p] = "wait",
         s = "prepare" => ~Exists(p)',
         s = "fill" => nm'[p] \in {Absent, Part(layout.packages[p])},
         s = "done" => Exists(p)' /\ (p \notin found => nm'[p] = Whole(layout.packages[p]))
  PROVE  LinkerInv'
<1>1. UNCHANGED <<layout, locked, found, depth, left, phase, installs>>
  BY DEF Frame
<1>2. /\ task'[p] = s /\ \A q \in Paths \ {p} : task'[q] = task[q]
      /\ task' \in [Paths -> {"wait", "look", "prepare", "fill", "done", "failed"}]
  BY TypeFacts
<1>3. IsFiniteSet(InFlight)' /\ Cardinality(InFlight)' <= Limit
  <2>1. CASE task[p] = "wait"
    <3>1. InFlight' \subseteq InFlight \/ InFlight' = InFlight \cup {p}
      BY <1>2 DEF InFlight
    <3> QED
      BY <2>1, <3>1, TypeFacts, LinkSlotFacts
  <2>2. CASE task[p] \in Working
    <3>1. InFlight' \subseteq InFlight
      BY <1>2, <2>2 DEF InFlight, Working
    <3> QED
      BY <3>1, TypeFacts, LinkSlotFacts
  <2> QED
    BY <2>1, <2>2 DEF Working
<1>4. LinkTypeOK'
  <2>1. Cardinality({q \in Paths : task'[q] \in {"look", "prepare", "fill"}}) <= Limit
    BY <1>3 DEF InFlight
  <2> QED
    BY <1>1, <1>2, <2>1, TypeFacts DEF LinkTypeOK, Dirs, Locals
<1>5. Len(p) \in Nat /\ p \notin Above(p) /\ \A q \in Above(p) : Len(q) < depth
  BY AboveFacts
<1>6. DepthByDepth'
  BY <1>1, <1>2, <1>5 DEF LinkerInv, DepthByDepth, Working, Linked
<1>7. UntouchedBelow'
  <2> SUFFICES ASSUME NEW q \in Paths, Len(q) >= depth, task'[q] \in {"wait", "look"}, q \notin found
               PROVE  ~Exists(q)'
    BY <1>1 DEF UntouchedBelow
  <2>1. CASE q = p
    BY <1>2, <2>1 DEF LinkerInv, UntouchedBelow, Exists
  <2>2. CASE q # p
    <3>1. ~Exists(q)
      BY <1>2, <2>2 DEF LinkerInv, UntouchedBelow
    <3>2. q \notin Above(p)
      BY <1>5, AboveFacts
    <3> QED
      BY <2>2, <3>1, <3>2
  <2> QED
    BY <2>1, <2>2
<1>8. OwnTask'
  <2> SUFFICES ASSUME NEW q \in Paths
               PROVE  /\ task'[q] = "prepare" => ~Exists(q)'
                      /\ task'[q] = "fill" => nm'[q] \in {Absent, Part(layout.packages[q])}
    BY <1>1 DEF OwnTask
  <2>1. CASE q = p
    BY <1>2, <2>1
  <2>2. CASE q # p /\ task[q] \in {"prepare", "fill"}
    <3>1. Len(q) = depth /\ q \notin Above(p) /\ Len(q) <= depth
      BY <1>5, <2>2 DEF LinkerInv, DepthByDepth, Working
    <3>2. task[q] = "prepare" => ~Exists(q)
      BY DEF LinkerInv, OwnTask
    <3>3. task[q] = "fill" => nm[q] \in {Absent, Part(layout.packages[q])}
      BY DEF LinkerInv, OwnTask
    <3>4. Exists(q)' => nm'[q] = nm[q] /\ Exists(q)
      BY <2>2, <3>1
    <3> QED
      BY <1>2, <2>2, <3>2, <3>3, <3>4 DEF Exists
  <2> QED
    BY <1>2, <2>1, <2>2
<1>9. DoneStays'
  <2> SUFFICES ASSUME NEW q \in Paths, task'[q] = "done"
               PROVE  Exists(q)' /\ (q \notin found => nm'[q] = Whole(layout.packages[q]))
    BY <1>1 DEF DoneStays
  <2>1. CASE q = p
    BY <1>2, <2>1
  <2>2. CASE q # p
    <3>1. Exists(q) /\ (q \notin found => nm[q] = Whole(layout.packages[q])) /\ Len(q) <= depth
      BY <1>2, <2>2 DEF LinkerInv, DoneStays, DepthByDepth, Linking
    <3>2. nm'[q] = nm[q]
      BY <2>2, <3>1
    <3> QED
      BY <3>1, <3>2 DEF Exists
  <2> QED
    BY <2>1, <2>2
<1>10. LinksMade' /\ KeptOnly' /\ EveryPackageInPlace'
  BY <1>1 DEF LinkerInv, LinksMade, KeptOnly, EveryPackageInPlace, Locals
<1>11. AllAccounted'
  <2> SUFFICES ASSUME NEW q \in Paths, Exists(q)' PROVE Accounted(q)
    BY <1>1 DEF AllAccounted, Accounted, Linked, Locals, Members
  <2>1. CASE Exists(q)
    BY <2>1 DEF LinkerInv, AllAccounted, Linking
  <2>2. CASE q = p \/ q \in Above(p)
    BY <2>2 DEF Accounted
  <2> QED
    BY <2>1, <2>2
<1>12. MembersStay'
  <2> SUFFICES ASSUME NEW n \in Members, <<n>> \in found PROVE Exists(<<n>>)'
    BY <1>1 DEF MembersStay, Members
  <2> DEFINE e == <<n>>
  <2>1. Exists(e)
    BY DEF LinkerInv, MembersStay, Linking
  <2>2. e \in Paths /\ Len(e) = 1 /\ depth \in Nat /\ depth > 0
    BY TypeFacts, NameFacts, AboveFacts
  <2> HIDE DEF e
  <2>3. e # p => nm'[e] = nm[e]
    <3>1. Len(e) <= depth
      BY <2>2
    <3> QED
      BY <2>1, <2>2, <3>1, Zenon
  <2>4. Exists(e)'
    BY <2>1, <2>3 DEF Exists
  <2> QED
    BY <2>4 DEF e
<1> QED
  BY <1>3, <1>4, <1>6, <1>7, <1>8, <1>9, <1>10, <1>11, <1>12 DEF LinkerInv

(* The parents a task makes are only made where nothing is.                 *)
LEMMA ParentFacts ==
  ASSUME NEW p \in Paths
  PROVE  LET d == MadeParents(p, nm) IN
         nm \in [Paths -> Dirs] =>
           /\ d \in [Paths -> Dirs]
           /\ \A q \in Paths : Exists(q) => d[q] = nm[q]
           /\ \A q \in Paths : d[q] # Absent <=> Exists(q) \/ q \in Above(p)
  BY KindFacts, AboveFacts DEF MadeParents, Exists

(* Making a directory below its parents keeps the tree a tree.              *)
LEMMA MakeStep ==
  ASSUME LinkerInv, NEW p \in Paths, NEW d \in Dirs \ {Absent}, nm' = [MadeParents(p, nm) EXCEPT ![p] = d]
  PROVE  /\ nm' \in [Paths -> Dirs] /\ nm'[p] = d
         /\ \A q \in Paths : Exists(q)' => \A r \in Above(q) : Exists(r)'
         /\ \A q \in Paths \ {p} : Exists(q) => nm'[q] = nm[q]
         /\ \A q \in Paths \ {p} : Exists(q)' => Exists(q) \/ q \in Above(p)
<1>1. nm \in [Paths -> Dirs] /\ \A q \in Paths : Exists(q) => \A r \in Above(q) : Exists(r)
  BY TypeFacts
<1>2. /\ MadeParents(p, nm) \in [Paths -> Dirs]
      /\ \A q \in Paths : Exists(q) => MadeParents(p, nm)[q] = nm[q]
      /\ \A q \in Paths : MadeParents(p, nm)[q] # Absent <=> Exists(q) \/ q \in Above(p)
  BY <1>1, ParentFacts
<1>3. /\ nm' \in [Paths -> Dirs] /\ nm'[p] = d /\ d # Absent
      /\ \A q \in Paths \ {p} : nm'[q] = MadeParents(p, nm)[q]
  BY <1>2
<1>4. \A q \in Paths : Exists(q)' <=> q = p \/ Exists(q) \/ q \in Above(p)
  BY <1>2, <1>3 DEF Exists
<1>5. ASSUME NEW q \in Paths, Exists(q)', NEW r \in Above(q) PROVE Exists(r)'
  <2>1. r \in Paths /\ (q \in Above(p) => r \in Above(p))
    BY AboveFacts
  <2> QED
    BY <1>1, <1>4, <1>5, <2>1
<1> QED
  BY <1>2, <1>3, <1>4, <1>5
--------------------------------------------------------------------------------
(* A task at work, at its depth.                                            *)
LEMMA AtWork ==
  ASSUME LinkerInv, NEW p \in Paths, task[p] \in Working
  PROVE  /\ phase = "link" /\ p \in Linked /\ Len(p) = depth /\ layout.packages[p] \in Releases
         /\ task[p] # "wait"
         /\ Part(layout.packages[p]) \in Dirs \ {Absent} /\ Whole(layout.packages[p]) \in Dirs \ {Absent}
<1>1. /\ phase = "link" /\ p \in Linked /\ Len(p) = depth /\ task[p] # "wait"
  BY DEF LinkerInv, DepthByDepth, Working
<1>2. layout.packages[p] \in Releases
  BY <1>1, TypeFacts, NameFacts
<1> QED
  BY <1>1, <1>2, KindFacts

(* What is there stays, whatever the task does.                             *)
LEMMA SameDirs ==
  ASSUME LinkerInv, nm' = nm, NEW p \in Paths
  PROVE  /\ nm' \in [Paths -> Dirs] /\ Exists(p)' = Exists(p) /\ nm'[p] = nm[p]
         /\ \A q \in Paths : Exists(q)' => \A r \in Above(q) : Exists(r)'
         /\ \A q \in Paths \ {p} : Len(q) <= depth /\ Exists(q) => nm'[q] = nm[q]
         /\ \A q \in Paths \ {p} : Exists(q)' => Exists(q) \/ q \in Above(p)
  BY TypeFacts DEF Exists

LEMMA StartLinker == ASSUME LinkerInv, NEW p \in Paths, StartTask(p) PROVE LinkerInv'
<1>1. /\ phase = "link" /\ p \in Linked /\ Len(p) = depth /\ task[p] = "wait"
      /\ Cardinality(InFlight) < Limit /\ task' = [task EXCEPT ![p] = "look"] /\ nm' = nm /\ Frame
  BY DEF StartTask, Group, Set
<1> QED
  BY <1>1, SameDirs, TaskStep

LEMMA LookLinker == ASSUME LinkerInv, NEW p \in Paths, Look(p) PROVE LinkerInv'
<1>1. task[p] = "look" /\ nm' = nm /\ Frame
  BY DEF Look
<1>2. Exists(p)' = Exists(p)
  BY <1>1 DEF Exists
<1>3. phase = "link" /\ p \in Linked /\ Len(p) = depth
  BY <1>1, AtWork DEF Working
<1>4. CASE Exists(p)
  <2>1. task' = [task EXCEPT ![p] = "done"]
    BY <1>4 DEF Look, Set
  <2>2. Len(p) >= depth
    BY <1>3, TypeFacts
  <2>3. p \in found
    BY <1>1, <1>3, <1>4, <2>2 DEF LinkerInv, UntouchedBelow
  <2> QED
    BY <1>1, <1>2, <1>3, <1>4, <2>1, <2>3, SameDirs, TaskStep
<1>5. CASE ~Exists(p)
  <2>1. task' = [task EXCEPT ![p] = "prepare"]
    BY <1>5 DEF Look, Set
  <2> QED
    BY <1>1, <1>2, <1>3, <1>5, <2>1, SameDirs, TaskStep
<1> QED
  BY <1>4, <1>5

LEMMA CloneLinker == ASSUME LinkerInv, NEW p \in Paths, Clone(p) PROVE LinkerInv'
<1> DEFINE d == Whole(layout.packages[p])
<1>1. /\ task[p] = "prepare" /\ task' = [task EXCEPT ![p] = "done"] /\ Frame
      /\ nm' = [MadeParents(p, nm) EXCEPT ![p] = d]
  BY DEF Clone, Set
<1>2. phase = "link" /\ p \in Linked /\ Len(p) = depth /\ d \in Dirs \ {Absent}
  BY <1>1, AtWork DEF Working
<1>3. /\ nm' \in [Paths -> Dirs] /\ nm'[p] = d
      /\ \A q \in Paths : Exists(q)' => \A r \in Above(q) : Exists(r)'
      /\ \A q \in Paths \ {p} : Exists(q) => nm'[q] = nm[q]
      /\ \A q \in Paths \ {p} : Exists(q)' => Exists(q) \/ q \in Above(p)
  BY <1>1, <1>2, MakeStep
<1>4. Exists(p)'
  BY <1>2, <1>3 DEF Exists
<1> QED
  BY <1>1, <1>2, <1>3, <1>4, TaskStep

(* What a fallback removes is below the directory, so deeper than its depth.*)
LEMMA FallBackLinker == ASSUME LinkerInv, NEW p \in Paths, FallBack(p) PROVE LinkerInv'
<1>1. task[p] = "prepare" /\ task' = [task EXCEPT ![p] = "fill"] /\ Frame
  BY DEF FallBack, Set
<1>2. phase = "link" /\ p \in Linked /\ Len(p) = depth
  BY <1>1, AtWork DEF Working
<1>3. CASE nm' = nm
  <2>1. nm'[p] = Absent
    BY <1>1, <1>3 DEF LinkerInv, OwnTask, Exists
  <2> QED
    BY <1>1, <1>2, <1>3, <2>1, SameDirs, TaskStep
<1>4. CASE nm' = [q \in Paths |-> IF q \in {p} \cup Below(p) THEN Absent ELSE MadeParents(p, nm)[q]]
  <2>1. nm \in [Paths -> Dirs] /\ \A q \in Paths : Exists(q) => \A r \in Above(q) : Exists(r)
    BY TypeFacts
  <2>2. /\ MadeParents(p, nm) \in [Paths -> Dirs]
        /\ \A q \in Paths : Exists(q) => MadeParents(p, nm)[q] = nm[q]
        /\ \A q \in Paths : MadeParents(p, nm)[q] # Absent <=> Exists(q) \/ q \in Above(p)
    BY <2>1, ParentFacts
  <2>3. nm' \in [Paths -> Dirs] /\ nm'[p] = Absent /\ ~Exists(p)
    BY <1>1, <1>4, <2>2, KindFacts DEF LinkerInv, OwnTask
  <2>4. \A q \in Paths : Exists(q)' <=> q \notin {p} \cup Below(p) /\ (Exists(q) \/ q \in Above(p))
    BY <1>4, <2>2 DEF Exists
  <2>5. ASSUME NEW q \in Paths, Exists(q)', NEW r \in Above(q) PROVE Exists(r)'
    <3>1. r \in Paths /\ Above(r) \subseteq Above(q) /\ (q \in Above(p) => r \in Above(p))
      BY AboveFacts
    <3>2. r \notin {p} \cup Below(p)
      BY <2>4, <2>5, <3>1, BelowFacts
    <3> QED
      BY <2>1, <2>4, <2>5, <3>1, <3>2
  <2>6. ASSUME NEW q \in Paths \ {p}, Len(q) <= depth, Exists(q) PROVE nm'[q] = nm[q]
    <3>1. Len(q) \in Nat /\ Len(p) \in Nat
      BY AboveFacts
    <3>2. q \notin Below(p)
      BY <1>2, <2>6, <3>1 DEF Below
    <3> QED
      BY <1>4, <2>2, <2>6, <3>2
  <2> QED
    BY <1>1, <1>2, <2>3, <2>4, <2>5, <2>6, TaskStep
<1> QED
  BY <1>3, <1>4 DEF FallBack

LEMMA MakeDirLinker == ASSUME LinkerInv, NEW p \in Paths, MakeDir(p) PROVE LinkerInv'
<1> DEFINE d == Part(layout.packages[p])
<1>1. /\ task[p] = "fill" /\ task' = task /\ Frame
      /\ nm' = [MadeParents(p, nm) EXCEPT ![p] = d]
  BY DEF MakeDir
<1>2. task' = [task EXCEPT ![p] = "fill"]
  BY <1>1, TypeFacts
<1>3. phase = "link" /\ p \in Linked /\ Len(p) = depth /\ d \in Dirs \ {Absent}
  BY <1>1, AtWork DEF Working
<1>4. /\ nm' \in [Paths -> Dirs] /\ nm'[p] = d
      /\ \A q \in Paths : Exists(q)' => \A r \in Above(q) : Exists(r)'
      /\ \A q \in Paths \ {p} : Exists(q) => nm'[q] = nm[q]
      /\ \A q \in Paths \ {p} : Exists(q)' => Exists(q) \/ q \in Above(p)
  BY <1>1, <1>3, MakeStep
<1>5. Exists(p)'
  BY <1>3, <1>4 DEF Exists
<1> QED
  BY <1>1, <1>2, <1>3, <1>4, <1>5, TaskStep

LEMMA FillLinker == ASSUME LinkerInv, NEW p \in Paths, Fill(p) PROVE LinkerInv'
<1> DEFINE d == Whole(layout.packages[p])
<1>1. /\ task[p] = "fill" /\ task' = [task EXCEPT ![p] = "done"] /\ Frame
      /\ nm[p] = Part(layout.packages[p]) /\ nm' = [nm EXCEPT ![p] = d]
  BY DEF Fill, Set
<1>2. phase = "link" /\ p \in Linked /\ Len(p) = depth /\ d \in Dirs \ {Absent}
  BY <1>1, AtWork DEF Working
<1>3. nm' \in [Paths -> Dirs] /\ nm'[p] = d /\ \A q \in Paths \ {p} : nm'[q] = nm[q]
  BY <1>1, <1>2, TypeFacts
<1>4. \A q \in Paths : Exists(q)' <=> Exists(q)
  BY <1>1, <1>2, <1>3, KindFacts DEF Exists
<1>5. \A q \in Paths : Exists(q)' => \A r \in Above(q) : Exists(r)'
  BY <1>4, TypeFacts, AboveFacts
<1>6. Exists(p)'
  BY <1>2, <1>3 DEF Exists
<1> QED
  BY <1>1, <1>2, <1>3, <1>4, <1>5, <1>6, TaskStep

LEMMA FailLinker == ASSUME LinkerInv, NEW p \in Paths, Fail(p) PROVE LinkerInv'
<1>1. task[p] \in {"prepare", "fill"} /\ task' = [task EXCEPT ![p] = "failed"] /\ nm' = nm /\ Frame
  BY DEF Fail, Set
<1>2. phase = "link" /\ p \in Linked /\ Len(p) = depth
  BY <1>1, AtWork DEF Working
<1> QED
  BY <1>1, <1>2, SameDirs, TaskStep

--------------------------------------------------------------------------------
(* A step that begins and ends no task, and leaves what the layout is.      *)
LEMMA SlotsStay ==
  ASSUME LinkerInv, UNCHANGED <<layout, locked, found, task, installs>>, nm' \in [Paths -> Dirs],
         \A q \in Paths : Exists(q)' => \A r \in Above(q) : Exists(r)',
         depth' \in Nat, left' \subseteq Locals,
         phase' \in {"idle", "link", "local", "members", "prune", "ended", "error"}
  PROVE  LinkTypeOK' /\ IsFiniteSet(InFlight)'
<1>1. InFlight' = InFlight
  BY DEF InFlight
<1>2. {q \in Paths : task'[q] \in {"look", "prepare", "fill"}} = InFlight
  BY DEF InFlight
<1> QED
  BY <1>1, <1>2, TypeFacts DEF LinkTypeOK, Dirs, Locals

(* Likewise where nothing in node_modules changes.                          *)
LEMMA QuietStep ==
  ASSUME LinkerInv, UNCHANGED <<nm, layout, locked, found, task, installs>>, depth' \in Nat, left' \subseteq Locals,
         phase' \in {"idle", "link", "local", "members", "prune", "ended", "error"}
  PROVE  LinkTypeOK' /\ IsFiniteSet(InFlight)'
<1>1. nm' \in [Paths -> Dirs] /\ \A q \in Paths : Exists(q)' => \A r \in Above(q) : Exists(r)'
  BY TypeFacts DEF Exists
<1> QED
  BY <1>1, SlotsStay

LEMMA NextDepthLinker == ASSUME LinkerInv, NextDepth PROVE LinkerInv'
<1>1. /\ phase = "link" /\ \A p \in Group : task[p] \in {"done", "failed"}
      /\ UNCHANGED <<nm, layout, locked, found, left, task, installs>>
  BY DEF NextDepth
<1>3. \A p \in Paths : task[p] \notin Working
  BY <1>1 DEF LinkerInv, DepthByDepth, Group, Working
<1>4. OwnTask' /\ KeptOnly' /\ AllAccounted' /\ DoneStays' /\ MembersStay' /\ EveryPackageInPlace'
  <2>1. phase' \in {"link", "local", "error"}
    BY <1>1 DEF NextDepth
  <2>2. OwnTask' /\ DoneStays' /\ MembersStay'
    BY <1>1, <2>1 DEF LinkerInv, OwnTask, DoneStays, MembersStay, Exists, Linking, Members
  <2>3. AllAccounted'
    BY <1>1, <2>1 DEF LinkerInv, AllAccounted, Accounted, Exists, Linking, Linked, Locals, Members
  <2> QED
    BY <2>1, <2>2, <2>3 DEF KeptOnly, EveryPackageInPlace
<1>5. \A p \in Linked : p \in Paths /\ Len(p) \in Nat
  BY TypeFacts, NameFacts, AboveFacts
<1>6. CASE phase' = "error" /\ depth' = depth
  <2>1. DepthByDepth' /\ UntouchedBelow' /\ LinksMade'
    BY <1>1, <1>3, <1>6 DEF LinkerInv, DepthByDepth, UntouchedBelow, LinksMade, Linked
  <2>2. LinkTypeOK' /\ IsFiniteSet(InFlight)'
    BY <1>1, <1>6, QuietStep, TypeFacts
  <2> QED
    BY <1>4, <2>1, <2>2 DEF LinkerInv
<1>7. CASE ~(\E p \in Group : task[p] = "failed") /\ depth' = depth + 1 /\ phase' = "link"
  <2>1. \A p \in Linked : Len(p) < depth + 1 => task[p] = "done"
    BY <1>1, <1>5, <1>7, TypeFacts DEF LinkerInv, DepthByDepth, Group
  <2>2. DepthByDepth'
    <3>1. \A p \in Paths : task'[p] # "wait" => p \in Linked' /\ Len(p) <= depth'
      BY <1>1, <1>5, <1>7, TypeFacts DEF LinkerInv, DepthByDepth, Linked
    <3> QED
      BY <1>1, <1>3, <1>7, <2>1, <3>1 DEF DepthByDepth, Linked
  <2>3. UntouchedBelow'
    <3> SUFFICES ASSUME NEW p \in Paths, Len(p) >= depth + 1, task[p] \in {"wait", "look"}, p \notin found
                 PROVE  ~Exists(p)
      BY <1>1, <1>7 DEF UntouchedBelow, Exists
    <3>1. Len(p) >= depth
      BY AboveFacts, TypeFacts
    <3> QED
      BY <1>1, <3>1 DEF LinkerInv, UntouchedBelow
  <2>4. LinksMade'
    BY <1>1, <1>7 DEF LinkerInv, LinksMade, Locals
  <2>5. LinkTypeOK' /\ IsFiniteSet(InFlight)'
    BY <1>1, <1>7, QuietStep, TypeFacts
  <2> QED
    BY <1>4, <2>2, <2>3, <2>4, <2>5 DEF LinkerInv
<1>8. CASE ~(\E p \in Group : task[p] = "failed") /\ ~(\E p \in Linked : Len(p) > depth) /\ depth' = depth /\ phase' = "local"
  <2>1. \A p \in Linked : task[p] = "done"
    BY <1>1, <1>5, <1>8, TypeFacts DEF LinkerInv, DepthByDepth, Group
  <2>2. DepthByDepth' /\ UntouchedBelow'
    BY <1>1, <1>3, <1>8, <2>1 DEF LinkerInv, DepthByDepth, UntouchedBelow, Linked
  <2>3. LinksMade'
    BY <1>1, <1>8 DEF LinkerInv, LinksMade, Locals
  <2>4. LinkTypeOK' /\ IsFiniteSet(InFlight)'
    BY <1>1, <1>8, QuietStep, TypeFacts
  <2> QED
    BY <1>4, <2>2, <2>3, <2>4 DEF LinkerInv
<1> QED
  BY <1>6, <1>7, <1>8, <1>1 DEF NextDepth

(* A local dependency is linked over no directory this install made.        *)
LEMMA LocalLinker == ASSUME LinkerInv, NEW n \in Locals, LinkLocal(n) PROVE LinkerInv'
<1>1. /\ phase = "local" /\ n \in left
      /\ UNCHANGED <<layout, locked, found, depth, task, installs>>
  BY DEF LinkLocal
<1>2. \A p \in Paths : task[p] \notin Working
  BY <1>1 DEF LinkerInv, DepthByDepth
<1>3. CASE phase' = "error" /\ UNCHANGED <<nm, left>>
  <2>1. LinkTypeOK' /\ IsFiniteSet(InFlight)'
    BY <1>1, <1>3, QuietStep, TypeFacts
  <2>2. DepthByDepth' /\ UntouchedBelow' /\ LinksMade' /\ OwnTask'
    BY <1>1, <1>2, <1>3 DEF LinkerInv, DepthByDepth, UntouchedBelow, LinksMade, OwnTask, Linked, Working
  <2>3. DoneStays' /\ MembersStay' /\ AllAccounted' /\ KeptOnly' /\ EveryPackageInPlace'
    BY <1>3 DEF DoneStays, MembersStay, AllAccounted, KeptOnly, EveryPackageInPlace, Linking
  <2> QED
    BY <2>1, <2>2, <2>3 DEF LinkerInv
<1>4. CASE /\ nm[<<n>>].is \in {"absent", "link", "part"} /\ phase' = phase
           /\ nm' = [nm EXCEPT ![<<n>>] = Link(layout.local[n])] /\ left' = left \ {n}
  <2> DEFINE e == <<n>>
  <2>1. e \in Paths /\ Len(e) = 1 /\ Top(e) = n /\ Link(layout.local[n]) \in Dirs \ {Absent}
    BY TypeFacts, NameFacts, KindFacts
  <2>2. /\ nm' \in [Paths -> Dirs] /\ nm'[e] = Link(layout.local[n])
        /\ \A p \in Paths \ {e} : nm'[p] = nm[p]
    BY <1>4, <2>1, TypeFacts
  <2>3. \A p \in Paths : Exists(p)' <=> p = e \/ Exists(p)
    BY <2>1, <2>2 DEF Exists
  <2>4. ASSUME NEW p \in Paths, Exists(p)', NEW r \in Above(p) PROVE Exists(r)'
    <3>1. r \in Paths
      BY AboveFacts
    <3>2. p # e
      BY <2>1, TopFacts
    <3> QED
      BY <2>3, <2>4, <3>1, <3>2, TypeFacts
  <2>5. DepthByDepth' /\ UntouchedBelow' /\ OwnTask'
    BY <1>1, <1>2, <1>4 DEF LinkerInv, DepthByDepth, UntouchedBelow, OwnTask, Linked, Working
  <2>6. DoneStays'
    <3> SUFFICES ASSUME NEW p \in Paths, task[p] = "done"
                 PROVE  Exists(p)' /\ (p \notin found => nm'[p] = Whole(layout.packages[p]))
      BY <1>1, <1>4 DEF DoneStays
    <3>1. Exists(p) /\ (p \notin found => nm[p] = Whole(layout.packages[p]))
      BY <1>1 DEF LinkerInv, DoneStays, Linking
    <3>2. p = e => p \in found
      BY <1>4, <3>1, KindFacts
    <3> QED
      BY <2>2, <2>3, <3>1, <3>2
  <2>7. LinksMade'
    <3>1. \A m \in Locals \ left : nm[<<m>>] = Link(layout.local[m])
      BY <1>1 DEF LinkerInv, LinksMade
    <3>2. \A m \in Locals : <<m>> \in Paths
      BY TypeFacts, NameFacts
    <3>3. \A m \in Locals \ (left \ {n}) : nm'[<<m>>] = Link(layout.local[m])
      BY <2>2, <3>1, <3>2
    <3> QED
      BY <1>1, <1>4, <3>3 DEF LinksMade, Locals
  <2>8. AllAccounted'
    <3> SUFFICES ASSUME NEW p \in Paths, Exists(p)' PROVE Accounted(p)
      BY <1>1, <1>4 DEF AllAccounted, Accounted, Linked, Locals, Members
    <3>1. CASE p = e
      <4>1. Len(p) = 1 /\ Top(p) \in Locals
        BY <2>1, <3>1
      <4> QED
        BY <4>1 DEF Accounted
    <3>2. CASE p # e
      BY <1>1, <2>3, <3>2 DEF LinkerInv, AllAccounted, Linking
    <3> QED
      BY <3>1, <3>2
  <2>9. KeptOnly' /\ EveryPackageInPlace'
    BY <1>1, <1>4 DEF KeptOnly, EveryPackageInPlace
  <2>10. left' \subseteq Locals
    BY <1>4, TypeFacts
  <2>11. MembersStay'
    <3>1. \A m \in Members : <<m>> \in found => <<m>> \in Paths /\ Exists(<<m>>)
      BY <1>1, TypeFacts, NameFacts DEF LinkerInv, MembersStay, Linking
    <3> QED
      BY <1>1, <2>3, <3>1 DEF MembersStay, Members
  <2> QED
    BY <1>1, <1>4, <2>2, <2>4, <2>5, <2>6, <2>7, <2>8, <2>9, <2>10, <2>11, SlotsStay, TypeFacts DEF LinkerInv
<1> QED
  BY <1>1, <1>3, <1>4 DEF LinkLocal

LEMMA LocalsLinker == ASSUME LinkerInv, LinkedLocals PROVE LinkerInv'
<1>1. phase = "local" /\ left = {} /\ phase' = (IF locked THEN "prune" ELSE "members") /\ UNCHANGED <<nm, layout, locked, found, depth, left, task, installs>>
  BY DEF LinkedLocals
<1>2. LinkTypeOK' /\ IsFiniteSet(InFlight)'
  BY <1>1, QuietStep, TypeFacts
<1>3. DepthByDepth' /\ UntouchedBelow' /\ OwnTask'
  BY <1>1 DEF LinkerInv, DepthByDepth, UntouchedBelow, OwnTask, Linked, Working
<1>4. DoneStays' /\ LinksMade'
  BY <1>1 DEF LinkerInv, DoneStays, LinksMade, Locals, Exists, Linking
<1>5. MembersStay' /\ AllAccounted' /\ KeptOnly' /\ EveryPackageInPlace'
  BY <1>1 DEF LinkerInv, MembersStay, AllAccounted, Accounted, KeptOnly, EveryPackageInPlace, Exists, Linking, Linked, Locals, Members
<1> QED
  BY <1>2, <1>3, <1>4, <1>5 DEF LinkerInv

LEMMA MembersLinker == ASSUME LinkerInv, LinkMembers PROVE LinkerInv'
<1> DEFINE Here(p) == Len(p) = 1 /\ Top(p) \in Members /\ nm[p] = Absent
<1>1. /\ phase = "members" /\ phase' = "prune" /\ UNCHANGED <<layout, locked, found, depth, left, task, installs>>
      /\ nm' = [p \in Paths |-> IF Here(p) THEN Link(layout.members[Top(p)]) ELSE nm[p]]
  BY DEF LinkMembers
<1>2. /\ nm' \in [Paths -> Dirs] /\ \A p \in Paths : Exists(p)' <=> Here(p) \/ Exists(p)
      /\ \A p \in Paths : Exists(p) => nm'[p] = nm[p]
  <2>1. \A p \in Paths : Here(p) => Link(layout.members[Top(p)]) \in Dirs \ {Absent}
    BY TypeFacts, NameFacts, KindFacts
  <2> QED
    BY <1>1, <2>1, TypeFacts DEF Exists
<1>3. ASSUME NEW p \in Paths, Exists(p)', NEW r \in Above(p) PROVE Exists(r)'
  <2>1. r \in Paths
    BY AboveFacts
  <2>2. ~Here(p)
    BY TopFacts
  <2> QED
    BY <1>2, <1>3, <2>1, <2>2, TypeFacts
<1>4. DepthByDepth' /\ UntouchedBelow' /\ OwnTask'
  <2>1. \A p \in Paths : task[p] \notin Working
    BY <1>1 DEF LinkerInv, DepthByDepth
  <2> QED
    BY <1>1, <2>1 DEF LinkerInv, DepthByDepth, UntouchedBelow, OwnTask, Linked, Working
<1>5. DoneStays'
  <2> SUFFICES ASSUME NEW p \in Paths, task[p] = "done"
               PROVE  Exists(p)' /\ (p \notin found => nm'[p] = Whole(layout.packages[p]))
    BY <1>1 DEF DoneStays
  <2>1. Exists(p) /\ (p \notin found => nm[p] = Whole(layout.packages[p]))
    BY <1>1 DEF LinkerInv, DoneStays, Linking
  <2> QED
    BY <1>2, <2>1
<1>6. LinksMade'
  <2>1. \A n \in Locals \cup Members : <<n>> \in Paths /\ Len(<<n>>) = 1 /\ Top(<<n>>) = n
    BY TypeFacts, NameFacts
  <2>2. left = {} /\ \A n \in Locals : nm[<<n>>] = Link(layout.local[n])
    BY <1>1 DEF LinkerInv, LinksMade
  <2>3. \A n \in Locals : nm'[<<n>>] = Link(layout.local[n])
    BY <1>2, <2>1, <2>2, KindFacts DEF Exists
  <2>4. \A n \in Members : Exists(<<n>>)'
    BY <1>2, <2>1 DEF Exists
  <2> QED
    BY <1>1, <2>2, <2>3, <2>4 DEF LinksMade, Locals, Members
<1>7. AllAccounted'
  <2> SUFFICES ASSUME NEW p \in Paths, Exists(p)' PROVE Accounted(p)
    BY <1>1 DEF AllAccounted, Accounted, Linked, Locals, Members
  <2>1. CASE Here(p)
    BY <1>1, <2>1 DEF LinkerInv, LinksMade, Accounted
  <2>2. CASE Exists(p)
    BY <1>1, <2>2 DEF LinkerInv, AllAccounted, Linking
  <2> QED
    BY <1>2, <2>1, <2>2
<1>8. KeptOnly' /\ EveryPackageInPlace'
  BY <1>1 DEF KeptOnly, EveryPackageInPlace
<1>9. MembersStay'
  <2>1. \A n \in Members : <<n>> \in found => <<n>> \in Paths /\ Exists(<<n>>)
    BY <1>1, TypeFacts, NameFacts DEF LinkerInv, MembersStay, Linking
  <2> QED
    BY <1>1, <1>2, <2>1 DEF MembersStay, Members
<1> HIDE DEF Here
<1> QED
  BY <1>1, <1>2, <1>3, <1>4, <1>5, <1>6, <1>7, <1>8, <1>9, SlotsStay, TypeFacts DEF LinkerInv

(* A package whose holders are all of the install has a top-level entry     *)
(* that is kept.                                                            *)
LEMMA KeptFacts ==
  ASSUME LinkerInv
  PROVE  /\ \A p \in Linked : Above(p) \subseteq Linked => Top(p) \in Kept
         /\ \A n \in Locals \cup Members : n \in Kept
<1>1. ASSUME NEW p \in Linked, Above(p) \subseteq Linked PROVE Top(p) \in Kept
  <2>1. p \in Paths
    BY TypeFacts, NameFacts
  <2>2. Len(p) = 1 \/ Len(p) > 1
    <3>1. Len(p) \in Nat /\ Len(p) > 0
      BY <2>1, AboveFacts
    <3>2. \A n \in Nat : n > 0 => n = 1 \/ n > 1
      OBVIOUS
    <3> QED
      BY <3>1, <3>2, Zenon
  <2>3. CASE Len(p) = 1
    BY <2>3 DEF Kept, Top
  <2>4. CASE Len(p) > 1
    <3>1. <<Top(p)>> \in Linked
      BY <1>1, <2>1, <2>4, TopFacts
    <3>2. Len(<<Top(p)>>) = 1 /\ <<Top(p)>>[1] = Top(p)
      OBVIOUS
    <3>3. <<Top(p)>>[Len(<<Top(p)>>)] = Top(p)
      BY <3>2
    <3> QED
      BY <3>1, <3>3 DEF Kept
  <2> QED
    BY <2>2, <2>3, <2>4
<1> QED
  BY <1>1 DEF Kept

LEMMA PruneLinker == ASSUME LinkerInv, Prune PROVE LinkerInv'
<1>1. /\ phase = "prune" /\ phase' = "ended" /\ UNCHANGED <<layout, locked, found, depth, left, task, installs>>
      /\ nm' = [p \in Paths |-> IF Top(p) \in Kept THEN nm[p] ELSE Absent]
  BY DEF Prune
<1>2. /\ nm' \in [Paths -> Dirs] /\ \A p \in Paths : Exists(p)' <=> Exists(p) /\ Top(p) \in Kept
      /\ \A p \in Paths : Top(p) \in Kept => nm'[p] = nm[p]
  BY <1>1, TypeFacts, KindFacts DEF Exists
<1>3. ASSUME NEW p \in Paths, Exists(p)', NEW r \in Above(p) PROVE Exists(r)'
  BY <1>2, <1>3, TypeFacts, AboveFacts
<1>4. \A p \in Paths : task[p] \notin Working
  BY <1>1 DEF LinkerInv, DepthByDepth
<1>5. DepthByDepth' /\ UntouchedBelow' /\ OwnTask' /\ DoneStays'
  BY <1>1, <1>4 DEF LinkerInv, DepthByDepth, UntouchedBelow, OwnTask, DoneStays, Linked, Working, Linking
<1>6. LinksMade'
  <2>1. \A n \in Locals \cup Members : <<n>> \in Paths /\ Top(<<n>>) = n /\ n \in Kept
    BY TypeFacts, NameFacts, KeptFacts
  <2>2. \A n \in Locals \cup Members : nm'[<<n>>] = nm[<<n>>] /\ (Exists(<<n>>)' <=> Exists(<<n>>))
    BY <1>2, <2>1
  <2>3. /\ left = {} /\ \A n \in Locals : nm[<<n>>] = Link(layout.local[n])
        /\ ~locked => \A n \in Members : Exists(<<n>>)
    BY <1>1 DEF LinkerInv, LinksMade
  <2> QED
    BY <1>1, <2>2, <2>3 DEF LinksMade, Locals, Members
<1>7. AllAccounted'
  BY <1>1, <1>2 DEF LinkerInv, AllAccounted, Accounted, Linked, Locals, Members, Linking
<1>8. MembersStay'
  <2>1. \A n \in Members : <<n>> \in Paths /\ Top(<<n>>) = n /\ n \in Kept /\ (<<n>> \in found => Exists(<<n>>))
    BY <1>1, TypeFacts, NameFacts, KeptFacts DEF LinkerInv, MembersStay, Linking
  <2> QED
    BY <1>1, <1>2, <2>1 DEF MembersStay, Members
<1>9. KeptOnly'
  <2>1. Kept' = Kept
    BY <1>1 DEF Kept, Linked, Locals, Members
  <2> QED
    BY <1>2, <2>1 DEF KeptOnly, Top
<1>10. EveryPackageInPlace'
  <2> SUFFICES ASSUME NEW p \in Linked, Above(p) \subseteq Linked
               PROVE  Exists(p)' /\ (p \notin found => nm'[p] = Whole(layout.packages[p]))
    BY <1>1 DEF EveryPackageInPlace, Linked, Above
  <2>1. p \in Paths /\ task[p] = "done" /\ Top(p) \in Kept
    BY <1>1, TypeFacts, NameFacts, KeptFacts DEF LinkerInv, DepthByDepth
  <2>2. Exists(p) /\ (p \notin found => nm[p] = Whole(layout.packages[p]))
    BY <1>1, <2>1 DEF LinkerInv, DoneStays, Linking
  <2> QED
    BY <1>2, <2>1, <2>2
<1> QED
  BY <1>1, <1>2, <1>3, <1>5, <1>6, <1>7, <1>8, <1>9, <1>10, SlotsStay, TypeFacts DEF LinkerInv

LEMMA StillLinker == ASSUME LinkerInv, UNCHANGED linkVars PROVE LinkerInv'
<1>1. UNCHANGED <<nm, layout, locked, found, depth, left, task, phase, installs>>
  BY DEF linkVars
<1>3. LinkTypeOK' /\ IsFiniteSet(InFlight)'
  BY <1>1, QuietStep, TypeFacts
<1>4. DepthByDepth' /\ UntouchedBelow' /\ OwnTask' /\ DoneStays' /\ LinksMade'
  BY <1>1 DEF LinkerInv, DepthByDepth, UntouchedBelow, OwnTask, DoneStays, LinksMade, Exists, Linked, Locals, Members
<1>5. MembersStay' /\ AllAccounted' /\ KeptOnly' /\ EveryPackageInPlace'
  BY <1>1 DEF LinkerInv, MembersStay, AllAccounted, Accounted, KeptOnly, Kept, EveryPackageInPlace, Exists, Linked, Locals, Members
<1> QED
  BY <1>3, <1>4, <1>5 DEF LinkerInv

LEMMA NextLinker == LinkerInv /\ [LinkNext]_linkVars => LinkerInv'
<1> SUFFICES ASSUME LinkerInv, [LinkNext]_linkVars PROVE LinkerInv'
  OBVIOUS
<1>1. CASE Begin
  BY <1>1, BeginLinker
<1>2. CASE Kill
  BY <1>2, KillLinker
<1>3. ASSUME NEW p \in Paths, Work(p) PROVE LinkerInv'
  BY <1>3, StartLinker, LookLinker, CloneLinker, FallBackLinker, MakeDirLinker, FillLinker, FailLinker DEF Work, Proceed
<1>4. CASE NextDepth
  BY <1>4, NextDepthLinker
<1>5. CASE Local
  BY <1>5, LocalLinker DEF Local
<1>6. CASE LinkedLocals
  BY <1>6, LocalsLinker
<1>7. CASE LinkMembers
  BY <1>7, MembersLinker
<1>8. CASE Prune
  BY <1>8, PruneLinker
<1>9. CASE UNCHANGED linkVars
  BY <1>9, StillLinker
<1> QED
  BY <1>1, <1>2, <1>3, <1>4, <1>5, <1>6, <1>7, <1>8, <1>9 DEF LinkNext

--------------------------------------------------------------------------------
(* The inductive invariant holds in every behaviour.                        *)
THEOREM LinkerInvariant == LinkSpec => []LinkerInv
<1>1. LinkInit => LinkerInv
  BY InitLinker
<1>2. LinkerInv /\ [LinkNext]_linkVars => LinkerInv'
  BY NextLinker
<1> QED
  BY <1>1, <1>2, PTL DEF LinkSpec

(* After every install that ends well each package of it is there, and is   *)
(* whole and of its version wherever nothing was before (Link, Materialize, *)
(* prune of internal/linker and internal/installer).                        *)
THEOREM PackagesInPlace == LinkSpec => []EveryPackageInPlace
<1>1. LinkerInv => EveryPackageInPlace
  BY DEF LinkerInv
<1> QED
  BY <1>1, LinkerInvariant, PTL

(* After every install that ends well the top level has its packages, local *)
(* dependencies and members -- where it is straight from the lockfile, the  *)
(* members that had an entry before -- and of what is no more wanted only   *)
(* what the name of a nested package protects (prune, TopLevelName,         *)
(* applyLocalLinks, linkWorkspaces, runLocked).                             *)
THEOREM TopLevelStaysRight == LinkSpec => []TopLevelIsRight
<1>1. LinkerInv => TopLevelIsRight
  <2> SUFFICES ASSUME LinkerInv, phase = "ended" PROVE TopLevelIsRight
    BY DEF TopLevelIsRight
  <2> DEFINE entries == {p \in Paths : Len(p) = 1 /\ Exists(p)}
             wanted  == {p \in Linked : Len(p) = 1} \cup {<<n>> : n \in Locals \cup LinkedMembers}
  <2>1. \A n \in Locals : nm[<<n>>] = Link(layout.local[n])
    BY DEF LinkerInv, LinksMade
  <2>2. \A n \in Locals \cup Members : <<n>> \in Paths /\ Len(<<n>>) = 1
    BY TypeFacts, NameFacts
  <2>3. wanted \subseteq entries
    <3>1. ASSUME NEW p \in Linked, Len(p) = 1 PROVE p \in entries
      <4>1. p \in Paths /\ Above(p) = {}
        BY <3>1, TypeFacts, NameFacts, TopFacts
      <4> QED
        BY <3>1, <4>1 DEF LinkerInv, EveryPackageInPlace
    <3>2. \A n \in Locals : Exists(<<n>>)
      BY <2>1, KindFacts DEF Exists
    <3>3. \A n \in LinkedMembers : Exists(<<n>>)
      BY DEF LinkerInv, LinksMade, MembersStay, LinkedMembers
    <3> QED
      BY <2>2, <3>1, <3>2, <3>3 DEF LinkedMembers
  <2>4. ASSUME NEW p \in entries \ wanted
        PROVE  /\ p \in found \/ \E q \in Linked : p \in Above(q)
               /\ \E q \in Linked : Len(q) > 1 /\ q[Len(q)] = Top(p)
    <3>1. p \in Paths /\ Exists(p) /\ Len(p) = 1 /\ p = <<Top(p)>> /\ p \notin Linked /\ Top(p) \notin Locals \cup LinkedMembers
      BY TopFacts
    <3>2. Accounted(p)
      BY <3>1 DEF LinkerInv, AllAccounted
    <3>3. p \in found \/ \E q \in Linked : p \in Above(q)
      BY <3>1, <3>2 DEF Accounted, LinkedMembers
    <3>4. Top(p) \notin Members
      <4> SUFFICES ASSUME Top(p) \in Members PROVE FALSE
        OBVIOUS
      <4>1. PICK q \in Linked : p \in Above(q)
        BY <3>1, <3>3 DEF LinkedMembers
      <4>2. q \in Paths /\ Top(q) = Top(p) /\ Len(q) = 1
        BY <4>1, TypeFacts, NameFacts, AboveFacts
      <4> QED
        BY <4>1, <4>2, TopFacts
    <3>5. Top(p) \in Kept
      BY <3>1 DEF LinkerInv, KeptOnly
    <3>6. PICK q \in Linked : q[Len(q)] = Top(p)
      BY <3>1, <3>4, <3>5 DEF Kept
    <3>7. q \in Paths /\ (Len(q) = 1 \/ Len(q) > 1)
      BY TypeFacts, NameFacts, AboveFacts
    <3>8. CASE Len(q) = 1
      <4>1. q = <<Top(q)>> /\ Top(q) = Top(p)
        BY <3>6, <3>7, <3>8, TopFacts DEF Top
      <4> QED
        BY <3>1, <4>1
    <3> QED
      BY <3>3, <3>6, <3>7, <3>8
  <2> QED
    BY <2>1, <2>3, <2>4 DEF TopLevelIsRight
<1> QED
  BY <1>1, LinkerInvariant, PTL
================================================================================
