------------------------------ MODULE Solver_proofs ------------------------------
(***************************************************************************)
(* Proofs about the solver, for any packages, ranges, requests and limit   *)
(* of turns: what it returns is a solution, and the lockfile's while that  *)
(* is one.                                                                 *)
(***************************************************************************)
EXTENDS PubGrub, Range_proofs

(* Ranges as the solver uses them.                                           *)

(* The ranges that the solver writes itself.                                *)
LEMMA OwnRanges ==
  /\ AnyRange \in NpmRange
  /\ \A x \in Point : x \in Points(AnyRange)
  /\ \A v \in Version : /\ Exact(v) \in NpmRange
                        /\ \A w \in Version : <<w, 0>> \in Points(Exact(v)) <=> v = w
<1>1. AnyRange \in NpmRange /\ \A x \in Point : x \in Points(AnyRange)
  <2>1. Unset \in Bound /\ {} \in SUBSET {Triple(v) : v \in Version}
    BY UnsetType
  <2>2. AnyClause \in Clause /\ AnyClause.lo = Unset /\ AnyClause.hi = Unset
    BY <2>1, IntervalType DEF AnyClause
  <2>3. \A x \in Point : Within(AnyClause, x)
    BY <2>2, UnsetType DEF Within, StartsAt, EndsAt
  <2> QED BY <2>2, <2>3, FS_Singleton DEF AnyRange, NpmRange, Points
<1>2. ASSUME NEW v \in Version
      PROVE  /\ Exact(v) \in NpmRange
             /\ \A w \in Version : <<w, 0>> \in Points(Exact(v)) <=> v = w
  <2> DEFINE b == From(v, TRUE)
             c == Interval(b, b, {})
  <2>1. b \in Bound /\ b.set = TRUE /\ b.at = v /\ b.incl = TRUE /\ {} \in SUBSET {Triple(w) : w \in Version}
    BY FromType
  <2> HIDE DEF b
  <2>2. c \in Clause /\ c.lo = b /\ c.hi = b
    BY <2>1, IntervalType
  <2> HIDE DEF c
  <2>3. ASSUME NEW w \in Version
        PROVE  /\ <<w, 0>> \in Point
               /\ Within(c, <<w, 0>>) <=> v = w
    <3>1. Side(<<w, 0>>, v) = Compare(w, v)
      BY DEF Side
    <3>2. Compare(w, v) = 0 <=> v = w
      BY Order, IdentityAssumption
    <3>3. Compare(w, v) \in {-1, 0, 1}
      BY Order
    <3>4. <<w, 0>> \in Point
      BY VersionIsPoint
    <3> QED BY <2>1, <2>2, <3>1, <3>2, <3>3, <3>4 DEF Within, StartsAt, EndsAt
  <2>4. Exact(v) = {c}
    BY DEF Exact, c, b
  <2>5. Exact(v) \in NpmRange
    BY <2>2, <2>4, FS_Singleton DEF NpmRange
  <2> QED BY <2>3, <2>4, <2>5 DEF Points
<1> QED BY <1>1, <1>2

(* A version satisfies a range where its point is.                          *)
LEMMA SatisfiesIsPoint ==
  ASSUME NEW r \in NpmRange, NEW v \in Version
  PROVE  /\ <<v, 0>> \in Point
         /\ Satisfies(r, v) <=> <<v, 0>> \in Points(r)
<1>1. r \in Ranges
  BY DEF NpmRange, Ranges
<1>2. Satisfies(r, v) <=> Reaches(r, v)
  BY ReleasesAssumption DEF Satisfies, Reaches, ClauseSatisfies
<1> QED BY <1>1, <1>2, ReachesIsPoint, VersionIsPoint

(* Meeting ranges one after another, in whatever order, makes the range of  *)
(* the points they share.                                                   *)
LEMMA MeetFacts ==
  ASSUME NEW S, IsFiniteSet(S), S \subseteq NpmRange
  PROVE  /\ Meet(S) \in NpmRange
         /\ \A x \in Point : x \in Points(Meet(S)) <=> \A r \in S : x \in Points(r)
<1> DEFINE Taken(s) == CHOOSE r \in s : TRUE
           Rec(f, s) == IF s = {} THEN AnyRange ELSE Intersect(Taken(s), f[s \ {Taken(s)}])
           Def(f) == f = [s \in SUBSET S |-> Rec(f, s)]
           V == NpmRange
<1>1. \A s \in SUBSET S : s # {} => Taken(s) \in s
  OBVIOUS
<1> HIDE DEF Taken
<1>2. \E f : Def(f)
  <2> DEFINE ch == [s \in (SUBSET S) \ {{}} |-> Taken(s)]
             op == [e \in S \X V |-> Intersect(e[1], e[2])]
  <2>1. ch \in [(SUBSET S) \ {{}} -> S] /\ \A s \in (SUBSET S) \ {{}} : ch[s] \in s
    BY <1>1
  <2>2. op \in [S \X V -> V]
    BY IntersectFacts
  <2>3. AnyRange \in V
    BY OwnRanges
  <2>4. TakesOut(ch, S)
    BY <2>1 DEF TakesOut
  <2> HIDE DEF ch, op, V
  <2>5. PICK f \in [SUBSET S -> V] : Folded(f, S, AnyRange, op, ch)
    BY <2>2, <2>3, <2>4, FoldExists
  <2>6. ASSUME NEW s \in SUBSET S PROVE f[s] = Rec(f, s)
    <3>1. CASE s = {}
      BY <2>5, <3>1 DEF Folded
    <3>2. CASE s # {}
      <4>1. ch[s] = Taken(s) /\ ch[s] \in S /\ f[s \ {ch[s]}] \in V
        BY <2>1, <2>5, <3>2 DEF ch
      <4>2. f[s] = op[<<ch[s], f[s \ {ch[s]}]>>]
        BY <2>5, <3>2 DEF Folded
      <4>3. op[<<ch[s], f[s \ {ch[s]}]>>] = Intersect(ch[s], f[s \ {ch[s]}])
        BY <4>1 DEF op
      <4> QED BY <4>1, <4>2, <4>3, <3>2
    <3> QED BY <3>1, <3>2
  <2>7. Def(f)
    <3> HIDE DEF Rec
    <3> QED BY <2>5, <2>6
  <2> HIDE DEF Def
  <2> QED BY <2>7
<1>3. PICK f : Def(f) /\ Meet(S) = f[S]
  <2>1. Meet(S) = (CHOOSE g : Def(g))[S]
    BY DEF Meet, FoldSet, MapThenFoldSet, Taken
  <2>2. Def(CHOOSE g : Def(g))
    <3> HIDE DEF Def
    <3> QED BY <1>2
  <2> HIDE DEF Def
  <2> QED BY <2>1, <2>2
<1>4. \A s \in SUBSET S : f[s] = Rec(f, s)
  <2> HIDE DEF Rec
  <2> QED BY <1>3
<1> DEFINE Is(s) == /\ f[s] \in NpmRange
                    /\ \A x \in Point : x \in Points(f[s]) <=> \A r \in s : x \in Points(r)
           Q == {s \in SUBSET S : Is(s)}
<1>5. ASSUME NEW s \in SUBSET S, \A t \in SUBSET s : t # s => t \in Q
      PROVE  s \in Q
  <2>1. CASE s = {}
    <3>1. f[s] = AnyRange
      BY <1>4, <2>1
    <3> QED BY <3>1, <2>1, OwnRanges
  <2>2. CASE s # {}
    <3> DEFINE r == Taken(s)
               t == s \ {r}
    <3>1. r \in s /\ r \in NpmRange
      BY <1>1, <2>2
    <3>2. Is(t)
      BY <1>5, <3>1
    <3>3. f[s] = Intersect(r, f[t])
      BY <1>4, <2>2
    <3>4. s = t \cup {r}
      BY <3>1
    <3> HIDE DEF r, t
    <3>5. Intersect(r, f[t]) \in NpmRange /\ Points(Intersect(r, f[t])) = Points(r) \cap Points(f[t])
      BY <3>1, <3>2, IntersectFacts
    <3> QED BY <3>1, <3>2, <3>3, <3>4, <3>5
  <2> QED BY <2>1, <2>2
<1>6. S \in Q
  <2>1. SUBSET S \subseteq Q
    <3> HIDE DEF Q
    <3> QED BY <1>5, SubsetInduction
  <2> QED BY <2>1
<1> QED BY <1>3, <1>6
--------------------------------------------------------------------------------
(* What a sequence has in it.                                               *)
Has(s, x) == \E i \in DOMAIN s : s[i] = x

(* What is in either part, at the index it had in the first one.            *)
LEMMA HasConcat ==
  ASSUME NEW Elem, NEW s \in Seq(Elem), NEW t \in Seq(Elem)
  PROVE  /\ s \o t \in Seq(Elem)
         /\ \A x : Has(s \o t, x) <=> Has(s, x) \/ Has(t, x)
         /\ \A i \in DOMAIN s : i \in DOMAIN (s \o t) /\ (s \o t)[i] = s[i]
<1>1. /\ s \o t \in Seq(Elem) /\ Len(s \o t) = Len(s) + Len(t)
      /\ Len(s) \in Nat /\ Len(t) \in Nat
      /\ DOMAIN s = 1..Len(s) /\ DOMAIN t = 1..Len(t) /\ DOMAIN (s \o t) = 1..(Len(s) + Len(t))
  OBVIOUS
<1>2. \A i \in 1..(Len(s) + Len(t)) : (s \o t)[i] = IF i <= Len(s) THEN s[i] ELSE t[i - Len(s)]
  BY ConcatProperties
<1>3. \A i \in DOMAIN s : i \in DOMAIN (s \o t) /\ (s \o t)[i] = s[i]
  BY <1>1, <1>2
<1>4. \A j \in DOMAIN t : j + Len(s) \in DOMAIN (s \o t) /\ (s \o t)[j + Len(s)] = t[j]
  <2> SUFFICES ASSUME NEW j \in DOMAIN t
               PROVE  j + Len(s) \in DOMAIN (s \o t) /\ (s \o t)[j + Len(s)] = t[j]
    OBVIOUS
  <2>1. j + Len(s) \in 1..(Len(s) + Len(t)) /\ ~(j + Len(s) <= Len(s)) /\ j + Len(s) - Len(s) = j
    BY <1>1
  <2> QED BY <1>1, <1>2, <2>1
<1>5. ASSUME NEW x, Has(s \o t, x) PROVE Has(s, x) \/ Has(t, x)
  <2>1. PICK i \in 1..(Len(s) + Len(t)) : (s \o t)[i] = x
    BY <1>1, <1>5 DEF Has
  <2>2. CASE i <= Len(s)
    <3>1. i \in DOMAIN s BY <1>1, <2>2
    <3> QED BY <1>2, <2>1, <2>2, <3>1 DEF Has
  <2>3. CASE ~(i <= Len(s))
    <3>1. i - Len(s) \in DOMAIN t BY <1>1, <2>3
    <3> QED BY <1>2, <2>1, <2>3, <3>1 DEF Has
  <2> QED BY <2>2, <2>3
<1> QED BY <1>1, <1>3, <1>4, <1>5 DEF Has

(* What was there, where it was, and the new element last.                  *)
LEMMA HasAppend ==
  ASSUME NEW Elem, NEW s \in Seq(Elem), NEW y \in Elem
  PROVE  /\ Append(s, y) \in Seq(Elem)
         /\ Len(s) \in Nat /\ Len(Append(s, y)) = Len(s) + 1
         /\ DOMAIN s = 1..Len(s) /\ DOMAIN Append(s, y) = 1..(Len(s) + 1)
         /\ Append(s, y)[Len(s) + 1] = y
         /\ \A i \in DOMAIN s : i \in DOMAIN Append(s, y) /\ Append(s, y)[i] = s[i]
         /\ \A x : Has(Append(s, y), x) <=> Has(s, x) \/ x = y
<1>1. /\ Append(s, y) \in Seq(Elem)
      /\ Len(s) \in Nat /\ Len(Append(s, y)) = Len(s) + 1
      /\ DOMAIN s = 1..Len(s) /\ DOMAIN Append(s, y) = 1..(Len(s) + 1)
      /\ Append(s, y)[Len(s) + 1] = y
      /\ \A i \in 1..Len(s) : Append(s, y)[i] = s[i]
  OBVIOUS
<1>2. \A i \in 1..(Len(s) + 1) : i \in 1..Len(s) \/ i = Len(s) + 1
  BY <1>1
<1>3. Len(s) + 1 \in 1..(Len(s) + 1) /\ \A i \in 1..Len(s) : i \in 1..(Len(s) + 1)
  BY <1>1
<1> QED BY <1>1, <1>2, <1>3 DEF Has

(* The names of a set, in order, are the names of the set.                  *)
LEMMA InNameOrderFacts ==
  ASSUME NEW S, IsFiniteSet(S), S \subseteq Int
  PROVE  /\ InNameOrder(S) \in Seq(S)
         /\ \A x : Has(InNameOrder(S), x) <=> x \in S
<1> DEFINE Rec(f, s) == IF s = {} THEN <<>> ELSE Append(f[s \ {Max(s)}], Max(s))
           Def(f) == f = [s \in SUBSET S |-> Rec(f, s)]
           V == Seq(S)
<1>1. \A s \in SUBSET S : s # {} => Max(s) \in s
  BY FS_Subset, MaxMinFacts
<1>2. \E f : Def(f)
  <2> DEFINE ch == [s \in (SUBSET S) \ {{}} |-> Max(s)]
             op == [e \in S \X V |-> Append(e[2], e[1])]
  <2>1. ch \in [(SUBSET S) \ {{}} -> S] /\ \A s \in (SUBSET S) \ {{}} : ch[s] \in s
    BY <1>1
  <2>2. op \in [S \X V -> V]
    OBVIOUS
  <2>3. <<>> \in V
    OBVIOUS
  <2>4. TakesOut(ch, S)
    BY <2>1 DEF TakesOut
  <2> HIDE DEF ch, op, V
  <2>5. PICK f \in [SUBSET S -> V] : Folded(f, S, <<>>, op, ch)
    BY <2>2, <2>3, <2>4, FoldExists
  <2>6. ASSUME NEW s \in SUBSET S PROVE f[s] = Rec(f, s)
    <3>1. CASE s = {}
      BY <2>5, <3>1 DEF Folded
    <3>2. CASE s # {}
      <4>1. ch[s] = Max(s) /\ ch[s] \in S /\ f[s \ {ch[s]}] \in V
        BY <2>1, <2>5, <3>2 DEF ch
      <4>2. f[s] = op[<<ch[s], f[s \ {ch[s]}]>>]
        BY <2>5, <3>2 DEF Folded
      <4>3. op[<<ch[s], f[s \ {ch[s]}]>>] = Append(f[s \ {ch[s]}], ch[s])
        BY <4>1 DEF op
      <4> QED BY <4>1, <4>2, <4>3, <3>2
    <3> QED BY <3>1, <3>2
  <2>7. Def(f)
    <3> HIDE DEF Rec
    <3> QED BY <2>5, <2>6
  <2> HIDE DEF Def
  <2> QED BY <2>7
<1>3. PICK f : Def(f) /\ InNameOrder(S) = f[S]
  <2>1. InNameOrder(S) = (CHOOSE g : Def(g))[S]
    BY DEF InNameOrder, MapThenFoldSet
  <2>2. Def(CHOOSE g : Def(g))
    <3> HIDE DEF Def
    <3> QED BY <1>2
  <2> HIDE DEF Def
  <2> QED BY <2>1, <2>2
<1>4. \A s \in SUBSET S : f[s] = Rec(f, s)
  <2> HIDE DEF Rec
  <2> QED BY <1>3
<1> DEFINE Is(s) == f[s] \in Seq(S) /\ \A x : Has(f[s], x) <=> x \in s
           Q == {s \in SUBSET S : Is(s)}
<1>5. ASSUME NEW s \in SUBSET S, \A t \in SUBSET s : t # s => t \in Q
      PROVE  s \in Q
  <2>1. CASE s = {}
    <3>1. f[s] = <<>>
      BY <1>4, <2>1
    <3>2. f[s] \in Seq(S) /\ DOMAIN f[s] = {}
      BY <3>1
    <3> QED BY <3>2, <2>1 DEF Has
  <2>2. CASE s # {}
    <3> DEFINE n == Max(s)
               t == s \ {n}
    <3>1. n \in s /\ n \in S
      BY <1>1, <2>2
    <3>2. Is(t)
      BY <1>5, <3>1
    <3>3. f[s] = Append(f[t], n)
      BY <1>4, <2>2
    <3>4. \A x : x \in s <=> x \in t \/ x = n
      BY <3>1
    <3> HIDE DEF n, t
    <3>5. Append(f[t], n) \in Seq(S) /\ \A x : Has(Append(f[t], n), x) <=> Has(f[t], x) \/ x = n
      BY <3>1, <3>2, HasAppend
    <3> QED BY <3>2, <3>3, <3>4, <3>5
  <2> QED BY <2>1, <2>2
<1>6. S \in Q
  <2>1. SUBSET S \subseteq Q
    <3> HIDE DEF Q
    <3> QED BY <1>5, SubsetInduction
  <2> QED BY <2>1
<1> QED BY <1>3, <1>6
--------------------------------------------------------------------------------
(* What the solver records: fields of assignments and terms.                *)
Owner == Packages \cup {Root}
AnyTerm == [package : Owner, range : NpmRange, isPositive : BOOLEAN]
Incompatibility == SUBSET AnyTerm

(* The fields of what Term, Decision and Derivation make.                   *)
LEMMA Fields ==
  /\ \A p, r, s : /\ Term(p, r, s).package = p /\ Term(p, r, s).range = r
                  /\ Term(p, r, s).isPositive = s
  /\ \A p, v, k : /\ Decision(p, v, k).package = p /\ Decision(p, v, k).kind = "decision"
                  /\ Decision(p, v, k).version = v /\ Decision(p, v, k).level = k
                  /\ Decision(p, v, k).term = Term(p, AnyRange, TRUE)
  /\ \A t, k : /\ Derivation(t, k).package = t.package /\ Derivation(t, k).kind = "derivation"
               /\ Derivation(t, k).term = t /\ Derivation(t, k).level = k
  /\ \A p, r : Invert(Term(p, r, FALSE)) = Term(p, r, TRUE)
BY DEF Term, Decision, Derivation, Invert

(* A term of a package is a term.                                           *)
LEMMA TermType ==
  ASSUME NEW p \in Owner, NEW r \in NpmRange, NEW s \in BOOLEAN
  PROVE  Term(p, r, s) \in AnyTerm
BY DEF Term, AnyTerm

(* What a request says of a package is of the types it should be.           *)
NeedsOf(p, v) == IF p = Root THEN RequiredByRoot ELSE Required(p, v)
RangeOf(p, v) == IF p = Root THEN AnyRange ELSE Exact(v)
VersionsOf(p) == IF p = Root THEN {Zero} ELSE Known(p)
ClauseOf(p, v, need) == DependsOn(p, RangeOf(p, v), need[1], need[2])

(* Names are numbers other than $root, and there are finitely many.         *)
LEMMA NamesAreNumbers == /\ Root \notin Packages /\ Packages \subseteq Int /\ IsFiniteSet(Packages)
                         /\ MaxTurns \in Nat \ {0} /\ Root \in Owner
BY PackagesAssumption DEF Root, Owner

(* An override is a declaration, as what it overrides is.                   *)
LEMMA EffectiveType ==
  ASSUME request \in Requests, NEW p, NEW declared \in Declaration, NEW parent
  PROVE  Effective(request, p, declared, parent) \in Declaration
<1>1. IsRequest(request)
  BY PackagesAssumption
<1>2. /\ request.nested \in [DOMAIN request.nested -> Declaration]
      /\ request.overrides \in [DOMAIN request.overrides -> Declaration]
  BY <1>1 DEF IsRequest, Declares
<1>3. CASE <<parent, p>> \in DOMAIN request.nested
  <2>1. request.nested[<<parent, p>>] \in Declaration
    BY <1>2, <1>3
  <2>2. Effective(request, p, declared, parent) = request.nested[<<parent, p>>]
    BY <1>3 DEF Effective
  <2> QED BY <2>1, <2>2
<1>4. CASE <<parent, p>> \notin DOMAIN request.nested
  <2>1. Effective(request, p, declared, parent) = IF p \in DOMAIN request.overrides THEN request.overrides[p] ELSE declared
    BY <1>4 DEF Effective
  <2> QED BY <1>2, <2>1
<1> QED BY <1>3, <1>4

(* A version the provider knows declares names and ranges.                  *)
LEMMA DependenciesType ==
  ASSUME request \in Requests, NEW p, NEW v \in Known(p)
  PROVE  /\ DeclaresDependencies(DependenciesOf(p, v))
         /\ v \in Version
<1>1. IsRequest(request)
  BY PackagesAssumption
<1>2. p \in DOMAIN request.provider /\ v \in DOMAIN request.provider[p]
  BY DEF Known
<1> QED BY <1>1, <1>2 DEF IsRequest, DependenciesOf

(* A package has finitely many versions.                                    *)
LEMMA KnownType ==
  ASSUME request \in Requests, NEW p
  PROVE  /\ Known(p) \subseteq Version /\ IsFiniteSet(Known(p))
         /\ VersionsOf(p) \subseteq Version
<1>1. IsRequest(request)
  BY PackagesAssumption
<1> QED BY <1>1, FS_EmptySet, OrderAssumption DEF IsRequest, Known, VersionsOf

(* What the root needs are ranges of packages.                              *)
LEMMA RootNeedsType ==
  ASSUME request \in Requests, NEW need \in RequiredByRoot
  PROVE  need[1] \in Packages /\ need[2] \in Declaration
<1>1. IsRequest(request)
  BY PackagesAssumption
<1>2. PICK declared \in {request.dependencies, request.optionalDependencies} : \E d \in DOMAIN declared :
        need = <<d, Declared(Effective(request, d, declared[d], Root).range)>>
  BY DEF RequiredByRoot
<1>3. Declares(declared)
  BY <1>1 DEF IsRequest
<1>4. PICK d \in DOMAIN declared : need = <<d, Declared(Effective(request, d, declared[d], Root).range)>>
  BY <1>2
<1>5. d \in Packages /\ declared[d] \in Declaration
  BY <1>3 DEF Declares
<1>6. Effective(request, d, declared[d], Root) \in Declaration
  BY <1>5, EffectiveType
<1>7. Declared(Effective(request, d, declared[d], Root).range) \in Declaration
  BY <1>6 DEF Declaration, Declared
<1> QED BY <1>4, <1>5, <1>7

(* So is what any version needs.                                            *)
LEMMA NeedsType ==
  ASSUME request \in Requests, NEW p \in Owner, NEW v \in VersionsOf(p), NEW need \in NeedsOf(p, v)
  PROVE  /\ need[1] \in Packages /\ need[2] \in Declaration
         /\ need[2].parses \in BOOLEAN /\ need[2].range \in NpmRange
<1>1. need[1] \in Packages /\ need[2] \in Declaration
  <2>1. CASE p = Root
    BY <2>1, RootNeedsType DEF NeedsOf
  <2>2. CASE p # Root
    <3> DEFINE deps == DependenciesOf(p, v)
    <3>1. v \in Known(p) /\ need \in Required(p, v)
      BY <2>2 DEF VersionsOf, NeedsOf
    <3>2. DeclaresDependencies(deps)
      BY <3>1, DependenciesType
    <3>3. PICK declared \in {deps.dependencies, deps.optionalDependencies, deps.peerDependencies} :
            \E d \in DOMAIN declared : need = <<d, Effective(request, d, declared[d], p)>>
      BY <3>1 DEF Required
    <3>4. PICK d \in DOMAIN declared : need = <<d, Effective(request, d, declared[d], p)>>
      BY <3>3
    <3>5. Declares(declared)
      BY <3>2 DEF DeclaresDependencies
    <3>6. d \in Packages /\ declared[d] \in Declaration
      BY <3>5 DEF Declares
    <3> QED BY <3>4, <3>6, EffectiveType
  <2> QED BY <2>1, <2>2
<1> QED BY <1>1 DEF Declaration

(* The incompatibility for a requirement: the version, and not the range.   *)
LEMMA ClauseOfFacts ==
  ASSUME request \in Requests, NEW p \in Owner, NEW v \in VersionsOf(p), NEW need \in NeedsOf(p, v)
  PROVE  /\ ClauseOf(p, v, need) \in Incompatibility
         /\ Term(p, RangeOf(p, v), TRUE) \in ClauseOf(p, v, need)
         /\ RangeOf(p, v) \in NpmRange
         /\ \A t \in ClauseOf(p, v, need) :
              \/ t = Term(p, RangeOf(p, v), TRUE)
              \/ need[2].parses /\ t = Term(need[1], need[2].range, FALSE)
         /\ need[2].parses => Term(need[1], need[2].range, FALSE) \in ClauseOf(p, v, need)
<1>1. RangeOf(p, v) \in NpmRange
  BY KnownType, OwnRanges DEF RangeOf
<1>2. need[1] \in Owner /\ need[2].range \in NpmRange
  BY NeedsType DEF Owner
<1>3. Term(p, RangeOf(p, v), TRUE) \in AnyTerm /\ Term(need[1], need[2].range, FALSE) \in AnyTerm
  BY <1>1, <1>2, TermType
<1> QED BY <1>1, <1>3 DEF ClauseOf, DependsOn, Incompatibility
--------------------------------------------------------------------------------
(* One clause for each name of a set, in the order of the names.            *)
InOrder(S, g) == [i \in DOMAIN InNameOrder(S) |-> g[InNameOrder(S)[i]]]
LEMMA ClausesInOrder ==
  ASSUME NEW S \in SUBSET Packages, NEW g \in [S -> Incompatibility]
  PROVE  /\ InOrder(S, g) \in Seq(Incompatibility)
         /\ \A x : Has(InOrder(S, g), x) <=> \E d \in S : x = g[d]
<1> DEFINE c == InOrder(S, g)
<1>1. IsFiniteSet(S) /\ S \subseteq Int
  BY NamesAreNumbers, FS_Subset
<1> DEFINE names == InNameOrder(S)
<1>2. names \in Seq(S) /\ \A x : Has(names, x) <=> x \in S
  BY <1>1, InNameOrderFacts
<1> HIDE DEF names
<1>3. c = [i \in DOMAIN names |-> g[names[i]]]
  BY DEF names, InOrder
<1> HIDE DEF c
<1>4. Len(names) \in Nat /\ DOMAIN names = 1..Len(names) /\ \A i \in 1..Len(names) : names[i] \in S
  BY <1>2
<1>5. c \in [1..Len(names) -> Incompatibility]
  BY <1>3, <1>4
<1>6. c \in Seq(Incompatibility)
  BY <1>4, <1>5, SeqDef
<1>7. DOMAIN c = DOMAIN names /\ \A i \in DOMAIN names : c[i] = g[names[i]] /\ names[i] \in S
  BY <1>3, <1>4
<1>8. \A d \in S : \E i \in DOMAIN names : names[i] = d
  BY <1>2 DEF Has
<1>9. \A x : Has(c, x) <=> \E d \in S : x = g[d]
  BY <1>7, <1>8 DEF Has
<1> QED BY <1>6, <1>9 DEF c

(* The incompatibilities at the start are the requirements of the root.     *)
LEMMA RootIncompatsFacts ==
  ASSUME request \in Requests
  PROVE  /\ RootIncompats(request) \in Seq(Incompatibility)
         /\ \A x : Has(RootIncompats(request), x)
                     <=> \E need \in NeedsOf(Root, Zero) : x = ClauseOf(Root, Zero, need)
<1> DEFINE Eff(declared, d) == Effective(request, d, declared[d], Root)
           Need(declared, d) == <<d, Declared(Eff(declared, d).range)>>
           g(declared) == [d \in DOMAIN declared |-> ClauseOf(Root, Zero, Need(declared, d))]
           c(declared) == InOrder(DOMAIN declared, g(declared))
           A == request.dependencies
           B == request.optionalDependencies
<1>1. Declares(A) /\ Declares(B)
  BY PackagesAssumption DEF IsRequest
<1>2. \A need : need \in NeedsOf(Root, Zero)
           <=> (\E d \in DOMAIN A : need = Need(A, d)) \/ (\E d \in DOMAIN B : need = Need(B, d))
  BY DEF NeedsOf, RequiredByRoot
<1>3. ASSUME NEW declared \in {A, B}
      PROVE  /\ DOMAIN declared \in SUBSET Packages
             /\ g(declared) \in [DOMAIN declared -> Incompatibility]
             /\ \A d \in DOMAIN declared :
                  g(declared)[d] = {Term(Root, AnyRange, TRUE), Term(d, Eff(declared, d).range, FALSE)}
  <2>1. Declares(declared)
    BY <1>1
  <2>2. DOMAIN declared \in SUBSET Packages
    BY <2>1 DEF Declares
  <2>3. ASSUME NEW d \in DOMAIN declared
        PROVE  /\ ClauseOf(Root, Zero, Need(declared, d)) \in Incompatibility
               /\ ClauseOf(Root, Zero, Need(declared, d))
                    = {Term(Root, AnyRange, TRUE), Term(d, Eff(declared, d).range, FALSE)}
    <3> DEFINE e == Eff(declared, d)
    <3>1. Need(declared, d) \in NeedsOf(Root, Zero)
      BY <1>2, <2>3
    <3>2. ClauseOf(Root, Zero, Need(declared, d)) \in Incompatibility
      BY <3>1, ClauseOfFacts, NamesAreNumbers DEF VersionsOf
    <3>3. e \in Declaration
      BY <2>1, <2>3, EffectiveType DEF Declares
    <3> HIDE DEF e
    <3>4. Declared(e.range).range = e.range /\ Declared(e.range).parses = TRUE
      BY DEF Declared
    <3>5. ClauseOf(Root, Zero, <<d, Declared(e.range)>>)
            = {Term(Root, AnyRange, TRUE), Term(d, e.range, FALSE)}
      BY <3>4 DEF ClauseOf, DependsOn, RangeOf
    <3> QED BY <3>2, <3>5 DEF e
  <2> QED BY <2>2, <2>3
<1>4. RootIncompats(request) = c(A) \o c(B)
  <2>1. ASSUME NEW declared \in {A, B}
        PROVE  c(declared) = [i \in DOMAIN InNameOrder(DOMAIN declared) |->
                 {Term(Root, AnyRange, TRUE),
                  Term(InNameOrder(DOMAIN declared)[i],
                       Effective(request, InNameOrder(DOMAIN declared)[i],
                                 declared[InNameOrder(DOMAIN declared)[i]], Root).range, FALSE)}]
    <3> DEFINE names == InNameOrder(DOMAIN declared)
    <3>1. names \in Seq(DOMAIN declared)
      BY <1>3, NamesAreNumbers, FS_Subset, InNameOrderFacts
    <3>2. \A i \in DOMAIN names : names[i] \in DOMAIN declared
      <4> HIDE DEF names
      <4> QED BY <3>1
    <3> HIDE DEF g
    <3> QED BY <1>3, <3>2 DEF InOrder
  <2> HIDE DEF c, g
  <2> QED BY <2>1 DEF RootIncompats
<1>5. \A declared \in {A, B} : /\ c(declared) \in Seq(Incompatibility)
                               /\ \A x : Has(c(declared), x) <=> \E d \in DOMAIN declared : x = g(declared)[d]
  <2> SUFFICES ASSUME NEW declared \in {A, B}
               PROVE  /\ c(declared) \in Seq(Incompatibility)
                      /\ \A x : Has(c(declared), x) <=> \E d \in DOMAIN declared : x = g(declared)[d]
    OBVIOUS
  <2>1. DOMAIN declared \in SUBSET Packages /\ g(declared) \in [DOMAIN declared -> Incompatibility]
    BY <1>3
  <2> HIDE DEF g
  <2> QED BY <2>1, ClausesInOrder
<1>6. \A x : Has(c(A) \o c(B), x) <=> Has(c(A), x) \/ Has(c(B), x)
  BY <1>5, HasConcat
<1>7. c(A) \o c(B) \in Seq(Incompatibility)
  BY <1>5
<1>8. \A declared \in {A, B} : \A d \in DOMAIN declared : g(declared)[d] = ClauseOf(Root, Zero, Need(declared, d))
  OBVIOUS
<1> HIDE DEF c, g, Need
<1>9. \A declared \in {A, B} : \A x :
        Has(c(declared), x) <=> \E d \in DOMAIN declared : x = ClauseOf(Root, Zero, Need(declared, d))
  BY <1>5, <1>8
<1>10. \A x : Has(RootIncompats(request), x)
         <=> \/ \E d \in DOMAIN A : x = ClauseOf(Root, Zero, Need(A, d))
             \/ \E d \in DOMAIN B : x = ClauseOf(Root, Zero, Need(B, d))
  BY <1>4, <1>6, <1>9
<1> QED BY <1>2, <1>4, <1>7, <1>10
--------------------------------------------------------------------------------
(* A decision adds the requirements of the version decided, no fewer and no *)
(* more.                                                                    *)
LEMMA DemandsFacts ==
  ASSUME request \in Requests, NEW p \in Packages, NEW v \in Known(p)
  PROVE  /\ Demands(p, v) \in Seq(Incompatibility)
         /\ \A x : Has(Demands(p, v), x) <=> \E need \in NeedsOf(p, v) : x = ClauseOf(p, v, need)
<1> DEFINE deps == DependenciesOf(p, v)
           Eff(declared, d) == Effective(request, d, declared[d], p)
           g(declared, S) == [d \in S |-> ClauseOf(p, v, <<d, Eff(declared, d)>>)]
           A == deps.dependencies
           B == deps.optionalDependencies
           C == deps.peerDependencies
           b == {d \in DOMAIN B : HasSatisfyingVersion(d, B[d])}
           c == IF request.autoInstallPeers THEN DOMAIN C \ deps.optionalPeers ELSE {}
           Served(declared, S) == \/ declared = A /\ S = DOMAIN A
                                  \/ declared = B /\ S = b
                                  \/ declared = C /\ S = c
<1>0. p \in Owner /\ p # Root /\ v \in VersionsOf(p)
  BY NamesAreNumbers DEF Owner, VersionsOf
<1>1. Declares(A) /\ Declares(B) /\ Declares(C)
  BY DependenciesType DEF DeclaresDependencies
<1>2. \A need : need \in NeedsOf(p, v)
           <=> \/ \E d \in DOMAIN A : need = <<d, Eff(A, d)>>
               \/ \E d \in b : need = <<d, Eff(B, d)>>
               \/ \E d \in c : need = <<d, Eff(C, d)>>
  BY <1>0 DEF NeedsOf, Required
<1>3. ASSUME NEW declared, NEW S, Served(declared, S)
      PROVE  /\ S \in SUBSET Packages
             /\ g(declared, S) \in [S -> Incompatibility]
             /\ [i \in DOMAIN InNameOrder(S) |->
                   DependsOn(p, Exact(v), InNameOrder(S)[i],
                             Effective(request, InNameOrder(S)[i], declared[InNameOrder(S)[i]], p))]
                = InOrder(S, g(declared, S))
  <2>1. Declares(declared) /\ S \subseteq DOMAIN declared
    BY <1>1, <1>3
  <2>2. S \in SUBSET Packages
    BY <2>1 DEF Declares
  <2>3. \A d \in S : ClauseOf(p, v, <<d, Eff(declared, d)>>) \in Incompatibility
    <3> SUFFICES ASSUME NEW d \in S PROVE ClauseOf(p, v, <<d, Eff(declared, d)>>) \in Incompatibility
      OBVIOUS
    <3>1. <<d, Eff(declared, d)>> \in NeedsOf(p, v)
      BY <1>2, <1>3
    <3> QED BY <3>1, <1>0, ClauseOfFacts
  <2>4. \A d \in S : ClauseOf(p, v, <<d, Eff(declared, d)>>) = DependsOn(p, Exact(v), d, Eff(declared, d))
    BY <1>0 DEF ClauseOf, RangeOf
  <2> DEFINE names == InNameOrder(S)
  <2>5. names \in Seq(S)
    BY <2>2, NamesAreNumbers, FS_Subset, InNameOrderFacts
  <2>6. \A i \in DOMAIN names : names[i] \in S
    <3> HIDE DEF names
    <3> QED BY <2>5
  <2>7. \A i \in DOMAIN names :
          g(declared, S)[names[i]] = DependsOn(p, Exact(v), names[i], Effective(request, names[i], declared[names[i]], p))
    BY <2>4, <2>6
  <2> HIDE DEF g
  <2>8. [i \in DOMAIN names |-> DependsOn(p, Exact(v), names[i], Effective(request, names[i], declared[names[i]], p))]
        = InOrder(S, g(declared, S))
    BY <2>7 DEF InOrder
  <2> USE DEF g
  <2> QED BY <2>2, <2>3, <2>8
<1> DEFINE s == InOrder(DOMAIN A, g(A, DOMAIN A))
           t == InOrder(b, g(B, b))
           u == InOrder(c, g(C, c))
<1>4. Served(A, DOMAIN A) /\ Served(B, b) /\ Served(C, c)
  OBVIOUS
<1>5. Demands(p, v) = s \o t \o u
  <2> HIDE DEF g, Served
  <2> QED BY <1>3, <1>4 DEF Demands
<1>6. ASSUME NEW declared, NEW S, Served(declared, S)
      PROVE  /\ InOrder(S, g(declared, S)) \in Seq(Incompatibility)
             /\ \A x : Has(InOrder(S, g(declared, S)), x)
                         <=> \E d \in S : x = ClauseOf(p, v, <<d, Eff(declared, d)>>)
  <2> DEFINE h == g(declared, S)
  <2>1. S \in SUBSET Packages /\ h \in [S -> Incompatibility]
    BY <1>3, <1>6
  <2>2. \A d \in S : h[d] = ClauseOf(p, v, <<d, Eff(declared, d)>>)
    OBVIOUS
  <2> HIDE DEF h
  <2>3. InOrder(S, h) \in Seq(Incompatibility) /\ \A x : Has(InOrder(S, h), x) <=> \E d \in S : x = h[d]
    BY <2>1, ClausesInOrder
  <2> HIDE DEF Eff
  <2>4. InOrder(S, h) \in Seq(Incompatibility)
        /\ \A x : Has(InOrder(S, h), x) <=> \E d \in S : x = ClauseOf(p, v, <<d, Eff(declared, d)>>)
    BY <2>2, <2>3
  <2> QED BY <2>4 DEF h
<1>7. /\ s \in Seq(Incompatibility) /\ \A x : Has(s, x) <=> \E d \in DOMAIN A : x = ClauseOf(p, v, <<d, Eff(A, d)>>)
      /\ t \in Seq(Incompatibility) /\ \A x : Has(t, x) <=> \E d \in b : x = ClauseOf(p, v, <<d, Eff(B, d)>>)
      /\ u \in Seq(Incompatibility) /\ \A x : Has(u, x) <=> \E d \in c : x = ClauseOf(p, v, <<d, Eff(C, d)>>)
  <2> HIDE DEF g, Served, Eff, b, c, A, B, C
  <2> QED BY <1>4, <1>6
<1> HIDE DEF s, t, u
<1>8. /\ s \o t \o u \in Seq(Incompatibility)
      /\ \A x : Has(s \o t \o u, x) <=> Has(s, x) \/ Has(t, x) \/ Has(u, x)
  <2>1. s \o t \in Seq(Incompatibility) /\ \A x : Has(s \o t, x) <=> Has(s, x) \/ Has(t, x)
    BY <1>7, HasConcat
  <2> DEFINE st == s \o t
  <2> HIDE DEF st
  <2>2. st \o u \in Seq(Incompatibility) /\ \A x : Has(st \o u, x) <=> Has(st, x) \/ Has(u, x)
    BY <1>7, <2>1, HasConcat DEF st
  <2> QED BY <2>1, <2>2 DEF st
<1>9. \A x : Has(Demands(p, v), x)
        <=> \/ \E d \in DOMAIN A : x = ClauseOf(p, v, <<d, Eff(A, d)>>)
            \/ \E d \in b : x = ClauseOf(p, v, <<d, Eff(B, d)>>)
            \/ \E d \in c : x = ClauseOf(p, v, <<d, Eff(C, d)>>)
  <2> HIDE DEF Eff, b, c, A, B, C
  <2> QED BY <1>5, <1>7, <1>8
<1> HIDE DEF Eff, b, c, A, B, C
<1> QED BY <1>2, <1>5, <1>8, <1>9
--------------------------------------------------------------------------------
(* The partial solution, and what it leaves of a package: the points that   *)
(* every range derived for it contains.                                     *)
Decs(s) == {a \in s : a.kind = "decision"}
Ders(s, p) == {a \in s : a.kind = "derivation" /\ a.package = p}
Until(s, k) == {a \in s : a.level <= k}
Allowed(s, p) == {x \in Point : \A d \in Ders(s, p) : x \in Points(d.term.range)}

(* What a decision and a derivation look like.  No range is ever derived to *)
(* be excluded: every term derived is positive.                             *)
IsDec(a) == a.kind = "decision" /\ a.package \in Owner /\ a.version \in Version
IsDer(a) == /\ a.kind = "derivation" /\ a.package \in Packages
            /\ a.term.range \in NpmRange /\ a.term.isPositive = TRUE

(* The types of the variables.                                              *)
Types ==
  /\ request \in Requests
  /\ phase \in {"propagate", "decide", "solved", "failed", "error"}
  /\ changed \subseteq Owner
  /\ incompat \in Seq(Incompatibility)
  /\ visit \subseteq DOMAIN incompat
  /\ decisionLevel \in Nat
  /\ turns \in Nat
  /\ forbidden \subseteq Packages \X Version
  /\ IsFiniteSet(solution)
(* Assignments are decisions or derivations, of a level reached.            *)
Shapes == \A a \in solution : a.level \in 0..decisionLevel /\ (IsDec(a) \/ IsDer(a))

(* The types of the fields of an assignment.                                *)
LEMMA ShapeFacts ==
  ASSUME Shapes, decisionLevel \in Nat, NEW a \in solution
  PROVE  /\ a.level \in Nat /\ a.level <= decisionLevel
         /\ a.kind \in {"decision", "derivation"}
         /\ a.kind = "decision" => a.package \in Owner /\ a.version \in Version
         /\ a.kind = "derivation" => /\ a.package \in Packages /\ a.term.range \in NpmRange
                                     /\ a.term.isPositive = TRUE
BY DEF Shapes, IsDec, IsDer

(* The range the solver keeps of an undecided package has the points that   *)
(* are left, and nothing is ever derived to be excluded.                    *)
LEMMA DerivedFacts ==
  ASSUME Shapes, decisionLevel \in Nat, IsFiniteSet(solution), NEW p
  PROVE  /\ Derived(p, FALSE) = {}
         /\ Derived(p, TRUE) = {d.term.range : d \in Ders(solution, p)}
         /\ Derived(p, TRUE) = {} <=> Ders(solution, p) = {}
         /\ Wanted(p) \in NpmRange
         /\ Points(Wanted(p)) = Allowed(solution, p)
         /\ Of(p) = {} <=> Ders(solution, p) = {} /\ \A a \in Decs(solution) : a.package # p
<1> DEFINE D == Ders(solution, p)
           R == {d.term.range : d \in D}
<1>1. \A a \in solution : /\ a.kind \in {"decision", "derivation"}
                          /\ a.kind = "derivation" => a.term.isPositive = TRUE /\ a.term.range \in NpmRange
  BY ShapeFacts
<1>2. Derived(p, FALSE) = {} /\ Derived(p, TRUE) = R
  BY <1>1 DEF Derived, Of, Ders
<1>3. R = {} <=> D = {}
  OBVIOUS
<1>4. R \subseteq NpmRange
  BY <1>1 DEF Ders
<1>5. IsFiniteSet(R)
  <2>1. IsFiniteSet(D)
    BY FS_Subset DEF Ders
  <2> DEFINE f == [d \in D |-> d.term.range]
  <2>2. f \in Surjection(D, R)
    BY DEF Surjection
  <2> HIDE DEF f, D, R
  <2> QED BY <2>1, <2>2, FS_Surjection
<1>6. Meet(R) \in NpmRange /\ \A x \in Point : x \in Points(Meet(R)) <=> \A r \in R : x \in Points(r)
  <2> HIDE DEF R
  <2> QED BY <1>4, <1>5, MeetFacts
<1>7. \A x \in Point : (\A r \in R : x \in Points(r)) <=> \A d \in D : x \in Points(d.term.range)
  OBVIOUS
<1>8. Points(Meet(R)) \subseteq Point
  BY DEF Points
<1>9. Of(p) = {} <=> D = {} /\ \A a \in Decs(solution) : a.package # p
  BY <1>1 DEF Of, Ders, Decs
<1> QED BY <1>2, <1>3, <1>6, <1>7, <1>8, <1>9 DEF Wanted, Allowed

(* Where the package is decided its version settles a term.                 *)
LEMMA DecidedStatus ==
  ASSUME NEW a \in Decs(solution), \A b \in Decs(solution) : b.package = a.package => b = a,
         NEW t, t.package = a.package
  PROVE  TermStatus(t) = IF TermHolds(t, a.version) THEN "satisfied" ELSE "contradicted"
<1>1. Of(t.package) # {} /\ Decided(t.package) = {a.version}
  BY DEF Of, Decided, Decs
<1> QED BY <1>1 DEF TermStatus

(* Where it is not, the points left of it are compared with the term's.     *)
LEMMA OpenStatus ==
  ASSUME Shapes, decisionLevel \in Nat, IsFiniteSet(solution),
         NEW t \in AnyTerm, \A a \in Decs(solution) : a.package # t.package
  PROVE  LET D == Ders(solution, t.package)
             A == Allowed(solution, t.package)
             R == Points(t.range)
         IN /\ TermStatus(t) \in {"satisfied", "contradicted", "inconclusive"}
            /\ TermStatus(t) = "contradicted"
                 <=> D # {} /\ IF t.isPositive THEN A \cap R = {} ELSE A \subseteq R
            /\ TermStatus(t) = "satisfied"
                 <=> D # {} /\ A # {} /\ IF t.isPositive THEN A \subseteq R ELSE A \cap R = {}
<1> DEFINE p == t.package
           D == Ders(solution, p)
           A == Allowed(solution, p)
           R == Points(t.range)
           W == Wanted(p)
<1>1. t.range \in NpmRange /\ t.isPositive \in BOOLEAN
  BY DEF AnyTerm
<1>2. /\ Derived(p, FALSE) = {} /\ W \in NpmRange /\ Points(W) = A
      /\ Of(p) = {} <=> D = {}
  BY DerivedFacts
<1>3. Decided(p) = {}
  BY DEF Decided, Decs, Of
<1>4. IsEmpty(Intersect(W, t.range)) <=> A \cap R = {}
  BY <1>1, <1>2, IntersectFacts, InclusionIsDecided
<1>5. Subset(W, t.range) <=> A \subseteq R
  BY <1>1, <1>2, InclusionIsDecided
<1>6. TermStatus(t) = IF Of(p) = {} THEN "inconclusive"
        ELSE IF t.isPositive
          THEN CASE IsEmpty(Intersect(W, t.range)) -> "contradicted"
                 [] ~IsEmpty(Intersect(W, t.range)) /\ Subset(W, t.range) -> "satisfied"
                 [] OTHER -> "inconclusive"
          ELSE CASE Subset(W, t.range) -> "contradicted"
                 [] ~Subset(W, t.range) /\ IsEmpty(Intersect(W, t.range)) -> "satisfied"
                 [] OTHER -> "inconclusive"
  BY <1>2, <1>3 DEF TermStatus, Wanted
<1> DEFINE e == IsEmpty(Intersect(W, t.range))
           w == Subset(W, t.range)
<1>7. /\ TermStatus(t) \in {"satisfied", "contradicted", "inconclusive"}
      /\ TermStatus(t) = "contradicted" <=> Of(p) # {} /\ IF t.isPositive THEN e ELSE w
      /\ TermStatus(t) = "satisfied" <=> Of(p) # {} /\ IF t.isPositive THEN ~e /\ w ELSE ~w /\ e
  <2> HIDE DEF e, w
  <2>1. TermStatus(t) = IF Of(p) = {} THEN "inconclusive"
        ELSE IF t.isPositive
          THEN CASE e -> "contradicted" [] ~e /\ w -> "satisfied" [] OTHER -> "inconclusive"
          ELSE CASE w -> "contradicted" [] ~w /\ e -> "satisfied" [] OTHER -> "inconclusive"
    BY <1>6 DEF e, w
  <2>2. CASE Of(p) = {}
    BY <2>1, <2>2
  <2>3. CASE Of(p) # {} /\ t.isPositive
    BY <2>1, <2>3
  <2>4. CASE Of(p) # {} /\ ~t.isPositive
    BY <2>1, <2>4
  <2> QED BY <2>2, <2>3, <2>4, <1>1
<1>8. (A \cap R # {} /\ A \subseteq R <=> A # {} /\ A \subseteq R)
      /\ (~(A \subseteq R) /\ A \cap R = {} <=> A # {} /\ A \cap R = {})
  OBVIOUS
<1> HIDE DEF A, R, D, W
<1>9. /\ TermStatus(t) = "contradicted" <=> D # {} /\ IF t.isPositive THEN A \cap R = {} ELSE A \subseteq R
      /\ TermStatus(t) = "satisfied" <=> D # {} /\ IF t.isPositive THEN A \cap R # {} /\ A \subseteq R
                                                     ELSE ~(A \subseteq R) /\ A \cap R = {}
  BY <1>2, <1>4, <1>5, <1>7
<1>10. /\ TermStatus(t) = "contradicted" <=> D # {} /\ IF t.isPositive THEN A \cap R = {} ELSE A \subseteq R
       /\ TermStatus(t) = "satisfied" <=> D # {} /\ A # {} /\ IF t.isPositive THEN A \subseteq R ELSE A \cap R = {}
  BY <1>8, <1>9
<1> QED BY <1>7, <1>10 DEF A, R, D
--------------------------------------------------------------------------------
(* The versions a partial solution leaves of a package, and the packages    *)
(* it still has to decide.                                                  *)
ViableIn(s, p) ==
  {v \in Known(p) : <<p, v>> \notin forbidden /\ \A d \in Ders(s, p) : Satisfies(d.term.range, v)}
OpenIn(s) == {p \in Packages : Ders(s, p) # {} /\ \A a \in Decs(s) : a.package # p}

(* A version is left of a package if every derived range has it.            *)
LEMMA AllowedVersion ==
  ASSUME Shapes, decisionLevel \in Nat, NEW s \in SUBSET solution, NEW p, NEW v \in Version
  PROVE  <<v, 0>> \in Allowed(s, p) <=> \A d \in Ders(s, p) : Satisfies(d.term.range, v)
<1>1. <<v, 0>> \in Point
  BY VersionIsPoint
<1>2. \A d \in Ders(s, p) : d.term.range \in NpmRange
  BY ShapeFacts DEF Ders
<1>3. \A d \in Ders(s, p) : Satisfies(d.term.range, v) <=> <<v, 0>> \in Points(d.term.range)
  BY <1>2, SatisfiesIsPoint
<1> QED BY <1>1, <1>3 DEF Allowed

(* The model asks the same of the ranges met: what is viable, and what is   *)
(* undecided.                                                               *)
LEMMA UndecidedFacts ==
  ASSUME Types, Shapes
  PROVE  /\ \A p : Viable(p) = ViableIn(solution, p)
         /\ Undecided = OpenIn(solution)
<1>1. request \in Requests /\ decisionLevel \in Nat /\ IsFiniteSet(solution)
  BY DEF Types
<1>2. ASSUME NEW p PROVE Viable(p) = ViableIn(solution, p)
  <2>1. \A v \in Known(p) : Satisfies(Wanted(p), v) <=> <<v, 0>> \in Allowed(solution, p)
    BY <1>1, DerivedFacts, SatisfiesIsPoint, KnownType
  <2>2. \A v \in Known(p) : Satisfies(Wanted(p), v) <=> \A d \in Ders(solution, p) : Satisfies(d.term.range, v)
    BY <2>1, <1>1, AllowedVersion, KnownType
  <2> QED BY <2>2 DEF Viable, ViableIn
<1>3. \A p : Decided(p) = {} <=> \A a \in Decs(solution) : a.package # p
  BY DEF Decided, Of, Decs
<1>4. \A p : Derived(p, TRUE) = {} <=> Ders(solution, p) = {}
  BY <1>1, DerivedFacts
<1> QED BY <1>2, <1>3, <1>4 DEF Undecided, OpenIn

(* No undecided package has fewer viable versions than the one picked.      *)
LEMMA PickFacts ==
  ASSUME request \in Requests, Undecided # {}
  PROVE  /\ Pick \in Undecided
         /\ \A q \in Undecided : Cardinality(Viable(Pick)) <= Cardinality(Viable(q))
<1>1. Undecided \subseteq Packages /\ IsFiniteSet(Undecided)
  BY NamesAreNumbers, FS_Subset DEF Undecided
<1>2. \A q : Cardinality(Viable(q)) \in Nat
  <2> SUFFICES ASSUME NEW q PROVE Cardinality(Viable(q)) \in Nat
    OBVIOUS
  <2>1. Viable(q) \in SUBSET Known(q) /\ IsFiniteSet(Known(q))
    BY KnownType DEF Viable
  <2> QED BY <2>1, FS_Subset, FS_CardinalityType
<1> DEFINE U == Undecided
           n == [p \in U |-> Cardinality(Viable(p))]
           F == {p \in U : \A q \in U : n[p] <= n[q]}
<1>3. \A p \in U : n[p] = Cardinality(Viable(p)) /\ n[p] \in Nat
  BY <1>2
<1>4. Pick = Min(F)
  BY DEF Pick
<1> HIDE DEF n, U
<1>5. F # {}
  <2> DEFINE Le == {e \in U \X U : n[e[2]] <= n[e[1]]}
  <2>1. \A a, b \in U : <<a, b>> \in Le <=> n[b] <= n[a]
    OBVIOUS
  <2>2. \A a, b \in U : n[b] <= n[a] \/ n[a] <= n[b]
    BY <1>3
  <2>3. \A a, b, c \in U : n[b] <= n[a] /\ n[c] <= n[b] => n[c] <= n[a]
    BY <1>3
  <2> HIDE DEF Le
  <2>4. \A a, b \in U : <<a, b>> \in Le \/ <<b, a>> \in Le
    BY <2>1, <2>2
  <2>5. \A a, b, c \in U : <<a, b>> \in Le /\ <<b, c>> \in Le => <<a, c>> \in Le
    BY <2>1, <2>3
  <2>6. \E c \in U : \A d \in U : <<d, c>> \in Le
    BY <1>1, <2>4, <2>5, SomeLast DEF U
  <2> QED BY <2>1, <2>6
<1>6. IsFiniteSet(F) /\ F \subseteq Int
  BY <1>1, FS_Subset, NamesAreNumbers DEF U
<1>7. Pick \in F
  <2> HIDE DEF F
  <2> QED BY <1>4, <1>5, <1>6, MaxMinFacts
<1> QED BY <1>3, <1>7 DEF U
--------------------------------------------------------------------------------
(* What a decided version needs; its incompatibilities, and the one learned *)
(* of a version given up.                                                   *)
NeedsBy(b) == NeedsOf(b.package, b.version)
ClauseFor(b, need) == ClauseOf(b.package, b.version, need)
Ban(e) == {Term(e[1], Exact(e[2]), TRUE)}

(* What holds of the assignments in every state: $root is decided, no       *)
(* package and no level twice, and every level once; ...                    *)
RootIsDecided == \E a \in Decs(solution) : a.package = Root /\ a.level = 0
OneEach == \A a, b \in Decs(solution) : a.package = b.package \/ a.level = b.level => a = b
EveryLevel == \A k \in 1..decisionLevel : \E a \in Decs(solution) : a.level = k
(* ... a decision is a version the provider knows, was not forbidden, and   *)
(* was made of ranges derived before; ...                                   *)
Standing(a) ==
  /\ a.version \in VersionsOf(a.package)
  /\ a.package # Root =>
       /\ a.level > 0 /\ <<a.package, a.version>> \notin forbidden
       /\ Ders(solution, a.package) # {}
       /\ \A d \in Ders(solution, a.package) : d.level < a.level /\ Satisfies(d.term.range, a.version)
DecisionsStand == \A a \in Decs(solution) : Standing(a)
(* ... and a range was derived from a decision, made by then, that needs    *)
(* it.                                                                      *)
CausedBy(d, b) == \E need \in NeedsBy(b) :
                    need[1] = d.package /\ need[2].parses /\ need[2].range = d.term.range
Caused == \A d \in solution : d.kind = "derivation" =>
            \E b \in Decs(solution) : b.level <= d.level /\ CausedBy(d, b)

ASolution == Shapes /\ RootIsDecided /\ OneEach /\ EveryLevel /\ DecisionsStand /\ Caused

(* What this says of one decision.                                          *)
LEMMA DecisionFacts ==
  ASSUME Types, ASolution, NEW a \in Decs(solution)
  PROVE  /\ a \in solution /\ a.kind = "decision"
         /\ a.level \in Nat /\ a.level <= decisionLevel
         /\ a.package \in Owner /\ a.version \in Version /\ a.version \in VersionsOf(a.package)
         /\ \A b \in Decs(solution) : b.package = a.package => b = a
         /\ \A b \in Decs(solution) : b.level = a.level => b = a
         /\ a.package = Root <=> a.level = 0
         /\ \A s \in SUBSET solution : <<a.version, 0>> \in Allowed(s, a.package)
         /\ a.package # Root => a.package \in Packages /\ a.version \in Known(a.package)
<1>1. decisionLevel \in Nat /\ Shapes /\ RootIsDecided /\ OneEach /\ DecisionsStand
  BY DEF Types, ASolution
<1>2. /\ a \in solution /\ a.kind = "decision"
      /\ a.level \in Nat /\ a.level <= decisionLevel
      /\ a.package \in Owner /\ a.version \in Version
  BY <1>1, ShapeFacts DEF Decs
<1>3. /\ \A b \in Decs(solution) : b.package = a.package => b = a
      /\ \A b \in Decs(solution) : b.level = a.level => b = a
  BY <1>1 DEF OneEach
<1>4. a.version \in VersionsOf(a.package)
  BY <1>1 DEF DecisionsStand, Standing
<1>5. a.package = Root <=> a.level = 0
  BY <1>1, <1>3 DEF RootIsDecided, DecisionsStand, Standing
<1>6. a.package # Root => a.package \in Packages /\ a.version \in Known(a.package)
  BY <1>2, <1>4 DEF Owner, VersionsOf
<1>7. ASSUME NEW s \in SUBSET solution PROVE <<a.version, 0>> \in Allowed(s, a.package)
  <2>1. \A d \in Ders(s, a.package) : d \in Ders(solution, a.package) /\ a.package \in Packages
    BY <1>1, ShapeFacts DEF Ders
  <2>2. \A d \in Ders(s, a.package) : Satisfies(d.term.range, a.version)
    BY <2>1, <1>1, NamesAreNumbers DEF DecisionsStand, Standing
  <2> QED BY <1>1, <1>2, <2>2, AllowedVersion
<1> QED BY <1>2, <1>3, <1>4, <1>5, <1>6, <1>7

(* A requirement is covered up to a level if the version decided by then    *)
(* satisfies it, or whatever the ranges derived by then leave does.         *)
Covered(s, need, k) ==
  /\ need[2].parses
  /\ \/ \E a \in Decs(s) : a.package = need[1] /\ a.level <= k /\ Satisfies(need[2].range, a.version)
     \/ /\ Ders(Until(s, k), need[1]) # {}
        /\ Allowed(Until(s, k), need[1]) \subseteq Points(need[2].range)

(* What is covered stays so while assignments are added.                    *)
LEMMA CoveredGrows ==
  ASSUME NEW s, NEW u, NEW need, NEW k \in Nat, NEW m \in Nat, k <= m,
         \A a \in s : a.level \in Nat, s \subseteq u, Covered(s, need, k)
  PROVE  Covered(u, need, m)
<1>1. \A a \in s : a.level <= k => a.level <= m
  OBVIOUS
<1>2. CASE \E a \in Decs(s) : a.package = need[1] /\ a.level <= k /\ Satisfies(need[2].range, a.version)
  BY <1>1, <1>2 DEF Covered, Decs
<1>3. CASE /\ Ders(Until(s, k), need[1]) # {}
           /\ Allowed(Until(s, k), need[1]) \subseteq Points(need[2].range)
  <2>1. Ders(Until(s, k), need[1]) \subseteq Ders(Until(u, m), need[1])
    BY <1>1 DEF Ders, Until
  <2>2. Allowed(Until(u, m), need[1]) \subseteq Allowed(Until(s, k), need[1])
    BY <2>1 DEF Allowed
  <2> QED BY <1>3, <2>1, <2>2 DEF Covered
<1> QED BY <1>2, <1>3 DEF Covered

(* What the solver sees of a requirement of a decided version.              *)
LEMMA NeedStatus ==
  ASSUME Types, ASolution, NEW b \in Decs(solution), NEW need \in NeedsBy(b)
  PROVE  LET t == Term(b.package, RangeOf(b.package, b.version), TRUE)
             n == Term(need[1], need[2].range, FALSE)
         IN /\ t \in ClauseFor(b, need) /\ TermStatus(t) = "satisfied" /\ TermHolds(t, b.version)
            /\ t # n /\ t.package = b.package
            /\ n \in AnyTerm /\ n.package = need[1] /\ need[1] \in Packages /\ n.range = need[2].range
            /\ need[2].parses \in BOOLEAN /\ need[2].range \in NpmRange
            /\ ~need[2].parses => ClauseFor(b, need) = {t}
            /\ need[2].parses => ClauseFor(b, need) = {t, n}
            /\ TermStatus(n) \in {"satisfied", "contradicted", "inconclusive"}
            /\ need[2].parses /\ TermStatus(n) = "contradicted" => Covered(solution, need, decisionLevel)
            /\ TermStatus(n) = "satisfied" => \A k : ~Covered(solution, need, k)
            /\ TermStatus(n) = "inconclusive" => \A a \in Decs(solution) : a.package # need[1]
<1> DEFINE t == Term(b.package, RangeOf(b.package, b.version), TRUE)
           n == Term(need[1], need[2].range, FALSE)
<1>0. request \in Requests /\ decisionLevel \in Nat /\ IsFiniteSet(solution) /\ Shapes
  BY DEF Types, ASolution
<1>1. b.package \in Owner /\ b.version \in Version /\ b.version \in VersionsOf(b.package)
      /\ \A a \in Decs(solution) : a.package = b.package => a = b
  BY DecisionFacts
<1>2. need[1] \in Packages /\ need[2].parses \in BOOLEAN /\ need[2].range \in NpmRange
  BY <1>0, <1>1, NeedsType DEF NeedsBy
<1>3. t.package = b.package /\ t.range = RangeOf(b.package, b.version) /\ t.isPositive = TRUE
      /\ n.package = need[1] /\ n.range = need[2].range /\ n.isPositive = FALSE
  BY DEF Term
<1>4. n \in AnyTerm
  BY <1>2, TermType DEF Owner
<1>5. TermHolds(t, b.version)
  <2>1. Satisfies(RangeOf(b.package, b.version), b.version)
    BY <1>1, OwnRanges, SatisfiesIsPoint DEF RangeOf
  <2>2. Satisfies(RangeOf(b.package, b.version), b.version) \in BOOLEAN
    BY DEF Satisfies
  <2> QED BY <2>1, <2>2, <1>3 DEF TermHolds
<1>6. TermStatus(t) = "satisfied"
  BY <1>1, <1>3, <1>5, DecidedStatus
<1>7. /\ ~need[2].parses => ClauseFor(b, need) = {t}
      /\ need[2].parses => ClauseFor(b, need) = {t, n}
  BY DEF ClauseFor, ClauseOf, DependsOn
<1> HIDE DEF t, n
<1>8. CASE \E a \in Decs(solution) : a.package = need[1]
  <2>1. PICK a \in Decs(solution) : a.package = need[1]
    BY <1>8
  <2>2. /\ \A c \in Decs(solution) : c.package = a.package => c = a
        /\ a.level <= decisionLevel /\ a.version \in Version
        /\ \A s \in SUBSET solution : <<a.version, 0>> \in Allowed(s, a.package)
    BY DecisionFacts
  <2>3. TermStatus(n) = IF TermHolds(n, a.version) THEN "satisfied" ELSE "contradicted"
    BY <1>3, <2>1, <2>2, DecidedStatus
  <2>4. TermHolds(n, a.version) <=> ~Satisfies(need[2].range, a.version)
    <3>1. Satisfies(need[2].range, a.version) \in BOOLEAN
      BY DEF Satisfies
    <3> QED BY <3>1, <1>3 DEF TermHolds
  <2>5. ASSUME NEW k, Covered(solution, need, k) PROVE Satisfies(need[2].range, a.version)
    <3>1. CASE \E c \in Decs(solution) : c.package = need[1] /\ Satisfies(need[2].range, c.version)
      BY <3>1, <2>1, <2>2
    <3>2. CASE Allowed(Until(solution, k), need[1]) \subseteq Points(need[2].range)
      <4>1. <<a.version, 0>> \in Allowed(Until(solution, k), need[1])
        BY <2>1, <2>2 DEF Until
      <4> QED BY <4>1, <3>2, <2>2, <1>2, SatisfiesIsPoint
    <3> QED BY <2>5, <3>1, <3>2 DEF Covered
  <2>6. need[2].parses /\ TermStatus(n) = "contradicted" => Covered(solution, need, decisionLevel)
    BY <2>1, <2>2, <2>3, <2>4 DEF Covered
  <2>7. TermStatus(n) = "satisfied" => \A k : ~Covered(solution, need, k)
    BY <2>3, <2>4, <2>5
  <2> QED BY <1>1, <1>2, <1>3, <1>4, <1>5, <1>6, <1>7, <2>3, <2>6, <2>7 DEF t, n
<1>9. CASE \A a \in Decs(solution) : a.package # need[1]
  <2> DEFINE D == Ders(solution, need[1])
             A == Allowed(solution, need[1])
             R == Points(need[2].range)
  <2>1. /\ TermStatus(n) \in {"satisfied", "contradicted", "inconclusive"}
        /\ TermStatus(n) = "contradicted" <=> D # {} /\ A \subseteq R
        /\ TermStatus(n) = "satisfied" <=> D # {} /\ A # {} /\ A \cap R = {}
    BY <1>0, <1>3, <1>4, <1>9, OpenStatus
  <2>2. Until(solution, decisionLevel) = solution
    BY <1>0, ShapeFacts DEF Until
  <2>3. need[2].parses /\ TermStatus(n) = "contradicted" => Covered(solution, need, decisionLevel)
    BY <2>1, <2>2 DEF Covered
  <2>4. \A k : A \subseteq Allowed(Until(solution, k), need[1])
    BY DEF Allowed, Until, Ders
  <2>5. TermStatus(n) = "satisfied" => \A k : ~Covered(solution, need, k)
    BY <2>1, <2>4, <1>9 DEF Covered
  <2> QED BY <1>1, <1>2, <1>3, <1>4, <1>5, <1>6, <1>7, <1>9, <2>1, <2>3, <2>5 DEF t, n
<1> QED BY <1>8, <1>9
--------------------------------------------------------------------------------
(* Every incompatibility is a requirement of some version, or a version     *)
(* learned to be of no use; ...                                             *)
Form(x) ==
  \/ \E p \in Owner : \E v \in VersionsOf(p) : \E need \in NeedsOf(p, v) : x = ClauseOf(p, v, need)
  \/ \E e \in forbidden : x = Ban(e)
Forms == \A i \in DOMAIN incompat : Form(incompat[i])
(* ... and the requirements of the versions decided are among them.         *)
Present == \A b \in Decs(solution) : \A need \in NeedsBy(b) : Has(incompat, ClauseFor(b, need))
(* A requirement of the latest decision is about to be visited, any other   *)
(* is covered.                                                              *)
Pending(b, need) ==
  /\ b.level = decisionLevel /\ phase = "propagate"
  /\ b.package \in changed \/ \E i \in visit : incompat[i] = ClauseFor(b, need)
CoveredAll ==
  \A b \in Decs(solution) : \A need \in NeedsBy(b) : Covered(solution, need, b.level) \/ Pending(b, need)
(* No incompatibility names a version of a package that is not decided, but *)
(* for those of Q.                                                          *)
ParentsDecided(Q) ==
  \A i \in DOMAIN incompat : \A t \in incompat[i] :
    t.isPositive => t.package \in Q \/ \E a \in Decs(solution) : a.package = t.package
(* The latest decision is of the package that had the fewest viable         *)
(* versions when it was made.                                               *)
FewestOf(s, p) == \A q \in OpenIn(s) : Cardinality(ViableIn(s, p)) <= Cardinality(ViableIn(s, q))
PickedLast ==
  \A a \in Decs(solution) : a.package # Root /\ a.level = decisionLevel =>
    FewestOf(Until(solution, decisionLevel - 1), a.package)
(* Nothing is left to visit when the next decision is made.                 *)
Rested == phase = "decide" => changed = {} /\ visit = {}

(* The request says of versions what it said.                               *)
LEMMA RequestKept ==
  ASSUME request' = request
  PROVE  /\ \A p : Known(p)' = Known(p) /\ VersionsOf(p)' = VersionsOf(p)
         /\ \A p, v : NeedsOf(p, v)' = NeedsOf(p, v) /\ Required(p, v)' = Required(p, v)
         /\ RequiredByRoot' = RequiredByRoot
<1>1. \A p : Known(p)' = Known(p)
  BY DEF Known
<1>2. \A p : VersionsOf(p)' = VersionsOf(p)
  BY <1>1 DEF VersionsOf
<1>3. \A p, d : HasSatisfyingVersion(p, d)' <=> HasSatisfyingVersion(p, d)
  BY <1>1 DEF HasSatisfyingVersion
<1>4. \A p, v : DependenciesOf(p, v)' = DependenciesOf(p, v)
  BY DEF DependenciesOf
<1>5. \A p, v : Required(p, v)' = Required(p, v)
  BY <1>3, <1>4 DEF Required
<1>6. RequiredByRoot' = RequiredByRoot
  BY DEF RequiredByRoot
<1> QED BY <1>1, <1>2, <1>5, <1>6 DEF NeedsOf

(* What is picked depends on nothing that visits change.                    *)
LEMMA PickKept ==
  ASSUME request' = request, solution' = solution, forbidden' = forbidden
  PROVE  /\ Pick' = Pick /\ Undecided' = Undecided
         /\ \A p : Wanted(p)' = Wanted(p)
<1>1. \A p : Known(p)' = Known(p)
  BY RequestKept
<1>2. \A p : Derived(p, TRUE)' = Derived(p, TRUE) /\ Decided(p)' = Decided(p)
  BY DEF Derived, Decided, Of
<1>3. \A p : Wanted(p)' = Wanted(p)
  BY <1>2 DEF Wanted
<1>4. Undecided' = Undecided
  <2>1. \A p : Decided(p)' = {} <=> Decided(p) = {}
    BY <1>2
  <2>2. \A p : Derived(p, TRUE)' = {} <=> Derived(p, TRUE) = {}
    BY <1>2
  <2> QED BY <2>1, <2>2 DEF Undecided
<1>5. \A p : Viable(p)' = Viable(p)
  BY <1>1, <1>3 DEF Viable
<1> QED BY <1>3, <1>4, <1>5 DEF Pick

(* While assignments stay, what is said of them stays.                      *)
LEMMA SolutionKept ==
  ASSUME request' = request, solution' = solution, decisionLevel' = decisionLevel, forbidden' = forbidden
  PROVE  /\ ASolution => ASolution'
         /\ PickedLast => PickedLast'
         /\ \A s : OpenIn(s)' = OpenIn(s)
         /\ \A s, p : ViableIn(s, p)' = ViableIn(s, p)
<1>1. /\ \A p : Known(p)' = Known(p) /\ VersionsOf(p)' = VersionsOf(p)
      /\ \A p, v : NeedsOf(p, v)' = NeedsOf(p, v)
  BY RequestKept
<1>2. /\ Shapes => Shapes'
      /\ RootIsDecided => RootIsDecided'
      /\ OneEach => OneEach'
      /\ EveryLevel => EveryLevel'
  BY DEF Shapes, IsDec, IsDer, RootIsDecided, OneEach, EveryLevel
<1>3. DecisionsStand => DecisionsStand'
  BY <1>1 DEF DecisionsStand, Standing
<1>4. Caused => Caused'
  BY <1>1 DEF Caused, CausedBy, NeedsBy
<1>5. \A s, p : ViableIn(s, p)' = ViableIn(s, p)
  BY <1>1 DEF ViableIn
<1>6. \A s : OpenIn(s)' = OpenIn(s)
  BY DEF OpenIn
<1>7. PickedLast => PickedLast'
  BY <1>5, <1>6 DEF PickedLast, FewestOf
<1> QED BY <1>2, <1>3, <1>4, <1>5, <1>6, <1>7 DEF ASolution
--------------------------------------------------------------------------------
(* The best of the viable versions is one of them.                          *)
LEMMA HighestFacts ==
  ASSUME NEW S \in SUBSET Version, IsFiniteSet(S), S # {}
  PROVE  Highest(S) \in S
<1> DEFINE Le == {e \in S \X S : Compare(e[1], e[2]) # 1}
<1>1. \A a, b \in S : <<a, b>> \in Le <=> Compare(a, b) # 1
  OBVIOUS
<1>2. \A a, b \in S : Compare(a, b) # 1 \/ Compare(b, a) # 1
  BY Order
<1>3. \A a, b, c \in S : Compare(a, b) # 1 /\ Compare(b, c) # 1 => Compare(a, c) # 1
  BY OrderAssumption
<1> HIDE DEF Le
<1>4. \A a, b \in S : <<a, b>> \in Le \/ <<b, a>> \in Le
  BY <1>1, <1>2
<1>5. \A a, b, c \in S : <<a, b>> \in Le /\ <<b, c>> \in Le => <<a, c>> \in Le
  BY <1>1, <1>3
<1>6. \E c \in S : \A d \in S : <<d, c>> \in Le
  BY <1>4, <1>5, SomeLast
<1>7. \E c \in S : \A d \in S : Compare(d, c) # 1
  BY <1>1, <1>6
<1> QED BY <1>7 DEF Highest

(* The choice is a viable version, the lockfile's if that is one.           *)
LEMMA ChoiceFacts ==
  ASSUME request \in Requests, NEW p, Viable(p) # {}
  PROVE  /\ Choice(p) \in Viable(p) /\ Viable(p) \subseteq Known(p) /\ Viable(p) \subseteq Version
         /\ p \in DOMAIN request.preferred /\ request.preferred[p] \in Viable(p)
              => Choice(p) = request.preferred[p]
<1> DEFINE P == {v \in Viable(p) : IsPreferred(p, v)}
           Q == {v \in Viable(p) : IsLatest(p, v)}
           F == FirstOf(P, Q, Viable(p))
<1>1. Viable(p) \subseteq Known(p) /\ Viable(p) \subseteq Version /\ IsFiniteSet(Viable(p))
  BY KnownType, FS_Subset DEF Viable
<1>2. F \subseteq Viable(p) /\ F # {}
  BY DEF FirstOf
<1>3. Choice(p) = Highest(F)
  BY DEF Choice
<1> HIDE DEF F
<1>4. F \in SUBSET Version /\ IsFiniteSet(F)
  BY <1>1, <1>2, FS_Subset
<1>5. Highest(F) \in F
  BY <1>2, <1>4, HighestFacts
<1>6. ASSUME p \in DOMAIN request.preferred, request.preferred[p] \in Viable(p)
      PROVE  Choice(p) = request.preferred[p]
  <2>1. P = {request.preferred[p]}
    BY <1>6 DEF IsPreferred
  <2>2. F = P
    BY <2>1 DEF F, FirstOf
  <2> QED BY <1>3, <1>5, <2>1, <2>2
<1> QED BY <1>1, <1>2, <1>3, <1>5, <1>6

(* The incompatibility visited is the last one of those left.               *)
LEMMA VisitingFacts ==
  ASSUME Types, visit # {}
  PROVE  /\ Max(visit) \in visit /\ Max(visit) \in DOMAIN incompat
         /\ Visited = incompat[Max(visit)] /\ Visited \in Incompatibility
         /\ \A i \in visit : i <= Max(visit)
<1>1. /\ incompat \in Seq(Incompatibility) /\ visit \subseteq DOMAIN incompat
  BY DEF Types
<1>2. Len(incompat) \in Nat /\ DOMAIN incompat = 1..Len(incompat)
  BY <1>1
<1>3. visit \in SUBSET (1..Len(incompat)) /\ visit \subseteq Int
  BY <1>1, <1>2
<1>4. IsFiniteSet(visit)
  <2>1. IsFiniteSet(1..Len(incompat))
    BY <1>2, FS_Interval
  <2> QED BY <1>3, <2>1, FS_Subset
<1>5. Max(visit) \in visit /\ \A i \in visit : i <= Max(visit)
  BY <1>3, <1>4, MaxMinFacts
<1>6. incompat[Max(visit)] \in Incompatibility
  BY <1>1, <1>2, <1>5
<1> QED BY <1>1, <1>5, <1>6 DEF Visited

(* A term that does not hold keeps an incompatibility from having any       *)
(* effect.                                                                  *)
LEMMA OneContradicted ==
  ASSUME NEW inc, NEW t \in inc, TermStatus(t) = "contradicted"
  PROVE  ~IsSatisfied(inc) /\ ~IsAlmostSatisfied(inc)
BY DEF IsSatisfied, IsAlmostSatisfied, With

(* While every parent is decided, an incompatibility that has an effect is  *)
(* a requirement of a version that is decided.                              *)
LEMMA WhoIsVisited ==
  ASSUME Types, ASolution, Forms, ParentsDecided({}), NEW i \in DOMAIN incompat
  PROVE  \/ ~IsSatisfied(incompat[i]) /\ ~IsAlmostSatisfied(incompat[i])
         \/ \E b \in Decs(solution) : \E need \in NeedsBy(b) : incompat[i] = ClauseFor(b, need)
<1> DEFINE inc == incompat[i]
<1>0. request \in Requests /\ forbidden \subseteq Packages \X Version
  BY DEF Types
<1>1. \A t \in inc : t.isPositive => \E a \in Decs(solution) : a.package = t.package
  BY DEF ParentsDecided
<1>2. ASSUME NEW t \in inc, NEW v \in Version, t = Term(t.package, Exact(v), TRUE),
             NEW a \in Decs(solution), a.package = t.package, a.version # v
      PROVE  ~IsSatisfied(inc) /\ ~IsAlmostSatisfied(inc)
  <2>1. t.range = Exact(v) /\ t.isPositive = TRUE
    BY <1>2 DEF Term
  <2>2. a.version \in Version /\ \A b \in Decs(solution) : b.package = a.package => b = a
    BY DecisionFacts
  <2>3. Satisfies(Exact(v), a.version) = FALSE
    <3>1. Satisfies(Exact(v), a.version) <=> v = a.version
      BY <2>2, OwnRanges, SatisfiesIsPoint
    <3> QED BY <3>1, <1>2 DEF Satisfies
  <2>4. ~TermHolds(t, a.version)
    BY <2>1, <2>3 DEF TermHolds
  <2>5. TermStatus(t) = "contradicted"
    BY <1>2, <2>2, <2>4, DecidedStatus
  <2> QED BY <2>5, OneContradicted
<1>3. CASE \E p \in Owner : \E v \in VersionsOf(p) : \E need \in NeedsOf(p, v) : inc = ClauseOf(p, v, need)
  <2>1. PICK p \in Owner : \E v \in VersionsOf(p) : \E need \in NeedsOf(p, v) : inc = ClauseOf(p, v, need)
    BY <1>3
  <2>2. PICK v \in VersionsOf(p) : \E need \in NeedsOf(p, v) : inc = ClauseOf(p, v, need)
    BY <2>1
  <2>3. PICK need \in NeedsOf(p, v) : inc = ClauseOf(p, v, need)
    BY <2>2
  <2> DEFINE t == Term(p, RangeOf(p, v), TRUE)
  <2>4. t \in inc
    BY <1>0, <2>3, ClauseOfFacts
  <2>5. t.package = p /\ t.isPositive = TRUE
    BY DEF Term
  <2>6. PICK a \in Decs(solution) : a.package = p
    BY <1>1, <2>4, <2>5
  <2>7. a.version \in VersionsOf(p) /\ v \in Version
    BY <1>0, <2>6, DecisionFacts, KnownType
  <2>8. CASE a.version = v
    BY <2>3, <2>6, <2>8 DEF ClauseFor, NeedsBy
  <2>9. CASE a.version # v
    <3>1. p # Root
      BY <2>7, <2>9 DEF VersionsOf
    <3>2. t = Term(t.package, Exact(v), TRUE)
      BY <3>1, <2>5 DEF RangeOf
    <3> HIDE DEF t
    <3> QED BY <1>2, <2>4, <2>5, <2>6, <2>7, <2>9, <3>2
  <2> QED BY <2>8, <2>9
<1>4. CASE \E e \in forbidden : inc = Ban(e)
  <2>1. PICK e \in forbidden : inc = Ban(e)
    BY <1>4
  <2> DEFINE t == Term(e[1], Exact(e[2]), TRUE)
  <2>2. t \in inc /\ t.package = e[1] /\ t.isPositive = TRUE
    BY <2>1 DEF Ban, Term
  <2>3. PICK a \in Decs(solution) : a.package = e[1]
    BY <1>1, <2>2
  <2>4. e[1] \in Packages /\ e[2] \in Version /\ e = <<e[1], e[2]>>
    BY <1>0
  <2>5. Standing(a)
    BY DEF ASolution, DecisionsStand
  <2>6. a.version # e[2]
    BY <2>3, <2>4, <2>5, NamesAreNumbers DEF Standing
  <2>7. t = Term(t.package, Exact(e[2]), TRUE)
    BY <2>2
  <2> HIDE DEF t
  <2> QED BY <1>2, <2>2, <2>3, <2>4, <2>6, <2>7
<1> QED BY <1>3, <1>4 DEF Forms, Form

(* What visiting a requirement of a decided version comes to.               *)
LEMMA VisitNeed ==
  ASSUME Types, ASolution, NEW b \in Decs(solution), NEW need \in NeedsBy(b)
  PROVE  LET inc == ClauseFor(b, need)
             n == Term(need[1], need[2].range, FALSE)
         IN /\ IsSatisfied(inc) => /\ \A k : ~Covered(solution, need, k)
                                   /\ need[2].parses => TermStatus(n) = "satisfied"
            /\ IsAlmostSatisfied(inc) => /\ need[2].parses
                                         /\ With(inc, "inconclusive") = {n}
                                         /\ \A a \in Decs(solution) : a.package # need[1]
            /\ ~IsSatisfied(inc) /\ ~IsAlmostSatisfied(inc) => Covered(solution, need, decisionLevel)
<1> DEFINE inc == ClauseFor(b, need)
           t == Term(b.package, RangeOf(b.package, b.version), TRUE)
           n == Term(need[1], need[2].range, FALSE)
<1>1. /\ t \in inc /\ TermStatus(t) = "satisfied" /\ t # n
      /\ need[2].parses \in BOOLEAN
      /\ ~need[2].parses => inc = {t}
      /\ need[2].parses => inc = {t, n}
      /\ TermStatus(n) \in {"satisfied", "contradicted", "inconclusive"}
      /\ need[2].parses /\ TermStatus(n) = "contradicted" => Covered(solution, need, decisionLevel)
      /\ TermStatus(n) = "satisfied" => \A k : ~Covered(solution, need, k)
      /\ TermStatus(n) = "inconclusive" => \A a \in Decs(solution) : a.package # need[1]
  BY NeedStatus
<1> HIDE DEF inc, t, n
<1>2. CASE ~need[2].parses
  <2>1. inc = {t} /\ \A k : ~Covered(solution, need, k)
    BY <1>1, <1>2 DEF Covered
  <2>2. IsSatisfied(inc) /\ With(inc, "inconclusive") = {}
    BY <1>1, <2>1 DEF IsSatisfied, With
  <2>3. ~IsAlmostSatisfied(inc)
    BY <2>2, FS_EmptySet DEF IsAlmostSatisfied
  <2> QED BY <1>2, <2>1, <2>2, <2>3 DEF inc, n
<1>3. CASE need[2].parses /\ TermStatus(n) = "inconclusive"
  <2>1. inc = {t, n}
    BY <1>1, <1>3
  <2>2. With(inc, "inconclusive") = {n} /\ With(inc, "contradicted") = {} /\ With(inc, "satisfied") # inc
    BY <1>1, <1>3, <2>1 DEF With
  <2>3. ~IsSatisfied(inc) /\ IsAlmostSatisfied(inc)
    BY <2>2, FS_Singleton DEF IsSatisfied, IsAlmostSatisfied
  <2> QED BY <1>1, <1>3, <2>2, <2>3 DEF inc, n
<1>4. CASE need[2].parses /\ TermStatus(n) = "satisfied"
  <2>1. inc = {t, n}
    BY <1>1, <1>4
  <2>2. IsSatisfied(inc) /\ With(inc, "inconclusive") = {}
    BY <1>1, <1>4, <2>1 DEF IsSatisfied, With
  <2>3. ~IsAlmostSatisfied(inc)
    BY <2>2, FS_EmptySet DEF IsAlmostSatisfied
  <2> QED BY <1>1, <1>4, <2>2, <2>3 DEF inc, n
<1>5. CASE need[2].parses /\ TermStatus(n) = "contradicted"
  <2>1. n \in inc
    BY <1>1, <1>5
  <2>2. ~IsSatisfied(inc) /\ ~IsAlmostSatisfied(inc)
    BY <1>5, <2>1, OneContradicted
  <2> QED BY <1>1, <1>5, <2>2 DEF inc, n
<1> QED BY <1>1, <1>2, <1>3, <1>4, <1>5
--------------------------------------------------------------------------------
(* Nothing but the visits has changed.                                      *)
LEMMA IncompatsKept ==
  ASSUME request' = request, solution' = solution, forbidden' = forbidden, incompat' = incompat
  PROVE  /\ Forms => Forms'
         /\ Present => Present'
         /\ \A Q : ParentsDecided(Q) => ParentsDecided(Q)'
<1>1. /\ \A p : Known(p)' = Known(p) /\ VersionsOf(p)' = VersionsOf(p)
      /\ \A p, v : NeedsOf(p, v)' = NeedsOf(p, v)
  BY RequestKept
<1>2. \A x : Form(x) => Form(x)'
  BY <1>1 DEF Form
<1>3. Forms => Forms'
  BY <1>2 DEF Forms
<1>4. Present => Present'
  BY <1>1 DEF Present, NeedsBy
<1>5. \A Q : ParentsDecided(Q) => ParentsDecided(Q)'
  BY DEF ParentsDecided
<1> QED BY <1>3, <1>4, <1>5

(* More incompatibilities, all of them known to be right.                   *)
LEMMA IncompatsGrow ==
  ASSUME request' = request, forbidden \subseteq forbidden',
         incompat \in Seq(Incompatibility), incompat' \in Seq(Incompatibility),
         NEW new, \A x : Has(incompat', x) <=> Has(incompat, x) \/ Has(new, x)
  PROVE  /\ Forms /\ (\A x : Has(new, x) => Form(x)') => Forms'
         /\ \A x : Has(incompat, x) => Has(incompat', x)
<1>1. /\ \A p : Known(p)' = Known(p) /\ VersionsOf(p)' = VersionsOf(p)
      /\ \A p, v : NeedsOf(p, v)' = NeedsOf(p, v)
  BY RequestKept
<1>2. \A x : Form(x) => Form(x)'
  BY <1>1 DEF Form
<1>3. ASSUME Forms, \A x : Has(new, x) => Form(x)' PROVE Forms'
  <2>1. \A x : Has(incompat', x) => Form(x)'
    BY <1>2, <1>3 DEF Forms, Has
  <2> QED BY <2>1 DEF Forms, Has
<1> QED BY <1>3
--------------------------------------------------------------------------------
(* The solver makes its way: every requirement is covered or about to be.   *)
Advancing ==
  /\ ASolution /\ Forms /\ Present /\ CoveredAll /\ ParentsDecided({}) /\ PickedLast /\ Rested
(* It has just taken a step back: the version given up is of the package    *)
(* decided last, and so of the one with the fewest viable versions, now     *)
(* fewer still.                                                             *)
AllCovered == \A b \in Decs(solution) : \A need \in NeedsBy(b) : Covered(solution, need, b.level)
Fewer(q) == \A r \in OpenIn(solution) : r # q =>
              Cardinality(ViableIn(solution, q)) < Cardinality(ViableIn(solution, r))
Backtracked ==
  /\ ASolution /\ Forms /\ Present /\ AllCovered /\ phase = "decide" /\ visit = {}
  /\ \E q \in OpenIn(solution) : changed = {q} /\ ParentsDecided({q}) /\ Fewer(q)
(* The incompatibility of a package of which nothing viable is left.        *)
Tried(q) ==
  /\ phase = "propagate"
  /\ incompat # <<>> /\ incompat[Len(incompat)] = {Term(q, Wanted(q), TRUE)}
  /\ (visit = {} /\ changed = {q}) \/ Len(incompat) \in visit
(* The solver cannot recover: nothing viable is left of the package it must *)
(* decide.                                                                  *)
Stuck ==
  /\ ASolution /\ Rested
  /\ \E q \in OpenIn(solution) :
       /\ q = Pick /\ ViableIn(solution, q) = {}
       /\ \/ Allowed(solution, q) = {} /\ changed \subseteq {q} /\ visit \subseteq IncompatOf(q)
          \/ Allowed(solution, q) # {} /\ Tried(q)

(* One lemma for each step that propagates (unitPropagate).                 *)
LEMMA TakeChangedAdvances ==
  ASSUME Types, Advancing, TakeChanged
  PROVE  Types' /\ Advancing'
<1>0. UNCHANGED <<request, phase, solution, incompat, decisionLevel, forbidden, turns>>
      /\ phase = "propagate" /\ visit = {} /\ changed # {}
      /\ visit' = IncompatOf(NextChanged) /\ changed' = changed \ {NextChanged}
  BY DEF TakeChanged
<1>1. Types'
  BY <1>0 DEF Types, IncompatOf
<1>2. ASolution' /\ PickedLast'
  BY <1>0, SolutionKept DEF Advancing
<1>3. Forms' /\ Present' /\ ParentsDecided({})'
  BY <1>0, IncompatsKept DEF Advancing
<1>4. Rested'
  BY <1>0 DEF Rested
<1>5. CoveredAll'
  <2>1. \A p, v : NeedsOf(p, v)' = NeedsOf(p, v)
    BY <1>0, RequestKept
  <2>2. SUFFICES ASSUME NEW b \in Decs(solution), NEW need \in NeedsBy(b), Pending(b, need)
                 PROVE  Pending(b, need)'
    BY <1>0, <2>1 DEF Advancing, CoveredAll, NeedsBy
  <2>3. b.level = decisionLevel /\ b.package \in changed
    BY <1>0, <2>2 DEF Pending
  <2>4. CASE b.package # NextChanged
    BY <1>0, <2>3, <2>4 DEF Pending
  <2>5. CASE b.package = NextChanged
    <3>1. PICK i \in DOMAIN incompat : incompat[i] = ClauseFor(b, need)
      BY DEF Advancing, Present, Has
    <3> DEFINE t == Term(b.package, RangeOf(b.package, b.version), TRUE)
    <3>2. t \in ClauseFor(b, need) /\ t.package = b.package
      BY NeedStatus DEF Advancing
    <3>3. i \in IncompatOf(NextChanged)
      BY <2>5, <3>1, <3>2 DEF IncompatOf, Mentions
    <3> QED BY <1>0, <2>3, <3>1, <3>3 DEF Pending
  <2> QED BY <2>4, <2>5
<1> QED BY <1>1, <1>2, <1>3, <1>4, <1>5 DEF Advancing

(* When nothing is left to visit every requirement is covered.              *)
LEMMA PropagatedAdvances ==
  ASSUME Types, Advancing, Propagated
  PROVE  Types' /\ Advancing'
<1>0. UNCHANGED <<request, changed, visit, solution, incompat, decisionLevel, forbidden, turns>>
      /\ phase' = "decide" /\ visit = {} /\ changed = {}
  BY DEF Propagated
<1>1. Types'
  BY <1>0 DEF Types
<1>2. ASolution' /\ PickedLast'
  BY <1>0, SolutionKept DEF Advancing
<1>3. Forms' /\ Present' /\ ParentsDecided({})'
  BY <1>0, IncompatsKept DEF Advancing
<1>4. Rested'
  BY <1>0 DEF Rested
<1>5. CoveredAll'
  <2>1. \A p, v : NeedsOf(p, v)' = NeedsOf(p, v)
    BY <1>0, RequestKept
  <2>2. \A b, need : ~Pending(b, need)
    BY <1>0 DEF Pending
  <2> QED BY <1>0, <2>1, <2>2 DEF Advancing, CoveredAll, NeedsBy
<1> QED BY <1>1, <1>2, <1>3, <1>4, <1>5 DEF Advancing

(* Of the requirements of the decided versions, only those at the highest   *)
(* level are not covered, and those just visited are by now.                *)
LEMMA VisitedIsCovered ==
  ASSUME Types, Advancing, Visiting, request' = request, phase' = phase, incompat' = incompat,
         Decs(solution') = Decs(solution), solution \subseteq solution',
         \A a \in solution' : a.level \in Nat,
         decisionLevel' = decisionLevel, changed \subseteq changed', visit' = visit \ {Max(visit)},
         \A b \in Decs(solution) : \A need \in NeedsBy(b) :
           Visited = ClauseFor(b, need) => Covered(solution', need, decisionLevel)
  PROVE  CoveredAll'
<1>1. \A p, v : NeedsOf(p, v)' = NeedsOf(p, v)
  BY RequestKept
<1>2. Visited = incompat[Max(visit)]
  BY DEF Visited
<1>3. SUFFICES ASSUME NEW b \in Decs(solution), NEW need \in NeedsBy(b)
               PROVE  Covered(solution', need, b.level) \/ Pending(b, need)'
  BY <1>1 DEF CoveredAll, NeedsBy
<1>4. CASE Covered(solution, need, b.level)
  <2>1. b.level \in Nat /\ b.level <= b.level /\ \A a \in solution : a.level \in Nat
    BY DEF Decs
  <2> QED BY <1>4, <2>1, CoveredGrows
<1>5. CASE Pending(b, need) /\ b.package \in changed
  BY <1>5 DEF Pending
<1>6. CASE Pending(b, need) /\ \E i \in visit : incompat[i] = ClauseFor(b, need)
  <2>1. PICK i \in visit : incompat[i] = ClauseFor(b, need)
    BY <1>6
  <2>2. CASE i = Max(visit)
    BY <1>2, <1>6, <2>1, <2>2 DEF Pending
  <2>3. CASE i # Max(visit)
    BY <1>6, <2>1, <2>3 DEF Pending
  <2> QED BY <2>2, <2>3
<1> QED BY <1>4, <1>5, <1>6 DEF Advancing, CoveredAll, Pending

(* An incompatibility passed by was covered.                                *)
LEMMA PassByAdvances ==
  ASSUME Types, Advancing, PassBy
  PROVE  Types' /\ Advancing'
<1>0. UNCHANGED <<request, phase, changed, solution, incompat, decisionLevel, forbidden, turns>>
      /\ phase = "propagate" /\ Visiting /\ visit' = visit \ {Max(visit)}
      /\ ~IsSatisfied(Visited) /\ ~IsAlmostSatisfied(Visited)
  BY DEF PassBy, Visiting
<1>1. Types'
  BY <1>0 DEF Types
<1>2. ASolution' /\ PickedLast'
  BY <1>0, SolutionKept DEF Advancing
<1>3. Forms' /\ Present' /\ ParentsDecided({})'
  BY <1>0, IncompatsKept DEF Advancing
<1>4. Rested'
  BY <1>0 DEF Rested
<1>5. CoveredAll'
  <2>1. \A b \in Decs(solution) : \A need \in NeedsBy(b) :
          Visited = ClauseFor(b, need) => Covered(solution, need, decisionLevel)
    BY <1>0, VisitNeed DEF Advancing
  <2>2. \A a \in solution : a.level \in Nat
    BY ShapeFacts DEF Advancing, ASolution, Types
  <2> QED BY <1>0, <2>1, <2>2, VisitedIsCovered
<1> QED BY <1>1, <1>2, <1>3, <1>4, <1>5 DEF Advancing

(* What is derived is the range of a requirement of a decided version.      *)
LEMMA DerivedNeed ==
  ASSUME Types, Advancing, Visiting, IsAlmostSatisfied(Visited), NEW t \in With(Visited, "inconclusive")
  PROVE  /\ t \in AnyTerm /\ t.package \in Packages /\ \A a \in Decs(solution) : a.package # t.package
         /\ \A b \in Decs(solution) : \A need \in NeedsBy(b) : Visited = ClauseFor(b, need) =>
              need[2].parses /\ t = Term(need[1], need[2].range, FALSE)
         /\ \E b \in Decs(solution) : \E need \in NeedsBy(b) :
              Visited = ClauseFor(b, need) /\ need[2].parses /\ t = Term(need[1], need[2].range, FALSE)
<1>1. ASolution /\ Forms /\ ParentsDecided({}) /\ visit # {}
  BY DEF Advancing, Visiting
<1>2. Max(visit) \in DOMAIN incompat /\ Visited = incompat[Max(visit)]
  BY <1>1, VisitingFacts
<1>3. PICK b \in Decs(solution) : \E need \in NeedsBy(b) : Visited = ClauseFor(b, need)
  BY <1>1, <1>2, WhoIsVisited
<1>4. PICK need \in NeedsBy(b) : Visited = ClauseFor(b, need)
  BY <1>3
<1>5. ASSUME NEW c \in Decs(solution), NEW other \in NeedsBy(c), Visited = ClauseFor(c, other)
      PROVE  other[2].parses /\ t = Term(other[1], other[2].range, FALSE)
  BY <1>1, <1>5, VisitNeed
<1>6. /\ Term(need[1], need[2].range, FALSE) \in AnyTerm
      /\ Term(need[1], need[2].range, FALSE).package = need[1] /\ need[1] \in Packages
  BY <1>1, NeedStatus
<1>7. \A a \in Decs(solution) : a.package # need[1]
  BY <1>1, <1>4, VisitNeed
<1>8. need[2].parses /\ t = Term(need[1], need[2].range, FALSE)
  BY <1>4, <1>5
<1> QED BY <1>4, <1>5, <1>6, <1>7, <1>8
--------------------------------------------------------------------------------
(* A derivation covers the requirement it is derived from.                  *)
LEMMA DeriveAdvances ==
  ASSUME Types, Advancing, Derive
  PROVE  Types' /\ Advancing'
<1>0. UNCHANGED <<request, phase, incompat, decisionLevel, forbidden, turns>>
      /\ phase = "propagate" /\ Visiting /\ visit' = visit \ {Max(visit)}
      /\ IsAlmostSatisfied(Visited)
  BY DEF Derive, Visiting
<1>1. PICK t \in With(Visited, "inconclusive") :
        /\ solution' = solution \cup {Derivation(Invert(t), decisionLevel)}
        /\ changed' = changed \cup {t.package}
  BY DEF Derive
<1> DEFINE d == Derivation(Invert(t), decisionLevel)
           p == t.package
<1>2. /\ t \in AnyTerm /\ p \in Packages /\ \A a \in Decs(solution) : a.package # p
      /\ \A b \in Decs(solution) : \A need \in NeedsBy(b) : Visited = ClauseFor(b, need) =>
           need[2].parses /\ t = Term(need[1], need[2].range, FALSE)
  BY <1>0, DerivedNeed
<1>3. PICK b \in Decs(solution) : \E need \in NeedsBy(b) :
        Visited = ClauseFor(b, need) /\ need[2].parses /\ t = Term(need[1], need[2].range, FALSE)
  BY <1>0, DerivedNeed
<1>4. PICK need \in NeedsBy(b) :
        Visited = ClauseFor(b, need) /\ need[2].parses /\ t = Term(need[1], need[2].range, FALSE)
  BY <1>3
<1>5. t.package = need[1] /\ t.range = need[2].range /\ t.isPositive = FALSE
  BY <1>4 DEF Term
<1>6. /\ d.package = p /\ d.kind = "derivation" /\ d.level = decisionLevel
      /\ d.term.range = t.range /\ d.term.isPositive = TRUE
  BY <1>5 DEF Derivation, Invert, Term
<1>7. t.range \in NpmRange /\ p \in Owner
  BY <1>2 DEF AnyTerm, Owner
<1> HIDE DEF d, p
<1>8. solution' = solution \cup {d} /\ changed' = changed \cup {p}
  BY <1>1 DEF d, p
<1>9. Decs(solution') = Decs(solution) /\ \A q : q # p => Ders(solution', q) = Ders(solution, q)
  BY <1>6, <1>8 DEF Decs, Ders
<1>10. ASolution /\ decisionLevel \in Nat /\ \A a \in solution : a.level \in Nat
  BY ShapeFacts DEF Advancing, ASolution, Types
<1>11. Types'
  <2>1. IsFiniteSet(solution')
    BY <1>8, FS_AddElement DEF Types
  <2> QED BY <1>0, <1>7, <1>8, <2>1 DEF Types
<1>12. ASolution'
  <2>1. \A r : VersionsOf(r)' = VersionsOf(r)
    BY <1>0, RequestKept
  <2>2. \A r, v : NeedsOf(r, v)' = NeedsOf(r, v)
    BY <1>0, RequestKept
  <2>3. Shapes'
    <3>1. d.level \in 0..decisionLevel /\ IsDer(d)
      BY <1>2, <1>6, <1>7, <1>10 DEF IsDer
    <3> QED BY <1>0, <1>8, <1>10, <3>1 DEF ASolution, Shapes, IsDec, IsDer
  <2>4. RootIsDecided' /\ OneEach' /\ EveryLevel'
    BY <1>0, <1>9, <1>10 DEF ASolution, RootIsDecided, OneEach, EveryLevel
  <2>5. DecisionsStand'
    <3>1. \A a \in Decs(solution) : Standing(a) /\ a.package # p /\ Ders(solution', a.package) = Ders(solution, a.package)
      BY <1>2, <1>9, <1>10 DEF ASolution, DecisionsStand, p
    <3> QED BY <1>0, <1>9, <2>1, <3>1 DEF DecisionsStand, Standing
  <2>6. CausedBy(d, b) /\ b.level <= d.level
    BY <1>4, <1>5, <1>6, <1>10, DecisionFacts DEF CausedBy, p
  <2>7. Caused'
    BY <1>8, <1>9, <1>6, <1>10, <2>2, <2>6 DEF ASolution, Caused, CausedBy, NeedsBy
  <2> QED BY <2>3, <2>4, <2>5, <2>7 DEF ASolution
<1>13. Forms' /\ Present' /\ ParentsDecided({})'
  <2>1. \A r : VersionsOf(r)' = VersionsOf(r)
    BY <1>0, RequestKept
  <2>2. \A r, v : NeedsOf(r, v)' = NeedsOf(r, v)
    BY <1>0, RequestKept
  <2>3. \A x : Form(x) => Form(x)'
    BY <1>0, <2>1, <2>2 DEF Form
  <2> QED BY <1>0, <1>9, <2>2, <2>3 DEF Advancing, Forms, Present, ParentsDecided, NeedsBy
<1>14. PickedLast'
  <2>1. Until(solution', decisionLevel - 1) = Until(solution, decisionLevel - 1)
    BY <1>6, <1>8, <1>10 DEF Until
  <2>2. /\ \A s : OpenIn(s)' = OpenIn(s)
        /\ \A s, r : ViableIn(s, r)' = ViableIn(s, r)
    <3>1. \A r : Known(r)' = Known(r)
      BY <1>0, RequestKept
    <3> QED BY <1>0, <3>1 DEF OpenIn, ViableIn
  <2> QED BY <1>0, <1>9, <2>1, <2>2 DEF Advancing, PickedLast, FewestOf
<1>15. CoveredAll'
  <2>1. ASSUME NEW c \in Decs(solution), NEW other \in NeedsBy(c), Visited = ClauseFor(c, other)
        PROVE  Covered(solution', other, decisionLevel)
    <3>1. other[2].parses /\ t = Term(other[1], other[2].range, FALSE)
      BY <1>2, <2>1
    <3>2. other[1] = p /\ other[2].range = t.range
      BY <3>1 DEF Term, p
    <3>3. d \in Ders(Until(solution', decisionLevel), p)
      BY <1>6, <1>8, <1>10 DEF Ders, Until
    <3>4. Allowed(Until(solution', decisionLevel), p) \subseteq Points(t.range)
      BY <3>3, <1>6 DEF Allowed
    <3> QED BY <3>1, <3>2, <3>3, <3>4 DEF Covered
  <2>2. \A a \in solution' : a.level \in Nat
    BY <1>6, <1>8, <1>10
  <2> QED BY <1>0, <1>8, <1>9, <2>1, <2>2, VisitedIsCovered
<1>16. Rested'
  BY <1>0 DEF Rested
<1> QED BY <1>11, <1>12, <1>13, <1>14, <1>15, <1>16 DEF Advancing

(* Where an incompatibility holds, it is a requirement of the version       *)
(* decided last, and that decision is the one to blame.                     *)
LEMMA SatisfiedNeed ==
  ASSUME Types, Advancing, Visiting, IsSatisfied(Visited)
  PROVE  \E b \in Decs(solution) : \E need \in NeedsBy(b) :
           /\ Visited = ClauseFor(b, need)
           /\ need[2].parses => TermStatus(Term(need[1], need[2].range, FALSE)) = "satisfied"
           /\ b.level = decisionLevel
           /\ b \in Culprits(Visited)
<1>1. ASolution /\ Forms /\ ParentsDecided({}) /\ visit # {} /\ CoveredAll
  BY DEF Advancing, Visiting
<1>2. Max(visit) \in DOMAIN incompat /\ Visited = incompat[Max(visit)]
  BY <1>1, VisitingFacts
<1>3. PICK b \in Decs(solution) : \E need \in NeedsBy(b) : Visited = ClauseFor(b, need)
  BY <1>1, <1>2, WhoIsVisited
<1>4. PICK need \in NeedsBy(b) : Visited = ClauseFor(b, need)
  BY <1>3
<1>5. /\ \A k : ~Covered(solution, need, k)
      /\ need[2].parses => TermStatus(Term(need[1], need[2].range, FALSE)) = "satisfied"
  BY <1>1, <1>4, VisitNeed
<1>6. b.level = decisionLevel
  BY <1>1, <1>5 DEF CoveredAll, Pending
<1> DEFINE t == Term(b.package, RangeOf(b.package, b.version), TRUE)
<1>7. t \in ClauseFor(b, need) /\ TermHolds(t, b.version) /\ t.package = b.package
  BY <1>1, NeedStatus
<1>8. b \in Culprits(Visited)
  BY <1>4, <1>7 DEF Culprits, Decs
<1> QED BY <1>4, <1>5, <1>6, <1>8

(* The culprit is the last decision: the version visited holds, and what    *)
(* was decided before it has its requirements covered.                      *)
LEMMA LastIsCulprit ==
  ASSUME Types, Advancing, Learn
  PROVE  \E c \in Culprits(Visited) :
           /\ c.level > 0 /\ c.level = decisionLevel /\ c \in Decs(solution)
           /\ forbidden' = forbidden \cup {<<c.package, c.version>>}
           /\ incompat' = Append(incompat, {Term(c.package, Exact(c.version), TRUE)})
           /\ solution' = BackTo(c.level - 1)
           /\ decisionLevel' = c.level - 1
           /\ changed' = {c.package}
<1>1. PICK c \in Culprits(Visited) :
       /\ c.level > 0
       /\ \A a \in Culprits(Visited) : a.level <= c.level
       /\ forbidden' = forbidden \cup {<<c.package, c.version>>}
       /\ incompat' = Append(incompat, {Term(c.package, Exact(c.version), TRUE)})
       /\ solution' = BackTo(c.level - 1)
       /\ decisionLevel' = c.level - 1
       /\ changed' = {c.package}
  BY DEF Learn
<1>2. c \in Decs(solution)
  BY DEF Culprits, Decs
<1>3. c.level \in Nat /\ c.level <= decisionLevel /\ decisionLevel \in Nat
  BY <1>2, DecisionFacts DEF Advancing, Types
<1>4. \E b \in Culprits(Visited) : b.level = decisionLevel
  <2>1. Visiting /\ IsSatisfied(Visited)
    BY DEF Learn
  <2> QED BY <2>1, SatisfiedNeed
<1>5. c.level = decisionLevel
  BY <1>1, <1>3, <1>4
<1> QED BY <1>1, <1>2, <1>5

(* A conflict is with the version decided last, so one step back is taken   *)
(* (onConflict).                                                            *)
LEMMA LearnBacktracks ==
  ASSUME Types, Advancing, Learn
  PROVE  Types' /\ Backtracked'
<1>0. /\ Visiting /\ IsSatisfied(Visited) /\ visit' = {} /\ phase' = "decide"
      /\ UNCHANGED <<request, turns>>
  BY DEF Learn
<1>1. PICK c \in Culprits(Visited) :
       /\ c.level > 0 /\ c.level = decisionLevel /\ c \in Decs(solution)
       /\ forbidden' = forbidden \cup {<<c.package, c.version>>}
       /\ incompat' = Append(incompat, {Term(c.package, Exact(c.version), TRUE)})
       /\ solution' = BackTo(c.level - 1)
       /\ decisionLevel' = c.level - 1
       /\ changed' = {c.package}
  BY LastIsCulprit
<1>2. ASolution /\ decisionLevel \in Nat /\ \A a \in solution : a.level \in Nat
  BY ShapeFacts DEF Advancing, ASolution, Types
<1>3. c \in Decs(solution)
  BY <1>1
<1>4. c.level = decisionLevel
  BY <1>1
<1> DEFINE q == c.package
           v == c.version
<1>s. PICK l, s : l = decisionLevel - 1 /\ s = Until(solution, l)
  OBVIOUS
<1>5. /\ q \in Packages /\ v \in Version /\ v \in Known(q) /\ q # Root
      /\ \A b \in Decs(solution) : b.package = q => b = c
      /\ \A b \in Decs(solution) : b.level = decisionLevel => b = c
      /\ \A a \in Decs(solution) : a.level <= decisionLevel
      /\ Standing(c)
  <2>1. /\ v \in Version /\ q # Root /\ q \in Packages /\ v \in Known(q)
        /\ \A b \in Decs(solution) : b.package = q => b = c
        /\ \A b \in Decs(solution) : b.level = decisionLevel => b = c
    <3>1. /\ c.version \in Version /\ c.level \in Nat
          /\ c.package = Root <=> c.level = 0
          /\ c.package # Root => c.package \in Packages /\ c.version \in Known(c.package)
          /\ \A b \in Decs(solution) : b.package = c.package => b = c
          /\ \A b \in Decs(solution) : b.level = c.level => b = c
      BY <1>2, <1>3, DecisionFacts
    <3> QED BY <1>1, <1>4, <3>1
  <2>2. \A a \in Decs(solution) : a.level <= decisionLevel
    BY <1>2, DecisionFacts
  <2>3. Standing(c)
    BY <1>2, <1>3 DEF ASolution, DecisionsStand
  <2> QED BY <2>1, <2>2, <2>3
<1>6. /\ forbidden' = forbidden \cup {<<q, v>>} /\ incompat' = Append(incompat, Ban(<<q, v>>))
      /\ solution' = s /\ decisionLevel' = l /\ changed' = {q} /\ l \in Nat
  <2>1. c.level - 1 = l /\ l \in Nat
    BY <1>1, <1>2, <1>4, <1>s
  <2>2. BackTo(c.level - 1) = s
    BY <2>1, <1>s DEF BackTo, Until
  <2>3. Ban(<<q, v>>) = {Term(c.package, Exact(c.version), TRUE)}
    BY DEF Ban
  <2> QED BY <1>1, <2>1, <2>2, <2>3
<1>7. Decs(s) = Decs(solution) \ {c}
  <2>1. \A a \in Decs(solution) : a.level <= l <=> a # c
    BY <1>2, <1>4, <1>5, <1>s DEF Decs
  <2> QED BY <2>1, <1>s DEF Until, Decs
<1>8. s \subseteq solution /\ \A a \in s : a.level \in 0..l
  BY <1>2, <1>6, <1>s DEF Until
<1>8a. \A a \in Decs(solution) : a # c => a \in Decs(s)
  BY <1>7
<1> HIDE DEF q, v
<1>9. Ban(<<q, v>>) \in Incompatibility
  <2>1. Exact(v) \in NpmRange /\ q \in Owner
    BY <1>5, OwnRanges DEF Owner
  <2> QED BY <2>1, TermType DEF Ban, Incompatibility
<1>10. /\ incompat \in Seq(Incompatibility) /\ incompat' \in Seq(Incompatibility)
       /\ \A x : Has(incompat', x) <=> Has(incompat, x) \/ x = Ban(<<q, v>>)
  BY <1>6, <1>9, HasAppend DEF Types
<1>11. Types'
  <2>1. IsFiniteSet(solution')
    BY <1>6, <1>8, FS_Subset DEF Types
  <2>2. changed' \subseteq Owner /\ forbidden' \subseteq Packages \X Version
    BY <1>5, <1>6 DEF Types, Owner
  <2> QED BY <1>0, <1>6, <1>10, <2>1, <2>2 DEF Types
<1>12. \A p : VersionsOf(p)' = VersionsOf(p) /\ Known(p)' = Known(p)
  BY <1>0, RequestKept
<1>13. \A p, w : NeedsOf(p, w)' = NeedsOf(p, w)
  BY <1>0, RequestKept
<1>14. ASolution'
  <2>1. Shapes'
    BY <1>2, <1>6, <1>8 DEF ASolution, Shapes, IsDec, IsDer
  <2>2. RootIsDecided'
    <3>1. PICK a \in Decs(solution) : a.package = Root /\ a.level = 0
      BY <1>2 DEF ASolution, RootIsDecided
    <3>2. a \in Decs(s)
      BY <1>5, <1>8a, <3>1 DEF q
    <3> QED BY <1>6, <3>1, <3>2 DEF RootIsDecided
  <2>3. OneEach'
    BY <1>2, <1>6, <1>7 DEF ASolution, OneEach
  <2>4. EveryLevel'
    <3> SUFFICES ASSUME NEW k \in 1..l PROVE \E a \in Decs(s) : a.level = k
      BY <1>6 DEF EveryLevel
    <3>1. k \in 1..decisionLevel /\ k # decisionLevel
      BY <1>2, <1>s
    <3>2. PICK a \in Decs(solution) : a.level = k
      BY <1>2, <3>1 DEF ASolution, EveryLevel
    <3> QED BY <1>4, <1>8a, <3>1, <3>2
  <2>5. DecisionsStand'
    <3> SUFFICES ASSUME NEW a \in Decs(s) PROVE Standing(a)'
      BY <1>6 DEF DecisionsStand
    <3>1. a \in Decs(solution) /\ a.package # q /\ Standing(a) /\ a.level \in Nat /\ a.level <= l
      BY <1>2, <1>3, <1>5, <1>7, <1>8 DEF ASolution, DecisionsStand, OneEach, q, Decs
    <3>2. Ders(s, a.package) \subseteq Ders(solution, a.package)
      BY <1>8 DEF Ders
    <3>3. a.package # Root => Ders(s, a.package) # {}
      <4> SUFFICES ASSUME a.package # Root PROVE Ders(s, a.package) # {}
        OBVIOUS
      <4>1. PICK d \in Ders(solution, a.package) : d.level < a.level
        BY <3>1 DEF Standing
      <4>2. d.level <= l
        BY <3>1, <4>1, <1>2, <1>6 DEF Ders
      <4> QED BY <4>1, <4>2, <1>s DEF Ders, Until
    <3>4. <<a.package, a.version>> \notin forbidden \/ a.package = Root
      BY <3>1 DEF Standing
    <3> QED BY <1>6, <1>12, <3>1, <3>2, <3>3, <3>4 DEF Standing
  <2>6. Caused'
    <3> SUFFICES ASSUME NEW d \in s, d.kind = "derivation"
                 PROVE  \E b \in Decs(s) : b.level <= d.level /\ CausedBy(d, b)
      BY <1>6, <1>13 DEF Caused, CausedBy, NeedsBy
    <3>1. d \in solution /\ d.level \in Nat /\ d.level <= l
      BY <1>8, <1>6
    <3>2. PICK b \in Decs(solution) : b.level <= d.level /\ CausedBy(d, b)
      BY <1>2, <3>1 DEF ASolution, Caused
    <3>3. b # c
      BY <1>2, <1>4, <3>1, <3>2, <1>s
    <3> QED BY <1>8a, <3>2, <3>3
  <2> QED BY <2>1, <2>2, <2>3, <2>4, <2>5, <2>6 DEF ASolution
<1>15. Forms' /\ \A x : Has(incompat, x) => Has(incompat', x)
  <2> DEFINE new == <<Ban(<<q, v>>)>>
  <2>1. \A x : Has(new, x) <=> x = Ban(<<q, v>>)
    BY DEF Has
  <2>2. \A x : Has(incompat', x) <=> Has(incompat, x) \/ Has(new, x)
    BY <1>10, <2>1
  <2>3. \A x : Has(new, x) => Form(x)'
    BY <1>6, <2>1 DEF Form
  <2>4. forbidden \subseteq forbidden'
    BY <1>6
  <2> HIDE DEF new
  <2> QED BY <1>0, <1>10, <2>2, <2>3, <2>4, IncompatsGrow DEF Advancing
<1>16. Present'
  BY <1>6, <1>7, <1>13, <1>15 DEF Advancing, Present, NeedsBy
<1>17. AllCovered'
  <2> SUFFICES ASSUME NEW b \in Decs(s), NEW need \in NeedsBy(b)
               PROVE  Covered(s, need, b.level)
    BY <1>6, <1>13 DEF AllCovered, NeedsBy
  <2>1. b \in Decs(solution) /\ b.level \in Nat /\ b.level <= l /\ b.level # decisionLevel
    BY <1>2, <1>5, <1>6, <1>7, <1>8, <1>s DEF Decs
  <2>2. Covered(solution, need, b.level)
    BY <2>1 DEF Advancing, CoveredAll, Pending
  <2>3. Until(s, b.level) = Until(solution, b.level)
    BY <1>2, <1>6, <2>1, <1>s DEF Until
  <2>4. \A a \in Decs(solution) : a.level <= b.level => a \in Decs(s)
    BY <1>2, <1>6, <2>1, <1>s DEF Decs, Until
  <2> QED BY <2>2, <2>3, <2>4 DEF Covered
<1>18. q \in OpenIn(s)
  <2>1. Ders(s, q) # {}
    <3>1. PICK d \in Ders(solution, q) : d.level < decisionLevel
      BY <1>4, <1>5 DEF Standing, q
    <3>2. d.level <= l
      BY <1>2, <3>1, <1>s DEF Ders
    <3> QED BY <3>1, <3>2, <1>s DEF Ders, Until
  <2> QED BY <1>5, <1>7, <2>1 DEF OpenIn
<1>19. ParentsDecided({q})'
  <2> SUFFICES ASSUME NEW i \in DOMAIN incompat', NEW t \in incompat'[i], t.isPositive
               PROVE  t.package = q \/ \E a \in Decs(s) : a.package = t.package
    BY <1>6 DEF ParentsDecided
  <2>1. Has(incompat, incompat'[i]) \/ incompat'[i] = Ban(<<q, v>>)
    BY <1>10 DEF Has
  <2>2. CASE incompat'[i] = Ban(<<q, v>>)
    BY <2>2 DEF Ban, Term
  <2>3. CASE Has(incompat, incompat'[i])
    <3>1. PICK j \in DOMAIN incompat : incompat[j] = incompat'[i]
      BY <2>3 DEF Has
    <3>2. PICK a \in Decs(solution) : a.package = t.package
      BY <3>1 DEF Advancing, ParentsDecided
    <3> QED BY <1>8a, <3>2 DEF q
  <2> QED BY <2>1, <2>2, <2>3
<1>20. Fewer(q)'
  <2>1. \A p : ViableIn(s, p)' = {w \in Known(p) : /\ <<p, w>> \notin forbidden \cup {<<q, v>>}
                                                /\ \A d \in Ders(s, p) : Satisfies(d.term.range, w)}
    BY <1>6, <1>12 DEF ViableIn
  <2>2. ViableIn(s, q)' = ViableIn(s, q) \ {v}
    BY <2>1 DEF ViableIn
  <2>3. \A p : p # q => ViableIn(s, p)' = ViableIn(s, p)
    BY <2>1 DEF ViableIn
  <2>4. v \in ViableIn(s, q)
    <3>1. /\ <<q, v>> \notin forbidden
          /\ \A d \in Ders(solution, q) : Satisfies(d.term.range, v)
      BY <1>5 DEF Standing, q, v
    <3> QED BY <1>5, <1>8, <3>1 DEF ViableIn, Ders
  <2>5. \A p : IsFiniteSet(ViableIn(s, p)) /\ Cardinality(ViableIn(s, p)) \in Nat
    <3> SUFFICES ASSUME NEW p PROVE IsFiniteSet(ViableIn(s, p)) /\ Cardinality(ViableIn(s, p)) \in Nat
      OBVIOUS
    <3>1. ViableIn(s, p) \in SUBSET Known(p) /\ IsFiniteSet(Known(p))
      BY KnownType DEF ViableIn, Types
    <3> QED BY <3>1, FS_Subset, FS_CardinalityType
  <2>6. Cardinality(ViableIn(s, q) \ {v}) = Cardinality(ViableIn(s, q)) - 1
    BY <2>4, <2>5, FS_RemoveElement
  <2>7. \A r \in OpenIn(s) : Cardinality(ViableIn(s, q)) <= Cardinality(ViableIn(s, r))
    BY <1>3, <1>4, <1>5, <1>s DEF Advancing, PickedLast, FewestOf, q
  <2> SUFFICES ASSUME NEW r \in OpenIn(s), r # q
               PROVE  Cardinality(ViableIn(s, q)') < Cardinality(ViableIn(s, r)')
    BY <1>6 DEF Fewer, OpenIn
  <2> QED BY <2>2, <2>3, <2>5, <2>6, <2>7
<1>21. q \in OpenIn(solution')
  BY <1>6, <1>18
<1>22. Backtracked'
  BY <1>0, <1>6, <1>14, <1>15, <1>16, <1>17, <1>19, <1>20, <1>21 DEF Backtracked, OpenIn
<1> QED BY <1>11, <1>22
--------------------------------------------------------------------------------
(* The outcome has the version of every decision but that of the root.      *)
LEMMA OutcomeFacts ==
  ASSUME Types, ASolution
  PROVE  /\ \A a \in Decs(solution) : a.package # Root =>
              a.package \in DOMAIN Outcome /\ Outcome[a.package] = a.version
         /\ \A p \in DOMAIN Outcome : \E a \in Decs(solution) :
              a.package = p /\ a.package # Root /\ Outcome[p] = a.version
<1>1. Chosen = {a \in Decs(solution) : a.package # Root}
  BY DEF Chosen, Decs
<1>2. ASSUME NEW a \in Chosen
      PROVE  a.package \in DOMAIN Outcome /\ Outcome[a.package] = a.version
  <2>1. \A b \in Chosen : b.package = a.package => b = a
    BY <1>1, DecisionFacts
  <2>2. (CHOOSE b \in Chosen : b.package = a.package) = a
    BY <2>1
  <2> QED BY <2>2 DEF Outcome
<1>3. \A p \in DOMAIN Outcome : \E a \in Chosen : a.package = p
  BY DEF Outcome
<1> QED BY <1>1, <1>2, <1>3

(* With nothing left to decide, what covers a requirement is a decision     *)
(* that meets it.                                                           *)
LEMMA CoveredIsMet ==
  ASSUME Types, ASolution, AllCovered, OpenIn(solution) = {},
         NEW b \in Decs(solution), NEW need \in NeedsBy(b)
  PROVE  /\ need[2].parses
         /\ need[1] \in DOMAIN Outcome
         /\ Satisfies(need[2].range, Outcome[need[1]])
<1>1. Covered(solution, need, b.level)
  BY DEF AllCovered
<1>2. need[1] \in Packages /\ need[2].range \in NpmRange
  BY NeedStatus
<1>3. \E a \in Decs(solution) : a.package = need[1] /\ Satisfies(need[2].range, a.version)
  <2>1. CASE \E a \in Decs(solution) : a.package = need[1] /\ Satisfies(need[2].range, a.version)
    BY <2>1
  <2>2. CASE /\ Ders(Until(solution, b.level), need[1]) # {}
             /\ Allowed(Until(solution, b.level), need[1]) \subseteq Points(need[2].range)
    <3>1. Ders(solution, need[1]) # {}
      BY <2>2 DEF Ders, Until
    <3>2. PICK a \in Decs(solution) : a.package = need[1]
      BY <1>2, <3>1 DEF OpenIn
    <3>3. a.version \in Version /\ <<a.version, 0>> \in Allowed(Until(solution, b.level), need[1])
      BY <3>2, DecisionFacts DEF Until
    <3> QED BY <1>2, <2>2, <3>2, <3>3, SatisfiesIsPoint
  <2> QED BY <1>1, <2>1, <2>2 DEF Covered
<1>4. PICK a \in Decs(solution) : a.package = need[1] /\ Satisfies(need[2].range, a.version)
  BY <1>3
<1>5. a.package # Root
  BY <1>2, <1>4, NamesAreNumbers
<1> QED BY <1>1, <1>4, <1>5, OutcomeFacts DEF Covered

(* The least of a set of packages to be decided was asked for by a package  *)
(* outside of the set.                                                      *)
LEMMA AskedFromOutside ==
  ASSUME Types, ASolution, NEW S \in (SUBSET DOMAIN Outcome) \ {{}}
  PROVE  \E b \in Decs(solution) : b.package \notin S /\ \E need \in NeedsBy(b) : need[1] \in S
<1>1. decisionLevel \in Nat /\ Shapes /\ Caused
  BY DEF Types, ASolution
<1> DEFINE K == {k \in 0..decisionLevel : \E a \in Decs(solution) : a.level = k /\ a.package \in S}
<1>2. PICK p \in S : p \in DOMAIN Outcome
  OBVIOUS
<1>3. PICK a \in Decs(solution) : a.package = p
  BY <1>2, OutcomeFacts
<1>4. a.level \in K
  <2>1. a.level \in Nat /\ a.level <= decisionLevel
    BY <1>3, DecisionFacts
  <2>2. a.level \in 0..decisionLevel
    BY <1>1, <2>1
  <2> QED BY <1>2, <1>3, <2>2
<1>5. IsFiniteSet(K) /\ K \subseteq Int
  <2>1. IsFiniteSet(0..decisionLevel) /\ K \in SUBSET (0..decisionLevel)
    BY <1>1, FS_Interval
  <2>2. K \subseteq Int
    BY <1>1
  <2> HIDE DEF K
  <2> QED BY <2>1, <2>2, FS_Subset
<1> DEFINE m == Min(K)
<1>6. m \in K /\ \A k \in K : m <= k
  <2> HIDE DEF K
  <2> QED BY <1>4, <1>5, MaxMinFacts
<1> HIDE DEF m
<1>7. PICK c \in Decs(solution) : c.level = m /\ c.package \in S
  BY <1>6
<1>8. c.package # Root
  BY <1>7, OutcomeFacts
<1>9. PICK d \in Ders(solution, c.package) : d.level < c.level
  BY <1>8 DEF ASolution, DecisionsStand, Standing
<1>10. PICK b \in Decs(solution) : b.level <= d.level /\ CausedBy(d, b)
  BY <1>1, <1>9 DEF Caused, Ders
<1>11. b.package \notin S
  <2>1. b.level \in Nat /\ b.level <= decisionLevel /\ d.level \in Nat /\ m \in Nat
    BY <1>1, <1>6, <1>9, DecisionFacts, ShapeFacts DEF Ders
  <2>2. b.level < m
    BY <1>7, <1>9, <1>10, <2>1
  <2>3. b.package \in S => b.level \in K
    BY <2>1, <1>1
  <2> HIDE DEF K
  <2> QED BY <1>6, <2>1, <2>2, <2>3
<1>12. \E need \in NeedsBy(b) : need[1] \in S
  BY <1>7, <1>9, <1>10 DEF CausedBy, Ders
<1> QED BY <1>11, <1>12

(* When every requirement is covered and no package is undecided, the       *)
(* versions decided are a solution.                                         *)
LEMMA OutcomeIsSolution ==
  ASSUME Types, ASolution, AllCovered, OpenIn(solution) = {}
  PROVE  IsSolution(Outcome)
<1>1. PICK r \in Decs(solution) : r.package = Root /\ r.level = 0
  BY DEF ASolution, RootIsDecided
<1>2. NeedsBy(r) = RequiredByRoot
  BY <1>1 DEF NeedsBy, NeedsOf
<1>3. \A b \in Decs(solution) : b.package # Root => NeedsBy(b) = Required(b.package, Outcome[b.package])
  BY OutcomeFacts DEF NeedsBy, NeedsOf
<1> DEFINE Met(need) == /\ need[2].parses
                        /\ need[1] \in DOMAIN Outcome
                        /\ Satisfies(need[2].range, Outcome[need[1]])
<1>4. \A b \in Decs(solution) : \A need \in NeedsBy(b) : Met(need)
  BY CoveredIsMet
<1>5. \A p \in DOMAIN Outcome : \E b \in Decs(solution) : b.package = p /\ b.package # Root /\ b.version = Outcome[p]
  BY OutcomeFacts
<1> HIDE DEF Met
<1>6. \A p \in DOMAIN Outcome : Outcome[p] \in Known(p)
  BY <1>5, DecisionFacts
<1>7. \A need \in RequiredByRoot : Met(need)
  BY <1>2, <1>4
<1>8. \A p \in DOMAIN Outcome : \A need \in Required(p, Outcome[p]) : Met(need)
  BY <1>3, <1>4, <1>5
<1>9. ASSUME NEW S \in (SUBSET DOMAIN Outcome) \ {{}}
      PROVE  \E need \in RequiredByRoot \cup UNION {Required(p, Outcome[p]) : p \in DOMAIN Outcome \ S} : need[1] \in S
  <2>1. PICK b \in Decs(solution) : b.package \notin S /\ \E need \in NeedsBy(b) : need[1] \in S
    BY AskedFromOutside
  <2>2. PICK need \in NeedsBy(b) : need[1] \in S
    BY <2>1
  <2>3. CASE b.package = Root
    BY <2>2, <2>3 DEF NeedsBy, NeedsOf
  <2>4. CASE b.package # Root
    <3>1. b.package \in DOMAIN Outcome \ S
      BY <2>1, <2>4, OutcomeFacts
    <3>2. need \in Required(b.package, Outcome[b.package])
      BY <1>3, <2>2, <2>4
    <3> QED BY <2>2, <3>1, <3>2
  <2> QED BY <2>3, <2>4
<1> QED BY <1>6, <1>7, <1>8, <1>9 DEF IsSolution, Met

(* A solution stays one while the assignments stay.                         *)
LEMMA OutcomeKept ==
  ASSUME request' = request, solution' = solution, IsSolution(Outcome)
  PROVE  IsSolution(Outcome)'
<1>1. Outcome' = Outcome
  BY DEF Outcome, Chosen
<1>2. /\ \A p : Known(p)' = Known(p)
      /\ \A p, v : Required(p, v)' = Required(p, v)
      /\ RequiredByRoot' = RequiredByRoot
  BY RequestKept
<1> QED BY <1>1, <1>2 DEF IsSolution
--------------------------------------------------------------------------------
(* Between propagation and a decision every requirement is covered, and     *)
(* only the package about to be decided can be a parent that is not.        *)
Ready(p) ==
  /\ ASolution /\ Forms /\ Present /\ AllCovered /\ ParentsDecided({p})
  /\ changed \subseteq {p} /\ visit = {}

(* Propagation ends ready for a decision.                                   *)
LEMMA AdvancingIsReady ==
  ASSUME Advancing, phase = "decide", NEW p
  PROVE  Ready(p)
<1>1. AllCovered
  BY DEF Advancing, CoveredAll, Pending, AllCovered
<1>2. ParentsDecided({p})
  BY DEF Advancing, ParentsDecided
<1> QED BY <1>1, <1>2 DEF Ready, Advancing, Rested

(* Viable versions can be counted.                                          *)
LEMMA CountsAreNumbers ==
  ASSUME request \in Requests, NEW s, NEW p
  PROVE  IsFiniteSet(ViableIn(s, p)) /\ Cardinality(ViableIn(s, p)) \in Nat
<1>1. ViableIn(s, p) \in SUBSET Known(p) /\ IsFiniteSet(Known(p))
  BY KnownType DEF ViableIn
<1> QED BY <1>1, FS_Subset, FS_CardinalityType

(* After a step back the package whose version was given up is picked       *)
(* again: it had the fewest viable versions, and now has fewer.             *)
LEMMA BacktrackedIsReady ==
  ASSUME Types, Backtracked
  PROVE  Ready(Pick) /\ Undecided # {}
<1>0. request \in Requests /\ ASolution /\ Shapes
  BY DEF Types, Backtracked, ASolution
<1>1. PICK q \in OpenIn(solution) : changed = {q} /\ ParentsDecided({q}) /\ Fewer(q)
  BY DEF Backtracked
<1>2. Undecided = OpenIn(solution) /\ \A p : Viable(p) = ViableIn(solution, p)
  BY <1>0, UndecidedFacts
<1>3. Pick \in OpenIn(solution) /\ Cardinality(ViableIn(solution, Pick)) <= Cardinality(ViableIn(solution, q))
  BY <1>0, <1>1, <1>2, PickFacts
<1>4. Cardinality(ViableIn(solution, Pick)) \in Nat /\ Cardinality(ViableIn(solution, q)) \in Nat
  BY <1>0, CountsAreNumbers
<1> DEFINE x == Cardinality(ViableIn(solution, Pick))
           y == Cardinality(ViableIn(solution, q))
<1>5. Pick # q => y < x
  BY <1>1, <1>3 DEF Fewer
<1>6. Pick = q
  <2> HIDE DEF x, y
  <2>1. x <= y /\ x \in Nat /\ y \in Nat
    BY <1>3, <1>4 DEF x, y
  <2> QED BY <1>5, <2>1
<1> QED BY <1>1, <1>2, <1>6 DEF Ready, Backtracked

(* A decision adds its requirements, to be visited next (makeDecision).     *)
LEMMA DecideAdvances ==
  ASSUME Types, Ready(Pick), Decide
  PROVE  Types' /\ (phase' \in {"propagate", "decide"} => Advancing')
<1>0. /\ phase = "decide" /\ UNCHANGED <<request, visit, forbidden>>
      /\ decisionLevel' = decisionLevel + 1
      /\ request \in Requests /\ decisionLevel \in Nat /\ visit = {}
  BY DEF Decide, Deciding, Types, Ready
<1>1. PICK p \in Undecided, v \in Version :
       /\ p = Pick /\ Viable(p) # {} /\ v = Choice(p)
       /\ solution' = solution \cup {Decision(p, v, decisionLevel + 1)}
       /\ IF DOMAIN DependenciesOf(p, v).optionalDependencies \cap request.unreachable # {}
          THEN phase' = "error" /\ UNCHANGED <<incompat, changed, turns>>
          ELSE /\ NextTurn
               /\ incompat' = incompat \o Demands(p, v)
               /\ changed' = changed \cup {p}
  BY DEF Decide
<1>s. PICK l, a : l = decisionLevel + 1 /\ a = Decision(p, v, l)
  OBVIOUS
<1>2. /\ a.package = p /\ a.kind = "decision" /\ a.version = v /\ a.level = l
      /\ l \in Nat /\ l > decisionLevel
      /\ solution' = solution \cup {a} /\ decisionLevel' = l
  BY <1>0, <1>1, <1>s DEF Decision
<1>3. ASolution /\ Shapes /\ \A d \in solution : d.level \in Nat /\ d.level <= decisionLevel
  BY <1>0, ShapeFacts DEF Ready, ASolution
<1>4. /\ Undecided = OpenIn(solution)
      /\ \A q : Viable(q) = ViableIn(solution, q)
  BY <1>3, UndecidedFacts
<1>5. p \in Packages /\ p # Root /\ p \in Owner /\ \A b \in Decs(solution) : b.package # p
  BY <1>1, <1>4, NamesAreNumbers DEF OpenIn, Owner
<1>6. /\ v \in ViableIn(solution, p) /\ v \in Known(p) /\ v \in VersionsOf(p)
      /\ <<p, v>> \notin forbidden
      /\ Ders(solution, p) # {}
      /\ \A d \in Ders(solution, p) : Satisfies(d.term.range, v)
  BY <1>0, <1>1, <1>4, <1>5, ChoiceFacts DEF ViableIn, OpenIn, VersionsOf
<1>7. /\ Decs(solution') = Decs(solution) \cup {a}
      /\ \A q : Ders(solution', q) = Ders(solution, q)
  BY <1>2 DEF Decs, Ders
<1>8. /\ incompat \in Seq(Incompatibility)
      /\ Demands(p, v) \in Seq(Incompatibility)
      /\ \A x : Has(Demands(p, v), x) <=> \E need \in NeedsOf(p, v) : x = ClauseOf(p, v, need)
  BY <1>0, <1>5, <1>6, DemandsFacts DEF Types
<1>9. /\ incompat \o Demands(p, v) \in Seq(Incompatibility)
      /\ \A x : Has(incompat \o Demands(p, v), x) <=> Has(incompat, x) \/ Has(Demands(p, v), x)
  BY <1>8, HasConcat
<1>10. \/ phase' = "error" /\ incompat' = incompat /\ changed' = changed /\ turns' = turns
       \/ /\ incompat' = incompat \o Demands(p, v) /\ changed' = changed \cup {p}
          /\ \/ phase' = "propagate" /\ turns' = turns + 1
             \/ phase' = "failed" /\ turns' = turns
  BY <1>1 DEF NextTurn
<1>11. Types'
  <2>1. IsFiniteSet(solution')
    BY <1>2, FS_AddElement DEF Types
  <2>2. changed' \subseteq Owner /\ incompat' \in Seq(Incompatibility) /\ turns' \in Nat
    <3>1. turns \in Nat /\ changed \subseteq Owner
      BY DEF Types
    <3>2. CASE incompat' = incompat /\ changed' = changed /\ turns' = turns
      BY <1>8, <3>1, <3>2
    <3>3. CASE /\ incompat' = incompat \o Demands(p, v) /\ changed' = changed \cup {p}
               /\ turns' = turns + 1 \/ turns' = turns
      BY <1>5, <1>9, <3>1, <3>3
    <3> QED BY <1>10, <3>2, <3>3
  <2>3. phase' \in {"propagate", "decide", "solved", "failed", "error"}
    BY <1>10
  <2> QED BY <1>0, <1>2, <2>1, <2>2, <2>3 DEF Types
<1>12. SUFFICES ASSUME phase' \in {"propagate", "decide"}
                PROVE  Advancing'
  BY <1>11
<1>13. phase' = "propagate" /\ incompat' = incompat \o Demands(p, v) /\ changed' = changed \cup {p}
  BY <1>10, <1>12
<1>14. \A q : VersionsOf(q)' = VersionsOf(q) /\ Known(q)' = Known(q)
  BY <1>0, RequestKept
<1>15. \A q, w : NeedsOf(q, w)' = NeedsOf(q, w)
  BY <1>0, RequestKept
<1>16. ASolution'
  <2>1. Shapes'
    <3>1. a.level \in 0..l /\ IsDec(a)
      BY <1>1, <1>2, <1>5 DEF IsDec
    <3> QED BY <1>0, <1>2, <1>3, <3>1 DEF Shapes, IsDec, IsDer
  <2>2. RootIsDecided'
    BY <1>3, <1>7 DEF ASolution, RootIsDecided
  <2>3. OneEach'
    <3>1. \A b \in Decs(solution) : b.package # p /\ b.level # l
      BY <1>0, <1>2, <1>3, <1>5 DEF Decs
    <3> QED BY <1>2, <1>3, <1>7, <3>1 DEF ASolution, OneEach
  <2>4. EveryLevel'
    <3> SUFFICES ASSUME NEW k \in 1..l PROVE \E b \in Decs(solution') : b.level = k
      BY <1>2 DEF EveryLevel
    <3>1. k = l \/ k \in 1..decisionLevel
      BY <1>0, <1>s
    <3> QED BY <1>2, <1>3, <1>7, <3>1 DEF ASolution, EveryLevel
  <2>5. DecisionsStand'
    <3>1. \A d \in Ders(solution, p) : d.level < l
      BY <1>0, <1>2, <1>3 DEF Ders
    <3>2. Standing(a)'
      <4>1. l > 0
        BY <1>0, <1>s
      <4>2. v \in VersionsOf(p)' /\ <<p, v>> \notin forbidden'
        BY <1>0, <1>6, <1>14
      <4>3. /\ Ders(solution', p) # {}
            /\ \A d \in Ders(solution', p) : d.level < l /\ Satisfies(d.term.range, v)
        BY <1>6, <1>7, <3>1
      <4> QED BY <1>2, <4>1, <4>2, <4>3 DEF Standing
    <3>3. \A b \in Decs(solution) : Standing(b)'
      <4> SUFFICES ASSUME NEW b \in Decs(solution) PROVE Standing(b)'
        OBVIOUS
      <4>1. Standing(b)
        BY <1>3 DEF ASolution, DecisionsStand
      <4> QED BY <4>1, <1>0, <1>7, <1>14 DEF Standing
    <3> QED BY <1>7, <3>2, <3>3 DEF DecisionsStand
  <2>6. Caused'
    <3> SUFFICES ASSUME NEW d \in solution, d.kind = "derivation"
                 PROVE  \E b \in Decs(solution') : b.level <= d.level /\ CausedBy(d, b)
      BY <1>2, <1>15 DEF Caused, CausedBy, NeedsBy
    <3> QED BY <1>3, <1>7 DEF ASolution, Caused
  <2> QED BY <2>1, <2>2, <2>3, <2>4, <2>5, <2>6 DEF ASolution
<1>17. Forms' /\ \A x : Has(incompat, x) => Has(incompat', x)
  <2> DEFINE new == Demands(p, v)
  <2>1. \A x : Has(incompat', x) <=> Has(incompat, x) \/ Has(new, x)
    BY <1>9, <1>13
  <2>2. \A x : Has(new, x) => Form(x)'
    BY <1>5, <1>6, <1>8, <1>14, <1>15 DEF Form
  <2>3. incompat' \in Seq(Incompatibility)
    BY <1>9, <1>13
  <2>4. PICK given : given = new
    OBVIOUS
  <2>5. /\ \A x : Has(incompat', x) <=> Has(incompat, x) \/ Has(given, x)
        /\ \A x : Has(given, x) => Form(x)'
    BY <2>1, <2>2, <2>4
  <2> QED BY <1>0, <1>8, <2>3, <2>5, IncompatsGrow DEF Ready
<1>18. Present'
  <2> SUFFICES ASSUME NEW b \in Decs(solution'), NEW need \in NeedsBy(b)
               PROVE  Has(incompat', ClauseFor(b, need))
    BY <1>15 DEF Present, NeedsBy
  <2>1. CASE b = a
    BY <1>2, <1>8, <1>9, <1>13, <2>1 DEF NeedsBy, ClauseFor
  <2>2. CASE b \in Decs(solution)
    BY <1>17, <2>2 DEF Ready, Present
  <2> QED BY <1>7, <2>1, <2>2
<1>19. CoveredAll'
  <2> SUFFICES ASSUME NEW b \in Decs(solution'), NEW need \in NeedsBy(b)
               PROVE  Covered(solution', need, b.level) \/ Pending(b, need)'
    BY <1>15 DEF CoveredAll, NeedsBy
  <2>1. CASE b = a
    BY <1>2, <1>13, <2>1 DEF Pending
  <2>2. CASE b \in Decs(solution)
    <3>1. Covered(solution, need, b.level) /\ b.level \in Nat /\ b.level <= b.level
      BY <1>3, <2>2 DEF Ready, AllCovered, Decs
    <3> QED BY <1>2, <1>3, <3>1, CoveredGrows
  <2> QED BY <1>7, <2>1, <2>2
<1>20. ParentsDecided({})'
  <2> SUFFICES ASSUME NEW i \in DOMAIN incompat', NEW t \in incompat'[i], t.isPositive
               PROVE  \E b \in Decs(solution') : b.package = t.package
    BY DEF ParentsDecided
  <2>1. Has(incompat, incompat'[i]) \/ Has(Demands(p, v), incompat'[i])
    BY <1>9, <1>13 DEF Has
  <2>2. CASE Has(incompat, incompat'[i])
    <3>1. PICK j \in DOMAIN incompat : incompat[j] = incompat'[i]
      BY <2>2 DEF Has
    <3> QED BY <1>1, <1>2, <1>7, <3>1 DEF Ready, ParentsDecided
  <2>3. CASE Has(Demands(p, v), incompat'[i])
    <3>1. PICK need \in NeedsOf(p, v) : incompat'[i] = ClauseOf(p, v, need)
      BY <1>8, <2>3
    <3>2. t = Term(p, RangeOf(p, v), TRUE) \/ t = Term(need[1], need[2].range, FALSE)
      BY <3>1 DEF ClauseOf, DependsOn
    <3>3. t.package = p
      BY <3>2 DEF Term
    <3> QED BY <1>2, <1>7, <3>3
  <2> QED BY <2>1, <2>2, <2>3
<1>21. PickedLast'
  <2>1. PICK s : s = solution
    OBVIOUS
  <2>2. Until(solution', decisionLevel' - 1) = s
    <3>1. decisionLevel' - 1 = decisionLevel
      BY <1>0
    <3>2. Until(solution', decisionLevel) = solution
      BY <1>0, <1>2, <1>3 DEF Until
    <3> QED BY <2>1, <3>1, <3>2
  <2>3. \A q : ViableIn(s, q)' = ViableIn(s, q)
    BY <1>0, <1>14 DEF ViableIn
  <2>4. \A q \in OpenIn(s) : Cardinality(ViableIn(s, p)) <= Cardinality(ViableIn(s, q))
    BY <1>0, <1>1, <1>4, <2>1, PickFacts
  <2>5. \A b \in Decs(solution') : b.level = l => b = a
    BY <1>0, <1>2, <1>3, <1>7 DEF Decs
  <2>6. FewestOf(s, p)'
    BY <2>3, <2>4 DEF FewestOf, OpenIn
  <2> QED BY <1>2, <2>2, <2>5, <2>6 DEF PickedLast
<1>22. Rested'
  BY <1>13 DEF Rested
<1> QED BY <1>16, <1>17, <1>18, <1>19, <1>20, <1>21, <1>22 DEF Advancing
--------------------------------------------------------------------------------
(* Once no version of a package is left the solver cannot recover.          *)
LEMMA NoneViableSticks ==
  ASSUME Types, ASolution, phase = "decide", changed \subseteq {Pick}, NoneViable,
         visit = {}
  PROVE  Types' /\ (phase' \in {"propagate", "decide"} => Stuck')
<1>0. /\ phase = "decide" /\ UNCHANGED <<request, visit, solution, decisionLevel, forbidden>>
      /\ visit = {} /\ ASolution /\ Shapes /\ decisionLevel \in Nat /\ IsFiniteSet(solution)
  BY DEF NoneViable, Deciding, ASolution, Types
<1>1. PICK q \in Undecided :
       /\ q = Pick /\ Viable(q) = {}
       /\ incompat' = Append(incompat, {Term(q, Wanted(q), TRUE)})
       /\ changed' = changed \cup {q}
       /\ NextTurn
  BY DEF NoneViable
<1>2. Undecided = OpenIn(solution) /\ Viable(q) = ViableIn(solution, q)
  BY <1>0, UndecidedFacts
<1>3. q \in Packages /\ q \in Owner /\ changed' = {q}
  BY <1>1, <1>2, NamesAreNumbers DEF OpenIn, Owner
<1>4. {Term(q, Wanted(q), TRUE)} \in Incompatibility
  <2>1. Wanted(q) \in NpmRange
    BY <1>0, DerivedFacts
  <2> QED BY <1>3, <2>1, TermType DEF Incompatibility
<1>5. /\ incompat \in Seq(Incompatibility) /\ incompat' \in Seq(Incompatibility)
      /\ Len(incompat) \in Nat /\ Len(incompat') = Len(incompat) + 1
      /\ DOMAIN incompat' = 1..(Len(incompat) + 1)
      /\ incompat'[Len(incompat) + 1] = {Term(q, Wanted(q), TRUE)}
  <2>1. incompat \in Seq(Incompatibility) /\ Len(incompat) \in Nat
    BY DEF Types
  <2>2. PICK x : x = {Term(q, Wanted(q), TRUE)}
    OBVIOUS
  <2>3. x \in Incompatibility /\ incompat' = Append(incompat, x)
    BY <1>1, <1>4, <2>2
  <2>4. /\ Append(incompat, x) \in Seq(Incompatibility)
        /\ Len(Append(incompat, x)) = Len(incompat) + 1
        /\ DOMAIN Append(incompat, x) = 1..(Len(incompat) + 1)
        /\ Append(incompat, x)[Len(incompat) + 1] = x
    BY <2>1, <2>3, HasAppend
  <2> QED BY <2>1, <2>2, <2>3, <2>4
<1>6. \/ phase' = "propagate" /\ turns' = turns + 1
      \/ phase' = "failed" /\ turns' = turns
  BY <1>1 DEF NextTurn
<1>7. Types'
  <2>1. turns' \in Nat /\ phase' \in {"propagate", "decide", "solved", "failed", "error"}
    BY <1>6 DEF Types
  <2>2. visit' \subseteq DOMAIN incompat'
    BY <1>0
  <2> QED BY <1>0, <1>3, <1>5, <2>1, <2>2 DEF Types
<1>8. ASSUME phase' \in {"propagate", "decide"} PROVE Stuck'
  <2>1. phase' = "propagate"
    BY <1>6, <1>8
  <2>2. ASolution' /\ \A s : ViableIn(s, q)' = ViableIn(s, q)
    BY <1>0, SolutionKept
  <2>3. Pick' = Pick /\ Wanted(q)' = Wanted(q)
    BY <1>0, PickKept
  <2>4. q \in OpenIn(solution') /\ ViableIn(solution, q)' = {}
    BY <1>0, <1>1, <1>2, <2>2
  <2>5. incompat' # <<>> /\ incompat'[Len(incompat')] = {Term(q, Wanted(q)', TRUE)}
    <3>1. Len(incompat') # 0
      BY <1>5
    <3> QED BY <1>5, <2>3, <3>1
  <2>6. Tried(q)'
    BY <1>0, <1>3, <2>1, <2>5 DEF Tried
  <2>7. changed' \subseteq {q} /\ visit' \subseteq IncompatOf(q)'
    BY <1>0, <1>3
  <2>8. Rested'
    BY <2>1 DEF Rested
  <2> QED BY <1>1, <2>2, <2>3, <2>4, <2>6, <2>7, <2>8 DEF Stuck, OpenIn, Allowed
<1> QED BY <1>7, <1>8

(* What is left of a package once nothing is left contradicts whatever      *)
(* mentions it.                                                             *)
LEMMA NothingAllowed ==
  ASSUME Types, ASolution, NEW q \in OpenIn(solution), Allowed(solution, q) = {},
         NEW i \in IncompatOf(q)
  PROVE  ~IsSatisfied(incompat[i]) /\ ~IsAlmostSatisfied(incompat[i])
<1>1. /\ Shapes /\ decisionLevel \in Nat /\ IsFiniteSet(solution)
      /\ incompat \in Seq(Incompatibility)
  BY DEF ASolution, Types
<1>2. i \in DOMAIN incompat /\ incompat[i] \in Incompatibility
  BY <1>1 DEF IncompatOf
<1>3. PICK t \in incompat[i] : t.package = q
  BY DEF IncompatOf, Mentions
<1>4. t \in AnyTerm /\ t.isPositive \in BOOLEAN
  BY <1>2 DEF Incompatibility, AnyTerm
<1>5. Ders(solution, q) # {} /\ \A a \in Decs(solution) : a.package # q
  BY DEF OpenIn
<1>6. TermStatus(t) = "contradicted"
  BY <1>1, <1>3, <1>4, <1>5, OpenStatus
<1> QED BY <1>6, OneContradicted

(* The incompatibility that says so holds, and no decision is to blame.     *)
LEMMA TriedHolds ==
  ASSUME Types, ASolution, NEW q \in OpenIn(solution), Allowed(solution, q) # {},
         NEW inc, inc = {Term(q, Wanted(q), TRUE)}
  PROVE  IsSatisfied(inc) /\ ~IsAlmostSatisfied(inc) /\ Culprits(inc) = {}
<1>1. /\ Shapes /\ decisionLevel \in Nat /\ IsFiniteSet(solution)
  BY DEF ASolution, Types
<1>2. /\ Ders(solution, q) # {} /\ \A a \in Decs(solution) : a.package # q
      /\ q \in Owner
  BY DEF OpenIn, Owner
<1>3. Wanted(q) \in NpmRange /\ Points(Wanted(q)) = Allowed(solution, q)
  BY <1>1, DerivedFacts
<1> DEFINE t == Term(q, Wanted(q), TRUE)
<1>4. t \in AnyTerm /\ t.package = q /\ t.range = Wanted(q) /\ t.isPositive = TRUE
  BY <1>2, <1>3, TermType DEF Term
<1> HIDE DEF t
<1>5. TermStatus(t) = "satisfied"
  BY <1>1, <1>2, <1>3, <1>4, OpenStatus
<1>6. inc = {t}
  BY DEF t
<1>7. IsSatisfied(inc) /\ With(inc, "inconclusive") = {}
  BY <1>5, <1>6 DEF IsSatisfied, With
<1>8. ~IsAlmostSatisfied(inc)
  <2>1. Cardinality({}) = 0
    BY FS_EmptySet
  <2>2. Cardinality(With(inc, "inconclusive")) = 0
    BY <1>7, <2>1
  <2>3. Cardinality(With(inc, "inconclusive")) # 1
    BY <2>2
  <2> QED BY <2>3 DEF IsAlmostSatisfied
<1>9. Culprits(inc) = {}
  BY <1>2, <1>4, <1>6 DEF Culprits, Decs
<1> QED BY <1>7, <1>8, <1>9

(* Nothing is derived and nothing learned from there on.                    *)
LEMMA StuckFacts ==
  ASSUME Types, Stuck
  PROVE  /\ Undecided # {} /\ ViableIn(solution, Pick) = {} /\ Viable(Pick) = {}
         /\ ~Derive /\ ~Learn /\ ~NothingLeft /\ ~Decide
<1>0. ASolution /\ Shapes /\ incompat \in Seq(Incompatibility)
  BY DEF Stuck, ASolution, Types
<1>1. PICK q \in OpenIn(solution) :
       /\ q = Pick /\ ViableIn(solution, q) = {}
       /\ \/ Allowed(solution, q) = {} /\ changed \subseteq {q} /\ visit \subseteq IncompatOf(q)
          \/ Allowed(solution, q) # {} /\ Tried(q)
  BY DEF Stuck
<1>2. Undecided = OpenIn(solution) /\ \A p : Viable(p) = ViableIn(solution, p)
  BY <1>0, UndecidedFacts
<1>3. Undecided # {} /\ ViableIn(solution, Pick) = {} /\ Viable(Pick) = {}
  BY <1>1, <1>2
<1>4. ~NothingLeft /\ ~Decide
  BY <1>3 DEF NothingLeft, Decide
<1>5. CASE visit = {}
  BY <1>3, <1>4, <1>5 DEF Derive, Learn, Visiting
<1>6. CASE visit # {}
  <2>1. Max(visit) \in visit /\ Visited = incompat[Max(visit)] /\ \A i \in visit : i <= Max(visit)
        /\ Max(visit) \in DOMAIN incompat
    BY <1>6, VisitingFacts
  <2>2. CASE Allowed(solution, q) = {} /\ visit \subseteq IncompatOf(q)
    <3>1. ~IsSatisfied(Visited) /\ ~IsAlmostSatisfied(Visited)
      BY <1>0, <2>1, <2>2, NothingAllowed
    <3> QED BY <1>3, <1>4, <3>1 DEF Derive, Learn
  <2>3. CASE Allowed(solution, q) # {} /\ Tried(q)
    <3>1. Len(incompat) \in visit /\ Len(incompat) \in Nat /\ DOMAIN incompat = 1..Len(incompat)
      BY <1>0, <1>6, <2>3 DEF Tried
    <3>2. Max(visit) = Len(incompat)
      BY <2>1, <3>1
    <3>3. Visited = {Term(q, Wanted(q), TRUE)}
      BY <2>1, <2>3, <3>2 DEF Tried
    <3>4. ~IsAlmostSatisfied(Visited) /\ Culprits(Visited) = {}
      BY <1>0, <2>3, <3>3, TriedHolds
    <3> QED BY <1>3, <1>4, <3>4 DEF Derive, Learn
  <2> QED BY <1>1, <2>2, <2>3
<1> QED BY <1>3, <1>4, <1>5, <1>6

(* The same incompatibility is added again at each further turn.            *)
LEMMA NoneViableStaysStuck ==
  ASSUME Types, Stuck, NoneViable
  PROVE  Types' /\ (phase' \in {"propagate", "decide"} => Stuck')
<1>1. phase = "decide" /\ ASolution /\ changed = {} /\ visit = {}
  BY DEF NoneViable, Deciding, Stuck, Rested
<1> QED BY <1>1, NoneViableSticks

(* Propagation does not help.                                               *)
LEMMA StuckStays ==
  ASSUME Types, Stuck, TakeChanged \/ Propagated \/ PassBy
  PROVE  Types' /\ Stuck'
<1>0. ASolution /\ UNCHANGED <<request, solution, incompat, decisionLevel, forbidden, turns>>
      /\ incompat \in Seq(Incompatibility)
  BY DEF TakeChanged, Propagated, PassBy, Stuck, Types
<1>1. PICK q \in OpenIn(solution) :
       /\ q = Pick /\ ViableIn(solution, q) = {}
       /\ \/ Allowed(solution, q) = {} /\ changed \subseteq {q} /\ visit \subseteq IncompatOf(q)
          \/ Allowed(solution, q) # {} /\ Tried(q)
  BY DEF Stuck
<1>2. ASolution' /\ \A s : ViableIn(s, q)' = ViableIn(s, q)
  BY <1>0, SolutionKept
<1>3. Pick' = Pick /\ Wanted(q)' = Wanted(q) /\ IncompatOf(q)' = IncompatOf(q)
  BY <1>0, PickKept DEF IncompatOf
<1>4. q \in OpenIn(solution') /\ ViableIn(solution, q)' = {} /\ Allowed(solution', q) = Allowed(solution, q)
  BY <1>0, <1>1, <1>2
<1>5. CASE TakeChanged
  <2>1. /\ visit' = IncompatOf(NextChanged) /\ changed' = changed \ {NextChanged}
        /\ phase' = phase /\ phase = "propagate" /\ visit = {} /\ changed # {}
    BY <1>5 DEF TakeChanged
  <2>2. Types'
    BY <1>0, <2>1 DEF Types, IncompatOf
  <2>3. changed = {q}
    BY <1>1, <2>1 DEF Tried
  <2>4. NextChanged = q
    <3>1. q \in Packages
      BY DEF OpenIn
    <3>2. IsFiniteSet({q}) /\ {q} \subseteq Int
      BY <3>1, NamesAreNumbers, FS_Singleton
    <3>3. Min({q}) \in {q}
      BY <3>2, MaxMinFacts
    <3> QED BY <2>3, <3>3 DEF NextChanged
  <2>5. CASE Allowed(solution, q) = {}
    <3>1. changed' \subseteq {q} /\ visit' \subseteq IncompatOf(q)'
      BY <1>3, <2>1, <2>3, <2>4
    <3> QED BY <1>1, <1>2, <1>3, <1>4, <2>1, <2>2, <2>5, <3>1 DEF Stuck, OpenIn, Allowed, Rested
  <2>6. CASE Allowed(solution, q) # {} /\ Tried(q)
    <3> DEFINE n == Len(incompat)
    <3>1. n \in DOMAIN incompat /\ incompat[n] = {Term(q, Wanted(q), TRUE)}
      <4>1. n \in Nat /\ n # 0 /\ DOMAIN incompat = 1..n
        BY <1>0, <2>6, EmptySeq DEF Tried
      <4>2. n \in DOMAIN incompat
        BY <4>1
      <4> QED BY <2>6, <4>2 DEF Tried
    <3>2. Mentions(incompat[n], q)
      BY <3>1 DEF Mentions, Term
    <3>3. n \in visit'
      BY <2>1, <2>4, <3>1, <3>2 DEF IncompatOf
    <3>4. Tried(q)'
      BY <1>0, <1>3, <2>1, <2>6, <3>3 DEF Tried
    <3> QED BY <1>1, <1>2, <1>3, <1>4, <2>1, <2>2, <2>6, <3>4 DEF Stuck, OpenIn, Allowed, Rested
  <2> QED BY <1>1, <2>5, <2>6
<1>6. CASE Propagated
  <2>1. /\ UNCHANGED <<changed, visit>> /\ phase' = "decide" /\ visit = {} /\ changed = {}
    BY <1>6 DEF Propagated
  <2>2. Types'
    BY <1>0, <2>1 DEF Types
  <2>3. Allowed(solution, q) = {}
    BY <1>1, <2>1 DEF Tried
  <2>4. changed' \subseteq {q} /\ visit' \subseteq IncompatOf(q)'
    BY <2>1
  <2> QED BY <1>1, <1>2, <1>3, <1>4, <2>1, <2>2, <2>3, <2>4 DEF Stuck, OpenIn, Allowed, Rested
<1>7. CASE PassBy
  <2>1. /\ UNCHANGED <<phase, changed>> /\ visit' = visit \ {Max(visit)} /\ phase = "propagate"
        /\ visit # {} /\ ~IsSatisfied(Visited)
    BY <1>7 DEF PassBy, Visiting
  <2>2. Types'
    BY <1>0, <2>1 DEF Types
  <2>3. Max(visit) \in visit /\ Visited = incompat[Max(visit)] /\ \A i \in visit : i <= Max(visit)
        /\ Max(visit) \in DOMAIN incompat
    BY <2>1, VisitingFacts
  <2>4. ASSUME Allowed(solution, q) # {}, Tried(q) PROVE FALSE
    <3>1. Len(incompat) \in visit /\ Len(incompat) \in Nat /\ DOMAIN incompat = 1..Len(incompat)
      BY <1>0, <2>1, <2>4 DEF Tried
    <3>2. Max(visit) = Len(incompat)
      BY <2>3, <3>1
    <3>3. Visited = {Term(q, Wanted(q), TRUE)}
      BY <2>3, <2>4, <3>2 DEF Tried
    <3> QED BY <1>0, <2>1, <2>4, <3>3, TriedHolds
  <2>5. Allowed(solution, q) = {} /\ changed' \subseteq {q} /\ visit' \subseteq IncompatOf(q)'
    BY <1>1, <1>3, <2>1, <2>4
  <2> QED BY <1>1, <1>2, <1>3, <1>4, <2>1, <2>2, <2>5 DEF Stuck, OpenIn, Allowed, Rested
<1> QED BY <1>5, <1>6, <1>7
--------------------------------------------------------------------------------
(* The resolution has not ended.                                            *)
Solving == phase \in {"propagate", "decide"}
(* The solver's invariant: it makes its way towards a solution, has just    *)
(* taken a step back, or is stuck for good.                                 *)
SolverInv ==
  /\ Types
  /\ Solving => Advancing \/ Backtracked \/ Stuck
  /\ SolvedIsSolution

(* At first only $root is decided, and its requirements are to be visited.  *)
LEMMA SolverStarts == Init => SolverInv
<1> SUFFICES ASSUME Init PROVE SolverInv
  OBVIOUS
<1>1. /\ request \in Requests /\ phase = "propagate" /\ changed = {Root} /\ visit = {}
      /\ solution = {Decision(Root, Zero, 0)} /\ incompat = RootIncompats(request)
      /\ decisionLevel = 0 /\ forbidden = {} /\ turns = 1
  BY DEF Init
<1>2. PICK r : r = Decision(Root, Zero, 0)
  OBVIOUS
<1>3. r.package = Root /\ r.kind = "decision" /\ r.version = Zero /\ r.level = 0
  BY <1>2 DEF Decision
<1>4. solution = {r} /\ Decs(solution) = {r} /\ \A p : Ders(solution, p) = {}
  BY <1>1, <1>2, <1>3 DEF Decs, Ders
<1>5. /\ RootIncompats(request) \in Seq(Incompatibility)
      /\ \A x : Has(RootIncompats(request), x)
                  <=> \E need \in NeedsOf(Root, Zero) : x = ClauseOf(Root, Zero, need)
  BY <1>1, RootIncompatsFacts
<1>6. Root \in Owner /\ Zero \in Version /\ Zero \in VersionsOf(Root)
  BY NamesAreNumbers, OrderAssumption DEF VersionsOf
<1>7. Types
  <2>1. IsFiniteSet(solution)
    BY <1>4, FS_Singleton
  <2> QED BY <1>1, <1>5, <1>6, <2>1 DEF Types
<1>8. ASolution
  <2>1. Shapes
    BY <1>1, <1>3, <1>4, <1>6 DEF Shapes, IsDec
  <2>2. RootIsDecided /\ OneEach /\ EveryLevel /\ DecisionsStand
    BY <1>1, <1>3, <1>4, <1>6 DEF RootIsDecided, OneEach, EveryLevel, DecisionsStand, Standing
  <2>3. Caused
    BY <1>3, <1>4 DEF Caused
  <2> QED BY <2>1, <2>2, <2>3 DEF ASolution
<1>9. Forms
  BY <1>1, <1>5, <1>6 DEF Forms, Form, Has
<1>10. Present
  BY <1>1, <1>3, <1>4, <1>5 DEF Present, NeedsBy, ClauseFor
<1>11. CoveredAll
  BY <1>1, <1>3, <1>4 DEF CoveredAll, Pending
<1>12. ParentsDecided({})
  <2> SUFFICES ASSUME NEW i \in DOMAIN incompat, NEW t \in incompat[i], t.isPositive
               PROVE  t.package = Root
    BY <1>3, <1>4 DEF ParentsDecided
  <2>1. PICK need \in NeedsOf(Root, Zero) : incompat[i] = ClauseOf(Root, Zero, need)
    BY <1>1, <1>5 DEF Has
  <2>2. t = Term(Root, RangeOf(Root, Zero), TRUE) \/ t = Term(need[1], need[2].range, FALSE)
    BY <2>1 DEF ClauseOf, DependsOn
  <2> QED BY <2>2 DEF Term
<1>13. PickedLast /\ Rested
  BY <1>1, <1>3, <1>4 DEF PickedLast, Rested
<1> QED BY <1>1, <1>7, <1>8, <1>9, <1>10, <1>11, <1>12, <1>13 DEF SolverInv, Advancing, SolvedIsSolution

(* Nothing is lost where nothing changes.                                   *)
LEMMA AdvancingKept ==
  ASSUME Advancing,
         UNCHANGED <<request, phase, changed, visit, solution, incompat, decisionLevel, forbidden>>
  PROVE  Advancing'
<1>1. ASolution' /\ PickedLast'
  BY SolutionKept DEF Advancing
<1>2. Forms' /\ Present' /\ ParentsDecided({})'
  BY IncompatsKept DEF Advancing
<1>3. CoveredAll'
  <2>1. \A p, v : NeedsOf(p, v)' = NeedsOf(p, v)
    BY RequestKept
  <2> QED BY <2>1 DEF Advancing, CoveredAll, NeedsBy, Pending
<1>4. Rested'
  BY DEF Advancing, Rested
<1> QED BY <1>1, <1>2, <1>3, <1>4 DEF Advancing

(* Every step keeps the invariant.                                          *)
LEMMA SolverSteps == SolverInv /\ [Next]_vars => SolverInv'
<1> SUFFICES ASSUME SolverInv, [Next]_vars PROVE SolverInv'
  OBVIOUS
<1>0. Types /\ (Solving => Advancing \/ Backtracked \/ Stuck)
  BY DEF SolverInv
<1>1. ASSUME Types', Solving', Advancing' \/ Backtracked' \/ Stuck' PROVE SolverInv'
  BY <1>1 DEF SolverInv, Solving, SolvedIsSolution
<1>2. ASSUME Types', phase' \in {"failed", "error"} PROVE SolverInv'
  BY <1>2 DEF SolverInv, Solving, SolvedIsSolution
<1>3. CASE UNCHANGED vars
  <2>0. /\ UNCHANGED <<request, phase, changed, visit, solution, incompat, decisionLevel, forbidden, turns>>
    BY <1>3 DEF vars
  <2>1. Types'
    BY <1>0, <2>0 DEF Types
  <2>2. CASE phase = "solved"
    <3>1. IsSolution(Outcome)'
      BY <2>0, <2>2, OutcomeKept DEF SolverInv, SolvedIsSolution
    <3> QED BY <2>0, <2>1, <2>2, <3>1 DEF SolverInv, Solving, SolvedIsSolution
  <2>3. CASE phase \in {"failed", "error"}
    BY <1>2, <2>0, <2>1, <2>3
  <2>4. CASE Solving /\ Advancing
    <3>1. Advancing' /\ Solving'
      BY <2>0, <2>4, AdvancingKept DEF Solving
    <3> QED BY <1>1, <2>1, <3>1
  <2>5. CASE Solving /\ Backtracked
    <3>1. PICK q \in OpenIn(solution) : changed = {q} /\ ParentsDecided({q}) /\ Fewer(q)
      BY <2>5 DEF Backtracked
    <3>2. ASolution' /\ \A s, p : ViableIn(s, p)' = ViableIn(s, p)
      BY <2>0, <2>5, SolutionKept DEF Backtracked
    <3>3. Forms' /\ Present' /\ ParentsDecided({q})'
      BY <2>0, <2>5, <3>1, IncompatsKept DEF Backtracked
    <3>4. AllCovered'
      <4>1. \A p, v : NeedsOf(p, v)' = NeedsOf(p, v)
        BY <2>0, RequestKept
      <4> QED BY <2>0, <2>5, <4>1 DEF Backtracked, AllCovered, NeedsBy
    <3>5. Fewer(q)'
      BY <2>0, <3>1, <3>2 DEF Fewer, OpenIn
    <3>6. Backtracked' /\ Solving'
      BY <2>0, <2>5, <3>1, <3>2, <3>3, <3>4, <3>5 DEF Backtracked, OpenIn, Solving
    <3> QED BY <1>1, <2>1, <3>6
  <2>6. CASE Solving /\ Stuck
    <3>1. PICK q \in OpenIn(solution) :
           /\ q = Pick /\ ViableIn(solution, q) = {}
           /\ \/ Allowed(solution, q) = {} /\ changed \subseteq {q} /\ visit \subseteq IncompatOf(q)
              \/ Allowed(solution, q) # {} /\ Tried(q)
      BY <2>6 DEF Stuck
    <3>2. ASolution' /\ \A s, p : ViableIn(s, p)' = ViableIn(s, p)
      BY <2>0, <2>6, SolutionKept DEF Stuck
    <3>3. Pick' = Pick /\ Wanted(q)' = Wanted(q) /\ IncompatOf(q)' = IncompatOf(q)
      BY <2>0, PickKept DEF IncompatOf
    <3>4. Tried(q) => Tried(q)'
      BY <2>0, <3>3 DEF Tried
    <3>5. Stuck' /\ Solving'
      BY <2>0, <2>6, <3>1, <3>2, <3>3, <3>4 DEF Stuck, OpenIn, Allowed, Rested, Solving
    <3> QED BY <1>1, <2>1, <3>5
  <2> QED BY <1>0, <2>2, <2>3, <2>4, <2>5, <2>6 DEF Types, Solving
<1>4. CASE TakeChanged \/ Propagated \/ PassBy
  <2>1. Solving /\ Solving' /\ ~Backtracked
    BY <1>4 DEF TakeChanged, Propagated, PassBy, Visiting, Solving, Backtracked
  <2>2. CASE Advancing
    BY <1>0, <1>1, <1>4, <2>1, <2>2, TakeChangedAdvances, PropagatedAdvances, PassByAdvances
  <2>3. CASE Stuck
    BY <1>0, <1>1, <1>4, <2>1, <2>3, StuckStays
  <2> QED BY <1>0, <2>1, <2>2, <2>3
<1>5. CASE Derive
  <2>1. Solving /\ Solving' /\ ~Backtracked
    BY <1>5 DEF Derive, Visiting, Solving, Backtracked
  <2>2. Advancing
    BY <1>0, <1>5, <2>1, StuckFacts
  <2> QED BY <1>0, <1>1, <1>5, <2>1, <2>2, DeriveAdvances
<1>6. CASE Learn
  <2>1. Solving /\ Solving' /\ ~Backtracked
    BY <1>6 DEF Learn, Visiting, Solving, Backtracked
  <2>2. Advancing
    BY <1>0, <1>6, <2>1, StuckFacts
  <2> QED BY <1>0, <1>1, <1>6, <2>1, <2>2, LearnBacktracks
<1>7. CASE GiveUp \/ Unreachable
  <2>1. /\ phase' \in {"failed", "error"}
        /\ UNCHANGED <<request, changed, visit, solution, incompat, decisionLevel, forbidden, turns>>
    BY <1>7 DEF GiveUp, Unreachable
  <2>2. Types'
    BY <1>0, <2>1 DEF Types
  <2> QED BY <1>2, <2>1, <2>2
<1>8. CASE NothingLeft
  <2>0. /\ phase = "decide" /\ Undecided = {} /\ phase' = "solved"
        /\ UNCHANGED <<request, changed, visit, solution, incompat, decisionLevel, forbidden, turns>>
    BY <1>8 DEF NothingLeft, Deciding
  <2>1. Advancing
    BY <1>0, <1>8, <2>0, StuckFacts, BacktrackedIsReady DEF Solving
  <2>2. Types'
    BY <1>0, <2>0 DEF Types
  <2>3. ASolution /\ Shapes /\ AllCovered
    BY <2>0, <2>1, AdvancingIsReady DEF Ready, ASolution
  <2>4. OpenIn(solution) = {}
    BY <1>0, <2>0, <2>3, UndecidedFacts
  <2>5. IsSolution(Outcome)
    BY <1>0, <2>3, <2>4, OutcomeIsSolution
  <2>6. IsSolution(Outcome)'
    BY <2>0, <2>5, OutcomeKept
  <2> QED BY <2>0, <2>2, <2>6 DEF SolverInv, Solving, SolvedIsSolution
<1>9. CASE NoneViable
  <2>1. phase = "decide" /\ Solving /\ phase' \in {"propagate", "failed"}
    BY <1>9 DEF NoneViable, Deciding, Solving, NextTurn
  <2>2. CASE Advancing \/ Backtracked
    <3>1. Ready(Pick)
      BY <1>0, <2>1, <2>2, AdvancingIsReady, BacktrackedIsReady
    <3>2. Types' /\ (phase' \in {"propagate", "decide"} => Stuck')
      <4>1. ASolution /\ changed \subseteq {Pick} /\ visit = {}
        BY <3>1 DEF Ready
      <4> QED BY <1>0, <1>9, <2>1, <4>1, NoneViableSticks
    <3> QED BY <1>1, <1>2, <2>1, <3>2 DEF Solving
  <2>3. CASE Stuck
    <3>1. Types' /\ (phase' \in {"propagate", "decide"} => Stuck')
      BY <1>0, <1>9, <2>3, NoneViableStaysStuck
    <3> QED BY <1>1, <1>2, <2>1, <3>1 DEF Solving
  <2> QED BY <1>0, <2>1, <2>2, <2>3
<1>10. CASE Decide
  <2>1. phase = "decide" /\ Solving /\ phase' \in {"propagate", "failed", "error"}
    BY <1>10 DEF Decide, Deciding, Solving, NextTurn
  <2>2. Advancing \/ Backtracked
    BY <1>0, <1>10, <2>1, StuckFacts
  <2>3. Ready(Pick)
    BY <1>0, <2>1, <2>2, AdvancingIsReady, BacktrackedIsReady
  <2>4. Types' /\ (phase' \in {"propagate", "decide"} => Advancing')
    BY <1>0, <1>10, <2>3, DecideAdvances
  <2> QED BY <1>1, <1>2, <2>1, <2>4 DEF Solving
<1>11. CASE Ended
  BY <1>3, <1>11 DEF Ended
<1> QED BY <1>3, <1>4, <1>5, <1>6, <1>7, <1>8, <1>9, <1>10, <1>11 DEF Next

(* What the solver returns is a solution, for any packages, ranges and      *)
(* request and however often it backtracks (Solve).                         *)
THEOREM SolverIsSound == Spec => []SolvedIsSolution
<1>1. SolverInv => SolvedIsSolution
  BY DEF SolverInv
<1> QED BY SolverStarts, SolverSteps, <1>1, PTL DEF Spec

(* A conflict is laid to the last decision and no other, for any packages,  *)
(* ranges and request: the search never goes back further than one level at *)
(* a time (onConflict).                                                     *)
THEOREM ConflictUndoesTheLast == Spec => LastIsBlamed
<1>1. ASSUME SolverInv, Learn PROVE decisionLevel' = decisionLevel - 1
  <2>1. Types /\ Solving /\ ~Backtracked
    BY <1>1 DEF SolverInv, Learn, Visiting, Solving, Backtracked
  <2>2. Advancing
    BY <1>1, <2>1, StuckFacts DEF SolverInv
  <2> QED BY <1>1, <2>1, <2>2, LastIsCulprit
<1>2. SolverInv /\ [Next]_vars => [Learn => decisionLevel' = decisionLevel - 1]_vars
  BY <1>1
<1> QED BY SolverStarts, SolverSteps, <1>2, PTL DEF Spec, LastIsBlamed
--------------------------------------------------------------------------------
(* The decisions so far are the lockfile's.                                 *)
Locked == request.preferred
Following == \A a \in Decs(solution) : a.package # Root =>
               a.package \in DOMAIN Locked /\ a.version = Locked[a.package]

(* What the versions decided require, the lockfile's versions meet.         *)
LEMMA LockedNeed ==
  ASSUME Types, ASolution, IsSolution(Locked), Following,
         NEW b \in Decs(solution), NEW need \in NeedsBy(b)
  PROVE  /\ need[2].parses /\ need[1] \in DOMAIN Locked
         /\ Satisfies(need[2].range, Locked[need[1]])
<1>1. CASE b.package = Root
  <2>1. need \in RequiredByRoot
    BY <1>1 DEF NeedsBy, NeedsOf
  <2> QED BY <2>1 DEF IsSolution
<1>2. CASE b.package # Root
  <2>1. b.package \in DOMAIN Locked /\ need \in Required(b.package, Locked[b.package])
    BY <1>2 DEF NeedsBy, NeedsOf, Following
  <2> QED BY <2>1 DEF IsSolution
<1> QED BY <1>1, <1>2

(* Whatever range is derived for a package has the lockfile's version of it.*)
LEMMA LockedInRange ==
  ASSUME Types, ASolution, IsSolution(Locked), Following, NEW p, NEW d \in Ders(solution, p)
  PROVE  p \in DOMAIN Locked /\ Locked[p] \in Known(p) /\ Satisfies(d.term.range, Locked[p])
<1>1. d \in solution /\ d.kind = "derivation" /\ d.package = p
  BY DEF Ders
<1>2. PICK b \in Decs(solution) : CausedBy(d, b)
  BY <1>1 DEF ASolution, Caused
<1>3. PICK need \in NeedsBy(b) : need[1] = p /\ need[2].range = d.term.range
  BY <1>1, <1>2 DEF CausedBy
<1>4. p \in DOMAIN Locked /\ Satisfies(d.term.range, Locked[p])
  BY <1>3, LockedNeed
<1> QED BY <1>4 DEF IsSolution

(* So no incompatibility ever holds.                                        *)
LEMMA NothingHolds ==
  ASSUME Types, Advancing, IsSolution(Locked), Following, Visiting
  PROVE  ~IsSatisfied(Visited)
<1> SUFFICES ASSUME IsSatisfied(Visited) PROVE FALSE
  OBVIOUS
<1>0. ASolution /\ Shapes /\ decisionLevel \in Nat /\ IsFiniteSet(solution) /\ request \in Requests
  BY DEF Advancing, ASolution, Types
<1>1. PICK b \in Decs(solution) : \E need \in NeedsBy(b) :
        need[2].parses => TermStatus(Term(need[1], need[2].range, FALSE)) = "satisfied"
  BY SatisfiedNeed
<1>2. PICK need \in NeedsBy(b) :
        need[2].parses => TermStatus(Term(need[1], need[2].range, FALSE)) = "satisfied"
  BY <1>1
<1> DEFINE n == Term(need[1], need[2].range, FALSE)
           p == need[1]
           v == Locked[p]
<1>3. /\ need[2].parses /\ p \in DOMAIN Locked /\ Satisfies(need[2].range, v)
      /\ v \in Known(p) /\ v \in Version
  <2>1. /\ need[2].parses /\ p \in DOMAIN Locked /\ Satisfies(need[2].range, v)
    BY <1>0, LockedNeed
  <2>2. v \in Known(p)
    BY <2>1 DEF IsSolution
  <2> QED BY <1>0, <2>1, <2>2, KnownType
<1>4. TermStatus(n) = "satisfied"
  BY <1>2, <1>3
<1>5. n \in AnyTerm /\ n.package = p /\ n.range = need[2].range /\ n.isPositive = FALSE /\ p # Root
  <2>1. n \in AnyTerm /\ n.package = p /\ p \in Packages
    BY <1>0, NeedStatus
  <2>2. n.range = need[2].range /\ n.isPositive = FALSE
    BY DEF Term
  <2> QED BY <2>1, <2>2, NamesAreNumbers
<1> HIDE DEF n, v, p
<1>6. CASE \E a \in Decs(solution) : a.package = p
  <2>1. PICK a \in Decs(solution) : a.package = p
    BY <1>6
  <2>2. \A c \in Decs(solution) : c.package = a.package => c = a
    BY <1>0, DecisionFacts
  <2>3. TermHolds(n, a.version)
    BY <1>4, <1>5, <2>1, <2>2, DecidedStatus
  <2>4. a.version = v
    BY <1>5, <2>1 DEF Following, v
  <2> QED BY <1>3, <1>5, <2>3, <2>4 DEF TermHolds, Satisfies
<1>7. CASE \A a \in Decs(solution) : a.package # p
  <2>1. Allowed(solution, p) \cap Points(need[2].range) = {}
    BY <1>0, <1>4, <1>5, <1>7, OpenStatus
  <2>2. \A d \in Ders(solution, p) : Satisfies(d.term.range, v)
    BY <1>0, LockedInRange DEF v
  <2>3. solution \in SUBSET solution
    OBVIOUS
  <2>4. <<v, 0>> \in Allowed(solution, p)
    BY <1>0, <1>3, <2>2, <2>3, AllowedVersion
  <2>5. need[2].range \in NpmRange
    BY <1>0, NeedStatus
  <2>6. <<v, 0>> \in Points(need[2].range)
    BY <1>3, <2>5, SatisfiesIsPoint
  <2> QED BY <2>1, <2>4, <2>6
<1> QED BY <1>6, <1>7

(* The lockfile's version of an undecided package can be chosen, and is.    *)
LEMMA LockedIsChosen ==
  ASSUME Types, ASolution, IsSolution(Locked), Following, forbidden = {}, NEW p \in Undecided
  PROVE  Viable(p) # {} /\ p \in DOMAIN Locked /\ Choice(p) = Locked[p]
<1>0. request \in Requests /\ Shapes
  BY DEF Types, ASolution
<1>1. p \in OpenIn(solution) /\ Viable(p) = ViableIn(solution, p)
  BY <1>0, UndecidedFacts
<1>2. /\ p \in DOMAIN Locked /\ Locked[p] \in Known(p)
      /\ \A d \in Ders(solution, p) : Satisfies(d.term.range, Locked[p])
  BY <1>1, LockedInRange DEF OpenIn
<1>3. Locked[p] \in Viable(p)
  BY <1>1, <1>2 DEF ViableIn
<1> QED BY <1>0, <1>2, <1>3, ChoiceFacts DEF Locked

(* There is a package for every level, and one more while one is undecided. *)
LEMMA LevelsArePackages ==
  ASSUME Types, ASolution, Undecided # {}
  PROVE  decisionLevel < Cardinality(Packages)
<1>0. decisionLevel \in Nat /\ Shapes /\ EveryLevel
  BY DEF Types, ASolution
<1>1. PICK q : q \in OpenIn(solution)
  BY <1>0, UndecidedFacts
<1>2. PICK L : L = 1..decisionLevel
  OBVIOUS
<1> DEFINE At(k) == CHOOSE a \in Decs(solution) : a.level = k
           P == Packages \ {q}
           f == [k \in L |-> At(k).package]
<1>3. \A k \in L : At(k) \in Decs(solution) /\ At(k).level = k
  BY <1>0, <1>2 DEF EveryLevel
<1>4. ASSUME NEW k \in L PROVE At(k).package \in P
  <2>1. At(k) \in Decs(solution) /\ At(k).level = k /\ k # 0
    BY <1>2, <1>3
  <2>2. At(k).package \in Packages
    BY <2>1, DecisionFacts
  <2>3. At(k).package # q
    BY <1>1, <2>1 DEF OpenIn
  <2> QED BY <2>2, <2>3
<1>5. ASSUME NEW j \in L, NEW k \in L, At(j).package = At(k).package PROVE j = k
  <2>1. At(j) = At(k)
    BY <1>3, <1>5, DecisionFacts
  <2> QED BY <1>3, <2>1
<1> HIDE DEF At, P
<1>6. f \in [L -> P] /\ \A j, k \in L : f[j] = f[k] => j = k
  BY <1>4, <1>5
<1> HIDE DEF f
<1>7. f \in Injection(L, P)
  BY <1>6 DEF Injection, IsInjective
<1>8. q \in Packages /\ IsFiniteSet(Packages)
  BY <1>1, NamesAreNumbers DEF OpenIn
<1>9. IsFiniteSet(P) /\ Cardinality(P) = Cardinality(Packages) - 1
  BY <1>8, FS_RemoveElement DEF P
<1>10. Cardinality(L) <= Cardinality(P)
  BY <1>7, <1>9, FS_Injection
<1>11. Cardinality(L) = decisionLevel
  BY <1>0, <1>2, FS_Interval
<1>12. Cardinality(Packages) \in Nat
  BY <1>8, FS_CardinalityType
<1> QED BY <1>0, <1>9, <1>10, <1>11, <1>12
--------------------------------------------------------------------------------
(* While the lockfile is a solution the solver never steps back, and a turn *)
(* has gone into each decision.                                             *)
FollowsTheLock ==
  /\ phase # "failed" /\ forbidden = {} /\ Following
  /\ Solving => Advancing /\ turns = decisionLevel + 1
(* The invariant for an install from a lockfile.                            *)
LockInv == SolverInv /\ (IsSolution(Locked) => FollowsTheLock)

(* The request, and so the lockfile, does not change.                       *)
LEMMA LockKept ==
  ASSUME request' = request
  PROVE  Locked' = Locked /\ (IsSolution(Locked)' <=> IsSolution(Locked))
<1>1. Locked' = Locked
  BY DEF Locked
<1>2. /\ \A p : Known(p)' = Known(p)
      /\ \A p, v : Required(p, v)' = Required(p, v)
      /\ RequiredByRoot' = RequiredByRoot
  BY RequestKept
<1> QED BY <1>1, <1>2 DEF IsSolution

(* Nothing but $root is decided at first.                                   *)
LEMMA LockStarts == Init => LockInv
<1> SUFFICES ASSUME Init PROVE LockInv
  OBVIOUS
<1>1. SolverInv
  BY SolverStarts
<1>2. phase = "propagate" /\ forbidden = {} /\ decisionLevel = 0 /\ turns = 1
      /\ solution = {Decision(Root, Zero, 0)} /\ changed = {Root}
  BY DEF Init
<1>3. Following
  BY <1>2 DEF Following, Decs, Decision
<1>4. ~Backtracked
  BY <1>2 DEF Backtracked
<1>5. ~Stuck
  <2>1. PICK r : r = Decision(Root, Zero, 0)
    OBVIOUS
  <2>2. r.kind = "decision"
    BY <2>1 DEF Decision
  <2>3. OpenIn(solution) = {}
    BY <1>2, <2>1, <2>2 DEF OpenIn, Ders
  <2> QED BY <2>3 DEF Stuck
<1>6. Solving /\ Advancing
  BY <1>1, <1>2, <1>4, <1>5 DEF SolverInv, Solving
<1> QED BY <1>1, <1>2, <1>3, <1>6 DEF LockInv, FollowsTheLock

(* Every step follows the lockfile.                                         *)
LEMMA LockSteps ==
  ASSUME Cardinality(Packages) < MaxTurns, LockInv, [Next]_vars
  PROVE  LockInv'
<1>0. SolverInv /\ SolverInv' /\ Types /\ Types' /\ (IsSolution(Locked) => FollowsTheLock)
  BY SolverSteps DEF LockInv, SolverInv
<1>1. request' = request
  BY DEF Next, vars, TakeChanged, Propagated, PassBy, Derive, Learn, GiveUp, Unreachable,
         NothingLeft, NoneViable, Decide, Ended
<1>2. SUFFICES ASSUME IsSolution(Locked) PROVE FollowsTheLock'
  BY <1>0, <1>1, LockKept DEF LockInv
<1>3. phase # "failed" /\ forbidden = {} /\ Following /\ (Solving => Advancing /\ turns = decisionLevel + 1)
  BY <1>0, <1>2 DEF FollowsTheLock
<1>4. Locked' = Locked
  BY <1>1, LockKept
<1>5. ASSUME Decs(solution') = Decs(solution) PROVE Following'
  BY <1>3, <1>4, <1>5 DEF Following
<1>6. CASE UNCHANGED vars
  <2>1. UNCHANGED <<request, phase, changed, visit, solution, incompat, decisionLevel, forbidden, turns>>
    BY <1>6 DEF vars
  <2>2. Solving => Advancing'
    BY <1>3, <2>1, AdvancingKept DEF Solving
  <2>3. Following'
    BY <1>5, <2>1
  <2> QED BY <1>3, <2>1, <2>2, <2>3 DEF FollowsTheLock, Solving
<1>7. CASE TakeChanged \/ Propagated \/ PassBy
  <2>1. /\ UNCHANGED <<solution, decisionLevel, forbidden, turns>>
        /\ Solving /\ Solving'
    BY <1>7 DEF TakeChanged, Propagated, PassBy, Visiting, Solving
  <2>2. Advancing'
    BY <1>0, <1>3, <1>7, <2>1, TakeChangedAdvances, PropagatedAdvances, PassByAdvances
  <2>3. Following'
    BY <1>5, <2>1
  <2> QED BY <1>3, <2>1, <2>2, <2>3 DEF FollowsTheLock, Solving
<1>8. CASE Derive
  <2>1. UNCHANGED <<decisionLevel, forbidden, turns>> /\ Solving /\ Solving'
    BY <1>8 DEF Derive, Visiting, Solving
  <2>2. Advancing'
    BY <1>0, <1>3, <1>8, <2>1, DeriveAdvances
  <2>3. Decs(solution') = Decs(solution)
    BY <1>8 DEF Derive, Decs, Derivation
  <2>4. Following'
    BY <1>5, <2>3
  <2> QED BY <1>3, <2>1, <2>2, <2>4 DEF FollowsTheLock, Solving
<1>9. CASE Learn \/ GiveUp
  <2>1. Visiting /\ IsSatisfied(Visited) /\ Solving
    BY <1>9 DEF Learn, GiveUp, Visiting, Solving
  <2> QED BY <1>0, <1>2, <1>3, <2>1, NothingHolds
<1>10. CASE Unreachable \/ NothingLeft
  <2>1. UNCHANGED <<solution, forbidden>> /\ phase' \in {"error", "solved"}
    BY <1>10 DEF Unreachable, NothingLeft
  <2>2. Following'
    BY <1>5, <2>1
  <2> QED BY <1>3, <2>1, <2>2 DEF FollowsTheLock, Solving
<1>11. CASE NoneViable
  <2>1. Solving /\ \E p \in Undecided : Viable(p) = {}
    BY <1>11 DEF NoneViable, Deciding, Solving
  <2>2. ASolution
    BY <1>3, <2>1 DEF Advancing
  <2> QED BY <1>0, <1>2, <1>3, <2>1, <2>2, LockedIsChosen
<1>12. CASE Decide
  <2>1. phase = "decide" /\ Solving /\ forbidden' = forbidden /\ decisionLevel' = decisionLevel + 1
    BY <1>12 DEF Decide, Deciding, Solving
  <2>2. ASolution /\ Ready(Pick) /\ turns = decisionLevel + 1
    BY <1>3, <2>1, AdvancingIsReady DEF Advancing
  <2>3. PICK p \in Undecided, v \in Version :
         /\ p = Pick /\ Viable(p) # {} /\ v = Choice(p)
         /\ solution' = solution \cup {Decision(p, v, decisionLevel + 1)}
         /\ phase' = "error" \/ NextTurn
    BY <1>12 DEF Decide
  <2>4. p \in DOMAIN Locked /\ v = Locked[p]
    BY <1>0, <1>2, <1>3, <2>2, <2>3, LockedIsChosen
  <2>5. Following'
    <3>1. PICK a : a = Decision(p, v, decisionLevel + 1)
      OBVIOUS
    <3>2. a.package = p /\ a.version = v
      BY <3>1 DEF Decision
    <3>3. \A c \in Decs(solution') : c \in Decs(solution) \/ c = a
      BY <2>3, <3>1 DEF Decs
    <3> QED BY <1>3, <1>4, <2>4, <3>2, <3>3 DEF Following
  <2>6. decisionLevel < Cardinality(Packages)
    BY <1>0, <2>2, <2>3, LevelsArePackages
  <2>7. turns < MaxTurns
    <3>1. decisionLevel \in Nat /\ MaxTurns \in Nat /\ Cardinality(Packages) \in Nat
      BY <1>0, NamesAreNumbers, FS_CardinalityType DEF Types
    <3> QED BY <2>2, <2>6, <3>1
  <2>8. phase' # "error" => (phase' = "propagate" /\ turns' = turns + 1)
    <3>1. CASE phase' = "error"
      BY <3>1
    <3>2. CASE NextTurn
      BY <2>7, <3>2 DEF NextTurn
    <3> QED BY <2>3, <3>1, <3>2
  <2>9. Solving' => Advancing' /\ turns' = decisionLevel' + 1
    <3>1. SUFFICES ASSUME Solving' PROVE Advancing' /\ turns' = decisionLevel' + 1
      OBVIOUS
    <3>2. phase' = "propagate" /\ turns' = turns + 1
      BY <2>8, <3>1 DEF Solving
    <3>3. Advancing'
      BY <1>0, <1>12, <2>2, <3>2, DecideAdvances
    <3> QED BY <2>1, <2>2, <3>2, <3>3
  <2>10. phase' # "failed"
    BY <2>8
  <2> QED BY <1>3, <2>1, <2>5, <2>9, <2>10 DEF FollowsTheLock
<1> QED BY <1>6, <1>7, <1>8, <1>9, <1>10, <1>11, <1>12 DEF Next, Ended

(* While the lockfile's versions are a solution, an install arrives at no   *)
(* others and does not fail, as long as there is a turn for every package   *)
(* (Preferred in makeDecision).                                             *)
THEOREM LockIsKept ==
  Cardinality(Packages) < MaxTurns => (Spec => []LockedSolutionIsKept)
<1> SUFFICES ASSUME Cardinality(Packages) < MaxTurns PROVE Spec => []LockedSolutionIsKept
  OBVIOUS
<1>1. LockInv => LockedSolutionIsKept
  BY DEF LockInv, FollowsTheLock, Following, Locked, LockedSolutionIsKept, Chosen, Decs
<1>2. LockInv /\ [Next]_vars => LockInv'
  BY LockSteps
<1> QED BY LockStarts, <1>1, <1>2, PTL DEF Spec
================================================================================
