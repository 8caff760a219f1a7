------------------------------ MODULE Range_proofs ------------------------------
(***************************************************************************)
(* Proofs about the algebra of ranges, for every total order of versions,  *)
(* prereleases among them, and all ranges of finitely many clauses.        *)
(***************************************************************************)
EXTENDS RangeAlgebra, SequenceTheorems, FiniteSetTheorems, WellFoundedInduction, TLAPS

(* Ranges.  Of the order only what OrderAssumption and IdentityAssumption   *)
(* say is used: it need not be dense.                                       *)
Reaches(r, v) == \E c \in r : NumericContains(c, v)
Ranges == SUBSET Clause

(* A point is a version, or the gap just before or just after one.  Bounds  *)
(* that differ differ at a point, which cannot be said of versions: what is *)
(* between two neighbours in the order is no version.                       *)
Point == Version \X {-1, 0, 1}
(* Where a point lies relative to a version.                                *)
Side(x, u) == IF Compare(x[1], u) = 0 THEN x[2] ELSE Compare(x[1], u)
StartsAt(b, x) == b.set => Side(x, b.at) = 1  \/ (Side(x, b.at) = 0 /\ b.incl)
EndsAt(b, x)   == b.set => Side(x, b.at) = -1 \/ (Side(x, b.at) = 0 /\ b.incl)
Within(c, x) == StartsAt(c.lo, x) /\ EndsAt(c.hi, x)
Points(r) == {x \in Point : \E c \in r : Within(c, x)}

(* Compare yields a sign, and swapping the versions swaps the sign          *)
(* (Version.Compare).                                                       *)
LEMMA Order ==
  ASSUME NEW u \in Version, NEW v \in Version
  PROVE  /\ Compare(u, v) \in {-1, 0, 1}
         /\ Compare(u, v) = 1 <=> Compare(v, u) = -1
         /\ Compare(u, v) = -1 <=> Compare(v, u) = 1
         /\ Compare(u, v) = 0 <=> Compare(v, u) = 0
BY OrderAssumption

(* Strictly before, or level with, composes (Version.Compare).              *)
LEMMA Transitive ==
  ASSUME NEW u \in Version, NEW v \in Version, NEW w \in Version,
         Compare(u, v) # 1, Compare(v, w) # 1
  PROVE  /\ Compare(u, w) # 1
         /\ Compare(u, w) = 0 => Compare(u, v) = 0 /\ Compare(v, w) = 0
<1>1. Compare(u, w) # 1
  BY OrderAssumption
<1>2. ASSUME Compare(u, w) = 0 PROVE Compare(u, v) = 0 /\ Compare(v, w) = 0
  <2>1. Compare(w, u) # 1 BY <1>2, Order
  <2>2. Compare(w, v) # 1 BY <2>1, OrderAssumption
  <2>3. Compare(v, u) # 1 BY <2>1, OrderAssumption
  <2> QED BY <2>2, <2>3, Order
<1> QED BY <1>1, <1>2

(* A point lies on one side of a version or at it, and lies on that side of *)
(* every version further on.                                                *)
LEMMA Sides ==
  ASSUME NEW x \in Point, NEW u \in Version, NEW w \in Version
  PROVE  /\ Side(x, u) \in {-1, 0, 1}
         /\ Compare(u, w) = 0 => Side(x, u) = Side(x, w)
         /\ Compare(u, w) = 1 /\ Side(x, w) # 1 => Side(x, u) = -1
         /\ Compare(u, w) = 1 /\ Side(x, u) # -1 => Side(x, w) = 1
<1>1. x[1] \in Version /\ x[2] \in {-1, 0, 1}
  BY DEF Point
<1> DEFINE v == x[1]
<1>2. /\ Compare(v, u) \in {-1, 0, 1} /\ Compare(v, w) \in {-1, 0, 1}
      /\ Compare(u, v) \in {-1, 0, 1} /\ Compare(w, v) \in {-1, 0, 1}
  BY <1>1, Order
<1>3. ASSUME Compare(u, w) = 0 PROVE Compare(v, u) = Compare(v, w)
  <2>1. Compare(w, u) = 0 BY <1>3, Order
  <2> QED BY <1>1, <1>2, <1>3, <2>1, Order, Transitive
<1>4. ASSUME Compare(u, w) = 1, Compare(v, w) # 1 PROVE Compare(v, u) = -1
  <2>1. Compare(w, u) = -1 BY <1>4, Order
  <2>2. Compare(v, u) # 1 /\ Compare(v, u) # 0 BY <1>1, <1>4, <2>1, Transitive
  <2> QED BY <2>2, <1>2
<1>5. ASSUME Compare(u, w) = 1, Compare(v, u) # -1 PROVE Compare(v, w) = 1
  <2>1. Compare(w, u) = -1 /\ Compare(u, v) # 1 BY <1>1, <1>5, Order
  <2>2. Compare(w, v) # 1 /\ Compare(w, v) # 0 BY <1>1, <2>1, Transitive
  <2> QED BY <1>1, <2>2, <1>2, Order
<1> QED BY <1>1, <1>2, <1>3, <1>4, <1>5 DEF Side

(* The fields of a bound have their types, and make it.                     *)
LEMMA BoundType ==
  ASSUME NEW a \in Bound
  PROVE  /\ a.set \in BOOLEAN /\ a.at \in Version /\ a.incl \in BOOLEAN
         /\ ~a.set => a = Unset
         /\ a.set => a = From(a.at, a.incl)
<1>1. CASE a = Unset
  BY <1>1, OrderAssumption DEF Unset
<1>2. CASE a \in [set : {TRUE}, at : Version, incl : BOOLEAN]
  BY <1>2 DEF From
<1> QED BY <1>1, <1>2 DEF Bound

(* A bound made of a version is one.                                        *)
LEMMA FromType ==
  ASSUME NEW v \in Version, NEW i \in BOOLEAN
  PROVE  /\ From(v, i) \in Bound
         /\ From(v, i).set = TRUE /\ From(v, i).at = v /\ From(v, i).incl = i
BY DEF From, Bound

(* No bound is one, too.                                                    *)
LEMMA UnsetType == Unset \in Bound /\ Unset.set = FALSE
BY DEF Unset, Bound

(* A point lies above the tighter of two starts if and only if it lies      *)
(* above both (intersectClause).                                            *)
LEMMA TighterStart ==
  ASSUME NEW a \in Bound, NEW b \in Bound
  PROVE  /\ Tighter(a, b, 1) \in Bound
         /\ \A x \in Point : StartsAt(Tighter(a, b, 1), x) <=> StartsAt(a, x) /\ StartsAt(b, x)
<1> USE BoundType
<1>1. CASE ~a.set \/ ~b.set
  BY <1>1 DEF Tighter, StartsAt
<1>2. CASE a.set /\ b.set
  <2> DEFINE m == Tighter(a, b, 1)
             i == a.incl /\ b.incl
  <2>1. CASE Compare(a.at, b.at) = 1
    <3>1. m = a BY <1>2, <2>1 DEF Tighter
    <3> QED BY <3>1, <1>2, <2>1, Sides DEF StartsAt
  <2>2. CASE Compare(a.at, b.at) = -1
    <3>1. m = b BY <1>2, <2>2, Order DEF Tighter
    <3>2. Compare(b.at, a.at) = 1 BY <2>2, Order
    <3> QED BY <3>1, <3>2, <1>2, Sides DEF StartsAt
  <2>3. CASE Compare(a.at, b.at) = 0
    <3>1. m = From(a.at, i) BY <1>2, <2>3, Order DEF Tighter
    <3>2. i \in BOOLEAN OBVIOUS
    <3> HIDE DEF i, m
    <3>3. m \in Bound /\ m.set = TRUE /\ m.at = a.at /\ m.incl = i
      BY <3>1, <3>2, FromType
    <3>4. m.incl = (a.incl /\ b.incl) BY <3>3 DEF i
    <3>5. ASSUME NEW x \in Point PROVE StartsAt(m, x) <=> StartsAt(a, x) /\ StartsAt(b, x)
      <4>1. Side(x, a.at) = Side(x, b.at) /\ Side(x, a.at) \in {-1, 0, 1} BY <2>3, Sides
      <4> QED BY <4>1, <3>3, <3>4, <1>2 DEF StartsAt
    <3> QED BY <3>3, <3>5 DEF m
  <2> QED BY <2>1, <2>2, <2>3, Order
<1> QED BY <1>1, <1>2

(* A point lies below the tighter of two ends if and only if it lies below  *)
(* both (intersectClause).                                                  *)
LEMMA TighterEnd ==
  ASSUME NEW a \in Bound, NEW b \in Bound
  PROVE  /\ Tighter(a, b, -1) \in Bound
         /\ \A x \in Point : EndsAt(Tighter(a, b, -1), x) <=> EndsAt(a, x) /\ EndsAt(b, x)
<1> USE BoundType
<1>1. CASE ~a.set \/ ~b.set
  BY <1>1 DEF Tighter, EndsAt
<1>2. CASE a.set /\ b.set
  <2> DEFINE m == Tighter(a, b, -1)
             i == a.incl /\ b.incl
  <2>1. CASE Compare(a.at, b.at) = -1
    <3>1. m = a BY <1>2, <2>1 DEF Tighter
    <3>2. Compare(b.at, a.at) = 1 BY <2>1, Order
    <3> QED BY <3>1, <3>2, <1>2, Sides DEF EndsAt
  <2>2. CASE Compare(a.at, b.at) = 1
    <3>1. m = b BY <1>2, <2>2, Order DEF Tighter
    <3> QED BY <3>1, <1>2, <2>2, Sides DEF EndsAt
  <2>3. CASE Compare(a.at, b.at) = 0
    <3>1. m = From(a.at, i) BY <1>2, <2>3, Order DEF Tighter
    <3>2. i \in BOOLEAN OBVIOUS
    <3> HIDE DEF i, m
    <3>3. m \in Bound /\ m.set = TRUE /\ m.at = a.at /\ m.incl = i
      BY <3>1, <3>2, FromType
    <3>4. m.incl = (a.incl /\ b.incl) BY <3>3 DEF i
    <3>5. ASSUME NEW x \in Point PROVE EndsAt(m, x) <=> EndsAt(a, x) /\ EndsAt(b, x)
      <4>1. Side(x, a.at) = Side(x, b.at) /\ Side(x, a.at) \in {-1, 0, 1} BY <2>3, Sides
      <4> QED BY <4>1, <3>3, <3>4, <1>2 DEF EndsAt
    <3> QED BY <3>3, <3>5 DEF m
  <2> QED BY <2>1, <2>2, <2>3, Order
<1> QED BY <1>1, <1>2

(* A point lies below the later of two ends if and only if it lies below    *)
(* one (unionAdjacent).                                                     *)
LEMMA LaterEndIsOr ==
  ASSUME NEW a \in Bound, NEW b \in Bound
  PROVE  /\ LaterEnd(a, b) \in Bound
         /\ \A x \in Point : EndsAt(LaterEnd(a, b), x) <=> EndsAt(a, x) \/ EndsAt(b, x)
<1> USE BoundType
<1>1. CASE ~(a.set /\ b.set)
  BY <1>1, UnsetType DEF LaterEnd, EndsAt
<1>2. CASE a.set /\ b.set
  <2> DEFINE m == LaterEnd(a, b)
             i == a.incl \/ b.incl
  <2>1. CASE Compare(a.at, b.at) = 1
    <3>1. m = a BY <1>2, <2>1 DEF LaterEnd
    <3> QED BY <3>1, <1>2, <2>1, Sides DEF EndsAt
  <2>2. CASE Compare(a.at, b.at) = -1
    <3>1. m = b BY <1>2, <2>2 DEF LaterEnd
    <3>2. Compare(b.at, a.at) = 1 BY <2>2, Order
    <3> QED BY <3>1, <3>2, <1>2, Sides DEF EndsAt
  <2>3. CASE Compare(a.at, b.at) = 0
    <3>1. m = From(a.at, i) BY <1>2, <2>3 DEF LaterEnd
    <3>2. i \in BOOLEAN OBVIOUS
    <3> HIDE DEF i, m
    <3>3. m \in Bound /\ m.set = TRUE /\ m.at = a.at /\ m.incl = i
      BY <3>1, <3>2, FromType
    <3>4. m.incl = (a.incl \/ b.incl) BY <3>3 DEF i
    <3>5. ASSUME NEW x \in Point PROVE EndsAt(m, x) <=> EndsAt(a, x) \/ EndsAt(b, x)
      <4>1. Side(x, a.at) = Side(x, b.at) /\ Side(x, a.at) \in {-1, 0, 1} BY <2>3, Sides
      <4> QED BY <4>1, <3>3, <3>4, <1>2 DEF EndsAt
    <3> QED BY <3>3, <3>5 DEF m
  <2> QED BY <2>1, <2>2, <2>3, Order
<1> QED BY <1>1, <1>2
--------------------------------------------------------------------------------
(* The bounds of a clause are bounds.                                       *)
LEMMA ClauseType ==
  ASSUME NEW c \in Clause
  PROVE  /\ c.lo \in Bound /\ c.hi \in Bound
         /\ c.pre \in SUBSET {Triple(v) : v \in Version}
BY DEF Clause

(* A clause is made of a start, an end and triples.                         *)
LEMMA IntervalType ==
  ASSUME NEW lo \in Bound, NEW hi \in Bound, NEW pre \in SUBSET {Triple(v) : v \in Version}
  PROVE  /\ Interval(lo, hi, pre) \in Clause
         /\ Interval(lo, hi, pre).lo = lo
         /\ Interval(lo, hi, pre).hi = hi
         /\ Interval(lo, hi, pre).pre = pre
BY DEF Clause, Interval

(* A version lies in an interval where its point does.                      *)
LEMMA VersionIsPoint ==
  ASSUME NEW v \in Version
  PROVE  /\ <<v, 0>> \in Point
         /\ \A c \in Clause : NumericContains(c, v) <=> Within(c, <<v, 0>>)
<1>1. \A u : Side(<<v, 0>>, u) = Compare(v, u)
  BY DEF Side
<1> QED
  BY <1>1 DEF Point, NumericContains, Within, StartsBelow, StartsAt, EndsAbove, EndsAt

(* A clause that isEmpty rejects contains no point, and any other contains  *)
(* one (isEmpty).                                                           *)
LEMMA EmptyMeansNoPoint ==
  ASSUME NEW c \in Clause
  PROVE  ClauseIsEmpty(c) <=> \A x \in Point : ~Within(c, x)
<1> USE ClauseType, BoundType
<1>1. ASSUME ClauseIsEmpty(c), NEW x \in Point, Within(c, x)
      PROVE  FALSE
  <2>1. /\ Side(x, c.lo.at) \in {0, 1} /\ (Side(x, c.lo.at) = 0 => c.lo.incl)
        /\ Side(x, c.hi.at) \in {-1, 0} /\ (Side(x, c.hi.at) = 0 => c.hi.incl)
    BY <1>1 DEF ClauseIsEmpty, Within, StartsAt, EndsAt
  <2>2. Compare(c.lo.at, c.hi.at) # 1
    BY <2>1, Sides
  <2>3. Side(x, c.lo.at) = Side(x, c.hi.at)
    BY <1>1, <2>2, Sides DEF ClauseIsEmpty
  <2> QED BY <1>1, <2>1, <2>2, <2>3 DEF ClauseIsEmpty
<1>2. ASSUME ~ClauseIsEmpty(c)
      PROVE  \E x \in Point : Within(c, x)
  <2>1. \A v \in Version : Compare(v, v) = 0
    BY Order
  <2>2. CASE ~c.lo.set /\ ~c.hi.set
    <3>1. <<Zero, 0>> \in Point BY OrderAssumption DEF Point
    <3> QED BY <2>2, <3>1 DEF Within, StartsAt, EndsAt
  <2>3. CASE c.lo.set /\ (c.hi.set => Compare(c.lo.at, c.hi.at) = -1)
    <3>1. <<c.lo.at, 1>> \in Point BY DEF Point
    <3>2. Side(<<c.lo.at, 1>>, c.lo.at) = 1 BY <2>1 DEF Side
    <3>3. c.hi.set => Side(<<c.lo.at, 1>>, c.hi.at) = -1 BY <2>3 DEF Side
    <3> QED BY <3>1, <3>2, <3>3 DEF Within, StartsAt, EndsAt
  <2>4. CASE c.lo.set /\ c.hi.set /\ Compare(c.lo.at, c.hi.at) = 0
    <3>1. <<c.lo.at, 0>> \in Point BY DEF Point
    <3>2. Side(<<c.lo.at, 0>>, c.lo.at) = 0 BY <2>1 DEF Side
    <3>3. Side(<<c.lo.at, 0>>, c.hi.at) = 0 BY <2>4 DEF Side
    <3>4. c.lo.incl /\ c.hi.incl BY <1>2, <2>4 DEF ClauseIsEmpty
    <3> QED BY <3>1, <3>2, <3>3, <3>4 DEF Within, StartsAt, EndsAt
  <2>5. CASE ~c.lo.set /\ c.hi.set
    <3>1. <<c.hi.at, -1>> \in Point BY DEF Point
    <3>2. Side(<<c.hi.at, -1>>, c.hi.at) = -1 BY <2>1 DEF Side
    <3> QED BY <2>5, <3>1, <3>2 DEF Within, StartsAt, EndsAt
  <2> QED BY <1>2, <2>2, <2>3, <2>4, <2>5, Order DEF ClauseIsEmpty
<1> QED BY <1>1, <1>2

(* An intersection of two intervals holds what both hold (intersectClause). *)
LEMMA IntersectClauseIsAnd ==
  ASSUME NEW a \in Clause, NEW b \in Clause
  PROVE  /\ IntersectClause(a, b) \in Clause
         /\ \A x \in Point : Within(IntersectClause(a, b), x) <=> Within(a, x) /\ Within(b, x)
<1> DEFINE lo == Tighter(a.lo, b.lo, 1)
           hi == Tighter(a.hi, b.hi, -1)
           pre == a.pre \cup b.pre
<1>1. lo \in Bound /\ \A x \in Point : StartsAt(lo, x) <=> StartsAt(a.lo, x) /\ StartsAt(b.lo, x)
  BY ClauseType, TighterStart
<1>2. hi \in Bound /\ \A x \in Point : EndsAt(hi, x) <=> EndsAt(a.hi, x) /\ EndsAt(b.hi, x)
  BY ClauseType, TighterEnd
<1>3. pre \in SUBSET {Triple(w) : w \in Version}
  BY ClauseType
<1>4. IntersectClause(a, b) = Interval(lo, hi, pre)
  BY DEF IntersectClause
<1> HIDE DEF lo, hi, pre
<1>5. /\ Interval(lo, hi, pre) \in Clause
      /\ Interval(lo, hi, pre).lo = lo /\ Interval(lo, hi, pre).hi = hi
  BY <1>1, <1>2, <1>3, IntervalType
<1> QED BY <1>1, <1>2, <1>4, <1>5 DEF Within

(* When the sort has put a before b, what b starts above a starts above,    *)
(* and starts that are level are the same.                                  *)
LEMMA StartOrder ==
  ASSUME NEW a \in Clause, NEW b \in Clause
  PROVE  CmpLo(a, b) # 1 <=> \A x \in Point : StartsAt(b.lo, x) => StartsAt(a.lo, x)
<1> USE ClauseType, BoundType
<1>0. \A v \in Version : Compare(v, v) = 0
  BY Order
<1>1. ASSUME CmpLo(a, b) # 1, NEW x \in Point, StartsAt(b.lo, x)
      PROVE  StartsAt(a.lo, x)
  <2> SUFFICES ASSUME a.lo.set PROVE StartsAt(a.lo, x)
    BY DEF StartsAt
  <2>1. b.lo.set /\ Compare(a.lo.at, b.lo.at) \in {-1, 0}
    BY <1>1, Order DEF CmpLo
  <2>2. CASE Compare(a.lo.at, b.lo.at) = -1
    <3>1. Compare(b.lo.at, a.lo.at) = 1 BY <2>2, Order
    <3> QED BY <1>1, <2>1, <3>1, Sides DEF StartsAt
  <2>3. CASE Compare(a.lo.at, b.lo.at) = 0
    <3>1. Side(x, a.lo.at) = Side(x, b.lo.at) BY <2>3, Sides
    <3>2. b.lo.incl => a.lo.incl BY <1>1, <2>1, <2>3 DEF CmpLo
    <3> QED BY <1>1, <2>1, <3>1, <3>2 DEF StartsAt
  <2> QED BY <2>1, <2>2, <2>3
<1>2. ASSUME CmpLo(a, b) = 1
      PROVE  \E x \in Point : StartsAt(b.lo, x) /\ ~StartsAt(a.lo, x)
  <2>1. a.lo.set
    BY <1>2 DEF CmpLo
  <2>2. /\ <<a.lo.at, -1>> \in Point /\ <<a.lo.at, 0>> \in Point
        /\ Side(<<a.lo.at, -1>>, a.lo.at) = -1 /\ Side(<<a.lo.at, 0>>, a.lo.at) = 0
    BY <1>0 DEF Point, Side
  <2>3. CASE ~b.lo.set
    BY <2>1, <2>2, <2>3 DEF StartsAt
  <2>4. CASE b.lo.set /\ Compare(a.lo.at, b.lo.at) = 1
    <3>1. Side(<<a.lo.at, -1>>, b.lo.at) = 1 BY <2>4 DEF Side
    <3> QED BY <2>1, <2>2, <3>1 DEF StartsAt
  <2>5. CASE b.lo.set /\ Compare(a.lo.at, b.lo.at) = 0
    <3>1. Side(<<a.lo.at, 0>>, b.lo.at) = 0 BY <2>5 DEF Side
    <3>2. b.lo.incl /\ ~a.lo.incl BY <1>2, <2>1, <2>5 DEF CmpLo
    <3> QED BY <2>1, <2>2, <3>1, <3>2 DEF StartsAt
  <2> QED BY <1>2, <2>1, <2>3, <2>4, <2>5, Order DEF CmpLo
<1> QED BY <1>1, <1>2

(* Two clauses leave no point between them exactly when they meet           *)
(* (overlapsOrAdjacent).                                                    *)
LEMMA NothingBetween ==
  ASSUME NEW a \in Clause, NEW b \in Clause
  PROVE  OverlapsOrAdjacent(a, b) <=> \A x \in Point : EndsAt(a.hi, x) \/ StartsAt(b.lo, x)
<1> USE ClauseType, BoundType
<1>0. \A v \in Version : Compare(v, v) = 0
  BY Order
<1>1. ASSUME OverlapsOrAdjacent(a, b), NEW x \in Point, ~EndsAt(a.hi, x)
      PROVE  StartsAt(b.lo, x)
  <2> SUFFICES ASSUME b.lo.set PROVE StartsAt(b.lo, x)
    BY DEF StartsAt
  <2>1. a.hi.set
    BY <1>1 DEF EndsAt
  <2>2. CASE Compare(a.hi.at, b.lo.at) = 1
    BY <1>1, <2>1, <2>2, Sides DEF StartsAt, EndsAt
  <2>3. CASE Compare(a.hi.at, b.lo.at) = 0 /\ (a.hi.incl \/ b.lo.incl)
    <3>1. Side(x, a.hi.at) = Side(x, b.lo.at) /\ Side(x, a.hi.at) \in {-1, 0, 1} BY <2>3, Sides
    <3> QED BY <1>1, <2>1, <2>3, <3>1 DEF StartsAt, EndsAt
  <2> QED BY <1>1, <2>1, <2>2, <2>3 DEF OverlapsOrAdjacent
<1>2. ASSUME ~OverlapsOrAdjacent(a, b)
      PROVE  \E x \in Point : ~EndsAt(a.hi, x) /\ ~StartsAt(b.lo, x)
  <2>1. a.hi.set /\ b.lo.set
    BY <1>2 DEF OverlapsOrAdjacent
  <2>2. CASE Compare(a.hi.at, b.lo.at) = -1
    <3>1. <<a.hi.at, 1>> \in Point BY DEF Point
    <3>2. Side(<<a.hi.at, 1>>, a.hi.at) = 1 /\ Side(<<a.hi.at, 1>>, b.lo.at) = -1
      BY <1>0, <2>2 DEF Side
    <3> QED BY <2>1, <3>1, <3>2 DEF StartsAt, EndsAt
  <2>3. CASE Compare(a.hi.at, b.lo.at) = 0
    <3>1. <<a.hi.at, 0>> \in Point BY DEF Point
    <3>2. Side(<<a.hi.at, 0>>, a.hi.at) = 0 /\ Side(<<a.hi.at, 0>>, b.lo.at) = 0
      BY <1>0, <2>3 DEF Side
    <3> QED BY <1>2, <2>1, <2>3, <3>1, <3>2 DEF StartsAt, EndsAt, OverlapsOrAdjacent
  <2> QED BY <1>2, <2>1, <2>2, <2>3, Order DEF OverlapsOrAdjacent
<1> QED BY <1>1, <1>2

(* Merging two neighbours makes a clause of the points of either, which     *)
(* starts where the first does.                                             *)
LEMMA MergedPoints ==
  ASSUME NEW a \in Clause, NEW b \in Clause,
         CmpLo(a, b) # 1, OverlapsOrAdjacent(a, b)
  PROVE  /\ UnionAdjacent(a, b) \in Clause
         /\ UnionAdjacent(a, b).lo = a.lo
         /\ \A x \in Point : Within(UnionAdjacent(a, b), x) <=> Within(a, x) \/ Within(b, x)
<1> DEFINE hi == LaterEnd(a.hi, b.hi)
           pre == a.pre \cup b.pre
<1>1. hi \in Bound /\ \A x \in Point : EndsAt(hi, x) <=> EndsAt(a.hi, x) \/ EndsAt(b.hi, x)
  BY ClauseType, LaterEndIsOr
<1>2. pre \in SUBSET {Triple(w) : w \in Version}
  BY ClauseType
<1>3. UnionAdjacent(a, b) = Interval(a.lo, hi, pre)
  BY DEF UnionAdjacent
<1> HIDE DEF hi, pre
<1>4. /\ Interval(a.lo, hi, pre) \in Clause
      /\ Interval(a.lo, hi, pre).lo = a.lo /\ Interval(a.lo, hi, pre).hi = hi
  BY <1>1, <1>2, ClauseType, IntervalType
<1>5. \A x \in Point : StartsAt(b.lo, x) => StartsAt(a.lo, x)
  BY StartOrder
<1>6. \A x \in Point : EndsAt(a.hi, x) \/ StartsAt(b.lo, x)
  BY NothingBetween
<1> QED BY <1>1, <1>3, <1>4, <1>5, <1>6 DEF Within
--------------------------------------------------------------------------------
(* Starts that differ differ at a point.                                    *)
LEMMA SameStart ==
  ASSUME NEW a \in Bound, NEW b \in Bound,
         \A x \in Point : StartsAt(a, x) <=> StartsAt(b, x)
  PROVE  a = b
<1> USE BoundType
<1>0. \A v \in Version : Compare(v, v) = 0
  BY Order
<1>1. \A v \in Version : <<v, -1>> \in Point /\ <<v, 0>> \in Point
  BY DEF Point
<1>2. ASSUME NEW c \in Bound, NEW d \in Bound, c.set,
             \A x \in Point : StartsAt(d, x) => StartsAt(c, x)
      PROVE  d.set /\ Compare(c.at, d.at) # 1
  <2>1. Side(<<c.at, -1>>, c.at) = -1
    BY <1>0 DEF Side
  <2>2. ~StartsAt(d, <<c.at, -1>>)
    <3>1. ~StartsAt(c, <<c.at, -1>>) BY <1>2, <2>1 DEF StartsAt
    <3>2. <<c.at, -1>> \in Point BY <1>1
    <3> QED BY <1>2, <3>1, <3>2
  <2>3. Compare(c.at, d.at) = 1 => Side(<<c.at, -1>>, d.at) = 1
    BY DEF Side
  <2> QED BY <2>2, <2>3 DEF StartsAt
<1>3. CASE ~a.set
  BY <1>2, <1>3
<1>4. CASE a.set
  <2>1. b.set /\ Compare(a.at, b.at) # 1
    BY <1>2, <1>4
  <2>2. Compare(b.at, a.at) # 1
    BY <1>2, <2>1
  <2>3. a.at = b.at
    BY <2>1, <2>2, Order, IdentityAssumption
  <2>4. Side(<<a.at, 0>>, a.at) = 0
    BY <1>0 DEF Side
  <2>5. a.incl <=> b.incl
    <3>1. <<a.at, 0>> \in Point BY <1>1
    <3>2. StartsAt(a, <<a.at, 0>>) <=> a.incl BY <1>4, <2>4 DEF StartsAt
    <3>3. StartsAt(b, <<a.at, 0>>) <=> b.incl BY <2>1, <2>3, <2>4 DEF StartsAt
    <3> QED BY <3>1, <3>2, <3>3
  <2> QED BY <1>4, <2>1, <2>3, <2>5
<1> QED BY <1>3, <1>4

(* Ends that differ differ at a point.                                      *)
LEMMA SameEnd ==
  ASSUME NEW a \in Bound, NEW b \in Bound,
         \A x \in Point : EndsAt(a, x) <=> EndsAt(b, x)
  PROVE  a = b
<1> USE BoundType
<1>0. \A v \in Version : Compare(v, v) = 0
  BY Order
<1>1. \A v \in Version : <<v, 1>> \in Point /\ <<v, 0>> \in Point
  BY DEF Point
<1>2. ASSUME NEW c \in Bound, NEW d \in Bound, c.set,
             \A x \in Point : EndsAt(d, x) => EndsAt(c, x)
      PROVE  d.set /\ Compare(c.at, d.at) # -1
  <2>1. Side(<<c.at, 1>>, c.at) = 1
    BY <1>0 DEF Side
  <2>2. ~EndsAt(d, <<c.at, 1>>)
    <3>1. ~EndsAt(c, <<c.at, 1>>) BY <1>2, <2>1 DEF EndsAt
    <3>2. <<c.at, 1>> \in Point BY <1>1
    <3> QED BY <1>2, <3>1, <3>2
  <2>3. Compare(c.at, d.at) = -1 => Side(<<c.at, 1>>, d.at) = -1
    BY DEF Side
  <2> QED BY <2>2, <2>3 DEF EndsAt
<1>3. CASE ~a.set
  BY <1>2, <1>3
<1>4. CASE a.set
  <2>1. b.set /\ Compare(a.at, b.at) # -1
    BY <1>2, <1>4
  <2>2. Compare(b.at, a.at) # -1
    BY <1>2, <2>1
  <2>3. a.at = b.at
    BY <2>1, <2>2, Order, IdentityAssumption
  <2>4. Side(<<a.at, 0>>, a.at) = 0
    BY <1>0 DEF Side
  <2>5. a.incl <=> b.incl
    <3>1. <<a.at, 0>> \in Point BY <1>1
    <3>2. EndsAt(a, <<a.at, 0>>) <=> a.incl BY <1>4, <2>4 DEF EndsAt
    <3>3. EndsAt(b, <<a.at, 0>>) <=> b.incl BY <2>1, <2>3, <2>4 DEF EndsAt
    <3> QED BY <3>1, <3>2, <3>3
  <2> QED BY <1>4, <2>1, <2>3, <2>5
<1> QED BY <1>3, <1>4

(* Points are in an order: what is below a version is not above one that is *)
(* lower.                                                                   *)
LEMMA PointsOrdered ==
  ASSUME NEW x \in Point, NEW y \in Point, NEW u \in Version, NEW w \in Version,
         Side(x, u) = -1, Side(y, u) # -1, Side(x, w) # -1
  PROVE  Side(y, w) = 1
<1>1. Compare(u, w) \in {-1, 0, 1} BY Order
<1>2. CASE Compare(u, w) = 0
  BY <1>2, Sides
<1>3. CASE Compare(u, w) = 1
  BY <1>3, Sides
<1>4. CASE Compare(u, w) = -1
  <2>1. Compare(w, u) = 1 BY <1>4, Order
  <2> QED BY <2>1, Sides
<1> QED BY <1>1, <1>2, <1>3, <1>4

(* A point past an end lies above every start that a point before the end   *)
(* lies above.                                                              *)
LEMMA PastTheEnd ==
  ASSUME NEW lo \in Bound, NEW hi \in Bound, NEW x \in Point, NEW y \in Point,
         StartsAt(lo, x), EndsAt(hi, x), ~EndsAt(hi, y)
  PROVE  StartsAt(lo, y)
<1> USE BoundType
<1> SUFFICES ASSUME lo.set PROVE StartsAt(lo, y)
  BY DEF StartsAt
<1>1. hi.set /\ Side(y, hi.at) # -1 /\ (Side(y, hi.at) = 0 => ~hi.incl)
  BY DEF EndsAt
<1>2. Side(x, lo.at) \in {0, 1} /\ Side(x, hi.at) \in {-1, 0}
  BY <1>1 DEF StartsAt, EndsAt
<1>3. /\ Side(y, lo.at) \in {-1, 0, 1} /\ Side(y, hi.at) \in {-1, 0, 1}
  BY Sides
<1>4. CASE Side(x, hi.at) = -1
  BY <1>1, <1>2, <1>4, PointsOrdered DEF StartsAt
<1>5. CASE Side(x, hi.at) = 0
  <2>1. hi.incl /\ Side(y, hi.at) = 1
    BY <1>1, <1>3, <1>5 DEF EndsAt
  <2>2. CASE Compare(lo.at, hi.at) = 1
    BY <2>2, <1>2, <1>5, Sides
  <2>3. CASE Compare(lo.at, hi.at) = 0
    BY <2>1, <2>3, Sides DEF StartsAt
  <2>4. CASE Compare(lo.at, hi.at) = -1
    <3>1. Compare(hi.at, lo.at) = 1 BY <2>4, Order
    <3> QED BY <2>1, <3>1, Sides DEF StartsAt
  <2> QED BY <2>2, <2>3, <2>4, Order
<1> QED BY <1>2, <1>4, <1>5

(* An end that is not open has a first point past it.                       *)
FirstPast(b) == IF b.incl THEN <<b.at, 1>> ELSE <<b.at, 0>>
(* Whatever ends there has ended, and whatever starts there has started, at *)
(* any later point.                                                         *)
LEMMA FirstPastFacts ==
  ASSUME NEW b \in Bound, b.set
  PROVE  /\ FirstPast(b) \in Point
         /\ ~EndsAt(b, FirstPast(b))
         /\ \A x \in Point : ~EndsAt(b, x) =>
              /\ \A c \in Bound : EndsAt(c, x) => EndsAt(c, FirstPast(b))
              /\ \A c \in Bound : StartsAt(c, FirstPast(b)) => StartsAt(c, x)
<1> USE BoundType
<1> DEFINE z == FirstPast(b)
<1>0. Compare(b.at, b.at) = 0
  BY Order
<1>1. z \in Point /\ z[1] = b.at /\ z[2] = IF b.incl THEN 1 ELSE 0
  BY DEF FirstPast, Point
<1>2. \A u \in Version : Side(z, u) = IF Compare(b.at, u) = 0 THEN z[2] ELSE Compare(b.at, u)
  BY <1>1 DEF Side
<1> HIDE DEF z
<1>3. Side(z, b.at) = z[2]
  BY <1>0, <1>2
<1>4. ~EndsAt(b, z)
  BY <1>1, <1>3 DEF EndsAt
<1>5. ASSUME NEW x \in Point, ~EndsAt(b, x), NEW c \in Bound, c.set
      PROVE  /\ EndsAt(c, x) => EndsAt(c, z)
             /\ StartsAt(c, z) => StartsAt(c, x)
  <2>1. Side(x, b.at) # -1 /\ (Side(x, b.at) = 0 => ~b.incl) /\ Side(x, b.at) \in {-1, 0, 1}
    BY <1>5, Sides DEF EndsAt
  <2>2. CASE Compare(b.at, c.at) = 0
    <3>1. Side(z, c.at) = z[2] /\ Side(x, c.at) = Side(x, b.at)
      BY <1>2, <2>2, Sides
    <3> QED BY <3>1, <2>1, <1>1, <1>5 DEF StartsAt, EndsAt
  <2>3. CASE Compare(b.at, c.at) = 1
    <3>1. Side(x, c.at) = 1
      BY <2>1, <2>3, Sides
    <3> QED BY <3>1, <1>5 DEF StartsAt, EndsAt
  <2>4. CASE Compare(b.at, c.at) = -1
    <3>1. Side(z, c.at) = -1
      BY <1>2, <2>4
    <3> QED BY <3>1, <1>5 DEF StartsAt, EndsAt
  <2> QED BY <2>2, <2>3, <2>4, Order
<1>6. ASSUME NEW x \in Point, ~EndsAt(b, x), NEW c \in Bound
      PROVE  /\ EndsAt(c, x) => EndsAt(c, z)
             /\ StartsAt(c, z) => StartsAt(c, x)
  BY <1>5, <1>6 DEF StartsAt, EndsAt
<1> QED BY <1>1, <1>4, <1>6 DEF z
--------------------------------------------------------------------------------
(* Induction over the subsets of a finite set.                              *)
LEMMA SubsetInduction ==
  ASSUME NEW S, IsFiniteSet(S), NEW Q,
         \A s \in SUBSET S : (\A t \in SUBSET s : t # s => t \in Q) => s \in Q
  PROVE  SUBSET S \subseteq Q
<1> SUFFICES ASSUME ~(SUBSET S \subseteq Q) PROVE FALSE
  OBVIOUS
<1> DEFINE T == {s \in SUBSET S : s \notin Q}
<1>1. IsWellFoundedOn(StrictSubsetOrdering(S), FiniteSubsetsOf(S))
  BY FS_StrictSubsetOrderingWellFounded
<1>2. T \subseteq FiniteSubsetsOf(S) /\ T # {}
  BY FS_Subset DEF FiniteSubsetsOf
<1>3. \E s \in T : \A t \in T : ~ (<<t, s>> \in StrictSubsetOrdering(S))
  <2> HIDE DEF T
  <2> QED BY <1>1, <1>2, WFMin
<1>4. PICK s \in T : \A t \in T : ~ (<<t, s>> \in StrictSubsetOrdering(S))
  BY <1>3
<1>5. \A t \in SUBSET s : t # s => t \in Q
  <2> SUFFICES ASSUME NEW t \in SUBSET s, t # s, t \notin Q PROVE FALSE
    OBVIOUS
  <2>1. t \in T /\ t \in SUBSET S
    OBVIOUS
  <2>2. <<t, s>> \in StrictSubsetOrdering(S)
    BY <2>1 DEF StrictSubsetOrdering
  <2> QED BY <1>4, <2>1, <2>2
<1> QED BY <1>5

(* Some element of a finite set comes last in any order of it, ties apart.  *)
LEMMA SomeLast ==
  ASSUME NEW S, IsFiniteSet(S), S # {}, NEW Le,
         \A a, b \in S : <<a, b>> \in Le \/ <<b, a>> \in Le,
         \A a, b, c \in S : <<a, b>> \in Le /\ <<b, c>> \in Le => <<a, c>> \in Le
  PROVE  \E c \in S : \A d \in S : <<d, c>> \in Le
<1> DEFINE Q == {s \in SUBSET S : s # {} => \E c \in s : \A d \in s : <<d, c>> \in Le}
<1>1. ASSUME NEW s \in SUBSET S, \A t \in SUBSET s : t # s => t \in Q
      PROVE  s \in Q
  <2> SUFFICES ASSUME s # {} PROVE \E c \in s : \A d \in s : <<d, c>> \in Le
    OBVIOUS
  <2>1. PICK a \in s : TRUE
    OBVIOUS
  <2>2. s \ {a} \in Q
    BY <1>1, <2>1
  <2>3. CASE s \ {a} = {}
    BY <2>1, <2>3
  <2>4. CASE s \ {a} # {}
    <3>1. PICK c \in s \ {a} : \A d \in s \ {a} : <<d, c>> \in Le
      BY <2>2, <2>4
    <3>2. CASE <<a, c>> \in Le
      BY <3>1, <3>2
    <3>3. CASE <<c, a>> \in Le
      BY <2>1, <3>1, <3>3
    <3> QED BY <2>1, <3>1, <3>2, <3>3
  <2> QED BY <2>3, <2>4
<1>2. SUBSET S \subseteq Q
  <2> HIDE DEF Q
  <2> QED BY <1>1, SubsetInduction
<1> QED BY <1>2

(* The greatest and the least of a finite set of numbers.                   *)
LEMMA MaxMinFacts ==
  ASSUME NEW S, IsFiniteSet(S), S \subseteq Int, S # {}
  PROVE  /\ Max(S) \in S /\ \A k \in S : k <= Max(S)
         /\ Min(S) \in S /\ \A k \in S : Min(S) <= k
<1>1. \E k \in S : \A l \in S : l <= k
  <2> DEFINE Le == {e \in S \X S : e[1] <= e[2]}
  <2>1. \A a, b \in S : <<a, b>> \in Le <=> a <= b
    OBVIOUS
  <2>2. \A a, b \in S : a <= b \/ b <= a
    OBVIOUS
  <2>3. \A a, b, c \in S : a <= b /\ b <= c => a <= c
    OBVIOUS
  <2> HIDE DEF Le
  <2>4. \A a, b \in S : <<a, b>> \in Le \/ <<b, a>> \in Le
    BY <2>1, <2>2
  <2>5. \A a, b, c \in S : <<a, b>> \in Le /\ <<b, c>> \in Le => <<a, c>> \in Le
    BY <2>1, <2>3
  <2>6. \E k \in S : \A l \in S : <<l, k>> \in Le
    BY <2>4, <2>5, SomeLast
  <2> QED BY <2>1, <2>6
<1>2. \E k \in S : \A l \in S : k <= l
  <2> DEFINE Le == {e \in S \X S : e[2] <= e[1]}
  <2>1. \A a, b \in S : <<a, b>> \in Le <=> b <= a
    OBVIOUS
  <2>2. \A a, b \in S : a <= b \/ b <= a
    OBVIOUS
  <2>3. \A a, b, c \in S : a <= b /\ b <= c => a <= c
    OBVIOUS
  <2> HIDE DEF Le
  <2>4. \A a, b \in S : <<a, b>> \in Le \/ <<b, a>> \in Le
    BY <2>1, <2>2
  <2>5. \A a, b, c \in S : <<a, b>> \in Le /\ <<b, c>> \in Le => <<a, c>> \in Le
    BY <2>1, <2>3
  <2>6. \E k \in S : \A l \in S : <<l, k>> \in Le
    BY <2>4, <2>5, SomeLast
  <2> QED BY <2>1, <2>6
<1>3. \E k \in S : \A l \in S : k >= l
  BY <1>1
<1>4. Max(S) \in S /\ \A l \in S : Max(S) >= l
  BY <1>3 DEF Max
<1>5. Min(S) \in S /\ \A l \in S : Min(S) <= l
  BY <1>2 DEF Min
<1> QED BY <1>4, <1>5

(* Induction on numbers.                                                    *)
LEMMA NumberInduction ==
  ASSUME NEW K, 0 \in K, \A n \in Nat : n \in K => n + 1 \in K
  PROVE  \A n \in Nat : n \in K
<1> SUFFICES ASSUME NEW n \in Nat, n \notin K PROVE FALSE
  OBVIOUS
<1> DEFINE S == {k \in 0..n : k \notin K}
           Le == {e \in S \X S : e[1] >= e[2]}
<1>1. IsFiniteSet(S) /\ S # {}
  <2>1. IsFiniteSet(0..n) BY FS_Interval
  <2>2. S \in SUBSET (0..n) /\ n \in S OBVIOUS
  <2> HIDE DEF S
  <2> QED BY <2>1, <2>2, FS_Subset
<1>2. \A a, b \in S : <<a, b>> \in Le <=> a >= b
  OBVIOUS
<1>3. S \subseteq Nat
  OBVIOUS
<1>4. \E k \in S : \A l \in S : <<l, k>> \in Le
  <2>0. \A a, b \in S : a >= b \/ b >= a
    BY <1>3
  <2>1. \A a, b \in S : <<a, b>> \in Le \/ <<b, a>> \in Le
    <3> HIDE DEF S, Le
    <3> QED BY <1>2, <2>0
  <2>2. \A a, b, c \in S : <<a, b>> \in Le /\ <<b, c>> \in Le => <<a, c>> \in Le
    BY <1>2, <1>3
  <2> HIDE DEF S, Le
  <2> QED BY <1>1, <2>1, <2>2, SomeLast
<1>5. PICK k \in S : \A l \in S : l >= k
  BY <1>2, <1>4
<1>6. k # 0 /\ k \in Nat /\ k - 1 \in Nat /\ k - 1 \in 0..n
  OBVIOUS
<1>7. k - 1 \in K
  BY <1>5, <1>6
<1> QED BY <1>6, <1>7

(* A function defined by taking out elements of a finite set one by one is  *)
(* there: what the folds are made of.                                       *)
TakesOut(ch, S) == ch \in [(SUBSET S) \ {{}} -> S] /\ \A s \in (SUBSET S) \ {{}} : ch[s] \in s
Folded(f, S, base, op, ch) ==
  \A s \in SUBSET S : f[s] = IF s = {} THEN base ELSE op[<<ch[s], f[s \ {ch[s]}]>>]
(* Such a function exists, whatever is taken out first.                     *)
LEMMA FoldExists ==
  ASSUME NEW S, IsFiniteSet(S), NEW V, NEW base \in V, NEW op \in [S \X V -> V],
         NEW ch, TakesOut(ch, S)
  PROVE  \E f \in [SUBSET S -> V] : Folded(f, S, base, op, ch)
<1> USE DEF TakesOut
<1> DEFINE Step(f, s) == IF s = {} THEN base ELSE op[<<ch[s], f[s \ {ch[s]}]>>]
           K == {n \in Nat : \E f \in [SUBSET S -> V] :
                   \A s \in SUBSET S : Cardinality(s) <= n => f[s] = Step(f, s)}
<1>0. \A s \in SUBSET S : IsFiniteSet(s) /\ Cardinality(s) \in Nat
  BY FS_Subset, FS_CardinalityType
<1>1. 0 \in K
  <2> DEFINE f == [s \in SUBSET S |-> base]
  <2>1. \A s \in SUBSET S : Cardinality(s) <= 0 => f[s] = Step(f, s)
    BY <1>0, FS_EmptySet
  <2> QED BY <2>1
<1>2. ASSUME NEW n \in Nat, n \in K
      PROVE  n + 1 \in K
  <2>1. PICK f \in [SUBSET S -> V] :
          \A s \in SUBSET S : Cardinality(s) <= n => f[s] = Step(f, s)
    BY <1>2
  <2>2. \A s \in SUBSET S : s # {} =>
          /\ ch[s] \in S
          /\ s \ {ch[s]} \in SUBSET S
          /\ Cardinality(s \ {ch[s]}) = Cardinality(s) - 1
    BY <1>0, FS_RemoveElement
  <2>3. \A s \in SUBSET S : Step(f, s) \in V
    BY <2>2
  <2> DEFINE g == [s \in SUBSET S |-> IF Cardinality(s) <= n THEN f[s] ELSE Step(f, s)]
  <2>4. g \in [SUBSET S -> V]
    BY <2>3
  <2>5. ASSUME NEW s \in SUBSET S, Cardinality(s) <= n + 1
        PROVE  g[s] = Step(g, s)
    <3>1. CASE s = {}
      <4>1. Cardinality(s) = 0 BY <3>1, FS_EmptySet
      <4>2. g[s] = f[s] /\ f[s] = Step(f, s) BY <2>1, <4>1
      <4> QED BY <3>1, <4>2
    <3>2. CASE s # {}
      <4>1. /\ s \ {ch[s]} \in SUBSET S
            /\ Cardinality(s \ {ch[s]}) <= n
        BY <2>2, <2>5, <3>2, <1>0
      <4>2. g[s \ {ch[s]}] = f[s \ {ch[s]}]
        BY <4>1
      <4>3. g[s] = Step(f, s)
        BY <2>1
      <4>4. Step(g, s) = Step(f, s)
        BY <3>2, <4>2
      <4> QED BY <4>3, <4>4
    <3> QED BY <3>1, <3>2
  <2>6. \E h \in [SUBSET S -> V] :
          \A s \in SUBSET S : Cardinality(s) <= n + 1 => h[s] = Step(h, s)
    <3> HIDE DEF g, Step
    <3> QED BY <2>4, <2>5
  <2>7. n + 1 \in Nat OBVIOUS
  <2> HIDE DEF Step
  <2> QED BY <2>6, <2>7
<1>3. Cardinality(S) \in K
  <2>1. \A n \in Nat : n \in K
    <3> HIDE DEF K
    <3> QED BY <1>1, <1>2, NumberInduction
  <2> QED BY <2>1, <1>0
<1>4. PICK f \in [SUBSET S -> V] :
        \A s \in SUBSET S : Cardinality(s) <= Cardinality(S) => f[s] = Step(f, s)
  BY <1>3
<1>5. \A s \in SUBSET S : f[s] = Step(f, s)
  BY <1>4, FS_Subset
<1> QED BY <1>5 DEF Folded
--------------------------------------------------------------------------------
(* A clause merged with another is a clause.                                *)
LEMMA UnionType ==
  ASSUME NEW a \in Clause, NEW b \in Clause
  PROVE  UnionAdjacent(a, b) \in Clause
<1>1. LaterEnd(a.hi, b.hi) \in Bound
  BY ClauseType, LaterEndIsOr
<1>2. a.pre \cup b.pre \in SUBSET {Triple(w) : w \in Version}
  BY ClauseType
<1> QED BY <1>1, <1>2, ClauseType, IntervalType DEF UnionAdjacent

(* What normalize does to its slice with one more clause.                   *)
Meets(m, c) == m # <<>> /\ OverlapsOrAdjacent(m[Len(m)], c)
(* One clause is added, or the last one is extended (normalize).            *)
LEMMA MergeIntoIs ==
  ASSUME NEW m \in Seq(Clause), NEW c \in Clause
  PROVE  /\ MergeInto(m, c) \in Seq(Clause)
         /\ Meets(m, c) =>
              /\ Len(m) \in Nat \ {0}
              /\ Len(MergeInto(m, c)) = Len(m)
              /\ \A i \in 1..Len(m) : MergeInto(m, c)[i] = IF i = Len(m) THEN UnionAdjacent(m[i], c) ELSE m[i]
         /\ ~Meets(m, c) =>
              /\ Len(MergeInto(m, c)) = Len(m) + 1
              /\ \A i \in 1..(Len(m) + 1) : MergeInto(m, c)[i] = IF i = Len(m) + 1 THEN c ELSE m[i]
<1>1. CASE Meets(m, c)
  <2> DEFINE k == Len(m)
             u == UnionAdjacent(m[k], c)
  <2>1. k \in Nat \ {0} /\ m[k] \in Clause
    BY <1>1, EmptySeq DEF Meets
  <2>2. u \in Clause
    BY <2>1, UnionType
  <2>3. MergeInto(m, c) = SubSeq(m, 1, k - 1) \o <<u>>
    BY <1>1 DEF Meets, MergeInto, Last, Front
  <2> HIDE DEF u
  <2>4. /\ SubSeq(m, 1, k - 1) \in Seq(Clause)
        /\ Len(SubSeq(m, 1, k - 1)) = k - 1
        /\ \A i \in 1..(k - 1) : SubSeq(m, 1, k - 1)[i] = m[i]
    <3>1. k - 1 \in Int /\ k - 1 >= 0 /\ \A i \in 1..(k - 1) : m[i] \in Clause
      BY <2>1
    <3> HIDE DEF k
    <3>2. /\ SubSeq(m, 1, k - 1) \in Seq(Clause)
          /\ Len(SubSeq(m, 1, k - 1)) = IF 1 <= k - 1 THEN k - 1 - 1 + 1 ELSE 0
          /\ \A i \in 1..(k - 1 - 1 + 1) : SubSeq(m, 1, k - 1)[i] = m[1 + i - 1]
      BY <3>1, SubSeqProperties
    <3>3. k - 1 - 1 + 1 = k - 1 /\ \A i \in 1..(k - 1) : 1 + i - 1 = i
      BY <3>1
    <3> QED BY <2>1, <3>2, <3>3
  <2>5. /\ MergeInto(m, c) \in Seq(Clause)
        /\ Len(MergeInto(m, c)) = k
        /\ \A i \in 1..k : MergeInto(m, c)[i] = IF i = k THEN u ELSE m[i]
    BY <2>1, <2>2, <2>3, <2>4
  <2> QED BY <1>1, <2>1, <2>5 DEF u
<1>2. CASE ~Meets(m, c)
  <2>1. MergeInto(m, c) = Append(m, c)
    BY <1>2 DEF Meets, MergeInto, Last
  <2> QED BY <1>2, <2>1
<1> QED BY <1>1, <1>2

(* Clauses that are apart from one another, in order.                       *)
Normal(m) ==
  /\ m \in Seq(Clause)
  /\ \A i \in DOMAIN m : ~ClauseIsEmpty(m[i])
  /\ \A i, j \in DOMAIN m : i < j => ~OverlapsOrAdjacent(m[i], m[j])
(* They hold the points of a set of clauses, and start where those do.      *)
Covers(m, S) ==
  /\ \A x \in Point : (\E i \in DOMAIN m : Within(m[i], x)) <=> (\E c \in S : Within(c, x))
  /\ \A i \in DOMAIN m : \E c \in S : m[i].lo = c.lo

(* A clause that starts no earlier than those before it keeps the slice in  *)
(* normal form (normalize).                                                 *)
LEMMA MergeIntoKeepsNormal ==
  ASSUME NEW S \in SUBSET Clause, NEW m, Normal(m), Covers(m, S),
         NEW c \in Clause, ~ClauseIsEmpty(c), \A d \in S : CmpLo(d, c) # 1
  PROVE  Normal(MergeInto(m, c)) /\ Covers(MergeInto(m, c), S \cup {c})
<1> DEFINE n == MergeInto(m, c)
           k == Len(m)
<1>0. m \in Seq(Clause) /\ n \in Seq(Clause) /\ k \in Nat /\ DOMAIN m = 1..k /\ DOMAIN n = 1..Len(n)
  BY MergeIntoIs DEF Normal
<1>1. \A i \in 1..k : m[i] \in Clause /\ CmpLo(m[i], c) # 1
  <2> SUFFICES ASSUME NEW i \in 1..k PROVE CmpLo(m[i], c) # 1
    BY <1>0
  <2>1. PICK d \in S : m[i].lo = d.lo
    BY <1>0 DEF Covers
  <2>2. CmpLo(m[i], c) = CmpLo(d, c)
    BY <2>1 DEF CmpLo
  <2> QED BY <2>2
<1>2. CASE Meets(m, c)
  <2> DEFINE u == UnionAdjacent(m[k], c)
  <2>1. /\ k \in Nat \ {0} /\ Len(n) = k
        /\ \A i \in 1..k : n[i] = IF i = k THEN u ELSE m[i]
    <3>1. /\ Len(m) \in Nat \ {0}
          /\ Len(n) = Len(m)
          /\ \A i \in 1..Len(m) : n[i] = IF i = Len(m) THEN UnionAdjacent(m[i], c) ELSE m[i]
      BY <1>0, <1>2, MergeIntoIs
    <3> HIDE DEF n
    <3> QED BY <3>1
  <2>2. k \in 1..k /\ OverlapsOrAdjacent(m[k], c)
    BY <1>2, <2>1 DEF Meets
  <2>3. /\ u \in Clause /\ u.lo = m[k].lo
        /\ \A x \in Point : Within(u, x) <=> Within(m[k], x) \/ Within(c, x)
    BY <1>1, <2>2, MergedPoints
  <2> HIDE DEF u, n
  <2>4. ~ClauseIsEmpty(u)
    BY <2>3, EmptyMeansNoPoint
  <2>5. \A a : OverlapsOrAdjacent(a, u) = OverlapsOrAdjacent(a, m[k])
    BY <2>3 DEF OverlapsOrAdjacent
  <2>6. Normal(n)
    <3>1. \A i \in DOMAIN n : ~ClauseIsEmpty(n[i])
      BY <1>0, <2>1, <2>4 DEF Normal
    <3>2. ASSUME NEW i \in DOMAIN n, NEW j \in DOMAIN n, i < j
          PROVE  ~OverlapsOrAdjacent(n[i], n[j])
      <4>0. i \in 1..k /\ j \in 1..k
        BY <1>0, <2>1
      <4>1. i \in 1..k /\ j \in 1..k /\ i # k /\ n[i] = m[i]
        <5>1. i # k BY <4>0, <3>2, <1>0
        <5> QED BY <4>0, <5>1, <2>1
      <4>2. ~OverlapsOrAdjacent(m[i], m[j])
        BY <4>1, <1>0, <3>2 DEF Normal
      <4>3. CASE j = k
        BY <4>1, <4>2, <4>3, <2>1, <2>5
      <4>4. CASE j # k
        BY <4>1, <4>2, <4>4, <2>1
      <4> QED BY <4>3, <4>4
    <3> QED BY <1>0, <3>1, <3>2 DEF Normal, n
  <2>7. Covers(n, S \cup {c})
    <3>1. ASSUME NEW x \in Point
          PROVE  (\E i \in DOMAIN n : Within(n[i], x)) <=> (\E d \in S \cup {c} : Within(d, x))
      <4>1. (\E i \in 1..k : Within(n[i], x)) <=> (\E i \in 1..k : Within(m[i], x)) \/ Within(c, x)
        BY <2>1, <2>2, <2>3
      <4>2. (\E i \in 1..k : Within(m[i], x)) <=> (\E d \in S : Within(d, x))
        BY <1>0 DEF Covers
      <4> QED BY <1>0, <2>1, <4>1, <4>2
    <3>2. ASSUME NEW i \in DOMAIN n PROVE \E d \in S \cup {c} : n[i].lo = d.lo
      <4>1. i \in 1..k /\ n[i].lo = m[i].lo
        BY <1>0, <2>1, <2>3
      <4> QED BY <4>1, <1>0 DEF Covers
    <3> QED BY <3>1, <3>2 DEF Covers
  <2> QED BY <2>6, <2>7 DEF n
<1>3. CASE ~Meets(m, c)
  <2>1. /\ Len(n) = k + 1
        /\ \A i \in 1..(k + 1) : n[i] = IF i = k + 1 THEN c ELSE m[i]
    BY <1>0, <1>3, MergeIntoIs
  <2> HIDE DEF n
  <2>2. \A i \in 1..k : ~OverlapsOrAdjacent(m[i], c)
    <3> SUFFICES ASSUME NEW i \in 1..k PROVE ~OverlapsOrAdjacent(m[i], c)
      OBVIOUS
    <3>1. k # 0 /\ k \in 1..k /\ m # <<>>
      BY <1>0
    <3>2. CASE i = k
      BY <1>3, <3>1, <3>2 DEF Meets
    <3>3. CASE i # k
      <4>1. ~OverlapsOrAdjacent(m[i], m[k])
        <5>1. i < k /\ i \in DOMAIN m /\ k \in DOMAIN m
          <6> HIDE DEF k
          <6> QED BY <1>0, <3>1, <3>3
        <5> HIDE DEF k
        <5> QED BY <5>1 DEF Normal
      <4>2. PICK x \in Point : ~EndsAt(m[i].hi, x) /\ ~StartsAt(m[k].lo, x)
        BY <4>1, <1>1, <3>1, NothingBetween
      <4>3. ~StartsAt(c.lo, x)
        BY <4>2, <1>1, <3>1, StartOrder
      <4> QED BY <4>2, <4>3, <1>1, NothingBetween
    <3> QED BY <3>2, <3>3
  <2>3. Normal(n)
    <3>1. \A i \in DOMAIN n : ~ClauseIsEmpty(n[i])
      BY <1>0, <2>1 DEF Normal
    <3>2. ASSUME NEW i \in DOMAIN n, NEW j \in DOMAIN n, i < j
          PROVE  ~OverlapsOrAdjacent(n[i], n[j])
      <4>1. i \in 1..k /\ j \in 1..(k + 1) /\ n[i] = m[i]
        BY <1>0, <2>1, <3>2
      <4>2. CASE j = k + 1
        BY <4>1, <4>2, <2>1, <2>2
      <4>3. CASE j # k + 1
        <5>1. j \in 1..k /\ n[j] = m[j]
          BY <4>1, <4>3, <2>1, <1>0
        <5> QED BY <4>1, <5>1, <1>0, <3>2 DEF Normal
      <4> QED BY <4>2, <4>3
    <3> QED BY <1>0, <3>1, <3>2 DEF Normal, n
  <2>4. Covers(n, S \cup {c})
    <3>1. ASSUME NEW x \in Point
          PROVE  (\E i \in DOMAIN n : Within(n[i], x)) <=> (\E d \in S \cup {c} : Within(d, x))
      <4>1. \A i \in 1..k : i \in 1..(k + 1) /\ i # k + 1
        BY <1>0
      <4>2. k + 1 \in 1..(k + 1) /\ \A i \in 1..(k + 1) : i = k + 1 \/ i \in 1..k
        BY <1>0
      <4>3. (\E i \in 1..(k + 1) : Within(n[i], x)) <=> (\E i \in 1..k : Within(m[i], x)) \/ Within(c, x)
        BY <2>1, <4>1, <4>2
      <4>4. (\E i \in 1..k : Within(m[i], x)) <=> (\E d \in S : Within(d, x))
        BY <1>0 DEF Covers
      <4> QED BY <1>0, <2>1, <4>3, <4>4
    <3>2. ASSUME NEW i \in DOMAIN n PROVE \E d \in S \cup {c} : n[i].lo = d.lo
      <4>1. i = k + 1 \/ i \in 1..k
        BY <1>0, <2>1
      <4>2. i \in 1..(k + 1)
        BY <1>0, <2>1
      <4>3. CASE i = k + 1
        BY <4>2, <4>3, <2>1
      <4>4. CASE i \in 1..k /\ i # k + 1
        BY <4>2, <4>4, <2>1, <1>0 DEF Covers
      <4> QED BY <4>1, <4>3, <4>4
    <3> QED BY <3>1, <3>2 DEF Covers
  <2> QED BY <2>3, <2>4 DEF n
<1> QED BY <1>2, <1>3
(* Clauses can be sorted by their starts.                                   *)
LEMMA LastToStartFacts ==
  ASSUME NEW S \in SUBSET Clause, IsFiniteSet(S), S # {}
  PROVE  LastToStart(S) \in S /\ \A d \in S : CmpLo(d, LastToStart(S)) # 1
<1> DEFINE Le == {e \in S \X S : CmpLo(e[1], e[2]) # 1}
<1>1. \A a, b \in S : <<a, b>> \in Le <=> CmpLo(a, b) # 1
  OBVIOUS
<1>2. \A a, b \in S : CmpLo(a, b) # 1 \/ CmpLo(b, a) # 1
  BY Order, ClauseType, BoundType DEF CmpLo
<1>3. \A a, b, c \in S : CmpLo(a, b) # 1 /\ CmpLo(b, c) # 1 => CmpLo(a, c) # 1
  <2> SUFFICES ASSUME NEW a \in S, NEW b \in S, NEW c \in S, CmpLo(a, b) # 1, CmpLo(b, c) # 1
               PROVE  CmpLo(a, c) # 1
    OBVIOUS
  <2>1. a \in Clause /\ b \in Clause /\ c \in Clause
    OBVIOUS
  <2>2. \A x \in Point : StartsAt(b.lo, x) => StartsAt(a.lo, x)
    BY <2>1, StartOrder
  <2>3. \A x \in Point : StartsAt(c.lo, x) => StartsAt(b.lo, x)
    BY <2>1, StartOrder
  <2> QED BY <2>1, <2>2, <2>3, StartOrder
<1>4. \E c \in S : \A d \in S : <<d, c>> \in Le
  <2> HIDE DEF Le
  <2>1. \A a, b \in S : <<a, b>> \in Le \/ <<b, a>> \in Le
    BY <1>1, <1>2
  <2>2. \A a, b, c \in S : <<a, b>> \in Le /\ <<b, c>> \in Le => <<a, c>> \in Le
    BY <1>1, <1>3
  <2> QED BY <2>1, <2>2, SomeLast
<1>5. \E c \in S : \A d \in S : CmpLo(d, c) # 1
  BY <1>1, <1>4
<1> QED BY <1>5 DEF LastToStart

(* What normalize makes of a range is in normal form and has its points.    *)
LEMMA NormalizeFacts ==
  ASSUME NEW r \in NpmRange
  PROVE  /\ Normal(Normalize(r))
         /\ \A x \in Point : (\E i \in DOMAIN Normalize(r) : Within(Normalize(r)[i], x)) <=> x \in Points(r)
<1> DEFINE S == {c \in r : ~ClauseIsEmpty(c)}
           Rec(f, s) == IF s = {} THEN <<>> ELSE MergeInto(f[s \ {LastToStart(s)}], LastToStart(s))
           Def(f) == f = [s \in SUBSET S |-> Rec(f, s)]
           V == Seq(Clause)
<1>1. r \in SUBSET Clause /\ S \in SUBSET Clause /\ IsFiniteSet(S)
  BY FS_Subset DEF NpmRange
<1>2. \A s \in SUBSET S : IsFiniteSet(s)
  BY <1>1, FS_Subset
<1>3. \A s \in SUBSET S : s # {} =>
        LastToStart(s) \in s /\ \A d \in s : CmpLo(d, LastToStart(s)) # 1
  BY <1>1, <1>2, LastToStartFacts
<1> HIDE DEF S
<1>4. \E f : Def(f)
  <2> DEFINE ch == [s \in (SUBSET S) \ {{}} |-> LastToStart(s)]
             op == [e \in S \X V |-> MergeInto(e[2], e[1])]
  <2>1. ch \in [(SUBSET S) \ {{}} -> S] /\ \A s \in (SUBSET S) \ {{}} : ch[s] \in s
    BY <1>3
  <2>2. op \in [S \X V -> V]
    BY <1>1, MergeIntoIs
  <2>3. <<>> \in V
    OBVIOUS
  <2>4. TakesOut(ch, S)
    BY <2>1 DEF TakesOut
  <2> HIDE DEF ch, op, V
  <2>5. PICK f \in [SUBSET S -> V] : Folded(f, S, <<>>, op, ch)
    BY <1>1, <2>2, <2>3, <2>4, FoldExists
  <2>6. ASSUME NEW s \in SUBSET S PROVE f[s] = Rec(f, s)
    <3>1. CASE s = {}
      BY <2>5, <3>1 DEF Folded
    <3>2. CASE s # {}
      <4>1. ch[s] = LastToStart(s) /\ ch[s] \in S /\ f[s \ {ch[s]}] \in V
        BY <2>1, <2>5, <3>2 DEF ch
      <4>2. f[s] = op[<<ch[s], f[s \ {ch[s]}]>>]
        BY <2>5, <3>2 DEF Folded
      <4>3. op[<<ch[s], f[s \ {ch[s]}]>>] = MergeInto(f[s \ {ch[s]}], ch[s])
        BY <4>1 DEF op
      <4> QED BY <4>1, <4>2, <4>3, <3>2
    <3> QED BY <3>1, <3>2
  <2>7. Def(f)
    <3> HIDE DEF Rec
    <3> QED BY <2>5, <2>6
  <2> HIDE DEF Def
  <2> QED BY <2>7
<1>5. PICK f : Def(f) /\ Normalize(r) = f[S]
  <2>1. Normalize(r) = (CHOOSE g : Def(g))[S]
    BY DEF Normalize, MapThenFoldSet, S
  <2>2. Def(CHOOSE g : Def(g))
    <3> HIDE DEF Def
    <3> QED BY <1>4
  <2> HIDE DEF Def
  <2> QED BY <2>1, <2>2
<1>6. \A s \in SUBSET S : f[s] = Rec(f, s)
  <2> HIDE DEF Rec
  <2> QED BY <1>5
<1> DEFINE Q == {s \in SUBSET S : Normal(f[s]) /\ Covers(f[s], s)}
<1>7. ASSUME NEW s \in SUBSET S, \A t \in SUBSET s : t # s => t \in Q
      PROVE  s \in Q
  <2>1. CASE s = {}
    <3>1. f[s] = <<>>
      BY <1>6, <2>1
    <3>2. f[s] \in Seq(Clause) /\ DOMAIN f[s] = {}
      BY <3>1
    <3> QED BY <3>2, <2>1 DEF Normal, Covers
  <2>2. CASE s # {}
    <3> DEFINE c == LastToStart(s)
               t == s \ {c}
    <3>1. c \in s /\ \A d \in s : CmpLo(d, c) # 1
      BY <1>3, <2>2
    <3>2. Normal(f[t]) /\ Covers(f[t], t) /\ t \in SUBSET Clause
      BY <1>1, <1>7, <3>1
    <3>3. c \in Clause /\ ~ClauseIsEmpty(c)
      BY <1>1, <3>1 DEF S
    <3>4. f[s] = MergeInto(f[t], c)
      BY <1>6, <2>2
    <3>5. s = t \cup {c}
      BY <3>1
    <3> HIDE DEF c, t
    <3>6. \A d \in t : CmpLo(d, c) # 1
      BY <3>1, <3>5
    <3>7. Normal(MergeInto(f[t], c)) /\ Covers(MergeInto(f[t], c), t \cup {c})
      BY <3>2, <3>3, <3>6, MergeIntoKeepsNormal
    <3> QED BY <3>4, <3>5, <3>7
  <2> QED BY <2>1, <2>2
<1>8. S \in Q
  <2>1. SUBSET S \subseteq Q
    <3> HIDE DEF Q
    <3> QED BY <1>1, <1>7, SubsetInduction
  <2> QED BY <2>1
<1>9. \A x \in Point : (\E c \in S : Within(c, x)) <=> x \in Points(r)
  BY <1>1, EmptyMeansNoPoint DEF Points, S
<1> QED BY <1>5, <1>8, <1>9 DEF Covers
--------------------------------------------------------------------------------
(* Two lists of clauses that stand for the same points.                     *)
SamePoints(m, n) ==
  \A x \in Point : (\E i \in DOMAIN m : Within(m[i], x)) <=> (\E i \in DOMAIN n : Within(n[i], x))
SameInterval(a, b) == a.lo = b.lo /\ a.hi = b.hi

(* The clauses of a normal form are apart and in order.                     *)
LEMMA NormalType ==
  ASSUME NEW m, Normal(m), NEW i \in DOMAIN m
  PROVE  /\ m[i] \in Clause /\ m[i].lo \in Bound /\ m[i].hi \in Bound
         /\ i \in Nat /\ Len(m) \in Nat /\ DOMAIN m = 1..Len(m)
         /\ \E x \in Point : Within(m[i], x)
         /\ \A j \in DOMAIN m : i < j =>
              \E x \in Point : ~EndsAt(m[i].hi, x) /\ ~StartsAt(m[j].lo, x)
<1>1. m \in Seq(Clause) /\ m[i] \in Clause /\ \A j \in DOMAIN m : m[j] \in Clause
  BY DEF Normal
<1>2. \E x \in Point : Within(m[i], x)
  BY <1>1, EmptyMeansNoPoint DEF Normal
<1>3. \A j \in DOMAIN m : i < j => ~OverlapsOrAdjacent(m[i], m[j])
  BY DEF Normal
<1> QED BY <1>1, <1>2, <1>3, ClauseType, NothingBetween

(* What is before a clause of a normal form is before every later one.      *)
LEMMA NormalStarts ==
  ASSUME NEW m, Normal(m), NEW i \in DOMAIN m, NEW j \in DOMAIN m, i < j,
         NEW x \in Point, StartsAt(m[j].lo, x)
  PROVE  StartsAt(m[i].lo, x) /\ ~EndsAt(m[i].hi, x)
<1>1. PICK g \in Point : ~EndsAt(m[i].hi, g) /\ ~StartsAt(m[j].lo, g)
  BY NormalType
<1>2. PICK y \in Point : Within(m[i], y)
  BY NormalType
<1>3. /\ m[i].lo \in Bound /\ m[i].hi \in Bound /\ m[j].lo \in Bound
  BY NormalType
<1>4. m[i].hi.set
  BY <1>1 DEF EndsAt
<1> DEFINE z == FirstPast(m[i].hi)
<1>5. /\ z \in Point /\ ~EndsAt(m[i].hi, z)
      /\ \A w \in Point : ~EndsAt(m[i].hi, w) => (StartsAt(m[j].lo, z) => StartsAt(m[j].lo, w))
  BY <1>3, <1>4, FirstPastFacts
<1>6. ~StartsAt(m[j].lo, z)
  BY <1>1, <1>5
<1>7. ~EndsAt(m[i].hi, x)
  <2> SUFFICES ASSUME EndsAt(m[i].hi, x) PROVE FALSE
    OBVIOUS
  <2>1. StartsAt(m[j].lo, z)
    BY <1>3, <1>5, PastTheEnd
  <2> QED BY <1>6, <2>1
<1>8. StartsAt(m[i].lo, x)
  BY <1>2, <1>3, <1>7, PastTheEnd DEF Within
<1> QED BY <1>7, <1>8

(* Two normal forms with the same points that agree before a clause have    *)
(* that clause in common, too.                                              *)
LEMMA NextClauseIsThere ==
  ASSUME NEW m, NEW n, Normal(m), Normal(n), SamePoints(m, n), NEW k \in DOMAIN m,
         \A i \in DOMAIN m : i < k => i \in DOMAIN n /\ SameInterval(m[i], n[i])
  PROVE  /\ \A x \in Point : Within(m[k], x) =>
              \E j \in DOMAIN n : j >= k /\ Within(n[j], x)
         /\ k \in DOMAIN n
<1>1. ASSUME NEW x \in Point, Within(m[k], x)
      PROVE  \E j \in DOMAIN n : j >= k /\ Within(n[j], x)
  <2>1. PICK j \in DOMAIN n : Within(n[j], x)
    BY <1>1 DEF SamePoints
  <2>2. ASSUME j < k PROVE FALSE
    <3>1. j \in DOMAIN m /\ j \in Nat /\ k \in Nat
      <4>1. /\ k \in Nat /\ Len(m) \in Nat /\ DOMAIN m = 1..Len(m)
            /\ j \in Nat /\ Len(n) \in Nat /\ DOMAIN n = 1..Len(n)
        BY NormalType
      <4> QED BY <4>1, <2>2
    <3>2. SameInterval(m[j], n[j])
      BY <2>2, <3>1
    <3>3. ~EndsAt(m[j].hi, x)
      BY <1>1, <2>2, <3>1, NormalStarts DEF Within
    <3> QED BY <2>1, <3>2, <3>3 DEF Within, SameInterval
  <2>3. j \in Nat /\ k \in Nat
    BY NormalType
  <2> QED BY <2>1, <2>2, <2>3
<1>2. PICK x \in Point : Within(m[k], x)
  BY NormalType
<1>3. PICK j \in DOMAIN n : j >= k
  BY <1>1, <1>2
<1>4. k \in DOMAIN n
  <2>1. /\ k \in Nat /\ Len(m) \in Nat /\ DOMAIN m = 1..Len(m)
        /\ j \in Nat /\ Len(n) \in Nat /\ DOMAIN n = 1..Len(n)
    BY NormalType
  <2> QED BY <1>3, <2>1
<1> QED BY <1>1, <1>4

(* The first starts no earlier than the second.                             *)
LEMMA NextStart ==
  ASSUME NEW m, NEW n, Normal(m), Normal(n), SamePoints(m, n),
         NEW k \in DOMAIN m, k \in DOMAIN n,
         \A i \in DOMAIN m : i < k => i \in DOMAIN n /\ SameInterval(m[i], n[i]),
         NEW x \in Point, StartsAt(m[k].lo, x)
  PROVE  StartsAt(n[k].lo, x)
<1> SUFFICES ASSUME ~StartsAt(n[k].lo, x) PROVE FALSE
  OBVIOUS
<1>1. /\ m[k].lo \in Bound /\ m[k].hi \in Bound /\ n[k].lo \in Bound /\ k \in Nat
  BY NormalType
<1>2. ASSUME NEW y \in Point, Within(m[k], y) PROVE StartsAt(n[k].lo, y)
  <2>1. PICK j \in DOMAIN n : j >= k /\ Within(n[j], y)
    BY <1>2, NextClauseIsThere
  <2>2. j \in Nat BY NormalType
  <2>3. CASE j = k
    BY <2>1, <2>3 DEF Within
  <2>4. CASE k < j
    BY <2>1, <2>4, NormalStarts DEF Within
  <2> QED BY <2>1, <2>2, <2>3, <2>4, <1>1
<1>3. ~EndsAt(m[k].hi, x)
  BY <1>2 DEF Within
<1>4. PICK y \in Point : Within(m[k], y)
  BY NormalType
<1>5. StartsAt(n[k].lo, y)
  BY <1>2, <1>4
<1> QED BY <1>1, <1>3, <1>4, <1>5, PastTheEnd DEF Within

(* The first ends no later than the second.                                 *)
LEMMA NextEnd ==
  ASSUME NEW m, NEW n, Normal(m), Normal(n), SamePoints(m, n),
         NEW k \in DOMAIN m, k \in DOMAIN n, m[k].lo = n[k].lo,
         \A i \in DOMAIN m : i < k => i \in DOMAIN n /\ SameInterval(m[i], n[i]),
         NEW x \in Point, EndsAt(m[k].hi, x)
  PROVE  EndsAt(n[k].hi, x)
<1> SUFFICES ASSUME ~EndsAt(n[k].hi, x) PROVE FALSE
  OBVIOUS
<1>1. /\ m[k].hi \in Bound /\ n[k].lo \in Bound /\ n[k].hi \in Bound /\ k \in Nat
  BY NormalType
<1>2. n[k].hi.set
  BY DEF EndsAt
<1> DEFINE z == FirstPast(n[k].hi)
<1>3. /\ z \in Point /\ ~EndsAt(n[k].hi, z)
      /\ EndsAt(m[k].hi, z)
      /\ \A y \in Point : ~EndsAt(n[k].hi, y) =>
           \A c \in Bound : StartsAt(c, z) => StartsAt(c, y)
  BY <1>1, <1>2, FirstPastFacts
<1> HIDE DEF z
<1>4. PICK y \in Point : Within(n[k], y)
  BY NormalType
<1>5. StartsAt(n[k].lo, z)
  BY <1>1, <1>3, <1>4, PastTheEnd DEF Within
<1>6. Within(m[k], z)
  BY <1>3, <1>5 DEF Within
<1>7. PICK j \in DOMAIN n : j >= k /\ Within(n[j], z)
  BY <1>3, <1>6, NextClauseIsThere
<1>8. j # k
  BY <1>3, <1>7 DEF Within
<1>9. k < j
  <2>1. j \in Nat BY NormalType
  <2> QED BY <1>1, <1>7, <1>8, <2>1
<1>10. PICK g \in Point : ~EndsAt(n[k].hi, g) /\ ~StartsAt(n[j].lo, g)
  BY <1>9, NormalType
<1>11. StartsAt(n[j].lo, z) /\ n[j].lo \in Bound
  BY <1>7, NormalType DEF Within
<1> QED BY <1>3, <1>10, <1>11

(* So normal forms with the same points are the same intervals.             *)
LEMMA NormalFormIsUnique ==
  ASSUME NEW m, NEW n, Normal(m), Normal(n), SamePoints(m, n)
  PROVE  /\ DOMAIN m = DOMAIN n
         /\ \A i \in DOMAIN m : SameInterval(m[i], n[i])
<1> DEFINE Agree(k) == \A i \in 1..k : /\ i \in DOMAIN m <=> i \in DOMAIN n
                                       /\ i \in DOMAIN m => SameInterval(m[i], n[i])
           K == {k \in Nat : Agree(k)}
<1>1. SamePoints(n, m)
  BY DEF SamePoints
<1>2. /\ Len(m) \in Nat /\ DOMAIN m = 1..Len(m)
      /\ Len(n) \in Nat /\ DOMAIN n = 1..Len(n)
  BY DEF Normal
<1>3. 0 \in K
  OBVIOUS
<1>4. ASSUME NEW k \in Nat, k \in K PROVE k + 1 \in K
  <2> DEFINE l == k + 1
  <2>1. /\ \A i \in DOMAIN m : i < l => i \in DOMAIN n /\ SameInterval(m[i], n[i])
        /\ \A i \in DOMAIN n : i < l => i \in DOMAIN m /\ SameInterval(n[i], m[i])
    BY <1>2, <1>4 DEF SameInterval
  <2> HIDE DEF l
  <2>2. l \in DOMAIN m <=> l \in DOMAIN n
    BY <1>1, <2>1, NextClauseIsThere
  <2>3. ASSUME l \in DOMAIN m PROVE SameInterval(m[l], n[l])
    <3>1. l \in DOMAIN n
      BY <2>2, <2>3
    <3>2. /\ m[l].lo \in Bound /\ n[l].lo \in Bound /\ m[l].hi \in Bound /\ n[l].hi \in Bound
      BY <2>3, <3>1, NormalType
    <3>3. \A x \in Point : StartsAt(m[l].lo, x) <=> StartsAt(n[l].lo, x)
      BY <1>1, <2>1, <2>3, <3>1, NextStart
    <3>4. m[l].lo = n[l].lo
      BY <3>2, <3>3, SameStart
    <3>5. \A x \in Point : EndsAt(m[l].hi, x) <=> EndsAt(n[l].hi, x)
      BY <1>1, <2>1, <2>3, <3>1, <3>4, NextEnd
    <3>6. m[l].hi = n[l].hi
      BY <3>2, <3>5, SameEnd
    <3> QED BY <3>4, <3>6 DEF SameInterval
  <2>4. \A i \in 1..l : i = l \/ i \in 1..k
    BY DEF l
  <2>5. Agree(l)
    BY <1>4, <2>2, <2>3, <2>4
  <2> QED BY <2>5 DEF l
<1>5. \A k \in Nat : k \in K
  <2> HIDE DEF K
  <2> QED BY <1>3, <1>4, NumberInduction
<1>6. \A k \in Nat : Agree(k)
  BY <1>5
<1> HIDE DEF K
<1>7. \A k \in Nat \ {0} : k \in 1..k /\ (k \in DOMAIN m <=> k \in DOMAIN n)
                           /\ (k \in DOMAIN m => SameInterval(m[k], n[k]))
  BY <1>6
<1>8. DOMAIN m \subseteq Nat \ {0} /\ DOMAIN n \subseteq Nat \ {0}
  BY <1>2
<1> QED BY <1>7, <1>8

(* The rendered normal forms agree exactly where the ranges do.             *)
LEMMA CanonicalFacts ==
  ASSUME NEW r \in NpmRange, NEW o \in NpmRange
  PROVE  Canonical(r) = Canonical(o) <=> Points(r) = Points(o)
<1> DEFINE m == Normalize(r)
           n == Normalize(o)
           Ends(s) == [i \in DOMAIN s |-> [lo |-> s[i].lo, hi |-> s[i].hi]]
<1>1. Canonical(r) = Ends(m) /\ Canonical(o) = Ends(n)
  BY DEF Canonical
<1>2. /\ Normal(m) /\ Normal(n)
      /\ \A x \in Point : (\E i \in DOMAIN m : Within(m[i], x)) <=> x \in Points(r)
      /\ \A x \in Point : (\E i \in DOMAIN n : Within(n[i], x)) <=> x \in Points(o)
  BY NormalizeFacts
<1> HIDE DEF m, n
<1>3. ASSUME Points(r) = Points(o) PROVE Ends(m) = Ends(n)
  <2>1. SamePoints(m, n)
    BY <1>2, <1>3 DEF SamePoints
  <2>2. DOMAIN m = DOMAIN n /\ \A i \in DOMAIN m : SameInterval(m[i], n[i])
    BY <1>2, <2>1, NormalFormIsUnique
  <2> QED BY <2>2 DEF SameInterval
<1>4. ASSUME Ends(m) = Ends(n) PROVE Points(r) = Points(o)
  <2>1. DOMAIN m = DOMAIN n
    BY <1>4
  <2>2. \A i \in DOMAIN m : Ends(m)[i].lo = m[i].lo /\ Ends(m)[i].hi = m[i].hi
    OBVIOUS
  <2>3. \A i \in DOMAIN n : Ends(n)[i].lo = n[i].lo /\ Ends(n)[i].hi = n[i].hi
    OBVIOUS
  <2>4. \A i \in DOMAIN m : m[i].lo = n[i].lo /\ m[i].hi = n[i].hi
    BY <1>4, <2>1, <2>2, <2>3
  <2>5. \A x \in Point : x \in Points(r) <=> x \in Points(o)
    BY <1>2, <2>1, <2>4 DEF Within
  <2> QED BY <2>5 DEF Points
<1> QED BY <1>1, <1>3, <1>4

(* Ranges stay ranges when they are met.                                    *)
LEMMA IntersectFacts ==
  ASSUME NEW r \in NpmRange, NEW o \in NpmRange
  PROVE  /\ Intersect(r, o) \in NpmRange
         /\ Points(Intersect(r, o)) = Points(r) \cap Points(o)
<1> DEFINE S == {IntersectClause(a, b) : a \in r, b \in o}
           f == [e \in r \X o |-> IntersectClause(e[1], e[2])]
<1>1. r \in SUBSET Clause /\ o \in SUBSET Clause /\ IsFiniteSet(r) /\ IsFiniteSet(o)
  BY DEF NpmRange
<1>2. \A a \in r, b \in o :
        /\ IntersectClause(a, b) \in Clause
        /\ \A x \in Point : Within(IntersectClause(a, b), x) <=> Within(a, x) /\ Within(b, x)
  BY <1>1, IntersectClauseIsAnd
<1>3. IsFiniteSet(S)
  <2>1. IsFiniteSet(r \X o)
    BY <1>1, FS_Product
  <2>2. f \in Surjection(r \X o, S)
    <3>1. f \in [r \X o -> S]
      OBVIOUS
    <3>2. \A c \in S : \E e \in r \X o : f[e] = c
      <4> SUFFICES ASSUME NEW a \in r, NEW b \in o
                   PROVE  \E e \in r \X o : f[e] = IntersectClause(a, b)
        OBVIOUS
      <4>1. <<a, b>> \in r \X o /\ f[<<a, b>>] = IntersectClause(a, b)
        OBVIOUS
      <4> QED BY <4>1
    <3> HIDE DEF f, S
    <3> QED BY <3>1, <3>2 DEF Surjection
  <2> HIDE DEF f, S
  <2> QED BY <2>1, <2>2, FS_Surjection
<1>4. Intersect(r, o) = {c \in S : ~ClauseIsEmpty(c)}
  BY DEF Intersect
<1>5. S \in SUBSET Clause
  BY <1>2
<1>6. Intersect(r, o) \in NpmRange
  <2> HIDE DEF S
  <2> QED BY <1>3, <1>4, <1>5, FS_Subset DEF NpmRange
<1>7. ASSUME NEW x \in Point
      PROVE  x \in Points(Intersect(r, o)) <=> x \in Points(r) /\ x \in Points(o)
  <2>1. x \in Points(Intersect(r, o)) <=> \E a \in r, b \in o : Within(IntersectClause(a, b), x)
    <3>1. \A a \in r, b \in o : Within(IntersectClause(a, b), x) => ~ClauseIsEmpty(IntersectClause(a, b))
      BY <1>2, EmptyMeansNoPoint
    <3> QED BY <3>1 DEF Points, Intersect
  <2> QED BY <2>1, <1>2 DEF Points
<1> QED BY <1>6, <1>7 DEF Points

(* Subset, Equal and IsEmpty, which compare rendered normal forms, decide   *)
(* inclusion, equality and emptiness exactly, for any order of versions,    *)
(* whatever clauses the ranges are cut into and in whatever order those     *)
(* that start together are sorted (Subset, Equal, IsEmpty, normalize).      *)
THEOREM InclusionIsDecided ==
  ASSUME NEW r \in NpmRange, NEW o \in NpmRange
  PROVE  /\ IsEmpty(r) <=> Points(r) = {}
         /\ Subset(r, o) <=> Points(r) \subseteq Points(o)
         /\ Equal(r, o) <=> Points(r) = Points(o)
<1>1. IsEmpty(r) <=> Points(r) = {}
  BY EmptyMeansNoPoint DEF IsEmpty, Points, NpmRange
<1>2. Subset(r, o) <=> Points(r) \cap Points(o) = Points(r)
  BY IntersectFacts, CanonicalFacts DEF Subset
<1>3. Equal(r, o) <=> Points(r) = Points(o)
  BY CanonicalFacts DEF Equal
<1> QED BY <1>1, <1>2, <1>3

(* A version is reached where its point is in the range.                    *)
LEMMA ReachesIsPoint ==
  ASSUME NEW r \in Ranges, NEW v \in Version
  PROVE  Reaches(r, v) <=> <<v, 0>> \in Points(r)
BY VersionIsPoint DEF Reaches, Points, Ranges

(* normalize merges clauses without gaining or losing a version: the clause *)
(* that unionAdjacent makes of two neighbours in the sorted slice contains  *)
(* what one of them contains.                                               *)
THEOREM MergeIsOr ==
  ASSUME NEW a \in Clause, NEW b \in Clause, NEW v \in Version,
         CmpLo(a, b) # 1, OverlapsOrAdjacent(a, b)
  PROVE  NumericContains(UnionAdjacent(a, b), v)
           <=> NumericContains(a, v) \/ NumericContains(b, v)
BY MergedPoints, VersionIsPoint

(* Intersect allows a version exactly when both ranges contain it, whatever *)
(* the clauses they are cut into, although it drops the empty clauses.      *)
THEOREM IntersectIsAnd ==
  ASSUME NEW r \in Ranges, NEW o \in Ranges, NEW v \in Version
  PROVE  Reaches(Intersect(r, o), v) <=> Reaches(r, v) /\ Reaches(o, v)
<1>1. \A a \in r, b \in o :
        /\ IntersectClause(a, b) \in Clause
        /\ NumericContains(IntersectClause(a, b), v) <=> NumericContains(a, v) /\ NumericContains(b, v)
        /\ NumericContains(IntersectClause(a, b), v) => ~ClauseIsEmpty(IntersectClause(a, b))
  BY IntersectClauseIsAnd, VersionIsPoint, EmptyMeansNoPoint DEF Ranges
<1> QED BY <1>1 DEF Reaches, Intersect

(* For the releases, which are not filtered by name, satisfaction follows   *)
(* the algebra: the range the solver keeps for a package allows a release   *)
(* exactly when every range that was met into it does.                      *)
THEOREM ReleasesFollowTheAlgebra ==
  ASSUME NEW r \in Ranges, NEW o \in Ranges, NEW v \in Version, ~IsPrerelease(v)
  PROVE  /\ Satisfies(Intersect(r, o), v) <=> Satisfies(r, v) /\ Satisfies(o, v)
         /\ Satisfies(Union(r, o), v) <=> Satisfies(r, v) \/ Satisfies(o, v)
<1>1. \A x : Satisfies(x, v) <=> Reaches(x, v)
  BY DEF Satisfies, Reaches, ClauseSatisfies
<1> QED
  BY <1>1, IntersectIsAnd DEF Union, Reaches

(* A range that IsEmpty reports empty is satisfied by no version at all.    *)
THEOREM EmptyIsUnsatisfiable ==
  ASSUME NEW r \in Ranges, IsEmpty(r), NEW v \in Version
  PROVE  ~Satisfies(r, v)
<1>1. \A c \in r : c \in Clause /\ ClauseIsEmpty(c)
  BY DEF IsEmpty, Ranges
<1>2. \A c \in r : ~NumericContains(c, v)
  BY <1>1, EmptyMeansNoPoint, VersionIsPoint
<1> QED BY <1>2 DEF Satisfies, ClauseSatisfies

(* A prerelease that both ranges admit is admitted by their intersection:   *)
(* meeting ranges never loses a version that every one of them allows.      *)
THEOREM IntersectLosesNothing ==
  ASSUME NEW r \in Ranges, NEW o \in Ranges, NEW v \in Version,
         Satisfies(r, v), Satisfies(o, v)
  PROVE  Satisfies(Intersect(r, o), v)
<1>1. PICK a \in r, b \in o : ClauseSatisfies(a, v) /\ ClauseSatisfies(b, v)
  BY DEF Satisfies
<1>2. a \in Clause /\ b \in Clause
  BY DEF Ranges
<1>3. /\ IntersectClause(a, b) \in Clause
      /\ Within(IntersectClause(a, b), <<v, 0>>)
  BY <1>1, <1>2, IntersectClauseIsAnd, VersionIsPoint DEF ClauseSatisfies
<1>4. IntersectClause(a, b) \in Intersect(r, o) /\ NumericContains(IntersectClause(a, b), v)
  BY <1>3, EmptyMeansNoPoint, VersionIsPoint DEF Intersect
<1>5. IntersectClause(a, b).pre = a.pre \cup b.pre
  BY DEF IntersectClause, Interval
<1>6. ClauseSatisfies(IntersectClause(a, b), v)
  BY <1>1, <1>4, <1>5 DEF ClauseSatisfies
<1> QED BY <1>4, <1>6 DEF Satisfies
--------------------------------------------------------------------------------
(* The versions, and the ranges as they are written.                        *)

(* Numbers and identifiers are in order.                                    *)
LEMMA IdentifierOrder ==
  /\ \A a, b \in Int : /\ CmpInt(a, b) \in {-1, 0, 1}
                       /\ CmpInt(a, b) = 0 <=> a = b
                       /\ CmpInt(a, b) = -1 <=> a < b
                       /\ CmpInt(a, b) = 1 <=> b < a
  /\ \A a, b \in Identifier :
       /\ ComparePreID(a, b) \in {-1, 0, 1}
       /\ ComparePreID(a, b) = 0 <=> a = b
       /\ ComparePreID(a, b) = 1 <=> ComparePreID(b, a) = -1
  /\ \A a, b, c \in Identifier :
       ComparePreID(a, b) = -1 /\ ComparePreID(b, c) = -1 => ComparePreID(a, c) = -1
<1>1. \A a, b \in Int : /\ CmpInt(a, b) \in {-1, 0, 1}
                        /\ CmpInt(a, b) = 0 <=> a = b
                        /\ CmpInt(a, b) = -1 <=> a < b
                        /\ CmpInt(a, b) = 1 <=> b < a
  BY DEF CmpInt
<1>2. ASSUME NEW a \in Identifier, NEW b \in Identifier
      PROVE  /\ ComparePreID(a, b) \in {-1, 0, 1}
             /\ ComparePreID(a, b) = 0 <=> a = b
             /\ ComparePreID(a, b) = 1 <=> ComparePreID(b, a) = -1
  BY DEF Identifier, ComparePreID, CmpInt
<1>3. ASSUME NEW a \in Identifier, NEW b \in Identifier, NEW c \in Identifier,
             ComparePreID(a, b) = -1, ComparePreID(b, c) = -1
      PROVE  ComparePreID(a, c) = -1
  BY <1>3 DEF Identifier, ComparePreID, CmpInt
<1> QED BY <1>1, <1>2, <1>3

(* The first place where two lists of identifiers differ decides; there is  *)
(* none where one list goes on after the other.                             *)
FirstAt(a, b, i) ==
  i \in DOMAIN a \cap DOMAIN b /\ a[i] # b[i] /\ \A j \in DOMAIN a \cap DOMAIN b : j < i => a[j] = b[j]
Agree(a, b) == \A j \in DOMAIN a \cap DOMAIN b : a[j] = b[j]
LEMMA FirstDifferenceFacts ==
  ASSUME NEW a \in Seq(Identifier), NEW b \in Seq(Identifier)
  PROVE  /\ FirstDifference(a, b, ComparePreID) = 0 <=> Agree(a, b)
         /\ \A i : FirstAt(a, b, i) => FirstDifference(a, b, ComparePreID) = ComparePreID(a[i], b[i])
         /\ Agree(a, b) \/ \E i : FirstAt(a, b, i)
<1> DEFINE D == {i \in DOMAIN a \cap DOMAIN b : ComparePreID(a[i], b[i]) # 0}
<1>1. /\ Len(a) \in Nat /\ Len(b) \in Nat /\ DOMAIN a = 1..Len(a) /\ DOMAIN b = 1..Len(b)
      /\ \A i \in DOMAIN a : a[i] \in Identifier
      /\ \A i \in DOMAIN b : b[i] \in Identifier
  OBVIOUS
<1>2. \A i \in DOMAIN a \cap DOMAIN b : i \in D <=> a[i] # b[i]
  BY <1>1, IdentifierOrder
<1>3. D \in SUBSET (1..Len(a)) /\ IsFiniteSet(1..Len(a)) /\ D \subseteq Int
  BY <1>1, FS_Interval
<1>4. FirstDifference(a, b, ComparePreID) = IF D = {} THEN 0 ELSE ComparePreID(a[Min(D)], b[Min(D)])
  BY DEF FirstDifference
<1>5. D \subseteq DOMAIN a \cap DOMAIN b
  OBVIOUS
<1> HIDE DEF D
<1>6. IsFiniteSet(D)
  BY <1>3, FS_Subset
<1>7. CASE D = {}
  <2>1. Agree(a, b)
    BY <1>2, <1>7 DEF Agree
  <2> QED BY <2>1, <1>4, <1>7 DEF Agree, FirstAt
<1>8. CASE D # {}
  <2>1. Min(D) \in D /\ \A k \in D : Min(D) <= k
    BY <1>3, <1>6, <1>8, MaxMinFacts
  <2>2. PICK m \in D : m = Min(D)
    BY <2>1
  <2>3. m \in DOMAIN a \cap DOMAIN b /\ a[m] # b[m] /\ m \in Int
    BY <1>2, <1>3, <1>5
  <2>4. FirstAt(a, b, m)
    <3>1. ASSUME NEW j \in DOMAIN a \cap DOMAIN b, j < m PROVE a[j] = b[j]
      <4>1. j \in Int /\ (j \in D => m <= j)
        BY <1>1, <2>1, <2>2
      <4>2. j \notin D
        BY <4>1, <2>3, <3>1
      <4> QED BY <1>2, <4>2
    <3> QED BY <2>3, <3>1 DEF FirstAt
  <2>5. ~Agree(a, b)
    BY <2>3 DEF Agree
  <2>6. ASSUME NEW i, FirstAt(a, b, i) PROVE i = m
    <3>1. i \in Int /\ ~(i < m) /\ ~(m < i)
      BY <1>1, <2>3, <2>4, <2>6 DEF FirstAt
    <3> QED BY <2>3, <3>1
  <2>7. FirstDifference(a, b, ComparePreID) = ComparePreID(a[m], b[m])
    BY <1>4, <1>8, <2>2
  <2>8. ComparePreID(a[m], b[m]) # 0
    BY <1>1, <2>3, IdentifierOrder
  <2> QED BY <2>4, <2>5, <2>6, <2>7, <2>8
<1> QED BY <1>7, <1>8

(* A list of identifiers comes before another at the first that differ, or  *)
(* if it ends first; all come before none, which is a release.              *)
Below(a, b) ==
  /\ a # <<>>
  /\ \/ b = <<>>
     \/ \E i : FirstAt(a, b, i) /\ ComparePreID(a[i], b[i]) = -1
     \/ Agree(a, b) /\ Len(a) < Len(b)
LEMMA ComparePreFacts ==
  ASSUME NEW a \in Seq(Identifier), NEW b \in Seq(Identifier)
  PROVE  /\ ComparePre(a, b) \in {-1, 0, 1}
         /\ ComparePre(a, b) = -1 <=> Below(a, b)
         /\ ComparePre(a, b) = 1 <=> Below(b, a)
         /\ ComparePre(a, b) = 0 <=> a = b
<1> DEFINE first == FirstDifference(a, b, ComparePreID)
<1>1. /\ Len(a) \in Nat /\ Len(b) \in Nat /\ DOMAIN a = 1..Len(a) /\ DOMAIN b = 1..Len(b)
      /\ \A i \in DOMAIN a : a[i] \in Identifier
      /\ \A i \in DOMAIN b : b[i] \in Identifier
  OBVIOUS
<1>2. /\ first = 0 <=> Agree(a, b)
      /\ \A i : FirstAt(a, b, i) => first = ComparePreID(a[i], b[i])
      /\ Agree(a, b) \/ \E i : FirstAt(a, b, i)
  BY FirstDifferenceFacts
<1>3. ComparePre(a, b) = CASE a = <<>> /\ b = <<>> -> 0
       [] a = <<>> /\ b # <<>> -> 1
       [] a # <<>> /\ b = <<>> -> -1
       [] OTHER -> IF first # 0 THEN first ELSE CmpInt(Len(a), Len(b))
  BY DEF ComparePre
<1>4. \A i : FirstAt(a, b, i) =>
        /\ FirstAt(b, a, i)
        /\ ComparePreID(a[i], b[i]) \in {-1, 1}
        /\ ComparePreID(a[i], b[i]) = 1 <=> ComparePreID(b[i], a[i]) = -1
  BY <1>1, IdentifierOrder DEF FirstAt
<1>5. \A i : FirstAt(b, a, i) => FirstAt(a, b, i)
  BY DEF FirstAt
<1>6. Agree(a, b) <=> Agree(b, a)
  BY DEF Agree
<1>7. \A i : FirstAt(a, b, i) => ~Agree(a, b)
  BY DEF FirstAt, Agree
<1> HIDE DEF first
<1>8. CASE a = <<>> \/ b = <<>>
  <2>1. ComparePre(a, b) = IF a = <<>> THEN IF b = <<>> THEN 0 ELSE 1 ELSE -1
    BY <1>3, <1>8
  <2> QED BY <2>1, <1>8 DEF Below
<1>9. CASE a # <<>> /\ b # <<>> /\ Agree(a, b)
  <2>1. ComparePre(a, b) = CmpInt(Len(a), Len(b))
    BY <1>2, <1>3, <1>9
  <2>2. Len(a) = Len(b) <=> a = b
    <3>1. ASSUME Len(a) = Len(b) PROVE a = b
      BY <1>9, <3>1 DEF Agree
    <3> QED BY <3>1
  <2>3. Below(a, b) <=> Len(a) < Len(b)
    BY <1>7, <1>9 DEF Below
  <2>4. Below(b, a) <=> Len(b) < Len(a)
    BY <1>5, <1>6, <1>7, <1>9 DEF Below
  <2>5. /\ CmpInt(Len(a), Len(b)) \in {-1, 0, 1}
        /\ CmpInt(Len(a), Len(b)) = -1 <=> Len(a) < Len(b)
        /\ CmpInt(Len(a), Len(b)) = 1 <=> Len(b) < Len(a)
        /\ CmpInt(Len(a), Len(b)) = 0 <=> Len(a) = Len(b)
    <3>1. Len(a) \in Int /\ Len(b) \in Int
      BY <1>1
    <3> QED BY <3>1, IdentifierOrder
  <2> QED BY <2>1, <2>2, <2>3, <2>4, <2>5
<1>10. CASE a # <<>> /\ b # <<>> /\ ~Agree(a, b)
  <2>1. PICK i : FirstAt(a, b, i)
    BY <1>2, <1>10
  <2>2. ComparePre(a, b) = ComparePreID(a[i], b[i])
    BY <1>2, <1>3, <1>10, <2>1
  <2>3. \A j : FirstAt(a, b, j) => j = i
    <3> SUFFICES ASSUME NEW j, FirstAt(a, b, j) PROVE j = i
      OBVIOUS
    <3>1. i \in Int /\ j \in Int /\ ~(i < j) /\ ~(j < i)
      BY <1>1, <2>1 DEF FirstAt
    <3> QED BY <3>1
  <2>4. Below(a, b) <=> ComparePreID(a[i], b[i]) = -1
    BY <1>10, <2>1, <2>3 DEF Below
  <2>5. Below(b, a) <=> ComparePreID(b[i], a[i]) = -1
    BY <1>4, <1>5, <1>6, <1>10, <2>1, <2>3 DEF Below
  <2>6. a # b
    BY <1>10 DEF Agree
  <2> QED BY <1>4, <2>1, <2>2, <2>4, <2>5, <2>6
<1> QED BY <1>8, <1>9, <1>10

(* Before, and before that, is before.                                      *)
LEMMA BelowComposes ==
  ASSUME NEW a \in Seq(Identifier), NEW b \in Seq(Identifier), NEW c \in Seq(Identifier),
         Below(a, b), Below(b, c)
  PROVE  Below(a, c)
<1>1. /\ Len(a) \in Nat /\ Len(b) \in Nat /\ Len(c) \in Nat
      /\ DOMAIN a = 1..Len(a) /\ DOMAIN b = 1..Len(b) /\ DOMAIN c = 1..Len(c)
      /\ \A i \in DOMAIN a : a[i] \in Identifier
      /\ \A i \in DOMAIN b : b[i] \in Identifier
      /\ \A i \in DOMAIN c : c[i] \in Identifier
  OBVIOUS
<1>2. a # <<>> /\ b # <<>>
  BY DEF Below
<1>3. CASE c = <<>>
  BY <1>2, <1>3 DEF Below
<1>4. CASE c # <<>>
  <2>1. CASE \E i : FirstAt(a, b, i) /\ ComparePreID(a[i], b[i]) = -1
    <3>1. PICK i : FirstAt(a, b, i) /\ ComparePreID(a[i], b[i]) = -1
      BY <2>1
    <3>2. i \in 1..Len(a) /\ i \in 1..Len(b) /\ \A j \in 1..(i - 1) : a[j] = b[j]
      BY <1>1, <3>1 DEF FirstAt
    <3>3. CASE \E k : FirstAt(b, c, k) /\ ComparePreID(b[k], c[k]) = -1
      <4>1. PICK k : FirstAt(b, c, k) /\ ComparePreID(b[k], c[k]) = -1
        BY <3>3
      <4>2. k \in 1..Len(b) /\ k \in 1..Len(c) /\ \A j \in 1..(k - 1) : b[j] = c[j]
        BY <1>1, <4>1 DEF FirstAt
      <4>3. CASE i < k
        <5>1. b[i] = c[i] /\ i \in DOMAIN a \cap DOMAIN c /\ \A j \in 1..(i - 1) : a[j] = c[j]
          BY <1>1, <3>2, <4>2, <4>3
        <5>2. ComparePreID(a[i], c[i]) = -1 /\ a[i] # c[i]
          BY <3>1, <5>1 DEF FirstAt
        <5>3. FirstAt(a, c, i)
          BY <1>1, <5>1, <5>2 DEF FirstAt
        <5> QED BY <1>2, <5>2, <5>3 DEF Below
      <4>4. CASE i = k
        <5>1. i \in DOMAIN a \cap DOMAIN c /\ \A j \in 1..(i - 1) : a[j] = c[j]
          BY <1>1, <3>2, <4>2, <4>4
        <5>2. ComparePreID(a[i], c[i]) = -1
          BY <1>1, <3>1, <3>2, <4>1, <4>2, <4>4, IdentifierOrder
        <5>3. a[i] # c[i]
          BY <1>1, <5>1, <5>2, IdentifierOrder
        <5>4. FirstAt(a, c, i)
          BY <1>1, <5>1, <5>3 DEF FirstAt
        <5> QED BY <1>2, <5>2, <5>4 DEF Below
      <4>5. CASE k < i
        <5>1. a[k] = b[k] /\ k \in DOMAIN a \cap DOMAIN c /\ \A j \in 1..(k - 1) : a[j] = c[j]
          BY <1>1, <3>2, <4>2, <4>5
        <5>2. ComparePreID(a[k], c[k]) = -1 /\ a[k] # c[k]
          BY <4>1, <5>1 DEF FirstAt
        <5>3. FirstAt(a, c, k)
          BY <1>1, <5>1, <5>2 DEF FirstAt
        <5> QED BY <1>2, <5>2, <5>3 DEF Below
      <4> QED BY <3>2, <4>2, <4>3, <4>4, <4>5
    <3>4. CASE Agree(b, c) /\ Len(b) < Len(c)
      <4>1. \A j \in 1..Len(b) : b[j] = c[j]
        BY <1>1, <3>4 DEF Agree
      <4>2. i \in DOMAIN a \cap DOMAIN c /\ b[i] = c[i] /\ \A j \in 1..(i - 1) : a[j] = c[j]
        BY <1>1, <3>2, <3>4, <4>1
      <4>3. ComparePreID(a[i], c[i]) = -1 /\ a[i] # c[i]
        BY <3>1, <4>2 DEF FirstAt
      <4>4. FirstAt(a, c, i)
        BY <1>1, <4>2, <4>3 DEF FirstAt
      <4> QED BY <1>2, <4>3, <4>4 DEF Below
    <3> QED BY <1>4, <3>3, <3>4 DEF Below
  <2>2. CASE Agree(a, b) /\ Len(a) < Len(b)
    <3>1. \A j \in 1..Len(a) : a[j] = b[j]
      BY <1>1, <2>2 DEF Agree
    <3>2. CASE \E k : FirstAt(b, c, k) /\ ComparePreID(b[k], c[k]) = -1
      <4>1. PICK k : FirstAt(b, c, k) /\ ComparePreID(b[k], c[k]) = -1
        BY <3>2
      <4>2. k \in 1..Len(b) /\ k \in 1..Len(c) /\ \A j \in 1..(k - 1) : b[j] = c[j]
        BY <1>1, <4>1 DEF FirstAt
      <4>3. CASE k <= Len(a)
        <5>1. a[k] = b[k] /\ k \in DOMAIN a \cap DOMAIN c /\ \A j \in 1..(k - 1) : a[j] = c[j]
          BY <1>1, <3>1, <4>2, <4>3
        <5>2. ComparePreID(a[k], c[k]) = -1 /\ a[k] # c[k]
          BY <4>1, <5>1 DEF FirstAt
        <5>3. FirstAt(a, c, k)
          BY <1>1, <5>1, <5>2 DEF FirstAt
        <5> QED BY <1>2, <5>2, <5>3 DEF Below
      <4>4. CASE Len(a) < k
        <5>1. Len(a) < Len(c) /\ \A j \in 1..Len(a) : a[j] = c[j]
          BY <1>1, <3>1, <4>2, <4>4
        <5> QED BY <1>1, <1>2, <5>1 DEF Below, Agree
      <4> QED BY <1>1, <4>2, <4>3, <4>4
    <3>3. CASE Agree(b, c) /\ Len(b) < Len(c)
      <4>1. Len(a) < Len(c) /\ \A j \in 1..Len(a) : a[j] = c[j]
        BY <1>1, <2>2, <3>1, <3>3 DEF Agree
      <4> QED BY <1>1, <1>2, <4>1 DEF Below, Agree
    <3> QED BY <1>4, <3>2, <3>3 DEF Below
  <2> QED BY <1>2, <2>1, <2>2 DEF Below
<1> QED BY <1>3, <1>4

(* The components decide in their order.                                    *)
Lex(u, v) ==
  IF u.major # v.major THEN CmpInt(u.major, v.major)
  ELSE IF u.minor # v.minor THEN CmpInt(u.minor, v.minor)
  ELSE CmpInt(u.patch, v.patch)
LEMMA PrecedenceIs ==
  ASSUME NEW u \in Semver, NEW v \in Semver
  PROVE  Precedence(u, v) = IF TripleOf(u) # TripleOf(v) THEN Lex(u, v) ELSE ComparePre(u.pre, v.pre)
<1> DEFINE a == TripleOf(u)
           b == TripleOf(v)
           D == {i \in DOMAIN a \cap DOMAIN b : CmpInt(a[i], b[i]) # 0}
<1>1. /\ a = <<u.major, u.minor, u.patch>> /\ b = <<v.major, v.minor, v.patch>>
      /\ u.major \in Int /\ u.minor \in Int /\ u.patch \in Int
      /\ v.major \in Int /\ v.minor \in Int /\ v.patch \in Int
  BY DEF TripleOf, Semver
<1>2. DOMAIN a \cap DOMAIN b = 1..3
  BY <1>1
<1>3. /\ a[1] = u.major /\ a[2] = u.minor /\ a[3] = u.patch
      /\ b[1] = v.major /\ b[2] = v.minor /\ b[3] = v.patch
      /\ a = b <=> a[1] = b[1] /\ a[2] = b[2] /\ a[3] = b[3]
  BY <1>1
<1>4. /\ \A i : i \in D <=> i \in 1..3 /\ CmpInt(a[i], b[i]) # 0
      /\ \A i \in 1..3 : CmpInt(a[i], b[i]) = 0 <=> a[i] = b[i]
  <2>1. \A i \in 1..3 : a[i] \in Int /\ b[i] \in Int
    BY <1>1
  <2> QED BY <1>2, <2>1, IdentifierOrder
<1>5. FirstDifference(a, b, CmpInt) = IF D = {} THEN 0 ELSE CmpInt(a[Min(D)], b[Min(D)])
  BY DEF FirstDifference
<1>6. IsFiniteSet(D) /\ D \subseteq Int
  <2>1. PICK n \in Int : n = 3
    OBVIOUS
  <2>2. IsFiniteSet(1..n)
    BY FS_Interval
  <2>3. D \subseteq 1..n
    BY <1>2, <2>1
  <2> HIDE DEF D
  <2>4. IsFiniteSet(D)
    BY <2>2, <2>3, FS_Subset
  <2>5. D \subseteq Int
    BY <2>3
  <2> QED BY <2>4, <2>5
<1>7. Precedence(u, v) = IF FirstDifference(a, b, CmpInt) # 0 THEN FirstDifference(a, b, CmpInt)
                         ELSE ComparePre(u.pre, v.pre)
  BY DEF Precedence
<1> HIDE DEF a, b, D
<1>8. CASE D = {}
  <2>1. a = b
    <3>1. 1 \in 1..3 /\ 2 \in 1..3 /\ 3 \in 1..3
      OBVIOUS
    <3> QED BY <1>3, <1>4, <1>8, <3>1
  <2> QED BY <1>5, <1>7, <1>8, <2>1 DEF a, b
<1>9. CASE D # {}
  <2>1. Min(D) \in D /\ \A k \in D : Min(D) <= k
    BY <1>6, <1>9, MaxMinFacts
  <2>2. PICK m \in D : m = Min(D)
    BY <2>1
  <2>3. FirstDifference(a, b, CmpInt) = CmpInt(a[m], b[m]) /\ CmpInt(a[m], b[m]) # 0
    BY <1>4, <1>5, <1>9, <2>2
  <2>4. m \in 1..3 /\ \A j \in 1..3 : j < m => a[j] = b[j]
    <3>1. m \in 1..3
      BY <1>4
    <3>2. ASSUME NEW j \in 1..3, j < m PROVE a[j] = b[j]
      <4>1. j \notin D
        BY <2>1, <2>2, <3>1, <3>2
      <4> QED BY <1>4, <4>1
    <3> QED BY <3>1, <3>2
  <2>5. m = 1 \/ m = 2 \/ m = 3
    BY <2>4
  <2>6. a[m] # b[m]
    BY <1>4, <2>3, <2>4
  <2>7. CmpInt(a[m], b[m]) = Lex(u, v) /\ a # b
    <3>1. CASE m = 1
      BY <1>3, <2>6, <3>1 DEF Lex
    <3>2. CASE m = 2
      <4>1. a[1] = b[1]
        BY <2>4, <3>2
      <4> QED BY <1>3, <2>6, <3>2, <4>1 DEF Lex
    <3>3. CASE m = 3
      <4>1. a[1] = b[1] /\ a[2] = b[2]
        BY <2>4, <3>3
      <4> QED BY <1>3, <2>6, <3>3, <4>1 DEF Lex
    <3> QED BY <2>5, <3>1, <3>2, <3>3
  <2> QED BY <1>7, <2>3, <2>7 DEF a, b
<1> QED BY <1>8, <1>9

(* Compare orders all versions: it yields a sign, swapping the versions     *)
(* swaps the sign, only a version is level with itself, and what comes no   *)
(* later than something no later comes no later. So what is proved above    *)
(* for any order holds for the code's (Version.Compare).                    *)
THEOREM CompareOrdersVersions ==
  /\ \A u, v \in Semver : /\ Precedence(u, v) \in {-1, 0, 1}
                          /\ Precedence(u, v) = 1 <=> Precedence(v, u) = -1
                          /\ Precedence(u, v) = 0 => u = v
  /\ \A u, v, w \in Semver : Precedence(u, v) # 1 /\ Precedence(v, w) # 1 => Precedence(u, w) # 1
<1>1. \A u \in Semver : /\ u.major \in Int /\ u.minor \in Int /\ u.patch \in Int
                        /\ u.pre \in Seq(Identifier)
                        /\ TripleOf(u) = <<u.major, u.minor, u.patch>>
  BY DEF Semver, TripleOf
<1>2. ASSUME NEW u \in Semver, NEW v \in Semver
      PROVE  /\ TripleOf(u) = TripleOf(v) <=> u.major = v.major /\ u.minor = v.minor /\ u.patch = v.patch
             /\ Precedence(u, v) = IF TripleOf(u) # TripleOf(v) THEN Lex(u, v) ELSE ComparePre(u.pre, v.pre)
             /\ TripleOf(u) # TripleOf(v) => Lex(u, v) \in {-1, 1}
             /\ Lex(u, v) = 1 <=> Lex(v, u) = -1
             /\ Lex(u, v) = -1 <=> \/ u.major < v.major
                                   \/ u.major = v.major /\ u.minor < v.minor
                                   \/ u.major = v.major /\ u.minor = v.minor /\ u.patch < v.patch
  <2>1. TripleOf(u) = TripleOf(v) <=> u.major = v.major /\ u.minor = v.minor /\ u.patch = v.patch
    BY <1>1
  <2>2. Precedence(u, v) = IF TripleOf(u) # TripleOf(v) THEN Lex(u, v) ELSE ComparePre(u.pre, v.pre)
    BY PrecedenceIs
  <2> QED BY <1>1, <2>1, <2>2, IdentifierOrder DEF Lex
<1>3. ASSUME NEW u \in Semver, NEW v \in Semver
      PROVE  /\ Precedence(u, v) \in {-1, 0, 1}
             /\ Precedence(u, v) = 1 <=> Precedence(v, u) = -1
             /\ Precedence(u, v) = 0 => u = v
             /\ Precedence(u, v) = -1 <=>
                  \/ TripleOf(u) # TripleOf(v) /\ Lex(u, v) = -1
                  \/ TripleOf(u) = TripleOf(v) /\ Below(u.pre, v.pre)
  <2>1. CASE TripleOf(u) # TripleOf(v)
    BY <1>2, <2>1
  <2>2. CASE TripleOf(u) = TripleOf(v)
    <3>1. /\ ComparePre(u.pre, v.pre) \in {-1, 0, 1}
          /\ ComparePre(u.pre, v.pre) = 1 <=> ComparePre(v.pre, u.pre) = -1
          /\ ComparePre(u.pre, v.pre) = 0 <=> u.pre = v.pre
          /\ ComparePre(u.pre, v.pre) = -1 <=> Below(u.pre, v.pre)
      BY <1>1, ComparePreFacts
    <3>2. u.pre = v.pre => u = v
      BY <1>2, <2>2 DEF Semver
    <3>3. Precedence(u, v) = ComparePre(u.pre, v.pre) /\ Precedence(v, u) = ComparePre(v.pre, u.pre)
      BY <1>2, <2>2
    <3> QED BY <2>2, <3>1, <3>2, <3>3
  <2> QED BY <2>1, <2>2
<1>4. ASSUME NEW u \in Semver, NEW v \in Semver, NEW w \in Semver,
             Precedence(u, v) = -1, Precedence(v, w) = -1
      PROVE  Precedence(u, w) = -1
  <2>1. CASE TripleOf(u) = TripleOf(v) /\ TripleOf(v) = TripleOf(w)
    <3>1. Below(u.pre, v.pre) /\ Below(v.pre, w.pre)
      BY <1>3, <1>4, <2>1
    <3> QED BY <1>1, <1>3, <2>1, <3>1, BelowComposes
  <2>2. CASE TripleOf(u) = TripleOf(v) /\ TripleOf(v) # TripleOf(w)
    <3>1. Lex(v, w) = -1
      BY <1>3, <1>4, <2>2
    <3>2. Lex(u, w) = -1
      BY <1>2, <2>2, <3>1
    <3> QED BY <1>3, <2>2, <3>2
  <2>3. CASE TripleOf(u) # TripleOf(v) /\ TripleOf(v) = TripleOf(w)
    <3>1. Lex(u, v) = -1
      BY <1>3, <1>4, <2>3
    <3>2. Lex(u, w) = -1
      BY <1>2, <2>3, <3>1
    <3> QED BY <1>3, <2>3, <3>2
  <2>4. CASE TripleOf(u) # TripleOf(v) /\ TripleOf(v) # TripleOf(w)
    <3>1. Lex(u, v) = -1 /\ Lex(v, w) = -1
      BY <1>3, <1>4, <2>4
    <3>2. Lex(u, w) = -1 /\ TripleOf(u) # TripleOf(w)
      BY <1>1, <1>2, <3>1
    <3> QED BY <1>3, <3>2
  <2> QED BY <2>1, <2>2, <2>3, <2>4
<1>5. ASSUME NEW u \in Semver, NEW v \in Semver, NEW w \in Semver,
             Precedence(u, v) # 1, Precedence(v, w) # 1
      PROVE  Precedence(u, w) # 1
  <2>1. CASE Precedence(u, v) = 0
    BY <1>3, <1>5, <2>1
  <2>2. CASE Precedence(v, w) = 0
    BY <1>3, <1>5, <2>2
  <2>3. CASE Precedence(u, v) = -1 /\ Precedence(v, w) = -1
    BY <1>4, <2>3
  <2> QED BY <1>3, <1>5, <2>1, <2>2, <2>3
<1> QED BY <1>3, <1>5
--------------------------------------------------------------------------------
(* Of releases the triples decide; a release comes after the prereleases of *)
(* its triple.                                                              *)
Less(u, v) ==
  \/ u.major < v.major
  \/ u.major = v.major /\ u.minor < v.minor
  \/ u.major = v.major /\ u.minor = v.minor /\ u.patch < v.patch
LEMMA ReleaseOrder ==
  ASSUME NEW u \in Semver, NEW v \in Semver, ~HasPre(u)
  PROVE  /\ Precedence(u, v) \in {-1, 0, 1}
         /\ Precedence(u, v) = -1 <=> Less(u, v)
         /\ Precedence(u, v) = 0 <=> u.major = v.major /\ u.minor = v.minor /\ u.patch = v.patch /\ ~HasPre(v)
<1>1. /\ u.major \in Int /\ u.minor \in Int /\ u.patch \in Int /\ u.pre \in Seq(Identifier)
      /\ v.major \in Int /\ v.minor \in Int /\ v.patch \in Int /\ v.pre \in Seq(Identifier)
      /\ TripleOf(u) = TripleOf(v) <=> u.major = v.major /\ u.minor = v.minor /\ u.patch = v.patch
  BY DEF Semver, TripleOf
<1>2. Precedence(u, v) = IF TripleOf(u) # TripleOf(v) THEN Lex(u, v) ELSE ComparePre(u.pre, v.pre)
  BY PrecedenceIs
<1>3. CASE TripleOf(u) # TripleOf(v)
  <2>1. Lex(u, v) \in {-1, 1} /\ (Lex(u, v) = -1 <=> Less(u, v))
    BY <1>1, <1>3, IdentifierOrder DEF Lex, Less
  <2> QED BY <1>1, <1>2, <1>3, <2>1
<1>4. CASE TripleOf(u) = TripleOf(v)
  <2>1. /\ ComparePre(u.pre, v.pre) \in {-1, 0, 1}
        /\ ComparePre(u.pre, v.pre) = 0 <=> u.pre = v.pre
        /\ ComparePre(u.pre, v.pre) # -1
    BY <1>1, ComparePreFacts DEF Below, HasPre
  <2>2. ~Less(u, v)
    BY <1>1, <1>4 DEF Less
  <2> QED BY <1>1, <1>2, <1>4, <2>1, <2>2 DEF HasPre
<1> QED BY <1>3, <1>4

(* What the bounds of a clause say of a release.                            *)
LEMMA BoundsOfRelease ==
  ASSUME TextsFit, NEW v \in Version, ~HasPre(v), NEW w, NEW i \in BOOLEAN, From(w, i) \in Bound
  PROVE  /\ v \in Semver /\ w \in Semver
         /\ StartsBelow(From(w, i), v) <=> ~Less(v, w) /\ (i \/ Precedence(v, w) # 0)
         /\ EndsAbove(From(w, i), v) <=> Less(v, w) \/ (i /\ Precedence(v, w) = 0)
<1>1. From(w, i).set = TRUE /\ From(w, i).at = w /\ From(w, i).incl = i
  BY DEF From
<1>2. w \in Version
  BY <1>1, BoundType
<1>3. v \in Semver /\ w \in Semver /\ Compare(v, w) = Precedence(v, w)
  BY <1>2 DEF TextsFit
<1>4. /\ Precedence(v, w) \in {-1, 0, 1}
      /\ Precedence(v, w) = -1 <=> Less(v, w)
  BY <1>3, ReleaseOrder
<1> QED BY <1>1, <1>3, <1>4 DEF StartsBelow, EndsAbove

(* The components of a partial version, and of the bounds made of it.       *)
LEMMA PartialType ==
  ASSUME NEW p \in TidyPartial
  PROVE  /\ p.major \in Nat \/ p.major = X
         /\ p.minor \in Nat \/ p.minor = X
         /\ p.patch \in Nat \/ p.patch = X
         /\ p.pre \in Seq(Identifier)
         /\ p.major = X => p.minor = X
         /\ p.minor = X => p.patch = X
         /\ p.patch = X => ~HasPre(p)
         /\ X \notin Nat /\ X \in Int
         /\ IsXRange(p) <=> p.patch = X
         /\ LowerBound(p).major = Deref(p.major) /\ LowerBound(p).minor = Deref(p.minor)
         /\ LowerBound(p).patch = Deref(p.patch) /\ LowerBound(p).pre = p.pre
BY DEF TidyPartial, X, IsXRange, LowerBound, MkVersion

(* The components of v that p gives are those of p.                         *)
LEMMA AgreesIs ==
  ASSUME NEW p, NEW v
  PROVE  /\ Agrees(p, v, 0)
         /\ Agrees(p, v, 1) <=> p.major \in {X, v.major}
         /\ Agrees(p, v, 2) <=> p.major \in {X, v.major} /\ p.minor \in {X, v.minor}
         /\ Agrees(p, v, 3) <=> /\ p.major \in {X, v.major} /\ p.minor \in {X, v.minor}
                                /\ p.patch \in {X, v.patch}
<1>1. /\ TripleOf(p)[1] = p.major /\ TripleOf(p)[2] = p.minor /\ TripleOf(p)[3] = p.patch
      /\ TripleOf(v)[1] = v.major /\ TripleOf(v)[2] = v.minor /\ TripleOf(v)[3] = v.patch
  BY DEF TripleOf
<1>2. \A i : (i \in 1..0 <=> FALSE) /\ (i \in 1..1 <=> i = 1) /\ (i \in 1..2 <=> i = 1 \/ i = 2)
        /\ (i \in 1..3 <=> i = 1 \/ i = 2 \/ i = 3)
  OBVIOUS
<1>3. Agrees(p, v, 0)
  BY <1>2 DEF Agrees
<1>4. Agrees(p, v, 1) <=> p.major \in {X, v.major}
  BY <1>1, <1>2 DEF Agrees
<1>5. Agrees(p, v, 2) <=> p.major \in {X, v.major} /\ p.minor \in {X, v.minor}
  BY <1>1, <1>2 DEF Agrees
<1>6. Agrees(p, v, 3) <=> /\ p.major \in {X, v.major} /\ p.minor \in {X, v.minor}
                          /\ p.patch \in {X, v.patch}
  BY <1>1, <1>2 DEF Agrees
<1> QED BY <1>3, <1>4, <1>5, <1>6

(* A caret pins the components up to the first that is not zero, or those   *)
(* that are there.                                                          *)
LEMMA PinnedIs ==
  ASSUME NEW p \in TidyPartial
  PROVE  Pinned(p) = IF p.major = X THEN 0
                     ELSE IF p.major # 0 \/ p.minor = X THEN 1
                     ELSE IF p.minor # 0 \/ p.patch = X THEN 2
                     ELSE 3
<1> DEFINE given == {i \in 1..3 : TripleOf(p)[i] # X}
           live  == {i \in given : TripleOf(p)[i] > 0}
<1>1. /\ TripleOf(p)[1] = p.major /\ TripleOf(p)[2] = p.minor /\ TripleOf(p)[3] = p.patch
  BY DEF TripleOf
<1>2. /\ \A i : i \in given <=> \/ i = 1 /\ p.major # X
                                \/ i = 2 /\ p.minor # X
                                \/ i = 3 /\ p.patch # X
      /\ \A i : i \in live <=> \/ i = 1 /\ p.major # X /\ p.major > 0
                               \/ i = 2 /\ p.minor # X /\ p.minor > 0
                               \/ i = 3 /\ p.patch # X /\ p.patch > 0
  <2>1. \A i : i \in 1..3 <=> i = 1 \/ i = 2 \/ i = 3
    OBVIOUS
  <2> QED BY <1>1, <2>1
<1>3. Pinned(p) = IF live # {} THEN Min(live) ELSE Cardinality(given)
  BY DEF Pinned
<1> HIDE DEF given, live
<1>4. ASSUME NEW n \in Nat, \A i : i \in given <=> i \in 1..n PROVE Cardinality(given) = n
  <2>1. given = 1..n
    BY <1>4
  <2> QED BY <2>1, FS_Interval
<1>5. IsFiniteSet(live) /\ live \subseteq Int
  <2>1. PICK n \in Int : n = 3
    OBVIOUS
  <2>2. live \subseteq 1..n
    BY <1>2, <2>1
  <2>3. IsFiniteSet(live)
    <3>1. IsFiniteSet(1..n)
      BY FS_Interval
    <3> QED BY <2>2, <3>1, FS_Subset
  <2> QED BY <2>2, <2>3
<1>6. live # {} => Min(live) \in live /\ \A k \in live : Min(live) <= k
  BY <1>5, MaxMinFacts
<1>7. CASE p.major = X
  <2>1. \A i : i \in given <=> i \in 1..0
    BY <1>2, <1>7, PartialType
  <2>2. live = {}
    BY <1>2, <1>7, PartialType
  <2> QED BY <1>3, <1>4, <1>7, <2>1, <2>2
<1>8. CASE p.major \in Nat /\ p.major > 0
  <2>1. 1 \in live
    BY <1>2, <1>8, PartialType
  <2>2. \A k \in live : k = 1 \/ k = 2 \/ k = 3
    BY <1>2
  <2>3. Min(live) = 1
    BY <1>6, <2>1, <2>2
  <2> QED BY <1>3, <1>8, <2>1, <2>3, PartialType
<1>9. CASE p.major = 0 /\ p.minor = X
  <2>1. \A i : i \in given <=> i \in 1..1
    BY <1>2, <1>9, PartialType
  <2>2. live = {}
    BY <1>2, <1>9, PartialType
  <2> QED BY <1>3, <1>4, <1>9, <2>1, <2>2, PartialType
<1>10. CASE p.major = 0 /\ p.minor \in Nat /\ p.minor > 0
  <2>1. 2 \in live
    BY <1>2, <1>10, PartialType
  <2>2. \A k \in live : k = 2 \/ k = 3
    BY <1>2, <1>10
  <2>3. Min(live) = 2
    BY <1>6, <2>1, <2>2
  <2> QED BY <1>3, <1>10, <2>1, <2>3, PartialType
<1>11. CASE p.major = 0 /\ p.minor = 0 /\ p.patch = X
  <2>1. \A i : i \in given <=> i \in 1..2
    BY <1>2, <1>11, PartialType
  <2>2. live = {}
    BY <1>2, <1>11, PartialType
  <2> QED BY <1>3, <1>4, <1>11, <2>1, <2>2, PartialType
<1>12. CASE p.major = 0 /\ p.minor = 0 /\ p.patch = 0
  <2>1. \A i : i \in given <=> i \in 1..3
    BY <1>2, <1>12, PartialType
  <2>2. live = {}
    BY <1>2, <1>12, PartialType
  <2> QED BY <1>3, <1>4, <1>12, <2>1, <2>2, PartialType
<1>13. CASE p.major = 0 /\ p.minor = 0 /\ p.patch \in Nat /\ p.patch > 0
  <2>1. 3 \in live /\ \A k \in live : k = 3
    BY <1>2, <1>13, PartialType
  <2>2. Min(live) = 3
    BY <1>6, <2>1
  <2> QED BY <1>3, <1>13, <2>1, <2>2, PartialType
<1> QED BY <1>7, <1>8, <1>9, <1>10, <1>11, <1>12, <1>13, PartialType

(* A release, named by its components.                                      *)
LEMMA ReleaseIs ==
  ASSUME NEW a, NEW b, NEW c
  PROVE  /\ Release(a, b, c).major = a /\ Release(a, b, c).minor = b /\ Release(a, b, c).patch = c
         /\ ~HasPre(Release(a, b, c))
BY DEF Release, MkVersion, HasPre

(* What is older than a partial version is what is less than its lower      *)
(* bound; nothing is older than one that leaves everything open.            *)
LEMMA OlderIs ==
  ASSUME TextsFit, NEW v \in Version, ~HasPre(v), NEW p \in TidyPartial
  PROVE  /\ v \in Semver /\ v.major \in Nat /\ v.minor \in Nat /\ v.patch \in Nat
         /\ LowerBound(p) \in Semver
         /\ Older(v, p) <=> Less(v, LowerBound(p))
         /\ p.major = X => ~Older(v, p)
<1> DEFINE lo == LowerBound(p)
<1>1. v \in Semver /\ v.major \in Nat /\ v.minor \in Nat /\ v.patch \in Nat
  BY DEF TextsFit, Semver
<1>2. lo \in Semver
  <2>1. Deref(p.major) \in Nat /\ Deref(p.minor) \in Nat /\ Deref(p.patch) \in Nat
    BY PartialType DEF Deref
  <2> QED BY <2>1, PartialType DEF LowerBound, MkVersion, Semver
<1>3. Older(v, p) <=> Less(v, lo)
  BY <1>1, <1>2, ReleaseOrder DEF Older
<1>4. p.major = X => lo.major = 0 /\ lo.minor = 0 /\ lo.patch = 0
  BY PartialType DEF Deref
<1> HIDE DEF lo
<1>5. p.major = X => ~Less(v, lo)
  BY <1>1, <1>4 DEF Less
<1> QED BY <1>1, <1>2, <1>3, <1>5 DEF lo

(* What clauses with a start, an end, both or neither contain.              *)
LEMMA ClauseContains ==
  /\ \A lo, hi, pre, v : Interval(lo, hi, pre) \in Clause =>
       /\ lo \in Bound /\ hi \in Bound
       /\ NumericContains(Interval(lo, hi, pre), v) <=> StartsBelow(lo, v) /\ EndsAbove(hi, v)
  /\ \A v : StartsBelow(Unset, v) /\ EndsAbove(Unset, v) /\ NumericContains(AnyClause, v)
<1>1. ASSUME NEW lo, NEW hi, NEW pre, NEW v, Interval(lo, hi, pre) \in Clause
      PROVE  /\ lo \in Bound /\ hi \in Bound
             /\ NumericContains(Interval(lo, hi, pre), v) <=> StartsBelow(lo, v) /\ EndsAbove(hi, v)
  <2>1. Interval(lo, hi, pre).lo = lo /\ Interval(lo, hi, pre).hi = hi
    BY DEF Interval
  <2> QED BY <1>1, <2>1, ClauseType DEF NumericContains
<1>2. \A v : StartsBelow(Unset, v) /\ EndsAbove(Unset, v) /\ NumericContains(AnyClause, v)
  BY DEF NumericContains, AnyClause, Interval, Unset, StartsBelow, EndsAbove
<1> QED BY <1>1, <1>2

(* A caret or a tilde range goes from the version written to the next that  *)
(* differs in a component pinned (caretBounds, tildeBounds).                *)
LEMMA CaretEndMeans ==
  ASSUME TextsFit, NEW v \in Version, ~HasPre(v), NEW p \in TidyPartial, p.major # X, ~Older(v, p)
  PROVE  Less(v, CaretEnd(p)) <=> Agrees(p, v, Pinned(p))
<1> DEFINE lo == LowerBound(p)
           hi == CaretEnd(p)
<1>1. v.major \in Nat /\ v.minor \in Nat /\ v.patch \in Nat /\ ~Less(v, lo)
  BY OlderIs
<1>2. p.major \in Nat /\ Deref(p.major) = p.major
  BY PartialType DEF Deref
<1>3. CASE p.major # 0 \/ p.minor = X
  <2>1. hi.major = p.major + 1 /\ hi.minor = 0 /\ hi.patch = 0
    BY <1>2, <1>3, ReleaseIs DEF CaretEnd
  <2>2. Agrees(p, v, Pinned(p)) <=> v.major = p.major
    BY <1>3, PinnedIs, AgreesIs
  <2>3. lo.major = p.major /\ lo.minor \in Nat /\ lo.patch \in Nat
    BY <1>2, PartialType DEF Deref
  <2> HIDE DEF hi, lo
  <2> QED BY <1>1, <1>2, <2>1, <2>2, <2>3 DEF Less, hi
<1>4. CASE p.major = 0 /\ p.minor # X /\ (p.minor # 0 \/ p.patch = X)
  <2>1. p.minor \in Nat
    BY <1>4, PartialType
  <2>2. hi.major = 0 /\ hi.minor = p.minor + 1 /\ hi.patch = 0
    BY <1>2, <1>4, ReleaseIs DEF CaretEnd
  <2>3. Agrees(p, v, Pinned(p)) <=> v.major = 0 /\ v.minor = p.minor
    BY <1>4, PinnedIs, AgreesIs
  <2>4. lo.major = 0 /\ lo.minor = p.minor /\ lo.patch \in Nat
    BY <1>2, <1>4, PartialType DEF Deref
  <2> HIDE DEF hi, lo
  <2> QED BY <1>1, <2>1, <2>2, <2>3, <2>4 DEF Less, hi
<1>5. CASE p.major = 0 /\ p.minor = 0 /\ p.patch # X
  <2>1. p.patch \in Nat /\ p.minor # X
    BY <1>5, PartialType
  <2>2. hi.major = 0 /\ hi.minor = 0 /\ hi.patch = p.patch + 1
    BY <1>2, <1>5, <2>1, ReleaseIs DEF CaretEnd
  <2>3. Agrees(p, v, Pinned(p)) <=> v.major = 0 /\ v.minor = 0 /\ v.patch = p.patch
    BY <1>5, <2>1, PinnedIs, AgreesIs
  <2>4. lo.major = 0 /\ lo.minor = 0 /\ lo.patch = p.patch
    BY <1>5, <2>1, PartialType DEF Deref
  <2> HIDE DEF hi, lo
  <2> QED BY <1>1, <2>1, <2>2, <2>3, <2>4 DEF Less, hi
<1> QED BY <1>2, <1>3, <1>4, <1>5, PartialType

(* A tilde range likewise (tildeBounds).                                   *)
LEMMA TildeEndMeans ==
  ASSUME TextsFit, NEW v \in Version, ~HasPre(v), NEW p \in TidyPartial, p.major # X, ~Older(v, p)
  PROVE  Less(v, TildeEnd(p)) <=> Agrees(p, v, 2)
<1> DEFINE lo == LowerBound(p)
           hi == TildeEnd(p)
<1>1. v.major \in Nat /\ v.minor \in Nat /\ v.patch \in Nat /\ ~Less(v, lo)
  BY OlderIs
<1>2. p.major \in Nat /\ Deref(p.major) = p.major
  BY PartialType DEF Deref
<1>3. CASE p.minor = X
  <2>1. hi.major = p.major + 1 /\ hi.minor = 0 /\ hi.patch = 0
    BY <1>2, <1>3, ReleaseIs DEF TildeEnd
  <2>2. Agrees(p, v, 2) <=> v.major = p.major
    BY <1>3, AgreesIs
  <2>3. lo.major = p.major /\ lo.minor \in Nat /\ lo.patch \in Nat
    BY <1>2, PartialType DEF Deref
  <2> HIDE DEF hi, lo
  <2> QED BY <1>1, <1>2, <2>1, <2>2, <2>3 DEF Less, hi
<1>4. CASE p.minor # X
  <2>1. p.minor \in Nat
    BY <1>4, PartialType
  <2>2. hi.major = p.major /\ hi.minor = p.minor + 1 /\ hi.patch = 0
    BY <1>2, <1>4, ReleaseIs DEF TildeEnd
  <2>3. Agrees(p, v, 2) <=> v.major = p.major /\ v.minor = p.minor
    BY <1>4, AgreesIs
  <2>4. lo.major = p.major /\ lo.minor = p.minor /\ lo.patch \in Nat
    BY <1>2, <1>4, PartialType DEF Deref
  <2> HIDE DEF hi, lo
  <2> QED BY <1>1, <1>2, <2>1, <2>2, <2>3, <2>4 DEF Less, hi
<1> QED BY <1>3, <1>4

(* An x-range is the interval of the versions that agree with what is given *)
(* (xRangeBounds).                                                          *)
LEMMA XRangeMeans ==
  ASSUME TextsFit, NEW v \in Version, ~HasPre(v), NEW p \in TidyPartial, p.major # X, IsXRange(p)
  PROVE  /\ Less(v, XRangeStart(p)) <=> Older(v, p)
         /\ Less(v, XRangeEnd(p)) <=> Older(v, p) \/ Agrees(p, v, 3)
         /\ Agrees(p, v, 3) => ~Older(v, p)
<1> DEFINE lo == LowerBound(p)
           st == XRangeStart(p)
           hi == XRangeEnd(p)
<1>1. v.major \in Nat /\ v.minor \in Nat /\ v.patch \in Nat /\ (Older(v, p) <=> Less(v, lo))
  BY OlderIs
<1>2. p.major \in Nat /\ Deref(p.major) = p.major /\ p.patch = X
  BY PartialType DEF Deref
<1>3. CASE p.minor = X
  <2>1. hi.major = p.major + 1 /\ hi.minor = 0 /\ hi.patch = 0
    BY <1>3, ReleaseIs DEF XRangeEnd
  <2>2. st.major = p.major /\ st.minor = 0 /\ st.patch = 0
    BY <1>3, ReleaseIs DEF XRangeStart
  <2>3. Agrees(p, v, 3) <=> v.major = p.major
    BY <1>2, <1>3, AgreesIs
  <2>4. lo.major = p.major /\ lo.minor = 0 /\ lo.patch = 0
    BY <1>2, <1>3, PartialType DEF Deref
  <2> HIDE DEF hi, lo, st
  <2> QED BY <1>1, <1>2, <2>1, <2>2, <2>3, <2>4 DEF Less, hi, st
<1>4. CASE p.minor # X
  <2>0. p.minor \in Nat
    BY <1>4, PartialType
  <2>1. hi.major = p.major /\ hi.minor = p.minor + 1 /\ hi.patch = 0
    BY <1>2, <1>4, ReleaseIs DEF XRangeEnd
  <2>2. st.major = p.major /\ st.minor = p.minor /\ st.patch = 0
    BY <1>2, <1>4, ReleaseIs DEF XRangeStart
  <2>3. Agrees(p, v, 3) <=> v.major = p.major /\ v.minor = p.minor
    BY <1>2, <1>4, AgreesIs
  <2>4. lo.major = p.major /\ lo.minor = p.minor /\ lo.patch = 0
    BY <1>2, <1>4, PartialType DEF Deref
  <2> HIDE DEF hi, lo, st
  <2> QED BY <1>1, <1>2, <2>0, <2>1, <2>2, <2>3, <2>4 DEF Less, hi, st
<1> QED BY <1>3, <1>4

(* Each comparator contains the releases that it means (parseComparator).   *)
LEMMA ComparatorMeans ==
  ASSUME TextsFit, NEW v \in Version, ~HasPre(v), NEW op \in Operators, NEW p \in TidyPartial,
         ParseComparator(Comparator(op, p)) \in Clause
  PROVE  NumericContains(ParseComparator(Comparator(op, p)), v) <=> Means(Comparator(op, p), v)
<1> DEFINE t == Comparator(op, p)
           c == ParseComparator(t)
           lo == LowerBound(p)
           st == XRangeStart(p)
           hi == XRangeEnd(p)
           level == IF IsXRange(p) THEN Agrees(p, v, 3) ELSE Precedence(v, p) = 0
<1>1. t.op = op /\ t.p = p
  BY DEF Comparator
<1>2. Older(v, p) <=> Less(v, lo)
  BY OlderIs
<1>3. ~IsXRange(p) => p = lo
  BY PartialType DEF LowerBound, MkVersion, Deref, TidyPartial
<1>4. ~IsXRange(p) => p.major # X
  BY PartialType
<1>5. ~IsXRange(p) => ~(Precedence(v, p) = 0 /\ Older(v, p))
  BY <1>3 DEF Older
<1>6. p.major = X => IsXRange(p) /\ Agrees(p, v, 3) /\ ~Older(v, p) /\ Agrees(p, v, 2) /\ Agrees(p, v, Pinned(p))
  BY PartialType, OlderIs, AgreesIs, PinnedIs
<1>7. ~NumericContains(EmptyClause, v)
  BY DEF EmptyClause, NumericContains, Interval, From, StartsBelow, EndsAbove
<1>8. ASSUME NEW w, NEW i \in BOOLEAN, From(w, i) \in Bound
      PROVE  /\ StartsBelow(From(w, i), v) <=> ~Less(v, w) /\ (i \/ Precedence(v, w) # 0)
             /\ EndsAbove(From(w, i), v) <=> Less(v, w) \/ (i /\ Precedence(v, w) = 0)
  BY <1>8, BoundsOfRelease
<1>9. ASSUME NEW w, NEW i \in BOOLEAN, NEW u, NEW j \in BOOLEAN, NEW pre, c = Interval(From(w, i), From(u, j), pre)
       PROVE  NumericContains(c, v) <=> /\ ~Less(v, w) /\ (i \/ Precedence(v, w) # 0)
                                        /\ Less(v, u) \/ (j /\ Precedence(v, u) = 0)
  <2>1. /\ From(w, i) \in Bound /\ From(u, j) \in Bound
        /\ NumericContains(c, v) <=> StartsBelow(From(w, i), v) /\ EndsAbove(From(u, j), v)
    BY <1>9, ClauseContains
  <2> QED BY <1>8, <2>1
<1> HIDE DEF lo, st, hi
<1>10. CASE op = "^"
  <2>1. c = CmpCaret(p) /\ (Means(t, v) <=> ~Older(v, p) /\ Agrees(p, v, Pinned(p)))
    BY <1>1, <1>10 DEF ParseComparator, Means
  <2>2. CASE p.major = X
    BY <1>6, <2>1, <2>2, ClauseContains DEF CmpCaret
  <2>3. CASE p.major # X
    <3>1. c = Interval(From(lo, TRUE), From(CaretEnd(p), FALSE), PreFor(p))
      BY <2>1, <2>3 DEF CmpCaret, HalfOpen, lo
    <3>2. NumericContains(c, v) <=> ~Less(v, lo) /\ Less(v, CaretEnd(p))
      BY <1>9, <3>1
    <3> QED BY <1>2, <2>1, <2>3, <3>2, CaretEndMeans
  <2> QED BY <2>2, <2>3
<1>11. CASE op = "~"
  <2>1. c = CmpTilde(p) /\ (Means(t, v) <=> ~Older(v, p) /\ Agrees(p, v, 2))
    BY <1>1, <1>11 DEF ParseComparator, Means
  <2>2. CASE p.major = X
    BY <1>6, <2>1, <2>2, ClauseContains DEF CmpTilde
  <2>3. CASE p.major # X
    <3>1. c = Interval(From(lo, TRUE), From(TildeEnd(p), FALSE), PreFor(p))
      BY <2>1, <2>3 DEF CmpTilde, HalfOpen, lo
    <3>2. NumericContains(c, v) <=> ~Less(v, lo) /\ Less(v, TildeEnd(p))
      BY <1>9, <3>1
    <3> QED BY <1>2, <2>1, <2>3, <3>2, TildeEndMeans
  <2> QED BY <2>2, <2>3
<1>12. CASE op = "="
  <2>1. c = ExactOrXRange(p) /\ (Means(t, v) <=> level)
    BY <1>1, <1>12 DEF ParseComparator, Means
  <2>2. CASE p.major = X
    BY <1>6, <2>1, <2>2, ClauseContains DEF ExactOrXRange
  <2>3. CASE p.major # X /\ IsXRange(p)
    <3>1. c = Interval(From(st, TRUE), From(hi, FALSE), PreFor(p))
      BY <2>1, <2>3 DEF ExactOrXRange, HalfOpen, st, hi
    <3>2. NumericContains(c, v) <=> ~Less(v, st) /\ Less(v, hi)
      BY <1>9, <3>1
    <3> QED BY <2>1, <2>3, <3>2, XRangeMeans DEF st, hi
  <2>4. CASE ~IsXRange(p)
    <3>1. c = Interval(From(lo, TRUE), From(lo, TRUE), PreFor(p))
      BY <1>4, <2>1, <2>4 DEF ExactOrXRange, lo
    <3>2. NumericContains(c, v) <=> ~Less(v, lo) /\ Precedence(v, lo) = 0
      BY <1>2, <1>3, <1>5, <1>9, <2>4, <3>1
    <3> QED BY <1>2, <1>3, <1>5, <2>1, <2>4, <3>2
  <2> QED BY <2>2, <2>3, <2>4
<1>13. CASE op = ">="
  <2>1. c = CmpGE(p) /\ (Means(t, v) <=> ~Older(v, p))
    BY <1>1, <1>13 DEF ParseComparator, Means
  <2>2. CASE p.major = X
    BY <1>6, <2>1, <2>2, ClauseContains DEF CmpGE
  <2>3. CASE p.major # X /\ IsXRange(p)
    <3>1. c = Interval(From(st, TRUE), Unset, {})
      BY <2>1, <2>3 DEF CmpGE, AtLeast, st
    <3>2. NumericContains(c, v) <=> ~Less(v, st)
      BY <1>8, <3>1, ClauseContains
    <3> QED BY <2>1, <2>3, <3>2, XRangeMeans DEF st
  <2>4. CASE ~IsXRange(p)
    <3>1. c = Interval(From(lo, TRUE), Unset, PreFor(p))
      BY <1>4, <2>1, <2>4 DEF CmpGE, AtLeast, lo
    <3>2. NumericContains(c, v) <=> ~Less(v, lo)
      BY <1>8, <3>1, ClauseContains
    <3> QED BY <1>2, <2>1, <3>2
  <2> QED BY <2>2, <2>3, <2>4
<1>14. CASE op = "<"
  <2>1. c = CmpLT(p) /\ (Means(t, v) <=> p.major # X /\ Older(v, p))
    BY <1>1, <1>14 DEF ParseComparator, Means
  <2>2. CASE p.major = X
    BY <1>7, <2>1, <2>2 DEF CmpLT
  <2>3. CASE p.major # X /\ IsXRange(p)
    <3>1. c = Interval(Unset, From(st, FALSE), {})
      BY <2>1, <2>3 DEF CmpLT, AtMost, st
    <3>2. NumericContains(c, v) <=> Less(v, st)
      BY <1>8, <3>1, ClauseContains
    <3> QED BY <2>1, <2>3, <3>2, XRangeMeans DEF st
  <2>4. CASE ~IsXRange(p)
    <3>1. c = Interval(Unset, From(lo, FALSE), PreFor(p))
      BY <1>4, <2>1, <2>4 DEF CmpLT, AtMost, lo
    <3>2. NumericContains(c, v) <=> Less(v, lo)
      BY <1>8, <3>1, ClauseContains
    <3> QED BY <1>2, <1>4, <2>1, <2>4, <3>2
  <2> QED BY <2>2, <2>3, <2>4
<1>15. CASE op = "<="
  <2>1. c = CmpLE(p) /\ (Means(t, v) <=> Older(v, p) \/ level)
    BY <1>1, <1>15 DEF ParseComparator, Means
  <2>2. CASE p.major = X
    BY <1>6, <2>1, <2>2, ClauseContains DEF CmpLE
  <2>3. CASE p.major # X /\ IsXRange(p)
    <3>1. c = Interval(Unset, From(hi, FALSE), {})
      BY <2>1, <2>3 DEF CmpLE, AtMost, hi
    <3>2. NumericContains(c, v) <=> Less(v, hi)
      BY <1>8, <3>1, ClauseContains
    <3> QED BY <2>1, <2>3, <3>2, XRangeMeans DEF hi
  <2>4. CASE ~IsXRange(p)
    <3>1. c = Interval(Unset, From(lo, TRUE), PreFor(p))
      BY <1>4, <2>1, <2>4 DEF CmpLE, AtMost, lo
    <3>2. NumericContains(c, v) <=> Less(v, lo) \/ Precedence(v, lo) = 0
      BY <1>8, <3>1, ClauseContains
    <3> QED BY <1>2, <1>3, <2>1, <2>4, <3>2
  <2> QED BY <2>2, <2>3, <2>4
<1>16. CASE op = ">"
  <2>1. c = CmpGT(p) /\ (Means(t, v) <=> ~Older(v, p) /\ p.major # X /\ ~level)
    BY <1>1, <1>16 DEF ParseComparator, Means
  <2>2. CASE p.major = X
    BY <1>7, <2>1, <2>2 DEF CmpGT
  <2>3. CASE p.major # X /\ IsXRange(p)
    <3>1. c = Interval(From(hi, TRUE), Unset, {})
      BY <2>1, <2>3 DEF CmpGT, AtLeast, hi
    <3>2. NumericContains(c, v) <=> ~Less(v, hi)
      BY <1>8, <3>1, ClauseContains
    <3> QED BY <2>1, <2>3, <3>2, XRangeMeans DEF hi
  <2>4. CASE ~IsXRange(p)
    <3>1. c = Interval(From(lo, FALSE), Unset, PreFor(p))
      BY <1>4, <2>1, <2>4 DEF CmpGT, AtLeast, lo
    <3>2. NumericContains(c, v) <=> ~Less(v, lo) /\ Precedence(v, lo) # 0
      BY <1>8, <3>1, ClauseContains
    <3> QED BY <1>2, <1>3, <1>4, <2>1, <2>4, <3>2
  <2> QED BY <2>2, <2>3, <2>4
<1> QED BY <1>10, <1>11, <1>12, <1>13, <1>14, <1>15, <1>16 DEF Operators

(* A hyphen range contains the releases between its ends, all that agree    *)
(* with an upper end in part among them (parseHyphen).                      *)
LEMMA HyphenMeans ==
  ASSUME TextsFit, NEW v \in Version, ~HasPre(v), NEW l \in TidyPartial, NEW u \in TidyPartial,
         ParseHyphen(l, u) \in Clause
  PROVE  NumericContains(ParseHyphen(l, u), v) <=> Means(Comparator(">=", l), v) /\ Means(Comparator("<=", u), v)
<1> DEFINE level == IF IsXRange(u) THEN Agrees(u, v, 3) ELSE Precedence(v, u) = 0
           hi == CASE u.major = X -> Unset
                   [] u.major # X /\ IsXRange(u) -> From(XRangeEnd(u), FALSE)
                   [] OTHER -> From(LowerBound(u), TRUE)
           c == ParseHyphen(l, u)
           pre == PreFor(l) \cup PreFor(u)
<1>1. /\ Means(Comparator(">=", l), v) <=> ~Older(v, l)
      /\ Means(Comparator("<=", u), v) <=> Older(v, u) \/ level
  BY DEF Means, Comparator
<1>2. c = Interval(From(LowerBound(l), TRUE), hi, pre)
  BY DEF ParseHyphen
<1> HIDE DEF hi, pre
<1>3. /\ From(LowerBound(l), TRUE) \in Bound /\ hi \in Bound
      /\ NumericContains(c, v) <=> StartsBelow(From(LowerBound(l), TRUE), v) /\ EndsAbove(hi, v)
  BY <1>2, ClauseContains
<1>4. StartsBelow(From(LowerBound(l), TRUE), v) <=> ~Older(v, l)
  BY <1>3, BoundsOfRelease, OlderIs
<1>5. EndsAbove(hi, v) <=> Older(v, u) \/ level
  <2>1. CASE u.major = X
    <3>1. hi = Unset
      BY <2>1 DEF hi
    <3>2. IsXRange(u) /\ Agrees(u, v, 3)
      BY <2>1, PartialType, AgreesIs
    <3> QED BY <3>1, <3>2, ClauseContains
  <2>2. CASE u.major # X /\ IsXRange(u)
    <3>1. hi = From(XRangeEnd(u), FALSE)
      BY <2>2 DEF hi
    <3>2. EndsAbove(hi, v) <=> Less(v, XRangeEnd(u))
      BY <1>3, <3>1, BoundsOfRelease
    <3> QED BY <2>2, <3>2, XRangeMeans
  <2>3. CASE ~IsXRange(u)
    <3>1. hi = From(LowerBound(u), TRUE) /\ LowerBound(u) = u
      <4>1. u.major # X
        BY <2>3, PartialType
      <4> QED BY <2>3, <4>1, PartialType DEF hi, LowerBound, MkVersion, Deref, TidyPartial
    <3>2. hi = From(u, TRUE) /\ From(u, TRUE) \in Bound
      BY <1>3, <3>1
    <3>3. EndsAbove(From(u, TRUE), v) <=> Less(v, u) \/ Precedence(v, u) = 0
      <4>1. \A i \in BOOLEAN : From(u, i) \in Bound =>
              (EndsAbove(From(u, i), v) <=> Less(v, u) \/ (i /\ Precedence(v, u) = 0))
        BY BoundsOfRelease
      <4> QED BY <3>2, <4>1
    <3>4. Older(v, u) <=> Less(v, u)
      BY <3>1, OlderIs
    <3> QED BY <2>3, <3>2, <3>3, <3>4
  <2> QED BY <2>1, <2>2, <2>3
<1> QED BY <1>1, <1>3, <1>4, <1>5

(* The triples at which something written names a prerelease.               *)
Names(p) == IF HasPre(p) THEN {TripleOf(p)} ELSE {}
(* A clause names the triples that were written, and no other (preFor).     *)
LEMMA ComparatorNames ==
  /\ \A p \in TidyPartial : PreFor(p) = Names(p)
  /\ \A op \in Operators, p \in TidyPartial : ParseComparator(Comparator(op, p)).pre \subseteq Names(p)
<1>1. ASSUME NEW p \in TidyPartial PROVE PreFor(p) = Names(p)
  <2>1. HasPre(p) => p.major # X /\ p.minor # X /\ p.patch # X
    BY PartialType
  <2> QED BY <2>1 DEF PreFor, Names, TupleZero, TripleOf, Deref
<1>2. ASSUME NEW op \in Operators, NEW p \in TidyPartial
      PROVE  ParseComparator(Comparator(op, p)).pre \subseteq Names(p)
  <2> DEFINE Plain(c) == c.pre \in {{}, PreFor(p)}
  <2>1. \A lo, hi : Plain(Interval(lo, hi, {})) /\ Plain(Interval(lo, hi, PreFor(p)))
    BY DEF Interval
  <2>2. Plain(AnyClause) /\ Plain(EmptyClause)
    BY <2>1 DEF AnyClause, EmptyClause
  <2>3. Comparator(op, p).op = op /\ Comparator(op, p).p = p
    BY DEF Comparator
  <2> HIDE DEF Plain
  <2>4. \A v, i : /\ Plain(AtLeast(v, i, {})) /\ Plain(AtLeast(v, i, PreFor(p)))
                  /\ Plain(AtMost(v, i, {})) /\ Plain(AtMost(v, i, PreFor(p)))
    BY <2>1 DEF AtLeast, AtMost
  <2>5. \A lo, hi : Plain(HalfOpen(lo, hi, p))
    BY <2>1 DEF HalfOpen
  <2>6. Plain(ExactOrXRange(p)) /\ Plain(CmpCaret(p)) /\ Plain(CmpTilde(p))
    BY <2>1, <2>2, <2>5 DEF ExactOrXRange, CmpCaret, CmpTilde
  <2>7. Plain(CmpGE(p)) /\ Plain(CmpLE(p)) /\ Plain(CmpGT(p)) /\ Plain(CmpLT(p))
    BY <2>2, <2>4 DEF CmpGE, CmpLE, CmpGT, CmpLT
  <2>8. Plain(ParseComparator(Comparator(op, p)))
    BY <2>3, <2>6, <2>7 DEF ParseComparator, Operators
  <2> QED BY <1>1, <2>8 DEF Plain
<1> QED BY <1>1, <1>2

(* A set of comparators contains what each of them does (parseClause).      *)
LEMMA SetIsAnd ==
  ASSUME NEW s, ~s.hyphen, s.toks \in Seq([op : Operators, p : TidyPartial]),
         \A i \in DOMAIN s.toks : ParseComparator(s.toks[i]) \in Clause
  PROVE  /\ ParseClause(s) \in Clause
         /\ \A v \in Version : NumericContains(ParseClause(s), v)
              <=> \A i \in DOMAIN s.toks : NumericContains(ParseComparator(s.toks[i]), v)
         /\ \A x : x \in ParseClause(s).pre => \E i \in DOMAIN s.toks : x \in ParseComparator(s.toks[i]).pre
<1> DEFINE S == DOMAIN s.toks
           Parsed(i) == ParseComparator(s.toks[i])
           Rec(f, t) == IF t = {} THEN AnyClause ELSE IntersectClause(f[t \ {Max(t)}], Parsed(Max(t)))
           Def(f) == f = [t \in SUBSET S |-> Rec(f, t)]
           V == Clause
<1>1. IsFiniteSet(S) /\ S \subseteq Int
  <2>1. Len(s.toks) \in Nat /\ S = 1..Len(s.toks)
    OBVIOUS
  <2>2. IsFiniteSet(1..Len(s.toks))
    BY <2>1, FS_Interval
  <2> QED BY <2>1, <2>2
<1>2. \A i \in S : Parsed(i) \in Clause
  OBVIOUS
<1>3. ParseClause(s) = FoldLeft(LAMBDA acc, t : IntersectClause(acc, ParseComparator(t)), AnyClause, s.toks)
  BY DEF ParseClause
<1>4. ParseClause(s) = (CHOOSE g : Def(g))[S]
  BY <1>3 DEF FoldLeft, MapThenFoldSet
<1>5. AnyClause \in Clause /\ AnyClause.pre = {}
  BY UnsetType DEF AnyClause, Interval, Clause
<1> HIDE DEF Parsed, S
<1>6. \A t \in SUBSET S : t # {} => Max(t) \in t
  BY <1>1, FS_Subset, MaxMinFacts
<1>7. \E f : Def(f)
  <2> DEFINE ch == [t \in (SUBSET S) \ {{}} |-> Max(t)]
             op == [e \in S \X V |-> IntersectClause(e[2], Parsed(e[1]))]
  <2>1. ch \in [(SUBSET S) \ {{}} -> S] /\ \A t \in (SUBSET S) \ {{}} : ch[t] \in t
    BY <1>6
  <2>2. op \in [S \X V -> V]
    BY <1>2, IntersectClauseIsAnd
  <2>3. AnyClause \in V
    BY <1>5
  <2>4. TakesOut(ch, S)
    BY <2>1 DEF TakesOut
  <2> HIDE DEF ch, op, V
  <2>5. PICK f \in [SUBSET S -> V] : Folded(f, S, AnyClause, op, ch)
    BY <1>1, <2>2, <2>3, <2>4, FoldExists
  <2>6. ASSUME NEW t \in SUBSET S PROVE f[t] = Rec(f, t)
    <3>1. CASE t = {}
      BY <2>5, <3>1 DEF Folded
    <3>2. CASE t # {}
      <4>1. ch[t] = Max(t) /\ ch[t] \in S /\ f[t \ {ch[t]}] \in V
        BY <2>1, <2>5, <3>2 DEF ch
      <4>2. f[t] = op[<<ch[t], f[t \ {ch[t]}]>>]
        BY <2>5, <3>2 DEF Folded
      <4>3. op[<<ch[t], f[t \ {ch[t]}]>>] = IntersectClause(f[t \ {ch[t]}], Parsed(ch[t]))
        BY <4>1 DEF op
      <4> QED BY <4>1, <4>2, <4>3, <3>2
    <3> QED BY <3>1, <3>2
  <2>7. Def(f)
    <3> HIDE DEF Rec
    <3> QED BY <2>5, <2>6
  <2> HIDE DEF Def
  <2> QED BY <2>7
<1>8. PICK f : Def(f) /\ ParseClause(s) = f[S]
  <2>1. Def(CHOOSE g : Def(g))
    <3> HIDE DEF Def
    <3> QED BY <1>7
  <2> HIDE DEF Def
  <2> QED BY <1>4, <2>1
<1>9. \A t \in SUBSET S : f[t] = Rec(f, t)
  <2> HIDE DEF Rec
  <2> QED BY <1>8
<1> DEFINE Is(t) == /\ f[t] \in Clause
                    /\ \A v \in Version : NumericContains(f[t], v) <=> \A i \in t : NumericContains(Parsed(i), v)
                    /\ \A x : x \in f[t].pre => \E i \in t : x \in Parsed(i).pre
           Q == {t \in SUBSET S : Is(t)}
<1>10. ASSUME NEW t \in SUBSET S, \A r \in SUBSET t : r # t => r \in Q
       PROVE  t \in Q
  <2>1. CASE t = {}
    <3>1. f[t] = AnyClause
      BY <1>9, <2>1
    <3> QED BY <1>5, <2>1, <3>1, ClauseContains
  <2>2. CASE t # {}
    <3> DEFINE n == Max(t)
               r == t \ {n}
    <3>1. n \in t /\ n \in S
      BY <1>6, <2>2
    <3>2. Is(r)
      BY <1>10, <3>1
    <3>3. f[t] = IntersectClause(f[r], Parsed(n))
      BY <1>9, <2>2
    <3>4. \A i : i \in t <=> i \in r \/ i = n
      BY <3>1
    <3> HIDE DEF n, r
    <3>5. Parsed(n) \in Clause /\ f[r] \in Clause
      BY <1>2, <3>1, <3>2
    <3>6. /\ f[t] \in Clause
          /\ \A v \in Version : NumericContains(f[t], v) <=> NumericContains(f[r], v) /\ NumericContains(Parsed(n), v)
      BY <3>3, <3>5, IntersectClauseIsAnd, VersionIsPoint
    <3>7. f[t].pre = f[r].pre \cup Parsed(n).pre
      BY <3>3 DEF IntersectClause, Interval
    <3> QED BY <3>2, <3>4, <3>6, <3>7
  <2> QED BY <2>1, <2>2
<1>11. S \in Q
  <2>1. SUBSET S \subseteq Q
    <3> HIDE DEF Q
    <3> QED BY <1>1, <1>10, SubsetInduction
  <2> QED BY <2>1
<1> QED BY <1>8, <1>11 DEF Parsed, S

(* A set contains the releases that it means, and names the triples of the  *)
(* prereleases that are written in it (parseClause, parseHyphen).           *)
LEMMA ClauseMeans ==
  ASSUME TextsFit, NEW s \in TidySet, BoundsAreVersions(s)
  PROVE  /\ ParseClause(s) \in Clause
         /\ \A v \in Version : ~HasPre(v) => (NumericContains(ParseClause(s), v) <=> SetMeans(s, v))
         /\ \A x \in ParseClause(s).pre : \E p \in PartialsOf(s) : HasPre(p) /\ x = TripleOf(p)
<1>1. CASE s.hyphen
  <2>1. s.l \in TidyPartial /\ s.u \in TidyPartial
    BY <1>1 DEF TidySet
  <2>2. ParseClause(s) = ParseHyphen(s.l, s.u) /\ ParseHyphen(s.l, s.u) \in Clause
    BY <1>1 DEF ParseClause, BoundsAreVersions
  <2>3. ASSUME NEW v \in Version, ~HasPre(v)
        PROVE  NumericContains(ParseClause(s), v) <=> SetMeans(s, v)
    BY <1>1, <2>1, <2>2, <2>3, HyphenMeans DEF SetMeans
  <2>4. ParseHyphen(s.l, s.u).pre = Names(s.l) \cup Names(s.u)
    BY <2>1, ComparatorNames DEF ParseHyphen, Interval
  <2>5. ASSUME NEW x \in ParseClause(s).pre
        PROVE  \E p \in PartialsOf(s) : HasPre(p) /\ x = TripleOf(p)
    BY <1>1, <2>2, <2>4, <2>5 DEF Names, PartialsOf
  <2> QED BY <2>2, <2>3, <2>5
<1>2. CASE ~s.hyphen
  <2>1. s.toks \in Seq([op : Operators, p : TidyPartial])
    BY <1>2 DEF TidySet
  <2>2. \A i \in DOMAIN s.toks : ParseComparator(s.toks[i]) \in Clause
    BY <1>2 DEF BoundsAreVersions
  <2>3. /\ ParseClause(s) \in Clause
        /\ \A v \in Version : NumericContains(ParseClause(s), v)
             <=> \A i \in DOMAIN s.toks : NumericContains(ParseComparator(s.toks[i]), v)
        /\ \A x : x \in ParseClause(s).pre => \E i \in DOMAIN s.toks : x \in ParseComparator(s.toks[i]).pre
    BY <1>2, <2>1, <2>2, SetIsAnd
  <2>4. ASSUME NEW i \in DOMAIN s.toks
        PROVE  /\ s.toks[i].op \in Operators /\ s.toks[i].p \in TidyPartial
               /\ s.toks[i] = Comparator(s.toks[i].op, s.toks[i].p)
    <3>1. s.toks[i] \in [op : Operators, p : TidyPartial]
      <4>1. \A T, q : q \in Seq(T) => \A j \in DOMAIN q : q[j] \in T
        OBVIOUS
      <4> QED BY <2>1, <2>4, <4>1
    <3> QED BY <3>1 DEF Comparator
  <2>5. ASSUME NEW v \in Version, ~HasPre(v), NEW i \in DOMAIN s.toks
        PROVE  NumericContains(ParseComparator(s.toks[i]), v) <=> Means(s.toks[i], v)
    <3> DEFINE o == s.toks[i].op
               p == s.toks[i].p
    <3>1. o \in Operators /\ p \in TidyPartial /\ s.toks[i] = Comparator(o, p)
      BY <2>4
    <3>2. ParseComparator(Comparator(o, p)) \in Clause
      BY <2>2, <3>1
    <3> HIDE DEF o, p
    <3> QED BY <2>5, <3>1, <3>2, ComparatorMeans
  <2>6. ASSUME NEW v \in Version, ~HasPre(v)
        PROVE  NumericContains(ParseClause(s), v) <=> SetMeans(s, v)
    BY <1>2, <2>3, <2>5, <2>6 DEF SetMeans
  <2>7. ASSUME NEW x \in ParseClause(s).pre
        PROVE  \E p \in PartialsOf(s) : HasPre(p) /\ x = TripleOf(p)
    <3>1. PICK i \in DOMAIN s.toks : x \in ParseComparator(s.toks[i]).pre
      BY <2>3, <2>7
    <3>2. ParseComparator(s.toks[i]).pre \subseteq Names(s.toks[i].p)
      BY <2>4, ComparatorNames
    <3>3. s.toks[i].p \in PartialsOf(s)
      BY <1>2 DEF PartialsOf
    <3> QED BY <3>1, <3>2, <3>3 DEF Names
  <2> QED BY <2>3, <2>6, <2>7
<1> QED BY <1>1, <1>2

(* A range as it is written: its clauses, the releases that satisfy it, and *)
(* the triples that its clauses name (ParseRange).                          *)
LEMMA TextIsRead ==
  ASSUME TextsFit, NEW x \in Texts \cup Partners
  PROVE  /\ ParseRange(x) \in SUBSET Clause
         /\ {v \in Probes : ~HasPre(v) /\ Satisfies(ParseRange(x), v)} = TextMeans(x)
         /\ \A c \in ParseRange(x) : c.pre \subseteq TextNames(x)
<1>1. x \in Seq(TidySet) /\ \A i \in DOMAIN x : x[i] \in TidySet /\ BoundsAreVersions(x[i])
  BY DEF TextsFit
<1>2. Probes \subseteq Version /\ \A v \in Version : IsPrerelease(v) <=> HasPre(v)
  BY DEF TextsFit
<1>3. \A v \in Probes : ~HasPre(v) =>
        (Satisfies(ParseRange(x), v) <=> \E c \in ParseRange(x) : NumericContains(c, v))
  BY <1>2 DEF Satisfies, ClauseSatisfies
<1>4. CASE x = <<>>
  <2>1. ParseRange(x) = {AnyClause}
    BY <1>4 DEF ParseRange
  <2>2. AnyClause \in Clause /\ AnyClause.pre = {}
    BY UnsetType DEF AnyClause, Interval, Clause
  <2>3. {v \in Probes : ~HasPre(v) /\ Satisfies(ParseRange(x), v)} = TextMeans(x)
    BY <1>3, <1>4, <2>1, ClauseContains DEF TextMeans
  <2> QED BY <2>1, <2>2, <2>3
<1>5. CASE x # <<>>
  <2>1. ParseRange(x) = {ParseClause(x[i]) : i \in DOMAIN x}
    BY <1>5 DEF ParseRange
  <2>2. ASSUME NEW i \in DOMAIN x
        PROVE  /\ ParseClause(x[i]) \in Clause
               /\ \A v \in Version : ~HasPre(v) => (NumericContains(ParseClause(x[i]), v) <=> SetMeans(x[i], v))
               /\ \A t \in ParseClause(x[i]).pre : \E p \in PartialsOf(x[i]) : HasPre(p) /\ t = TripleOf(p)
    BY <1>1, ClauseMeans
  <2>3. {v \in Probes : ~HasPre(v) /\ Satisfies(ParseRange(x), v)} = TextMeans(x)
    BY <1>2, <1>3, <1>5, <2>1, <2>2 DEF TextMeans
  <2>4. \A c \in ParseRange(x) : c.pre \subseteq TextNames(x)
    BY <2>1, <2>2 DEF TextNames
  <2> QED BY <2>1, <2>2, <2>3, <2>4
<1> QED BY <1>4, <1>5

(* What the combinations of texts keep.                                     *)
RangeInv ==
  /\ range \in SUBSET Clause
  /\ ReadsAsWritten
  /\ \A c \in range : c.pre \subseteq named

(* The text that a range starts as.                                         *)
LEMMA ReadKeeps == ASSUME TextsFit, NEW x \in Texts, ReadText(x) PROVE RangeInv
BY TextIsRead DEF ReadText, RangeInv, ReadsAsWritten

(* Meeting or joining another.                                              *)
LEMMA StepKeeps ==
  ASSUME TextsFit, RangeInv, [RNext]_rvars
  PROVE  RangeInv'
<1>1. ASSUME NEW x \in Partners, MeetText(x)
      PROVE  RangeInv'
  <2> DEFINE o == ParseRange(x)
  <2>1. /\ o \in SUBSET Clause
        /\ {v \in Probes : ~HasPre(v) /\ Satisfies(o, v)} = TextMeans(x)
        /\ \A c \in o : c.pre \subseteq TextNames(x)
    BY TextIsRead
  <2>2. range' = Intersect(range, o) /\ meaning' = meaning \cap TextMeans(x) /\ named' = named \cup TextNames(x)
    BY <1>1 DEF MeetText
  <2> HIDE DEF o
  <2>3. \A c \in range' : \E a \in range, b \in o : c = IntersectClause(a, b)
    BY <2>2 DEF Intersect
  <2>4. \A a \in range, b \in o : IntersectClause(a, b) \in Clause /\ IntersectClause(a, b).pre = a.pre \cup b.pre
    <3>1. \A a \in range, b \in o : IntersectClause(a, b) \in Clause
      BY <2>1, IntersectClauseIsAnd DEF RangeInv
    <3> QED BY <3>1 DEF IntersectClause, Interval
  <2>5. \A v \in Probes : ~HasPre(v) => (Satisfies(range', v) <=> Satisfies(range, v) /\ Satisfies(o, v))
    BY <2>1, <2>2, ReleasesFollowTheAlgebra DEF RangeInv, Ranges, TextsFit
  <2>6. ReadsAsWritten'
    BY <2>1, <2>2, <2>5 DEF RangeInv, ReadsAsWritten
  <2>7. range' \in SUBSET Clause
    BY <2>3, <2>4
  <2>8. \A c \in range' : c.pre \subseteq named'
    BY <2>1, <2>2, <2>3, <2>4 DEF RangeInv
  <2> QED BY <2>6, <2>7, <2>8 DEF RangeInv
<1>2. ASSUME NEW x \in Partners, JoinText(x)
      PROVE  RangeInv'
  <2> DEFINE o == ParseRange(x)
  <2>1. /\ o \in SUBSET Clause
        /\ {v \in Probes : ~HasPre(v) /\ Satisfies(o, v)} = TextMeans(x)
        /\ \A c \in o : c.pre \subseteq TextNames(x)
    BY TextIsRead
  <2>2. range' = range \cup o /\ meaning' = meaning \cup TextMeans(x) /\ named' = named \cup TextNames(x)
    BY <1>2 DEF JoinText, Union
  <2> HIDE DEF o
  <2>3. \A v : Satisfies(range', v) <=> Satisfies(range, v) \/ Satisfies(o, v)
    BY <2>2 DEF Satisfies
  <2>4. ReadsAsWritten'
    BY <2>1, <2>2, <2>3 DEF RangeInv, ReadsAsWritten
  <2>5. range' \in SUBSET Clause /\ \A c \in range' : c.pre \subseteq named'
    BY <2>1, <2>2 DEF RangeInv
  <2> QED BY <2>4, <2>5 DEF RangeInv
<1>3. ASSUME UNCHANGED rvars
      PROVE  RangeInv'
  BY <1>3 DEF rvars, RangeInv, ReadsAsWritten
<1> QED BY <1>1, <1>2, <1>3 DEF RNext

(* RangeInv holds of every range that is put together of tidy texts.        *)
LEMMA RangeInvHolds == TextsFit => (RSpec => []RangeInv)
<1> SUFFICES ASSUME TextsFit PROVE RSpec => []RangeInv
  OBVIOUS
<1>1. RInit => RangeInv
  BY ReadKeeps DEF RInit
<1>2. RangeInv /\ [RNext]_rvars => RangeInv'
  BY StepKeeps
<1> QED BY <1>1, <1>2, PTL DEF RSpec

(* However many texts are met and joined, and in whatever order, the range  *)
(* admits exactly the releases that the texts mean, read component by       *)
(* component and without intervals: caretBounds, tildeBounds, xRangeBounds  *)
(* and parseHyphen give the right ends, and Intersect and Union lose        *)
(* nothing.  This is so for all tidy texts and any set of versions in the   *)
(* order of Version.Compare that has their bounds.                          *)
THEOREM RangesReadAsWritten == TextsFit => (RSpec => []ReadsAsWritten)
<1>1. RangeInv => ReadsAsWritten
  BY DEF RangeInv
<1> QED BY <1>1, RangeInvHolds, PTL

(* A prerelease satisfies a range only where one of the texts that it is    *)
(* made of named a prerelease of the same triple (preFor, clause.satisfies, *)
(* intersectClause), through any chain of meets and joins.                  *)
THEOREM PrereleasesAreNamed == TextsFit => (RSpec => []PrereleaseIsNamed)
<1> SUFFICES ASSUME TextsFit PROVE RSpec => []PrereleaseIsNamed
  OBVIOUS
<1>1. RangeInv => PrereleaseIsNamed
  BY DEF TextsFit, RangeInv, PrereleaseIsNamed, Satisfies, ClauseSatisfies
<1> QED BY <1>1, RangeInvHolds, PTL
--------------------------------------------------------------------------------
(* A range that is read has finitely many clauses, between the cuts.        *)
LEMMA TextIsCut ==
  ASSUME TextsFit, NEW x \in Texts \cup Partners
  PROVE  ParseRange(x) \in NpmRange /\ EndsOf(ParseRange(x)) \subseteq Cuts
<1>1. IsFiniteSet(ParseRange(x))
  <2>1. CASE x = <<>>
    <3>1. ParseRange(x) = {AnyClause}
      BY <2>1 DEF ParseRange
    <3> QED BY <3>1, FS_Singleton
  <2>2. CASE x # <<>>
    <3> DEFINE f == [i \in DOMAIN x |-> ParseClause(x[i])]
               S == {ParseClause(x[i]) : i \in DOMAIN x}
    <3>1. IsFiniteSet(DOMAIN x)
      <4>1. x \in Seq(TidySet)
        BY DEF TextsFit
      <4>2. DOMAIN x = 1..Len(x) /\ Len(x) \in Nat
        BY <4>1
      <4> QED BY <4>2, FS_Interval
    <3>2. f \in Surjection(DOMAIN x, S)
      BY DEF Surjection
    <3>3. ParseRange(x) = S
      BY <2>2 DEF ParseRange
    <3> HIDE DEF f, S
    <3> QED BY <3>1, <3>2, <3>3, FS_Surjection
  <2> QED BY <2>1, <2>2
<1> QED BY <1>1, TextIsRead DEF NpmRange, Cuts

(* The ends of a clause are among those of its range.                       *)
LEMMA EndsAre ==
  ASSUME NEW r, NEW S
  PROVE  EndsOf(r) \subseteq S <=>
           \A c \in r : (c.lo.set => c.lo.at \in S) /\ (c.hi.set => c.hi.at \in S)
BY DEF EndsOf

(* Met or joined, ranges end where they ended.                              *)
LEMMA CutsStay ==
  ASSUME NEW r \in NpmRange, NEW o \in NpmRange, NEW S, EndsOf(r) \subseteq S, EndsOf(o) \subseteq S
  PROVE  /\ Intersect(r, o) \in NpmRange /\ EndsOf(Intersect(r, o)) \subseteq S
         /\ Union(r, o) \in NpmRange /\ EndsOf(Union(r, o)) \subseteq S
<1>1. Union(r, o) \in NpmRange
  BY FS_Union DEF Union, NpmRange
<1>2. EndsOf(Union(r, o)) \subseteq S
  BY DEF Union, EndsOf
<1>3. ASSUME NEW c \in Intersect(r, o)
      PROVE  (c.lo.set => c.lo.at \in S) /\ (c.hi.set => c.hi.at \in S)
  <2>1. PICK a \in r, b \in o : c = IntersectClause(a, b)
    BY DEF Intersect
  <2>2. c.lo = Tighter(a.lo, b.lo, 1) /\ c.hi = Tighter(a.hi, b.hi, -1)
    BY <2>1 DEF IntersectClause, Interval
  <2>3. /\ a.lo.set => a.lo.at \in S
        /\ a.hi.set => a.hi.at \in S
        /\ b.lo.set => b.lo.at \in S
        /\ b.hi.set => b.hi.at \in S
    BY EndsAre
  <2>4. \A d, e, sign : (d.set => d.at \in S) /\ (e.set => e.at \in S)
          => LET t == Tighter(d, e, sign) IN t.set => t.at \in S
    BY DEF Tighter, From
  <2> QED BY <2>2, <2>3, <2>4
<1> QED BY <1>1, <1>2, <1>3, EndsAre, IntersectFacts

(* Where the probes tell the cuts apart, a range between the cuts holds a   *)
(* point if and only if it holds the probe that lies as the point does.     *)
LEMMA PointIsProbed ==
  ASSUME TextsFit, ProbesTell, NEW x \in Point
  PROVE  \E v \in Probes : \A r \in NpmRange : EndsOf(r) \subseteq Cuts => (x \in Points(r) <=> v \in Reach(r))
<1>1. PICK v \in Probes : \A b \in Cuts : Compare(v, b) = Side(x, b)
  BY DEF ProbesTell, Point, Side
<1>2. ASSUME NEW r \in NpmRange, EndsOf(r) \subseteq Cuts, NEW c \in r
      PROVE  Within(c, x) <=> NumericContains(c, v)
  <2>1. (c.lo.set => Compare(v, c.lo.at) = Side(x, c.lo.at)) /\ (c.hi.set => Compare(v, c.hi.at) = Side(x, c.hi.at))
    BY <1>1, <1>2, EndsAre
  <2> QED BY <2>1 DEF Within, StartsAt, EndsAt, NumericContains, StartsBelow, EndsAbove
<1> QED BY <1>2 DEF Points, Reach

(* So the probes that two ranges hold compare as their points do.           *)
LEMMA ProbesCompare ==
  ASSUME TextsFit, ProbesTell, NEW r \in NpmRange, NEW o \in NpmRange,
         EndsOf(r) \subseteq Cuts, EndsOf(o) \subseteq Cuts
  PROVE  /\ Points(r) = {} <=> Reach(r) = {}
         /\ Points(r) \subseteq Points(o) <=> Reach(r) \subseteq Reach(o)
<1>1. \A v \in Probes : <<v, 0>> \in Point
         /\ (<<v, 0>> \in Points(r) <=> v \in Reach(r)) /\ (<<v, 0>> \in Points(o) <=> v \in Reach(o))
  <2> TAKE v \in Probes
  <2>1. v \in Version /\ r \in Ranges /\ o \in Ranges
    BY DEF TextsFit, NpmRange, Ranges
  <2> QED BY <2>1, ReachesIsPoint DEF Reach, Reaches, Point
<1>2. \A x \in Point : \E v \in Probes :
         (x \in Points(r) <=> v \in Reach(r)) /\ (x \in Points(o) <=> v \in Reach(o))
  BY PointIsProbed
<1>3. Points(r) \subseteq Point /\ Reach(r) \subseteq Probes
  BY DEF Points, Reach
<1> QED BY <1>1, <1>2, <1>3

(* Every range that is put together of texts ends at their cuts.            *)
CutInv == range \in NpmRange /\ EndsOf(range) \subseteq Cuts

LEMMA CutInvHolds == TextsFit => (RSpec => []CutInv)
<1> SUFFICES ASSUME TextsFit PROVE RSpec => []CutInv
  OBVIOUS
<1>1. RInit => CutInv
  BY TextIsCut DEF RInit, ReadText, CutInv
<1>2. CutInv /\ [RNext]_rvars => CutInv'
  <2> SUFFICES ASSUME CutInv, [RNext]_rvars PROVE CutInv'
    OBVIOUS
  <2>1. ASSUME NEW x \in Partners, MeetText(x) \/ JoinText(x) PROVE CutInv'
    <3>1. ParseRange(x) \in NpmRange /\ EndsOf(ParseRange(x)) \subseteq Cuts
      BY TextIsCut
    <3>2. range' \in {Intersect(range, ParseRange(x)), Union(range, ParseRange(x))}
      BY <2>1 DEF MeetText, JoinText
    <3> QED BY <3>1, <3>2, CutsStay DEF CutInv
  <2>2. CASE UNCHANGED rvars
    BY <2>2 DEF rvars, CutInv
  <2> QED BY <2>1, <2>2 DEF RNext
<1> QED BY <1>1, <1>2, PTL DEF RSpec

(* Subset, Equal and IsEmpty decide inclusion, equality and emptiness of    *)
(* the versions that ranges reach, through any chain of meets and joins of  *)
(* any tidy texts whose cuts have versions between them (Subset, Equal,     *)
(* IsEmpty, normalize).                                                     *)
THEOREM ComparisonsAreExact == TextsFit /\ ProbesTell => (RSpec => []SubsetIsExact)
<1> SUFFICES ASSUME TextsFit, ProbesTell PROVE RSpec => []SubsetIsExact
  OBVIOUS
<1>1. CutInv => SubsetIsExact
  <2> SUFFICES ASSUME CutInv PROVE SubsetIsExact
    OBVIOUS
  <2>1. range \in NpmRange /\ EndsOf(range) \subseteq Cuts
    BY DEF CutInv
  <2>2. IsEmpty(range) <=> Reach(range) = {}
    BY <2>1, InclusionIsDecided, ProbesCompare
  <2>3. ASSUME NEW x \in Partners
        PROVE  /\ Subset(range, ParseRange(x)) <=> Reach(range) \subseteq Reach(ParseRange(x))
               /\ Subset(ParseRange(x), range) <=> Reach(ParseRange(x)) \subseteq Reach(range)
               /\ Equal(range, ParseRange(x)) <=> Reach(range) = Reach(ParseRange(x))
    <3> DEFINE o == ParseRange(x)
    <3>1. o \in NpmRange /\ EndsOf(o) \subseteq Cuts
      BY TextIsCut
    <3> HIDE DEF o
    <3>2. /\ Points(range) \subseteq Points(o) <=> Reach(range) \subseteq Reach(o)
          /\ Points(o) \subseteq Points(range) <=> Reach(o) \subseteq Reach(range)
      BY <2>1, <3>1, ProbesCompare
    <3>3. Subset(range, o) <=> Points(range) \subseteq Points(o)
      BY <2>1, <3>1, InclusionIsDecided
    <3>4. Subset(o, range) <=> Points(o) \subseteq Points(range)
      BY <2>1, <3>1, InclusionIsDecided
    <3>5. Equal(range, o) <=> Points(range) = Points(o)
      BY <2>1, <3>1, InclusionIsDecided
    <3> QED BY <3>2, <3>3, <3>4, <3>5 DEF o
  <2> QED BY <2>2, <2>3 DEF SubsetIsExact, PartnerReach
<1> QED BY <1>1, CutInvHolds, PTL
================================================================================
