------------------------------ MODULE SemverRange ------------------------------
(* The interval algebra of internal/semver/range.go, over any total order   *)
(* of versions.  A range is a set of clauses: the code keeps a slice, but   *)
(* no result depends on its order.  A clause is an interval and the triples *)
(* at which a comparator of it named a prerelease.                          *)
EXTENDS Integers

CONSTANTS Version,         \* the versions
          Zero,            \* Version{}
          Compare(_, _),   \* Version.Compare
          IsPrerelease(_),
          Triple(_)        \* <<major, minor, patch>>

ASSUME OrderAssumption ==
  /\ Zero \in Version
  /\ \A u, v \in Version : /\ Compare(u, v) \in {-1, 0, 1}
                           /\ Compare(u, v) = 1 <=> Compare(v, u) = -1
  /\ \A u, v, w \in Version :
       Compare(u, v) # 1 /\ Compare(v, w) # 1 => Compare(u, w) # 1
--------------------------------------------------------------------------------
(* A start or an end of an interval; unset, it does not bound. *)
Unset == [set |-> FALSE, at |-> Zero, incl |-> FALSE]
Bound == {Unset} \cup [set : {TRUE}, at : Version, incl : BOOLEAN]
From(v, incl) == [set |-> TRUE, at |-> v, incl |-> incl]

Clause == [lo : Bound, hi : Bound, pre : SUBSET {Triple(v) : v \in Version}]
Interval(lo, hi, pre) == [lo |-> lo, hi |-> hi, pre |-> pre]
AnyClause   == Interval(Unset, Unset, {})
EmptyClause == Interval(From(Zero, FALSE), From(Zero, FALSE), {})

StartsBelow(b, v) == b.set => Compare(v, b.at) = 1  \/ (Compare(v, b.at) = 0 /\ b.incl)
EndsAbove(b, v)   == b.set => Compare(v, b.at) = -1 \/ (Compare(v, b.at) = 0 /\ b.incl)
NumericContains(c, v) == StartsBelow(c.lo, v) /\ EndsAbove(c.hi, v)

ClauseSatisfies(c, v) ==
  /\ NumericContains(c, v)
  /\ IsPrerelease(v) => Triple(v) \in c.pre

ClauseIsEmpty(c) ==
  /\ c.lo.set
  /\ c.hi.set
  /\ \/ Compare(c.lo.at, c.hi.at) = 1
     \/ Compare(c.lo.at, c.hi.at) = 0 /\ ~(c.lo.incl /\ c.hi.incl)

(* The bound that is further in the direction sign (1 up, -1 down); where   *)
(* both are at one version, both must include it.                           *)
Tighter(a, b, sign) ==
  IF ~a.set THEN b
  ELSE IF ~b.set \/ Compare(a.at, b.at) = sign THEN a
  ELSE IF Compare(b.at, a.at) = sign THEN b
  ELSE From(a.at, a.incl /\ b.incl)

IntersectClause(a, b) ==
  Interval(Tighter(a.lo, b.lo, 1), Tighter(a.hi, b.hi, -1), a.pre \cup b.pre)

Satisfies(r, v) == \E c \in r : ClauseSatisfies(c, v)
IsEmpty(r) == \A c \in r : ClauseIsEmpty(c)

Intersect(r, o) ==
  {c \in {IntersectClause(a, b) : a \in r, b \in o} : ~ClauseIsEmpty(c)}
Union(r, o) == r \cup o
--------------------------------------------------------------------------------
(* Unbounded starts first, then by version, inclusive before exclusive. *)
CmpLo(a, b) ==
  IF ~a.lo.set THEN IF b.lo.set THEN -1 ELSE 0
  ELSE IF ~b.lo.set THEN 1
  ELSE IF Compare(a.lo.at, b.lo.at) # 0 THEN Compare(a.lo.at, b.lo.at)
  ELSE IF a.lo.incl = b.lo.incl THEN 0
  ELSE IF a.lo.incl THEN -1 ELSE 1

(* Bug: intervals that touch join only where both include the version.      *)
OverlapsOrMeets(a, b) ==
  \/ ~a.hi.set
  \/ ~b.lo.set
  \/ Compare(a.hi.at, b.lo.at) = 1
  \/ Compare(a.hi.at, b.lo.at) = 0 /\ a.hi.incl /\ b.lo.incl
(* b, which starts no earlier than a, meets it: they overlap, or they touch *)
(* at a version that one of them includes.                                  *)
OverlapsOrAdjacent(a, b) ==
  \/ ~a.hi.set
  \/ ~b.lo.set
  \/ Compare(a.hi.at, b.lo.at) = 1
  \/ Compare(a.hi.at, b.lo.at) = 0 /\ (a.hi.incl \/ b.lo.incl)

LaterEnd(a, b) ==
  IF ~(a.set /\ b.set) THEN Unset
  ELSE IF Compare(a.at, b.at) = 1 THEN a
  ELSE IF Compare(a.at, b.at) = -1 THEN b
  ELSE From(a.at, a.incl \/ b.incl)

UnionAdjacent(a, b) == Interval(a.lo, LaterEnd(a.hi, b.hi), a.pre \cup b.pre)
================================================================================
