------------------------------ MODULE SemverText -------------------------------
(* What internal/semver/parse.go makes of a range as it is written.  A      *)
(* range is a sequence of sets joined by ||; a set is a hyphen range or a   *)
(* sequence of comparators; a comparator is an operator before a partial    *)
(* version, whose missing or wildcard components are X (nil).               *)
EXTENDS SemverVersion, RangeNormal

X == -1
Partial(major, minor, patch, pre) == MkVersion(major, minor, patch, pre)
Comparator(op, p) == [op |-> op, p |-> p]
HyphenSet(l, u) == [hyphen |-> TRUE, l |-> l, u |-> u]
AndSet(toks)    == [hyphen |-> FALSE, toks |-> toks]

(* Texts as people write them: nothing follows a component that is left     *)
(* open, and a prerelease only follows three (parsePartial takes more).     *)
Operators == {">=", "<=", ">", "<", "^", "~", "="}
TidyPartial ==
  {p \in [major : Nat \cup {X}, minor : Nat \cup {X}, patch : Nat \cup {X}, pre : Seq(Identifier)] :
     /\ p.major = X => p.minor = X
     /\ p.minor = X => p.patch = X
     /\ p.patch = X => ~HasPre(p)}
TidySet ==
  [hyphen : {TRUE}, l : TidyPartial, u : TidyPartial]
    \cup [hyphen : {FALSE}, toks : Seq([op : Operators, p : TidyPartial])]

Deref(i)      == IF i = X THEN 0 ELSE i
IsXRange(p)   == X \in {p.major, p.minor, p.patch}
TupleZero(p)  == <<Deref(p.major), Deref(p.minor), Deref(p.patch)>>
LowerBound(p) == MkVersion(Deref(p.major), Deref(p.minor), Deref(p.patch), p.pre)
(* Bug: every bound lets the prereleases at its version in.                 *)
PreForAlways(p) == {TupleZero(p)}
PreFor(p)     == IF HasPre(p) THEN {TupleZero(p)} ELSE {}

(* Bug: a caret always allows the whole major version.                      *)
CaretEndMajor(p) == Release(Deref(p.major) + 1, 0, 0)
(* The upper ends; each is exclusive. *)
CaretEnd(p) ==
  CASE Deref(p.major) # 0 \/ p.minor = X -> Release(Deref(p.major) + 1, 0, 0)
    [] OTHER -> IF p.minor # 0 \/ p.patch = X
                THEN Release(0, p.minor + 1, 0)
                ELSE Release(0, 0, p.patch + 1)
TildeEnd(p) ==
  IF p.minor # X THEN Release(Deref(p.major), p.minor + 1, 0)
  ELSE Release(Deref(p.major) + 1, 0, 0)
XRangeEnd(p) ==
  CASE p.minor = X -> Release(p.major + 1, 0, 0)
    [] p.minor # X /\ p.patch = X -> Release(p.major, p.minor + 1, 0)
    [] OTHER -> Release(p.major, p.minor, p.patch + 1)
XRangeStart(p) ==
  CASE p.minor = X -> Release(p.major, 0, 0)
    [] p.minor # X /\ p.patch = X -> Release(p.major, p.minor, 0)
    [] OTHER -> Release(p.major, p.minor, p.patch)

AtLeast(v, incl, pre) == Interval(From(v, incl), Unset, pre)
AtMost(v, incl, pre)  == Interval(Unset, From(v, incl), pre)
HalfOpen(lo, hi, p)   == Interval(From(lo, TRUE), From(hi, FALSE), PreFor(p))

CmpGE(p) ==
  CASE p.major = X -> AnyClause
    [] p.major # X /\ IsXRange(p) -> AtLeast(XRangeStart(p), TRUE, {})
    [] OTHER -> AtLeast(LowerBound(p), TRUE, PreFor(p))
CmpLE(p) ==
  CASE p.major = X -> AnyClause
    [] p.major # X /\ IsXRange(p) -> AtMost(XRangeEnd(p), FALSE, {})
    [] OTHER -> AtMost(LowerBound(p), TRUE, PreFor(p))
CmpGT(p) ==
  CASE p.major = X -> EmptyClause
    [] p.major # X /\ IsXRange(p) -> AtLeast(XRangeEnd(p), TRUE, {})
    [] OTHER -> AtLeast(LowerBound(p), FALSE, PreFor(p))
CmpLT(p) ==
  CASE p.major = X -> EmptyClause
    [] p.major # X /\ IsXRange(p) -> AtMost(XRangeStart(p), FALSE, {})
    [] OTHER -> AtMost(LowerBound(p), FALSE, PreFor(p))
CmpCaret(p) == IF p.major = X THEN AnyClause ELSE HalfOpen(LowerBound(p), CaretEnd(p), p)
CmpTilde(p) == IF p.major = X THEN AnyClause ELSE HalfOpen(LowerBound(p), TildeEnd(p), p)
ExactOrXRange(p) ==
  CASE p.major = X -> AnyClause
    [] p.major # X /\ IsXRange(p) -> HalfOpen(XRangeStart(p), XRangeEnd(p), p)
    [] OTHER -> Interval(From(LowerBound(p), TRUE), From(LowerBound(p), TRUE), PreFor(p))

ParseComparator(t) ==
  CASE t.op = ">=" -> CmpGE(t.p)
    [] t.op = "<=" -> CmpLE(t.p)
    [] t.op = ">"  -> CmpGT(t.p)
    [] t.op = "<"  -> CmpLT(t.p)
    [] t.op = "^"  -> CmpCaret(t.p)
    [] t.op = "~"  -> CmpTilde(t.p)
    [] t.op = "="  -> ExactOrXRange(t.p)

(* The end is inclusive only where the upper version is complete. *)
ParseHyphen(l, u) ==
  Interval(From(LowerBound(l), TRUE),
           CASE u.major = X -> Unset
             [] u.major # X /\ IsXRange(u) -> From(XRangeEnd(u), FALSE)
             [] OTHER -> From(LowerBound(u), TRUE),
           PreFor(l) \cup PreFor(u))

(* The versions that bound what is written are among Version. *)
BoundsAreVersions(s) ==
  IF s.hyphen THEN ParseHyphen(s.l, s.u) \in Clause
  ELSE \A i \in DOMAIN s.toks : ParseComparator(s.toks[i]) \in Clause

ParseClause(s) ==
  IF s.hyphen THEN ParseHyphen(s.l, s.u)
  ELSE FoldLeft(LAMBDA acc, t : IntersectClause(acc, ParseComparator(t)), AnyClause, s.toks)

ParseRange(parts) ==
  IF parts = <<>> THEN {AnyClause}
  ELSE {ParseClause(parts[i]) : i \in DOMAIN parts}
================================================================================
