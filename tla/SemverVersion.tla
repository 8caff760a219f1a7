----------------------------- MODULE SemverVersion -----------------------------
(* Precedence of versions, internal/semver/version.go.  A version is what   *)
(* Parse returns: build metadata is gone, a release has no prerelease       *)
(* identifiers.  An identifier is numeric or not; its rank is its value, or *)
(* its place in the order of strings.                                       *)
EXTENDS Integers, Sequences, FiniteSetsExt

Num(n)  == [numeric |-> TRUE,  rank |-> n]
Word(n) == [numeric |-> FALSE, rank |-> n]

MkVersion(major, minor, patch, pre) ==
  [major |-> major, minor |-> minor, patch |-> patch, pre |-> pre]
Release(major, minor, patch) == MkVersion(major, minor, patch, <<>>)

(* All of them; the words that occur are numbered in their order.           *)
Identifier == [numeric : BOOLEAN, rank : Nat]
Semver == [major : Nat, minor : Nat, patch : Nat, pre : Seq(Identifier)]

HasPre(v)    == v.pre # <<>>
TripleOf(v)  == <<v.major, v.minor, v.patch>>

CmpInt(a, b) == IF a < b THEN -1 ELSE IF a > b THEN 1 ELSE 0

(* Numeric identifiers come before the others. *)
ComparePreID(a, b) ==
  IF a.numeric = b.numeric THEN CmpInt(a.rank, b.rank)
  ELSE IF a.numeric THEN -1 ELSE 1

(* The first place where cmp tells a and b apart, 0 if there is none. *)
FirstDifference(a, b, cmp(_, _)) ==
  LET differ == {i \in DOMAIN a \cap DOMAIN b : cmp(a[i], b[i]) # 0}
  IN IF differ = {} THEN 0 ELSE LET i == Min(differ) IN cmp(a[i], b[i])

(* A release outranks its prereleases; of two lists that agree as far as    *)
(* both go, the shorter comes first.                                        *)
ComparePre(a, b) ==
  LET first == FirstDifference(a, b, ComparePreID)
  IN CASE a = <<>> /\ b = <<>> -> 0
       [] a = <<>> /\ b # <<>> -> 1
       [] a # <<>> /\ b = <<>> -> -1
       [] OTHER -> IF first # 0 THEN first ELSE CmpInt(Len(a), Len(b))

Precedence(v, o) ==
  LET first == FirstDifference(TripleOf(v), TripleOf(o), CmpInt)
  IN IF first # 0 THEN first ELSE ComparePre(v.pre, o.pre)
================================================================================
