------------------------------ MODULE RangeAlgebra -----------------------------
(* The life of a range in the solver: it is read from what a package.json   *)
(* says, then met with and joined to other ranges, over and over.  The      *)
(* range is compared with what the texts mean, component by component and   *)
(* without intervals.                                                       *)
EXTENDS SemverText

CONSTANTS Texts,    \* the ranges that are written: sequences of sets
          Partners, \* those of them that others are combined and compared with
          Probes,   \* the versions that are asked about
          MaxSteps  \* bound on the ranges combined after the first

VARIABLES range,    \* the NpmRange
          meaning,  \* history: the releases in Probes that the texts allow
          named,    \* history: the triples of the prereleases named in them
          steps     \* ranges combined so far
rvars == <<range, meaning, named, steps>>

(* Versions are those of SemverVersion in their order, and the texts tidy.  *)
TextsFit ==
  /\ Version \subseteq Semver /\ Probes \subseteq Version
  /\ \A u, v \in Version : Compare(u, v) = Precedence(u, v)
  /\ \A v \in Version : (IsPrerelease(v) <=> HasPre(v)) /\ Triple(v) = TripleOf(v)
  /\ \A x \in Texts \cup Partners :
       x \in Seq(TidySet) /\ \A i \in DOMAIN x : BoundsAreVersions(x[i])

(* The versions at which the intervals of a range start or end, and those   *)
(* of the texts.                                                            *)
EndsOf(r) == {b.at : b \in {e \in {c.lo : c \in r} \cup {c.hi : c \in r} : e.set}}
Cuts == UNION {EndsOf(ParseRange(x)) : x \in Texts \cup Partners}

(* Before, at and after every version there is a probe that lies just so    *)
(* between the cuts.  Of npm's versions this cannot be said of any texts:   *)
(* none lies between 1.0.0-a and 1.0.0-a.0.                                 *)
ProbesTell ==
  \A u \in Version, s \in {-1, 0, 1} : \E v \in Probes : \A b \in Cuts :
    Compare(v, b) = IF Compare(u, b) = 0 THEN s ELSE Compare(u, b)
--------------------------------------------------------------------------------
(* What a comparator means, without bounds.  Agrees(p, v, k): v has the     *)
(* first k components of p, those of them that p leaves open excepted.      *)
Agrees(p, v, k) == \A i \in 1..k : TripleOf(p)[i] \in {X, TripleOf(v)[i]}

(* The components that a caret pins: up to the leftmost that is not zero.   *)
Pinned(p) ==
  LET given == {i \in 1..3 : TripleOf(p)[i] # X}
      live  == {i \in given : TripleOf(p)[i] > 0}
  IN IF live # {} THEN Min(live) ELSE Cardinality(given)

Older(v, p) == Precedence(v, LowerBound(p)) = -1
Means(t, v) ==
  LET p == t.p
  IN CASE t.op = "=" -> IF IsXRange(p) THEN Agrees(p, v, 3) ELSE Precedence(v, p) = 0
       [] t.op = "^" -> ~Older(v, p) /\ Agrees(p, v, Pinned(p))
       [] t.op = "~" -> ~Older(v, p) /\ Agrees(p, v, 2)
       [] t.op = ">=" -> ~Older(v, p)
       [] t.op = "<" -> p.major # X /\ Older(v, p)
       [] t.op = "<=" -> Older(v, p) \/ (IF IsXRange(p) THEN Agrees(p, v, 3) ELSE Precedence(v, p) = 0)
       [] t.op = ">" -> ~Older(v, p) /\ p.major # X
                        /\ ~(IF IsXRange(p) THEN Agrees(p, v, 3) ELSE Precedence(v, p) = 0)

SetMeans(s, v) ==
  IF s.hyphen THEN Means(Comparator(">=", s.l), v) /\ Means(Comparator("<=", s.u), v)
  ELSE \A i \in DOMAIN s.toks : Means(s.toks[i], v)
TextMeans(x) ==
  {v \in Probes : ~HasPre(v) /\ (x = <<>> \/ \E i \in DOMAIN x : SetMeans(x[i], v))}

PartialsOf(s) == IF s.hyphen THEN {s.l, s.u} ELSE {s.toks[i].p : i \in DOMAIN s.toks}
TextNames(x) ==
  UNION {{TripleOf(p) : p \in {q \in PartialsOf(x[i]) : HasPre(q)}} : i \in DOMAIN x}
--------------------------------------------------------------------------------
ReadText(x) ==
  /\ range = ParseRange(x)
  /\ meaning = TextMeans(x)
  /\ named = TextNames(x)
  /\ steps = 0

MeetText(x) ==
  /\ steps < MaxSteps
  /\ range' = Intersect(range, ParseRange(x))
  /\ meaning' = meaning \cap TextMeans(x)
  /\ named' = named \cup TextNames(x)
  /\ steps' = steps + 1

JoinText(x) ==
  /\ steps < MaxSteps
  /\ range' = Union(range, ParseRange(x))
  /\ meaning' = meaning \cup TextMeans(x)
  /\ named' = named \cup TextNames(x)
  /\ steps' = steps + 1

RInit == \E x \in Texts : ReadText(x)
RNext == \E x \in Partners : MeetText(x) \/ JoinText(x)
RSpec == RInit /\ [][RNext]_rvars
--------------------------------------------------------------------------------
(* Whatever way a range was put together, it admits the releases that the   *)
(* texts it was made of allow, and no other: caret, tilde, x and hyphen     *)
(* ranges desugar to the right interval and the algebra loses nothing.      *)
ReadsAsWritten == {v \in Probes : ~HasPre(v) /\ Satisfies(range, v)} = meaning

(* Subset, Equal and IsEmpty, which compare rendered intervals, decide      *)
(* inclusion, equality and emptiness of the intervals, however the two      *)
(* ranges are cut into clauses.                                             *)
Reach(r) == {v \in Probes : \E c \in r : NumericContains(c, v)}
PartnerReach == [x \in Partners |-> Reach(ParseRange(x))]
SubsetIsExact ==
  LET here == Reach(range)
  IN /\ IsEmpty(range) <=> here = {}
     /\ \A x \in Partners :
          LET o == ParseRange(x)
              there == PartnerReach[x]
          IN /\ Subset(range, o) <=> here \subseteq there
             /\ Subset(o, range) <=> there \subseteq here
             /\ Equal(range, o) <=> here = there

(* A prerelease comes in only where a text named a prerelease of the same   *)
(* triple, through any chain of meets and joins.                            *)
PrereleaseIsNamed ==
  \A v \in Probes : HasPre(v) /\ Satisfies(range, v) => TripleOf(v) \in named
================================================================================
