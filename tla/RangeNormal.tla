------------------------------ MODULE RangeNormal ------------------------------
(* The normal form of a range in internal/semver/range.go: the clauses in   *)
(* the order of their starts, those that meet merged.  Subset and Equal     *)
(* compare the normal forms.                                                *)
EXTENDS SemverRange, SequencesExt

(* A version keeps nothing that Compare does not look at: build metadata is *)
(* dropped when it is parsed.                                               *)
ASSUME IdentityAssumption == \A u, v \in Version : Compare(u, v) = 0 => u = v

(* A range is a slice of clauses.                                           *)
NpmRange == {r \in SUBSET Clause : IsFiniteSet(r)}

(* One clause of the sorted slice joins the merged ones. *)
MergeInto(merged, c) ==
  IF merged # <<>> /\ OverlapsOrAdjacent(Last(merged), c)
  THEN Front(merged) \o <<UnionAdjacent(Last(merged), c)>>
  ELSE Append(merged, c)

(* The clause that a sort by the starts puts last; ties are in any order. *)
LastToStart(S) == CHOOSE c \in S : \A d \in S : CmpLo(d, c) # 1

(* From the first to start to the last. *)
Normalize(r) ==
  MapThenFoldSet(LAMBDA c, merged : MergeInto(merged, c), <<>>, LAMBDA c : c, LastToStart,
                 {c \in r : ~ClauseIsEmpty(c)})

(* The rendered intervals, without the prerelease triples. *)
Canonical(r) ==
  LET merged == Normalize(r)
  IN [i \in DOMAIN merged |-> [lo |-> merged[i].lo, hi |-> merged[i].hi]]

Subset(r, o) == Canonical(Intersect(r, o)) = Canonical(r)
Equal(r, o)  == Canonical(r) = Canonical(o)
================================================================================
