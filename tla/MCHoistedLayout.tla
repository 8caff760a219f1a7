--------------------------- MODULE MCHoistedLayout ---------------------------
(* A small registry for the run of TreeResolver, HoistedLayout and TrustedInstalls.*)
EXTENDS TrustedInstalls

Req(n, vs) == Dep(n, RangeOf(vs), FALSE)
Opt(n, vs) == Dep(n, RangeOf(vs), TRUE)
Git(n, s)  == Dep(n, Exotic(s), FALSE)

Small == {"a", "b", "c", "k", "l", "m", "p", "q", "s", "t", "w", "x", "y", "z"}
SmallSources == {"g1", "g2", "g3"}
SmallTrusted == {"g1", "g3"}
SmallSourceVersion == [s \in SmallSources |-> IF s = "g1" THEN 2 ELSE NoVersion]
SmallPublished == [n \in Small |-> IF n = "a" THEN {1} ELSE {1, 2}]
SmallYoung == [n \in Small |-> CASE n \in {"b", "k"} -> {1, 2} [] n \in {"l", "y"} -> {2} [] OTHER -> {}]
SmallLatest ==
  [n \in Small |-> CASE n \in {"a", "b", "k"} -> NoVersion [] n = "c" -> 1 [] OTHER -> 2]

(* The roots over a, b and c: conflicting versions, optional edges, cycles  *)
(* that any version satisfies, and a latest that is not the highest.  The   *)
(* roots over w, x, y and z: sources beside registry versions of x, from    *)
(* the root and below, with overrides; w needs x twice, and neither edge    *)
(* accepts the hoisted x.                                                   *)
(* From p on, versions and sources of p and q may need each other, so that  *)
(* they nest in turn until the bound on nodes.                              *)
(* The roots over k and l are edited into one another and resolved again.   *)
EditedRoots ==
  {<<Req("k", {1, 2}), Req("l", {1, 2})>>, <<Req("k", {1}), Req("l", {2})>>, <<Opt("k", {1}), Req("l", {1, 2})>>}
(* s of the same version from the registry and from a source.               *)
TwoSources == <<Req("s", {2}), Req("t", {1})>>
SmallRoots ==
  EditedRoots \cup {<<Req("a", {1}), Req("b", {1, 2}), Req("c", {1})>>,
   <<Req("a", {1}), Req("b", {1}), Req("c", {2})>>,
   <<Req("a", {1}), Opt("b", {3}), Req("c", {1, 2})>>,
   <<Req("a", {1}), Req("m", {1})>>, <<Req("p", {1})>>,
   <<Req("w", {1}), Git("x", "g1"), Req("y", {1, 2}), Req("z", {1})>>,
   <<Req("w", {1}), Req("x", {2}), Req("y", {2}), Git("z", "g2")>>, TwoSources}
SmallEdits == [r \in SmallRoots |->
  IF r \in EditedRoots THEN EditedRoots ELSE IF r = TwoSources THEN {TwoSources} ELSE {}]
SmallDeps == [n \in Small \cup SmallSources |->
  CASE n = "a" -> {<<>>, <<Req("b", {2}), Req("c", {1})>>, <<Req("b", {1, 2}), Opt("c", {2})>>,
                   <<Req("c", {2}), Req("b", {1})>>, <<Req("c", {3})>>}
    [] n = "b" -> {<<>>, <<Req("c", {1})>>, <<Req("c", {2}), Req("a", {1, 2})>>, <<Opt("c", {1, 2}), Req("a", {1})>>}
    [] n = "c" -> {<<>>, <<Req("a", {1})>>}
    [] n = "k" -> {<<>>, <<Req("l", {1})>>}
    [] n \in {"l", "m"} -> {<<>>}
    [] n = "p" -> {<<>>, <<Req("q", {1})>>, <<Req("q", {2})>>, <<Git("q", "g3")>>}
    [] n = "q" -> {<<>>, <<Req("p", {1})>>, <<Req("p", {2})>>}
    [] n = "g3" -> {<<>>, <<Req("p", {2})>>}
    [] n = "s" -> {<<>>}
    [] n = "t" -> {<<>>, <<Git("s", "g1")>>, <<Req("s", {1})>>}
    [] n = "w" -> {<<>>, <<Req("x", {1}), Req("x", {2})>>, <<Req("x", {2}), Req("x", {1})>>, <<Git("x", "g2"), Git("x", "g1")>>,
                   <<Git("x", "g1"), Req("x", {1})>>}
    [] n = "x" -> {<<>>, <<Req("y", {1})>>, <<Dep("y", Other, FALSE), Req("z", {3})>>}
    [] n = "y" -> {<<>>, <<Git("x", "g1")>>, <<Git("x", "g2")>>,
                   <<Dep("x", Exotic("g2"), TRUE), Req("z", {2})>>, <<Req("x", {2})>>}
    [] n = "z" -> {<<>>, <<Req("x", {1})>>}
    [] OTHER   -> {<<>>, <<Req("z", {1, 2})>>}]
SmallOverrides == [n \in {"z"} |-> RangeOf({1})]
SmallNested == [n \in {"y"} |-> [m \in {"z"} |-> RangeOf({2})]]
(* z is declared as "zed": npm:z, and m under the name of a package that    *)
(* others depend on.                                                        *)
TwoAliases == [n \in {"m", "z"} |-> IF n = "z" THEN "zed" ELSE "b"]
(* 1 and 2 stand for 9.0.0 and 10.0.0.                                      *)
SmallText == [v \in {1, 2} |-> 3 - v]

Setting(on, how) == [trust |-> on, age |-> how]
SmallPolicies == {Setting(TRUE, "any"), Setting(TRUE, "mature"), Setting(FALSE, "strict")}

(* Two sources of one package, each in need of a source of another, of      *)
(* which each needs the other one of the first.                             *)
RingSources == {"g1", "g2", "h1", "h2"}
RingDeps == [n \in {"g", "h"} \cup RingSources |->
  CASE n = "g1" -> {<<Git("h", "h1")>>} [] n = "h1" -> {<<Git("g", "g2")>>}
    [] n = "g2" -> {<<Git("h", "h2")>>} [] n = "h2" -> {<<Git("g", "g1")>>} [] OTHER -> {<<>>}]
RingRoots == {<<Git("g", "g1")>>}
RingEmpty == [n \in {"g", "h"} |-> {}]
RingLatest == [n \in {"g", "h"} |-> NoVersion]
RingVersion == [s \in RingSources |-> NoVersion]
RingEdits == [r \in RingRoots |-> {}]
RingText == [v \in {1} |-> v]
Nothing == <<>>
=============================================================================
