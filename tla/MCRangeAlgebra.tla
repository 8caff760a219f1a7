--------------------------- MODULE MCRangeAlgebra ----------------------------
(* Versions, probes and texts for the run of RangeAlgebra.                  *)
EXTENDS RangeAlgebra

P(a, b, c)   == Partial(a, b, c, <<>>)
PP(a, b, c, pre) == Partial(a, b, c, pre)
Alpha == <<Word(1)>>
Beta2 == <<Word(2), Num(2)>>
Beta11 == <<Word(2), Num(11)>>
Rc    == <<Word(3)>>
Rc1   == <<Word(3), Num(1)>>
One(op, p) == AndSet(<<Comparator(op, p)>>)
Two(op, p, oq, q) == AndSet(<<Comparator(op, p), Comparator(oq, q)>>)

Bodies == {P(X, X, X), P(0, X, X), P(1, X, X), P(0, 1, X), P(1, 0, X), P(1, 2, X),
           P(0, 0, 0), P(0, 0, 1), P(0, 1, 1), P(1, 0, 0), P(1, 2, 1)}
Ops == {"=", "^", "~", ">=", "<", "<=", ">"}
Prereleases == {PP(1, 2, 1, Beta2), PP(1, 0, 0, Rc)}
SmallTexts ==
  {<<One(op, p)>> : op \in Ops, p \in Bodies \cup Prereleases}
  \cup {<<>>, <<HyphenSet(P(0, 1, X), P(1, X, X))>>, <<HyphenSet(P(0, 0, 1), P(1, 2, 1))>>,
        <<HyphenSet(P(X, X, X), P(1, 0, X))>>, <<HyphenSet(P(1, 0, 0), P(X, X, X))>>,
        <<One("^", P(0, 0, 1)), One("~", P(1, 2, X))>>,
        <<One("<", P(0, 1, 1)), One(">=", P(1, 2, 1))>>,
        <<Two(">=", P(0, 1, 1), "<", P(1, 0, 0)), Two(">=", P(1, 0, 0), "<=", P(1, 2, 1))>>,
        <<Two(">=", P(1, 2, 1), "<", P(0, 1, 1))>>,
        <<Two(">", PP(1, 0, 0, Rc), "<", P(1, 2, X))>>}

SmallPartners ==
  {<<One("^", P(0, 1, 1))>>, <<One(">", PP(1, 0, 0, Rc))>>, <<One("<=", P(1, 2, X))>>,
   <<One("=", PP(1, 2, 1, Beta2))>>, <<One("~", P(1, 2, X)), One("<", P(1, 0, X))>>,
   <<HyphenSet(P(0, 1, X), P(1, X, X))>>, <<One(">", P(X, X, X))>>}

SmallProbes ==
  {Release(a, b, c) : a \in 0..2, b \in 0..3, c \in 0..2}
  \cup {MkVersion(t[1], t[2], t[3], pre) :
         t \in {<<0, 0, 0>>, <<0, 0, 1>>, <<0, 0, 2>>, <<0, 1, 0>>, <<0, 1, 1>>, <<0, 1, 2>>, <<0, 2, 0>>, <<1, 0, 0>>, <<1, 1, 0>>, <<1, 2, 0>>, <<1, 2, 1>>, <<1, 2, 2>>, <<1, 3, 0>>, <<2, 0, 0>>},
         pre \in {Alpha, Beta2, Beta11, Rc, Rc1}}
SmallVersion == SmallProbes
(* Version{} is 0.0.0. *)
ZeroVersion == Release(0, 0, 0)

ASSUME TextsFitHere == TextsFit
ASSUME ProbesTellHere == ProbesTell
=============================================================================
