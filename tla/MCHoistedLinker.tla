--------------------------- MODULE MCHoistedLinker ---------------------------
(* Packages with two nesting levels, local links, and what successive       *)
(* installs may make of it.                                                 *)
EXTENDS HoistedLinker

Tree == {<<"a">>, <<"b">>, <<"c">>, <<"d">>, <<"a", "b">>, <<"a", "b", "c">>, <<"b", "c">>}
None == <<>>
Layout(S, v, local, members) == [packages |-> [p \in S |-> v], local |-> local, members |-> members]
At(S, v) == Layout(S, v, None, None)
ToD(t) == [n \in {"d"} |-> t]
(* d is a member of the workspace.                                          *)
Full == Layout(Tree \ {<<"d">>, <<"b", "c">>}, 1, None, ToD("packages/d"))
(* b has moved to the top, c is gone and a new version is out.              *)
Flat == At({<<"a">>, <<"b">>}, 2)
(* a is not for this platform, what is nested under it is.                  *)
Skipped == At({<<"b">>, <<"a", "b">>}, 1)
OnlyB == At({<<"b">>}, 1)
(* The hoisted b is not for this platform, the nested one is.               *)
NestedB == At({<<"a">>, <<"a", "b">>}, 1)

(* So it is here, and c is nested under the hoisted b.                      *)
UnderB == At({<<"a">>, <<"a", "b">>, <<"b", "c">>}, 1)
(* d is a local dependency, one moved to elsewhere, or a package at last.   *)
Local1 == Layout({<<"b">>}, 1, ToD("packages/d"), None)
Local2 == Layout({<<"a">>}, 2, ToD("vendor/d"), None)
Package == At({<<"b">>, <<"d">>}, 2)

Upgrades == {Full, Flat, Skipped, OnlyB, NestedB, UnderB, Local1, Local2, Package}
=============================================================================
