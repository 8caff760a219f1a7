-------------------------- MODULE MCIsolatedInstall --------------------------
(* Trees of up to five packages for the isolated layout.                    *)
EXTENDS IsolatedInstall

P(n, v) == [name |-> n, ver |-> v]
a1 == P("a", 1)
a2 == P("a", 2)
b1 == P("b", 1)
b2 == P("b", 2)
c1 == P("c", 1)
Some == {a1, a2, b1, b2, c1}

Direct(i, deps, bins) == LinkSpec(i, deps, TRUE, i.name, bins)
Below(i, deps)        == LinkSpec(i, deps, FALSE, i.name, {})

(* a needs b, b and c need each other, and c is declared as well.           *)
Cycle == <<Direct(a1, {b1}, {"cmd"}), Below(b1, {c1}), Direct(c1, {b1}, {})>>
(* A new b is out, and c needs the old one.                                 *)
Newer == <<Direct(a1, {b2}, {"cmd"}), Direct(c1, {b1}, {"cmd"}), Below(b2, {}), Below(b1, {})>>
(* a is updated and no longer needs b.                                      *)
Updated == <<Direct(a2, {}, {"cmd"})>>
(* b@1 is placed twice, with different dependencies; c is for another       *)
(* platform.                                                                *)
Twice == <<Direct(a1, {b1}, {}), Below(b1, {a1, c1}), Below(b1, {a2}), Below(a2, {b1})>>

SomePlans == {Cycle, Newer, Updated, Twice}

SomeScripts == [i \in Some |->
  CASE i = a1 -> {"postinstall"} [] i = b1 -> {"preinstall", "install"}
    [] i = b2 -> {} [] i = c1 -> {"prepare"} [] OTHER -> {"install"}]
Gate(enforce, allowed, never, strict, all) ==
  [enforce |-> enforce, allowed |-> allowed, never |-> never, strict |-> strict, all |-> all]
SomePolicies ==
  {Gate(TRUE, {a1, a2, b1}, {b1}, TRUE, FALSE), Gate(TRUE, {b1}, {}, FALSE, FALSE),
   Gate(TRUE, {a1}, {}, TRUE, FALSE), Gate(FALSE, {}, {a1}, FALSE, TRUE)}
==============================================================================
