---------------------------- MODULE MCInstallRuns ----------------------------
(* Two package.json files over three packages, one of them with a           *)
(* development dependency; one package may be added, another removed.       *)
EXTENDS InstallRuns, TLC

CONSTANTS p1, p2

Three == {"lib", "util", "test"}
M(deps, dev) == [f \in Fields |-> [d \in IF f = "deps" THEN deps ELSE dev |-> "range"]]
Some == {M({"lib"}, {}), M({"lib"}, {"test"})}

Util(spec) == [field |-> "deps", name |-> "util", spec |-> spec]
SomeAdds == {Util("latest")}

Flag(production, frozen, audit) ==
  [production |-> production, frozen |-> frozen, audit |-> audit]
SomeFlags == {Plain, Flag(FALSE, TRUE, FALSE), Flag(FALSE, FALSE, TRUE)}

(* Two processes are at work at once within the first two commands and the  *)
(* first edit only.                                                         *)
Meeting == Cardinality({p \in Procs : ~Quiet(p)}) > 1
FewMeet == Next /\ (Meeting' => runs' <= 2 /\ edits' <= 1)

Interchangeable == Permutations(Procs)
=============================================================================
