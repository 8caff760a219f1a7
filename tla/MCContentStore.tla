--------------------------- MODULE MCContentStore ---------------------------
(* Tarballs, jobs and directories for the runs of ContentStore.             *)
EXTENDS ContentStore

CONSTANTS j1, j2, j3, t1, t2, d1, d2, d3, lib, bin, doc

(* Two tarballs that share a file.                                          *)
TwoTarballs == [t \in {t1, t2} |-> IF t = t1 THEN {lib, bin} ELSE {lib, doc}]

Plan(tarball, dest, platform, n) ==
  [tarball |-> tarball, dest |-> dest, platform |-> platform, runs |-> n]
Two(x, y) == [j \in {j1, j2} |-> IF j = j1 THEN x ELSE y]
Three(x, y, z) == [j \in {j1, j2, j3} |-> CASE j = j1 -> x [] j = j2 -> y [] j = j3 -> z]

(* Two packages, each job killed once or not at all.                        *)
Killed == Plan(Two(t1, t2), Two(d1, d2), "link", 2)
(* Two packages on another device than the store.                           *)
Copied == Plan(Two(t1, t2), Two(d1, d2), "copy", 1)
(* One tarball ingested three times at once.                                *)
Raced == Plan(Three(t1, t1, t1), Three(d1, d2, d3), "clone", 1)
(* Two processes install one package into one directory.                    *)
OneDest == Plan(Two(t1, t1), Two(d1, d1), "link", 1)

AllPlans == {Killed, Copied, Raced, OneDest}
SameTarball == {Plan(Two(t1, t1), Two(d1, d2), "link", 1)}
=============================================================================
