--------------------------- MODULE MCProjectFiles ---------------------------
(* The files of a project over time: what the commands make of them, and   *)
(* what the lockfile carries from one install to the next.  The two models *)
(* have no state in common, so each is explored with the other at rest.    *)
EXTENDS MCInstallRuns, MCLockfileRounds

VARIABLE part  \* the model that is explored

FilesInit ==
  /\ part \in {"commands", "lockfile"}
  /\ Init /\ RoundsInit
  /\ part = "commands" \/ manifest = CHOOSE m \in Manifests : TRUE
  /\ part = "commands" \/ lock = NoLock
  /\ part = "lockfile" \/ (mode = "npm" /\ declared = CHOOSE root \in Roots : TRUE)
FilesNext ==
  /\ UNCHANGED part
  /\ \/ part = "commands" /\ FewMeet /\ UNCHANGED roundVars
     \/ part = "lockfile" /\ OneWriter /\ UNCHANGED vars
FilesSpec == FilesInit /\ [][FilesNext]_<<part, vars, roundVars>>
=============================================================================
