--------------------------- MODULE IsolatedInstall ---------------------------
(***************************************************************************)
(* Installs in the isolated layout (Operation.Run, internal/installer):    *)
(* the linker brings the packages into node_modules, and then their        *)
(* install scripts run, each in its directory of the virtual store.        *)
(***************************************************************************)
EXTENDS IsolatedLinker

CONSTANTS ScriptsOf, Policies

VARIABLES policy, stage, visited, stack, todo, next, order, turn, ran

S == INSTANCE LifecycleScripts

ASSUME ScriptsAssumption ==
  /\ ScriptsOf \in [Ids -> SUBSET S!Events]
  /\ \A p \in Policies :
       /\ p.enforce \in BOOLEAN /\ p.strict \in BOOLEAN /\ p.all \in BOOLEAN
       /\ p.allowed \subseteq Ids /\ p.never \subseteq Ids

scriptVars  == <<policy, stage, visited, stack, todo, next, order, turn, ran>>
installVars == <<vars, scriptVars>>

InstallInit == Init /\ S!Init

(* The scripts are the last steps of an install.                           *)
Ended == phase \in {"idle", "error"} \/ stage \in {"over", "failed"}

InstallBegins == Ended /\ Begin /\ S!Reset
LinkStep   == ((\E t \in DOMAIN plan : Work(t)) \/ Connect) /\ UNCHANGED scriptVars
ScriptStep == ((phase = "linked" /\ S!Begin) \/ S!Step) /\ UNCHANGED vars
Killed     == ~Ended /\ Kill /\ S!Reset

InstallNext == InstallBegins \/ LinkStep \/ ScriptStep \/ Killed

InstallSpec == InstallInit /\ [][InstallNext]_installVars

-----------------------------------------------------------------------------
(* The scripts of a package run after those of its dependencies, whatever   *)
(* installs came before and wherever they were killed (topoOrder,          *)
(* runLifecycleScripts).                                                   *)
DepsBuiltFirst == S!DepsBuiltFirst
==============================================================================
