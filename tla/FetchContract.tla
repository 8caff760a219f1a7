---------------------------- MODULE FetchContract ----------------------------
(***************************************************************************)
(* What the pipelined resolve-and-fetch phase of an install promises the   *)
(* steps after it (Operation.Run): packages are placed, each placed one is *)
(* settled at most once, and the phase ends with one verdict.  "ok" means  *)
(* that every placed package is in the store or was skipped for another    *)
(* platform; an error verdict has a cause; nothing moves after a verdict.  *)
(***************************************************************************)
CONSTANTS Keys   \* resolved packages, name@version

VARIABLES placed,   \* the packages the resolver has finalized
          settled,  \* package -> "open", "stored" or "skipped"
          failed,   \* something went wrong
          verdict   \* "running", "ok" or "error"

vars == <<placed, settled, failed, verdict>>

Init ==
  /\ placed = {}
  /\ settled = [k \in Keys |-> "open"]
  /\ failed = FALSE
  /\ verdict = "running"

Place(k) ==
  /\ verdict = "running"
  /\ placed' = placed \cup {k}
  /\ UNCHANGED <<settled, failed, verdict>>

Settle(k, how) ==
  /\ verdict = "running"
  /\ k \in placed
  /\ settled[k] = "open"
  /\ settled' = [settled EXCEPT ![k] = how]
  /\ UNCHANGED <<placed, failed, verdict>>

Fail ==
  /\ verdict = "running"
  /\ failed' = TRUE
  /\ UNCHANGED <<placed, settled, verdict>>

Succeed ==
  /\ verdict = "running"
  /\ ~failed
  /\ \A k \in placed : settled[k] # "open"
  /\ verdict' = "ok"
  /\ UNCHANGED <<placed, settled, failed>>

GiveUp ==
  /\ verdict = "running"
  /\ failed
  /\ verdict' = "error"
  /\ UNCHANGED <<placed, settled, failed>>

Next ==
  \/ \E k \in Keys : Place(k) \/ \E how \in {"stored", "skipped"} : Settle(k, how)
  \/ Fail
  \/ Succeed
  \/ GiveUp

Spec == Init /\ [][Next]_vars
=============================================================================
