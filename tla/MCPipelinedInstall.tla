------------------------- MODULE MCPipelinedInstall -------------------------
(* Dependency graphs for the runs of PipelinedInstall.                      *)
EXTENDS PipelinedInstall

CONSTANTS a, b, c

Edge(n, opt) == [name |-> n, optional |-> opt]

(* The project needs a; a needs c and, optionally, b; c needs a.            *)
CycleRoot == <<Edge(a, FALSE)>>
Cycle == [n \in {a, b, c} |->
  CASE n = a -> <<Edge(b, TRUE), Edge(c, FALSE)>> [] n = b -> <<>> [] n = c -> <<Edge(a, FALSE)>>]
=============================================================================
