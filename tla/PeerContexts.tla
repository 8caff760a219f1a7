------------------------------ MODULE PeerContexts -----------------------------
(* The peer contexts of the pnpm format: peerSuffixes of convert.go.        *)
EXTENDS Naturals, Sequences, FiniteSets, TLC
LOCAL INSTANCE SequencesExt

(* peerSuffixes.  The peers of a package are its own and those that bubble  *)
(* up from its dependencies, unless it provides them.  The memo keeps what  *)
(* was computed while a cycle was cut.                                      *)
InOrder(order, S) == SelectSeq(order, LAMBDA n : n \in S)

RECURSIVE PeerSet(_, _, _, _, _)
PeerSet(by, order, n, stack, memo) ==
  IF n \in DOMAIN memo THEN [set |-> memo[n], memo |-> memo]
  ELSE IF n \notin DOMAIN by \/ n \in stack THEN [set |-> {}, memo |-> memo]
  ELSE LET p == by[n]
           Bubble(acc, d) ==
             LET r == PeerSet(by, order, d, stack \cup {n}, acc.memo)
             IN [set |-> acc.set \cup (r.set \ (p.deps \cup {n})), memo |-> r.memo]
           all == FoldLeft(Bubble, [set |-> p.peers \cap DOMAIN by, memo |-> memo],
                           InOrder(order, p.deps) \o InOrder(order, p.opts))
       IN [set |-> all.set, memo |-> (n :> all.set) @@ all.memo]

(* A suffix is the set of the contextual keys of the peers; the code sorts  *)
(* and joins them.                                                          *)
RECURSIVE Suffix(_, _, _, _, _)
Suffix(by, order, n, stack, memo) ==
  IF n \in DOMAIN memo.suffix THEN [suffix |-> memo.suffix[n], memo |-> memo]
  ELSE IF n \in stack THEN [suffix |-> {}, memo |-> memo]
  ELSE LET peers == PeerSet(by, order, n, {}, memo.set)
           Piece(acc, q) ==
             LET r == Suffix(by, order, q, stack \cup {n}, acc.memo)
             IN [suffix |-> acc.suffix \cup {<<q, by[q].version, r.suffix>>}, memo |-> r.memo]
           all == FoldLeft(Piece, [suffix |-> {}, memo |-> [memo EXCEPT !.set = peers.memo]],
                           InOrder(order, peers.set))
       IN [suffix |-> all.suffix,
           memo |-> [all.memo EXCEPT !.suffix = (n :> all.suffix) @@ @]]

NoMemo == [set |-> <<>>, suffix |-> <<>>]
PeerContext(by, order) ==
  FoldLeft(LAMBDA memo, n : Suffix(by, order, n, {}, memo).memo, NoMemo,
           InOrder(order, DOMAIN by)).suffix
================================================================================
