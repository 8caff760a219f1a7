--------------------------- MODULE MCLockfileRounds --------------------------
(* Resolutions for the runs of LockfileRounds.                              *)
EXTENDS LockfileRounds, PeerContexts

CONSTANTS a, b, c, x

Top(n, v, deps, peers) == Package(n, v, <<n>>, deps, {}, peers, n = a, TRUE, TRUE)
Under(p, n, v, deps) == Package(n, v, <<p, n>>, deps, {}, {}, FALSE, TRUE, TRUE)
Optional(n, v, deps, opts) == Package(n, v, <<n>>, deps, opts, {}, FALSE, TRUE, TRUE)
Elsewhere(n, v)   == Package(n, v, <<n>>, {}, {}, {}, FALSE, FALSE, TRUE)
Musl(n, v)        == Package(n, v, <<n>>, {}, {}, {}, FALSE, TRUE, FALSE)
Alias(n, real, v) == Package(real, v, <<n>>, {}, {}, {}, FALSE, TRUE, TRUE)
Of(root, tree) == [root |-> root, tree |-> tree]

Flat     == Of({a}, {Top(a, 1, {x}, {}), Top(x, 1, {}, {})})
Newer    == Of({a}, {Top(a, 2, {x}, {}), Top(x, 2, {}, {})})
(* Both a and b need x, and not the same one. *)
Conflict == Of({a, b}, {Top(a, 1, {x}, {}), Top(b, 1, {x}, {}), Top(x, 1, {}, {}), Under(b, x, 2, {})})
(* c, a peer of x, bubbles up to a; b provides it. *)
Peers    == Of({a, c}, {Top(a, 1, {x}, {}), Top(b, 1, {x, c}, {}), Top(c, 1, {}, {}), Top(x, 1, {}, {c})})
(* Packages that depend on each other, each with a peer. *)
Ring     == Of({a, b, c}, {Top(a, 1, {b}, {c}), Top(b, 1, {a}, {x}), Top(c, 1, {}, {}), Top(x, 1, {}, {})})
Ring3    == Of({a}, {Top(a, 1, {b}, {x}), Top(b, 1, {c}, {}), Top(c, 1, {a}, {}), Top(x, 1, {}, {})})
(* An optional dependency for another platform, one for another C library, *)
(* one that is nowhere, and one that is x under the name of c.             *)
Platform == Of({b}, {Optional(b, 1, {x}, {a, c}), Elsewhere(a, 1), Top(x, 1, {}, {})})
Libc     == Of({b}, {Optional(b, 1, {}, {a, x}), Musl(a, 1), Top(x, 1, {}, {})})
Missing  == Of({b, c}, {Top(b, 1, {x}, {}), Top(x, 1, {}, {b})})

Aliased  == Of({b, c}, {Top(b, 1, {c}, {}), Alias(c, x, 1)})

SmallResolutions == {Flat, Newer, Conflict, Peers, Ring, Ring3, Platform, Libc, Missing, Aliased}
SmallOrders == {<<a, b, c, x>>, <<x, c, b, a>>, <<b, x, a, c>>}

(* What another tool writes replaces what it wrote before and an edit alone: *)
(* it need not come after these to reach every state.                       *)
OneWriter ==
  IF last \in {"edited", "other tool"}
  THEN LockedInstall \/ \E res \in Resolutions : FullInstall(res) \/ EditRoot(res.root)
  ELSE RoundsNext

ASSUME ContextsSettleHere == ContextsSettle
=============================================================================
