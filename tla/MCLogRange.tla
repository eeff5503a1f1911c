----------------------------- MODULE MCLogRange -----------------------------
(* Two logical fetches of three blocks that were given the same provider,  *)
(* for upgrade and archive boundaries inside, before and after the range.  *)
EXTENDS LogRangeFetch

CONSTANTS f1, f2

SameRpc == [f \in {f1, f2} |-> "rpc"]
Boundaries == {[v2 |-> 0, legacy |-> 0, archive |-> 0],
               [v2 |-> 4, legacy |-> 4, archive |-> 3],
               [v2 |-> 4, legacy |-> 9, archive |-> 4],
               [v2 |-> 2, legacy |-> 3, archive |-> 9]}
Limits == {NoBudget, 5}
=============================================================================
