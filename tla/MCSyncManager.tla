--------------------------- MODULE MCSyncManager ----------------------------
(* A small instance of SyncManager for TLC: the two contracts of one chain *)
(* id, two starts, a removal, a cache reset and a shutdown.                *)
EXTENDS SyncManager

CONSTANTS k1, k2, a1, a2, r1, c1, s1

TwoKeys == {k1, k2}
SameChain == [k \in {k1, k2} |-> 1]
TwoAdders == {a1, a2}
OneRemover == {r1}
OneResetter == {c1}
OneStopper == {s1}
=============================================================================
