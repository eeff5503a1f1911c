---------------------------- MODULE LogFilters ------------------------------
(***************************************************************************)
(* Which events are asked of which endpoint for which blocks               *)
(* (sync-service/src/chain/logs.rs, fetch_logs_for_range_with_provider and *)
(* backfill.rs, fetch_logs_for_logical_range).                             *)
(*                                                                         *)
(* The contract was upgraded at block v2Start and changed its shield event *)
(* after block legacyShield.  Blocks up to archiveUntil (0 for none) are   *)
(* read from the archive endpoint when one is configured.                  *)
(***************************************************************************)
EXTENDS Integers, Sequences

Commitments == "CommitmentBatch"
Transact == "Transact"
LegacyShield == "LegacyShield"
Shield == "Shield"
Nullifiers == "Nullifiers"
Kind == {Commitments, Transact, LegacyShield, Shield, Nullifiers}

SmallerOf(a, b) == IF a <= b THEN a ELSE b
LargerOf(a, b) == IF a >= b THEN a ELSE b

(* A list of one element, or none *)
Only(cond, x) == IF cond THEN <<x>> ELSE <<>>

(* combined_log_event_signatures_for_range; {} stands for None *)
CombinedKinds(from, to, v2Start, legacyShield) ==
  IF v2Start > 0 /\ to < v2Start THEN {Commitments, Nullifiers}
  ELSE IF from < v2Start THEN {}
  ELSE IF to <= legacyShield THEN {Transact, LegacyShield, Nullifiers}
  ELSE IF from > legacyShield THEN {Transact, Shield, Nullifiers}
  ELSE {}

Query(kinds, from, to) == [kinds |-> kinds, from |-> from, to |-> to]

(* One filter per kind, in this order, when the range crosses an upgrade *)
SeparateQueries(from, to, v2Start, legacyShield) ==
  LET start == LargerOf(from, v2Start)
      modern == to >= v2Start
  IN  Only(from <= v2Start, Query({Commitments}, from, SmallerOf(to, v2Start)))
      \o Only(modern, Query({Transact}, start, to))
      \o Only(modern /\ start <= legacyShield,
              Query({LegacyShield}, start, SmallerOf(to, legacyShield)))
      \o Only(modern /\ to > legacyShield,
              Query({Shield}, LargerOf(start, legacyShield + 1), to))
      \o <<Query({Nullifiers}, from, to)>>

(* fetch_logs_for_range_with_provider: the get_logs calls, in order *)
RangeQueries(from, to, v2Start, legacyShield) ==
  LET combined == CombinedKinds(from, to, v2Start, legacyShield) IN
  IF from > to THEN <<>>
  ELSE IF combined # {} THEN <<Query(combined, from, to)>>
  ELSE SeparateQueries(from, to, v2Start, legacyShield)

(* fetch_logs_for_logical_range: whether the range has a part that belongs *)
(* to the archive endpoint, and where the rest starts                      *)
HasArchivePart(from, archiveUntil) == archiveUntil > 0 /\ from <= archiveUntil

StandardStart(from, archiveUntil) ==
  IF archiveUntil > 0 THEN LargerOf(from, archiveUntil + 1) ELSE from

(* The events block b can hold.  The upgrade block itself can hold both    *)
(* versions' events, so the old ones are required below it only.           *)
EventsOf(b, v2Start, legacyShield) ==
  IF b < v2Start THEN {Commitments, Nullifiers}
  ELSE {Transact, Nullifiers, IF b <= legacyShield THEN LegacyShield ELSE Shield}
=============================================================================
