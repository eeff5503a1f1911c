---------------------------- MODULE QueryRpcPool ----------------------------
(***************************************************************************)
(* The shared pool of JSON-RPC endpoints (core/src/query_rpc_pool.rs).     *)
(*                                                                         *)
(* The admission of the endpoints and the endpoints that are cooling down  *)
(* after a failure live behind two mutexes.  A reader first snapshots the  *)
(* admitted indexes and then, under the other lock, drops the ones that    *)
(* are cooling down, so the two reads are two steps here.  Time is         *)
(* abstracted: a cooldown lasts until CooldownExpires.  The eth_getLogs    *)
(* spans the pool also remembers are in module LogRangeFetch.              *)
(***************************************************************************)
EXTENDS Integers, FiniteSets

CONSTANT Provider   \* indexes of the configured pool endpoints

ASSUME ProviderAssumption == Provider \subseteq Nat /\ IsFiniteSet(Provider)

Admission == {"Pending", "Admitted", "Excluded"}

VARIABLES
  admission,  \* the admission of every endpoint
  cooldowns   \* endpoints marked bad whose cooldown has not elapsed

poolVars == <<admission, cooldowns>>

PoolTypeOK ==
  /\ admission \in [Provider -> Admission]
  /\ cooldowns \subseteq Provider

(* with_http_clients, with or without with_pending_admission *)
PoolInit ==
  /\ admission \in {[p \in Provider |-> "Admitted"], [p \in Provider |-> "Pending"]}
  /\ cooldowns = {}

(* admitted_indices: the snapshot every reader takes first *)
AdmittedIndices == {p \in Provider : admission[p] = "Admitted"}

(* available_providers: the snapshot without the endpoints cooling down *)
Available(snapshot) == snapshot \ cooldowns

SetProviderAdmission(p, a) ==
  /\ admission[p] # a
  /\ admission' = [admission EXCEPT ![p] = a]
  /\ UNCHANGED cooldowns

MarkBadProvider(p) ==
  /\ cooldowns' = cooldowns \cup {p}
  /\ UNCHANGED admission

CooldownExpires(p) ==
  /\ p \in cooldowns
  /\ cooldowns' = cooldowns \ {p}
  /\ UNCHANGED admission
=============================================================================
