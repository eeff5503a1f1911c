---------------------------- MODULE SyncManager -----------------------------
(***************************************************************************)
(* The chain lifecycle of the sync manager (sync-service/src/manager.rs).  *)
(*                                                                         *)
(* Callers run add_chain, remove_chain, reset_public_sync_caches and       *)
(* shutdown concurrently, one call each.  They meet in one state behind a  *)
(* mutex: every action below is one critical section.  Between two of them *)
(* a call or a task waits for another operation's completion channel.  A   *)
(* call starts at most one operation, so the operation and its channel are *)
(* named by the caller, and the channel is done exactly when the operation *)
(* has left the state (the code sends `true` as it removes the entry).     *)
(* A call's future may be dropped at any await; its guards then run.       *)
(***************************************************************************)
EXTENDS FiniteSets

CONSTANTS
  Key,        \* chain keys
  ChainId,    \* ChainId[k]: the chain id of key k (keys differ in contract)
  Indexed,    \* whether the POI policy is IndexedArtifacts
  Adders, Removers, Resetters, Stoppers,   \* who calls what
  None        \* no operation

Caller == Adders \cup Removers \cup Resetters \cup Stoppers

ASSUME ManagerAssumption ==
  /\ DOMAIN ChainId = Key
  /\ Indexed \in BOOLEAN
  /\ None \notin Caller
  /\ Adders \cap Removers = {}
  /\ Resetters \cap (Adders \cup Removers) = {}
  /\ Stoppers \cap (Adders \cup Removers \cup Resetters) = {}

VARIABLES
  lifecycle,  \* Running, Stopping, Stopped
  lease,      \* the state holds its database lease
  chains,     \* chains[k]: the add_chain call that published k's service
  starts,     \* starts[k]: the call whose start of k is pending
  cancelled,  \* the pending starts that were cancelled (calls)
  removals,   \* removals[k]: the call whose removal of k is running
  reset,      \* the call whose cache reset is running
  shutdown,   \* the call whose shutdown is running
  begun,      \* published services told to stop (begin_shutdown)
  pc,         \* where each call is
  arg,        \* the key each call was made with
  wait,       \* the operations whose channels a call waits for
  collected,  \* the services the running reset has collected
  removal,    \* run_chain_removal of each key: none, waiting, stopping
  awaited,    \* the start that a key's removal task waits for
  stopping,   \* the service a key's removal task is shutting down
  stopTask,   \* run_manager_shutdown: none, reset, all, stopping
  stopWait,   \* the operations run_manager_shutdown waits for
  drained     \* the services run_manager_shutdown is shutting down

stateVars == <<lifecycle, lease, chains, starts, cancelled, removals, reset,
               shutdown, begun>>
callVars == <<pc, arg, wait, collected>>
removalVars == <<removal, awaited, stopping>>
stopVars == <<stopTask, stopWait, drained>>
vars == <<stateVars, callVars, removalVars, stopVars>>

CallOrNone == Caller \cup {None}

TypeOK ==
  /\ lifecycle \in {"Running", "Stopping", "Stopped"}
  /\ lease \in BOOLEAN
  /\ chains \in [Key -> Adders \cup {None}]
  /\ starts \in [Key -> Adders \cup {None}]
  /\ cancelled \subseteq Adders
  /\ removals \in [Key -> Removers \cup {None}]
  /\ reset \in Resetters \cup {None}
  /\ shutdown \in Stoppers \cup {None}
  /\ begun \subseteq Adders
  /\ pc \in [Caller -> {"idle", "retry", "prepare", "starts", "caches", "join",
                        "returned"}]
  /\ arg \in [Caller -> Key]
  /\ wait \in [Caller -> SUBSET CallOrNone]
  /\ collected \subseteq Adders
  /\ removal \in [Key -> {"none", "waiting", "stopping"}]
  /\ awaited \in [Key -> CallOrNone]
  /\ stopping \in [Key -> Adders \cup {None}]
  /\ stopTask \in {"none", "reset", "all", "stopping"}
  /\ stopWait \subseteq CallOrNone
  /\ drained \subseteq Adders

Init ==
  /\ lifecycle = "Running" /\ lease = TRUE
  /\ chains = [k \in Key |-> None]
  /\ starts = [k \in Key |-> None]
  /\ removals = [k \in Key |-> None]
  /\ reset = None /\ shutdown = None
  /\ cancelled = {} /\ begun = {} /\ collected = {}
  /\ pc = [c \in Caller |-> "idle"]
  /\ arg \in [Caller -> Key]
  /\ \A c \in Resetters \cup Stoppers : arg[c] = CHOOSE k \in Key : TRUE  \* not used
  /\ wait = [c \in Caller |-> {}]
  /\ removal = [k \in Key |-> "none"]
  /\ awaited = [k \in Key |-> None]
  /\ stopping = [k \in Key |-> None]
  /\ stopTask = "none" /\ stopWait = {} /\ drained = {}

Pending == {starts[k] : k \in Key} \ {None}
Removing == {removals[k] : k \in Key} \ {None}
Services == {chains[k] : k \in Key} \ {None}
Ongoing == Pending \cup Removing \cup ({reset, shutdown} \ {None})

\* Every channel in ops has been completed.
Completed(ops) == ops \cap Ongoing = {}

\* Call c is at a lock of its admission loop, having waited for what it had to.
AtAdmission(c) == pc[c] \in {"idle", "retry"} /\ Completed(wait[c])

Goto(c, label) == pc' = [pc EXCEPT ![c] = label]
RetryAfter(c, ops) == Goto(c, "retry") /\ wait' = [wait EXCEPT ![c] = ops]
JoinAfter(c, ops) == Goto(c, "join") /\ wait' = [wait EXCEPT ![c] = ops]
Returns(c) == Goto(c, "returned") /\ UNCHANGED wait

\* A variant: no start is told.
CancelStartsForgets == UNCHANGED cancelled

CancelStarts == cancelled' = cancelled \cup Pending

(***************************************************************************)
(* add_chain                                                               *)
(***************************************************************************)
\* A variant: only a removal of the very key is waited for.
BlockingRemovalsOfKey(k) == {removals[k]} \ {None}

\* The removals an add of key k waits for: of k, or of its chain id when the
\* chain's single POI coordinator is still shutting down.
BlockingRemovals(k) ==
  {removals[r] : r \in {s \in Key : s = k \/ (Indexed /\ ChainId[s] = ChainId[k])}}
    \ {None}

\* The keys whose service or start is in the way of k's coordinator.
Conflicts(k) ==
  {s \in Key : /\ Indexed /\ ChainId[s] = ChainId[k]
               /\ chains[s] # None \/ starts[s] # None}

AddChain(c) ==
  LET k == arg[c] IN
  /\ c \in Adders /\ AtAdmission(c)
  /\ \/ /\ \/ lifecycle # "Running"
           \/ BlockingRemovals(k) = {} /\ chains[k] # None
           \/ /\ BlockingRemovals(k) = {} /\ reset = None /\ starts[k] = None
              /\ Conflicts(k) # {}
        /\ Returns(c)
        /\ UNCHANGED starts
     \/ /\ lifecycle = "Running"
        /\ \/ \E r \in BlockingRemovals(k) : RetryAfter(c, {r})
           \/ /\ BlockingRemovals(k) = {} /\ chains[k] = None
              /\ \/ reset # None /\ RetryAfter(c, {reset})
                 \/ reset = None /\ starts[k] # None /\ RetryAfter(c, {starts[k]})
        /\ UNCHANGED starts
     \/ /\ lifecycle = "Running" /\ BlockingRemovals(k) = {}
        /\ chains[k] = None /\ reset = None /\ starts[k] = None
        /\ Conflicts(k) = {}
        /\ starts' = [starts EXCEPT ![k] = c]
        /\ Goto(c, "prepare") /\ UNCHANGED wait
  /\ UNCHANGED <<lifecycle, lease, chains, cancelled, removals, reset, shutdown,
                 begun, arg, collected, removalVars, stopVars>>

\* finish_locked: the start leaves the state and its channel completes.
FinishStart(c) == starts' = [starts EXCEPT ![arg[c]] = None]

\* The biased select sees the cancellation first; the guard drops on return.
StartCancelled(c) ==
  /\ pc[c] = "prepare" /\ c \in cancelled
  /\ FinishStart(c)
  /\ Returns(c)
  /\ UNCHANGED <<lifecycle, lease, chains, cancelled, removals, reset, shutdown,
                 begun, arg, collected, removalVars, stopVars>>

\* prepare returned an error.
PrepareFails(c) ==
  /\ pc[c] = "prepare"
  /\ FinishStart(c)
  /\ Returns(c)
  /\ UNCHANGED <<lifecycle, lease, chains, cancelled, removals, reset, shutdown,
                 begun, arg, collected, removalVars, stopVars>>

\* publish_prepared_chain: the cancellation may have come after the select.
PublishPreparedChain(c) ==
  LET k == arg[c] IN
  /\ pc[c] = "prepare"
  /\ IF c \in cancelled \/ lifecycle # "Running" \/ reset # None \/ removals[k] # None
     THEN UNCHANGED chains
     ELSE chains' = [chains EXCEPT ![k] = c]
  /\ FinishStart(c)
  /\ Returns(c)
  /\ UNCHANGED <<lifecycle, lease, cancelled, removals, reset, shutdown, begun,
                 arg, collected, removalVars, stopVars>>

(***************************************************************************)
(* remove_chain and its task                                               *)
(***************************************************************************)
RemoveChain(c) ==
  LET k == arg[c] IN
  /\ c \in Removers /\ AtAdmission(c)
  /\ \/ /\ lifecycle # "Running" /\ Returns(c)
        /\ UNCHANGED <<cancelled, removals, removal, awaited>>
     \/ /\ lifecycle = "Running" /\ reset # None
        /\ RetryAfter(c, {reset})
        /\ UNCHANGED <<cancelled, removals, removal, awaited>>
     \/ /\ lifecycle = "Running" /\ reset = None /\ removals[k] # None
        /\ JoinAfter(c, {removals[k]})
        /\ UNCHANGED <<cancelled, removals, removal, awaited>>
     \/ /\ lifecycle = "Running" /\ reset = None /\ removals[k] = None
        /\ removals' = [removals EXCEPT ![k] = c]
        /\ cancelled' = cancelled \cup ({starts[k]} \ {None})
        /\ removal' = [removal EXCEPT ![k] = "waiting"]
        /\ awaited' = [awaited EXCEPT ![k] = starts[k]]
        /\ JoinAfter(c, {c})
  /\ UNCHANGED <<lifecycle, lease, chains, starts, reset, shutdown, begun, arg,
                 collected, stopping, stopVars>>

\* run_chain_removal: the start is over, the service leaves the state.
RemovalTakesService(k) ==
  /\ removal[k] = "waiting" /\ Completed({awaited[k]})
  /\ stopping' = [stopping EXCEPT ![k] = chains[k]]
  /\ chains' = [chains EXCEPT ![k] = None]
  /\ removal' = [removal EXCEPT ![k] = "stopping"]
  /\ UNCHANGED <<lifecycle, lease, starts, cancelled, removals, reset, shutdown,
                 begun, callVars, awaited, stopVars>>

\* run_chain_removal: service.shutdown() has returned.
RemovalEnds(k) ==
  /\ removal[k] = "stopping"
  /\ stopping' = [stopping EXCEPT ![k] = None]
  /\ removals' = [removals EXCEPT ![k] = None]
  /\ removal' = [removal EXCEPT ![k] = "none"]
  /\ UNCHANGED <<lifecycle, lease, chains, starts, cancelled, reset, shutdown,
                 begun, callVars, awaited, stopVars>>

(***************************************************************************)
(* reset_public_sync_caches                                                *)
(***************************************************************************)
ResetCaches(c) ==
  /\ c \in Resetters /\ AtAdmission(c)
  /\ \/ /\ lifecycle # "Running" /\ Returns(c)
        /\ UNCHANGED <<reset, cancelled>>
     \/ /\ lifecycle = "Running"
        /\ \/ reset # None /\ RetryAfter(c, {reset})
           \/ reset = None /\ \E r \in Removing : RetryAfter(c, {r})
        /\ UNCHANGED <<reset, cancelled>>
     \/ /\ lifecycle = "Running" /\ reset = None /\ Removing = {}
        /\ reset' = c
        /\ CancelStarts
        /\ Goto(c, "starts") /\ wait' = [wait EXCEPT ![c] = Pending]
  /\ UNCHANGED <<lifecycle, lease, chains, starts, removals, shutdown, begun, arg,
                 collected, removalVars, stopVars>>

\* A variant: the services are collected while starts are still ending.
ResetCollectsAtOnce(c) ==
  /\ pc[c] = "starts"
  /\ collected' = Services
  /\ Goto(c, "caches")
  /\ UNCHANGED <<stateVars, arg, wait, removalVars, stopVars>>

\* Every cancelled start is over: the services whose caches are reset.
ResetCollects(c) ==
  /\ pc[c] = "starts" /\ Completed(wait[c])
  /\ collected' = Services
  /\ Goto(c, "caches")
  /\ UNCHANGED <<stateVars, arg, wait, removalVars, stopVars>>

\* The ResetGuard drops once all permits were applied, or the persisted
\* caches could not be reset.
ResetEnds(c) ==
  /\ pc[c] = "caches"
  /\ reset' = None /\ collected' = {}
  /\ Returns(c)
  /\ UNCHANGED <<lifecycle, lease, chains, starts, cancelled, removals, shutdown,
                 begun, arg, removalVars, stopVars>>

(***************************************************************************)
(* shutdown and its task                                                   *)
(***************************************************************************)
\* What shutdown and Drop do to a running manager.
BeginStopping ==
  /\ lifecycle' = "Stopping"
  /\ CancelStarts
  /\ begun' = begun \cup Services

Shutdown(c) ==
  /\ c \in Stoppers /\ AtAdmission(c)
  /\ \/ /\ lifecycle # "Running"
        /\ IF shutdown = None THEN Returns(c) ELSE JoinAfter(c, {shutdown})
        /\ UNCHANGED <<lifecycle, cancelled, begun, shutdown, stopTask, stopWait>>
     \/ /\ lifecycle = "Running"
        /\ BeginStopping
        /\ shutdown' = c
        /\ stopTask' = "reset" /\ stopWait' = {reset}
        /\ JoinAfter(c, {c})
  /\ UNCHANGED <<lease, chains, starts, removals, reset, arg, collected, removalVars,
                 drained>>

\* A variant: removals in progress are not waited for.
StopSeesStartsOnly ==
  /\ stopTask = "reset" /\ Completed(stopWait)
  /\ stopTask' = "all" /\ stopWait' = Pending
  /\ UNCHANGED <<stateVars, callVars, removalVars, drained>>

\* run_manager_shutdown: the reset is over; wait for starts and removals.
StopSeesOperations ==
  /\ stopTask = "reset" /\ Completed(stopWait)
  /\ stopTask' = "all" /\ stopWait' = Pending \cup Removing
  /\ UNCHANGED <<stateVars, callVars, removalVars, drained>>

StopDrains ==
  /\ stopTask = "all" /\ Completed(stopWait)
  /\ drained' = Services
  /\ chains' = [k \in Key |-> None]
  /\ stopTask' = "stopping"
  /\ UNCHANGED <<lifecycle, lease, starts, cancelled, removals, reset, shutdown,
                 begun, callVars, removalVars, stopWait>>

StopEnds ==
  /\ stopTask = "stopping"
  /\ lease' = FALSE /\ lifecycle' = "Stopped" /\ shutdown' = None
  /\ drained' = {} /\ stopTask' = "none"
  /\ UNCHANGED <<chains, starts, cancelled, removals, reset, begun, callVars,
                 removalVars, stopWait>>

(***************************************************************************)
(* Joining, dropped futures and the dropped manager                        *)
(***************************************************************************)
Joined(c) ==
  /\ pc[c] = "join" /\ Completed(wait[c])
  /\ Returns(c)
  /\ UNCHANGED <<stateVars, arg, collected, removalVars, stopVars>>

\* The call's future is dropped at an await: PendingStartGuard and ResetGuard
\* leave the state as they were told to.
FutureDropped(c) ==
  /\ pc[c] \in {"retry", "prepare", "starts", "caches", "join"}
  /\ IF pc[c] = "prepare" THEN FinishStart(c) ELSE UNCHANGED starts
  /\ IF pc[c] \in {"starts", "caches"}
     THEN reset' = None /\ collected' = {} ELSE UNCHANGED <<reset, collected>>
  /\ Returns(c)
  /\ UNCHANGED <<lifecycle, lease, chains, cancelled, removals, shutdown, begun,
                 arg, removalVars, stopVars>>

\* Drop of the manager: no call borrows it any more, and none can be made.
ManagerDropped ==
  /\ \A c \in Caller : pc[c] \in {"idle", "returned"}
  /\ lifecycle = "Running"
  /\ BeginStopping
  /\ pc' = [c \in Caller |-> "returned"]
  /\ UNCHANGED <<lease, chains, starts, removals, reset, shutdown, arg, wait,
                 collected, removalVars, stopVars>>

Admission(c) == AddChain(c) \/ RemoveChain(c) \/ ResetCaches(c) \/ Shutdown(c)

\* The steps a call takes once it was made; preparing may last for ever.
Proceeds(c) ==
  \/ pc[c] = "retry" /\ Admission(c)
  \/ StartCancelled(c) \/ ResetCollects(c) \/ ResetEnds(c) \/ Joined(c)

RemovalTask(k) == RemovalTakesService(k) \/ RemovalEnds(k)
StopTask == StopSeesOperations \/ StopDrains \/ StopEnds

\* Nothing is left to do once every call has returned and the tasks are over.
Quiet ==
  /\ \A c \in Caller : pc[c] = "returned"
  /\ \A k \in Key : removal[k] = "none"
  /\ stopTask = "none"
  /\ UNCHANGED vars

Next ==
  \/ \E c \in Caller : \/ Admission(c) \/ Proceeds(c)
                       \/ PrepareFails(c) \/ PublishPreparedChain(c)
                       \/ FutureDropped(c)
  \/ \E k \in Key : RemovalTask(k)
  \/ StopTask \/ ManagerDropped \/ Quiet

Spec == Init /\ [][Next]_vars

\* Every lock is granted and every spawned task polled; service.shutdown() and
\* the cache permits complete.  Nothing is assumed of prepare.
FairSpec ==
  /\ Spec
  /\ \A c \in Caller : WF_vars(Proceeds(c))
  /\ \A k \in Key : WF_vars(RemovalTask(k))
  /\ WF_vars(StopTask)

-----------------------------------------------------------------------------
(* Safety. *)

\* The services of key k: being prepared, published, or being shut down by its
\* removal.
ServicesOf(k) == {starts[k], chains[k], stopping[k]} \ {None}

\* add_chain, remove_chain: two services never run for the same key, and under
\* the indexed policy never two POI coordinators for the same chain id, not even
\* while one of them is still being prepared or still shutting down.
OneServicePerSlot ==
  \A k1, k2 \in Key :
    k1 = k2 \/ (Indexed /\ ChainId[k1] = ChainId[k2]) =>
      \A s \in ServicesOf(k1), t \in ServicesOf(k2) : s = t

\* reset_public_sync_caches: while the caches are reset, the services that hold
\* permits are exactly the published ones, no service is being prepared or
\* removed, and none appears or goes, even though add_chain, remove_chain and
\* shutdown are called meanwhile.
ResetSeesEveryService ==
  \A c \in Resetters : pc[c] = "caches" =>
    reset = c /\ collected = Services /\ Pending = {} /\ Removing = {}

\* shutdown, Drop: a service published at any moment of a stop was told to stop;
\* none slips in between the begin_shutdown sweep and the drain.
StoppingReachesAll == lifecycle # "Running" => Services \subseteq begun

\* run_manager_shutdown: the manager is Stopped, and its lease given back, only
\* when no start, removal, reset or service is left; until then it holds the
\* lease (the `None` branch of add_chain cannot be taken).
StoppedIsQuiet ==
  /\ lease <=> lifecycle # "Stopped"
  /\ lifecycle = "Stopped" =>
       Ongoing = {} /\ Services = {} /\ drained = {}
       /\ \A k \in Key : removal[k] = "none"

\* run_chain_removal: while a key is being removed no service is published for
\* it, and its removal completes only when it has none.
RemovalIsExclusive ==
  [][\A k \in Key : removals[k] # None =>
       chains'[k] = None \/ (chains'[k] = chains[k] /\ removals'[k] # None)]_vars

-----------------------------------------------------------------------------
(* Liveness. *)

\* remove_chain, reset_public_sync_caches and shutdown return although prepare
\* may hang: whatever they wait for they have cancelled or is itself bounded.
\* Once shutdown was called the manager reaches Stopped, even if the future
\* that called it is dropped, and every call that was in progress returns.
CallsReturn ==
  /\ \A c \in Removers \cup Resetters \cup Stoppers :
       (pc[c] \notin {"idle", "returned"}) ~> (pc[c] = "returned")
  /\ (shutdown # None) ~>
       (lifecycle = "Stopped" /\ \A c \in Caller : pc[c] \in {"idle", "returned"})
=============================================================================
