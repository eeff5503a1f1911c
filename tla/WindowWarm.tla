------------------------------ MODULE WindowWarm ------------------------------
(***************************************************************************)
(* The one background task per chain that warms the public scan window     *)
(* (PublicWindowWarmSlot), against the public-cache reset permits and the  *)
(* shutdown of the data plane, which block it, cancel it and wait for it.  *)
(* A permit holds the commit fence; its future may be dropped at the wait, *)
(* and then releases what it holds and lets the cancelled task go.         *)
(***************************************************************************)
EXTENDS Naturals

CONSTANTS
    Resetters,   \* tasks that reset the public cache
    MaxWarm,     \* bound: warm tasks started
    MaxEpoch     \* bound: the data-plane epoch

Ids == 1 .. MaxWarm
NoWarm == 0
Free == "free"

ASSUME WarmAssumption ==
    /\ MaxWarm \in Nat /\ MaxEpoch \in Nat
    /\ Free \notin Resetters

VARIABLES
    blocked,   \* slot.reset_blocked
    closed,    \* slot.closed, and the service's token
    active,    \* slot.active: the id of the recorded task, or NoWarm
    nextId,    \* slot.next_id
    warm,      \* the tasks
    fence,     \* commit_fence: the resetter that holds it, or Free
    reset,     \* the reset calls: stage, and the task awaited
    stop,      \* the shutdown call: stage, and the task awaited
    letGo,     \* tasks whose JoinHandle was dropped
    epoch,     \* the data-plane epoch
    rows       \* the epochs of the warmed rows in the cache

vars == <<blocked, closed, active, nextId, warm, fence, reset, stop, letGo, epoch, rows>>

Running(i) == warm[i].state \in {"spawned", "fetching", "cleanup"}

Init ==
    /\ blocked = FALSE /\ closed = FALSE
    /\ active = NoWarm /\ nextId = 1
    /\ warm = [i \in Ids |-> [state |-> "none", cancel |-> FALSE, scope |-> 0]]
    /\ fence = Free
    /\ reset = [p \in Resetters |-> [stage |-> "idle", awaits |-> NoWarm]]
    /\ stop = [stage |-> "idle", awaits |-> NoWarm]
    /\ letGo = {}
    /\ epoch = 0
    /\ rows = {}

-----------------------------------------------------------------------------
\* A start that does not look at the reset block.
StartAnyway ==
    /\ ~closed /\ active = NoWarm /\ nextId <= MaxWarm
    /\ warm' = [warm EXCEPT ![nextId].state = "spawned"]
    /\ active' = nextId
    /\ nextId' = nextId + 1
    /\ UNCHANGED <<blocked, closed, fence, reset, stop, letGo, epoch, rows>>

\* try_start_public_window_warm: under the slot lock, one task at a time.
TryStart ==
    /\ ~blocked /\ ~closed /\ active = NoWarm /\ nextId <= MaxWarm
    /\ warm' = [warm EXCEPT ![nextId].state = "spawned"]
    /\ active' = nextId
    /\ nextId' = nextId + 1
    /\ UNCHANGED <<blocked, closed, fence, reset, stop, letGo, epoch, rows>>

\* warm_public_scan_window: the read scope is taken when the task first runs.
BeginRead(i) ==
    /\ warm[i].state = "spawned"
    /\ warm' = [warm EXCEPT ![i].state = "fetching", ![i].scope = epoch]
    /\ UNCHANGED <<blocked, closed, active, nextId, fence, reset, stop, letGo, epoch, rows>>

\* The fetch is over, cancelled or not: commit_completed_wallet_scan_acquisition
\* takes rows of the current epoch only.
FetchEnds(i) ==
    /\ warm[i].state = "fetching"
    /\ warm' = [warm EXCEPT ![i].state = "cleanup"]
    /\ rows' = IF warm[i].scope = epoch THEN rows \cup {epoch} ELSE rows
    /\ UNCHANGED <<blocked, closed, active, nextId, fence, reset, stop, letGo, epoch>>

\* The fetch was cancelled or failed.
FetchFails(i) ==
    /\ warm[i].state = "fetching"
    /\ warm' = [warm EXCEPT ![i].state = "cleanup"]
    /\ UNCHANGED <<blocked, closed, active, nextId, fence, reset, stop, letGo, epoch, rows>>

\* clear_finished_public_window_warm: only its own entry.
ClearFinished(i) ==
    /\ warm[i].state = "cleanup"
    /\ warm' = [warm EXCEPT ![i].state = "ended"]
    /\ active' = IF active = i THEN NoWarm ELSE active
    /\ UNCHANGED <<blocked, closed, nextId, fence, reset, stop, letGo, epoch, rows>>

-----------------------------------------------------------------------------
\* quiesce_public_window_warm, up to its wait.
Quiesce ==
    /\ blocked' = TRUE
    /\ active' = NoWarm
    /\ warm' = IF active = NoWarm THEN warm ELSE [warm EXCEPT ![active].cancel = TRUE]

\* acquire_public_cache_reset_permit: the fence first, then the quiesce.
Acquire(p) ==
    /\ reset[p].stage = "idle" /\ fence = Free
    /\ fence' = p
    /\ Quiesce
    /\ reset' = [reset EXCEPT ![p] = [stage |-> "wait", awaits |-> active]]
    /\ UNCHANGED <<closed, nextId, stop, letGo, epoch, rows>>

Ended(i) == i # NoWarm => warm[i].state = "ended"

Acquired(p) ==
    /\ reset[p].stage = "wait" /\ Ended(reset[p].awaits)
    /\ reset' = [reset EXCEPT ![p] = [stage |-> "held", awaits |-> NoWarm]]
    /\ UNCHANGED <<blocked, closed, active, nextId, warm, fence, stop, letGo, epoch, rows>>

\* PublicCacheResetPermit::apply: invalidate, then release.
Apply(p) ==
    /\ reset[p].stage = "held" /\ epoch < MaxEpoch
    /\ epoch' = epoch + 1
    /\ rows' = {}
    /\ reset' = [reset EXCEPT ![p].stage = "release"]
    /\ UNCHANGED <<blocked, closed, active, nextId, warm, fence, stop, letGo>>

\* The permit, or the future that acquires it, is dropped.
DropPermit(p) ==
    /\ reset[p].stage \in {"wait", "held"}
    /\ letGo' = letGo \cup ({reset[p].awaits} \ {NoWarm})
    /\ reset' = [reset EXCEPT ![p] = [stage |-> "release", awaits |-> NoWarm]]
    /\ UNCHANGED <<blocked, closed, active, nextId, warm, fence, stop, epoch, rows>>

\* A release that forgets the warm slot.
NeverUnblock(p) ==
    /\ reset[p].stage = "release"
    /\ reset' = [reset EXCEPT ![p].stage = "unlock"]
    /\ UNCHANGED <<blocked, closed, active, nextId, warm, fence, stop, letGo, epoch, rows>>

\* PublicCacheResetPermit::release: first unblock, then give up the fence.
Unblock(p) ==
    /\ reset[p].stage = "release"
    /\ blocked' = FALSE
    /\ reset' = [reset EXCEPT ![p].stage = "unlock"]
    /\ UNCHANGED <<closed, active, nextId, warm, fence, stop, letGo, epoch, rows>>

Unlock(p) ==
    /\ reset[p].stage = "unlock"
    /\ fence' = Free
    /\ reset' = [reset EXCEPT ![p].stage = "idle"]
    /\ UNCHANGED <<blocked, closed, active, nextId, warm, stop, letGo, epoch, rows>>

-----------------------------------------------------------------------------
\* begin_shutdown: the slot is closed and the recorded task cancelled.
BeginShutdown ==
    /\ stop.stage = "idle"
    /\ closed' = TRUE
    /\ warm' = IF active = NoWarm THEN warm ELSE [warm EXCEPT ![active].cancel = TRUE]
    /\ stop' = [stage |-> "begun", awaits |-> NoWarm]
    /\ UNCHANGED <<blocked, active, nextId, fence, reset, letGo, epoch, rows>>

\* shutdown quiesces the warm task, then waits for it.
ShutdownQuiesces ==
    /\ stop.stage = "begun"
    /\ Quiesce
    /\ stop' = [stage |-> "wait", awaits |-> active]
    /\ UNCHANGED <<closed, nextId, fence, reset, letGo, epoch, rows>>

\* The task has ended, and the commit fence is taken once ("_commit_drain").
ShutdownDrains ==
    /\ stop.stage = "wait" /\ Ended(stop.awaits) /\ fence = Free
    /\ stop' = [stage |-> "returned", awaits |-> NoWarm]
    /\ UNCHANGED <<blocked, closed, active, nextId, warm, fence, reset, letGo, epoch, rows>>

WarmStep(i) == BeginRead(i) \/ FetchEnds(i) \/ FetchFails(i) \/ ClearFinished(i)
ResetStep(p) == Acquired(p) \/ Apply(p) \/ Unblock(p) \/ Unlock(p)
Shutdown == ShutdownQuiesces \/ ShutdownDrains

\* Nothing runs and nobody asks for anything.
Rests ==
    /\ \A i \in Ids : ~Running(i)
    /\ \A p \in Resetters : reset[p].stage = "idle"
    /\ stop.stage \in {"idle", "returned"}
    /\ UNCHANGED vars

Next ==
    \/ TryStart
    \/ \E i \in Ids : WarmStep(i)
    \/ \E p \in Resetters : Acquire(p) \/ ResetStep(p) \/ DropPermit(p)
    \/ BeginShutdown
    \/ Shutdown
    \/ Rests

Spec == Init /\ [][Next]_vars

(***************************************************************************)
(* Fairness: every spawned task and every call in progress is polled; a    *)
(* permit that is held is applied or dropped.  Nobody is obliged to start  *)
(* a reset, a warm task or a shutdown.  The fence is a fair mutex, so the  *)
(* shutdown's turn comes however many resets are asked for.                *)
(***************************************************************************)
Fairness ==
    /\ \A i \in Ids : WF_vars(WarmStep(i))
    /\ \A p \in Resetters : WF_vars(ResetStep(p) \/ DropPermit(p))
    /\ WF_vars(ShutdownQuiesces) /\ SF_vars(ShutdownDrains)

FairSpec == Spec /\ Fairness

-----------------------------------------------------------------------------
(***************************************************************************)
(* The type of the slot, the tasks and the calls.                          *)
(***************************************************************************)
TypeOK ==
    /\ blocked \in BOOLEAN /\ closed \in BOOLEAN
    /\ active \in {NoWarm} \cup Ids /\ nextId \in 1 .. MaxWarm + 1
    /\ warm \in [Ids -> [state : {"none", "spawned", "fetching", "cleanup", "ended"},
                         cancel : BOOLEAN, scope : 0 .. MaxEpoch]]
    /\ fence \in {Free} \cup Resetters
    /\ reset \in [Resetters -> [stage : {"idle", "wait", "held", "release", "unlock"},
                                awaits : {NoWarm} \cup Ids]]
    /\ stop \in [stage : {"idle", "begun", "wait", "returned"}, awaits : {NoWarm} \cup Ids]
    /\ letGo \subseteq Ids
    /\ epoch \in 0 .. MaxEpoch /\ rows \subseteq 0 .. MaxEpoch

(***************************************************************************)
(* While a reset permit is held no uncancelled warm task runs, so none     *)
(* starts either: an earlier permit's release cannot unblock starts under  *)
(* a later one.  And the cache never holds rows that a warm task read      *)
(* before the last reset, even from a cancelled task that no reset waited  *)
(* for.                                                                    *)
(***************************************************************************)
HeldIsQuiet ==
    /\ \A p \in Resetters :
         reset[p].stage \in {"wait", "held"} =>
            \A i \in Ids : Running(i) => warm[i].cancel
    /\ rows \subseteq {epoch}

(***************************************************************************)
(* Warm starts are not blocked for ever by a reset: its permit's release,  *)
(* or its drop, unblocks them, unless the data plane closes.               *)
(***************************************************************************)
UnblocksAgain == blocked ~> ~blocked \/ closed
=============================================================================
