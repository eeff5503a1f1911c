----------------------------- MODULE WalletActor -----------------------------
(***************************************************************************)
(* The wallet actor (wallet/worker.rs, wallet/actor.rs): one task per      *)
(* registered wallet that owns the scan cursor, the UTXO cache and the     *)
(* durable record of the last accepted reset.  It is a single loop over a  *)
(* mailbox; an event that meets a pending reset first drives that reset    *)
(* (rewind the cache, admit a replay job, retire the durable plan) and     *)
(* each of these durable steps may fail and is retried later.              *)
(*                                                                         *)
(* One handler is several steps here (step), because the code awaits in    *)
(* between and publishes its observation after each: the steps of one      *)
(* handler run in order and no other mailbox event is taken meanwhile, but *)
(* the process may stop, a chain reorganisation may advance the data-plane *)
(* epoch and callers may mint tokens between two of them.  The local POI   *)
(* corpus appears by what it does to a Finish and to the cache: a refresh  *)
(* of the rows' statuses writes the whole snapshot, and a revision that    *)
(* moved meanwhile rejects the Finish.                                     *)
(***************************************************************************)
EXTENDS Integers, FiniteSets

CONSTANTS
  MaxBlock,   \* blocks are 1..MaxBlock, 0 stands for "no block"
  Start,      \* cfg.start_block of the registration
  SyncTo,     \* cfg.sync_to_block, 0 for None
  SyncTargets, \* the targets that callers may ask for, 0 for the safe head of the moment
  MaxIntent,  \* bound on the reset intents sent
  MaxJob,     \* bound on the sync tokens minted by one actor other than for replays
  MaxEpoch,   \* bound on the data-plane epoch
  MaxFault,   \* bound on failed reads and writes of the store and full backfill queues
  MaxEnd      \* bound on actor ends (shutdown, retirement, panic, crash)

ASSUME WalletAssumption ==
  /\ MaxBlock \in Nat \ {0} /\ Start \in 1..MaxBlock /\ SyncTo \in 0..MaxBlock
  /\ SyncTargets \subseteq IF SyncTo = 0 THEN 0..MaxBlock ELSE 1..SyncTo
  /\ {MaxIntent, MaxJob, MaxEpoch, MaxFault, MaxEnd} \subseteq Nat

VARIABLES
  life,          \* WalletActorLifecycle: "prepared", "active"; "down" once it ended
  gen,           \* reset_generation
  cursor,        \* last_scanned
  completed,     \* completed_target_block, 0 for None
  jobs,          \* active_jobs
  topJob,        \* highest_accepted_backfill_job_id
  failures,      \* job_failures
  intent,        \* highest_accepted_reset_intent
  pending,       \* pending_reset, NoReset for None
  rewound,       \* pending_reset_rewind_committed
  replay,        \* pending_reset_replay_admitted: the job's id, 0 for None
  replayReq,     \* reset_replay_persistence_requirement: intent, 0 for None
  progressReq,   \* progress_persistence_requirement
  completionReq, \* completion_persistence_requirement
  complete,      \* the loop's backfill_complete_block, 0 for None
  needsFull,     \* persist_state.needs_full_persist
  step,          \* what the handler in progress does next, "idle" between events
  ev,            \* the event in progress
  view,          \* the published WalletViewState
  disk,          \* the wallet cache store: cursor, rows, actor-state record
  utxos,         \* the rows in memory; a row is the epoch its block was read under
  missed,        \* ghost: what registrations failed to read and went on without
  nextJob,       \* next_sync_job_id of the handle
  nextIntent,    \* wallet_reset_intent_next of the chain service
  tokens,        \* tokens held outside the actor: requests under way and job owners
  epoch,         \* epoch of the chain's public data plane
  orphan,        \* first block of a detected reorganisation, its wallet reset not sent yet
  floor,         \* per block, the epoch of the last accepted reorg reset covering it
  faults, ends

actorVars == <<gen, cursor, completed, jobs, topJob, failures, intent, pending,
               rewound, replay, replayReq, progressReq, completionReq>>
loopVars == <<complete, needsFull, step, ev>>
envVars == <<nextJob, nextIntent, tokens, epoch, orphan, floor, ends>>
memVars == <<utxos, missed>>
vars == <<life, actorVars, loopVars, view, disk, memVars, envVars, faults>>

Block == 1..MaxBlock
NoReset == [intent |-> 0, from |-> 0, target |-> 0]
NoRange == [gen |-> 0, from |-> 0, to |-> 0]
NoDone == [gen |-> 0, id |-> 0, target |-> 0]
NoEvent == [kind |-> "none", id |-> 0, gen |-> 0, from |-> 0, to |-> 0, epoch |-> 0]
NoRow == -1
NoRows == [b \in Block |-> NoRow]

Larger(a, b) == IF a > b THEN a ELSE b
Smaller(a, b) == IF a < b THEN a ELSE b

-----------------------------------------------------------------------------
(* Reads of the actor's state. *)

\* WalletActorState::has_active_job and is_active_job for a Backfill job.
ActiveJob(id, g) == g = gen /\ \E j \in jobs : j.id = id /\ j.gen = g
ActiveBackfill(id, g) ==
  g = gen /\ \E j \in jobs : j.id = id /\ j.gen = g /\ j.kind = "Backfill"
BackfillJobs(js) == {j \in js : j.kind = "Backfill"}
Without(js, id) == {j \in js : j.id # id}
TargetOf(id) == (CHOOSE j \in jobs : j.id = id).target

\* remove_job forgets the admitted replay together with its job.
StickyReplay(id) == replay
ReplayWithout(id) == IF replay = id THEN 0 ELSE replay

PersistenceFailed == replayReq # 0 \/ progressReq # NoRange \/ completionReq # NoDone

\* derived_readiness: every transition of the actor publishes it with the view.
\* (The POI corpus has reasons of its own for Syncing and Failed; they are left
\* out and only make Ready rarer.)
Readiness ==
  IF life = "down" THEN "Shutdown"
  ELSE IF PersistenceFailed \/ failures # {} THEN "Failed"
  ELSE IF \/ pending # NoReset \/ jobs # {}
          \/ completed = 0 \/ cursor < completed
       THEN "Syncing"
  ELSE "Ready"

\* sync_progress_persist_failed and durable_sync_progress_commit_ok.
ProgressFailed(g, from, to) ==
  IF progressReq # NoRange /\ progressReq.gen = g
  THEN [gen |-> g, from |-> Smaller(progressReq.from, from), to |-> Larger(progressReq.to, to)]
  ELSE [gen |-> g, from |-> from, to |-> to]
ProgressCommitted(g, to) ==
  IF progressReq = NoRange \/ progressReq.gen # g THEN progressReq
  ELSE IF progressReq.to <= to THEN NoRange
  ELSE [progressReq EXCEPT !.from = Larger(@, to + 1)]

\* backfill_completion_persist_failed and durable_backfill_completion_commit_ok.
CompletionFailed(req, id, g, target) ==
  IF /\ req # NoDone /\ req.gen = g
     /\ target < req.target \/ (target = req.target /\ id >= req.id)
  THEN req
  ELSE [gen |-> g, id |-> id, target |-> target]
CompletionCommitted(g, target) ==
  IF completionReq # NoDone /\ completionReq.gen = g /\ completionReq.target <= target
  THEN NoDone ELSE completionReq

\* backfill_dispatch_admitted: a dispatched job answers for the failed ones it covers.
FailuresAfterDispatch(target) ==
  {f \in failures : f.gen # gen \/ f.target > target}
FailuresWith(id, g, target) ==
  IF \E f \in failures : f.id = id THEN failures
  ELSE failures \cup {[id |-> id, gen |-> g, target |-> target]}

Owner(id) == [id |-> id, gen |-> gen, use |-> "owner", target |-> 0]

\* The guards of WalletScanCommitRequest::commit, in their order.
GapAdmitted(from, to, e) ==
  from <= to /\ (SyncTo = 0 \/ to <= SyncTo) /\ to > cursor /\ e = epoch
ScanAdmitted(from, to, e) ==
  /\ from <= to /\ (SyncTo = 0 \/ to <= SyncTo)
  /\ to > cursor /\ from = cursor + 1
  /\ e = epoch

Fault == faults < MaxFault /\ faults' = faults + 1

-----------------------------------------------------------------------------
(* Driving a pending reset: try_drive_pending_reset!(admit).               *)

DriveStep ==
  IF pending = NoReset THEN "handle"
  ELSE IF ~rewound THEN "rewind"
  ELSE IF replay = 0 THEN "admit" ELSE "retire"

\* A rewind that leaves the checkpoint where it was.
NotRewound == cursor

\* compute_reset_rewind: the block before the rewind, if the cursor is beyond it.
RewoundTo == Smaller(cursor, pending.from - 1)

\* One atomic commit: the rows in memory below the rewind block replace those of
\* the store, the checkpoint falls back, the record keeps the pending reset; then
\* the Current view is published.  The startup drive stops here (admit_replay is
\* false).
RewindCommits ==
  /\ step = "rewind"
  /\ utxos' = [b \in Block |-> IF b < pending.from THEN utxos[b] ELSE NoRow]
  /\ disk' = [disk EXCEPT !.cursor = RewoundTo, !.pending = pending, !.intent = intent,
                          !.rows = utxos']
  /\ cursor' = RewoundTo /\ rewound' = TRUE
  /\ view' = "Current" /\ complete' = 0 /\ needsFull' = FALSE
  /\ step' = IF ev.kind = "startup" THEN "handle"
             ELSE IF replay = 0 THEN "admit" ELSE "retire"
  /\ UNCHANGED <<life, gen, completed, jobs, topJob, failures, intent, pending, replay,
                 replayReq, progressReq, completionReq, ev, missed, envVars, faults>>

\* Any failure before or in the commit defers the rewind.
RewindFails ==
  /\ step = "rewind" /\ Fault
  /\ step' = "handle"
  /\ UNCHANGED <<life, actorVars, complete, needsFull, ev, view, disk, memVars, envVars>>

ReplayFrom == Larger(cursor + 1, Start)
NothingToReplay == pending.target > 0 /\ ReplayFrom > pending.target

\* The replay job is minted and accepted; a plan that lies behind the cursor
\* completes at once, any other is queued for the chain's backfill loop.
AdmitCompleted ==
  /\ step = "admit" /\ NothingToReplay
  /\ completed' = Larger(completed, pending.target)
  /\ complete' = completed'
  /\ topJob' = nextJob /\ nextJob' = nextJob + 1
  /\ replay' = nextJob /\ step' = "retire"
  /\ UNCHANGED <<life, gen, cursor, jobs, failures, intent, pending, rewound, replayReq,
                 progressReq, completionReq, needsFull, ev, view, disk, memVars, nextIntent,
                 tokens, epoch, orphan, floor, ends, faults>>

AdmitQueued ==
  /\ step = "admit" /\ ~NothingToReplay
  /\ jobs' = jobs \cup {[id |-> nextJob, gen |-> gen, kind |-> "Backfill",
                         target |-> pending.target]}
  /\ failures' = FailuresAfterDispatch(pending.target)
  /\ tokens' = tokens \cup {Owner(nextJob)}
  /\ topJob' = nextJob /\ nextJob' = nextJob + 1
  /\ replay' = nextJob /\ step' = "retire"
  /\ UNCHANGED <<life, gen, cursor, completed, intent, pending, rewound, replayReq,
                 progressReq, completionReq, complete, needsFull, ev, view, disk, memVars,
                 nextIntent, epoch, orphan, floor, ends, faults>>

\* try_send finds the backfill queue full: the job fails and nothing is admitted.
AdmitRefused ==
  /\ step = "admit" /\ ~NothingToReplay /\ Fault
  /\ failures' = FailuresWith(nextJob, gen, pending.target)
  /\ topJob' = nextJob /\ nextJob' = nextJob + 1
  /\ step' = "handle"
  /\ UNCHANGED <<life, gen, cursor, completed, jobs, intent, pending, rewound, replay,
                 replayReq, progressReq, completionReq, complete, needsFull, ev, view, disk,
                 memVars, nextIntent, tokens, epoch, orphan, floor, ends>>

\* The durable plan is retired and only then the pending reset is forgotten.
RetirePlan ==
  /\ step = "retire"
  /\ disk' = [disk EXCEPT !.pending = NoReset, !.intent = intent]
  /\ pending' = NoReset /\ rewound' = FALSE
  /\ replayReq' = IF replayReq = pending.intent THEN 0 ELSE replayReq
  /\ step' = "handle"
  /\ UNCHANGED <<life, gen, cursor, completed, jobs, topJob, failures, intent, replay,
                 progressReq, completionReq, complete, needsFull, ev, view, memVars,
                 envVars, faults>>

ForgottenBeforeDurable ==
  /\ step = "retire" /\ Fault
  /\ replayReq' = pending.intent /\ pending' = NoReset /\ rewound' = FALSE
  /\ step' = "handle"
  /\ UNCHANGED <<life, gen, cursor, completed, jobs, topJob, failures, intent, replay,
                 progressReq, completionReq, complete, needsFull, ev, view, disk, memVars,
                 envVars>>
RetirePlanFails ==
  /\ step = "retire" /\ Fault
  /\ replayReq' = pending.intent
  /\ step' = "handle"
  /\ UNCHANGED <<life, gen, cursor, completed, jobs, topJob, failures, intent, pending,
                 rewound, replay, progressReq, completionReq, complete, needsFull, ev, view,
                 disk, memVars, envVars>>

\* The rest of the handlers that only drive: retry tick, activation, startup, Reset.
Driven ==
  /\ step = "handle" /\ ev.kind \in {"startup", "activate", "tick", "reset"}
  /\ step' = "idle" /\ ev' = NoEvent
  /\ UNCHANGED <<life, actorVars, complete, needsFull, view, disk, memVars, envVars, faults>>

-----------------------------------------------------------------------------
(* Registration, end and restart of the actor.                             *)

\* validate_restored_pending_reset with the plan's start at Start: a rewind
\* below the start block cannot be replayed from there, registration refuses.
Restorable(c) == disk.pending = NoReset \/ Start <= Smaller(c, disk.pending.from - 1) + 1

\* observe_wallet_reset_intent_floor.
IntentFloor == Larger(nextIntent, disk.intent + 1)

\* register_wallet_locked and prepare_wallet_worker: the cursor comes from the
\* checkpoint (never below Start - 1), the rows from the cache, the pending reset
\* from the record and the service's intent counter moves past every accepted
\* intent.  A failed read of the record refuses the wallet; a failed read of the
\* checkpoint or of the rows (lost) is taken for an absent one, which is a loss
\* when there was one.
CanLose == {x \in {"cursor", "rows"} : IF x = "cursor" THEN disk.cursor >= Start
                                                       ELSE disk.rows # NoRows}
Register(lost) ==
  LET c == IF "cursor" \in lost THEN Start - 1 ELSE Larger(disk.cursor, Start - 1)
      restored == disk.pending # NoReset IN
  /\ life = "down" /\ Restorable(c)
  /\ IF lost = {} THEN UNCHANGED faults ELSE Fault
  /\ life' = "prepared"
  /\ utxos' = (IF "rows" \in lost THEN NoRows ELSE disk.rows)
  /\ missed' = missed \cup lost
  /\ gen' = (IF restored THEN 1 ELSE 0)
  /\ cursor' = c /\ intent' = disk.intent /\ pending' = disk.pending
  /\ nextIntent' = IntentFloor
  /\ view' = (IF restored THEN "ResetPending" ELSE "Current")
  /\ step' = (IF restored THEN "rewind" ELSE "idle")
  /\ ev' = (IF restored THEN [NoEvent EXCEPT !.kind = "startup"] ELSE NoEvent)
  /\ UNCHANGED <<completed, jobs, topJob, failures, rewound, replay, replayReq, progressReq,
                 completionReq, complete, needsFull, disk, nextJob, tokens, epoch, orphan,
                 floor, ends>>

\* PreparedWalletWorker::activate, then the first drive that may admit a replay.
Activate ==
  /\ life = "prepared" /\ step = "idle"
  /\ life' = "active"
  /\ step' = (IF pending = NoReset THEN "idle" ELSE DriveStep)
  /\ ev' = (IF pending = NoReset THEN NoEvent ELSE [NoEvent EXCEPT !.kind = "activate"])
  /\ UNCHANGED <<actorVars, complete, needsFull, view, disk, memVars, envVars, faults>>

\* Cancellation, retirement, panic or a crash: nothing commits afterwards, the
\* view becomes Inactive and only the store survives (with the process, also
\* the service's intent counter and what it still had to send are lost).
ActorEnds ==
  /\ life # "down" /\ ends < MaxEnd
  /\ life' = "down" /\ view' = "Inactive" /\ ends' = ends + 1
  /\ gen' = 0 /\ cursor' = 0 /\ completed' = 0 /\ jobs' = {} /\ topJob' = 0
  /\ failures' = {} /\ intent' = 0 /\ pending' = NoReset /\ rewound' = FALSE /\ replay' = 0
  /\ replayReq' = 0 /\ progressReq' = NoRange /\ completionReq' = NoDone
  /\ complete' = 0 /\ needsFull' = FALSE /\ step' = "idle" /\ ev' = NoEvent
  /\ tokens' = {} /\ nextJob' = 1
  /\ \/ nextIntent' = nextIntent /\ orphan' = orphan
     \/ nextIntent' = 1 /\ orphan' = 0
  /\ utxos' = NoRows
  /\ UNCHANGED <<disk, missed, epoch, floor, faults>>

-----------------------------------------------------------------------------
(* What happens outside the actor.                                         *)

\* A confirmed reorganisation: the data plane's epoch moves on at once, the
\* wallet's reset is sent afterwards.
Reorg(from) ==
  /\ epoch < MaxEpoch /\ orphan = 0
  /\ epoch' = epoch + 1 /\ orphan' = from
  /\ UNCHANGED <<life, actorVars, loopVars, view, disk, memVars, nextJob, nextIntent,
                 tokens, floor, ends, faults>>

\* start_backfill and reserve_sync_target: a token of the published view's
\* generation is minted and travels to the mailbox.
Request(use, target) ==
  /\ life = "active" /\ view = "Current" /\ nextJob <= MaxJob
  /\ nextJob' = nextJob + 1
  /\ tokens' = tokens \cup {[id |-> nextJob, gen |-> gen, use |-> use, target |-> target]}
  /\ UNCHANGED <<life, actorVars, loopVars, view, disk, memVars, nextIntent, epoch, orphan,
                 floor, ends, faults>>

-----------------------------------------------------------------------------
(* The mailbox.                                                            *)

Takes == life = "active" /\ step = "idle"

RewindOnlyTick ==
  /\ Takes /\ pending # NoReset /\ ~rewound
  /\ step' = DriveStep /\ ev' = [NoEvent EXCEPT !.kind = "tick"]
  /\ UNCHANGED <<life, actorVars, complete, needsFull, view, disk, memVars, envVars, faults>>
RetryTick ==
  /\ Takes /\ pending # NoReset
  /\ step' = DriveStep /\ ev' = [NoEvent EXCEPT !.kind = "tick"]
  /\ UNCHANGED <<life, actorVars, complete, needsFull, view, disk, memVars, envVars, faults>>

\* BackfillEvent::Start and ReserveTarget: a token of an older generation is
\* refused, any other first drives a pending reset.
TakeRequest(t) ==
  /\ Takes /\ t \in tokens /\ t.use \in {"start", "reserve"}
  /\ tokens' = tokens \ {t}
  /\ IF t.gen = gen
     THEN /\ step' = DriveStep
          /\ ev' = [NoEvent EXCEPT !.kind = t.use, !.id = t.id, !.gen = t.gen, !.to = t.target]
     ELSE UNCHANGED <<step, ev>>
  /\ UNCHANGED <<life, actorVars, complete, needsFull, view, disk, memVars, nextJob,
                 nextIntent, epoch, orphan, floor, ends, faults>>

\* Between events the loop waits in its select!; a handler always runs on.
Waits == step = "idle" /\ UNCHANGED vars

Finished == step' = "idle" /\ ev' = NoEvent

\* The reset is still pending, or accept_target refuses the token.
RequestRefused ==
  /\ step = "handle" /\ ev.kind \in {"start", "reserve"}
  /\ \/ pending # NoReset
     \/ ActiveJob(ev.id, ev.gen)
     \/ ev.kind = "start" /\ ev.id <= topJob
  /\ Finished
  /\ UNCHANGED <<life, actorVars, complete, needsFull, view, disk, memVars, envVars, faults>>

\* The job is accepted; when the caller is gone it is retired again, which does
\* not reopen the live gate that accepting a backfill closed.
StartAccepted ==
  /\ step = "handle" /\ ev.kind = "start" /\ pending = NoReset
  /\ ~ActiveJob(ev.id, ev.gen) /\ ev.id > topJob
  /\ topJob' = ev.id /\ complete' = 0
  /\ \/ /\ jobs' = jobs \cup {[id |-> ev.id, gen |-> gen, kind |-> "Backfill",
                               target |-> ev.to]}
        /\ failures' = FailuresAfterDispatch(ev.to)
        /\ tokens' = tokens \cup {Owner(ev.id)}
     \/ UNCHANGED <<jobs, failures, tokens>>
  /\ Finished
  /\ UNCHANGED <<life, gen, cursor, completed, intent, pending, rewound, replay, replayReq,
                 progressReq, completionReq, needsFull, view, disk, memVars, nextJob,
                 nextIntent, epoch, orphan, floor, ends, faults>>

ReserveAccepted ==
  /\ step = "handle" /\ ev.kind = "reserve" /\ pending = NoReset
  /\ ~ActiveJob(ev.id, ev.gen)
  /\ \/ /\ jobs' = jobs \cup {[id |-> ev.id, gen |-> gen, kind |-> "SyncTarget",
                               target |-> ev.to]}
        /\ tokens' = tokens \cup {Owner(ev.id)}
     \/ UNCHANGED <<jobs, tokens>>
  /\ Finished
  /\ UNCHANGED <<life, gen, cursor, completed, topJob, failures, intent, pending, rewound,
                 replay, replayReq, progressReq, completionReq, complete, needsFull, view,
                 disk, memVars, nextJob, nextIntent, epoch, orphan, floor, ends, faults>>

\* BackfillEvent::Apply: rows of from..to, read under epoch e, sent by a job's
\* owner at any time.  The pending reset is driven before the token is checked.
TakeApply(t, from, to, e) ==
  /\ Takes /\ t \in tokens /\ t.use = "owner"
  /\ step' = DriveStep
  /\ ev' = [kind |-> "apply", id |-> t.id, gen |-> t.gen, from |-> from, to |-> to, epoch |-> e]
  /\ UNCHANGED <<life, actorVars, complete, needsFull, view, disk, memVars, envVars, faults>>

\* A reset that is still pending retires the job the rows came from.
ApplyWhilePending ==
  /\ step = "handle" /\ ev.kind = "apply" /\ pending # NoReset
  /\ IF ActiveJob(ev.id, ev.gen)
     THEN jobs' = Without(jobs, ev.id) /\ replay' = ReplayWithout(ev.id)
     ELSE UNCHANGED <<jobs, replay>>
  /\ Finished
  /\ UNCHANGED <<life, gen, cursor, completed, topJob, failures, intent, pending, rewound,
                 replayReq, progressReq, completionReq, complete, needsFull, view, disk,
                 memVars, envVars, faults>>

ApplyRefused ==
  /\ step = "handle" /\ ev.kind = "apply" /\ pending = NoReset
  /\ ~(ActiveBackfill(ev.id, ev.gen) /\ ScanAdmitted(ev.from, ev.to, ev.epoch))
  /\ Finished
  /\ UNCHANGED <<life, actorVars, complete, needsFull, view, disk, memVars, envVars, faults>>

\* New rows are appended and then deduplicated: the one already there stays.
RowsWith(rows, from, to, e) ==
  [b \in Block |-> IF b \in from..to /\ rows[b] = NoRow THEN e ELSE rows[b]]

\* commit_progress_with_token: the store gets the snapshot in memory, or only the
\* checkpoint when the scan changed no row and no snapshot is owed.
ScanCommits(from, to, e) ==
  /\ utxos' = RowsWith(utxos, from, to, e)
  /\ disk' \in {[disk EXCEPT !.cursor = to, !.rows = rows] :
                  rows \in {utxos'} \cup
                           (IF needsFull THEN {} ELSE {RowsWith(disk.rows, from, to, e)})}
  /\ cursor' = to /\ view' = "Current" /\ needsFull' = FALSE

\* Rows, checkpoint and cursor move together under the lifecycle fence.
ApplyCommits ==
  /\ step = "handle" /\ ev.kind = "apply" /\ pending = NoReset
  /\ ActiveBackfill(ev.id, ev.gen) /\ ScanAdmitted(ev.from, ev.to, ev.epoch)
  /\ ScanCommits(ev.from, ev.to, ev.epoch)
  /\ progressReq' = ProgressCommitted(ev.gen, ev.to)
  /\ Finished
  /\ UNCHANGED <<life, gen, completed, jobs, topJob, failures, intent, pending, rewound,
                 replay, replayReq, completionReq, complete, missed, envVars, faults>>

ApplyPersistFails ==
  /\ step = "handle" /\ ev.kind = "apply" /\ pending = NoReset
  /\ ActiveBackfill(ev.id, ev.gen) /\ ScanAdmitted(ev.from, ev.to, ev.epoch)
  /\ Fault
  /\ progressReq' = ProgressFailed(ev.gen, ev.from, ev.to)
  /\ needsFull' \in {needsFull, TRUE}
  /\ Finished
  /\ UNCHANGED <<life, gen, cursor, completed, jobs, topJob, failures, intent, pending,
                 rewound, replay, replayReq, completionReq, complete, view, disk, memVars,
                 envVars>>

\* BackfillEvent::Finish is checked against the active jobs before the drive.
TakeFinish(t, target) ==
  /\ Takes /\ t \in tokens /\ t.use = "owner" /\ ActiveBackfill(t.id, t.gen)
  /\ step' = DriveStep
  /\ ev' = [NoEvent EXCEPT !.kind = "finish", !.id = t.id, !.gen = t.gen, !.to = target]
  /\ UNCHANGED <<life, actorVars, complete, needsFull, view, disk, memVars, envVars, faults>>

FinishWhilePending ==
  /\ step = "handle" /\ ev.kind = "finish" /\ pending # NoReset
  /\ Finished
  /\ UNCHANGED <<life, actorVars, complete, needsFull, view, disk, memVars, envVars, faults>>

\* update_target: the target of a job only grows.
RequiredTarget == Larger(TargetOf(ev.id), ev.to)
WithTarget == {IF j.id = ev.id THEN [j EXCEPT !.target = RequiredTarget] ELSE j : j \in jobs}

FinishTooEarly ==
  /\ step = "handle" /\ ev.kind = "finish" /\ pending = NoReset
  /\ RequiredTarget = 0 \/ RequiredTarget > cursor
  /\ jobs' = WithTarget
  /\ complete' = 0
  /\ Finished
  /\ UNCHANGED <<life, gen, cursor, completed, topJob, failures, intent, pending, rewound,
                 replay, replayReq, progressReq, completionReq, needsFull, view, disk,
                 memVars, envVars, faults>>

\* apply_backfill_done! up to the live gate: a snapshot that is owed is written,
\* the job's completion requirement is met, and a refresh of POI statuses may
\* write the snapshot again.
TargetReached ==
  /\ step = "handle" /\ ev.kind = "finish" /\ pending = NoReset
  /\ RequiredTarget > 0 /\ RequiredTarget <= cursor
SnapshotStored ==
  /\ completionReq' = CompletionCommitted(ev.gen, RequiredTarget)
  /\ disk' \in {[disk EXCEPT !.rows = utxos]} \cup (IF needsFull THEN {} ELSE {disk})

\* A refresh that fails is logged, or overridden by a revision that moved: a
\* snapshot is owed again.
RefreshMayFail ==
  \/ needsFull' = FALSE /\ UNCHANGED faults
  \/ needsFull' = TRUE /\ Fault

\* The gate opens before complete_backfill_job, which removes the job and closes
\* it again if another backfill is active.
GateAfter(js, target) == IF BackfillJobs(js) = {} THEN target ELSE 0
FinishCompletes ==
  /\ TargetReached /\ SnapshotStored /\ RefreshMayFail
  /\ completed' = Larger(completed, RequiredTarget)
  /\ jobs' = Without(jobs, ev.id) /\ replay' = ReplayWithout(ev.id)
  /\ complete' = GateAfter(jobs', RequiredTarget)
  /\ Finished
  /\ UNCHANGED <<life, gen, cursor, topJob, failures, intent, pending, rewound, replayReq,
                 progressReq, view, memVars, envVars>>

\* The corpus revision moved after the gate opened: the job stays and is told
\* ApplyFailed.
FinishCorpusMoved ==
  /\ TargetReached /\ SnapshotStored /\ RefreshMayFail
  /\ jobs' = WithTarget /\ complete' = RequiredTarget
  /\ Finished
  /\ UNCHANGED <<life, gen, cursor, completed, topJob, failures, intent, pending, rewound,
                 replay, replayReq, progressReq, view, memVars, envVars>>

\* The refresh before the gate is rejected (the revision moved under it, or the
\* corpus is not there): the job is retired and the gate stays as it was.
FinishRejected ==
  /\ TargetReached /\ SnapshotStored /\ RefreshMayFail
  /\ jobs' = Without(jobs, ev.id) /\ replay' = ReplayWithout(ev.id)
  /\ Finished
  /\ UNCHANGED <<life, gen, cursor, completed, topJob, failures, intent, pending, rewound,
                 replayReq, progressReq, complete, view, memVars, envVars>>

\* The snapshot, or the statuses refreshed after it, cannot be written: the job
\* stays and its completion is owed.
FinishPersistFails ==
  /\ TargetReached /\ Fault
  /\ \/ /\ needsFull /\ UNCHANGED disk
        /\ completionReq' = CompletionFailed(completionReq, ev.id, ev.gen, RequiredTarget)
     \/ /\ disk' \in {[disk EXCEPT !.rows = utxos]} \cup (IF needsFull THEN {} ELSE {disk})
        /\ completionReq' = CompletionFailed(CompletionCommitted(ev.gen, RequiredTarget),
                                             ev.id, ev.gen, RequiredTarget)
  /\ needsFull' = TRUE
  /\ jobs' = WithTarget
  /\ Finished
  /\ UNCHANGED <<life, gen, cursor, completed, topJob, failures, intent, pending, rewound,
                 replay, replayReq, progressReq, complete, view, memVars, envVars>>

\* WalletPoiStatusRefreshCommitRequest::commit: statuses that changed are written
\* with the whole snapshot in memory and published as the Current view.
StatusesRefreshed ==
  \/ UNCHANGED <<disk, needsFull, view, faults>>
  \/ /\ disk' = [disk EXCEPT !.rows = utxos]
     /\ needsFull' = FALSE /\ view' = "Current" /\ UNCHANGED faults
  \/ /\ needsFull' = TRUE /\ Fault /\ UNCHANGED <<disk, view>>

\* A corpus revision, a manual or a periodic refresh; latched while a reset is
\* pending or no backfill has completed.
PoiRefresh ==
  /\ Takes /\ pending = NoReset /\ complete # 0
  /\ StatusesRefreshed
  /\ UNCHANGED <<life, actorVars, complete, step, ev, memVars, envVars>>

\* A delta of the POI maintenance task is applied and written with the snapshot,
\* pending reset or not; the view is published again only if it is Current.
PoiDelta ==
  /\ Takes
  /\ disk' = [disk EXCEPT !.rows = utxos]
  /\ UNCHANGED <<life, actorVars, loopVars, view, memVars, envVars, faults>>

\* BackfillEvent::JobFailed from the owner of an active backfill.
JobFailed(t) ==
  /\ Takes /\ t \in tokens /\ t.use = "owner" /\ ActiveBackfill(t.id, t.gen)
  /\ failures' = FailuresWith(t.id, t.gen, TargetOf(t.id))
  /\ jobs' = Without(jobs, t.id) /\ replay' = ReplayWithout(t.id)
  /\ UNCHANGED <<life, gen, cursor, completed, topJob, intent, pending, rewound, replayReq,
                 progressReq, completionReq, loopVars, view, disk, memVars, envVars, faults>>

\* The owner retired its job, or dropped a grant or a lease: benign.  The last
\* backfill to go reopens the gate and refreshes the statuses of a new revision.
OwnerRetires(t) ==
  /\ Takes /\ t \in tokens /\ t.use = "owner" /\ ActiveJob(t.id, t.gen)
  /\ \A j \in jobs : j.id = t.id => j.kind # "IndexedCatchUp"
  /\ jobs' = Without(jobs, t.id) /\ replay' = ReplayWithout(t.id)
  /\ IF BackfillJobs(jobs') = {}
     THEN complete' = completed /\ StatusesRefreshed
     ELSE UNCHANGED <<complete, disk, needsFull, view, faults>>
  /\ UNCHANGED <<life, gen, cursor, completed, topJob, failures, intent, pending, rewound,
                 replayReq, progressReq, completionReq, step, ev, memVars, envVars>>

\* A driver went away without retiring its job.
DriverLost(t) ==
  /\ Takes /\ t \in tokens /\ t.use = "owner" /\ ActiveBackfill(t.id, t.gen)
  /\ failures' = FailuresWith(t.id, t.gen, TargetOf(t.id))
  /\ jobs' = Without(jobs, t.id) /\ replay' = ReplayWithout(t.id)
  /\ complete' = 0
  /\ UNCHANGED <<life, gen, cursor, completed, topJob, intent, pending, rewound, replayReq,
                 progressReq, completionReq, needsFull, step, ev, view, disk, memVars,
                 envVars, faults>>

\* WalletIndexedCatchUpCommand::Claim: one indexed catch-up at a time.
ClaimCatchUp ==
  /\ Takes /\ nextJob <= MaxJob
  /\ nextJob' = nextJob + 1
  /\ IF \E j \in jobs : j.kind = "IndexedCatchUp" THEN UNCHANGED <<jobs, tokens>>
     ELSE \/ /\ jobs' = jobs \cup {[id |-> nextJob, gen |-> gen, kind |-> "IndexedCatchUp",
                                    target |-> 0]}
             /\ tokens' = tokens \cup {Owner(nextJob)}
          \/ UNCHANGED <<jobs, tokens>>
  /\ UNCHANGED <<life, gen, cursor, completed, topJob, failures, intent, pending, rewound,
                 replay, replayReq, progressReq, completionReq, loopVars, view, disk,
                 memVars, nextIntent, epoch, orphan, floor, ends, faults>>

CatchUpDropped(t) ==
  /\ Takes /\ t \in tokens /\ t.use = "owner" /\ ActiveJob(t.id, t.gen)
  /\ \E j \in jobs : j.id = t.id /\ j.kind = "IndexedCatchUp"
  /\ jobs' = Without(jobs, t.id)
  /\ UNCHANGED <<life, gen, cursor, completed, topJob, failures, intent, pending, rewound,
                 replay, replayReq, progressReq, completionReq, loopVars, view, disk,
                 memVars, envVars, faults>>

\* A new reset is merged with one that is still pending.
NewestReset(from, target) == [intent |-> nextIntent, from |-> from, target |-> target]
MergedReset(from, target) ==
  IF pending = NoReset
  THEN [intent |-> nextIntent, from |-> from, target |-> target]
  ELSE [intent |-> nextIntent, from |-> Smaller(pending.from, from),
        target |-> Larger(pending.target, target)]

\* A variant: the completed target outlives the reset.
KeepsCompleted ==
  /\ rewound' = FALSE /\ replay' = 0 /\ replayReq' = 0
  /\ progressReq' = NoRange /\ completionReq' = NoDone
  /\ jobs' = {} /\ failures' = {} /\ completed' = completed
\* accept_reset drops whatever belonged to the old generation.
ForgetGeneration ==
  /\ rewound' = FALSE /\ replay' = 0 /\ replayReq' = 0
  /\ progressReq' = NoRange /\ completionReq' = NoDone
  /\ jobs' = {} /\ failures' = {} /\ completed' = 0

\* The acceptance is durable before the actor's state follows it.
AcceptReset(from, target) ==
  /\ disk' = [disk EXCEPT !.pending = MergedReset(from, target), !.intent = nextIntent]
  /\ pending' = MergedReset(from, target) /\ intent' = nextIntent /\ gen' = gen + 1
  /\ ForgetGeneration
  /\ view' = "ResetPending"
  /\ step' = "rewind" /\ ev' = [NoEvent EXCEPT !.kind = "reset"]
  /\ UNCHANGED <<cursor, topJob, complete, needsFull>>

\* BackfillEvent::Reset.  A stale intent or a failed durable acceptance leaves
\* everything as it was; nobody sends that reset again.
ResetEvent(from, target, reorg) ==
  /\ Takes /\ nextIntent <= MaxIntent
  /\ nextIntent' = nextIntent + 1
  /\ \/ /\ nextIntent > intent /\ AcceptReset(from, target)
        /\ floor' = IF reorg THEN [b \in Block |-> IF b >= from THEN epoch ELSE floor[b]]
                    ELSE floor
        /\ UNCHANGED faults
     \/ /\ IF nextIntent > intent THEN Fault ELSE UNCHANGED faults
        /\ UNCHANGED <<actorVars, loopVars, view, disk, floor>>
  /\ UNCHANGED <<life, memVars, nextJob, tokens, epoch, ends>>

\* ChainService::reset_wallet and, after a reorganisation, reset_wallets.
UserReset(from, target) == ResetEvent(from, target, FALSE) /\ orphan' = orphan
ReorgReset(target) ==
  /\ orphan # 0 /\ orphan' = 0
  /\ ResetEvent(Larger(orphan, Start), target, TRUE)

\* reset_wallets finds no registration: the wallet gets no reset.
ReorgUnseen ==
  /\ orphan # 0 /\ life = "down" /\ orphan' = 0
  /\ UNCHANGED <<life, actorVars, loopVars, view, disk, memVars, nextJob, nextIntent,
                 tokens, epoch, floor, ends, faults>>

-----------------------------------------------------------------------------
(* A batch of live logs: only once a backfill completed and no reset is pending. *)

LiveGate == Takes /\ complete # 0 /\ pending = NoReset /\ SyncTo = 0 /\ nextJob <= MaxJob

\* A gap is handed to the backfill loop.
LiveGap(from, to) ==
  /\ LiveGate /\ to > cursor /\ from > cursor + 1 /\ from <= to
  /\ topJob' = nextJob /\ nextJob' = nextJob + 1
  /\ \/ /\ jobs' = jobs \cup {[id |-> nextJob, gen |-> gen, kind |-> "Backfill",
                               target |-> to]}
        /\ failures' = FailuresAfterDispatch(to)
        /\ tokens' = tokens \cup {Owner(nextJob)}
        /\ complete' = 0 /\ UNCHANGED faults
     \/ /\ Fault
        /\ failures' = FailuresWith(nextJob, gen, to)
        /\ UNCHANGED <<jobs, tokens, complete>>
  /\ UNCHANGED <<life, gen, cursor, completed, intent, pending, rewound, replay, replayReq,
                 progressReq, completionReq, needsFull, step, ev, view, disk, memVars,
                 nextIntent, epoch, orphan, floor, ends>>

\* A batch that continues the cursor is committed under a job of its own, which
\* is retired at once; a batch of an older epoch is refused.
LiveCommits(to, e) ==
  /\ LiveGate /\ to > cursor
  /\ topJob' = nextJob /\ nextJob' = nextJob + 1
  /\ IF ScanAdmitted(cursor + 1, to, e)
     THEN /\ ScanCommits(cursor + 1, to, e)
          /\ progressReq' = ProgressCommitted(gen, to)
     ELSE UNCHANGED <<disk, utxos, cursor, view, needsFull, progressReq>>
  /\ UNCHANGED <<life, gen, completed, jobs, failures, intent, pending, rewound, replay,
                 replayReq, completionReq, complete, step, ev, missed, nextIntent, tokens,
                 epoch, orphan, floor, ends, faults>>

\* A failed commit keeps its job and hands the range to the backfill loop; with
\* its queue full as well, the job fails.
LivePersistFails(to) ==
  /\ LiveGate /\ to > cursor /\ Fault
  /\ topJob' = nextJob /\ nextJob' = nextJob + 1
  /\ progressReq' = ProgressFailed(gen, cursor + 1, to)
  /\ needsFull' \in {needsFull, TRUE}
  /\ \/ /\ jobs' = jobs \cup {[id |-> nextJob, gen |-> gen, kind |-> "Backfill",
                               target |-> to]}
        /\ failures' = FailuresAfterDispatch(to)
        /\ tokens' = tokens \cup {Owner(nextJob)}
        /\ complete' = 0
     \/ /\ failures' = FailuresWith(nextJob, gen, to)
        /\ UNCHANGED <<jobs, tokens, complete>>
  /\ UNCHANGED <<life, gen, cursor, completed, intent, pending, rewound, replay, replayReq,
                 completionReq, step, ev, view, disk, memVars, nextIntent, epoch, orphan,
                 floor, ends>>

-----------------------------------------------------------------------------
Init ==
  /\ life = "down" /\ view = "Inactive" /\ step = "idle" /\ ev = NoEvent
  /\ gen = 0 /\ cursor = 0 /\ completed = 0 /\ jobs = {} /\ topJob = 0 /\ failures = {}
  /\ intent = 0 /\ pending = NoReset /\ rewound = FALSE /\ replay = 0
  /\ replayReq = 0 /\ progressReq = NoRange /\ completionReq = NoDone
  /\ complete = 0 /\ needsFull = FALSE
  /\ disk = [cursor |-> Start - 1, pending |-> NoReset, intent |-> 0,
             rows |-> [b \in Block |-> IF b < Start THEN 0 ELSE NoRow]]
  /\ utxos = NoRows /\ missed = {}
  /\ nextJob = 1 /\ nextIntent = 1 /\ tokens = {}
  /\ epoch = 0 /\ orphan = 0 /\ floor = [b \in Block |-> 0]
  /\ faults = 0 /\ ends = 0

Drive == \/ RewindCommits \/ RewindFails
         \/ AdmitCompleted \/ AdmitQueued \/ AdmitRefused
         \/ RetirePlan \/ RetirePlanFails \/ Driven

Handle == \/ RequestRefused \/ StartAccepted \/ ReserveAccepted
          \/ ApplyWhilePending \/ ApplyRefused \/ ApplyCommits \/ ApplyPersistFails
          \/ FinishWhilePending \/ FinishTooEarly \/ FinishCompletes
          \/ FinishCorpusMoved \/ FinishRejected \/ FinishPersistFails

Mailbox == \/ RetryTick \/ ClaimCatchUp \/ PoiRefresh \/ PoiDelta
           \/ \E t \in tokens :
                \/ TakeRequest(t) \/ JobFailed(t) \/ OwnerRetires(t) \/ DriverLost(t)
                \/ CatchUpDropped(t)
                \/ \E from, to \in Block, e \in 0..epoch : from <= to /\ TakeApply(t, from, to, e)
                \/ \E target \in SyncTargets : TakeFinish(t, target)
           \/ \E target \in SyncTargets :
                \/ ReorgReset(target)
                \/ \E from \in Block : UserReset(from, target)
           \/ \E to \in Block : \/ \E from \in Block : LiveGap(from, to)
                                \/ \E e \in 0..epoch : LiveCommits(to, e)
                                \/ LivePersistFails(to)

Outside == \/ Activate \/ ActorEnds \/ ReorgUnseen
           \/ \E lost \in SUBSET CanLose : Register(lost)
           \/ \E from \in Block : Reorg(from)
           \/ \E use \in {"start", "reserve"}, target \in SyncTargets : Request(use, target)

Next == Drive \/ Handle \/ Mailbox \/ Outside \/ Waits

Spec == Init /\ [][Next]_vars

-----------------------------------------------------------------------------
(* Properties.                                                             *)

Id == 0..nextJob
Token == [id : Id, gen : Nat, use : {"start", "reserve", "owner"}, target : 0..MaxBlock]
Job == [id : Id, gen : Nat, kind : {"Backfill", "SyncTarget", "IndexedCatchUp"},
        target : 0..MaxBlock]
PendingReset == [intent : Nat, from : 0..MaxBlock, target : 0..MaxBlock]
Kinds == {"none", "startup", "activate", "tick", "reset", "start", "reserve", "apply", "finish"}

\* The types of the actor's, the loop's and the store's fields.
TypeOK ==
  /\ life \in {"down", "prepared", "active"}
  /\ view \in {"Inactive", "ResetPending", "Current"}
  /\ {gen, cursor, completed, topJob, intent, replay, replayReq, complete} \subseteq Nat
  /\ {nextJob, nextIntent, epoch, orphan, faults, ends} \subseteq Nat
  /\ {cursor, completed, complete, orphan} \subseteq 0..MaxBlock
  /\ jobs \subseteq Job /\ tokens \subseteq Token
  /\ failures \subseteq [id : Id, gen : Nat, target : 0..MaxBlock]
  /\ pending \in PendingReset /\ rewound \in BOOLEAN /\ needsFull \in BOOLEAN
  /\ progressReq \in [gen : Nat, from : 0..MaxBlock, to : 0..MaxBlock]
  /\ completionReq \in [gen : Nat, id : Id, target : 0..MaxBlock]
  /\ step \in {"idle", "rewind", "admit", "retire", "handle"}
  /\ ev \in [kind : Kinds, id : Id, gen : Nat, from : 0..MaxBlock, to : 0..MaxBlock, epoch : Nat]
  /\ disk \in [cursor : 0..MaxBlock, pending : PendingReset, intent : Nat,
               rows : [Block -> Nat \cup {NoRow}]]
  /\ utxos \in [Block -> Nat \cup {NoRow}] /\ missed \subseteq {"cursor", "rows"}
  /\ floor \in [Block -> Nat]

Fresh(rows) == \A b \in Block : rows[b] # NoRow => rows[b] >= floor[b]

\* Once the reset for a reorganisation is accepted, no row that was read under
\* an older epoch is shown in a Current view, and none is in a store whose
\* record no longer asks for the rewind: not after failed writes, failed reads at
\* registration, late rows of older jobs, live batches under way or a stop at any
\* point.
NoStaleRows == /\ view = "Current" => Fresh(utxos) /\ Fresh(disk.rows)
               /\ disk.pending = NoReset => Fresh(disk.rows)

\* The checkpoint says exactly which blocks the cache holds: scans extend it
\* without gaps and a rewind takes rows and checkpoint back together.  A
\* registration that went on without the rows ends the first half (the next
\* snapshot replaces them), one that went on without the checkpoint the second.
CheckpointExact ==
  \A b \in Start..MaxBlock :
    /\ b <= disk.cursor /\ "rows" \notin missed => disk.rows[b] # NoRow
    /\ b > disk.cursor /\ "cursor" \notin missed => disk.rows[b] = NoRow

\* A wallet that reports Ready shows fresh rows (derived_readiness together with
\* the scan commits), of every block up to the completed target unless a
\* registration went on without the rows.
ReadyIsScanned ==
  Readiness = "Ready" =>
    /\ Fresh(utxos)
    /\ "rows" \notin missed => \A b \in Start..completed : utxos[b] # NoRow

\* A pending reset and the accepted intents in memory are those on disk, and
\* the cursor is the checkpoint, or the start block's after a registration that
\* found it lower or could not read it.
MirrorsStore ==
  life # "down" =>
    /\ disk.intent = intent /\ disk.pending = pending
    /\ \/ cursor = disk.cursor
       \/ cursor = Start - 1 /\ (disk.cursor < Start - 1 \/ "cursor" \in missed)

\* Jobs, failures and unmet persistence requirements belong to the current
\* reset generation (accept_reset drops the older ones).
ScopedToGeneration ==
  /\ \A j \in jobs : j.gen = gen
  /\ \A f \in failures : f.gen = gen
  /\ progressReq # NoRange => progressReq.gen = gen
  /\ completionReq # NoDone => completionReq.gen = gen

\* The live gate stands at a block up to which the wallet shows rows: no reset,
\* retired job or rejected Finish leaves it open behind rows that were dropped.
\* (It may be open while a backfill job is active: a Finish whose corpus revision
\* moved leaves it so.)
LiveAfterScan ==
  "rows" \notin missed => \A b \in Start..complete : utxos[b] # NoRow

\* What WalletObservation asserts: Inactive exactly with Shutdown, and a pending
\* reset is never Ready.
ObservationConsistent ==
  /\ view = "Inactive" <=> Readiness = "Shutdown"
  /\ view = "ResetPending" => Readiness # "Ready"

\* The service's next reset intent is never one the actor has accepted, in this
\* process or before a restart, so its reset cannot be refused as stale.
IntentsMoveOn == life # "down" => nextIntent > intent

\* A step that retires the plan finds it rewound and replayed, or being replayed.
RetiresWithReplay ==
  pending # NoReset /\ pending' = NoReset /\ life' # "down" =>
    /\ rewound
    /\ \/ \E j \in jobs : j.id = replay /\ j.kind = "Backfill" /\ j.target >= pending.target
       \/ pending.target > 0 /\ completed >= pending.target

\* The durable replay plan is retired only after the rewind, and while a replay
\* job that reaches the plan's target is active or was completed.
RetiredWithReplay == [][RetiresWithReplay]_vars

\* The actor's task is polled, the retry tick is an interval timer, and the service
\* registers and activates the wallet again after a restart.
FairSpec == /\ Spec /\ WF_vars(Drive) /\ WF_vars(Handle) /\ WF_vars(RetryTick)
            /\ WF_vars(Register({})) /\ WF_vars(Activate)

\* An accepted reset is eventually rewound and handed to a replay job, however
\* often a write fails, the backfill queue is full or the actor restarts (each
\* finitely often), as long as it can be restored.
ResetIsReplayed == disk.pending # NoReset ~> disk.pending = NoReset
=============================================================================
