-------------------------- MODULE WalletActorProofs --------------------------
(***************************************************************************)
(* The safety of the wallet actor's durable state, for every number of     *)
(* blocks, jobs, resets, reorganisations, failed writes and restarts.      *)
(*                                                                         *)
(* IInv has four parts: what the store, the rows in memory, the cursor and *)
(* the published view say of each other (StoreInv), what the handler in    *)
(* progress may rely on (StepInv), the generation of the records the       *)
(* actor keeps (GenInv) and the targets of its jobs (JobsInv).  Few        *)
(* actions touch the variables of StoreInv.                                *)
(*                                                                         *)
(* JInv is about the replay of a pending reset and the live gate: job ids  *)
(* are handed out once, the replay is the only backfill job beside a       *)
(* pending reset, and the gate never stands beyond the cursor.  The two    *)
(* are inductive together: an owner that retires its job may publish the   *)
(* Current view, and only JInv says that no such job is left before the    *)
(* rewind of a pending reset.                                              *)
(***************************************************************************)
EXTENDS WalletActor, TLAPS

storeVars == <<life, gen, cursor, intent, pending, rewound, view, disk, utxos, missed, epoch,
               floor, nextIntent>>

Rows == [Block -> Nat \cup {NoRow}]

StoreType ==
  /\ life \in {"down", "prepared", "active"}
  /\ view \in {"Inactive", "ResetPending", "Current"}
  /\ gen \in Nat /\ intent \in Nat /\ nextIntent \in Nat /\ epoch \in Nat
  /\ cursor \in 0..MaxBlock
  /\ pending \in PendingReset /\ rewound \in BOOLEAN
  /\ disk \in [cursor : 0..MaxBlock, pending : PendingReset, intent : Nat, rows : Rows]
  /\ utxos \in Rows /\ missed \subseteq {"cursor", "rows"}
  /\ floor \in [Block -> Nat]
  /\ disk.pending # NoReset => disk.pending.from >= 1

\* A row older than its block's last reset lies in the range the store's record
\* still asks to rewind.
Covered(rows) ==
  \A b \in Block :
    rows[b] # NoRow /\ rows[b] < floor[b] => disk.pending # NoReset /\ b >= disk.pending.from
StaleIsCovered == Covered(disk.rows) /\ Covered(utxos)

\* The rows in memory are those of the store, unless a registration could not
\* read them, and lie below the checkpoint, unless one could not read that.
HeldInv ==
  /\ life # "down" /\ "rows" \notin missed => utxos = disk.rows
  /\ "cursor" \notin missed =>
       \A b \in Start..MaxBlock : b > disk.cursor => utxos[b] = NoRow

\* How the view, the life and the pending reset go together.
ViewInv ==
  /\ life = "down" <=> view = "Inactive"
  /\ life = "down" => pending = NoReset
  /\ view = "Current" /\ pending # NoReset => rewound
  /\ view = "ResetPending" => pending # NoReset
  /\ rewound => pending # NoReset /\ view = "Current" /\ Fresh(disk.rows) /\ Fresh(utxos)

FloorInv == \A b \in Block : floor[b] <= epoch

StoreInv ==
  /\ StoreType /\ StaleIsCovered /\ HeldInv /\ ViewInv /\ FloorInv
  /\ MirrorsStore /\ CheckpointExact /\ IntentsMoveOn

\* A handler past its drive's rewind has a rewound pending reset; a Finish in
\* progress is of the current generation; events and tokens are well formed.
StepInv ==
  /\ step \in {"idle", "rewind", "admit", "retire", "handle"}
  /\ step # "idle" => life # "down"
  /\ step \in {"rewind", "admit", "retire"} => pending # NoReset
  /\ step \in {"admit", "retire"} => rewound
  /\ ev \in [kind : Kinds, id : Nat, gen : Nat, from : 0..MaxBlock, to : 0..MaxBlock,
             epoch : Nat]
  /\ ev.kind = "finish" => ev.gen = gen
  /\ nextJob \in Nat /\ orphan \in 0..MaxBlock
  /\ tokens \subseteq [id : Nat, gen : Nat, use : {"start", "reserve", "owner"},
                       target : 0..MaxBlock]

\* Everything recorded for a job is of the current generation.
GenInv ==
  /\ \A j \in jobs : j = [id |-> j.id, gen |-> gen, kind |-> j.kind, target |-> j.target]
  /\ \A f \in failures : f.gen = gen
  /\ progressReq = [gen |-> progressReq.gen, from |-> progressReq.from, to |-> progressReq.to]
  /\ progressReq # NoRange => progressReq.gen = gen
  /\ completionReq # NoDone => completionReq.gen = gen
  /\ life = "down" =>
       jobs = {} /\ failures = {} /\ progressReq = NoRange /\ completionReq = NoDone

\* Targets are block numbers, and the job of a Finish in progress is active.
JobsInv ==
  /\ completed \in 0..MaxBlock
  /\ \A j \in jobs : j.target \in 0..MaxBlock
  /\ ev.kind = "finish" => step # "idle" /\ \E j \in jobs : j.id = ev.id

IInv == StoreInv /\ StepInv /\ GenInv /\ JobsInv

\* Job ids are handed out once: whatever carries one has an older one.
IdsInv ==
  /\ nextJob \in Nat /\ nextJob >= 1
  /\ replay \in Nat /\ replay < nextJob
  /\ \A j \in jobs : j.id \in Nat /\ 1 <= j.id /\ j.id < nextJob
  /\ \A t \in tokens : t.id \in Nat /\ 1 <= t.id /\ t.id < nextJob
  /\ ev.kind \in {"start", "reserve"} => 1 <= ev.id /\ ev.id < nextJob

\* The replay of the pending reset is under way, or had nothing to do.
Replayed ==
  \/ \E j \in jobs : j.id = replay /\ j.kind = "Backfill" /\ j.target >= pending.target
  \/ pending.target > 0 /\ completed >= pending.target

\* While a reset is pending its replay is the only backfill job, there is none
\* before the rewind, and none beside a completed target; an admitted replay
\* reaches the plan's target.
ReplayInv ==
  /\ step = "rewind" => ~rewound
  /\ step = "admit" => replay = 0
  /\ step = "retire" => replay # 0
  /\ life = "down" => replay = 0 /\ completed = 0
  /\ pending # NoReset =>
       /\ \A j \in jobs :
            \/ j.kind = "Backfill" /\ j.id = replay
            \/ j.kind = "IndexedCatchUp" /\ j.id # replay
       /\ ~rewound => replay = 0 /\ completed = 0
       /\ completed # 0 => replay # 0 /\ BackfillJobs(jobs) = {}
       /\ replay # 0 => Replayed

\* No target is complete beyond the cursor (a rewind below the start block leaves
\* the cursor there, and then targets below that block need no scan).
Scanned(target) == target <= cursor \/ target < Start
GateInv ==
  /\ {complete, completed} \subseteq Nat
  /\ Scanned(complete) /\ Scanned(completed)
  /\ life = "down" => complete = 0

JInv == IdsInv /\ ReplayInv /\ GateInv

-----------------------------------------------------------------------------
(* Steps that leave the store, the cursor and the view alone.              *)

\* StoreInv speaks of storeVars only.
LEMMA StoreKept == ASSUME StoreInv, UNCHANGED storeVars PROVE StoreInv'
  BY Zenon DEF StoreInv, StoreType, StaleIsCovered, Covered, HeldInv, ViewInv, FloorInv,
         MirrorsStore, CheckpointExact, IntentsMoveOn, Fresh, storeVars

\* The step a drive starts with is one its reset is ready for.
LEMMA DriveStepReady ==
  ASSUME pending \in PendingReset, rewound \in BOOLEAN
  PROVE  /\ DriveStep \in {"rewind", "admit", "retire", "handle"}
         /\ DriveStep # "idle"
         /\ DriveStep \in {"rewind", "admit", "retire"} => pending # NoReset
         /\ DriveStep \in {"admit", "retire"} => rewound
  BY Zenon DEF DriveStep

\* What the assumptions on the constants say of the block numbers.
LEMMA Bounds ==
  /\ MaxBlock \in Nat /\ Start \in Nat /\ Start >= 1 /\ Start <= MaxBlock
  /\ Start - 1 \in 0..MaxBlock /\ 0 \in 0..MaxBlock
  /\ SyncTargets \subseteq 0..MaxBlock
  BY WalletAssumption

LEMMA Nothing == NoReset \in PendingReset
  BY Bounds, Zenon DEF NoReset, PendingReset

\* The initial state satisfies the invariant.
LEMMA WalletInit == Init => IInv
  <1> SUFFICES ASSUME Init PROVE IInv
    BY Zenon
  <1> USE Bounds, Nothing
  <1>1. StoreType
    <2>1. utxos \in Rows /\ missed \subseteq {"cursor", "rows"}
      BY Zenon DEF Init, NoRows, Rows
    <2>2. disk \in [cursor : 0..MaxBlock, pending : PendingReset, intent : Nat, rows : Rows]
      BY Zenon DEF Init, Rows, NoRow, Block
    <2> QED
      BY <2>1, <2>2, Zenon DEF Init, StoreType, NoRow, Block
  <1>2. StaleIsCovered /\ HeldInv
    BY DEF Init, StaleIsCovered, Covered, HeldInv, NoRow, NoRows, Block
  <1>3. ViewInv /\ FloorInv /\ MirrorsStore /\ IntentsMoveOn
    BY DEF Init, ViewInv, FloorInv, MirrorsStore, IntentsMoveOn, Block
  <1>4. CheckpointExact
    BY DEF Init, CheckpointExact, NoRow, Block
  <1>5. StepInv
    BY Zenon DEF Init, StepInv, NoEvent, Kinds
  <1>6. GenInv
    BY Zenon DEF Init, GenInv, NoRange, NoDone
  <1>7. JobsInv
    BY Zenon DEF Init, JobsInv, NoEvent
  <1> QED
    BY <1>1, <1>2, <1>3, <1>4, <1>5, <1>6, <1>7, Zenon DEF IInv, StoreInv


-----------------------------------------------------------------------------
(* Actions that leave the store alone, first those that leave the jobs too. *)

genVars == <<life, gen, jobs, failures, progressReq, completionReq>>

\* GenInv speaks of genVars only.
LEMMA GenKept == ASSUME GenInv, UNCHANGED genVars PROVE GenInv'
  BY Zenon DEF GenInv, genVars

\* A deferred rewind leaves the reset pending.
LEMMA KeepsRewindFails ==
  ASSUME IInv, RewindFails
  PROVE  IInv'
  <1> USE DEF RewindFails
  <1>1. UNCHANGED storeVars
    BY Zenon DEF storeVars, actorVars, loopVars, envVars, memVars, Takes, Finished, vars
  <1>2. StepInv'
    BY Zenon DEF IInv, StoreInv, StoreType, StepInv, actorVars, loopVars, envVars, Takes,
              Finished, NoEvent, Kinds
  <1>3. GenInv'
    BY GenKept, Zenon DEF IInv, genVars, actorVars, vars
  <1>4. JobsInv'
    BY Bounds, Zenon DEF IInv, JobsInv, actorVars, loopVars, Takes, Finished, LiveGate, NoEvent
  <1> HIDE DEF RewindFails
  <1> QED
    BY <1>1, <1>2, <1>3, <1>4, StoreKept, Zenon DEF IInv

\* The end of a handler that only drives.
LEMMA KeepsDriven ==
  ASSUME IInv, Driven
  PROVE  IInv'
  <1> USE DEF Driven
  <1>1. UNCHANGED storeVars
    BY Zenon DEF storeVars, actorVars, loopVars, envVars, memVars, Takes, Finished, vars
  <1>2. StepInv'
    BY Bounds, Zenon DEF IInv, StoreInv, StoreType, StepInv, actorVars, loopVars, envVars, Takes,
              Finished, NoEvent, Kinds
  <1>3. GenInv'
    BY GenKept, Zenon DEF IInv, genVars, actorVars, vars
  <1>4. JobsInv'
    BY Bounds, Zenon DEF IInv, JobsInv, actorVars, loopVars, Takes, Finished, LiveGate, NoEvent
  <1> HIDE DEF Driven
  <1> QED
    BY <1>1, <1>2, <1>3, <1>4, StoreKept, Zenon DEF IInv

\* Waiting changes nothing.
LEMMA KeepsWaits ==
  ASSUME IInv, Waits
  PROVE  IInv'
  <1> USE DEF Waits
  <1>1. UNCHANGED storeVars
    BY Zenon DEF storeVars, actorVars, loopVars, envVars, memVars, Takes, Finished, vars
  <1>2. StepInv'
    BY Zenon DEF IInv, StoreInv, StoreType, StepInv, actorVars, loopVars, envVars, Takes,
              Finished, NoEvent, Kinds, vars
  <1>3. GenInv'
    BY GenKept, Zenon DEF IInv, genVars, actorVars, vars
  <1>4. JobsInv'
    BY Bounds, Zenon DEF IInv, JobsInv, actorVars, loopVars, Takes, Finished, LiveGate, NoEvent,
       vars
  <1> HIDE DEF Waits
  <1> QED
    BY <1>1, <1>2, <1>3, <1>4, StoreKept, Zenon DEF IInv

\* The retry tick starts a drive.
LEMMA KeepsRetryTick ==
  ASSUME IInv, RetryTick
  PROVE  IInv'
  <1> USE DEF RetryTick
  <1>1. UNCHANGED storeVars
    BY Zenon DEF storeVars, actorVars, loopVars, envVars, memVars, Takes, Finished, vars
  <1>2. StepInv'
    BY Bounds, DriveStepReady, Zenon DEF IInv, StoreInv, StoreType, StepInv, actorVars, loopVars,
       envVars, Takes,
              Finished, NoEvent, Kinds
  <1>3. GenInv'
    BY GenKept, Zenon DEF IInv, genVars, actorVars, vars
  <1>4. JobsInv'
    BY Bounds, Zenon DEF IInv, JobsInv, actorVars, loopVars, Takes, Finished, LiveGate, NoEvent
  <1> HIDE DEF RetryTick
  <1> QED
    BY <1>1, <1>2, <1>3, <1>4, StoreKept, Zenon DEF IInv

\* A request enters its handler.
LEMMA KeepsTakeRequest ==
  ASSUME IInv, NEW t, TakeRequest(t)
  PROVE  IInv'
  <1> USE DEF TakeRequest
  <1>1. UNCHANGED storeVars
    BY Zenon DEF storeVars, actorVars, loopVars, envVars, memVars, Takes, Finished, vars
  <1>2. StepInv'
    <2>1. /\ t \in [id : Nat, gen : Nat, use : {"start", "reserve", "owner"},
                    target : 0..MaxBlock]
          /\ t.use \in {"start", "reserve"}
      BY Zenon DEF IInv, StepInv
    <2>2. /\ tokens' \subseteq tokens /\ UNCHANGED <<nextJob, orphan, gen, rewound>>
          /\ pending' = pending /\ life' = life /\ life # "down"
      BY Zenon DEF Takes, actorVars
    <2>3. CASE t.gen = gen
      <3>1. /\ step' = DriveStep
            /\ ev' = [kind |-> t.use, id |-> t.id, gen |-> t.gen, from |-> 0, to |-> t.target,
                      epoch |-> 0]
        BY <2>3, Zenon DEF NoEvent
      <3>2. /\ ev' \in [kind : Kinds, id : Nat, gen : Nat, from : 0..MaxBlock, to : 0..MaxBlock,
                        epoch : Nat]
            /\ ev'.kind # "finish"
        BY <2>1, <3>1, Bounds, Zenon DEF Kinds
      <3> HIDE DEF TakeRequest
      <3> QED
        BY <2>2, <3>1, <3>2, DriveStepReady, Zenon DEF IInv, StoreInv, StoreType, StepInv
    <2>4. CASE t.gen # gen
      BY <2>2, <2>4, Zenon DEF IInv, StepInv
    <2> QED
      BY <2>3, <2>4, Zenon
  <1>3. GenInv'
    BY GenKept, Zenon DEF IInv, genVars, actorVars, vars
  <1>4. JobsInv'
    BY Bounds, Zenon DEF IInv, JobsInv, actorVars, loopVars, Takes, Finished, LiveGate, NoEvent
  <1> HIDE DEF TakeRequest
  <1> QED
    BY <1>1, <1>2, <1>3, <1>4, StoreKept, Zenon DEF IInv

\* A refused request.
LEMMA KeepsRequestRefused ==
  ASSUME IInv, RequestRefused
  PROVE  IInv'
  <1> USE DEF RequestRefused
  <1>1. UNCHANGED storeVars
    BY Zenon DEF storeVars, actorVars, loopVars, envVars, memVars, Takes, Finished, vars
  <1>2. StepInv'
    BY Bounds, Zenon DEF IInv, StoreInv, StoreType, StepInv, actorVars, loopVars, envVars, Takes,
              Finished, NoEvent, Kinds
  <1>3. GenInv'
    BY GenKept, Zenon DEF IInv, genVars, actorVars, vars
  <1>4. JobsInv'
    BY Bounds, Zenon DEF IInv, JobsInv, actorVars, loopVars, Takes, Finished, LiveGate, NoEvent
  <1> HIDE DEF RequestRefused
  <1> QED
    BY <1>1, <1>2, <1>3, <1>4, StoreKept, Zenon DEF IInv

\* Rows enter their handler.
LEMMA KeepsTakeApply ==
  ASSUME IInv, NEW t, NEW from \in Block, NEW to \in Block, NEW e \in Nat, TakeApply(t, from, to, e)
  PROVE  IInv'
  <1> USE DEF TakeApply
  <1>1. UNCHANGED storeVars
    BY Zenon DEF storeVars, actorVars, loopVars, envVars, memVars, Takes, Finished, vars
  <1>2. StepInv'
    <2>1. /\ t \in tokens /\ life = "active" /\ step' = DriveStep
          /\ ev' = [kind |-> "apply", id |-> t.id, gen |-> t.gen, from |-> from, to |-> to,
                    epoch |-> e]
          /\ UNCHANGED <<life, gen, pending, rewound, nextJob, orphan, tokens>>
      BY Zenon DEF Takes, actorVars, envVars
    <2>3. t.id \in Nat /\ t.gen \in Nat /\ from \in 0..MaxBlock /\ to \in 0..MaxBlock
      BY <2>1, Bounds DEF IInv, StepInv, Block
    <2>4. /\ ev' \in [kind : Kinds, id : Nat, gen : Nat, from : 0..MaxBlock, to : 0..MaxBlock,
                      epoch : Nat]
          /\ ev'.kind # "finish"
      BY <2>1, <2>3 DEF Kinds
    <2>5. pending \in PendingReset /\ rewound \in BOOLEAN
      BY Zenon DEF IInv, StoreInv, StoreType
    <2> QED
      BY <2>1, <2>4, <2>5, DriveStepReady, Zenon DEF IInv, StepInv
  <1>3. GenInv'
    BY GenKept, Zenon DEF IInv, genVars, actorVars, vars
  <1>4. JobsInv'
    BY Bounds, Zenon DEF IInv, JobsInv, actorVars, loopVars, Takes, Finished, LiveGate, NoEvent
  <1> HIDE DEF TakeApply
  <1> QED
    BY <1>1, <1>2, <1>3, <1>4, StoreKept, Zenon DEF IInv

\* Refused rows.
LEMMA KeepsApplyRefused ==
  ASSUME IInv, ApplyRefused
  PROVE  IInv'
  <1> USE DEF ApplyRefused
  <1>1. UNCHANGED storeVars
    BY Zenon DEF storeVars, actorVars, loopVars, envVars, memVars, Takes, Finished, vars
  <1>2. StepInv'
    BY Bounds, Zenon DEF IInv, StoreInv, StoreType, StepInv, actorVars, loopVars, envVars, Takes,
              Finished, NoEvent, Kinds
  <1>3. GenInv'
    BY GenKept, Zenon DEF IInv, genVars, actorVars, vars
  <1>4. JobsInv'
    BY Bounds, Zenon DEF IInv, JobsInv, actorVars, loopVars, Takes, Finished, LiveGate, NoEvent
  <1> HIDE DEF ApplyRefused
  <1> QED
    BY <1>1, <1>2, <1>3, <1>4, StoreKept, Zenon DEF IInv

\* A Finish enters its handler with the current generation.
LEMMA KeepsTakeFinish ==
  ASSUME IInv, NEW t, NEW target \in SyncTargets, TakeFinish(t, target)
  PROVE  IInv'
  <1> USE DEF TakeFinish
  <1>1. UNCHANGED storeVars
    BY Zenon DEF storeVars, actorVars, loopVars, envVars, memVars, Takes, Finished, vars
  <1>2. StepInv'
    BY Bounds, DriveStepReady, Zenon DEF IInv, StoreInv, StoreType, StepInv, actorVars, loopVars,
       envVars, Takes,
              Finished, NoEvent, Kinds, ActiveBackfill
  <1>3. GenInv'
    BY GenKept, Zenon DEF IInv, genVars, actorVars, vars
  <1>4. JobsInv'
    <2>1. step' # "idle"
      BY DriveStepReady, Zenon DEF IInv, StoreInv, StoreType
    <2>2. ev' = [kind |-> "finish", id |-> t.id, gen |-> t.gen, from |-> 0, to |-> target,
                 epoch |-> 0]
      BY Zenon DEF NoEvent
    <2>3. \E j \in jobs : j.id = t.id
      BY Zenon DEF ActiveBackfill
    <2> QED
      BY <2>1, <2>2, <2>3, Zenon DEF actorVars, IInv, JobsInv
  <1> HIDE DEF TakeFinish
  <1> QED
    BY <1>1, <1>2, <1>3, <1>4, StoreKept, Zenon DEF IInv

\* A Finish that meets a pending reset.
LEMMA KeepsFinishWhilePending ==
  ASSUME IInv, FinishWhilePending
  PROVE  IInv'
  <1> USE DEF FinishWhilePending
  <1>1. UNCHANGED storeVars
    BY Zenon DEF storeVars, actorVars, loopVars, envVars, memVars, Takes, Finished, vars
  <1>2. StepInv'
    BY Bounds, Zenon DEF IInv, StoreInv, StoreType, StepInv, actorVars, loopVars, envVars, Takes,
              Finished, NoEvent, Kinds
  <1>3. GenInv'
    BY GenKept, Zenon DEF IInv, genVars, actorVars, vars
  <1>4. JobsInv'
    BY Bounds, Zenon DEF IInv, JobsInv, actorVars, loopVars, Takes, Finished, LiveGate, NoEvent
  <1> HIDE DEF FinishWhilePending
  <1> QED
    BY <1>1, <1>2, <1>3, <1>4, StoreKept, Zenon DEF IInv

\* A caller mints a token.
LEMMA KeepsRequest ==
  ASSUME IInv, NEW use \in {"start", "reserve"}, NEW target \in SyncTargets, Request(use, target)
  PROVE  IInv'
  <1> USE DEF Request
  <1>1. UNCHANGED storeVars
    BY Zenon DEF storeVars, actorVars, loopVars, envVars, memVars, Takes, Finished, vars
  <1>2. StepInv'
    BY Bounds DEF IInv, StoreInv, StoreType, StepInv, actorVars, loopVars, envVars, Takes,
              Finished, NoEvent, Kinds
  <1>3. GenInv'
    BY GenKept, Zenon DEF IInv, genVars, actorVars, vars
  <1>4. JobsInv'
    BY Bounds, Zenon DEF IInv, JobsInv, actorVars, loopVars, Takes, Finished, LiveGate, NoEvent
  <1> HIDE DEF Request
  <1> QED
    BY <1>1, <1>2, <1>3, <1>4, StoreKept, Zenon DEF IInv

\* A reorganisation without a registered wallet.
LEMMA KeepsReorgUnseen ==
  ASSUME IInv, ReorgUnseen
  PROVE  IInv'
  <1> USE DEF ReorgUnseen
  <1>1. UNCHANGED storeVars
    BY Zenon DEF storeVars, actorVars, loopVars, envVars, memVars, Takes, Finished, vars
  <1>2. StepInv'
    BY Bounds, Zenon DEF IInv, StoreInv, StoreType, StepInv, actorVars, loopVars, envVars, Takes,
              Finished, NoEvent, Kinds
  <1>3. GenInv'
    BY GenKept, Zenon DEF IInv, genVars, actorVars, vars
  <1>4. JobsInv'
    BY Bounds, Zenon DEF IInv, JobsInv, actorVars, loopVars, Takes, Finished, LiveGate, NoEvent
  <1> HIDE DEF ReorgUnseen
  <1> QED
    BY <1>1, <1>2, <1>3, <1>4, StoreKept, Zenon DEF IInv

-----------------------------------------------------------------------------
(* Actions that leave the store alone and change the jobs.                 *)

\* A replay that is already covered.
LEMMA KeepsAdmitCompleted ==
  ASSUME IInv, AdmitCompleted
  PROVE  IInv'
  <1> USE DEF AdmitCompleted
  <1>1. UNCHANGED storeVars
    BY Zenon DEF storeVars, actorVars, loopVars, envVars, memVars, Takes, Finished, LiveGate
  <1>2. StepInv'
    BY DEF IInv, StoreInv, StoreType, StepInv, actorVars, loopVars, envVars, Takes,
              Finished, NoEvent, Kinds
  <1>3. GenInv'
    BY Zenon DEF IInv, GenInv, StepInv, Takes, LiveGate
  <1>4. JobsInv'
    BY Bounds, Zenon DEF IInv, JobsInv, actorVars, loopVars, Takes, Finished, LiveGate, NoEvent,
       StoreInv, StoreType, PendingReset, Larger
  <1> HIDE DEF AdmitCompleted
  <1> QED
    BY <1>1, <1>2, <1>3, <1>4, StoreKept, Zenon DEF IInv

\* A queued replay job.
LEMMA KeepsAdmitQueued ==
  ASSUME IInv, AdmitQueued
  PROVE  IInv'
  <1> USE DEF AdmitQueued
  <1>1. UNCHANGED storeVars
    BY Zenon DEF storeVars, actorVars, loopVars, envVars, memVars, Takes, Finished, LiveGate
  <1>2. StepInv'
    BY Bounds DEF IInv, StoreInv, StoreType, StepInv, actorVars, loopVars, envVars, Takes,
              Finished, NoEvent, Kinds, Owner
  <1>3. GenInv'
    BY DEF IInv, GenInv, StepInv, Takes, LiveGate, FailuresAfterDispatch
  <1>4. JobsInv'
    BY Bounds DEF IInv, JobsInv, actorVars, loopVars, Takes, Finished, LiveGate, NoEvent,
       StoreInv, StoreType, PendingReset
  <1> HIDE DEF AdmitQueued
  <1> QED
    BY <1>1, <1>2, <1>3, <1>4, StoreKept, Zenon DEF IInv

\* A full queue fails the replay job.
LEMMA KeepsAdmitRefused ==
  ASSUME IInv, AdmitRefused
  PROVE  IInv'
  <1> USE DEF AdmitRefused
  <1>1. UNCHANGED storeVars
    BY Zenon DEF storeVars, actorVars, loopVars, envVars, memVars, Takes, Finished, LiveGate
  <1>2. StepInv'
    BY DEF IInv, StoreInv, StoreType, StepInv, actorVars, loopVars, envVars, Takes,
              Finished, NoEvent, Kinds
  <1>3. GenInv'
    BY DEF IInv, GenInv, StepInv, Takes, LiveGate, FailuresWith
  <1>4. JobsInv'
    BY Bounds, Zenon DEF IInv, JobsInv, actorVars, loopVars, Takes, Finished, LiveGate, NoEvent
  <1> HIDE DEF AdmitRefused
  <1> QED
    BY <1>1, <1>2, <1>3, <1>4, StoreKept, Zenon DEF IInv

\* A plan that stays on disk.
LEMMA KeepsRetirePlanFails ==
  ASSUME IInv, RetirePlanFails
  PROVE  IInv'
  <1> USE DEF RetirePlanFails
  <1>1. UNCHANGED storeVars
    BY Zenon DEF storeVars, actorVars, loopVars, envVars, memVars, Takes, Finished, LiveGate
  <1>2. StepInv'
    BY Zenon DEF IInv, StoreInv, StoreType, StepInv, actorVars, loopVars, envVars, Takes,
              Finished, NoEvent, Kinds
  <1>3. GenInv'
    BY Zenon DEF IInv, GenInv, StepInv, Takes, LiveGate
  <1>4. JobsInv'
    BY Bounds, Zenon DEF IInv, JobsInv, actorVars, loopVars, Takes, Finished, LiveGate, NoEvent
  <1> HIDE DEF RetirePlanFails
  <1> QED
    BY <1>1, <1>2, <1>3, <1>4, StoreKept, Zenon DEF IInv

\* An accepted backfill.
LEMMA KeepsStartAccepted ==
  ASSUME IInv, StartAccepted
  PROVE  IInv'
  <1> USE DEF StartAccepted
  <1>1. UNCHANGED storeVars
    BY Zenon DEF storeVars, actorVars, loopVars, envVars, memVars, Takes, Finished, LiveGate
  <1>2. StepInv'
    BY Bounds DEF IInv, StoreInv, StoreType, StepInv, actorVars, loopVars, envVars, Takes,
              Finished, NoEvent, Kinds, Owner
  <1>3. GenInv'
    BY DEF IInv, GenInv, StepInv, Takes, LiveGate, FailuresAfterDispatch
  <1>4. JobsInv'
    BY Bounds DEF IInv, JobsInv, actorVars, loopVars, Takes, Finished, LiveGate, NoEvent, StepInv
  <1> HIDE DEF StartAccepted
  <1> QED
    BY <1>1, <1>2, <1>3, <1>4, StoreKept, Zenon DEF IInv

\* An accepted sync target.
LEMMA KeepsReserveAccepted ==
  ASSUME IInv, ReserveAccepted
  PROVE  IInv'
  <1> USE DEF ReserveAccepted
  <1>1. UNCHANGED storeVars
    BY Zenon DEF storeVars, actorVars, loopVars, envVars, memVars, Takes, Finished, LiveGate
  <1>2. StepInv'
    BY Bounds DEF IInv, StoreInv, StoreType, StepInv, actorVars, loopVars, envVars, Takes,
              Finished, NoEvent, Kinds, Owner
  <1>3. GenInv'
    BY DEF IInv, GenInv, StepInv, Takes, LiveGate
  <1>4. JobsInv'
    BY Bounds DEF IInv, JobsInv, actorVars, loopVars, Takes, Finished, LiveGate, NoEvent, StepInv
  <1> HIDE DEF ReserveAccepted
  <1> QED
    BY <1>1, <1>2, <1>3, <1>4, StoreKept, Zenon DEF IInv

\* Rows that meet a pending reset retire their job.
LEMMA KeepsApplyWhilePending ==
  ASSUME IInv, ApplyWhilePending
  PROVE  IInv'
  <1> USE DEF ApplyWhilePending
  <1>1. UNCHANGED storeVars
    BY Zenon DEF storeVars, actorVars, loopVars, envVars, memVars, Takes, Finished, LiveGate
  <1>2. StepInv'
    BY Bounds, Zenon DEF IInv, StoreInv, StoreType, StepInv, actorVars, loopVars, envVars, Takes,
              Finished, NoEvent, Kinds
  <1>3. GenInv'
    BY Zenon DEF IInv, GenInv, StepInv, Takes, LiveGate, Without, BackfillJobs
  <1>4. JobsInv'
    BY Bounds, Zenon DEF IInv, JobsInv, actorVars, loopVars, Takes, Finished, LiveGate, NoEvent,
       Without
  <1> HIDE DEF ApplyWhilePending
  <1> QED
    BY <1>1, <1>2, <1>3, <1>4, StoreKept, Zenon DEF IInv

\* A failed scan commit is remembered for the current generation.
LEMMA KeepsApplyPersistFails ==
  ASSUME IInv, ApplyPersistFails
  PROVE  IInv'
  <1> USE DEF ApplyPersistFails
  <1>1. UNCHANGED storeVars
    BY Zenon DEF storeVars, actorVars, loopVars, envVars, memVars, Takes, Finished, LiveGate
  <1>2. StepInv'
    BY Bounds, Zenon DEF IInv, StoreInv, StoreType, StepInv, actorVars, loopVars, envVars, Takes,
              Finished, NoEvent, Kinds
  <1>3. GenInv'
    BY Zenon DEF IInv, GenInv, StepInv, Takes, LiveGate, ProgressFailed, ActiveBackfill, NoRange
  <1>4. JobsInv'
    BY Bounds, Zenon DEF IInv, JobsInv, actorVars, loopVars, Takes, Finished, LiveGate, NoEvent
  <1> HIDE DEF ApplyPersistFails
  <1> QED
    BY <1>1, <1>2, <1>3, <1>4, StoreKept, Zenon DEF IInv

\* The target a Finish has to reach is a block number.
LEMMA RequiredTargetType ==
  ASSUME IInv, ev.kind = "finish"
  PROVE  RequiredTarget \in 0..MaxBlock
  <1>1. PICK j \in jobs : j.id = ev.id
    BY Zenon DEF IInv, JobsInv
  <1>2. TargetOf(ev.id) \in 0..MaxBlock
    BY <1>1, Zenon DEF TargetOf, IInv, JobsInv
  <1>3. ev.to \in 0..MaxBlock
    BY Zenon DEF IInv, StepInv
  <1> QED
    BY <1>2, <1>3, Zenon DEF RequiredTarget, Larger

\* Raising the target of the job of a Finish keeps the targets block numbers.
LEMMA RaisedTargets ==
  ASSUME IInv, ev.kind = "finish"
  PROVE  \A j \in WithTarget : j.target \in 0..MaxBlock
  <1>1. RequiredTarget \in 0..MaxBlock
    BY RequiredTargetType
  <1>2. ASSUME NEW j \in jobs
        PROVE  /\ j.target \in 0..MaxBlock
               /\ [j EXCEPT !.target = RequiredTarget].target \in 0..MaxBlock
    BY <1>1, Zenon DEF IInv, JobsInv, GenInv
  <1> QED
    BY <1>2, Zenon DEF WithTarget

\* Nor does it touch anything else of the jobs.
LEMMA RaisedJobs ==
  ASSUME GenInv
  PROVE  \A k \in WithTarget :
           /\ k = [id |-> k.id, gen |-> gen, kind |-> k.kind, target |-> k.target]
           /\ \E j \in jobs : k.id = j.id /\ k.kind = j.kind
  <1> SUFFICES ASSUME NEW k \in WithTarget
               PROVE  /\ k = [id |-> k.id, gen |-> gen, kind |-> k.kind, target |-> k.target]
                      /\ \E j \in jobs : k.id = j.id /\ k.kind = j.kind
    BY Zenon
  <1>1. PICK j \in jobs : k = IF j.id = ev.id THEN [j EXCEPT !.target = RequiredTarget] ELSE j
    BY Zenon DEF WithTarget
  <1>2. j = [id |-> j.id, gen |-> gen, kind |-> j.kind, target |-> j.target]
    BY Zenon DEF GenInv
  <1>3. k \in {j, [id |-> j.id, gen |-> gen, kind |-> j.kind, target |-> RequiredTarget]}
    BY <1>1, <1>2
  <1> QED
    BY <1>2, <1>3

\* Writing the rows in memory to the store, and publishing them unless a rewind
\* is due, keeps the store's invariant.
LEMMA SnapshotWritten ==
  ASSUME StoreInv, life # "down", disk' \in {disk, [disk EXCEPT !.rows = utxos]},
         view' = view \/ (view' = "Current" /\ (pending = NoReset \/ rewound)),
         UNCHANGED <<life, gen, cursor, intent, pending, rewound, utxos, missed, epoch, floor,
                     nextIntent>>
  PROVE  StoreInv'
  <1>1. PICK rows \in {disk.rows, utxos} :
          disk' = [cursor |-> disk.cursor, pending |-> disk.pending, intent |-> disk.intent,
                   rows |-> rows]
    BY Zenon DEF StoreInv, StoreType
  <1>2. StoreType'
    BY <1>1, Zenon DEF StoreInv, StoreType
  <1>3. StaleIsCovered' /\ FloorInv'
    BY <1>1, Zenon DEF StoreInv, StaleIsCovered, Covered, FloorInv
  <1>4. HeldInv' /\ CheckpointExact'
    BY <1>1, Zenon DEF StoreInv, HeldInv, CheckpointExact
  <1>5. MirrorsStore' /\ IntentsMoveOn'
    BY <1>1, Zenon DEF StoreInv, MirrorsStore, IntentsMoveOn
  <1>6. ViewInv'
    BY <1>1, Zenon DEF StoreInv, ViewInv, Fresh
  <1> QED
    BY <1>2, <1>3, <1>4, <1>5, <1>6, Zenon DEF StoreInv

\* What a Finish may write.
LEMMA FinishStores ==
  ASSUME IInv, TargetReached, disk' \in {disk, [disk EXCEPT !.rows = utxos]},
         UNCHANGED <<life, gen, cursor, intent, pending, rewound, view, utxos, missed, epoch,
                     floor, nextIntent>>
  PROVE  StoreInv'
  BY SnapshotWritten, Zenon DEF IInv, StepInv, TargetReached

\* A Finish before its target raises the target.
LEMMA KeepsFinishTooEarly ==
  ASSUME IInv, FinishTooEarly
  PROVE  IInv'
  <1> USE DEF FinishTooEarly
  <1>1. UNCHANGED storeVars
    BY Zenon DEF storeVars, actorVars, loopVars, envVars, memVars, Takes, Finished, LiveGate
  <1>2. StepInv'
    BY Bounds, Zenon DEF IInv, StoreInv, StoreType, StepInv, actorVars, loopVars, envVars, Takes,
              Finished, NoEvent, Kinds
  <1>3. GenInv'
    BY RaisedJobs, Zenon DEF IInv, GenInv, StepInv
  <1>4. JobsInv'
    <2>1. /\ RequiredTarget \in 0..MaxBlock /\ UNCHANGED completed /\ ev'.kind # "finish"
          /\ jobs' = WithTarget
      BY RequiredTargetType, Zenon DEF Finished, NoEvent
    <2> QED
      BY <2>1, RaisedTargets, Zenon DEF IInv, JobsInv
  <1> HIDE DEF FinishTooEarly
  <1> QED
    BY <1>1, <1>2, <1>3, <1>4, StoreKept, Zenon DEF IInv

\* A completed backfill.
LEMMA KeepsFinishCompletes ==
  ASSUME IInv, FinishCompletes
  PROVE  IInv'
  <1> USE DEF FinishCompletes, TargetReached, SnapshotStored, RefreshMayFail
  <1>1. StoreInv'
    BY FinishStores, Zenon DEF IInv, envVars, memVars
  <1>2. StepInv'
    BY Bounds, Zenon DEF IInv, StoreInv, StoreType, StepInv, envVars, Finished, NoEvent, Kinds
  <1>3. GenInv'
    BY Zenon DEF IInv, GenInv, StepInv, Without, CompletionCommitted
  <1>4. JobsInv'
    <2>1. /\ RequiredTarget \in 0..MaxBlock /\ completed' = Larger(completed, RequiredTarget)
          /\ ev'.kind # "finish" /\ jobs' \subseteq jobs
      BY RequiredTargetType, Zenon DEF Finished, NoEvent, Without
    <2> QED
      BY <2>1, Zenon DEF IInv, JobsInv, Larger
  <1> HIDE DEF FinishCompletes, TargetReached, SnapshotStored, RefreshMayFail
  <1> QED
    BY <1>1, <1>2, <1>3, <1>4, Zenon DEF IInv

\* A Finish that met a new corpus revision keeps its job.
LEMMA KeepsFinishCorpusMoved ==
  ASSUME IInv, FinishCorpusMoved
  PROVE  IInv'
  <1> USE DEF FinishCorpusMoved, TargetReached, SnapshotStored, RefreshMayFail
  <1>1. StoreInv'
    BY FinishStores, Zenon DEF IInv, envVars, memVars
  <1>2. StepInv'
    BY Bounds, Zenon DEF IInv, StoreInv, StoreType, StepInv, envVars, Finished, NoEvent, Kinds
  <1>3. GenInv'
    BY RaisedJobs, Zenon DEF IInv, GenInv, StepInv, CompletionCommitted
  <1>4. JobsInv'
    <2>1. /\ RequiredTarget \in 0..MaxBlock /\ UNCHANGED completed /\ ev'.kind # "finish"
          /\ jobs' = WithTarget
      BY RequiredTargetType, Zenon DEF Finished, NoEvent
    <2> QED
      BY <2>1, RaisedTargets, Zenon DEF IInv, JobsInv
  <1> HIDE DEF FinishCorpusMoved, TargetReached, SnapshotStored, RefreshMayFail
  <1> QED
    BY <1>1, <1>2, <1>3, <1>4, Zenon DEF IInv

\* A rejected Finish retires its job.
LEMMA KeepsFinishRejected ==
  ASSUME IInv, FinishRejected
  PROVE  IInv'
  <1> USE DEF FinishRejected, TargetReached, SnapshotStored, RefreshMayFail
  <1>1. StoreInv'
    BY FinishStores, Zenon DEF IInv, envVars, memVars
  <1>2. StepInv'
    BY Bounds, Zenon DEF IInv, StoreInv, StoreType, StepInv, envVars, Finished, NoEvent, Kinds
  <1>3. GenInv'
    BY Zenon DEF IInv, GenInv, StepInv, Without, CompletionCommitted
  <1>4. JobsInv'
    BY Zenon DEF IInv, JobsInv, Finished, NoEvent, Without
  <1> HIDE DEF FinishRejected, TargetReached, SnapshotStored, RefreshMayFail
  <1> QED
    BY <1>1, <1>2, <1>3, <1>4, Zenon DEF IInv

\* A completion that could not be written is remembered.
LEMMA KeepsFinishPersistFails ==
  ASSUME IInv, FinishPersistFails
  PROVE  IInv'
  <1> USE DEF FinishPersistFails, TargetReached
  <1>1. StoreInv'
    BY FinishStores, Zenon DEF IInv, envVars, memVars
  <1>2. StepInv'
    BY Bounds, Zenon DEF IInv, StoreInv, StoreType, StepInv, envVars, Finished, NoEvent, Kinds
  <1>3. GenInv'
    <2>1. completionReq' # NoDone => completionReq'.gen = gen
      BY DEF IInv, GenInv, StepInv, CompletionFailed, CompletionCommitted
    <2> QED
      BY <2>1, RaisedJobs, Zenon DEF IInv, GenInv, StepInv
  <1>4. JobsInv'
    <2>1. /\ RequiredTarget \in 0..MaxBlock /\ UNCHANGED completed /\ ev'.kind # "finish"
          /\ jobs' = WithTarget
      BY RequiredTargetType, Zenon DEF Finished, NoEvent
    <2> QED
      BY <2>1, RaisedTargets, Zenon DEF IInv, JobsInv
  <1> HIDE DEF FinishPersistFails, TargetReached
  <1> QED
    BY <1>1, <1>2, <1>3, <1>4, Zenon DEF IInv

\* A failed backfill.
LEMMA KeepsJobFailed ==
  ASSUME IInv, NEW t, JobFailed(t)
  PROVE  IInv'
  <1> USE DEF JobFailed
  <1>1. UNCHANGED storeVars
    BY Zenon DEF storeVars, actorVars, loopVars, envVars, memVars, Takes, Finished, LiveGate
  <1>2. StepInv'
    BY Zenon DEF IInv, StoreInv, StoreType, StepInv, actorVars, loopVars, envVars, Takes,
              Finished, NoEvent, Kinds
  <1>3. GenInv'
    BY DEF IInv, GenInv, StepInv, Takes, LiveGate, Without, BackfillJobs, FailuresWith,
       ActiveBackfill
  <1>4. JobsInv'
    BY Bounds, Zenon DEF IInv, JobsInv, actorVars, loopVars, Takes, Finished, LiveGate, NoEvent,
       Without
  <1> HIDE DEF JobFailed
  <1> QED
    BY <1>1, <1>2, <1>3, <1>4, StoreKept, Zenon DEF IInv

\* A retired job.
LEMMA KeepsOwnerRetires ==
  ASSUME IInv, JInv, NEW t, OwnerRetires(t)
  PROVE  IInv'
  <1> USE DEF OwnerRetires
  <1>1. StoreInv'
    <2>1. /\ life # "down"
          /\ UNCHANGED <<life, gen, cursor, intent, pending, rewound, utxos, missed, epoch, floor,
                         nextIntent>>
          /\ \/ UNCHANGED <<disk, view>>
             \/ disk' = [disk EXCEPT !.rows = utxos] /\ view' = "Current"
      BY Zenon DEF Takes, StatusesRefreshed, envVars, memVars
    <2>2. pending = NoReset \/ rewound
      <3>1. PICK j \in jobs : j.id = t.id /\ j.kind # "IndexedCatchUp" /\ 1 <= j.id
        BY Zenon DEF ActiveJob, JInv, IdsInv
      <3>2. pending # NoReset /\ ~rewound => j.id = replay /\ replay = 0
        BY <3>1, Zenon DEF JInv, ReplayInv
      <3> QED
        BY <3>1, <3>2
    <2> HIDE DEF OwnerRetires
    <2> QED
      BY <2>1, <2>2, SnapshotWritten, Zenon DEF IInv
  <1>2. StepInv'
    BY Zenon DEF IInv, StoreInv, StoreType, StepInv, actorVars, loopVars, envVars, Takes,
              Finished, NoEvent, Kinds
  <1>3. GenInv'
    BY Zenon DEF IInv, GenInv, StepInv, Takes, LiveGate, Without, BackfillJobs
  <1>4. JobsInv'
    BY Bounds, Zenon DEF IInv, JobsInv, actorVars, loopVars, Takes, Finished, LiveGate, NoEvent,
       Without
  <1> HIDE DEF OwnerRetires
  <1> QED
    BY <1>1, <1>2, <1>3, <1>4, Zenon DEF IInv

\* A refresh of POI statuses.
LEMMA KeepsPoiRefresh ==
  ASSUME IInv, PoiRefresh
  PROVE  IInv'
  <1> USE DEF PoiRefresh
  <1>1. StoreInv'
    <2>1. /\ life # "down" /\ pending = NoReset
          /\ UNCHANGED <<life, gen, cursor, intent, pending, rewound, utxos, missed, epoch, floor,
                         nextIntent>>
          /\ \/ UNCHANGED <<disk, view>>
             \/ disk' = [disk EXCEPT !.rows = utxos] /\ view' = "Current"
      BY Zenon DEF Takes, StatusesRefreshed, actorVars, envVars, memVars
    <2> HIDE DEF PoiRefresh
    <2> QED
      BY <2>1, SnapshotWritten, Zenon DEF IInv
  <1>2. StepInv' /\ JobsInv'
    BY Zenon DEF IInv, StepInv, JobsInv, actorVars, envVars
  <1>3. GenInv'
    BY GenKept, Zenon DEF IInv, genVars, actorVars
  <1> HIDE DEF PoiRefresh
  <1> QED
    BY <1>1, <1>2, <1>3, Zenon DEF IInv

\* A delta of the POI maintenance task.
LEMMA KeepsPoiDelta ==
  ASSUME IInv, PoiDelta
  PROVE  IInv'
  <1> USE DEF PoiDelta
  <1>1. StoreInv'
    <2>1. /\ life # "down" /\ disk' = [disk EXCEPT !.rows = utxos]
          /\ UNCHANGED <<life, gen, cursor, intent, pending, rewound, view, utxos, missed, epoch,
                         floor, nextIntent>>
      BY Zenon DEF Takes, actorVars, envVars, memVars
    <2> HIDE DEF PoiDelta
    <2> QED
      BY <2>1, SnapshotWritten, Zenon DEF IInv
  <1>2. StepInv' /\ JobsInv'
    BY Zenon DEF IInv, StepInv, JobsInv, actorVars, loopVars, envVars
  <1>3. GenInv'
    BY GenKept, Zenon DEF IInv, genVars, actorVars
  <1> HIDE DEF PoiDelta
  <1> QED
    BY <1>1, <1>2, <1>3, Zenon DEF IInv

\* A lost driver.
LEMMA KeepsDriverLost ==
  ASSUME IInv, NEW t, DriverLost(t)
  PROVE  IInv'
  <1> USE DEF DriverLost
  <1>1. UNCHANGED storeVars
    BY Zenon DEF storeVars, actorVars, loopVars, envVars, memVars, Takes, Finished, LiveGate
  <1>2. StepInv'
    BY Zenon DEF IInv, StoreInv, StoreType, StepInv, actorVars, loopVars, envVars, Takes,
              Finished, NoEvent, Kinds
  <1>3. GenInv'
    BY DEF IInv, GenInv, StepInv, Takes, LiveGate, Without, BackfillJobs, FailuresWith,
       ActiveBackfill
  <1>4. JobsInv'
    BY Bounds, Zenon DEF IInv, JobsInv, actorVars, loopVars, Takes, Finished, LiveGate, NoEvent,
       Without
  <1> HIDE DEF DriverLost
  <1> QED
    BY <1>1, <1>2, <1>3, <1>4, StoreKept, Zenon DEF IInv

\* An indexed catch-up.
LEMMA KeepsClaimCatchUp ==
  ASSUME IInv, ClaimCatchUp
  PROVE  IInv'
  <1> USE DEF ClaimCatchUp
  <1>1. UNCHANGED storeVars
    BY Zenon DEF storeVars, actorVars, loopVars, envVars, memVars, Takes, Finished, LiveGate
  <1>2. StepInv'
    BY Bounds DEF IInv, StoreInv, StoreType, StepInv, actorVars, loopVars, envVars, Takes,
              Finished, NoEvent, Kinds, Owner
  <1>3. GenInv'
    BY DEF IInv, GenInv, StepInv, Takes, LiveGate
  <1>4. JobsInv'
    BY Bounds DEF IInv, JobsInv, actorVars, loopVars, Takes, Finished, LiveGate, NoEvent
  <1> HIDE DEF ClaimCatchUp
  <1> QED
    BY <1>1, <1>2, <1>3, <1>4, StoreKept, Zenon DEF IInv

\* The end of an indexed catch-up.
LEMMA KeepsCatchUpDropped ==
  ASSUME IInv, NEW t, CatchUpDropped(t)
  PROVE  IInv'
  <1> USE DEF CatchUpDropped
  <1>1. UNCHANGED storeVars
    BY Zenon DEF storeVars, actorVars, loopVars, envVars, memVars, Takes, Finished, LiveGate
  <1>2. StepInv'
    BY Zenon DEF IInv, StoreInv, StoreType, StepInv, actorVars, loopVars, envVars, Takes,
              Finished, NoEvent, Kinds
  <1>3. GenInv'
    BY Zenon DEF IInv, GenInv, StepInv, Takes, LiveGate, Without, BackfillJobs
  <1>4. JobsInv'
    BY Bounds, Zenon DEF IInv, JobsInv, actorVars, loopVars, Takes, Finished, LiveGate, NoEvent,
       Without
  <1> HIDE DEF CatchUpDropped
  <1> QED
    BY <1>1, <1>2, <1>3, <1>4, StoreKept, Zenon DEF IInv

\* A gap before a live batch.
LEMMA KeepsLiveGap ==
  ASSUME IInv, NEW from \in Block, NEW to \in Block, LiveGap(from, to)
  PROVE  IInv'
  <1> USE DEF LiveGap
  <1>1. UNCHANGED storeVars
    BY Zenon DEF storeVars, actorVars, loopVars, envVars, memVars, Takes, Finished, LiveGate
  <1>2. StepInv'
    BY Bounds DEF IInv, StoreInv, StoreType, StepInv, actorVars, loopVars, envVars, Takes,
              Finished, NoEvent, Kinds, Owner, LiveGate
  <1>3. GenInv'
    BY DEF IInv, GenInv, StepInv, Takes, LiveGate, FailuresAfterDispatch, FailuresWith
  <1>4. JobsInv'
    BY Bounds DEF IInv, JobsInv, actorVars, loopVars, Takes, Finished, LiveGate, NoEvent, Block
  <1> HIDE DEF LiveGap
  <1> QED
    BY <1>1, <1>2, <1>3, <1>4, StoreKept, Zenon DEF IInv

\* A live batch that could not be written.
LEMMA KeepsLivePersistFails ==
  ASSUME IInv, NEW to \in Block, LivePersistFails(to)
  PROVE  IInv'
  <1> USE DEF LivePersistFails
  <1>1. UNCHANGED storeVars
    BY Zenon DEF storeVars, actorVars, loopVars, envVars, memVars, Takes, Finished, LiveGate
  <1>2. StepInv'
    BY Bounds DEF IInv, StoreInv, StoreType, StepInv, actorVars, loopVars, envVars, Takes,
              Finished, NoEvent, Kinds, Owner, LiveGate
  <1>3. GenInv'
    BY DEF IInv, GenInv, StepInv, Takes, LiveGate, FailuresAfterDispatch, FailuresWith,
       ProgressFailed, NoRange
  <1>4. JobsInv'
    BY Bounds DEF IInv, JobsInv, actorVars, loopVars, Takes, Finished, LiveGate, NoEvent, Block
  <1> HIDE DEF LivePersistFails
  <1> QED
    BY <1>1, <1>2, <1>3, <1>4, StoreKept, Zenon DEF IInv

-----------------------------------------------------------------------------
(* Actions that change the store, the view or the life of the actor.       *)

\* A rewind drops every stale row and moves cursor and checkpoint together.
LEMMA KeepsRewindCommits ==
  ASSUME IInv, RewindCommits
  PROVE  IInv'
  <1>1. /\ pending # NoReset /\ life # "down" /\ disk.pending = pending
        /\ pending.from \in 0..MaxBlock /\ cursor \in 0..MaxBlock /\ intent = disk.intent
    BY Zenon DEF IInv, StoreInv, StoreType, StepInv, RewindCommits, MirrorsStore, PendingReset
  <1> DEFINE kept == [b \in Block |-> IF b < pending.from THEN utxos[b] ELSE NoRow]
  <1>2. /\ disk' = [cursor |-> RewoundTo, pending |-> pending, intent |-> intent, rows |-> kept]
        /\ utxos' = kept
        /\ cursor' = RewoundTo /\ rewound' = TRUE /\ view' = "Current"
        /\ UNCHANGED <<life, gen, intent, pending, missed, epoch, floor, nextIntent>>
    BY Zenon DEF RewindCommits, IInv, StoreInv, StoreType, envVars
  <1>3. pending.from >= 1
    BY <1>1, Zenon DEF IInv, StoreInv, StoreType
  <1>4. /\ RewoundTo \in 0..MaxBlock /\ RewoundTo <= pending.from - 1 /\ RewoundTo <= cursor
        /\ RewoundTo = cursor \/ RewoundTo = pending.from - 1
    BY <1>1, <1>3, Bounds DEF RewoundTo, Smaller
  <1>5. /\ kept \in Rows
        /\ \A b \in Block : kept[b] # NoRow => b < pending.from /\ kept[b] = utxos[b]
        /\ \A b \in Block : b < pending.from => kept[b] = utxos[b]
    BY Zenon DEF Rows, IInv, StoreInv, StoreType
  <1> HIDE DEF kept
  <1>6. StoreType'
    BY <1>1, <1>2, <1>3, <1>4, <1>5, Zenon DEF IInv, StoreInv, StoreType
  <1>7. \A b \in Block : kept[b] # NoRow => kept[b] >= floor[b] /\ ~(kept[b] < floor[b])
    <2> SUFFICES ASSUME NEW b \in Block, kept[b] # NoRow
                 PROVE  kept[b] >= floor[b] /\ ~(kept[b] < floor[b])
      BY Zenon
    <2>1. b < pending.from /\ kept[b] = utxos[b]
      BY <1>5, Zenon
    <2>2. b \in Nat /\ floor[b] \in Nat /\ utxos[b] \in Nat
      BY <2>1, Bounds DEF Block, IInv, StoreInv, StoreType, NoRow, Rows
    <2> QED
      BY <1>1, <2>1, <2>2 DEF IInv, StoreInv, StaleIsCovered, Covered
  <1>8. StaleIsCovered' /\ Fresh(disk.rows)' /\ Fresh(utxos)'
    BY <1>2, <1>7, Zenon DEF StaleIsCovered, Covered, Fresh
  <1>9. ViewInv' /\ FloorInv' /\ MirrorsStore' /\ IntentsMoveOn'
    BY <1>1, <1>2, <1>8, Zenon DEF IInv, StoreInv, ViewInv, FloorInv, MirrorsStore, IntentsMoveOn
  <1>10. ASSUME NEW b \in Start..MaxBlock
         PROVE  /\ b <= RewoundTo /\ "rows" \notin missed => kept[b] # NoRow
                /\ b > RewoundTo /\ "cursor" \notin missed => kept[b] = NoRow
    <2>1. b \in Block /\ b \in Nat /\ b >= Start
      BY Bounds DEF Block
    <2>2. /\ b <= disk.cursor /\ "rows" \notin missed => utxos[b] # NoRow
          /\ b > disk.cursor /\ "cursor" \notin missed => utxos[b] = NoRow
      BY <1>1, Zenon DEF IInv, StoreInv, CheckpointExact, HeldInv
    <2>3. /\ b <= cursor => b <= disk.cursor
          /\ b > cursor /\ "cursor" \notin missed => b > disk.cursor
      BY <1>1, <2>1, Bounds DEF IInv, StoreInv, StoreType, MirrorsStore
    <2>4. CASE b < pending.from
      BY <1>1, <1>4, <1>5, <2>1, <2>2, <2>3, <2>4
    <2>5. CASE ~(b < pending.from)
      BY <1>1, <1>4, <1>5, <2>1, <2>5
    <2> QED
      BY <2>4, <2>5, Zenon
  <1>11. CheckpointExact' /\ HeldInv'
    BY <1>2, <1>10, Zenon DEF CheckpointExact, HeldInv
  <1>12. StepInv'
    <2>1. step' \in {"handle", "admit", "retire"} /\ UNCHANGED <<ev, nextJob, tokens, orphan>>
      BY Zenon DEF RewindCommits, envVars
    <2> QED
      BY <1>1, <1>2, <2>1, Zenon DEF IInv, StepInv
  <1>13. GenInv'
    BY GenKept, Zenon DEF RewindCommits, IInv, genVars
  <1>14. JobsInv'
    BY Zenon DEF RewindCommits, IInv, JobsInv
  <1> QED
    BY <1>6, <1>8, <1>9, <1>11, <1>12, <1>13, <1>14, Zenon DEF IInv, StoreInv

\* The plan is retired only with a rewound, hence fresh, cache.
LEMMA KeepsRetirePlan ==
  ASSUME IInv, RetirePlan
  PROVE  IInv'
  <1>1. /\ pending # NoReset /\ life # "down" /\ rewound
        /\ Fresh(disk.rows) /\ Fresh(utxos)
    BY Zenon DEF IInv, StoreInv, ViewInv, StepInv, RetirePlan
  <1>2. /\ disk' = [cursor |-> disk.cursor, pending |-> NoReset, intent |-> intent,
                    rows |-> disk.rows]
        /\ pending' = NoReset /\ rewound' = FALSE
        /\ UNCHANGED <<life, gen, intent, epoch, floor, nextIntent, cursor, view, utxos, missed>>
    BY Zenon DEF RetirePlan, IInv, StoreInv, StoreType, envVars, memVars
  <1>3. StoreType'
    BY <1>2, Nothing, Zenon DEF IInv, StoreInv, StoreType
  <1>4. StaleIsCovered'
    <2>1. ASSUME NEW rows \in Rows, Fresh(rows), NEW b \in Block, rows[b] # NoRow
          PROVE  ~(rows[b] < floor[b])
      <3>1. rows[b] \in Nat /\ floor[b] \in Nat /\ rows[b] >= floor[b]
        BY <2>1, Zenon DEF IInv, StoreInv, Fresh, StoreType, Rows, NoRow
      <3> QED
        BY <3>1
    <2>2. disk.rows \in Rows /\ utxos \in Rows
      BY Zenon DEF IInv, StoreInv, StoreType
    <2> QED
      BY <1>1, <1>2, <2>1, <2>2, Zenon DEF StaleIsCovered, Covered
  <1>5. ViewInv' /\ FloorInv' /\ MirrorsStore' /\ IntentsMoveOn'
    <2>1. view # "ResetPending"
      BY <1>1, Zenon DEF IInv, StoreInv, ViewInv
    <2> QED
      BY <1>1, <1>2, <2>1, Zenon DEF IInv, StoreInv, ViewInv, FloorInv, MirrorsStore, IntentsMoveOn
  <1>6. CheckpointExact' /\ HeldInv'
    BY <1>2, Zenon DEF IInv, StoreInv, CheckpointExact, HeldInv
  <1>7. StepInv'
    BY <1>1, <1>2, Zenon DEF RetirePlan, envVars, IInv, StepInv
  <1>8. GenInv'
    BY GenKept, Zenon DEF RetirePlan, IInv, genVars
  <1>9. JobsInv'
    BY Zenon DEF RetirePlan, IInv, JobsInv
  <1> QED
    BY <1>3, <1>4, <1>5, <1>6, <1>7, <1>8, <1>9, Zenon DEF IInv, StoreInv

\* A registration restores the cursor, the rows and the reset from the store, or
\* goes on without what it could not read.
LEMMA KeepsRegister ==
  ASSUME IInv, NEW lost \in SUBSET CanLose, Register(lost)
  PROVE  IInv'
  <1>1. /\ life = "down" /\ pending = NoReset /\ ~rewound /\ life' = "prepared"
        /\ intent' = disk.intent
        /\ pending' = disk.pending /\ nextIntent' = IntentFloor /\ rewound' = rewound
        /\ view' = IF disk.pending # NoReset THEN "ResetPending" ELSE "Current"
        /\ UNCHANGED <<disk, epoch, floor>>
        /\ gen' = IF disk.pending # NoReset THEN 1 ELSE 0
    BY Zenon DEF Register, IInv, StoreInv, ViewInv
  <1>2. /\ cursor' = IF "cursor" \in lost THEN Start - 1 ELSE Larger(disk.cursor, Start - 1)
        /\ utxos' = IF "rows" \in lost THEN NoRows ELSE disk.rows
        /\ missed' = missed \cup lost /\ lost \subseteq {"cursor", "rows"}
    BY Zenon DEF Register, CanLose
  <1>3. StoreType'
    <2>1. /\ NoRows \in Rows /\ disk.rows \in Rows /\ missed \subseteq {"cursor", "rows"}
          /\ pending' \in PendingReset
      BY <1>1, Zenon DEF NoRows, Rows, IInv, StoreInv, StoreType
    <2>2. utxos' \in Rows /\ missed' \subseteq {"cursor", "rows"}
      BY <1>2, <2>1, Zenon
    <2>3. cursor' \in 0..MaxBlock
      BY <1>2, Bounds DEF IInv, StoreInv, StoreType, Larger
    <2>4. gen' \in Nat /\ intent' \in Nat /\ nextIntent' \in Nat
      BY <1>1 DEF IInv, StoreInv, StoreType, IntentFloor, Larger
    <2> QED
      BY <1>1, <2>1, <2>2, <2>3, <2>4, Zenon DEF IInv, StoreInv, StoreType
  <1>4. \A b \in Block : NoRows[b] = NoRow
    BY Zenon DEF NoRows
  <1>5. StaleIsCovered' /\ FloorInv' /\ CheckpointExact'
    BY <1>1, <1>2, <1>4, Zenon DEF IInv, StoreInv, StaleIsCovered, Covered, FloorInv,
       CheckpointExact
  <1>6. HeldInv'
    <2>1. \A b \in Start..MaxBlock : b \in Block
      BY Bounds DEF Block
    <2> QED
      BY <1>1, <1>2, <1>4, <2>1, Zenon DEF IInv, StoreInv, HeldInv, CheckpointExact
  <1>7. ViewInv'
    BY <1>1, Zenon DEF IInv, StoreInv, ViewInv
  <1>8. MirrorsStore'
    BY <1>1, <1>2, Bounds DEF IInv, StoreInv, StoreType, MirrorsStore, Larger
  <1>9. IntentsMoveOn'
    BY <1>1 DEF IInv, StoreInv, StoreType, IntentsMoveOn, IntentFloor, Larger
  <1>10. StepInv'
    BY <1>1, Bounds, Zenon DEF Register, IInv, StepInv, NoEvent, Kinds
  <1>11. GenInv'
    BY <1>1, Zenon DEF Register, IInv, GenInv
  <1>12. JobsInv'
    BY Zenon DEF Register, NoEvent, IInv, JobsInv
  <1> QED
    BY <1>3, <1>5, <1>6, <1>7, <1>8, <1>9, <1>10, <1>11, <1>12, Zenon DEF IInv, StoreInv

\* The prepared actor becomes active.
LEMMA KeepsActivate ==
  ASSUME IInv, Activate
  PROVE  IInv'
  <1>1. /\ life = "prepared" /\ life' = "active"
        /\ UNCHANGED <<gen, cursor, intent, pending, rewound, view, disk, utxos, missed, epoch,
                       floor, nextIntent>>
    BY Zenon DEF Activate, actorVars, envVars, memVars
  <1>2. StoreType' /\ StaleIsCovered' /\ HeldInv' /\ FloorInv' /\ CheckpointExact'
    BY <1>1, Zenon DEF IInv, StoreInv, StoreType, StaleIsCovered, Covered, HeldInv, FloorInv,
       CheckpointExact
  <1>3. ViewInv' /\ MirrorsStore' /\ IntentsMoveOn'
    BY <1>1, Zenon DEF IInv, StoreInv, ViewInv, Fresh, MirrorsStore, IntentsMoveOn
  <1>4. StepInv'
    BY <1>1, Bounds, DriveStepReady
    DEF Activate, actorVars, envVars, IInv, StoreInv, StoreType, StepInv, NoEvent, Kinds
  <1>5. GenInv'
    BY <1>1, Zenon DEF Activate, actorVars, IInv, GenInv
  <1>6. JobsInv'
    BY Zenon DEF Activate, actorVars, NoEvent, IInv, JobsInv
  <1> QED
    BY <1>2, <1>3, <1>4, <1>5, <1>6, Zenon DEF IInv, StoreInv

\* Only the store survives the end of the actor.
LEMMA KeepsActorEnds ==
  ASSUME IInv, ActorEnds
  PROVE  IInv'
  <1>1. /\ life' = "down" /\ view' = "Inactive" /\ pending' = NoReset /\ rewound' = FALSE
        /\ cursor' = 0 /\ gen' = 0 /\ intent' = 0 /\ nextIntent' \in {nextIntent, 1}
        /\ utxos' = NoRows /\ UNCHANGED <<disk, missed, epoch, floor>>
    BY Zenon DEF ActorEnds
  <1>2. StoreType'
    <2>1. nextIntent' \in Nat
      BY <1>1 DEF IInv, StoreInv, StoreType
    <2>2. pending' \in PendingReset
      BY <1>1, Nothing, Zenon
    <2>3. utxos' \in Rows
      BY <1>1, Zenon DEF NoRows, Rows
    <2> QED
      BY <1>1, <2>1, <2>2, <2>3, Bounds, Zenon DEF IInv, StoreInv, StoreType
  <1>7. \A b \in Block : utxos'[b] = NoRow
    BY <1>1, Zenon DEF NoRows
  <1>8. \A b \in Start..MaxBlock : b \in Block
    BY Bounds DEF Block
  <1>3. /\ StaleIsCovered' /\ HeldInv' /\ FloorInv' /\ CheckpointExact' /\ ViewInv'
        /\ MirrorsStore' /\ IntentsMoveOn'
    BY <1>1, <1>7, <1>8, Zenon DEF IInv, StoreInv, StaleIsCovered, Covered, HeldInv, FloorInv,
       CheckpointExact, ViewInv, MirrorsStore, IntentsMoveOn
  <1>4. StepInv'
    BY <1>1, Bounds, Zenon DEF ActorEnds, IInv, StepInv, NoEvent, Kinds
  <1>5. GenInv'
    BY Zenon DEF ActorEnds, GenInv, NoRange, NoDone
  <1>6. JobsInv'
    BY Bounds, Zenon DEF ActorEnds, NoEvent, IInv, JobsInv
  <1> QED
    BY <1>2, <1>3, <1>4, <1>5, <1>6, Zenon DEF IInv, StoreInv

\* A reorganisation only moves the epoch on.
LEMMA KeepsReorg ==
  ASSUME IInv, NEW from \in Block, Reorg(from)
  PROVE  IInv'
  <1>1. /\ epoch' = epoch + 1 /\ orphan' = from
        /\ UNCHANGED <<life, gen, cursor, intent, pending, rewound, view, disk, floor, nextIntent>>
        /\ UNCHANGED <<step, ev, nextJob, tokens, utxos, missed>>
    BY Zenon DEF Reorg, actorVars, loopVars, memVars
  <1>8. epoch' \in Nat
    BY <1>1 DEF IInv, StoreInv, StoreType
  <1>2. StoreType' /\ StaleIsCovered' /\ HeldInv' /\ CheckpointExact'
    BY <1>1, <1>8, Zenon DEF IInv, StoreInv, StoreType, StaleIsCovered, Covered, HeldInv,
       CheckpointExact
  <1>3. ViewInv' /\ MirrorsStore' /\ IntentsMoveOn'
    BY <1>1, Zenon DEF IInv, StoreInv, ViewInv, Fresh, MirrorsStore, IntentsMoveOn
  <1>4. FloorInv'
    BY <1>1 DEF IInv, StoreInv, StoreType, FloorInv
  <1>5. StepInv'
    BY <1>1, Bounds DEF IInv, StepInv, Block
  <1>6. GenInv'
    BY GenKept, Zenon DEF Reorg, actorVars, IInv, genVars
  <1>7. JobsInv'
    BY Zenon DEF Reorg, actorVars, loopVars, IInv, JobsInv
  <1> QED
    BY <1>2, <1>3, <1>4, <1>5, <1>6, <1>7, Zenon DEF IInv, StoreInv

\* What a scan leaves in a map of rows.
LEMMA RowsAfterScan ==
  ASSUME NEW rows \in Rows, NEW from, NEW to, NEW e \in Nat
  PROVE  /\ RowsWith(rows, from, to, e) \in Rows
         /\ \A b \in Block :
              RowsWith(rows, from, to, e)[b] =
                IF b \in from..to /\ rows[b] = NoRow THEN e ELSE rows[b]
  BY Zenon DEF RowsWith, Rows

\* A scan commit extends the rows in memory and the store by rows of the current
\* epoch.
LEMMA ScanCommit ==
  ASSUME StoreInv, NEW from \in Nat, NEW to \in 0..MaxBlock, NEW e \in Nat,
         ScanAdmitted(from, to, e), pending = NoReset, life # "down",
         ScanCommits(from, to, e),
         UNCHANGED <<life, gen, intent, pending, rewound, missed, epoch, floor, nextIntent>>
  PROVE  StoreInv'
  <1>1. /\ from <= to /\ from = cursor + 1 /\ e = epoch /\ cursor \in 0..MaxBlock
        /\ disk.pending = NoReset /\ disk.intent = intent /\ ~rewound
        /\ disk.rows \in Rows /\ utxos \in Rows
    BY Zenon DEF ScanAdmitted, StoreInv, StoreType, MirrorsStore, ViewInv
  <1>2. PICK rows \in {disk.rows, utxos} :
          disk' = [cursor |-> to, pending |-> NoReset, intent |-> intent,
                   rows |-> RowsWith(rows, from, to, e)]
    <2>1. PICK new \in {RowsWith(utxos, from, to, e), RowsWith(disk.rows, from, to, e)} :
            disk' = [disk EXCEPT !.cursor = to, !.rows = new]
      BY Zenon DEF ScanCommits
    <2>2. disk' = [cursor |-> to, pending |-> NoReset, intent |-> intent, rows |-> new]
      BY <1>1, <2>1, Zenon DEF StoreInv, StoreType
    <2> QED
      BY <2>1, <2>2, Zenon
  <1>3. /\ utxos' = RowsWith(utxos, from, to, e) /\ rows \in Rows
        /\ cursor' = to /\ view' = "Current"
    BY <1>1, <1>2, Zenon DEF ScanCommits
  <1>4. /\ disk'.rows \in Rows /\ utxos' \in Rows
        /\ \A b \in Block :
             /\ disk'.rows[b] = IF b \in from..to /\ rows[b] = NoRow THEN e ELSE rows[b]
             /\ utxos'[b] = IF b \in from..to /\ utxos[b] = NoRow THEN e ELSE utxos[b]
    <2>1. disk'.rows = RowsWith(rows, from, to, e)
      BY <1>2, Zenon
    <2> QED
      BY <1>1, <1>3, <2>1, RowsAfterScan
  <1>5. StoreType'
    BY <1>1, <1>2, <1>3, <1>4, Zenon DEF StoreInv, StoreType
  <1>6. StaleIsCovered'
    <2>1. ASSUME NEW b \in Block, NEW held \in {disk.rows, utxos}, held[b] # NoRow
          PROVE  ~(held[b] < floor[b])
      <3>1. Covered(disk.rows) /\ Covered(utxos)
        BY Zenon DEF StoreInv, StaleIsCovered
      <3>2. Covered(held)
        BY <2>1, <3>1
      <3> QED
        BY <1>1, <2>1, <3>2, Zenon DEF Covered
    <2>2. ASSUME NEW b \in Block PROVE ~(e < floor[b])
      <3>1. floor[b] \in Nat /\ floor[b] <= epoch /\ epoch \in Nat
        BY Zenon DEF StoreInv, StoreType, FloorInv
      <3> QED
        BY <1>1, <3>1
    <2>3. ASSUME NEW b \in Block
          PROVE  /\ disk'.rows[b] # NoRow => ~(disk'.rows[b] < floor[b])
                 /\ utxos'[b] # NoRow => ~(utxos'[b] < floor[b])
      BY <1>2, <1>4, <2>1, <2>2, Zenon
    <2> QED
      BY <2>3, Zenon DEF StaleIsCovered, Covered
  <1>7. ViewInv' /\ FloorInv' /\ MirrorsStore' /\ IntentsMoveOn'
    BY <1>1, <1>2, <1>3, Zenon DEF StoreInv, ViewInv, FloorInv, MirrorsStore, IntentsMoveOn
  <1>8. ASSUME NEW b \in Start..MaxBlock, NEW held \in {disk.rows, utxos},
               NEW new, new = IF b \in from..to /\ held[b] = NoRow THEN e ELSE held[b]
        PROVE  /\ b <= to /\ "rows" \notin missed => new # NoRow
               /\ b > to /\ "cursor" \notin missed => new = NoRow
    <2>1. b \in Block /\ b \in Nat /\ b >= Start /\ e # NoRow
      BY Bounds DEF Block, NoRow
    <2>2. /\ b <= disk.cursor /\ "rows" \notin missed => held[b] # NoRow
          /\ b > disk.cursor /\ "cursor" \notin missed => held[b] = NoRow
      BY Zenon DEF StoreInv, CheckpointExact, HeldInv
    <2>3. /\ b <= cursor => b <= disk.cursor
          /\ b > cursor /\ "cursor" \notin missed => b > disk.cursor
      BY <1>1, <2>1, Bounds DEF StoreInv, StoreType, MirrorsStore
    <2>4. CASE b \in from..to
      BY <1>1, <1>8, <2>1, <2>4
    <2>5. CASE b \notin from..to
      BY <1>1, <1>8, <2>1, <2>2, <2>3, <2>5
    <2> QED
      BY <2>4, <2>5, Zenon
  <1>9. CheckpointExact' /\ HeldInv'
    <2>1. \A b \in Start..MaxBlock : b \in Block
      BY Bounds DEF Block
    <2>2. CheckpointExact'
      BY <1>2, <1>4, <1>8, <2>1, Zenon DEF CheckpointExact
    <2>3. "rows" \notin missed => utxos' = disk'.rows
      BY <1>2, <1>3, Zenon DEF StoreInv, HeldInv
    <2> QED
      BY <1>2, <1>4, <1>8, <2>1, <2>2, <2>3, Zenon DEF HeldInv
  <1> QED
    BY <1>5, <1>6, <1>7, <1>9, Zenon DEF StoreInv

\* The rows of a backfill job.
LEMMA KeepsApplyCommits ==
  ASSUME IInv, ApplyCommits
  PROVE  IInv'
  <1>1. /\ ev.from \in Nat /\ ev.to \in 0..MaxBlock /\ ev.epoch \in Nat /\ life # "down"
    BY DEF IInv, StepInv, ApplyCommits
  <1>2. StoreInv'
    <2>1. /\ ScanAdmitted(ev.from, ev.to, ev.epoch) /\ pending = NoReset
          /\ ScanCommits(ev.from, ev.to, ev.epoch)
          /\ UNCHANGED <<life, gen, intent, pending, rewound, missed, epoch, floor, nextIntent>>
      BY Zenon DEF ApplyCommits, envVars
    <2> QED
      BY <1>1, <2>1, ScanCommit, Zenon DEF IInv
  <1>3. StepInv'
    BY <1>1, Bounds, Zenon DEF ApplyCommits, envVars, Finished, IInv, StepInv, NoEvent, Kinds
  <1>4. GenInv'
    BY Zenon DEF ApplyCommits, ProgressCommitted, NoRange, IInv, GenInv, StepInv
  <1>5. JobsInv'
    BY Zenon DEF ApplyCommits, Finished, NoEvent, IInv, JobsInv
  <1> QED
    BY <1>2, <1>3, <1>4, <1>5, Zenon DEF IInv

\* A live batch, committed or refused.
LEMMA KeepsLiveCommits ==
  ASSUME IInv, NEW to \in Block, NEW e \in Nat, LiveCommits(to, e)
  PROVE  IInv'
  <1>1. /\ to \in 0..MaxBlock /\ cursor + 1 \in Nat /\ life # "down" /\ pending = NoReset
    <2>1. cursor \in 0..MaxBlock /\ life = "active" /\ pending = NoReset
      BY Zenon DEF IInv, StoreInv, StoreType, LiveCommits, LiveGate, Takes
    <2> QED
      BY <2>1, Bounds DEF Block
  <1>2. UNCHANGED <<life, gen, intent, pending, rewound, missed, epoch, floor, nextIntent>>
    BY Zenon DEF LiveCommits
  <1>3. StoreInv'
    <2>1. CASE ScanAdmitted(cursor + 1, to, e)
      <3>1. ScanCommits(cursor + 1, to, e)
        BY <2>1, Zenon DEF LiveCommits
      <3> QED
        BY <1>1, <1>2, <2>1, <3>1, ScanCommit, Zenon DEF IInv
    <2>2. CASE ~ScanAdmitted(cursor + 1, to, e)
      BY <1>2, <2>2, StoreKept, Zenon DEF LiveCommits, IInv, storeVars
    <2> QED
      BY <2>1, <2>2, Zenon
  <1>4. StepInv'
    BY <1>1, <1>2 DEF LiveCommits, IInv, StepInv
  <1>5. GenInv'
    BY DEF LiveCommits, LiveGate, Takes, ProgressCommitted, NoRange, IInv, GenInv
  <1>6. JobsInv'
    BY Zenon DEF LiveCommits, IInv, JobsInv
  <1> QED
    BY <1>3, <1>4, <1>5, <1>6, Zenon DEF IInv

\* A reset, accepted or not: what it makes stale its record covers.
LEMMA KeepsResetEvent ==
  ASSUME IInv, NEW from \in Block, NEW target \in 0..MaxBlock, NEW reorg \in BOOLEAN,
         ResetEvent(from, target, reorg), orphan' \in 0..MaxBlock
  PROVE  IInv'
  <1>1. /\ life # "down" /\ life' = life /\ nextIntent' = nextIntent + 1 /\ step = "idle"
        /\ UNCHANGED <<epoch, nextJob, tokens, utxos, missed>>
        /\ from \in 1..MaxBlock
    BY Zenon DEF ResetEvent, Takes, Block, memVars
  <1>2. CASE AcceptReset(from, target)
             /\ floor' = IF reorg THEN [b \in Block |-> IF b >= from THEN epoch ELSE floor[b]]
                         ELSE floor
    <2> DEFINE new == MergedReset(from, target)
    <2>1. /\ new \in PendingReset /\ new.from >= 1 /\ new.from <= from
          /\ pending # NoReset => new.from <= pending.from
          /\ new.intent = nextIntent
      <3>1. nextIntent \in Nat /\ pending \in PendingReset
        BY Zenon DEF IInv, StoreInv, StoreType
      <3>2. /\ from \in 0..MaxBlock /\ from >= 1 /\ from <= from
            /\ target \in 0..MaxBlock
        BY <1>1, Bounds
      <3>3. CASE pending = NoReset
        <4>1. new = [intent |-> nextIntent, from |-> from, target |-> target]
          BY <3>3, Zenon DEF MergedReset
        <4> HIDE DEF new
        <4> QED
          BY <3>1, <3>2, <3>3, <4>1, Zenon DEF PendingReset
      <3>4. CASE pending # NoReset
        <4>1. pending.from \in 1..MaxBlock /\ pending.target \in 0..MaxBlock
          BY <1>1, <3>4, Bounds DEF IInv, StoreInv, StoreType, MirrorsStore, PendingReset
        <4> DEFINE low == Smaller(pending.from, from)
                   aim == Larger(pending.target, target)
        <4>2. /\ low \in 0..MaxBlock /\ low >= 1 /\ low <= from /\ low <= pending.from
              /\ aim \in 0..MaxBlock
          BY <1>1, <4>1, Bounds DEF Smaller, Larger
        <4>3. new = [intent |-> nextIntent, from |-> low, target |-> aim]
          BY <3>4, Zenon DEF MergedReset
        <4> HIDE DEF new, low, aim
        <4> QED
          BY <3>1, <4>2, <4>3, Zenon DEF PendingReset
      <3> QED
        BY <3>3, <3>4, Zenon
    <2>2. /\ disk' = [cursor |-> disk.cursor, pending |-> new, intent |-> nextIntent,
                      rows |-> disk.rows]
          /\ pending' = new /\ intent' = nextIntent /\ gen' = gen + 1 /\ rewound' = FALSE
          /\ view' = "ResetPending" /\ cursor' = cursor
      <3>1. /\ disk' = [disk EXCEPT !.pending = new, !.intent = nextIntent]
            /\ pending' = new /\ intent' = nextIntent /\ gen' = gen + 1 /\ rewound' = FALSE
            /\ view' = "ResetPending" /\ cursor' = cursor
        BY <1>2, Zenon DEF AcceptReset, ForgetGeneration
      <3> HIDE DEF new
      <3> QED
        BY <3>1, Zenon DEF IInv, StoreInv, StoreType
    <2> HIDE DEF new
    <2>3. new # NoReset
      BY <2>1 DEF NoReset
    <2>4. floor' \in [Block -> Nat]
      BY <1>2, Zenon DEF IInv, StoreInv, StoreType
    <2>5. StoreType'
      <3>1. /\ disk.cursor \in 0..MaxBlock /\ disk.rows \in Rows
            /\ utxos' \in Rows /\ missed' \subseteq {"cursor", "rows"}
            /\ nextIntent \in Nat /\ gen \in Nat /\ epoch \in Nat /\ cursor \in 0..MaxBlock
            /\ life \in {"down", "prepared", "active"}
        BY <1>1, Zenon DEF IInv, StoreInv, StoreType
      <3>2. disk' \in [cursor : 0..MaxBlock, pending : PendingReset, intent : Nat, rows : Rows]
        BY <2>1, <2>2, <3>1, Zenon
      <3>3. disk'.pending.from >= 1
        BY <2>1, <2>2, Zenon
      <3>4. /\ pending' \in PendingReset /\ intent' \in Nat /\ gen' \in Nat /\ nextIntent' \in Nat
            /\ cursor' \in 0..MaxBlock /\ epoch' \in Nat
        BY <1>1, <2>1, <2>2, <3>1
      <3>5. /\ life' \in {"down", "prepared", "active"} /\ view' = "ResetPending"
            /\ rewound' = FALSE
        BY <1>1, <2>2, <3>1, Zenon
      <3> QED
        BY <2>4, <3>1, <3>2, <3>3, <3>4, <3>5, Zenon DEF StoreType
    <2>6. StaleIsCovered'
      <3> SUFFICES ASSUME NEW rows \in {disk.rows, utxos}, NEW b \in Block, rows[b] # NoRow,
                          rows[b] < floor'[b]
                   PROVE  b >= new.from
        BY <1>1, <2>2, <2>3, Zenon DEF StaleIsCovered, Covered
      <3>1. b \in Nat /\ new.from \in Nat /\ from \in Nat
        <4>1. b \in Nat /\ from \in Nat
          BY <1>1, Bounds DEF Block
        <4>2. new.from \in Nat
          BY <2>1, Bounds DEF PendingReset
        <4> QED
          BY <4>1, <4>2, Zenon
      <3>2. CASE b >= from
        BY <2>1, <3>1, <3>2
      <3>3. CASE ~(b >= from)
        <4>1. floor'[b] = floor[b]
          BY <1>2, <3>3, Zenon
        <4>2. disk.pending # NoReset /\ b >= disk.pending.from
          BY <4>1, Zenon DEF IInv, StoreInv, StaleIsCovered, Covered
        <4>3. disk.pending = pending /\ pending.from \in Nat
          BY <1>1 DEF IInv, StoreInv, StoreType, MirrorsStore, PendingReset
        <4> QED
          BY <2>1, <3>1, <4>2, <4>3
      <3> QED
        BY <3>2, <3>3, Zenon
    <2>7. ViewInv'
      BY <1>1, <2>2, <2>3, Zenon DEF ViewInv
    <2>8. FloorInv'
      <3> SUFFICES ASSUME NEW b \in Block PROVE floor'[b] <= epoch
        BY <1>1, Zenon DEF FloorInv
      <3>1. floor[b] <= epoch /\ epoch \in Nat
        BY Zenon DEF IInv, StoreInv, StoreType, FloorInv
      <3> QED
        BY <1>2, <3>1
    <2>9. MirrorsStore' /\ IntentsMoveOn'
      BY <1>1, <2>2 DEF IInv, StoreInv, StoreType, MirrorsStore, IntentsMoveOn
    <2>10. CheckpointExact' /\ HeldInv'
      BY <1>1, <2>2, Zenon DEF IInv, StoreInv, CheckpointExact, HeldInv
    <2>11. StepInv'
      BY <1>1, <1>2, <2>2, <2>3, Bounds, Zenon DEF AcceptReset, IInv, StepInv, NoEvent, Kinds
    <2>12. GenInv'
      BY <1>1, <1>2, Zenon DEF AcceptReset, ForgetGeneration, GenInv, NoRange, NoDone
    <2>13. JobsInv'
      BY <1>2, Bounds, Zenon DEF AcceptReset, ForgetGeneration, JobsInv, NoEvent
    <2> QED
      BY <2>5, <2>6, <2>7, <2>8, <2>9, <2>10, <2>11, <2>12, <2>13, Zenon DEF IInv, StoreInv
  <1>3. CASE UNCHANGED <<actorVars, loopVars, view, disk, floor>>
    <2>1. /\ UNCHANGED <<gen, cursor, intent, pending, rewound, view, disk, floor, step, ev>>
          /\ UNCHANGED <<jobs, failures, progressReq, completionReq>>
      BY <1>3, Zenon DEF actorVars, loopVars
    <2>8. nextIntent' \in Nat
      BY <1>1 DEF IInv, StoreInv, StoreType
    <2>2. StoreType' /\ StaleIsCovered' /\ HeldInv' /\ FloorInv' /\ CheckpointExact'
      BY <1>1, <2>1, <2>8, Zenon DEF IInv, StoreInv, StoreType, StaleIsCovered, Covered, HeldInv,
         FloorInv, CheckpointExact
    <2>3. ViewInv' /\ MirrorsStore'
      BY <1>1, <2>1, Zenon DEF IInv, StoreInv, ViewInv, Fresh, MirrorsStore
    <2>4. IntentsMoveOn'
      BY <1>1, <2>1 DEF IInv, StoreInv, StoreType, IntentsMoveOn
    <2>5. StepInv'
      BY <1>1, <2>1, Zenon DEF IInv, StepInv
    <2>6. GenInv'
      BY <1>1, <2>1, GenKept, Zenon DEF IInv, genVars
    <2>7. JobsInv'
      BY <1>3, Zenon DEF actorVars, loopVars, IInv, JobsInv
    <2> QED
      BY <2>2, <2>3, <2>4, <2>5, <2>6, <2>7, Zenon DEF IInv, StoreInv
  <1> QED
    BY <1>2, <1>3, Zenon DEF ResetEvent

\* Every step of the actor and its surroundings keeps the first invariant.
LEMMA WalletNext == IInv /\ JInv /\ [Next]_vars => IInv'
  <1> SUFFICES ASSUME IInv, JInv, [Next]_vars PROVE IInv'
    BY Zenon
  <1> HIDE DEF IInv, JInv
  <1>1. CASE Drive
    BY <1>1, KeepsRewindCommits, KeepsRewindFails, KeepsAdmitCompleted, KeepsAdmitQueued,
       KeepsAdmitRefused, KeepsRetirePlan, KeepsRetirePlanFails, KeepsDriven, Zenon DEF Drive
  <1>2. CASE Handle
    BY <1>2, KeepsRequestRefused, KeepsStartAccepted, KeepsReserveAccepted,
       KeepsApplyWhilePending, KeepsApplyRefused, KeepsApplyCommits, KeepsApplyPersistFails,
       KeepsFinishWhilePending, KeepsFinishTooEarly, KeepsFinishCompletes,
       KeepsFinishCorpusMoved, KeepsFinishRejected, KeepsFinishPersistFails, Zenon DEF Handle
  <1>3. CASE Mailbox
    <2>1. epoch \in Nat /\ \A e \in 0..epoch : e \in Nat
      BY DEF IInv, StoreInv, StoreType
    <2>2. CASE RetryTick \/ ClaimCatchUp \/ PoiRefresh \/ PoiDelta
      BY <2>2, KeepsRetryTick, KeepsClaimCatchUp, KeepsPoiRefresh, KeepsPoiDelta, Zenon
    <2>3. ASSUME NEW t \in tokens,
                 \/ TakeRequest(t) \/ JobFailed(t) \/ OwnerRetires(t) \/ DriverLost(t)
                 \/ CatchUpDropped(t)
          PROVE  IInv'
      BY <2>3, KeepsTakeRequest, KeepsJobFailed, KeepsOwnerRetires, KeepsDriverLost,
         KeepsCatchUpDropped, Zenon
    <2>4. ASSUME NEW t \in tokens, NEW from \in Block, NEW to \in Block, NEW e \in 0..epoch,
                 TakeApply(t, from, to, e)
          PROVE  IInv'
      BY <2>1, <2>4, KeepsTakeApply, Zenon
    <2>5. ASSUME NEW t \in tokens, NEW target \in SyncTargets, TakeFinish(t, target)
          PROVE  IInv'
      BY <2>5, KeepsTakeFinish, Zenon
    <2>6. ASSUME NEW target \in SyncTargets, ReorgReset(target)
          PROVE  IInv'
      <3>1. orphan \in 0..MaxBlock /\ target \in 0..MaxBlock
        BY Bounds, Zenon DEF IInv, StepInv
      <3>2. Larger(orphan, Start) \in Block
        BY <3>1, Bounds DEF Larger, Block
      <3>3. ResetEvent(Larger(orphan, Start), target, TRUE) /\ orphan' = 0
        BY <2>6, Zenon DEF ReorgReset
      <3>4. orphan' \in 0..MaxBlock
        BY <3>3, Bounds, Zenon
      <3> QED
        BY <3>1, <3>2, <3>3, <3>4, KeepsResetEvent, Zenon
    <2>7. ASSUME NEW from \in Block, NEW target \in SyncTargets, UserReset(from, target)
          PROVE  IInv'
      <3>1. orphan \in 0..MaxBlock /\ target \in 0..MaxBlock
        BY Bounds, Zenon DEF IInv, StepInv
      <3>2. ResetEvent(from, target, FALSE) /\ orphan' \in 0..MaxBlock
        BY <2>7, <3>1, Zenon DEF UserReset
      <3> QED
        BY <3>1, <3>2, KeepsResetEvent, Zenon
    <2>8. ASSUME NEW to \in Block, NEW from \in Block, LiveGap(from, to)
          PROVE  IInv'
      BY <2>8, KeepsLiveGap, Zenon
    <2>9. ASSUME NEW to \in Block, NEW e \in 0..epoch, LiveCommits(to, e)
          PROVE  IInv'
      BY <2>1, <2>9, KeepsLiveCommits, Zenon
    <2>10. ASSUME NEW to \in Block, LivePersistFails(to)
           PROVE  IInv'
      BY <2>10, KeepsLivePersistFails, Zenon
    <2> QED
      BY <1>3, <2>2, <2>3, <2>4, <2>5, <2>6, <2>7, <2>8, <2>9, <2>10, Zenon DEF Mailbox
  <1>4. CASE Outside
    BY <1>4, KeepsRegister, KeepsActivate, KeepsActorEnds, KeepsReorgUnseen, KeepsReorg,
       KeepsRequest, Zenon DEF Outside
  <1>5. CASE Waits
    BY <1>5, KeepsWaits, Zenon
  <1>6. CASE UNCHANGED vars
    <2>1. UNCHANGED storeVars /\ UNCHANGED genVars
      BY <1>6, Zenon DEF vars, storeVars, genVars, actorVars, envVars, memVars
    <2>2. StepInv' /\ JobsInv'
      BY <1>6, Zenon DEF vars, actorVars, loopVars, envVars, IInv, StepInv, JobsInv
    <2> QED
      BY <2>1, <2>2, StoreKept, GenKept, Zenon DEF IInv
  <1> QED
    BY <1>1, <1>2, <1>3, <1>4, <1>5, <1>6, Zenon DEF Next

-----------------------------------------------------------------------------
(* The second invariant: replay jobs and the live gate.                    *)

\* A request of the current generation becomes the event in progress.
LEMMA TakenRequest ==
  ASSUME NEW t, TakeRequest(t), t.gen = gen
  PROVE  /\ step' = DriveStep
         /\ ev' = [kind |-> t.use, id |-> t.id, gen |-> t.gen, from |-> 0, to |-> t.target,
                   epoch |-> 0]
  BY Zenon DEF TakeRequest, NoEvent

\* Handing out the next id keeps the ids apart.
LEMMA NextId ==
  ASSUME IdsInv, ev.id \in Nat, nextJob' = nextJob + 1, UNCHANGED <<replay, ev>>,
         \A j \in jobs' : j \in jobs \/ j.id = nextJob,
         \A t \in tokens' : t \in tokens \/ t.id = nextJob
  PROVE  IdsInv'
  <1>1. /\ nextJob' \in Nat /\ nextJob' >= 1 /\ nextJob < nextJob'
        /\ \A n \in Nat : n < nextJob => n < nextJob'
        /\ 1 <= nextJob /\ nextJob \in Nat
    BY DEF IdsInv
  <1>2. /\ \A j \in jobs' : j.id \in Nat /\ 1 <= j.id /\ j.id < nextJob'
        /\ \A t \in tokens' : t.id \in Nat /\ 1 <= t.id /\ t.id < nextJob'
    BY <1>1, Zenon DEF IdsInv
  <1>3. ev'.kind \in {"start", "reserve"} => 1 <= ev'.id /\ ev'.id < nextJob'
    BY <1>1 DEF IdsInv
  <1> QED
    BY <1>1, <1>2, <1>3, Zenon DEF IdsInv

\* Zero is a target below every block.
LEMMA Zero == 0 \in Nat /\ 0 < Start
  BY Bounds

\* A backfill job dispatched while no reset is pending shuts the gate.
LEMMA Dispatched ==
  ASSUME JInv, ev.id \in Nat, pending = NoReset, step = "idle", nextJob' = nextJob + 1,
         UNCHANGED <<pending, rewound, replay, completed, cursor, life, step, ev>>,
         NEW job, NEW owner, job.id = nextJob, owner.id = nextJob,
         \/ jobs' = jobs \cup {job} /\ tokens' = tokens \cup {owner} /\ complete' = 0
         \/ UNCHANGED <<jobs, tokens, complete>>
  PROVE  JInv'
  <1>1. /\ \A j \in jobs' : j \in jobs \/ j.id = nextJob
        /\ \A t \in tokens' : t \in tokens \/ t.id = nextJob
        /\ complete' = 0 \/ UNCHANGED <<jobs, complete>>
    BY Zenon
  <1>2. IdsInv'
    BY <1>1, NextId, Zenon DEF JInv
  <1>3. ReplayInv'
    BY Zenon DEF JInv, ReplayInv
  <1> QED
    BY <1>1, <1>2, <1>3, Zero, Zenon DEF JInv, GateInv, Scanned

\* Removing an active job together with the replay it is.
LEMMA JobRemoved ==
  ASSUME JInv, NEW id, \E j \in jobs : j.id = id,
         jobs' = Without(jobs, id), replay' = ReplayWithout(id),
         UNCHANGED <<pending, rewound, completed, cursor, life, nextJob, tokens>>,
         step' = "idle", ev' \in {ev, NoEvent}, complete' \in {0, complete, completed}
  PROVE  JInv'
  <1>1. /\ \A j \in jobs' : j \in jobs /\ j.id # id
        /\ \A j \in jobs : j.id # id => j \in jobs'
        /\ BackfillJobs(jobs') \subseteq BackfillJobs(jobs)
    BY Zenon DEF Without, BackfillJobs
  <1>2. replay' = IF replay = id THEN 0 ELSE replay
    BY Zenon DEF ReplayWithout
  <1>3. replay' \in Nat /\ replay' < nextJob
    BY <1>2 DEF JInv, IdsInv
  <1>4. ev'.kind \in {"start", "reserve"} => ev' = ev
    BY DEF NoEvent
  <1>5. IdsInv'
    BY <1>1, <1>3, <1>4, Zenon DEF JInv, IdsInv
  <1>6. GateInv'
    BY Zero, Zenon DEF JInv, GateInv, Scanned, ReplayInv
  <1>7. ReplayInv'
    <2>1. life' = "down" => replay' = 0 /\ completed' = 0
      BY <1>2, Zenon DEF JInv, ReplayInv
    <2> SUFFICES ASSUME pending # NoReset
                 PROVE  /\ \A j \in jobs' :
                             \/ j.kind = "Backfill" /\ j.id = replay'
                             \/ j.kind = "IndexedCatchUp" /\ j.id # replay'
                        /\ ~rewound => replay' = 0 /\ completed = 0
                        /\ completed # 0 => replay' # 0 /\ BackfillJobs(jobs') = {}
                        /\ replay' # 0 => Replayed'
      BY <2>1, Zenon DEF ReplayInv
    <2>2. \A j \in jobs :
            \/ j.kind = "Backfill" /\ j.id = replay
            \/ j.kind = "IndexedCatchUp" /\ j.id # replay
      BY Zenon DEF JInv, ReplayInv
    <2>3. \A j \in jobs' :
            \/ j.kind = "Backfill" /\ j.id = replay'
            \/ j.kind = "IndexedCatchUp" /\ j.id # replay'
      <3> SUFFICES ASSUME NEW j \in jobs'
                   PROVE  \/ j.kind = "Backfill" /\ j.id = replay'
                          \/ j.kind = "IndexedCatchUp" /\ j.id # replay'
        BY Zenon
      <3>1. j \in jobs /\ j.id # id /\ 1 <= j.id /\ j.id \in Nat
        BY <1>1, Zenon DEF JInv, IdsInv
      <3>2. j.id # 0
        BY <3>1
      <3> QED
        BY <1>2, <2>2, <3>1, <3>2, Zenon
    <2>4. completed # 0 => replay # 0 /\ replay # id /\ BackfillJobs(jobs) = {}
      BY <2>2, Zenon DEF JInv, ReplayInv, BackfillJobs
    <2>5. ~rewound => replay' = 0 /\ completed = 0
      BY <1>2, Zenon DEF JInv, ReplayInv
    <2>6. replay' # 0 => replay' = replay /\ replay # id /\ Replayed
      BY <1>2, Zenon DEF JInv, ReplayInv
    <2>7. replay' # 0 => Replayed'
      BY <1>1, <2>6, Zenon DEF Replayed
    <2> QED
      BY <1>1, <1>2, <2>3, <2>4, <2>5, <2>7, Zenon
  <1> QED
    BY <1>5, <1>6, <1>7, Zenon DEF JInv

\* Every action keeps the ids apart, the replay where it belongs and the gate
\* shut while a backfill runs.
LEMMA ReplayNext == IInv /\ JInv /\ [Next]_vars => JInv'
  <1> SUFFICES ASSUME IInv, JInv, [Next]_vars PROVE JInv'
    BY Zenon
  <1> USE DEF actorVars, loopVars, envVars, memVars
  <1> DEFINE Typed == /\ pending \in PendingReset /\ rewound \in BOOLEAN
                      /\ completed \in 0..MaxBlock /\ MaxBlock \in Nat
                      /\ cursor \in 0..MaxBlock /\ Start \in Nat
  <1>0. /\ Typed /\ StepInv /\ GenInv
        /\ rewound => pending # NoReset
        /\ life = "down" => pending = NoReset
    BY Bounds, Zenon DEF IInv, StoreInv, StoreType, ViewInv, JobsInv
  <1>e. ev.id \in Nat
    BY <1>0 DEF StepInv
  <1>1. ASSUME RewindCommits PROVE JInv'
    BY <1>0, <1>1, Zero, Zenon DEF RewindCommits, JInv, IdsInv, ReplayInv, GateInv, Scanned,
       Replayed, StepInv,
       BackfillJobs
  <1>2. ASSUME RewindFails PROVE JInv'
    BY <1>0, <1>2, Zenon DEF RewindFails, JInv, IdsInv, ReplayInv, GateInv, Scanned, Replayed,
       StepInv,
       BackfillJobs
  <1>3. ASSUME AdmitCompleted PROVE JInv'
    <2>1. /\ pending # NoReset /\ rewound /\ replay = 0 /\ pending' = pending /\ rewound' = rewound
          /\ jobs' = jobs /\ tokens' = tokens /\ ev' = ev /\ step' = "retire" /\ life' = life
          /\ replay' = nextJob /\ nextJob' = nextJob + 1
      BY <1>0, <1>3, Zenon DEF AdmitCompleted, StepInv, JInv, ReplayInv
    <2>2. /\ pending.target > 0 /\ completed' >= pending.target /\ complete' = completed'
      BY <1>0, <1>3 DEF AdmitCompleted, NothingToReplay, PendingReset, Larger
    <2>3. BackfillJobs(jobs) = {} /\ life # "down"
      BY <1>0, <2>1, <1>3 DEF AdmitCompleted, StepInv, JInv, ReplayInv, IdsInv, BackfillJobs
    <2>4. GateInv'
      <3>1. completed = 0 /\ cursor' = cursor /\ pending.target \in Nat
        BY <1>0, <1>3, <2>1 DEF AdmitCompleted, JInv, ReplayInv, PendingReset
      <3>2. completed' = pending.target /\ (pending.target <= cursor \/ pending.target < Start)
        BY <1>0, <1>3, <2>2, <3>1
        DEF AdmitCompleted, NothingToReplay, ReplayFrom, PendingReset, Larger
      <3> QED
        BY <2>1, <2>2, <2>3, <3>1, <3>2, Zenon DEF GateInv, Scanned
    <2>5. IdsInv'
      BY <1>0, <2>1 DEF JInv, IdsInv, StepInv
    <2>6. Replayed'
      BY <2>1, <2>2, Zenon DEF Replayed
    <2>7. \A j \in jobs : j.kind = "IndexedCatchUp" /\ j.id # nextJob
      BY <2>1, <2>3 DEF JInv, IdsInv, ReplayInv, BackfillJobs
    <2>8. ReplayInv'
      BY <2>1, <2>3, <2>6, <2>7 DEF JInv, IdsInv, ReplayInv, BackfillJobs
    <2> QED
      BY <2>4, <2>5, <2>8, Zenon DEF JInv
  <1>4. ASSUME AdmitQueued PROVE JInv'
    <2>1. /\ pending # NoReset /\ rewound /\ replay = 0 /\ pending' = pending /\ rewound' = rewound
          /\ ev' = ev /\ step' = "retire" /\ life' = life /\ life # "down"
          /\ replay' = nextJob /\ nextJob' = nextJob + 1
          /\ UNCHANGED <<completed, complete, cursor>>
      BY <1>0, <1>4, Zenon DEF AdmitQueued, StepInv, JInv, ReplayInv
    <2> DEFINE new == [id |-> nextJob, gen |-> gen, kind |-> "Backfill", target |-> pending.target]
               own == [id |-> nextJob, gen |-> gen, use |-> "owner", target |-> 0]
    <2>2. jobs' = jobs \cup {new} /\ tokens' = tokens \cup {own}
      BY <1>4, Zenon DEF AdmitQueued, Owner
    <2>a. /\ new.id = nextJob /\ new.kind = "Backfill" /\ new.target = pending.target
          /\ own.id = nextJob
      BY Zenon
    <2> HIDE DEF new, own
    <2>3. completed = 0 /\ BackfillJobs(jobs) = {}
      BY <2>1 DEF JInv, ReplayInv, IdsInv, BackfillJobs
    <2>4. IdsInv'
      BY <1>0, <2>1, <2>2, <2>a DEF JInv, IdsInv, StepInv
    <2>5. Replayed'
      <3>1. new \in jobs' /\ new.id = replay' /\ new.target >= pending'.target
        BY <1>0, <2>1, <2>2, <2>a DEF PendingReset
      <3> QED
        BY <2>a, <3>1, Zenon DEF Replayed
    <2>6. ReplayInv'
      <3>1. ASSUME NEW j \in jobs'
            PROVE  \/ j.kind = "Backfill" /\ j.id = replay'
                   \/ j.kind = "IndexedCatchUp" /\ j.id # replay'
        <4>1. CASE j \in jobs
          BY <2>1, <2>3, <4>1 DEF JInv, ReplayInv, IdsInv, BackfillJobs
        <4> QED
          BY <2>1, <2>2, <2>a, <4>1, Zenon
      <3> QED
        BY <2>1, <2>3, <2>5, <3>1 DEF ReplayInv, JInv, IdsInv
    <2> QED
      BY <2>1, <2>4, <2>6, Zenon DEF JInv, GateInv, Scanned
  <1>5. ASSUME AdmitRefused PROVE JInv'
    <2>1. /\ nextJob' = nextJob + 1 /\ step' = "handle"
          /\ UNCHANGED <<life, pending, rewound, replay, completed, complete, cursor, jobs,
                         tokens, ev>>
      BY <1>5, Zenon DEF AdmitRefused
    <2>2. IdsInv'
      BY <1>e, <2>1, NextId, Zenon DEF JInv
    <2> QED
      BY <2>1, <2>2, Zenon DEF JInv, ReplayInv, GateInv, Scanned, Replayed, BackfillJobs
  <1>6. ASSUME RetirePlan PROVE JInv'
    BY <1>0, <1>6, Zenon DEF RetirePlan, JInv, IdsInv, ReplayInv, GateInv, Scanned, Replayed,
       StepInv,
       BackfillJobs
  <1>7. ASSUME RetirePlanFails PROVE JInv'
    BY <1>0, <1>7, Zenon DEF RetirePlanFails, JInv, IdsInv, ReplayInv, GateInv, Scanned, Replayed,
       StepInv,
       BackfillJobs
  <1>8. ASSUME Driven PROVE JInv'
    BY <1>0, <1>8, Zenon DEF Driven, JInv, IdsInv, ReplayInv, GateInv, Scanned, Replayed, StepInv,
       BackfillJobs, NoEvent
  <1>9. ASSUME RequestRefused PROVE JInv'
    BY <1>0, <1>9, Zenon DEF RequestRefused, JInv, IdsInv, ReplayInv, GateInv, Scanned, Replayed,
       StepInv,
       BackfillJobs, Finished, NoEvent, ActiveJob
  <1>10. ASSUME StartAccepted PROVE JInv'
    <2>1. /\ pending = NoReset /\ ev.kind = "start"
          /\ step' = "idle" /\ ev' = NoEvent /\ complete' = 0
          /\ UNCHANGED <<pending, rewound, replay, completed, cursor, life, nextJob>>
      BY <1>10, Zenon DEF StartAccepted, Finished
    <2> DEFINE new == [id |-> ev.id, gen |-> gen, kind |-> "Backfill", target |-> ev.to]
               own == [id |-> ev.id, gen |-> gen, use |-> "owner", target |-> 0]
    <2>a. /\ jobs' = jobs \/ jobs' = jobs \cup {new}
          /\ tokens' = tokens \/ tokens' = tokens \cup {own}
      BY <1>10, Zenon DEF StartAccepted, Owner
    <2>b. new.id = ev.id /\ own.id = ev.id
      BY Zenon
    <2> HIDE DEF new, own
    <2>2. \A j \in jobs' : j \in jobs \/ j.id = ev.id
      BY <2>a, <2>b, Zenon
    <2>3. \A t \in tokens' : t \in tokens \/ t.id = ev.id
      BY <2>a, <2>b, Zenon
    <2>4. /\ ev.id \in Nat /\ 1 <= ev.id /\ ev.id < nextJob
          /\ NoEvent.kind \notin {"start", "reserve"}
      BY <1>0, <2>1 DEF JInv, IdsInv, StepInv, NoEvent
    <2>5. IdsInv'
      BY <2>1, <2>2, <2>3, <2>4, Zenon DEF JInv, IdsInv
    <2> QED
      BY <2>1, <2>5, Zero, Zenon DEF JInv, ReplayInv, GateInv, Scanned
  <1>11. ASSUME ReserveAccepted PROVE JInv'
    <2>1. /\ pending = NoReset /\ ev.kind = "reserve"
          /\ step' = "idle" /\ ev' = NoEvent
          /\ UNCHANGED <<pending, rewound, replay, completed, complete, cursor, life, nextJob>>
      BY <1>11, Zenon DEF ReserveAccepted, Finished
    <2> DEFINE new == [id |-> ev.id, gen |-> gen, kind |-> "SyncTarget", target |-> ev.to]
               own == [id |-> ev.id, gen |-> gen, use |-> "owner", target |-> 0]
    <2>a. /\ jobs' = jobs \/ jobs' = jobs \cup {new}
          /\ tokens' = tokens \/ tokens' = tokens \cup {own}
      BY <1>11, Zenon DEF ReserveAccepted, Owner
    <2>b. new.id = ev.id /\ own.id = ev.id /\ new.kind = "SyncTarget"
      BY Zenon
    <2> HIDE DEF new, own
    <2>2. \A j \in jobs' : j \in jobs \/ (j.id = ev.id /\ j.kind = "SyncTarget")
      BY <2>a, <2>b, Zenon
    <2>3. \A t \in tokens' : t \in tokens \/ t.id = ev.id
      BY <2>a, <2>b, Zenon
    <2>4. /\ ev.id \in Nat /\ 1 <= ev.id /\ ev.id < nextJob
          /\ NoEvent.kind \notin {"start", "reserve"}
      BY <1>0, <2>1 DEF JInv, IdsInv, StepInv, NoEvent
    <2>5. IdsInv'
      BY <2>1, <2>2, <2>3, <2>4, Zenon DEF JInv, IdsInv
    <2> QED
      BY <2>1, <2>5, Zenon DEF JInv, ReplayInv, GateInv, Scanned
  <1>12. ASSUME ApplyWhilePending PROVE JInv'
    <2>1. /\ step' = "idle" /\ ev' = NoEvent
          /\ UNCHANGED <<pending, rewound, completed, complete, cursor, life, nextJob, tokens>>
      BY <1>12, Zenon DEF ApplyWhilePending, Finished
    <2>2. CASE ActiveJob(ev.id, ev.gen)
      <3>1. jobs' = Without(jobs, ev.id) /\ replay' = ReplayWithout(ev.id)
        BY <1>12, <2>2, Zenon DEF ApplyWhilePending
      <3>2. \E j \in jobs : j.id = ev.id
        BY <2>2, Zenon DEF ActiveJob
      <3> QED
        BY <2>1, <3>1, <3>2, JobRemoved, Zenon
    <2>3. CASE ~ActiveJob(ev.id, ev.gen)
      <3>1. jobs' = jobs /\ replay' = replay
        BY <1>12, <2>3, Zenon DEF ApplyWhilePending
      <3> QED
        BY <2>1, <3>1, Zenon DEF JInv, IdsInv, ReplayInv, GateInv, Scanned, Replayed,
           BackfillJobs, NoEvent
    <2> QED
      BY <2>2, <2>3, Zenon
  <1>13. ASSUME ApplyRefused PROVE JInv'
    BY <1>0, <1>13, Zenon DEF ApplyRefused, JInv, IdsInv, ReplayInv, GateInv, Scanned, Replayed,
       StepInv,
       BackfillJobs, Finished, NoEvent, ActiveBackfill
  <1>a. ASSUME NEW from, NEW to \in 0..MaxBlock, NEW e, ScanAdmitted(from, to, e),
               ScanCommits(from, to, e), UNCHANGED <<complete, completed, life>>
        PROVE  GateInv'
    <2>1. cursor' = to /\ cursor < to
      <3>1. cursor' = to /\ from = cursor + 1 /\ from <= to
        BY <1>a, Zenon DEF ScanAdmitted, ScanCommits
      <3> QED
        BY <1>0, <3>1
    <2>2. \A n \in Nat : Scanned(n) => n <= to \/ n < Start
      BY <1>0, <2>1 DEF Scanned
    <2>3. /\ {complete', completed'} \subseteq Nat /\ (life' = "down" => complete' = 0)
          /\ Scanned(complete) /\ Scanned(completed) /\ complete \in Nat /\ completed \in Nat
      BY <1>a, Zenon DEF JInv, GateInv
    <2> QED
      BY <1>a, <2>1, <2>2, <2>3, Zenon DEF GateInv, Scanned
  <1>14. ASSUME ApplyCommits PROVE JInv'
    <2>1. /\ ev.to \in 0..MaxBlock /\ ScanAdmitted(ev.from, ev.to, ev.epoch)
          /\ ScanCommits(ev.from, ev.to, ev.epoch) /\ step' = "idle" /\ ev' = NoEvent
          /\ UNCHANGED <<jobs, tokens, pending, rewound, replay, completed, life, nextJob,
                         complete>>
      BY <1>0, <1>14, Zenon DEF ApplyCommits, Finished, StepInv
    <2>2. GateInv'
      BY <1>a, <2>1, Zenon
    <2> QED
      BY <2>1, <2>2, Zenon DEF JInv, IdsInv, ReplayInv, Replayed, BackfillJobs, NoEvent
  <1>15. ASSUME ApplyPersistFails PROVE JInv'
    BY <1>0, <1>15, Zenon DEF ApplyPersistFails, JInv, IdsInv, ReplayInv, GateInv, Scanned,
       Replayed,
       StepInv, BackfillJobs, Finished, NoEvent, ActiveBackfill
  <1>16. ASSUME FinishWhilePending PROVE JInv'
    BY <1>0, <1>16, Zenon DEF FinishWhilePending, JInv, IdsInv, ReplayInv, GateInv, Scanned,
       Replayed,
       StepInv, BackfillJobs, Finished, NoEvent
  <1>b. ASSUME pending = NoReset, step' = "idle", ev' = NoEvent, jobs' = WithTarget,
               UNCHANGED <<pending, rewound, replay, completed, cursor, life, nextJob, tokens>>,
               complete' \in Nat, Scanned(complete'), life # "down"
        PROVE  JInv'
    <2>1. \A k \in jobs' : \E j \in jobs : k.id = j.id /\ k.kind = j.kind
      BY <1>0, <1>b, RaisedJobs, Zenon
    <2> QED
      BY <1>0, <1>b, <2>1, Zenon DEF JInv, IdsInv, ReplayInv, GateInv, Scanned, NoEvent
  <1>c. step # "idle" => life # "down"
    BY <1>0, Zenon DEF StepInv
  <1>17. ASSUME FinishTooEarly PROVE JInv'
    <2>1. /\ pending = NoReset /\ step' = "idle" /\ ev' = NoEvent /\ jobs' = WithTarget
          /\ UNCHANGED <<pending, rewound, replay, completed, cursor, life, nextJob, tokens>>
          /\ complete' = 0 /\ life # "down"
      BY <1>17, <1>c, Zenon DEF FinishTooEarly, Finished
    <2> QED
      BY <1>b, <2>1, Zero, Zenon DEF Scanned
  <1>d. ASSUME TargetReached
        PROVE  /\ RequiredTarget \in Nat /\ RequiredTarget <= cursor /\ Scanned(RequiredTarget)
               /\ step = "handle" /\ ev.kind = "finish" /\ pending = NoReset /\ life # "down"
    BY <1>0, <1>c, <1>d, RequiredTargetType DEF TargetReached, Scanned, StepInv
  <1>18. ASSUME FinishCompletes PROVE JInv'
    <2>1. /\ TargetReached /\ step' = "idle" /\ ev' = NoEvent
          /\ jobs' = Without(jobs, ev.id) /\ replay' = ReplayWithout(ev.id)
          /\ completed' = Larger(completed, RequiredTarget)
          /\ complete' \in {RequiredTarget, 0}
          /\ UNCHANGED <<pending, rewound, cursor, life, nextJob, tokens>>
      BY <1>18, Zenon DEF FinishCompletes, GateAfter, Finished
    <2>2. GateInv'
      <3>1. completed' \in {completed, RequiredTarget}
        BY <2>1, Zenon DEF Larger
      <3> QED
        BY <1>d, <2>1, <3>1, Zero, Zenon DEF JInv, GateInv, Scanned
    <2>3. IdsInv'
      BY <2>1 DEF JInv, IdsInv, Without, ReplayWithout, NoEvent
    <2> QED
      BY <1>d, <2>1, <2>2, <2>3, Zenon DEF JInv, ReplayInv
  <1>19. ASSUME FinishPersistFails PROVE JInv'
    <2>1. /\ TargetReached /\ step' = "idle" /\ ev' = NoEvent /\ jobs' = WithTarget
          /\ UNCHANGED <<pending, rewound, replay, completed, cursor, life, nextJob, tokens>>
          /\ complete' = complete
      BY <1>19, Zenon DEF FinishPersistFails, Finished
    <2> QED
      BY <1>b, <1>d, <2>1, Zenon DEF JInv, GateInv
  <1>45. ASSUME FinishCorpusMoved PROVE JInv'
    <2>1. /\ TargetReached /\ step' = "idle" /\ ev' = NoEvent /\ jobs' = WithTarget
          /\ UNCHANGED <<pending, rewound, replay, completed, cursor, life, nextJob, tokens>>
          /\ complete' = RequiredTarget
      BY <1>45, Zenon DEF FinishCorpusMoved, Finished
    <2> QED
      BY <1>b, <1>d, <2>1, Zenon
  <1>46. ASSUME FinishRejected PROVE JInv'
    <2>1. /\ TargetReached /\ step' = "idle" /\ ev' = NoEvent
          /\ jobs' = Without(jobs, ev.id) /\ replay' = ReplayWithout(ev.id)
          /\ UNCHANGED <<pending, rewound, completed, complete, cursor, life, nextJob, tokens>>
      BY <1>46, Zenon DEF FinishRejected, Finished
    <2>2. IdsInv'
      BY <2>1 DEF JInv, IdsInv, Without, ReplayWithout, NoEvent
    <2> QED
      BY <1>d, <2>1, <2>2, Zenon DEF JInv, ReplayInv, GateInv, Scanned
  <1>20. ASSUME RetryTick PROVE JInv'
    BY <1>0, <1>20, Zenon DEF RetryTick, JInv, IdsInv, ReplayInv, GateInv, Scanned, Replayed,
       StepInv,
       DriveStep, BackfillJobs, Takes, NoEvent
  <1>21. ASSUME ClaimCatchUp PROVE JInv'
    <2> DEFINE job == [id |-> nextJob, gen |-> gen, kind |-> "IndexedCatchUp", target |-> 0]
               own == [id |-> nextJob, gen |-> gen, use |-> "owner", target |-> 0]
    <2>1. /\ step = "idle" /\ nextJob' = nextJob + 1
          /\ UNCHANGED <<pending, rewound, replay, completed, complete, cursor, life, step, ev>>
          /\ \/ jobs' = jobs \cup {job} /\ tokens' = tokens \cup {own}
             \/ UNCHANGED <<jobs, tokens>>
      BY <1>21, Zenon DEF ClaimCatchUp, Takes, Owner
    <2>2. job.id = nextJob /\ own.id = nextJob /\ job.kind = "IndexedCatchUp"
      BY Zenon
    <2> HIDE DEF job, own
    <2>3. /\ \A j \in jobs' : j \in jobs \/ (j.id = nextJob /\ j.kind = "IndexedCatchUp")
          /\ \A t \in tokens' : t \in tokens \/ t.id = nextJob
          /\ jobs \subseteq jobs'
      BY <2>1, <2>2, Zenon
    <2>4. IdsInv'
      BY <1>e, <2>1, <2>3, NextId, Zenon DEF JInv
    <2>5. nextJob # replay /\ BackfillJobs(jobs') = BackfillJobs(jobs)
      BY <2>3 DEF JInv, IdsInv, BackfillJobs
    <2>6. Replayed => Replayed'
      BY <2>1, <2>3, Zenon DEF Replayed
    <2>7. ReplayInv'
      BY <2>1, <2>3, <2>5, <2>6, Zenon DEF JInv, ReplayInv
    <2> QED
      BY <2>1, <2>4, <2>7, Zenon DEF JInv, GateInv, Scanned
  <1>22. ASSUME NEW t \in tokens, TakeRequest(t) PROVE JInv'
    <2>1. /\ UNCHANGED <<pending, rewound, replay, completed, complete, cursor, life, nextJob,
                         jobs>>
          /\ tokens' \subseteq tokens
      BY <1>22, Zenon DEF TakeRequest
    <2>2. GateInv'
      BY <2>1, Zenon DEF JInv, GateInv, Scanned
    <2>3. CASE t.gen = gen
      <3>1. step' = DriveStep /\ ev'.kind = t.use /\ ev'.id = t.id
        BY <1>22, <2>3, TakenRequest
      <3>2. IdsInv'
        BY <2>1, <3>1, Zenon DEF JInv, IdsInv
      <3>3. ReplayInv'
        BY <2>1, <3>1, Zenon DEF JInv, ReplayInv, Replayed, DriveStep, BackfillJobs
      <3> QED
        BY <2>2, <3>2, <3>3, Zenon DEF JInv
    <2>4. CASE t.gen # gen
      <3>1. UNCHANGED <<step, ev>>
        BY <1>22, <2>4, Zenon DEF TakeRequest
      <3> QED
        BY <2>1, <2>2, <3>1, Zenon DEF JInv, IdsInv, ReplayInv, Replayed, BackfillJobs
    <2> QED
      BY <2>3, <2>4, Zenon
  <1>23. ASSUME NEW t \in tokens, JobFailed(t) PROVE JInv'
    <2>1. /\ jobs' = Without(jobs, t.id) /\ replay' = ReplayWithout(t.id)
          /\ step' = "idle" /\ ev' = ev
          /\ UNCHANGED <<pending, rewound, completed, complete, cursor, life, nextJob, tokens>>
          /\ \E j \in jobs : j.id = t.id
      BY <1>23, Zenon DEF JobFailed, Takes, ActiveBackfill
    <2> QED
      BY <2>1, JobRemoved, Zenon
  <1>24. ASSUME NEW t \in tokens, OwnerRetires(t) PROVE JInv'
    <2>1. /\ jobs' = Without(jobs, t.id) /\ replay' = ReplayWithout(t.id)
          /\ step' = "idle" /\ ev' = ev
          /\ UNCHANGED <<pending, rewound, completed, cursor, life, nextJob, tokens>>
          /\ complete' \in {complete, completed}
          /\ \E j \in jobs : j.id = t.id
      BY <1>24, Zenon DEF OwnerRetires, Takes, ActiveJob
    <2> QED
      BY <2>1, JobRemoved, Zenon
  <1>25. ASSUME NEW t \in tokens, DriverLost(t) PROVE JInv'
    <2>1. /\ jobs' = Without(jobs, t.id) /\ replay' = ReplayWithout(t.id)
          /\ step' = "idle" /\ ev' = ev /\ complete' = 0
          /\ UNCHANGED <<pending, rewound, completed, cursor, life, nextJob, tokens>>
          /\ \E j \in jobs : j.id = t.id
      BY <1>25, Zenon DEF DriverLost, Takes, ActiveBackfill
    <2> QED
      BY <2>1, JobRemoved, Zenon
  <1>26. ASSUME NEW t \in tokens, CatchUpDropped(t) PROVE JInv'
    BY <1>0, <1>26, Zenon DEF CatchUpDropped, JInv, IdsInv, ReplayInv, GateInv, Scanned, Replayed,
       StepInv,
       BackfillJobs, Without, Takes, ActiveJob
  <1>27. ASSUME NEW t \in tokens, NEW from \in Block, NEW to \in Block, NEW e \in Nat,
                TakeApply(t, from, to, e)
         PROVE  JInv'
    BY <1>0, <1>27, Zenon DEF TakeApply, JInv, IdsInv, ReplayInv, GateInv, Scanned, Replayed,
       StepInv,
       DriveStep, BackfillJobs, Takes
  <1>28. ASSUME NEW t \in tokens, NEW target \in SyncTargets, TakeFinish(t, target) PROVE JInv'
    BY <1>0, <1>28, Zenon DEF TakeFinish, JInv, IdsInv, ReplayInv, GateInv, Scanned, Replayed,
       StepInv,
       DriveStep, BackfillJobs, Takes, NoEvent, ActiveBackfill
  <1>29. ASSUME NEW from \in Block, NEW target \in 0..MaxBlock, NEW reorg,
                ResetEvent(from, target, reorg)
         PROVE  JInv'
    <2>1. UNCHANGED <<life, nextJob, tokens>> /\ life # "down" /\ step = "idle"
      BY <1>29, Zenon DEF ResetEvent, Takes
    <2>2. CASE AcceptReset(from, target)
      <3>1. /\ jobs' = {} /\ replay' = 0 /\ completed' = 0 /\ rewound' = FALSE
            /\ step' = "rewind" /\ ev'.kind = "reset" /\ pending' # NoReset
            /\ UNCHANGED <<complete, cursor>>
        <4>1. nextIntent \in Nat /\ nextIntent > intent /\ intent \in Nat
          BY <1>29, <2>1, Zenon DEF IInv, StoreInv, StoreType, IntentsMoveOn
        <4>2. pending'.intent = nextIntent
          BY <2>2, Zenon DEF AcceptReset, MergedReset
        <4>3. pending' # NoReset
          BY <4>1, <4>2 DEF NoReset
        <4> QED
          BY <2>2, <4>3, Zenon DEF AcceptReset, ForgetGeneration, NoEvent
      <3>2. GateInv'
        BY <2>1, <3>1, Zero, Zenon DEF JInv, GateInv, Scanned
      <3> QED
        BY <2>1, <3>1, <3>2 DEF JInv, IdsInv, ReplayInv, BackfillJobs
    <2>3. CASE UNCHANGED <<actorVars, loopVars, view, disk, floor>>
      BY <2>1, <2>3, Zenon DEF JInv, IdsInv, ReplayInv, GateInv, Scanned, Replayed, BackfillJobs
    <2> QED
      BY <1>29, <2>2, <2>3, Zenon DEF ResetEvent
  <1>30. ASSUME NEW from \in Block, NEW to \in Block, LiveGap(from, to) PROVE JInv'
    <2> DEFINE job == [id |-> nextJob, gen |-> gen, kind |-> "Backfill", target |-> to]
               own == [id |-> nextJob, gen |-> gen, use |-> "owner", target |-> 0]
    <2>1. /\ pending = NoReset /\ step = "idle" /\ nextJob' = nextJob + 1
          /\ UNCHANGED <<pending, rewound, replay, completed, cursor, life, step, ev>>
          /\ \/ jobs' = jobs \cup {job} /\ tokens' = tokens \cup {own} /\ complete' = 0
             \/ UNCHANGED <<jobs, tokens, complete>>
      BY <1>30, Zenon DEF LiveGap, LiveGate, Takes, Owner
    <2>2. job.id = nextJob /\ own.id = nextJob
      BY Zenon
    <2> HIDE DEF job, own
    <2> QED
      BY <1>e, <2>1, <2>2, Dispatched, Zenon
  <1>31. ASSUME NEW to \in Block, NEW e \in Nat, LiveCommits(to, e) PROVE JInv'
    <2>1. /\ nextJob' = nextJob + 1
          /\ UNCHANGED <<life, pending, rewound, replay, completed, complete, jobs, tokens, ev,
                         step>>
      BY <1>31, Zenon DEF LiveCommits
    <2>2. IdsInv'
      BY <1>e, <2>1, NextId, Zenon DEF JInv
    <2>3. GateInv'
      <3>1. to \in 0..MaxBlock
        BY <1>0 DEF Block
      <3>2. CASE ScanAdmitted(cursor + 1, to, e)
        BY <1>31, <1>a, <2>1, <3>1, <3>2, Zenon DEF LiveCommits
      <3>3. CASE ~ScanAdmitted(cursor + 1, to, e)
        BY <1>31, <2>1, <3>3, Zenon DEF LiveCommits, JInv, GateInv, Scanned
      <3> QED
        BY <3>2, <3>3, Zenon
    <2> QED
      BY <2>1, <2>2, <2>3, Zenon DEF JInv, ReplayInv, Replayed, BackfillJobs
  <1>32. ASSUME NEW to \in Block, LivePersistFails(to) PROVE JInv'
    <2> DEFINE job == [id |-> nextJob, gen |-> gen, kind |-> "Backfill", target |-> to]
               own == [id |-> nextJob, gen |-> gen, use |-> "owner", target |-> 0]
    <2>1. /\ pending = NoReset /\ step = "idle" /\ nextJob' = nextJob + 1
          /\ UNCHANGED <<pending, rewound, replay, completed, cursor, life, step, ev>>
          /\ \/ jobs' = jobs \cup {job} /\ tokens' = tokens \cup {own} /\ complete' = 0
             \/ UNCHANGED <<jobs, tokens, complete>>
      BY <1>32, Zenon DEF LivePersistFails, LiveGate, Takes, Owner
    <2>2. job.id = nextJob /\ own.id = nextJob
      BY Zenon
    <2> HIDE DEF job, own
    <2> QED
      BY <1>e, <2>1, <2>2, Dispatched, Zenon
  <1>33. ASSUME NEW lost \in SUBSET CanLose, Register(lost) PROVE JInv'
    <2>1. /\ UNCHANGED <<jobs, replay, completed, complete, rewound, nextJob, tokens>>
          /\ life = "down" /\ life' = "prepared" /\ step' \in {"rewind", "idle"}
          /\ ev'.kind \in {"startup", "none"}
      BY <1>33, Zenon DEF Register, NoEvent
    <2>2. jobs = {} /\ replay = 0 /\ completed = 0 /\ complete = 0 /\ ~rewound
      BY <1>0, <2>1, Zenon DEF GenInv, JInv, ReplayInv, GateInv
    <2> QED
      BY <2>1, <2>2, Zero, Zenon DEF JInv, IdsInv, ReplayInv, GateInv, Scanned, BackfillJobs
  <1>34. ASSUME Activate PROVE JInv'
    BY <1>0, <1>34, Zenon DEF Activate, JInv, IdsInv, ReplayInv, GateInv, Scanned, Replayed,
       StepInv,
       DriveStep, BackfillJobs, NoEvent
  <1>35. ASSUME ActorEnds PROVE JInv'
    <2>1. /\ jobs' = {} /\ tokens' = {} /\ nextJob' = 1 /\ step' = "idle" /\ ev' = NoEvent
          /\ pending' = NoReset /\ rewound' = FALSE /\ replay' = 0 /\ completed' = 0
          /\ complete' = 0
      BY <1>35, Zenon DEF ActorEnds
    <2>2. IdsInv'
      BY <2>1 DEF IdsInv, NoEvent
    <2> QED
      BY <2>1, <2>2, Zero, Zenon DEF JInv, ReplayInv, GateInv, Scanned
  <1>36. ASSUME ReorgUnseen PROVE JInv'
    BY <1>0, <1>36, Zenon DEF ReorgUnseen, JInv, IdsInv, ReplayInv, GateInv, Scanned, Replayed,
       StepInv,
       BackfillJobs
  <1>37. ASSUME NEW from \in Block, Reorg(from) PROVE JInv'
    <2>1. /\ UNCHANGED <<jobs, tokens, pending, rewound, replay, completed, life, nextJob>>
          /\ UNCHANGED <<step, ev, complete, cursor>>
      BY <1>37, Zenon DEF Reorg, actorVars, loopVars
    <2> QED
      BY <2>1, Zenon DEF JInv, IdsInv, ReplayInv, GateInv, Scanned, Replayed, BackfillJobs
  <1>38. ASSUME NEW use \in {"start", "reserve"}, NEW target \in SyncTargets,
                Request(use, target)
         PROVE  JInv'
    <2>1. /\ nextJob' = nextJob + 1 /\ life = "active"
          /\ UNCHANGED <<life, pending, rewound, replay, completed, complete, cursor, jobs, ev,
                         step>>
      BY <1>38, Zenon DEF Request
    <2> DEFINE new == [id |-> nextJob, gen |-> gen, use |-> use, target |-> target]
    <2>a. tokens' = tokens \cup {new} /\ new.id = nextJob
      BY <1>38, Zenon DEF Request
    <2> HIDE DEF new
    <2>2. \A t \in tokens' : t \in tokens \/ t.id = nextJob
      BY <2>a, Zenon
    <2>3. IdsInv'
      BY <1>e, <2>1, <2>2, NextId, Zenon DEF JInv
    <2> QED
      BY <2>1, <2>3, Zenon DEF JInv, ReplayInv, GateInv, Scanned, Replayed, BackfillJobs
  <1>39. ASSUME Waits PROVE JInv'
    BY <1>39, Zenon DEF Waits, vars, JInv, IdsInv, ReplayInv, GateInv, Scanned, Replayed,
       BackfillJobs
  <1>40. CASE UNCHANGED vars
    BY <1>40, Zenon DEF vars, JInv, IdsInv, ReplayInv, GateInv, Scanned, Replayed, BackfillJobs
  <1>47. ASSUME PoiRefresh PROVE JInv'
    BY <1>47, Zenon DEF PoiRefresh, JInv, IdsInv, ReplayInv, GateInv, Scanned, Replayed,
       BackfillJobs
  <1>48. ASSUME PoiDelta PROVE JInv'
    BY <1>48, Zenon DEF PoiDelta, JInv, IdsInv, ReplayInv, GateInv, Scanned, Replayed, BackfillJobs
  <1> HIDE DEF JInv
  <1>41. CASE Drive
    BY <1>1, <1>2, <1>3, <1>4, <1>5, <1>6, <1>7, <1>8, <1>41, Zenon DEF Drive
  <1>42. CASE Handle
    BY <1>9, <1>10, <1>11, <1>12, <1>13, <1>14, <1>15, <1>16, <1>17, <1>18, <1>19, <1>42,
       <1>45, <1>46, Zenon DEF Handle
  <1>43. CASE Mailbox
    <2>1. epoch \in Nat /\ \A e \in 0..epoch : e \in Nat
      BY DEF IInv, StoreInv, StoreType
    <2>2. ASSUME NEW target \in SyncTargets, ReorgReset(target) PROVE JInv'
      <3>1. orphan \in 0..MaxBlock /\ target \in 0..MaxBlock
        BY Bounds, Zenon DEF IInv, StepInv
      <3>2. Larger(orphan, Start) \in Block
        BY <2>2, <3>1, Bounds DEF Larger, Block
      <3>3. ResetEvent(Larger(orphan, Start), target, TRUE)
        BY <2>2, Zenon DEF ReorgReset
      <3> QED
        BY <1>29, <3>1, <3>2, <3>3, Zenon
    <2>3. ASSUME NEW target \in SyncTargets, NEW from \in Block, UserReset(from, target)
          PROVE  JInv'
      <3>1. ResetEvent(from, target, FALSE) /\ target \in 0..MaxBlock
        BY <2>3, Bounds, Zenon DEF UserReset
      <3> QED
        BY <1>29, <3>1, Zenon
    <2>4. ASSUME NEW t \in tokens, NEW from \in Block, NEW to \in Block, NEW e \in 0..epoch,
                 TakeApply(t, from, to, e)
          PROVE  JInv'
      BY <1>27, <2>1, <2>4, Zenon
    <2>5. ASSUME NEW to \in Block, NEW e \in 0..epoch, LiveCommits(to, e)
          PROVE  JInv'
      BY <1>31, <2>1, <2>5, Zenon
    <2> QED
      BY <1>20, <1>21, <1>22, <1>23, <1>24, <1>25, <1>26, <1>28, <1>30, <1>32, <1>43,
         <1>47, <1>48, <2>2, <2>3, <2>4, <2>5, Zenon DEF Mailbox
  <1>44. CASE Outside
    BY <1>33, <1>34, <1>35, <1>36, <1>37, <1>38, <1>44, Zenon DEF Outside
  <1> QED
    BY <1>39, <1>40, <1>41, <1>42, <1>43, <1>44, Zenon DEF Next

-----------------------------------------------------------------------------
(* The theorems.                                                           *)

\* Both invariants hold in every reachable state.
THEOREM WalletInvariant == Spec => [](IInv /\ JInv)
  <1>1. Init => JInv
    BY Bounds DEF Init, JInv, IdsInv, ReplayInv, GateInv, Scanned, NoEvent, BackfillJobs
  <1> QED
    BY <1>1, WalletInit, WalletNext, ReplayNext, PTL DEF Spec

\* No stale row is shown or survives a retired record, however resets,
\* reorganisations, late rows, failed writes and restarts interleave.
THEOREM WalletNoStaleRows == Spec => []NoStaleRows
  <1>1. IInv => NoStaleRows
    <2>1. ASSUME IInv, NEW rows \in {disk.rows, utxos}, disk.pending = NoReset
          PROVE  Fresh(rows)
      <3> SUFFICES ASSUME NEW b \in Block, rows[b] # NoRow PROVE rows[b] >= floor[b]
        BY Zenon DEF Fresh
      <3>1. rows[b] \in Nat /\ floor[b] \in Nat
        BY <2>1, Zenon DEF IInv, StoreInv, StoreType, Rows, NoRow
      <3>2. Covered(disk.rows) /\ Covered(utxos)
        BY <2>1, Zenon DEF IInv, StoreInv, StaleIsCovered
      <3>3. Covered(rows)
        BY <3>2
      <3>4. ~(rows[b] < floor[b])
        BY <2>1, <3>3, Zenon DEF Covered
      <3> QED
        BY <3>1, <3>4
    <2>2. ASSUME IInv, disk.pending # NoReset, view = "Current"
          PROVE  Fresh(disk.rows) /\ Fresh(utxos)
      BY <2>2, Zenon DEF IInv, StoreInv, ViewInv, MirrorsStore
    <2> QED
      BY <2>1, <2>2, Zenon DEF NoStaleRows
  <1> QED
    BY <1>1, WalletInvariant, PTL

\* The checkpoint on disk says exactly which blocks the cache holds.
THEOREM WalletCheckpoint == Spec => []CheckpointExact
  <1>1. IInv => CheckpointExact
    BY Zenon DEF IInv, StoreInv
  <1> QED
    BY <1>1, WalletInvariant, PTL

\* What the actor believes to be durable is what is on disk.
THEOREM WalletMirrorsStore == Spec => []MirrorsStore
  <1>1. IInv => MirrorsStore
    BY Zenon DEF IInv, StoreInv
  <1> QED
    BY <1>1, WalletInvariant, PTL

\* A wallet that missed no rows shows those of every block up to its cursor.
LEMMA HeldUpToCursor ==
  ASSUME IInv, life # "down", "rows" \notin missed, NEW to \in 0..MaxBlock, to <= cursor
  PROVE  \A b \in Start..to : utxos[b] # NoRow
  <1> SUFFICES ASSUME NEW b \in Start..to PROVE utxos[b] # NoRow
    BY Zenon
  <1>1. /\ cursor \in 0..MaxBlock /\ disk.cursor \in 0..MaxBlock
        /\ cursor = disk.cursor \/ cursor = Start - 1
    BY Zenon DEF IInv, StoreInv, StoreType, MirrorsStore
  <1>2. b \in Start..MaxBlock /\ b <= disk.cursor
    BY <1>1, Bounds
  <1> QED
    BY <1>2, Zenon DEF IInv, StoreInv, CheckpointExact, HeldInv

\* A wallet that reports Ready holds fresh rows up to its completed target.
THEOREM WalletReadyIsScanned == Spec => []ReadyIsScanned
  <1>1. IInv /\ NoStaleRows => ReadyIsScanned
    <2> SUFFICES ASSUME IInv, NoStaleRows, Readiness = "Ready"
                 PROVE  /\ Fresh(utxos)
                        /\ "rows" \notin missed => \A b \in Start..completed : utxos[b] # NoRow
      BY Zenon DEF ReadyIsScanned
    <2>1. life # "down" /\ pending = NoReset /\ ~(cursor < completed) /\ completed # 0
      BY Zenon DEF Readiness
    <2>2. Fresh(utxos)
      <3>1. view = "Current"
        BY <2>1, Zenon DEF IInv, StoreInv, StoreType, ViewInv
      <3> QED
        BY <3>1, Zenon DEF NoStaleRows
    <2>3. completed <= cursor
      BY <2>1, Bounds DEF IInv, JobsInv, StoreInv, StoreType
    <2> QED
      BY <2>1, <2>2, <2>3, HeldUpToCursor, Zenon DEF IInv, JobsInv
  <1> QED
    BY <1>1, WalletInvariant, WalletNoStaleRows, PTL

\* Intents the service hands out were never accepted before.
THEOREM WalletIntents == Spec => []IntentsMoveOn
  <1>1. IInv => IntentsMoveOn
    BY Zenon DEF IInv, StoreInv
  <1> QED
    BY <1>1, WalletInvariant, PTL

\* Jobs, failures and requirements are of the current generation.
THEOREM WalletScoped == Spec => []ScopedToGeneration
  <1>1. IInv => ScopedToGeneration
    BY DEF IInv, GenInv, ScopedToGeneration
  <1> QED
    BY <1>1, WalletInvariant, PTL

\* The published view and the readiness agree as WalletObservation asserts.
THEOREM WalletObservationConsistent == Spec => []ObservationConsistent
  <1>1. IInv => ObservationConsistent
    BY Zenon DEF IInv, StoreInv, ViewInv, ObservationConsistent, Readiness
  <1> QED
    BY <1>1, WalletInvariant, PTL

\* The live gate stands at a block up to which the wallet shows rows, whatever
\* jobs, resets, refreshes and failed writes come in between
\* (complete_backfill_job, the gate of run_wallet_worker).
THEOREM WalletLiveAfterScan == Spec => []LiveAfterScan
  <1>1. IInv /\ JInv => LiveAfterScan
    <2> SUFFICES ASSUME IInv, JInv, "rows" \notin missed, NEW b \in Start..complete
                 PROVE  utxos[b] # NoRow
      BY Zenon DEF LiveAfterScan
    <2>1. /\ complete \in 0..MaxBlock /\ complete <= cursor /\ life # "down"
      BY Bounds DEF IInv, StoreInv, StoreType, JInv, GateInv, Scanned
    <2> QED
      BY <2>1, HeldUpToCursor, Zenon
  <1> QED
    BY <1>1, WalletInvariant, PTL

\* A durable replay plan is retired only after its rewind, and with its replay job
\* under way or its target completed (try_drive_pending_reset).
THEOREM WalletRetiredWithReplay == Spec => RetiredWithReplay
  <1>1. IInv /\ JInv /\ [Next]_vars => [RetiresWithReplay]_vars
    <2> SUFFICES ASSUME IInv, JInv, Next, pending # NoReset, pending' = NoReset, life' # "down"
                 PROVE  rewound /\ Replayed
      BY Zenon DEF Replayed, RetiresWithReplay
    <2>1. step = "retire" => rewound /\ Replayed
      BY DEF IInv, StepInv, JInv, ReplayInv
    <2> USE DEF actorVars, envVars
    <2>2. CASE Drive
      BY <2>1, <2>2, Zenon DEF Drive, RewindCommits, RewindFails, AdmitCompleted, AdmitQueued,
                        AdmitRefused, RetirePlan, RetirePlanFails, Driven
    <2>3. CASE Handle
      <3>1. RequestRefused \/ StartAccepted \/ ReserveAccepted => pending' = pending
        BY Zenon DEF RequestRefused, StartAccepted, ReserveAccepted
      <3>2. ApplyWhilePending \/ ApplyRefused => pending' = pending
        BY Zenon DEF ApplyWhilePending, ApplyRefused
      <3>4. ApplyPersistFails => pending' = pending
        BY Zenon DEF ApplyPersistFails
      <3>5. ApplyCommits => pending' = pending
        BY Zenon DEF ApplyCommits
      <3>3. FinishWhilePending \/ FinishTooEarly \/ FinishCompletes \/ FinishPersistFails
              => pending' = pending
        BY Zenon DEF FinishWhilePending, FinishTooEarly, FinishCompletes, FinishPersistFails
      <3>6. FinishCorpusMoved \/ FinishRejected => pending' = pending
        BY Zenon DEF FinishCorpusMoved, FinishRejected
      <3> QED
        BY <2>3, <3>1, <3>2, <3>3, <3>4, <3>5, <3>6, Zenon DEF Handle
    <2>4. ASSUME NEW from, NEW target, NEW reorg, ResetEvent(from, target, reorg)
          PROVE  FALSE
      <3>1. life = life' /\ nextIntent \in Nat /\ intent \in Nat /\ nextIntent > intent
        BY <2>4, Zenon DEF ResetEvent, Takes, IInv, StoreInv, StoreType, IntentsMoveOn
      <3>2. AcceptReset(from, target) => pending'.intent = nextIntent
        BY DEF AcceptReset, MergedReset
      <3>3. AcceptReset(from, target) \/ UNCHANGED <<actorVars, loopVars, view, disk, floor>>
        BY <2>4, Zenon DEF ResetEvent
      <3>4. CASE AcceptReset(from, target)
        BY <3>1, <3>2, <3>4 DEF NoReset
      <3> QED
        BY <3>3, <3>4, Zenon
    <2>5. CASE Mailbox
      <3>1. RetryTick \/ ClaimCatchUp \/ PoiRefresh \/ PoiDelta => pending' = pending
        BY Zenon DEF RetryTick, ClaimCatchUp, PoiRefresh, PoiDelta
      <3>2. \A t : \/ TakeRequest(t) \/ JobFailed(t) \/ OwnerRetires(t) \/ DriverLost(t)
                  \/ CatchUpDropped(t)
                    => pending' = pending
        BY Zenon DEF TakeRequest, JobFailed, OwnerRetires, DriverLost, CatchUpDropped
      <3>3. \A t, from, to, e : TakeApply(t, from, to, e) => pending' = pending
        BY Zenon DEF TakeApply
      <3>4. \A t, target : TakeFinish(t, target) => pending' = pending
        BY Zenon DEF TakeFinish
      <3>5. \A from, to : LiveGap(from, to) => pending' = pending
        BY Zenon DEF LiveGap
      <3>7. \A to, e : LiveCommits(to, e) => pending' = pending
        BY Zenon DEF LiveCommits
      <3>8. \A to : LivePersistFails(to) => pending' = pending
        BY Zenon DEF LivePersistFails
      <3>6. \A from, target : ~UserReset(from, target) /\ ~ReorgReset(target)
        BY <2>4, ZenonT(30) DEF UserReset, ReorgReset
      <3> QED
        BY <2>5, <3>1, <3>2, <3>3, <3>4, <3>5, <3>6, <3>7, <3>8, Zenon DEF Mailbox
    <2>6. CASE Outside \/ Waits
      BY <2>6, Zenon DEF Outside, Waits, Register, Activate, ActorEnds, ReorgUnseen, Reorg,
         Request, vars,
         IInv, StoreInv, ViewInv
    <2> QED
      BY <2>2, <2>3, <2>5, <2>6, Zenon DEF Next
  <1> QED
    BY <1>1, WalletInvariant, PTL DEF Spec, RetiredWithReplay
=============================================================================
