-------------------------- MODULE WalletRegistration --------------------------
(***************************************************************************)
(* The chain service's one wallet slot (`ChainService::wallet`) and the    *)
(* calls that fill and empty it: register_wallet, replace_wallet,          *)
(* unregister_wallet, unregister_all_wallets, shutdown, reset_wallet and   *)
(* reset_wallets, and the reaper task spawned with every activated actor.  *)
(* All of them take `wallet_registration_gate`, a fair tokio mutex, and    *)
(* hold it across their awaits: the acknowledgement of the backfill loop,  *)
(* the join of the old worker, the start of the new one, the answer to a   *)
(* reset.  The future of any call but replace_wallet (which runs in a task *)
(* of its own) may be dropped at an await; the gate is then released and   *)
(* the worker's JoinHandle detached.                                       *)
(*                                                                         *)
(* A wallet actor is a lifecycle cell and a worker task.  Its cache on     *)
(* disk is a version per cache key: a registration reads it, and every     *)
(* durable commit writes the version after the one the actor holds.  A     *)
(* registration whose read fails goes on with an empty cache (version 0).  *)
(***************************************************************************)
EXTENDS Naturals, Sequences

CONSTANTS
    Keys,       \* wallet cache keys
    Callers,    \* tasks that call the service
    MaxCall,    \* bound: calls made in all, hence actors
    MaxCommit,  \* bound: commits of a cache
    MaxFault    \* bound: worker panics and reads of the store that fail

ASSUME RegistrationAssumption ==
    /\ MaxCall \in Nat /\ MaxCommit \in Nat /\ MaxFault \in Nat
    /\ Keys # {}
    /\ Callers \cap 0 .. MaxCall = {}

Actors == 1 .. MaxCall
NoActor == 0
Tasks == Callers \cup Actors  \* the reaper of actor a is the task a

VARIABLES
    shut,      \* ChainService::cancel, the parent of every actor's token
    loop,      \* the backfill loop still runs
    slot,      \* ChainService::wallet: the registered actor, or NoActor
    line,      \* wallet_registration_gate: the holder, then the waiters
    task,      \* the calls and the reapers
    act,       \* the actors
    detached,  \* actors whose JoinHandle was dropped
    disk,      \* the version of each wallet cache
    returned,  \* a shutdown() call has returned
    calls,     \* calls made so far
    faults     \* worker panics and failed reads so far

vars == <<shut, loop, slot, line, task, act, detached, disk, returned, calls, faults>>

Lifecycles == {"none", "prepared", "active", "stopping", "retired"}
Ops == {"register", "replace", "unregister", "unregister_all", "shutdown", "reset", "reap"}
Stages == {"idle", "watching", "gate", "register", "read", "prepare", "starting",
           "installing", "undo", "ack", "join", "resetting", "done"}

AnyKey == CHOOSE k \in Keys : TRUE

NoCall ==
    [op |-> "reap", key |-> AnyKey, reg |-> NoActor, stage |-> "idle",
     next |-> "idle", failed |-> FALSE, base |-> 0, blind |-> FALSE]

NoOne ==
    [life |-> "none", key |-> AnyKey, cancel |-> FALSE, worker |-> "none", view |-> 0,
     blind |-> FALSE]

Init ==
    /\ shut = FALSE
    /\ loop = TRUE
    /\ slot = NoActor
    /\ line = <<>>
    /\ task = [t \in Tasks |-> NoCall]
    /\ act = [a \in Actors |-> NoOne]
    /\ detached = {}
    /\ disk = [k \in Keys |-> 0]
    /\ returned = FALSE
    /\ calls = 0
    /\ faults = 0

Holds(t) == line # <<>> /\ Head(line) = t
At(t, stage) == Holds(t) /\ task[t].stage = stage

Cancelled(a) == shut \/ act[a].cancel

AllowsDurableCommits(life) == life \in {"prepared", "active"}

(***************************************************************************)
(* wallet_registration_is_terminal: retirement flips identity and          *)
(* lifecycle together, and the readiness of a stopping or retired actor is *)
(* Shutdown, so the lifecycle and the worker decide.                       *)
(***************************************************************************)
Terminal(a) == ~AllowsDurableCommits(act[a].life) \/ act[a].worker = "ended"

\* mark_retired under the lifecycle fence, and the actor's token cancelled.
Retired(a) == [act EXCEPT ![a].life = "retired", ![a].cancel = TRUE]

\* The call leaves the gate; a reaper ends, a caller may call again.
Leave(t) ==
    /\ line' = Tail(line)
    /\ task' = [task EXCEPT ![t] =
                   [NoCall EXCEPT !.stage = IF t \in Callers THEN "idle" ELSE "done"]]

\* wallet.take(), begin_wallet_retirement / begin_wallet_shutdown, and the
\* start of finish_wallet_retirement; `next` is where the call goes after it.
TakeAndRetire(t, a, next) ==
    /\ slot' = NoActor
    /\ act' = Retired(a)
    /\ task' = [task EXCEPT ![t].stage = "ack", ![t].reg = a, ![t].next = next]
    /\ UNCHANGED line

-----------------------------------------------------------------------------
(***************************************************************************)
(* Calls.  shutdown() cancels the service before it waits for the gate; an *)
(* unregister carries the handle of some actor that was handed out.        *)
(***************************************************************************)
Call(c, op, k, a) ==
    /\ op # "reap" /\ task[c].stage = "idle" /\ calls < MaxCall
    /\ IF op = "unregister" THEN a \in Actors /\ task[a].stage # "idle" ELSE a = NoActor
    /\ op \in {"register", "replace", "reset"} \/ k = AnyKey
    /\ calls' = calls + 1
    /\ task' = [task EXCEPT ![c] = [NoCall EXCEPT !.op = op, !.stage = "gate", !.key = k, !.reg = a]]
    /\ line' = Append(line, c)
    /\ shut' = (shut \/ op = "shutdown")
    /\ UNCHANGED <<loop, slot, act, detached, disk, returned, faults>>

\* register_wallet_locked, up to the decision about the existing registration.
RegisterLocked(t) ==
    \/ /\ \/ shut
          \/ slot # NoActor /\ ~Terminal(slot)
       /\ Leave(t)
       /\ UNCHANGED <<slot, act>>
    \/ /\ ~shut /\ slot = NoActor
       /\ task' = [task EXCEPT ![t].stage = "read"]
       /\ UNCHANGED <<line, slot, act>>
    \/ /\ ~shut /\ slot # NoActor /\ Terminal(slot)
       /\ TakeAndRetire(t, slot, "read")

EnterRegister(t) ==
    /\ \/ At(t, "gate") /\ task[t].op = "register"
       \/ At(t, "register")
    /\ RegisterLocked(t)
    /\ UNCHANGED <<shut, loop, detached, disk, returned, calls, faults>>

EnterReplace(t) ==
    /\ At(t, "gate") /\ task[t].op = "replace"
    /\ \/ /\ shut
          /\ Leave(t)
          /\ UNCHANGED <<slot, act>>
       \/ /\ ~shut /\ slot = NoActor
          /\ task' = [task EXCEPT ![t].stage = "register"]
          /\ UNCHANGED <<line, slot, act>>
       \/ /\ ~shut /\ slot # NoActor
          /\ TakeAndRetire(t, slot, "register")
    /\ UNCHANGED <<shut, loop, detached, disk, returned, calls, faults>>

\* unregister_wallet takes the slot only from the actor of its handle.
EnterUnregister(t) ==
    /\ At(t, "gate") /\ task[t].op = "unregister"
    /\ \/ /\ slot # task[t].reg
          /\ Leave(t)
          /\ UNCHANGED <<slot, act>>
       \/ /\ slot = task[t].reg
          /\ TakeAndRetire(t, slot, "idle")
    /\ UNCHANGED <<shut, loop, detached, disk, returned, calls, faults>>

\* unregister_all_wallets and shutdown take whatever is registered.
EnterTakeAny(t) ==
    /\ At(t, "gate") /\ task[t].op \in {"unregister_all", "shutdown"}
    /\ \/ /\ slot = NoActor
          /\ Leave(t)
          /\ returned' = (returned \/ task[t].op = "shutdown")
          /\ UNCHANGED <<slot, act>>
       \/ /\ slot # NoActor
          /\ TakeAndRetire(t, slot, "idle")
          /\ UNCHANGED returned
    /\ UNCHANGED <<shut, loop, detached, disk, calls, faults>>

\* A reaper that does not look whose registration it takes.
EnterReapAny(t) ==
    /\ At(t, "gate") /\ task[t].op = "reap"
    /\ \/ /\ slot = NoActor
          /\ Leave(t)
          /\ UNCHANGED <<slot, act>>
       \/ /\ slot # NoActor
          /\ TakeAndRetire(t, slot, "idle")
    /\ UNCHANGED <<shut, loop, detached, disk, returned, calls, faults>>

\* reap_terminal_wallet_registration: the exact actor, and only if terminal.
EnterReap(t) ==
    /\ At(t, "gate") /\ task[t].op = "reap"
    /\ \/ /\ slot # t \/ ~Terminal(t)
          /\ Leave(t)
          /\ UNCHANGED <<slot, act>>
       \/ /\ slot = t /\ Terminal(t)
          /\ TakeAndRetire(t, t, "idle")
    /\ UNCHANGED <<shut, loop, detached, disk, returned, calls, faults>>

\* reset_wallet, and reset_wallets for the key that is registered: the reset
\* goes to the actor of the slot, and the gate is held until it is answered.
EnterReset(t) ==
    /\ At(t, "gate") /\ task[t].op = "reset"
    /\ \/ /\ slot # NoActor => act[slot].key # task[t].key
          /\ Leave(t)
       \/ /\ slot # NoActor /\ act[slot].key = task[t].key
          /\ task' = [task EXCEPT ![t].stage = "resetting", ![t].reg = slot]
          /\ UNCHANGED line
    /\ UNCHANGED <<shut, loop, slot, act, detached, disk, returned, calls, faults>>

\* The worker answers, whatever it does with the request, or drops it when it
\* stops: send_wallet_reset returns in both cases.
ResetAnswered(t) ==
    /\ At(t, "resetting")
    /\ \/ act[task[t].reg].life = "active" /\ act[task[t].reg].worker = "running"
       \/ act[task[t].reg].worker \in {"dead", "ended"}
    /\ Leave(t)
    /\ UNCHANGED <<shut, loop, slot, act, detached, disk, returned, calls, faults>>

-----------------------------------------------------------------------------
(***************************************************************************)
(* finish_wallet_retirement: the Remove request is acknowledged by the     *)
(* backfill loop, or fails because the loop is gone; the worker is joined  *)
(* in both cases, and the first error is the call's error.                 *)
(***************************************************************************)
Acknowledged(t) ==
    /\ At(t, "ack")
    /\ task' = [task EXCEPT ![t].stage = "join", ![t].failed = ~loop]
    /\ UNCHANGED <<shut, loop, slot, line, act, detached, disk, returned, calls, faults>>

\* What the call does with the result of the retirement.
Joined(t) ==
    /\ At(t, "join")
    /\ act[task[t].reg].worker = "ended"
    /\ \/ /\ task[t].failed \/ task[t].next = "idle"
          /\ Leave(t)
       \/ /\ ~task[t].failed /\ task[t].next # "idle"
          /\ task' = [task EXCEPT ![t].stage = task[t].next, ![t].reg = NoActor]
          /\ UNCHANGED line
    /\ shut' = (shut \/ (task[t].op = "reap" /\ task[t].failed))
    /\ returned' = (returned \/ task[t].op = "shutdown")
    /\ UNCHANGED <<loop, slot, act, detached, disk, calls, faults>>

-----------------------------------------------------------------------------
(***************************************************************************)
(* The rest of register_wallet_locked: read the stored cursor and UTXOs,   *)
(* start a prepared worker, wait for its first attempt at a restored       *)
(* reset, install the registration, activate.  An error of get_wallet_meta *)
(* is ignored and one of load_wallet_utxos logged: the registration goes   *)
(* on without what the store holds (of an empty store that is the same).   *)
(***************************************************************************)
ReadStore(t) ==
    /\ At(t, "read")
    /\ \/ /\ task' = [task EXCEPT ![t].stage = "prepare", ![t].base = disk[task[t].key]]
          /\ UNCHANGED faults
       \/ /\ faults < MaxFault /\ disk[task[t].key] # 0
          /\ task' = [task EXCEPT ![t].stage = "prepare", ![t].blind = TRUE]
          /\ faults' = faults + 1
    /\ UNCHANGED <<shut, loop, slot, line, act, detached, disk, returned, calls>>

\* Actors are numbered in the order in which they are spawned.
SpawnPrepared(t) ==
    /\ At(t, "prepare")
    /\ \E a \in Actors :
        /\ act[a].life = "none"
        /\ \A b \in 1 .. a - 1 : act[b].life # "none"
        /\ act' = [act EXCEPT ![a] =
                     [life |-> "prepared", key |-> task[t].key, cancel |-> FALSE,
                      worker |-> "running", view |-> task[t].base, blind |-> task[t].blind]]
        /\ task' = [task EXCEPT ![t].stage = "starting", ![t].reg = a]
    /\ UNCHANGED <<shut, loop, slot, line, detached, disk, returned, calls, faults>>

\* The stored sync state cannot be read, or a stored reset plan is not valid.
PrepareFails(t) ==
    /\ At(t, "read") \/ At(t, "prepare")
    /\ Leave(t)
    /\ UNCHANGED <<shut, loop, slot, act, detached, disk, returned, calls, faults>>

\* The worker died before it signalled its attempt: PreparedWalletWorker is dropped.
StartupLost(t) ==
    /\ At(t, "starting") /\ act[task[t].reg].worker \in {"dead", "ended"}
    /\ Leave(t)
    /\ act' = Retired(task[t].reg)
    /\ detached' = detached \cup {task[t].reg}
    /\ UNCHANGED <<shut, loop, slot, disk, returned, calls, faults>>

Started(t) ==
    /\ At(t, "starting")
    /\ \/ /\ shut
          /\ act' = Retired(task[t].reg)
          /\ task' = [task EXCEPT ![t].stage = "join", ![t].next = "idle"]
       \/ /\ ~shut
          /\ task' = [task EXCEPT ![t].stage = "installing"]
          /\ UNCHANGED act
    /\ UNCHANGED <<shut, loop, slot, line, detached, disk, returned, calls, faults>>

\* Install under the wallet lock, then activate without an await in between.
\* A worker that died meanwhile makes activate fail, which drops the
\* prepared worker and so retires the actor.
Install(t) ==
    /\ At(t, "installing")
    /\ LET a == task[t].reg IN
       \/ /\ shut
          /\ act' = Retired(a)
          /\ task' = [task EXCEPT ![t].stage = "ack", ![t].next = "idle"]
          /\ UNCHANGED <<slot, line>>
       \/ /\ ~shut /\ act[a].life = "prepared" /\ act[a].worker = "running"
          /\ slot' = a
          /\ act' = [act EXCEPT ![a].life = "active"]
          /\ line' = Tail(line)
          /\ task' = [task EXCEPT ![t] = NoCall, ![a] = [NoCall EXCEPT !.stage = "watching"]]
       \/ /\ ~shut /\ (act[a].life # "prepared" \/ act[a].worker # "running")
          /\ slot' = a
          /\ act' = Retired(a)
          /\ task' = [task EXCEPT ![t].stage = "undo"]
          /\ UNCHANGED line
    /\ UNCHANGED <<shut, loop, detached, disk, returned, calls, faults>>

\* Activation failed: the registration is taken out again and retired.
UndoInstall(t) ==
    /\ At(t, "undo")
    /\ TakeAndRetire(t, slot, "idle")
    /\ UNCHANGED <<shut, loop, detached, disk, returned, calls, faults>>

-----------------------------------------------------------------------------
\* The line s without its i-th member.
RemoveAt(s, i) == SubSeq(s, 1, i - 1) \o SubSeq(s, i + 1, Len(s))

\* The caller drops its future at an await and does not retire what it prepared.
ForgetCall(c) ==
    /\ task[c].stage # "idle" /\ task[c].op # "replace"
    /\ \E i \in 1 .. Len(line) : line[i] = c /\ line' = RemoveAt(line, i)
    /\ task' = [task EXCEPT ![c] = NoCall]
    /\ detached' = IF task[c].stage \in {"starting", "installing", "ack", "join"}
                   THEN detached \cup {task[c].reg} ELSE detached
    /\ UNCHANGED <<shut, loop, slot, act, disk, returned, calls, faults>>

(***************************************************************************)
(* The caller drops its future at an await.  A prepared worker is retired  *)
(* by PreparedWalletWorker::drop; a registration being retired is retired  *)
(* already.  The worker is left to end by itself.                          *)
(***************************************************************************)
DropCall(c) ==
    /\ task[c].stage # "idle" /\ task[c].op # "replace"
    /\ \E i \in 1 .. Len(line) : line[i] = c /\ line' = RemoveAt(line, i)
    /\ task' = [task EXCEPT ![c] = NoCall]
    /\ act' = IF task[c].stage \in {"starting", "installing"}
              THEN Retired(task[c].reg) ELSE act
    /\ detached' = IF task[c].stage \in {"starting", "installing", "ack", "join"}
                   THEN detached \cup {task[c].reg} ELSE detached
    /\ UNCHANGED <<shut, loop, slot, disk, returned, calls, faults>>

-----------------------------------------------------------------------------
(***************************************************************************)
(* The worker task.  A durable commit runs under the lifecycle fence; an   *)
(* active worker ends when its token is cancelled and then publishes its   *)
(* terminal observation, unless retirement came first; a prepared worker   *)
(* ends when its activation sender is dropped.                             *)
(***************************************************************************)
CanCommit(a) ==
    /\ act[a].worker = "running"
    /\ AllowsDurableCommits(act[a].life)
    /\ ~Cancelled(a)

\* A variant: the commit does not look at the lifecycle.
CommitsUnfenced(a) ==
    /\ act[a].worker = "running" /\ act[a].view < MaxCommit
    /\ act' = [act EXCEPT ![a].view = @ + 1]
    /\ disk' = [disk EXCEPT ![act[a].key] = act[a].view + 1]
    /\ UNCHANGED <<shut, loop, slot, line, task, detached, returned, calls, faults>>

Commit(a) ==
    /\ CanCommit(a) /\ act[a].view < MaxCommit
    /\ act' = [act EXCEPT ![a].view = @ + 1]
    /\ disk' = [disk EXCEPT ![act[a].key] = act[a].view + 1]
    /\ UNCHANGED <<shut, loop, slot, line, task, detached, returned, calls, faults>>

CanEnd(a) ==
    /\ act[a].worker = "running"
    /\ act[a].life = "retired" \/ (act[a].life = "active" /\ Cancelled(a))

WorkerEnds(a) ==
    /\ CanEnd(a)
    /\ act' = [act EXCEPT ![a].worker = "ended",
                          ![a].life = IF @ = "active" THEN "stopping" ELSE @]
    /\ UNCHANGED <<shut, loop, slot, line, task, detached, disk, returned, calls, faults>>

WorkerPanics(a) ==
    /\ act[a].worker = "running" /\ faults < MaxFault
    /\ act' = [act EXCEPT ![a].worker = "dead"]
    /\ faults' = faults + 1
    /\ UNCHANGED <<shut, loop, slot, line, task, detached, disk, returned, calls>>

\* terminalize_panicked_actor, and the end of the supervising task.
Terminalize(a) ==
    /\ act[a].worker = "dead"
    /\ act' = [act EXCEPT ![a].worker = "ended",
                          ![a].life = IF AllowsDurableCommits(@) THEN "stopping" ELSE @]
    /\ UNCHANGED <<shut, loop, slot, line, task, detached, disk, returned, calls, faults>>

\* A variant: the reaper does not see the readiness of an actor that stopped by itself.
WakesRetired(a) == task[a].stage = "watching" /\ act[a].life = "retired"

\* The terminal reaper waits for the Shutdown readiness, then for the gate.
CanWake(a) == task[a].stage = "watching" /\ act[a].life \in {"stopping", "retired"}

ReaperWakes(a) ==
    /\ CanWake(a)
    /\ task' = [task EXCEPT ![a].stage = "gate"]
    /\ line' = Append(line, a)
    /\ UNCHANGED <<shut, loop, slot, act, detached, disk, returned, calls, faults>>

\* The backfill loop ends with the service (chain/workers.rs).
LoopExits ==
    /\ shut /\ loop
    /\ loop' = FALSE
    /\ UNCHANGED <<shut, slot, line, task, act, detached, disk, returned, calls, faults>>

Calls == \E c \in Callers, op \in Ops, k \in Keys, a \in {NoActor} \cup Actors : Call(c, op, k, a)

TaskStep(t) ==
    \/ EnterRegister(t) \/ EnterReplace(t) \/ EnterUnregister(t) \/ EnterTakeAny(t)
    \/ EnterReap(t) \/ EnterReset(t) \/ ResetAnswered(t) \/ Acknowledged(t) \/ Joined(t)
    \/ ReadStore(t) \/ SpawnPrepared(t) \/ PrepareFails(t) \/ StartupLost(t) \/ Started(t) \/ Install(t) \/ UndoInstall(t)

ActorStep(a) == WorkerEnds(a) \/ Terminalize(a) \/ ReaperWakes(a)

\* Nothing is left to do.
Rests ==
    /\ calls = MaxCall /\ line = <<>>
    /\ \A a \in Actors : ~CanEnd(a) /\ act[a].worker # "dead" /\ ~CanWake(a)
    /\ UNCHANGED vars

Next ==
    \/ Calls
    \/ \E t \in Tasks : TaskStep(t)
    \/ \E c \in Callers : DropCall(c)
    \/ \E a \in Actors : Commit(a) \/ WorkerPanics(a) \/ ActorStep(a)
    \/ LoopExits
    \/ Rests

Spec == Init /\ [][Next]_vars

(***************************************************************************)
(* Fairness: tokio polls every runnable task, the backfill loop and the    *)
(* worker select on their cancellation token, and the mutex queue is FIFO. *)
(* Nobody is obliged to call, to drop a call, to commit or to panic.       *)
(***************************************************************************)
FairSpec ==
    /\ Spec
    /\ \A t \in Tasks : WF_vars(TaskStep(t))
    /\ \A a \in Actors : WF_vars(ActorStep(a))
    /\ WF_vars(LoopExits)

-----------------------------------------------------------------------------
(***************************************************************************)
(* The type of the service's registration state.                           *)
(***************************************************************************)
TypeOK ==
    /\ shut \in BOOLEAN /\ loop \in BOOLEAN /\ returned \in BOOLEAN
    /\ slot \in {NoActor} \cup Actors
    /\ line \in Seq(Tasks)
    /\ task \in [Tasks -> [op : Ops, key : Keys, reg : {NoActor} \cup Actors,
                           stage : Stages, next : Stages, failed : BOOLEAN,
                           base : 0 .. MaxCommit, blind : BOOLEAN]]
    /\ act \in [Actors -> [life : Lifecycles, key : Keys, cancel : BOOLEAN,
                           worker : {"none", "running", "dead", "ended"},
                           view : 0 .. MaxCommit, blind : BOOLEAN]]
    /\ detached \subseteq Actors
    /\ disk \in [Keys -> 0 .. MaxCommit]
    /\ calls \in 0 .. MaxCall /\ faults \in 0 .. MaxFault

(***************************************************************************)
(* An actor that may still commit durably holds the newest version of its  *)
(* wallet cache, unless the read of the cache failed when it was           *)
(* registered: no predecessor's commit lands after the registration read   *)
(* the store, and no two actors of a key write over each other (the point  *)
(* of retiring under the lifecycle fence before register_wallet_locked     *)
(* reads the cache).  After a failed read the actor holds an empty cache   *)
(* and its next commit replaces the stored one; the code accepts that.     *)
(***************************************************************************)
NoLostCommit ==
    \A a \in Actors : CanCommit(a) => act[a].view = disk[act[a].key] \/ act[a].blind

(***************************************************************************)
(* An active actor is the registered one ("Registration must be installed  *)
(* before this transition", WalletActorLifecycleCell::activate), and a     *)
(* prepared one belongs to the call that holds the gate: no worker is left *)
(* running that nothing can retire.  When shutdown() has returned nothing  *)
(* is registered and every worker has ended, except one whose JoinHandle a *)
(* dropped call let go of, and that one is retired.                        *)
(***************************************************************************)
NoOrphan ==
    /\ \A a \in Actors :
        /\ act[a].life = "active" => slot = a
        /\ act[a].life = "prepared" =>
              /\ line # <<>>
              /\ task[Head(line)].reg = a
              /\ task[Head(line)].stage \in {"starting", "installing"}
    /\ returned =>
        /\ slot = NoActor
        /\ \A a \in Actors :
              \/ act[a].worker \in {"none", "ended"}
              \/ a \in detached /\ act[a].life = "retired"

\* A step that empties the slot of a live registration is of a call that means to.
RemovesOnlyMeant ==
    slot # NoActor /\ slot' # slot /\ ~Terminal(slot) =>
        \/ task[Head(line)].op \in {"replace", "unregister_all", "shutdown"}
        \/ task[Head(line)].op = "unregister" /\ task[Head(line)].reg = slot

(***************************************************************************)
(* A live registration is taken out of the slot only by a call that means  *)
(* to: replace, unregister of that very actor, unregister_all or shutdown. *)
(* A stale handle or the reaper of a predecessor never removes the         *)
(* successor.                                                              *)
(***************************************************************************)
OnlyMeantRemovals == [][RemovesOnlyMeant]_vars

SlotStopping == slot # NoActor /\ act[slot].life = "stopping"

(***************************************************************************)
(* Every call of the service ends: the gate is always handed on, because   *)
(* the acknowledgement, the join, the start of a worker and its answer to  *)
(* a reset all terminate.  An actor that stopped by itself (a panic, or    *)
(* the service's shutdown) does not stay in the slot: its reaper or a      *)
(* later call takes it out.                                                *)
(***************************************************************************)
CallsReturn ==
    /\ \A c \in Callers : task[c].stage # "idle" ~> task[c].stage = "idle"
    /\ SlotStopping ~> ~SlotStopping
=============================================================================
