---------------------------- MODULE BackfillLoop ----------------------------
(***************************************************************************)
(* The chain's wallet backfill loop (chain/workers.rs spawn_backfill_loop, *)
(* chain/backfill.rs WalletBackfill).  One task owns one cursor; it takes  *)
(* requests from a queue, prefers rows of the public scan cache, fetches   *)
(* the rest by RPC, and delivers rows to the wallet's actor through the    *)
(* driver of a job.  Between any two awaits of the loop the wallet may be  *)
(* reset, retired or replaced, another task may deliver to it, the safe    *)
(* head may move, and the cache may grow, lose pages or be invalidated.    *)
(*                                                                         *)
(* The cache is the set of blocks it can replay (module PublicScanCache);  *)
(* the actor is what its answers depend on (module WalletActor).           *)
(***************************************************************************)
EXTENDS Integers, Sequences

CONSTANTS
  MaxBlock,    \* blocks are 1..MaxBlock; 0 is "no safe head yet"
  BlockRange,  \* sync.block_range
  TailLag,     \* wallet_tail_fallback_lag_threshold_blocks
  QueueCap,    \* capacity of the request channel
  MaxJob,      \* bound on jobs started
  MaxActor,    \* bound on actors registered
  MaxReset,    \* bound on resets
  MaxEpoch,    \* bound on the data plane's epoch
  MaxFault,    \* bound on refused commits and lost cache pages
  MaxOther,    \* bound on what other tasks deliver and record
  Keys,        \* cache keys of the wallets that are registered
  Starts       \* the safe head and how much of each bound was used at the start

ASSUME BackfillLoopAssumption ==
  /\ {MaxBlock, BlockRange, QueueCap, MaxJob, MaxActor} \subseteq Nat \ {0}
  /\ {TailLag, MaxReset, MaxEpoch, MaxFault, MaxOther} \subseteq Nat
  /\ Keys \subseteq Nat \ {0}
  /\ \A u \in Starts :
       /\ u.key \in Keys /\ u.job \in 0..MaxJob /\ u.actor \in 1..MaxActor /\ u.reset \in 0..MaxReset
       /\ u.head \in 0..MaxBlock /\ u.epoch \in 0..MaxEpoch
       /\ u.fault \in 0..MaxFault /\ u.other \in 0..MaxOther

VARIABLES
  head,      \* safe_head
  cache,     \* blocks the public scan cache can replay
  epoch,     \* the data plane's epoch
  act,       \* the registered (or last) wallet actor
  held,      \* requests whose job was accepted and that were not sent yet
  queue,     \* backfill_rx
  shut,      \* the service's cancellation token
  removal,   \* finish_wallet_retirement: "none", "sending", "waiting" or "acked"
  cur,       \* the loop's cursor slot
  pc,        \* where the loop is
  io,        \* the range being fetched or delivered, and the epoch it was read under
  jobNo, resets, faults, others   \* how much of each bound is used

vars == <<head, cache, epoch, act, held, queue, shut, removal, cur, pc, io, jobNo, resets,
          faults, others>>

Block == 1..MaxBlock
NoRange == [from |-> 0, to |-> 0]
NoIO == [from |-> 0, to |-> 0, epoch |-> 0]
NoCursor == [key |-> 0, tok |-> [actor |-> 0, gen |-> 0, job |-> 0], from |-> 0, target |-> 0,
             follow |-> FALSE, start |-> 0, acq |-> NoRange, kept |-> NoRange,
             used |-> FALSE, run |-> "runnable"]

-----------------------------------------------------------------------------
(* WalletBackfill.                                                          *)

\* Written out rather than taken from the community modules, which would put all
\* their definitions into the context of every proof step.
Max(S) == CHOOSE x \in S : \A y \in S : x >= y
Min(S) == CHOOSE x \in S : \A y \in S : x <= y
ToSet(s) == {s[i] : i \in 1..Len(s)}

Covers(range) == range.from..range.to \subseteq cache

RefreshTarget(c, h) ==
  IF h > 0 /\ c.follow THEN [c EXCEPT !.target = Max({c.target, h})]
  ELSE IF c.target = 0 THEN [c EXCEPT !.target = h]
  ELSE c

FetchTarget(c) == IF c.acq # NoRange THEN c.acq.to ELSE c.target
CanFinish(c) == c.acq = NoRange /\ c.target > 0 /\ c.from > c.target
Runnable(c) == c.run # "backoff"

FinishAcquisition(c) ==
  [c EXCEPT !.used = IF c.acq # c.kept THEN FALSE ELSE @, !.kept = c.acq, !.acq = NoRange]
AbandonAcquisition(c) == [c EXCEPT !.acq = NoRange, !.kept = NoRange, !.used = FALSE]
RestoreAcquisition(c) ==
  IF c.kept # NoRange /\ c.acq # c.kept /\ ~c.used
  THEN [c EXCEPT !.acq = c.kept, !.used = TRUE] ELSE c

MarkPast(c, from) == [c EXCEPT !.from = from + 1, !.run = "runnable"]
MarkProgress(c, from) == [c EXCEPT !.from = from, !.run = "runnable"]
RetryAfterApply(c, committed) == [c EXCEPT !.from = Min({@, committed + 1})]
RetryAfterFinish(c, committed) ==
  LET from == Min({c.start, committed + 1})
  IN [c EXCEPT !.from = IF c.target = 0 THEN from ELSE Min({from, c.target})]
Defer(c) == [c EXCEPT !.run = "backoff"]

\* reconcile_retained_acquisition: a kept acquisition that the cache lost is
\* taken up again once, then forgotten.
Reconciled(c) ==
  IF c.kept = NoRange \/ c.acq # NoRange \/ Covers(c.kept) THEN c
  ELSE IF RestoreAcquisition(c) # c THEN RestoreAcquisition(c)
  ELSE AbandonAcquisition(c)

\* complete_cached_acquisition_without_delivery.
Completed(c) == IF c.acq # NoRange /\ Covers(c.acq) THEN FinishAcquisition(c) ELSE c

-----------------------------------------------------------------------------
(* The actor, as far as the loop sees it.                                   *)

NewActor(id, key, scanned) ==
  [id |-> id, key |-> key, alive |-> TRUE, gen |-> 0, scanned |-> scanned, jobs |-> {}, pending |-> FALSE]
Cancelled(tok) == tok.actor # act.id \/ ~act.alive
Active(tok) == ~Cancelled(tok) /\ tok \in act.jobs

\* WalletBackfillDriver::retire, acknowledged by the actor or by its end.
WithoutJob(tok) == [act EXCEPT !.jobs = @ \ {tok}]
Retires(tok) == act' = WithoutJob(tok)

Init ==
  \E u \in Starts :
    /\ head = u.head /\ cache = {} /\ epoch = u.epoch
    /\ act = NewActor(u.actor, u.key, 0) /\ held = {} /\ queue = <<>> /\ removal = "none" /\ shut = FALSE
    /\ cur = NoCursor /\ pc = "top" /\ io = NoIO
    /\ jobNo = u.job /\ resets = u.reset /\ faults = u.fault /\ others = u.other

-----------------------------------------------------------------------------
(* Requests.                                                                *)

Supersedes(a, b) ==
  \/ a.actor > b.actor
  \/ a.actor = b.actor /\ (a.gen > b.gen \/ (a.gen = b.gen /\ a.job > b.job))

AddKeepsOld(r) ==
  /\ r.kind = "add" /\ ~Cancelled(r.cursor.tok)
  /\ cur' = r.cursor /\ UNCHANGED <<act, removal>>

\* A slot that holds the cursor of another wallet is not replaced.
Admits(c) ==
  \/ cur = NoCursor
  \/ cur.key = c.key /\ (cur.tok = c.tok \/ Supersedes(c.tok, cur.tok))

\* apply_backfill_request, Add: refused drivers and a replaced one are retired.
AddJob(r) ==
  LET tok == r.cursor.tok IN
  /\ r.kind = "add"
  /\ IF ~Cancelled(tok) /\ Admits(r.cursor)
     THEN /\ cur' = r.cursor
          /\ IF cur # NoCursor THEN Retires(cur.tok) ELSE UNCHANGED act
     ELSE Retires(tok) /\ UNCHANGED cur
  /\ UNCHANGED removal

\* A variant: a removal that finds no cursor is not acknowledged.
AcknowledgesCursors(r) ==
  /\ r.kind = "remove"
  /\ IF cur # NoCursor /\ cur.tok.actor = r.actor
     THEN /\ cur' = NoCursor /\ Retires(cur.tok)
          /\ removal' = IF removal = "waiting" /\ r.actor = act.id THEN "acked" ELSE removal
     ELSE UNCHANGED <<cur, act, removal>>

\* apply_backfill_request, Remove: always acknowledged.
RemoveWallet(r) ==
  /\ r.kind = "remove"
  /\ IF cur # NoCursor /\ cur.tok.actor = r.actor
     THEN cur' = NoCursor /\ Retires(cur.tok)
     ELSE UNCHANGED <<cur, act>>
  /\ removal' = IF removal = "waiting" /\ r.actor = act.id THEN "acked" ELSE removal

\* The queue is drained at the top of the loop and read where the loop waits.
TakeRequest ==
  /\ pc \in {"top", "backoff", "awaitHead"} /\ queue # <<>>
  /\ AddJob(Head(queue)) \/ RemoveWallet(Head(queue))
  /\ queue' = Tail(queue) /\ pc' = "top"
  /\ UNCHANGED <<head, cache, epoch, io, jobNo, resets, faults, held, others, shut>>

\* retire_cancelled_backfill_cursor, at the top and at every await on the actor.
RetireCancelled ==
  /\ pc \in {"top", "backoff", "awaitHead", "finish", "tail", "fetch", "deliver"}
  /\ pc = "top" => queue = <<>>
  /\ cur # NoCursor /\ Cancelled(cur.tok)
  /\ cur' = NoCursor /\ Retires(cur.tok) /\ pc' = "top" /\ io' = NoIO
  /\ UNCHANGED <<head, cache, epoch, queue, removal, jobNo, resets, faults, held, others, shut>>

-----------------------------------------------------------------------------
(* One turn of the loop.                                                    *)

LoopOnly ==
  UNCHANGED <<head, cache, epoch, act, queue, removal, jobNo, resets, faults, held, others, shut>>

\* refresh_target and the first reconcile_retained_acquisition.
Prepare ==
  /\ pc = "top" /\ queue = <<>> /\ cur # NoCursor /\ ~Cancelled(cur.tok)
  /\ cur' = Reconciled(RefreshTarget(cur, head))
  /\ pc' = "complete"
  /\ UNCHANGED io /\ LoopOnly

CompleteCached ==
  /\ pc = "complete"
  /\ cur' = Completed(cur)
  /\ pc' = IF Runnable(cur) THEN "check" ELSE "backoff"
  /\ UNCHANGED io /\ LoopOnly

\* The deferred cursor waits for its deadline (or for the head).
RetryDue ==
  /\ pc = "backoff"
  /\ cur' = [cur EXCEPT !.run = "due"] /\ pc' = "top"
  /\ UNCHANGED io /\ LoopOnly

\* The second reconcile starts over when it took an acquisition up again.
Check ==
  LET c == Reconciled(cur) IN
  /\ pc = "check"
  /\ cur' = c
  /\ pc' = IF c.acq # cur.acq THEN "top" ELSE IF CanFinish(c) THEN "finish" ELSE "tail"
  /\ UNCHANGED io /\ LoopOnly

\* driver.finish: Ready, StaleGeneration and Shutdown remove the cursor.
FinishReady ==
  /\ pc = "finish" /\ Active(cur.tok) /\ ~act.pending /\ cur.target <= act.scanned
  /\ Retires(cur.tok)
  /\ cur' = NoCursor /\ pc' = "top"
  /\ UNCHANGED <<head, cache, epoch, queue, removal, io, jobNo, resets, faults, held, others, shut>>
FinishGone ==
  /\ pc = "finish" /\ ~Active(cur.tok)
  /\ Retires(cur.tok) /\ cur' = NoCursor /\ pc' = "top"
  /\ UNCHANGED <<head, cache, epoch, queue, removal, io, jobNo, resets, faults, held, others, shut>>
\* TargetNotReached is tried again at once, a reset in the way or a failed commit
\* after the backoff.  (While a reset is pending the only active job is its replay,
\* which was admitted: the answer is never Shutdown then.)
FinishRejected ==
  LET short == ~act.pending /\ cur.target > act.scanned
      c == RetryAfterFinish(cur, act.scanned) IN
  /\ pc = "finish" /\ Active(cur.tok) /\ (act.pending \/ short \/ faults < MaxFault)
  /\ faults' = IF act.pending \/ short THEN faults ELSE faults + 1
  /\ cur' = IF short THEN c ELSE Defer(c)
  /\ pc' = IF short THEN "tail" ELSE "top"
  /\ UNCHANGED <<head, cache, epoch, act, queue, removal, io, jobNo, resets, held, others, shut>>
\* ApplyFailed, tried again at once: the POI corpus changed while the actor refreshed
\* the wallet's statuses from it, which retires the job, or right after, which does not.
FinishOutdated ==
  /\ pc = "finish" /\ Active(cur.tok) /\ ~act.pending /\ cur.target <= act.scanned
  /\ faults < MaxFault /\ faults' = faults + 1
  /\ UNCHANGED act \/ Retires(cur.tok)
  /\ cur' = RetryAfterFinish(cur, act.scanned) /\ pc' = "tail"
  /\ UNCHANGED <<head, cache, epoch, queue, removal, io, jobNo, resets, held, others, shut>>

\* The indexed tail fallback is not due, or delivers up to a checkpoint, or none.
NoTail == pc = "tail" /\ pc' = "cached" /\ UNCHANGED <<cur, io>> /\ LoopOnly
TailDue == cur.acq = NoRange /\ cur.target > 0 /\ cur.target - cur.from + 1 > TailLag
TailUnavailable ==
  /\ pc = "tail" /\ TailDue /\ pc' = "top" /\ UNCHANGED <<cur, io>> /\ LoopOnly
TailCompleted(checkpoint) ==
  /\ pc = "tail" /\ TailDue /\ ~Cancelled(cur.tok)
  /\ cur.tok.gen = act.gen /\ ~act.pending /\ checkpoint \in cur.from..cur.target
  /\ act' = [act EXCEPT !.scanned = Max({@, checkpoint})]
  /\ cur' = RefreshTarget(MarkProgress(cur, checkpoint + 1), head)
  /\ pc' = "cached"
  /\ UNCHANGED <<head, cache, epoch, queue, removal, io, jobNo, resets, faults, held, others, shut>>

\* apply_cached_backfill_row up to the delivery; a page ends anywhere.
Deliverable(c) == c.target > 0 /\ c.from <= c.target
CachedRow(to) ==
  /\ pc = "cached" /\ Deliverable(cur)
  /\ cur.acq # NoRange => Covers(cur.acq)
  /\ to \in cur.from..cur.target /\ cur.from..to \subseteq cache
  /\ io' = [from |-> cur.from, to |-> to, epoch |-> epoch]
  /\ pc' = "deliverCached" /\ UNCHANGED cur /\ LoopOnly
NoCachedRow ==
  /\ pc = "cached"
  /\ \/ ~Deliverable(cur) \/ cur.from \notin cache
     \/ cur.acq # NoRange /\ ~Covers(cur.acq)
  /\ pc' = "from" /\ UNCHANGED <<cur, io>> /\ LoopOnly

\* wallet_backfill_fetch_from_block: back to the acquisition's first block
\* unless the blocks before the cursor are cached.
FetchFrom(c) ==
  IF c.acq = NoRange \/ (c.acq.from < c.from /\ c.acq.from..c.from - 1 \subseteq cache)
  THEN c.from ELSE c.acq.from
PlanFrom ==
  /\ pc = "from"
  /\ io' = [NoIO EXCEPT !.from = FetchFrom(cur)]
  /\ pc' = IF FetchTarget(cur) = 0 THEN "awaitHead" ELSE "range"
  /\ UNCHANGED cur /\ LoopOnly

\* safe_head was 0 at the top of the turn.
HeadArrives ==
  /\ pc = "awaitHead" /\ head > 0 /\ pc' = "top" /\ UNCHANGED <<cur, io>> /\ LoopOnly

\* The page ends before a cached suffix of the range; the read scope is captured.
SuffixFrom(from, to) ==
  LET starts == {s \in from..to : s..to \subseteq cache}
  IN IF starts = {} THEN MaxBlock + 1 ELSE Min(starts)
PlanRange ==
  LET target == FetchTarget(cur)
      to == Min({io.from + BlockRange - 1, target})
      suffix == SuffixFrom(io.from, target) IN
  /\ pc = "range"
  /\ io' = [io EXCEPT !.to = IF suffix > io.from THEN Min({to, suffix - 1}) ELSE to,
                      !.epoch = epoch]
  /\ pc' = "fetch" /\ UNCHANGED cur /\ LoopOnly

\* No healthy endpoint, or logs, timestamps or a block hash could not be had.
FetchFails == pc = "fetch" /\ pc' = "top" /\ io' = NoIO /\ UNCHANGED cur /\ LoopOnly
FetchOk == pc = "fetch" /\ pc' = "record" /\ UNCHANGED <<cur, io>> /\ LoopOnly

Meets(a, b) == a.from <= b.to /\ b.from <= a.to

\* Logs that cannot be normalised end the acquisition they belong to.
NormaliseFails ==
  /\ pc = "record"
  /\ cur' = IF cur.acq # NoRange /\ Meets(io, cur.acq) THEN AbandonAcquisition(cur) ELSE cur
  /\ pc' = "settle" /\ UNCHANGED io /\ LoopOnly

\* record_public_scan_apply_with_acquisition; a page read under an older epoch,
\* or an empty range, is refused.
Record ==
  LET admitted == io.epoch = epoch /\ io.from <= io.to
      after == IF admitted THEN cache \cup io.from..io.to ELSE cache
      candidate == /\ admitted /\ cur.acq # NoRange /\ Meets(io, cur.acq)
                   /\ cur.acq.from..cur.acq.to \subseteq after IN
  /\ pc = "record"
  /\ cache' = after
  /\ IF candidate THEN cur' \in {FinishAcquisition(cur), AbandonAcquisition(cur), cur}
     ELSE UNCHANGED cur
  /\ pc' = "settle"
  /\ UNCHANGED <<head, epoch, act, queue, removal, io, jobNo, resets, faults, held, others, shut>>

\* What the fetched page holds from the cursor on goes to the wallet.
Settle ==
  LET c == Completed(cur)
      to == Min({io.to, c.target}) IN
  /\ pc = "settle"
  /\ cur' = c
  /\ IF Deliverable(c) /\ c.from <= to
     THEN io' = [io EXCEPT !.from = c.from, !.to = to] /\ pc' = "deliver"
     ELSE io' = NoIO /\ pc' = "top"
  /\ LoopOnly
\* The part to deliver cannot be normalised either.
Unnormalised ==
  /\ pc = "deliver" /\ io' = NoIO /\ pc' = "top" /\ UNCHANGED cur /\ LoopOnly

-----------------------------------------------------------------------------
(* driver.apply and the loop's reaction to the answer.                      *)

Delivering == pc \in {"deliver", "deliverCached"}
Delivered(c) == cur' = c /\ pc' = "top" /\ io' = NoIO

\* StaleGeneration and Shutdown: the cursor is removed and its driver retired.
DeliverGone ==
  /\ Delivering /\ (Cancelled(cur.tok) \/ (~act.pending /\ ~Active(cur.tok)))
  /\ Retires(cur.tok) /\ Delivered(NoCursor)
  /\ UNCHANGED <<head, cache, epoch, queue, removal, jobNo, resets, faults, held, others, shut>>

\* A pending reset takes the job away and answers that nothing was persisted, or
\* Shutdown when its replay did not get into the queue.
DeliverPending ==
  /\ Delivering /\ act.pending /\ ~Cancelled(cur.tok)
  /\ Retires(cur.tok)
  /\ \/ Delivered(Defer(RetryAfterApply(cur, act.scanned)))
     \/ act.jobs = {} /\ Len(queue) = QueueCap /\ Delivered(NoCursor)
  /\ UNCHANGED <<head, cache, epoch, queue, removal, jobNo, resets, faults, held, others, shut>>

Admitted == Delivering /\ ~act.pending /\ Active(cur.tok)

DeliverCovered ==
  /\ Admitted /\ io.to <= act.scanned
  /\ Delivered(RefreshTarget(MarkProgress(cur, act.scanned + 1), head)) /\ LoopOnly
DeliverGap ==
  /\ Admitted /\ io.to > act.scanned /\ io.from # act.scanned + 1
  /\ Delivered(MarkProgress(cur, act.scanned + 1)) /\ LoopOnly
Contiguous == Admitted /\ io.from = act.scanned + 1 /\ io.to >= io.from
DeliverStale ==
  /\ Contiguous /\ io.epoch # epoch
  /\ Delivered(RestoreAcquisition(cur)) /\ LoopOnly
\* The commit fails to persist, or the rows cannot be applied.
DeliverFails ==
  /\ Contiguous /\ io.epoch = epoch /\ faults < MaxFault /\ faults' = faults + 1
  /\ \/ Delivered(Defer(RetryAfterApply(cur, act.scanned)))
     \/ Delivered(cur)
  /\ UNCHANGED <<head, cache, epoch, act, queue, removal, jobNo, resets, held, others, shut>>
DeliverCommitted ==
  /\ Contiguous /\ io.epoch = epoch
  /\ act' = [act EXCEPT !.scanned = io.to]
  /\ Delivered(RefreshTarget(MarkProgress(cur, io.to + 1), head))
  /\ UNCHANGED <<head, cache, epoch, queue, removal, jobNo, resets, faults, held, others, shut>>

\* The actor answers a delivery.
Answered ==
  \/ DeliverGone \/ DeliverPending \/ DeliverCovered \/ DeliverGap \/ DeliverStale
  \/ DeliverFails \/ DeliverCommitted

-----------------------------------------------------------------------------
(* What happens beside the loop.                                            *)

Sends(r) == queue' = Append(queue, r)
Token == [actor |-> act.id, gen |-> act.gen, job |-> jobNo + 1]

\* enqueue_wallet_backfill: the actor accepts a job; the cursor starts where some
\* view of the wallet stood, with a startup plan it first acquires the plan's range.
Enqueue(from, follow, acqTo) ==
  LET c == [NoCursor EXCEPT !.key = act.key, !.tok = Token, !.from = from, !.target = head,
                            !.follow = follow, !.start = from,
                            !.acq = IF acqTo = 0 THEN NoRange ELSE [from |-> from, to |-> acqTo]]
  IN /\ act.alive /\ ~act.pending /\ jobNo < MaxJob /\ jobNo' = jobNo + 1
     /\ from <= act.scanned + 1 /\ (follow \/ head = 0 \/ from <= head)
     /\ acqTo = 0 \/ (acqTo = head /\ acqTo \in from..from + BlockRange - 1)
     /\ act' = [act EXCEPT !.jobs = @ \cup {Token}]
     /\ held' = held \cup {[kind |-> "add", cursor |-> c]}
     /\ UNCHANGED <<head, cache, epoch, queue, removal, cur, pc, io, resets, faults, others, shut>>

\* try_send; a job that finds the queue full or closed fails.
Post(r) ==
  /\ r \in held /\ held' = held \ {r}
  /\ IF Len(queue) < QueueCap /\ pc # "exited" THEN Sends(r) /\ UNCHANGED act
     ELSE Retires(r.cursor.tok) /\ UNCHANGED queue
  /\ UNCHANGED <<head, cache, epoch, removal, cur, pc, io, jobNo, resets, faults, others, shut>>

\* The actor accepts a reset: its jobs end, the rewind is committed.
ResetWallet(from) ==
  /\ act.alive /\ resets < MaxReset /\ resets' = resets + 1
  /\ act' = [act EXCEPT !.gen = @ + 1, !.scanned = Min({@, from - 1}), !.jobs = {},
                        !.pending = TRUE]
  /\ UNCHANGED <<head, cache, epoch, queue, removal, cur, pc, io, jobNo, faults,
                 held, others, shut>>

\* It queues the replay; the reset stays pending when its plan cannot be retired.
AdmitReplay(settled) ==
  LET c == [NoCursor EXCEPT !.key = act.key, !.tok = Token, !.from = act.scanned + 1,
                            !.target = head, !.follow = TRUE, !.start = act.scanned + 1]
  IN /\ act.alive /\ act.pending /\ jobNo < MaxJob
     /\ IF act.jobs = {}
        THEN /\ Len(queue) < QueueCap /\ jobNo' = jobNo + 1
             /\ Sends([kind |-> "add", cursor |-> c])
             /\ act' = [act EXCEPT !.jobs = {Token}, !.pending = ~settled]
        ELSE act' = [act EXCEPT !.pending = ~settled] /\ UNCHANGED <<queue, jobNo>>
     /\ settled \/ faults < MaxFault
     /\ faults' = IF settled THEN faults ELSE faults + 1
     /\ UNCHANGED <<head, cache, epoch, removal, cur, pc, io, resets, held, others, shut>>

\* Another delivery (startup, indexed catch-up) moves the wallet on.
OtherDelivery ==
  /\ act.alive /\ ~act.pending /\ act.scanned < head /\ act.jobs # {}
  /\ others < MaxOther /\ others' = others + 1
  /\ act' = [act EXCEPT !.scanned = @ + 1]
  /\ UNCHANGED <<head, cache, epoch, queue, removal, cur, pc, io, jobNo, resets, faults,
                 held, shut>>

\* begin_shutdown: the loop and the wallet are cancelled.
Shutdown ==
  /\ ~shut /\ shut' = TRUE /\ act' = [act EXCEPT !.alive = FALSE]
  /\ UNCHANGED <<head, cache, epoch, queue, removal, cur, pc, io, jobNo, resets, faults, held,
                 others>>

\* unregister_wallet, replace_wallet and shutdown: the wallet is retired, then
\* removed from the loop; a closed channel is an answer too.
RetireWallet ==
  /\ shut \/ (act.alive /\ act.id < MaxActor)
  /\ removal = "none" /\ removal' = "sending" /\ act' = [act EXCEPT !.alive = FALSE]
  /\ UNCHANGED <<head, cache, epoch, queue, cur, pc, io, jobNo, resets, faults, held, others, shut>>
SendRemoval ==
  /\ removal = "sending"
  /\ IF pc = "exited" THEN removal' = "acked" /\ UNCHANGED queue
     ELSE /\ Len(queue) < QueueCap
          /\ Sends([kind |-> "remove", actor |-> act.id]) /\ removal' = "waiting"
  /\ UNCHANGED <<head, cache, epoch, act, cur, pc, io, jobNo, resets, faults, held, others, shut>>
\* The caller of unregister_wallet goes away while it waits; before the removal
\* is sent it leaves the cursor to its cancellation.
CallerGone ==
  /\ removal \in {"sending", "waiting"} /\ removal' = "acked"
  /\ UNCHANGED <<head, cache, epoch, act, queue, cur, pc, io, jobNo, resets, faults,
                 held, others, shut>>
\* The same wallet again, or another that has scanned nothing.
RegisterWallet(key) ==
  /\ removal = "acked" /\ ~shut /\ removal' = "none"
  /\ act' = NewActor(act.id + 1, key, IF key = act.key THEN act.scanned ELSE 0)
  /\ UNCHANGED <<head, cache, epoch, queue, cur, pc, io, jobNo, resets, faults, held, others, shut>>

HeadMoves ==
  /\ head < MaxBlock /\ head' = head + 1
  /\ UNCHANGED <<cache, epoch, act, queue, removal, cur, pc, io, jobNo, resets, faults, held,
                 others, shut>>
CacheGrows(b) ==
  /\ b \notin cache /\ b <= head /\ cache' = cache \cup {b}
  /\ others < MaxOther /\ others' = others + 1
  /\ UNCHANGED <<head, epoch, act, queue, removal, cur, pc, io, jobNo, resets, faults, held, shut>>
CacheLoses(b) ==
  /\ b \in cache /\ faults < MaxFault /\ faults' = faults + 1 /\ cache' = cache \ {b}
  /\ UNCHANGED <<head, epoch, act, queue, removal, cur, pc, io, jobNo, resets, held, others, shut>>
Invalidate ==
  /\ epoch < MaxEpoch /\ epoch' = epoch + 1 /\ cache' = {}
  /\ UNCHANGED <<head, act, queue, removal, cur, pc, io, jobNo, resets, faults, held, others, shut>>

DrivenByLoop ==
  (IF cur = NoCursor THEN {} ELSE {cur.tok})
  \cup {r.cursor.tok : r \in {r \in ToSet(queue) : r.kind = "add"}}

\* Shutdown: the loop leaves wherever it looks at cancel; retire_backfill_loop_state
\* retires what it holds and acknowledges removals.
Exit ==
  /\ shut /\ pc \in {"top", "backoff", "awaitHead"}
  /\ act' = [act EXCEPT !.jobs = @ \ DrivenByLoop]
  /\ cur' = NoCursor /\ queue' = <<>> /\ pc' = "exited" /\ io' = NoIO
  /\ removal' = IF removal = "waiting" THEN "acked" ELSE removal
  /\ UNCHANGED <<head, cache, epoch, jobNo, resets, faults, held, others, shut>>

Waits == pc \in {"top", "exited", "awaitHead"} /\ UNCHANGED vars

Loop ==
  \/ TakeRequest \/ RetireCancelled \/ Prepare \/ CompleteCached \/ RetryDue \/ Check
  \/ FinishReady \/ FinishGone \/ FinishRejected \/ FinishOutdated
  \/ NoTail \/ TailUnavailable \/ NoCachedRow \/ PlanFrom \/ HeadArrives \/ PlanRange
  \/ \E b \in Block : TailCompleted(b) \/ CachedRow(b)
  \/ FetchFails \/ FetchOk \/ NormaliseFails \/ Record \/ Settle \/ Unnormalised
  \/ Answered
Environment ==
  \/ \E from \in Block, follow \in BOOLEAN, acqTo \in 0..MaxBlock : Enqueue(from, follow, acqTo)
  \/ \E r \in held : Post(r)
  \/ \E from \in Block : ResetWallet(from)
  \/ \E settled \in BOOLEAN : AdmitReplay(settled)
  \/ OtherDelivery \/ Shutdown \/ RetireWallet \/ SendRemoval \/ CallerGone
  \/ \E key \in Keys : RegisterWallet(key)
  \/ HeadMoves \/ Invalidate
  \/ \E b \in Block : CacheGrows(b) \/ CacheLoses(b)

Next == Loop \/ Environment \/ Exit \/ Waits
Spec == Init /\ [][Next]_vars

\* The loop is a task of its own; requests in flight are sent; a deferred reset
\* is driven by the actor's retry tick; a removal is sent when the queue has room;
\* endpoints answer again and again with logs that can be normalised and delivered,
\* and the indexed tail has a cooldown.
FairSpec ==
  /\ Spec /\ WF_vars(Loop \/ Exit) /\ WF_vars(HeadMoves) /\ WF_vars(\E r \in held : Post(r))
  /\ WF_vars(AdmitReplay(TRUE)) /\ WF_vars(SendRemoval) /\ SF_vars(NoTail)
  /\ SF_vars(FetchOk) /\ SF_vars(Record) /\ SF_vars(Answered)

-----------------------------------------------------------------------------
(* Properties.                                                              *)

\* Cursors and ranges of WalletBackfill, the loop's control and the channel's bound.
TypeOK ==
  /\ head \in 0..MaxBlock /\ cache \subseteq Block /\ epoch \in 0..MaxEpoch
  /\ cur.from \in 0..MaxBlock + 1 /\ cur.target \in 0..MaxBlock
  /\ cur.run \in {"runnable", "due", "backoff"}
  /\ Len(queue) <= QueueCap /\ removal \in {"none", "sending", "waiting", "acked"}
  /\ pc \notin {"top", "exited"} => cur # NoCursor

\* Every backfill job that the wallet's actor counts as active has a driver: the
\* cursor, a request in the queue or one about to be sent.  A job without a
\* driver would keep the wallet from ever becoming Ready.
JobsAreDriven ==
  act.alive => act.jobs \subseteq DrivenByLoop \cup {r.cursor.tok : r \in held}

\* The cursor of a live job never runs ahead of the wallet's checkpoint: whatever
\* retries, restored acquisitions and tail checkpoints do, no block is skipped.
CursorBehindWallet ==
  cur # NoCursor /\ Active(cur.tok) => cur.from <= act.scanned + 1

\* finish_wallet_retirement gets its answer wherever the loop is when the wallet
\* is retired, and every job ends: acquisitions, restorations, rejected deliveries
\* and deferred retries never keep the loop turning for ever.  Again and again no
\* removal waits and no job of a live wallet is active.
JobsEnd ==
  []<>(removal \in {"none", "acked"} /\ (act.jobs = {} \/ ~act.alive))

=============================================================================
