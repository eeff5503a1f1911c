------------------------------ MODULE PoiCache ------------------------------
(***************************************************************************)
(* The POI cache coordinator of one chain (sync-service/src/poi_cache.rs)  *)
(* with the persistence of its corpus (poi_artifacts.rs) and the commit    *)
(* fence it shares with the rest of the chain's data plane.                *)
(*                                                                         *)
(* One task owns the corpus of POI events that the wallets are served.  It *)
(* runs one synchronisation attempt at a time (from the public RPC, from   *)
(* signed artifacts, or from one after the other), commits what the        *)
(* attempt produced, installs it, and compacts the journal in a background *)
(* lane.  Callers ask for a retry, and a reset of the public cache takes   *)
(* the coordinator's gate and the commit fence.                            *)
(*                                                                         *)
(* The attempt's job and the lane's compaction are futures of the same     *)
(* task: they move only while the task is in its select loop (pc =         *)
(* "loop"), and only when no command is waiting, because the select is     *)
(* biased.  Writes run on blocking threads and end by themselves.          *)
(*                                                                         *)
(* A corpus is the number of events it holds and the version of the        *)
(* blocked shields (0: not synchronised).  A journal head is a corpus with *)
(* its revision, the number of deltas since the base, and whether a        *)
(* publisher attested it; revision 0 is no journal at all.  Revisions are *)
(* only ever compared, so a new one is any that nobody holds.              *)
(***************************************************************************)
EXTENDS Naturals, Sequences

CONSTANTS
    Retriers,     \* calls of retry_chain and retry_chain_events
    Resets,       \* calls of reset_public_cache
    MaxEvent,     \* events the network ever has
    Page,         \* events one RPC attempt can read
    Threshold,    \* RPC failures before artifacts are used
    Soft, Hard,   \* journal lengths that recommend and require a compaction
    QueueCap,     \* capacity of the command channel
    MaxFault,     \* failures of the network or of a write
    NoOne         \* no caller and no reset

ASSUME Bounds ==
    /\ MaxEvent \in Nat \ {0} /\ Page \in Nat \ {0} /\ Threshold \in Nat \ {0}
    /\ Soft \in Nat \ {0} /\ Hard \in Nat /\ Hard >= Soft
    /\ QueueCap \in Nat \ {0} /\ MaxFault \in Nat
    /\ NoOne \notin Retriers \cup Resets /\ Retriers \cap Resets = {}
    /\ Resets \cap {"job", "attempt", "compact", "orphan", "other"} = {}

VARIABLES
    pc,         \* where the coordinator's task is
    handle,     \* the service holds a handle of the coordinator
    cancelled,  \* begin_shutdown was called
    queue,      \* the coordinator's commands
    active,     \* the attempt whose job is polled
    batch,      \* the finished job that is being committed
    reset,      \* the coordinator's public_cache_reset
    lane,       \* the compaction lane
    orphan,     \* base of a compaction whose job was dropped while it wrote
    health,     \* PoiSourceHealth of the list
    preloaded,  \* the corpus loaded at the start, until an attempt takes it
    installed,  \* the corpus in LocalPoiCaches
    anchor,     \* the head in installed_head_anchors
    disk,       \* the journal head in the database
    line,       \* the commit fence: its holder, then those who wait for it
    gate,       \* public_cache_reset_gate: writer, readers, those who wait
    call,       \* where each retry call is
    permit,     \* where each reset is
    released,   \* resets whose lease token is cancelled
    source,     \* events on the network and in the newest artifact
    faults      \* failures so far

coordinator == <<pc, queue, active, batch, reset, lane, orphan, health, preloaded, installed, anchor>>
callers     == <<handle, gate, call, permit, released>>
world       == <<cancelled, source, faults>>
vars        == <<coordinator, callers, world, disk, line>>

-----------------------------------------------------------------------------
(* Corpora and journal heads *)

Kinds == {"events", "blocked"}

MaxRev == 12

Empty == [ev |-> 0, bl |-> 0]

NoHead == [rev |-> 0, ev |-> 0, bl |-> 0, len |-> 0, att |-> FALSE]

Corpus(h) == [ev |-> h.ev, bl |-> h.bl]

NoAttempt == [scope |-> {}, retry |-> NoOne, at |-> "none", seen |-> NoHead,
              base |-> NoHead, from |-> Empty, use |-> FALSE, after |-> FALSE,
              rpc |-> "none"]

NoBatch == [scope |-> {}, retry |-> NoOne, ok |-> TRUE,
            rpc |-> "none", art |-> FALSE, cand |-> "none", corpus |-> Empty,
            base |-> NoHead, staged |-> NoHead]

Idle == [pending |-> 0, base |-> 0, at |-> "none", head |-> NoHead]

RevisionsHeld ==
    {disk.rev, anchor.rev, preloaded.rev, active.base.rev, active.seen.rev,
     batch.base.rev, batch.staged.rev, lane.pending, lane.base, lane.head.rev, orphan, 0}

NewRev == CHOOSE r \in 1..MaxRev : r \notin RevisionsHeld

Least(a, b) == IF a <= b THEN a ELSE b

-----------------------------------------------------------------------------
(* The gate, the fence and the queue *)

(* The line s without x, who waits in it once if at all. *)
Without(s, x) ==
    IF \A i \in 1 .. Len(s) : s[i] # x THEN s
    ELSE LET k == CHOOSE i \in 1 .. Len(s) : s[i] = x
         IN  SubSeq(s, 1, k - 1) \o SubSeq(s, k + 1, Len(s))

(* try_read: a writer that holds or waits shuts the gate. *)
TryRead == gate.w = NoOne /\ \A i \in DOMAIN gate.line : gate.line[i] \notin Resets

JoinGate(g, p) == [g EXCEPT !.line = Append(@, p)]

(* p waits no longer and holds nothing. *)
LeaveGate(g, p) ==
    [w    |-> IF g.w = p THEN NoOne ELSE g.w,
     rd   |-> g.rd \ {p},
     line |-> Without(g.line, p)]

(* The gate is first come, first served. *)
MayRead(p)  == gate.line # <<>> /\ Head(gate.line) = p /\ gate.w = NoOne
MayWrite(p) == MayRead(p) /\ gate.rd = {}

Holds(x) == line # <<>> /\ Head(line) = x

(* The task polls the futures of its select: no shutdown, no command. *)
Polls == pc = "loop" /\ ~cancelled /\ queue = <<>>

(* A new compaction is polled before the branches below it, and before a   *)
(* job goes on, which waits for the network after its first step.          *)
LanePolled == lane.at # "new"

(* The waiting call of c gets its answer. *)
Answer(cs, c) ==
    [x \in DOMAIN cs |-> IF x = c /\ cs[x] \in {"admit", "wait"} THEN "done" ELSE cs[x]]

-----------------------------------------------------------------------------
(* Source health and the plan of an attempt *)

artifact_eligible ==
    health.fails >= Threshold \/ health.accel \/ health.age = "stale"

attempt_plan ==
    IF installed.ev = 0 /\ ~health.probe /\ health.age # "fresh"
    THEN [use |-> TRUE, after |-> FALSE]
    ELSE [use   |-> ~health.probe /\ artifact_eligible,
          after |-> ~health.probe /\ health.fails + 1 >= Threshold]

(* record: what the attempt says of the sources.  "tail" notes that it     *)
(* read the blocked shields only.                                          *)
RecordHealth(g, b) ==
    LET h == [g EXCEPT !.tail = (b.scope = {"blocked"})]
        rpc == CASE b.rpc = "none"   -> h
                 [] b.rpc = "failed" -> [h EXCEPT !.probe = FALSE, !.accel = FALSE,
                                                  !.fails = Least(@ + 1, Threshold)]
                 [] OTHER            -> [h EXCEPT !.probe = FALSE, !.fails = 0,
                                                  !.accel = (b.rpc = "large"),
                                                  !.age = "fresh"]
    IN  IF b.art THEN [rpc EXCEPT !.accel = FALSE, !.probe = TRUE] ELSE rpc

effective_scope(scope) ==
    IF "events" \in scope /\ installed.bl = 0 THEN Kinds ELSE scope

NewAttempt(scope, who) ==
    LET sc == effective_scope(scope)
        ev == "events" \in sc
    IN  [NoAttempt EXCEPT !.scope = sc, !.retry = who, !.seen = anchor,
                          !.at = IF preloaded.rev = 0 THEN "load" ELSE "ready",
                          !.base = preloaded, !.from = Corpus(preloaded),
                          !.use = ev /\ attempt_plan.use,
                          !.after = ev /\ attempt_plan.after]

(* start_chain_poi_cache_attempt without a caller: refused while a reset   *)
(* shuts the gate, until the next deadline.                                *)
StartAttempt(scope) ==
    IF TryRead
    THEN active' = NewAttempt(scope, NoOne) /\ preloaded' = NoHead
    ELSE active' = NoAttempt /\ UNCHANGED preloaded

-----------------------------------------------------------------------------
(* The job of an attempt: polled by the select *)

Job(at) == Polls /\ active.at = at /\ (at = "load" \/ LanePolled)

JobKeeps == UNCHANGED <<pc, queue, batch, reset, lane, orphan, health,
                        preloaded, installed, anchor, callers, cancelled, source, disk>>

(* The starting corpus: the installed one when the head that was installed *)
(* with it is still the durable one, otherwise what the journal holds.     *)
JobLoads ==
    /\ Job("load")
    /\ active' = [active EXCEPT !.at = "ready", !.base = disk,
                    !.from = IF active.seen = disk THEN installed ELSE Corpus(disk)]
    /\ UNCHANGED <<line, faults>>
    /\ JobKeeps

(* The job is over: the attempt is finished in the same turn, up to the    *)
(* commit.  record_poi_rpc_success may fail: the attempt has failed then,  *)
(* and what it read is committed nevertheless.                             *)
Ends(b, f) ==
    /\ \E bad \in IF b.rpc \in {"ok", "large"} /\ f < MaxFault THEN BOOLEAN ELSE {FALSE} :
          /\ batch' = [b EXCEPT !.scope = active.scope, !.retry = active.retry,
                                !.base = active.base, !.ok = @ /\ ~bad]
          /\ faults' = IF bad THEN f + 1 ELSE f
    /\ active' = NoAttempt
    /\ IF b.cand = "none"
       THEN pc' = "apply" /\ line' = line
       ELSE pc' = "commit" /\ line' = Append(line, "attempt")
    /\ UNCHANGED <<queue, reset, lane, orphan, health, preloaded,
                   installed, anchor, callers, cancelled, source, disk>>

(* The journal cannot be read: the attempt ends with an error and says     *)
(* nothing of its sources.                                                 *)
JobLoadFails ==
    /\ Job("load") /\ faults < MaxFault
    /\ Ends([NoBatch EXCEPT !.ok = FALSE], faults + 1)

(* public_rpc_candidate_cache: one bounded read of events, then the        *)
(* blocked shields, as the scope asks.                                     *)
RpcCorpus ==
    [ev |-> IF "events" \in active.scope
            THEN Least(active.from.ev + Page, source.ev) ELSE active.from.ev,
     bl |-> IF "blocked" \in active.scope THEN 1 ELSE active.from.bl]

ReadsRpc == Job("ready") /\ (~active.use \/ active.rpc = "fallback")

JobReadsRpc ==
    /\ ReadsRpc
    /\ Ends([NoBatch EXCEPT
            !.corpus = RpcCorpus,
            !.rpc = IF "events" \in active.scope /\ RpcCorpus.ev < source.ev
                    THEN "large" ELSE "ok",
            !.cand = IF RpcCorpus.ev > 0 /\ RpcCorpus # active.from
                     THEN "rpc" ELSE "none"], faults)

JobRpcFails ==
    /\ ReadsRpc
    /\ faults < MaxFault
    /\ IF active.after /\ active.rpc = "none"
       THEN /\ active' = [active EXCEPT !.rpc = "failed", !.use = TRUE]
            /\ faults' = faults + 1
            /\ UNCHANGED line
            /\ JobKeeps
       ELSE Ends([NoBatch EXCEPT !.ok = FALSE, !.rpc = "failed"], faults + 1)

(* prepare_artifact_candidate: the manifest is recorded, and chunks are    *)
(* retained, under the commit fence.                                       *)
JobAsksFence ==
    /\ Job("ready") /\ active.use /\ active.rpc # "fallback"
    /\ active' = [active EXCEPT !.at = "lock"]
    /\ line' = Append(line, "job")
    /\ UNCHANGED faults
    /\ JobKeeps

(* The select polls the lane after the job in the same turn: a compaction  *)
(* next in line for the fence starts.                                      *)
JobLeavesFence ==
    /\ Job("lock") /\ Holds("job")
    /\ active' = [active EXCEPT !.at = "fetch"]
    /\ line' = Tail(line)
    /\ lane' = [lane EXCEPT !.at = IF @ = "queued" /\ Tail(line) # <<>>
                                      /\ Head(Tail(line)) = "compact"
                                   THEN "writing" ELSE @]
    /\ UNCHANGED <<pc, queue, batch, reset, orphan, health, preloaded,
                   installed, anchor, callers, world, disk>>

(* An attested corpus is extended, or kept when it is ahead; a corpus from *)
(* the RPC alone is not built upon.                                        *)
ArtifactCorpus ==
    [ev |-> IF active.base.att /\ active.from.ev > source.art
            THEN active.from.ev ELSE source.art,
     bl |-> 1]

JobFetches ==
    /\ Job("fetch")
    /\ Ends([NoBatch EXCEPT
            !.corpus = ArtifactCorpus, !.art = TRUE,
            !.rpc = active.rpc,
            !.cand = IF source.art > 0 THEN "artifact" ELSE "none"], faults)

(* Without an artifact the public RPC is read, unless it failed before. *)
JobFetchFails ==
    /\ Job("fetch")
    /\ faults < MaxFault
    /\ IF active.rpc = "failed"
       THEN Ends([NoBatch EXCEPT !.ok = FALSE, !.rpc = "failed"], faults + 1)
       ELSE /\ active' = [active EXCEPT !.at = "ready", !.rpc = "fallback"]
            /\ faults' = faults + 1
            /\ UNCHANGED line
            /\ JobKeeps

JobSteps == JobLoads \/ JobLoadFails \/ JobReadsRpc \/ JobRpcFails \/ JobAsksFence
            \/ JobLeavesFence \/ JobFetches \/ JobFetchFails

-----------------------------------------------------------------------------
(* finish_chain_poi_cache_attempt: runs in the branch, nothing is polled *)

FinishKeeps == UNCHANGED <<queue, active, reset, orphan, preloaded,
                           handle, gate, permit, released, cancelled, source>>

(* A shutdown seen on the way: nothing is installed. *)
FinishCancelled ==
    /\ pc \in {"commit", "apply"} /\ cancelled
    /\ line' = Without(line, "attempt")
    /\ call' = Answer(call, batch.retry)
    /\ batch' = NoBatch
    /\ pc' = "loop"
    /\ UNCHANGED <<lane, health, installed, anchor, disk, faults>>
    /\ FinishKeeps

(* The head a public RPC candidate leaves: the first one is a new base, a  *)
(* later one is appended, after a compaction when the journal is full.     *)
RpcHead ==
    LET n == IF batch.corpus.ev > disk.ev THEN 1 ELSE 0
    IN  [rev |-> NewRev, ev |-> batch.corpus.ev, bl |-> batch.corpus.bl,
         att |-> disk.att,
         len |-> IF disk.rev = 0 THEN 0
                 ELSE IF disk.len + n > Hard THEN n ELSE disk.len + n]

(* A variant: a candidate that is behind is committed. *)
ArtifactHeadAny ==
    [rev |-> NewRev, ev |-> batch.corpus.ev, bl |-> batch.corpus.bl,
     att |-> TRUE, len |-> 0]

(* persist_corpus_record_monotonic: a candidate that is behind is stale. *)
ArtifactHead ==
    IF disk.ev > batch.corpus.ev
    THEN NoHead
    ELSE [rev |-> NewRev, ev |-> batch.corpus.ev, bl |-> batch.corpus.bl,
          att |-> TRUE, len |-> 0]

(* The commit is conditional on the base that the attempt started from. *)
Committed ==
    IF disk.rev # batch.base.rev THEN NoHead
    ELSE IF batch.cand = "rpc" THEN RpcHead ELSE ArtifactHead

(* The write on a blocking thread, once the fence is the attempt's. *)
Commit ==
    /\ pc = "commit" /\ ~cancelled /\ Holds("attempt")
    /\ \/ /\ batch' = [batch EXCEPT !.staged = Committed]
          /\ disk' = IF Committed.rev = 0 THEN disk ELSE Committed
          /\ UNCHANGED faults
       \/ /\ faults < MaxFault
          /\ faults' = faults + 1
          /\ batch' = [batch EXCEPT !.ok = FALSE]
          /\ UNCHANGED disk
    /\ line' = Tail(line)
    /\ pc' = "apply"
    /\ UNCHANGED <<lane, health, installed, anchor, call>>
    /\ FinishKeeps

(* start_next_poi_corpus_compaction *)
NextCompaction(l) ==
    IF l.base = 0 /\ l.pending # 0
    THEN [Idle EXCEPT !.base = l.pending, !.at = "new"] ELSE l

(* install_cache_if_not_behind *)
Installs == batch.staged.rev # 0 /\ installed.ev <= batch.staged.ev

(* A variant: the corpus is installed and the anchor left where it was. *)
ApplyKeepsAnchor ==
    /\ pc = "apply" /\ ~cancelled
    /\ installed' = IF Installs THEN Corpus(batch.staged) ELSE installed
    /\ lane' = NextCompaction(IF batch.staged.len >= Soft
                              THEN [lane EXCEPT !.pending = batch.staged.rev] ELSE lane)
    /\ health' = RecordHealth(health, batch)
    /\ call' = Answer(call, batch.retry)
    /\ batch' = NoBatch
    /\ pc' = "loop"
    /\ UNCHANGED <<anchor, disk, line, faults>>
    /\ FinishKeeps

(* apply_staged_poi_cache_batch, and the rest of the branch. *)
Apply ==
    /\ pc = "apply" /\ ~cancelled
    /\ installed' = IF Installs THEN Corpus(batch.staged) ELSE installed
    /\ anchor' = IF Installs THEN batch.staged ELSE anchor
    /\ lane' = NextCompaction(IF batch.staged.len >= Soft
                              THEN [lane EXCEPT !.pending = batch.staged.rev] ELSE lane)
    /\ health' = RecordHealth(health, batch)
    /\ call' = Answer(call, batch.retry)
    /\ batch' = NoBatch
    /\ pc' = "loop"
    /\ UNCHANGED <<disk, line, faults>>
    /\ FinishKeeps

FinishSteps == FinishCancelled \/ Commit \/ Apply

-----------------------------------------------------------------------------
(* The compaction lane *)

LaneKeeps == UNCHANGED <<queue, active, batch, reset, health,
                         preloaded, installed, callers, cancelled, source>>

(* The first poll of a compaction asks for the fence, and gets it at once  *)
(* when it is free.                                                        *)
LaneAsksFence ==
    /\ Polls /\ lane.at = "new"
    /\ lane' = [lane EXCEPT !.at = IF line = <<>> THEN "writing" ELSE "queued"]
    /\ line' = Append(line, "compact")
    /\ UNCHANGED <<pc, orphan, anchor, disk, faults>>
    /\ LaneKeeps

(* The fence was handed over: seen only when the lane is polled again. *)
LaneGetsFence ==
    /\ Polls /\ lane.at = "queued" /\ Holds("compact")
    /\ lane' = [lane EXCEPT !.at = "writing"]
    /\ UNCHANGED <<pc, orphan, anchor, disk, line, faults>>
    /\ LaneKeeps

(* PoiCorpusStore::compact, conditional on the base it was asked for. *)
Compacted(base) ==
    IF disk.rev = base THEN [disk EXCEPT !.rev = NewRev, !.len = 0] ELSE NoHead

(* A compaction ends on its blocking thread, wanted or not. *)
CompactionWrites ==
    /\ lane.at = "writing" \/ orphan # 0
    /\ LET base == IF orphan # 0 THEN orphan ELSE lane.base
       IN  \E h \in {Compacted(base)} \cup IF faults < MaxFault THEN {NoHead} ELSE {} :
             /\ disk' = IF h.rev = 0 THEN disk ELSE h
             /\ lane' = IF orphan # 0 THEN lane
                        ELSE [lane EXCEPT !.at = "done", !.head = h]
             /\ faults' = IF h = Compacted(base) THEN faults ELSE faults + 1
    /\ orphan' = 0
    /\ line' = Tail(line)
    /\ UNCHANGED <<pc, anchor>>
    /\ LaneKeeps

(* reconcile_background_compaction_anchor: the anchor follows only when it *)
(* is still the head that was compacted.                                   *)
Reconciled == IF lane.head.rev # 0 /\ anchor.rev = lane.base THEN lane.head ELSE anchor

LaneFinishes ==
    /\ Polls /\ lane.at = "done"
    /\ anchor' = Reconciled
    /\ lane' = NextCompaction([lane EXCEPT !.base = 0, !.at = "none", !.head = NoHead])
    /\ UNCHANGED <<pc, orphan, disk, line, faults>>
    /\ LaneKeeps

LaneSteps == LaneAsksFence \/ LaneGetsFence \/ LaneFinishes

-----------------------------------------------------------------------------
(* Start, commands, timers and stop of the coordinator *)

(* The persisted corpus is installed, its head becomes the anchor, and the *)
(* age of the last RPC success is read.                                    *)
LoadPersisted ==
    /\ pc = "load" /\ ~cancelled
    /\ \/ /\ installed' = Corpus(disk) /\ anchor' = disk /\ preloaded' = disk
          /\ UNCHANGED faults
       \/ /\ faults < MaxFault /\ faults' = faults + 1
          /\ UNCHANGED <<installed, anchor, preloaded>>
    /\ \E age \in {"unknown", "fresh", "stale"} : health' = [health EXCEPT !.age = age]
    /\ pc' = "first"
    /\ UNCHANGED <<queue, active, batch, reset, lane, orphan, callers,
                   cancelled, source, disk, line>>

FirstAttempt ==
    /\ pc = "first" /\ ~cancelled
    /\ StartAttempt(Kinds)
    /\ pc' = "loop"
    /\ UNCHANGED <<queue, batch, reset, lane, orphan, health, installed,
                   anchor, callers, world, disk, line>>

(* Dropping the job gives back its place in the line for the fence. *)
DropJob(l) == Without(l, "job")

(* Dropping the lane's compaction: one that waits leaves the line, one     *)
(* that writes goes on by itself.                                          *)
DropLane ==
    /\ lane' = Idle
    /\ orphan' = IF lane.at = "writing" THEN lane.base ELSE orphan

LineWithoutLane(l) ==
    IF lane.at = "writing" THEN <<"orphan">> \o Tail(l) ELSE Without(l, "compact")

(* A retry is refused while a reset is on, and otherwise replaces the      *)
(* attempt that runs, taking over its scope.                               *)
TakeRetry(c) ==
    LET open == reset \in released \cup {NoOne}
    IN  /\ reset' = IF open THEN NoOne ELSE reset
        /\ IF ~open \/ ~TryRead
           THEN call' = Answer(call, c) /\ UNCHANGED <<active, line, preloaded>>
           ELSE /\ \E scope \in {Kinds, {"events"}} :
                      active' = NewAttempt(scope \cup active.scope, c)
                /\ preloaded' = NoHead
                /\ line' = DropJob(line)
                /\ call' = [Answer(call, active.retry) EXCEPT
                              ![c] = IF @ = "admit" THEN "wait" ELSE @]

(* A variant: the quiesce is answered and nothing dropped. *)
TakeQuiesceOnly(r) ==
    /\ reset' = r
    /\ UNCHANGED <<active, lane, orphan, line, call>>
    /\ permit' = [permit EXCEPT ![r] = IF @ = "quiesce" THEN "quiesced" ELSE @]

(* The quiesce of a reset drops the attempt and the lane. *)
TakeQuiesce(r) ==
    /\ reset' = r
    /\ active' = NoAttempt
    /\ DropLane
    /\ line' = LineWithoutLane(DropJob(line))
    /\ call' = Answer(call, active.retry)
    /\ permit' = [permit EXCEPT ![r] = IF @ = "quiesce" THEN "quiesced" ELSE @]

TakeCommand ==
    /\ pc = "loop" /\ ~cancelled /\ queue # <<>>
    /\ queue' = Tail(queue)
    /\ LET m == Head(queue) IN
       \/ /\ m.what = "retry"
          /\ TakeRetry(m.who)
          /\ UNCHANGED <<lane, orphan, permit>>
       \/ /\ m.what = "quiesce"
          /\ TakeQuiesce(m.who)
          /\ UNCHANGED preloaded
    /\ UNCHANGED <<pc, batch, health, installed, anchor, handle, gate, released,
                   world, disk>>

(* The deadline branch: nothing runs, no reset is on.  The deadlines of    *)
(* the two kinds come from the last success, the last failure and the      *)
(* demand of the wallets: either may be the next to pass.                  *)
MaintenanceDue(scope) ==
    /\ Polls /\ active = NoAttempt /\ reset = NoOne /\ LanePolled
    /\ StartAttempt(scope)
    /\ UNCHANGED <<pc, queue, batch, reset, lane, orphan, health, installed,
                   anchor, callers, world, disk, line>>

(* The release branch: a full attempt follows every reset. *)
ResetReleased ==
    /\ Polls /\ active = NoAttempt /\ reset \in released /\ LanePolled
    /\ reset' = NoOne
    /\ StartAttempt(Kinds)
    /\ UNCHANGED <<pc, queue, batch, lane, orphan, health, installed, anchor,
                   callers, world, disk, line>>

(* Shutdown: the attempt's caller is told, commands are dropped unread. *)
Stop ==
    /\ pc \in {"load", "first", "loop"} /\ cancelled
    /\ active' = NoAttempt
    /\ DropLane
    /\ line' = LineWithoutLane(DropJob(line))
    /\ call' = Answer(call, active.retry)
    /\ queue' = <<>>
    /\ pc' = "stopped"
    /\ UNCHANGED <<batch, reset, health, preloaded, installed, anchor,
                   handle, gate, permit, released, world, disk>>

CoordinatorSteps == LoadPersisted \/ FirstAttempt \/ TakeCommand
                    \/ ResetReleased \/ Stop

-----------------------------------------------------------------------------
(* The callers of the service *)

CallerKeeps == UNCHANGED <<active, batch, reset, lane, orphan, health,
                           preloaded, installed, anchor, permit, released, world, disk, line>>

Moves(c, at) == call' = [call EXCEPT ![c] = at]

(* The call returns, with whatever it held of the gate. *)
Returns(c) ==
    /\ Moves(c, "done")
    /\ gate' = LeaveGate(gate, c)

CallRetry(c) ==
    /\ call[c] = "idle" /\ Moves(c, "look")
    /\ UNCHANGED <<pc, queue, handle, gate>> /\ CallerKeeps

(* start_chain: a live coordinator is reused once it is initialised; a     *)
(* stopped one is forgotten.                                               *)
Look(c) ==
    /\ call[c] = "look"
    /\ \/ /\ handle /\ pc \notin {"load", "stopped"}
          /\ Moves(c, "gate") /\ UNCHANGED handle
       \/ /\ ~handle \/ pc = "stopped"
          /\ handle' = FALSE
          /\ Moves(c, "start")
    /\ gate' = JoinGate(gate, c)
    /\ UNCHANGED <<pc, queue>> /\ CallerKeeps

(* Under the gate: the coordinator is spawned unless there is one, or the  *)
(* service shuts down.                                                     *)
Spawn(c) ==
    /\ call[c] = "start" /\ MayRead(c)
    /\ IF ~handle /\ cancelled
       THEN Returns(c) /\ UNCHANGED <<pc, handle>>
       ELSE /\ handle' = TRUE
            /\ pc' = IF handle THEN pc ELSE "load"
            /\ Moves(c, "init")
            /\ gate' = [LeaveGate(gate, c) EXCEPT !.rd = @ \cup {c}]
    /\ UNCHANGED queue /\ CallerKeeps

(* A variant: a coordinator that stops before it has initialised is not noticed. *)
InitialisedOnly(c) ==
    /\ call[c] = "init" /\ pc \notin {"load", "stopped"}
    /\ Moves(c, "gate")
    /\ gate' = JoinGate(LeaveGate(gate, c), c)
    /\ UNCHANGED <<pc, queue, handle>> /\ CallerKeeps

(* The gate is held until the coordinator has initialised or stopped. *)
Initialised(c) ==
    /\ call[c] = "init" /\ pc # "load"
    /\ IF pc = "stopped"
       THEN Returns(c) /\ handle' = FALSE
       ELSE /\ Moves(c, "gate")
            /\ gate' = JoinGate(LeaveGate(gate, c), c)
            /\ UNCHANGED handle
    /\ UNCHANGED <<pc, queue>> /\ CallerKeeps

(* retry_chain_with_scope: the gate is held until the command is sent. *)
EnterRetry(c) ==
    /\ call[c] = "gate" /\ MayRead(c)
    /\ IF handle
       THEN /\ Moves(c, "send")
            /\ gate' = [LeaveGate(gate, c) EXCEPT !.rd = @ \cup {c}]
       ELSE Returns(c)
    /\ UNCHANGED <<pc, queue, handle>> /\ CallerKeeps

SendRetry(c) ==
    /\ call[c] = "send"
    /\ IF pc = "stopped"
       THEN Returns(c) /\ handle' = FALSE /\ UNCHANGED queue
       ELSE /\ Len(queue) < QueueCap
            /\ queue' = Append(queue, [what |-> "retry", who |-> c])
            /\ Moves(c, "admit")
            /\ gate' = LeaveGate(gate, c)
            /\ UNCHANGED handle
    /\ UNCHANGED pc /\ CallerKeeps

(* The coordinator went away with the command. *)
RetryRefused(c) ==
    /\ call[c] = "admit" /\ pc = "stopped"
    /\ Returns(c) /\ handle' = FALSE
    /\ UNCHANGED <<pc, queue>> /\ CallerKeeps

(* The caller's future is dropped. *)
DropRetry(c) ==
    /\ call[c] \notin {"idle", "done"}
    /\ Returns(c)
    /\ UNCHANGED <<pc, queue, handle>> /\ CallerKeeps

RetrySteps(c) == Look(c) \/ Spawn(c) \/ Initialised(c) \/ EnterRetry(c)
                 \/ SendRetry(c) \/ RetryRefused(c)

-----------------------------------------------------------------------------
(* reset_public_cache: the gate, the quiesce, the commit fence *)

ResetKeeps == UNCHANGED <<pc, active, batch, reset, lane, orphan, health,
                          preloaded, installed, anchor, call, world, disk>>

Steps(r, at) == permit' = [permit EXCEPT ![r] = at]

BeginReset(r) ==
    /\ permit[r] = "idle" /\ Steps(r, "gate")
    /\ gate' = JoinGate(gate, r)
    /\ UNCHANGED <<queue, handle, released, line>> /\ ResetKeeps

(* quiesce_for_public_cache_reset, with the gate held for writing. *)
CloseGate(r) ==
    /\ permit[r] = "gate" /\ MayWrite(r)
    /\ gate' = [LeaveGate(gate, r) EXCEPT !.w = r]
    /\ Steps(r, IF handle THEN "send" ELSE "quiesced")
    /\ UNCHANGED <<queue, handle, released, line>> /\ ResetKeeps

SendQuiesce(r) ==
    /\ permit[r] = "send"
    /\ IF pc = "stopped"
       THEN handle' = FALSE /\ Steps(r, "quiesced") /\ UNCHANGED queue
       ELSE /\ Len(queue) < QueueCap
            /\ queue' = Append(queue, [what |-> "quiesce", who |-> r])
            /\ Steps(r, "quiesce")
            /\ UNCHANGED handle
    /\ UNCHANGED <<gate, released, line>> /\ ResetKeeps

QuiesceLost(r) ==
    /\ permit[r] = "quiesce" /\ pc = "stopped"
    /\ handle' = FALSE /\ Steps(r, "quiesced")
    /\ UNCHANGED <<queue, gate, released, line>> /\ ResetKeeps

AskFence(r) ==
    /\ permit[r] = "quiesced" /\ Steps(r, "fence")
    /\ line' = Append(line, r)
    /\ UNCHANGED <<queue, handle, gate, released>> /\ ResetKeeps

HoldPermit(r) ==
    /\ permit[r] = "fence" /\ Holds(r) /\ Steps(r, "held")
    /\ UNCHANGED <<queue, handle, gate, released, line>> /\ ResetKeeps

(* The permit, or the future that asks for it, is dropped: the fence and   *)
(* the gate open, and then the coordinator's token is cancelled.           *)
OpenGate(r) ==
    /\ permit[r] \in {"gate", "send", "quiesce", "fence", "held"}
    /\ line' = Without(line, r)
    /\ gate' = LeaveGate(gate, r)
    /\ Steps(r, "opened")
    /\ UNCHANGED <<queue, handle, released>> /\ ResetKeeps

CancelLease(r) ==
    /\ permit[r] = "opened" /\ Steps(r, "done")
    /\ released' = released \cup {r}
    /\ UNCHANGED <<queue, handle, gate, line>> /\ ResetKeeps

ResetSteps(r) == CloseGate(r) \/ SendQuiesce(r) \/ QuiesceLost(r) \/ AskFence(r)
                 \/ HoldPermit(r) \/ CancelLease(r)
                 \/ (permit[r] = "held" /\ OpenGate(r))

-----------------------------------------------------------------------------
(* The surroundings *)

(* Other writers of the data plane take the commit fence and give it back. *)
OtherTakes ==
    /\ line = <<>>
    /\ line' = Append(line, "other")
    /\ UNCHANGED <<coordinator, callers, world, disk>>

OtherGives ==
    /\ Holds("other") /\ line' = Tail(line)
    /\ UNCHANGED <<coordinator, callers, world, disk>>

(* Five minutes without an RPC success.  The next attempt for events is    *)
(* due at most five minutes after the last one, so a success of a later    *)
(* attempt for blocked shields is not old before it.                       *)
RpcAges ==
    /\ Polls /\ active = NoAttempt /\ health.age # "stale" /\ ~health.tail
    /\ health' = [health EXCEPT !.age = "stale"]
    /\ UNCHANGED <<pc, queue, active, batch, reset, lane, orphan, preloaded, installed, anchor, callers, world, disk, line>>

(* New events and artifacts matter when a job is about to read them. *)
EventAppears ==
    /\ active.at = "ready"
    /\ source.ev < MaxEvent /\ source' = [source EXCEPT !.ev = @ + 1]
    /\ UNCHANGED <<coordinator, callers, cancelled, faults, disk, line>>

ArtifactAppears ==
    /\ active.at = "fetch"
    /\ source.art < source.ev /\ source' = [source EXCEPT !.art = source.ev]
    /\ UNCHANGED <<coordinator, callers, cancelled, faults, disk, line>>

BeginShutdown ==
    /\ ~cancelled /\ cancelled' = TRUE
    /\ UNCHANGED <<coordinator, callers, source, faults, disk, line>>

-----------------------------------------------------------------------------
Init ==
    /\ pc = "none" /\ handle = FALSE /\ cancelled = FALSE /\ queue = <<>>
    /\ active = NoAttempt /\ batch = NoBatch /\ reset = NoOne /\ lane = Idle
    /\ orphan = 0
    /\ health = [fails |-> 0, age |-> "unknown", accel |-> FALSE, probe |-> FALSE,
                 tail |-> FALSE]
    /\ preloaded = NoHead /\ installed = Empty /\ anchor = NoHead
    /\ disk = NoHead /\ line = <<>>
    /\ gate = [w |-> NoOne, rd |-> {}, line |-> <<>>]
    /\ call = [c \in Retriers |-> "idle"] /\ permit = [r \in Resets |-> "idle"]
    /\ released = {} /\ source = [ev |-> 0, art |-> 0] /\ faults = 0

Next ==
    \/ JobSteps \/ FinishSteps \/ LaneSteps \/ CompactionWrites \/ CoordinatorSteps
    \/ \E c \in Retriers : CallRetry(c) \/ RetrySteps(c) \/ DropRetry(c)
    \/ \E r \in Resets : BeginReset(r) \/ ResetSteps(r) \/ OpenGate(r)
    \/ OtherTakes \/ OtherGives
    \/ \E scope \in SUBSET Kinds \ {{}} : MaintenanceDue(scope)
    \/ RpcAges \/ EventAppears \/ ArtifactAppears \/ BeginShutdown

Spec == Init /\ [][Next]_vars

(* The runtime polls every task that can move, whoever holds the fence,    *)
(* blocking thread or other writer, gives it back, deadlines pass.         *)
Fairness ==
    /\ WF_vars(JobSteps \/ FinishSteps) /\ SF_vars(LaneSteps)
    /\ WF_vars(CompactionWrites \/ OtherGives) /\ WF_vars(CoordinatorSteps)
    /\ \A c \in Retriers : SF_vars(RetrySteps(c))
    /\ \A r \in Resets : SF_vars(ResetSteps(r))
    /\ SF_vars(MaintenanceDue({"events"}))

FairSpec == Spec /\ Fairness

-----------------------------------------------------------------------------
(* Properties *)

TypeOK ==
    /\ pc \in {"none", "load", "first", "loop", "commit", "apply", "stopped"}
    /\ active.at \in {"none", "load", "ready", "lock", "fetch"}
    /\ disk.rev \in 0..MaxRev /\ Len(queue) <= QueueCap

(* While a reset of the public cache holds its permit, the coordinator is  *)
(* quiet: no attempt runs or commits, no compaction writes, not even one   *)
(* whose job was dropped.                                                  *)
ResetIsQuiet ==
    \A r \in Resets : permit[r] = "held" =>
        /\ active = NoAttempt /\ pc \notin {"commit", "apply"}
        /\ lane.at # "writing" /\ orphan = 0

(* The anchor is the head of the corpus that is installed; when the anchor *)
(* is the durable head, an attempt may start from memory instead of the    *)
(* journal, and does so from the same corpus.                              *)
AnchorMatchesCorpus ==
    /\ Corpus(anchor) = installed
    /\ (anchor.rev = disk.rev => anchor = disk)

(* A step keeps the events of both corpora, and serves only durable ones. *)
KeepsEvents ==
    /\ disk'.ev >= disk.ev /\ installed'.ev >= installed.ev
    /\ installed' # installed => installed'.ev <= disk.ev

(* Neither the durable nor the served corpus ever loses events, whatever   *)
(* is committed, compacted or found in an older artifact, and what is      *)
(* served was made durable first.                                          *)
CorpusNeverShrinks == [][KeepsEvents]_vars

(* The coordinator waits for the fence behind the compaction of its own    *)
(* lane, which it does not poll while it waits.                            *)
WaitsForItself == pc = "commit" /\ lane.at = "queued" /\ Holds("compact")

(* "quiesce remains responsive during compaction": a reset that has sent   *)
(* its quiesce gets the answer.                                            *)
QuiesceAnswered == \A r \in Resets : permit[r] = "quiesce" ~> permit[r] # "quiesce"

(* A retry call has returned, or the coordinator waits for itself. *)
Answered(c) == call[c] \in {"idle", "done"} \/ WaitsForItself

(* The events on the network are served by a coordinator that was started. *)
Served ==
    \/ pc = "none" \/ source.ev < MaxEvent \/ installed.ev = MaxEvent
    \/ cancelled \/ WaitsForItself
=============================================================================
