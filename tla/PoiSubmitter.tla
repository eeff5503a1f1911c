---------------------------- MODULE PoiSubmitter ----------------------------
(* The chain's sender of single-commitment proofs (ChainPoiSubmitterDriver,*)
(* chain/poi_submitter.rs) and the scheduler that admits transactions to   *)
(* isolated routes (PoiSubmissionScheduler, poi_submission.rs).            *)
(*                                                                         *)
(* The driver is one task: a command, a joined send, a freed route and a   *)
(* deadline are each handled in one turn, and every turn ends by starting  *)
(* the sends that may start.  Sends are tasks of their own; a wallet uses  *)
(* the same scheduler for its own proofs.  A proof set is a model value, a *)
(* position too; the times of spacing, backoff and expiry are what may     *)
(* have run out.  A new attempt and a new route slot take names that       *)
(* nothing uses, as a counter and an allocation do.                        *)
EXTENDS Naturals, Sequences, FiniteSets, SequencesExt, Functions

CONSTANTS Output, Txid, Lists,
          Position,     \* where an output may be seen before finality
          Final,        \* where it is finalized
          NoPosition,
          TxidMaps,     \* the transactions the outputs may belong to
          First,        \* the proof sets prepared at the start
          MaxSends,     \* MAX_IN_FLIGHT_SENDS
          MaxRoutes,    \* MAX_OPEN_ROUTES
          MaxInput,     \* prepares, handoffs, observed batches and wallet passes
          MaxFault      \* sends and opens that fail

VARIABLES
    txid,       \* the Railgun transaction of each output
    routed,     \* a route provider is configured
    entry,      \* DriverState::entries
    queue,      \* DriverState::queue
    task,       \* DriverState::sends and running
    retry,      \* admission_retry_at is set
    refresh,    \* the corpus refresh and refresh_again
    sched,      \* SchedulerState and the watch channel
    wallet,     \* the slot of the wallet's transact proofs
    accepted,   \* what the POI node acknowledged
    inputs, faults, stopped

vars == <<txid, routed, entry, queue, task, retry, refresh, sched, wallet,
          accepted, inputs, faults, stopped>>

Ids   == 1..(2 * Cardinality(Output) + MaxSends)
Slots == 1..(Cardinality(Output) + MaxSends + 1)

NoAttempt == [id |-> 0, lists |-> {}, running |-> FALSE, slot |-> 0]
NoPlace   == [out |-> NoPosition, final |-> FALSE, att |-> NoAttempt,
              acked |-> {}, retryAt |-> FALSE, again |-> FALSE]
NoEntry   == [lists |-> {}, place |-> NoPlace]
Free      == [txid |-> 0, st |-> "free"]

Known(e, o)  == e[o] # NoEntry
Placed(e, o) == e[o].place.out # NoPosition

-----------------------------------------------------------------------------
(* The scheduler *)

(* A slot lives while a reservation or a permit refers to it. *)
Referred(e, k, w) ==
    {e[o].place.att.slot : o \in Output} \cup {t.slot : t \in k} \cup {w}

(* A variant: a slot whose open failed is given back again at the drop. *)
ReleaseTwice(s, gone) ==
    [s EXCEPT !.slot = [i \in Slots |-> IF i \in gone THEN Free ELSE @[i]],
              !.active = [t \in Txid |-> IF @[t] \in gone THEN 0 ELSE @[t]],
              !.open = @ - Cardinality(gone),
              !.changed = @ \/ gone # {}]

(* KeySlot::drop, and PoiSubmissionScheduler::release unless the failed    *)
(* open has released it before.                                            *)
Release(s, gone) ==
    LET held == {i \in gone : s.slot[i].st # "failed"}
    IN  [s EXCEPT !.slot = [i \in Slots |-> IF i \in gone THEN Free ELSE @[i]],
                  !.active = [t \in Txid |-> IF @[t] \in held THEN 0 ELSE @[t]],
                  !.open = @ - Cardinality(held),
                  !.changed = @ \/ held # {}]

(* What the last reference leaves behind. *)
Dropped(s, e, k, w) ==
    Release(s, {i \in Slots : s.slot[i].st # "free" /\ i \notin Referred(e, k, w)})

(* try_reserve for a transaction that is not active. *)
MayAdmit(s) == ~s.spaced /\ s.open < MaxRoutes

NewSlot(s) == CHOOSE i \in Slots : s.slot[i].st = "free"

Admit(s, t) ==
    [s EXCEPT !.slot[NewSlot(s)] = [txid |-> t, st |-> "new"],
              !.active[t] = NewSlot(s), !.open = @ + 1, !.spaced = TRUE]

-----------------------------------------------------------------------------
(* Entries *)

(* The attempt under way is for the lists of the entry. *)
InFlight(e, o) == e[o].place.att.id # 0 /\ e[o].place.att.lists = e[o].lists

(* Entry::current_tuple_settled *)
Settled(e, o) == Placed(e, o) /\ (InFlight(e, o) \/ e[o].lists \in e[o].place.acked)

(* Entry::replace_placement *)
Replaced(e, o, out, final) ==
    [e EXCEPT ![o].place = [NoPlace EXCEPT !.out = out, !.final = final]]

(* Entry::place_finalized *)
PlaceFinalized(e, o, out) ==
    IF e[o].place.out # out THEN Replaced(e, o, out, TRUE)
    ELSE IF e[o].place.final THEN e
    ELSE [e EXCEPT ![o].place = [@ EXCEPT !.final = TRUE, !.retryAt = FALSE]]

(* Attempt::cancel: the send of a placement that went is aborted if it     *)
(* runs; a queued one is skipped, and one that has ended is still joined.  *)
AbortsOf(k, old, new) ==
    LET gone == {old[o].place.att.id : o \in Output} \ {new[o].place.att.id : o \in Output}
    IN  {IF t.id \in gone \ {0} /\ t.st = "run" THEN [t EXCEPT !.st = "abort"] ELSE t : t \in k}

UsedIds(e, q, k) ==
    {e[o].place.att.id : o \in Output} \cup {q[n][2] : n \in 1..Len(q)} \cup {t.id : t \in k}

(* queue_send of the outputs os, none of which has its tuple in flight: an *)
(* attempt for other lists at the same position is replaced.               *)
QueueSends(e, q, os) ==
    LET ids == CHOOSE f \in [os -> Ids \ UsedIds(e, q, task)] : IsInjective(f)
    IN  [e |-> [o \in Output |->
                  IF o \notin os THEN e[o]
                  ELSE [e[o] EXCEPT !.place =
                          [@ EXCEPT !.att = [id |-> ids[o], lists |-> e[o].lists,
                                             running |-> FALSE, slot |-> 0],
                                    !.retryAt = FALSE, !.again = FALSE]]],
         q |-> q \o [n \in 1..Cardinality(os) |-> <<SetToSeq(os)[n], ids[SetToSeq(os)[n]]>>]]

-----------------------------------------------------------------------------
(* Starting sends *)

(* queued_txid: the attempt is still the entry's and has not started. *)
Waits(e, x) == e[x[1]].place.att.id = x[2] /\ ~e[x[1]].place.att.running

(* hold_live_reservations *)
HoldLive(e, q, s) ==
    [o \in Output |->
        IF \E n \in 1..Len(q) : q[n][1] = o /\ Waits(e, q[n])
        THEN [e[o] EXCEPT !.place.att.slot = IF routed THEN s.active[txid[o]] ELSE 0]
        ELSE e[o]]

MayStart(e, x) == routed => e[x[1]].place.att.slot # 0

(* spawn_send of the attempts that need no further admission, in the order *)
(* of the queue, while fewer than MaxSends run.                            *)
StartHeld(e, q, k, s) ==
    LET able == {n \in 1..Len(q) : MayStart(e, q[n])}
        runs == {n \in able : Cardinality({m \in able : m <= n}) + Cardinality(k) <= MaxSends}
        go   == {q[n] : n \in runs}
        send(x) == [o |-> x[1], id |-> x[2], out |-> e[x[1]].place.out,
                    lists |-> e[x[1]].place.att.lists, slot |-> e[x[1]].place.att.slot,
                    st |-> "run"]
    IN  [e |-> [o \in Output |->
                  IF \E x \in go : x[1] = o
                  THEN [e[o] EXCEPT !.place.att = [@ EXCEPT !.running = TRUE, !.slot = 0]]
                  ELSE e[o]],
         q |-> SelectSeq(q, LAMBDA x : x \notin go),
         k |-> k \cup {send(x) : x \in go}, s |-> s, retry |-> FALSE]

Unadmitted(d) == {txid[d.q[n][1]] : n \in 1..Len(d.q)}

More(d) == routed /\ Unadmitted(d) # {} /\ Cardinality(d.k) < MaxSends


(* A deferral by spacing is retried when it ends, one by the limit when a  *)
(* route is freed.                                                         *)
Deferred(d) == [d EXCEPT !.retry = More(d) /\ d.s.spaced]

(* start_queued_sends: without routes the queue is started in order; with  *)
(* routes one waiting transaction, any of them, is admitted when spacing   *)
(* and the limit allow, and spacing then defers the next.                  *)
StartQueued(e, q, k, s) ==
    UNION {IF ~More(d) \/ ~MayAdmit(s) THEN {Deferred(d)}
           ELSE UNION {{Deferred(StartHeld(h, d.q, d.k, a)) : h \in {HoldLive(d.e, d.q, a)}}
                         : a \in {Admit(s, t) : t \in Unadmitted(d)}}
           : d \in UNION {{StartHeld(h, q1, k, s) : h \in {HoldLive(e, q1, s)}}
                            : q1 \in {SelectSeq(q, LAMBDA x : Waits(e, x))}}}

(* The end of a turn of the driver, which leaves the entries e, the queue  *)
(* q, the tasks k and the scheduler s.                                     *)
EndTurn(e, q, k, s) ==
    \E s1 \in {Dropped(s, e, k, wallet)} : \E d \in StartQueued(e, q, k, s1) :
        /\ entry' = d.e /\ queue' = d.q /\ task' = d.k /\ retry' = d.retry
        /\ sched' = Dropped(d.s, d.e, d.k, wallet)

(* A turn that queues sends of os and starts what may start. *)
SendTurn(e, os) ==
    \E d \in {QueueSends(e, queue, os)} : \E k \in {AbortsOf(task, entry, d.e)} :
        EndTurn(d.e, d.q, k, sched)

(* A turn that starts nothing. *)
QuietTurn(e, k) ==
    /\ entry' = e /\ task' = k
    /\ sched' = Dropped(sched, e, k, wallet)
    /\ UNCHANGED <<queue, retry>>

-----------------------------------------------------------------------------
(* Commands *)

Turn == ~stopped /\ UNCHANGED <<txid, routed, wallet, stopped>>

Input == /\ inputs < MaxInput /\ inputs' = inputs + 1
         /\ UNCHANGED <<refresh, accepted, faults>>

(* Command::Prepare: an entry that exists keeps its placement. *)
Prepare(o, l) ==
    /\ Turn /\ Input
    /\ QuietTurn([entry EXCEPT ![o] =
                    [@ EXCEPT !.lists = l,
                              !.place.again = @ \/ (Placed(entry, o) /\ entry[o].lists # l)]],
                 task)

(* The entry a handoff leaves, before its send is decided. *)
HandedOff(o, intent, l, out) ==
    LET final == entry[o].place.final
        e1 == IF final /\ intent = "tentative" THEN entry
              ELSE [entry EXCEPT ![o].lists = l]
    IN  IF intent # "tentative" THEN PlaceFinalized(e1, o, out)
        ELSE IF ~final /\ e1[o].place.out # out THEN Replaced(e1, o, out, FALSE)
        ELSE e1

(* handle_handoff: whether a send is asked for. *)
WantsSend(e, o, intent) ==
    CASE intent = "tentative" -> ~entry[o].place.final /\ ~Settled(e, o)
      [] intent = "missing"   -> ~Settled(e, o)
      [] intent = "again"     -> ~InFlight(e, o)

HandOff(o, intent, l, out) ==
    /\ Turn /\ Input
    /\ \E e \in {HandedOff(o, intent, l, out)} :
          IF WantsSend(e, o, intent) THEN SendTurn(e, {o})
          ELSE QuietTurn(e, AbortsOf(task, entry, e))

(* ChainPoiSubmitterHandle::observe: nothing is sent to a driver that      *)
(* holds no entry.  Command::Observe: the batch is queued as a whole.      *)
Observe(batch) ==
    /\ Turn /\ Input
    /\ \E o \in batch : Known(entry, o)
    /\ LET seen == {o \in batch : Known(entry, o)}
       IN  \E e \in {[o \in Output |-> IF o \in seen THEN PlaceFinalized(entry, o, Final)[o]
                                        ELSE entry[o]]} :
              LET due == {o \in seen : ~Settled(e, o)}
              IN  IF due # {} THEN SendTurn(e, due)
                  ELSE QuietTurn(e, AbortsOf(task, entry, e))

Commands ==
    \/ \E o \in Output, l \in Lists : Prepare(o, l)
    \/ \E o \in Output, l \in Lists, p \in Position : HandOff(o, "tentative", l, p)
    \/ \E o \in Output, l \in Lists, i \in {"missing", "again"} : HandOff(o, i, l, Final)
    \/ \E batch \in SUBSET Output : Observe(batch)

-----------------------------------------------------------------------------
(* Sends *)

SendKeeps == UNCHANGED <<txid, routed, queue, retry, refresh, wallet, inputs, stopped>>

Becomes(t, st) == (task \ {t}) \cup {[t EXCEPT !.st = st, !.slot = 0]}

(* PoiSubmissionReservation::open, for whoever holds the slot first. *)
OpenRoute(i) ==
    /\ sched.slot[i].st = "new"
    /\ (\E t \in task : t.slot = i /\ t.st = "run") \/ wallet = i
    /\ \/ /\ sched' = [sched EXCEPT !.slot[i].st = "open"]
          /\ UNCHANGED faults
       \/ /\ faults < MaxFault /\ faults' = faults + 1
          /\ sched' = [sched EXCEPT !.slot[i].st = "failed", !.open = @ - 1,
                                    !.active[sched.slot[i].txid] = 0, !.changed = TRUE]
    /\ SendKeeps /\ UNCHANGED <<entry, task, accepted>>

(* The send ends: without its route, acknowledged, or with an error. *)
SendEnds(t) ==
    /\ t \in task /\ t.st = "run"
    /\ LET tuple == <<t.o, t.lists, t.out>>
           ready == t.slot # 0 => sched.slot[t.slot].st = "open"
       IN  \/ /\ t.slot # 0 /\ sched.slot[t.slot].st = "failed"
              /\ task' = Becomes(t, "noroute")
              /\ UNCHANGED <<accepted, faults>>
           \/ /\ ready
              /\ task' = Becomes(t, "ok")
              /\ accepted' = accepted \cup {tuple}
              /\ UNCHANGED faults
           \/ /\ ready /\ faults < MaxFault /\ faults' = faults + 1
              /\ task' = Becomes(t, "err")
              /\ UNCHANGED accepted
    /\ sched' = Dropped(sched, entry, task \ {t}, wallet)
    /\ SendKeeps /\ UNCHANGED entry

(* An aborted send is dropped, with its reservation. *)
AbortEnds(t) ==
    /\ t \in task /\ t.st = "abort"
    /\ task' = Becomes(t, "gone")
    /\ sched' = Dropped(sched, entry, task \ {t}, wallet)
    /\ SendKeeps /\ UNCHANGED <<entry, accepted, faults>>

(* request_refresh *)
AskRefresh == IF refresh = "none" THEN "running" ELSE "again"

(* A variant: an acknowledgement is applied to whatever attempt is under   *)
(* way.                                                                    *)
OwnsAny(t) == entry[t.o].place.att.id \in {t.id} \cup (IF t.st = "ok" THEN Ids ELSE {})

(* take_if: a result is applied to the attempt it is of. *)
Owns(t) == entry[t.o].place.att.id = t.id

(* A variant: an attempt that got no route is not queued again. *)
ResultForgets(t) ==
    LET p == entry[t.o].place
        e(q) == [entry EXCEPT ![t.o].place = q]
    IN  IF ~Owns(t) THEN [e |-> entry, q |-> queue]
        ELSE CASE t.st = "noroute" -> [e |-> e([p EXCEPT !.att.running = FALSE]), q |-> queue]
               [] t.st = "ok" ->
                    [e |-> e([p EXCEPT !.att = NoAttempt, !.acked = @ \cup {p.att.lists},
                                       !.retryAt = @ /\ p.att.lists # entry[t.o].lists]),
                     q |-> queue]
               [] OTHER ->
                    [e |-> e([p EXCEPT !.att = NoAttempt, !.retryAt = TRUE]), q |-> queue]

(* requeue_send and apply_send_result *)
Result(t) ==
    LET p == entry[t.o].place
        e(q) == [entry EXCEPT ![t.o].place = q]
    IN  IF ~Owns(t) THEN [e |-> entry, q |-> queue]
        ELSE CASE t.st = "noroute" ->
                    [e |-> e([p EXCEPT !.att.running = FALSE]), q |-> Append(queue, <<t.o, t.id>>)]
               [] t.st = "ok" ->
                    [e |-> e([p EXCEPT !.att = NoAttempt, !.acked = @ \cup {p.att.lists},
                                       !.retryAt = @ /\ p.att.lists # entry[t.o].lists]),
                     q |-> queue]
               [] OTHER ->
                    [e |-> e([p EXCEPT !.att = NoAttempt, !.retryAt = TRUE]), q |-> queue]

(* finish_send *)
FinishSend(t) ==
    /\ Turn /\ t \in task /\ t.st \notin {"run", "abort"}
    /\ \E d \in {Result(t)} : EndTurn(d.e, d.q, task \ {t}, sched)
    /\ refresh' = IF Owns(t) /\ t.st = "ok" THEN AskRefresh ELSE refresh
    /\ UNCHANGED <<accepted, inputs, faults>>

(* finish_refresh *)
FinishRefresh ==
    /\ Turn /\ refresh # "none"
    /\ refresh' = IF refresh = "again" THEN "running" ELSE "none"
    /\ UNCHANGED <<entry, queue, task, retry, sched, accepted, inputs, faults>>

(* The watch channel reports a freed route. *)
RouteReleased ==
    /\ Turn /\ routed /\ sched.changed
    /\ EndTurn(entry, queue, task, [sched EXCEPT !.changed = FALSE])
    /\ UNCHANGED <<refresh, accepted, inputs, faults>>

(* handle_deadline: entries x expired, retries r are due, or the spacing   *)
(* that deferred an admission has ended.                                   *)
HandleDeadline(x, r) ==
    /\ Turn /\ x \cap r = {}
    /\ x # {} \/ r # {} \/ (retry /\ ~sched.spaced)
    /\ \A o \in x : Known(entry, o)
    /\ \A o \in r : entry[o].place.retryAt
    /\ LET e == [o \in Output |->
                    IF o \in x THEN NoEntry
                    ELSE IF o \in r THEN [entry[o] EXCEPT !.place.retryAt = FALSE]
                    ELSE entry[o]]
       IN  SendTurn(e, {o \in r : ~Settled(e, o)})
    /\ UNCHANGED <<refresh, accepted, inputs, faults>>

Deadline == \E x, r \in SUBSET Output : HandleDeadline(x, r)

(* What fairness promises of the deadlines. *)
RetryDue == \E r \in SUBSET Output : HandleDeadline({}, r)

(* The admission gap runs out. *)
GapEnds ==
    /\ sched.spaced
    /\ sched' = [sched EXCEPT !.spaced = FALSE]
    /\ UNCHANGED <<txid, routed, entry, queue, task, retry, refresh, wallet,
                   accepted, inputs, faults, stopped>>

-----------------------------------------------------------------------------
(* A wallet's transact proofs, and the stop *)

WalletKeeps == UNCHANGED <<txid, routed, entry, queue, task, retry, refresh,
                           accepted, faults, stopped>>

(* reserve_transact_route: joins, is admitted, or is deferred. *)
WalletReserves(t) ==
    /\ routed /\ wallet = 0
    /\ inputs < MaxInput /\ inputs' = inputs + 1
    /\ \/ /\ sched.active[t] # 0
          /\ wallet' = sched.active[t]
          /\ UNCHANGED sched
       \/ /\ sched.active[t] = 0 /\ MayAdmit(sched)
          /\ wallet' = NewSlot(sched)
          /\ sched' = Admit(sched, t)
    /\ WalletKeeps

(* The route is dropped at the end of the pass or at the next transaction. *)
WalletReleases ==
    /\ wallet # 0 /\ sched.slot[wallet].st # "new"
    /\ wallet' = 0
    /\ sched' = Dropped(sched, entry, task, 0)
    /\ WalletKeeps /\ UNCHANGED inputs

(* Chain cancel: sends and refresh are aborted and awaited, and what the   *)
(* driver held is dropped.                                                 *)
Stop ==
    /\ ~stopped
    /\ stopped' = TRUE
    /\ entry' = [o \in Output |-> NoEntry] /\ queue' = <<>> /\ task' = {}
    /\ retry' = FALSE /\ refresh' = "none"
    /\ sched' = Dropped(sched, entry', {}, wallet)
    /\ UNCHANGED <<txid, routed, wallet, accepted, inputs, faults>>

-----------------------------------------------------------------------------
Init ==
    /\ txid \in TxidMaps /\ routed \in BOOLEAN
    /\ entry = [o \in Output |-> [NoEntry EXCEPT !.lists = First]] /\ queue = <<>> /\ task = {}
    /\ retry = FALSE /\ refresh = "none" /\ wallet = 0
    /\ sched = [slot |-> [i \in Slots |-> Free], active |-> [t \in Txid |-> 0],
                open |-> 0, spaced |-> FALSE, changed |-> FALSE]
    /\ accepted = {} /\ inputs = 0 /\ faults = 0 /\ stopped = FALSE

TaskSteps == \E t \in task : SendEnds(t) \/ AbortEnds(t)

(* The driver has ended; the program goes on without it. *)
Ended == stopped /\ UNCHANGED vars

Next ==
    \/ Ended
    \/ Commands \/ TaskSteps \/ Deadline \/ GapEnds \/ FinishRefresh
    \/ RouteReleased \/ Stop \/ WalletReleases
    \/ \E t \in task : FinishSend(t)
    \/ \E i \in Slots : OpenRoute(i)
    \/ \E t \in Txid : WalletReserves(t)

Spec == Init /\ [][Next]_vars

(* The runtime polls every task, timers fire, joined tasks are handled and *)
(* a pass of the wallet ends.                                              *)
Fairness ==
    /\ WF_vars(TaskSteps) /\ WF_vars(\E t \in task : FinishSend(t))
    /\ WF_vars(\E i \in Slots : OpenRoute(i))
    /\ WF_vars(RetryDue) /\ WF_vars(GapEnds) /\ WF_vars(RouteReleased)
    /\ WF_vars(WalletReleases)

FairSpec == Spec /\ Fairness

-----------------------------------------------------------------------------
(* A proof whose output has a position is on its way: sent, queued once,   *)
(* running, or waiting for its retry.  Only a context prepared again for a *)
(* placed output waits for the next handoff or observation.                *)
NothingForgotten ==
    \A o \in Output :
        LET p == entry[o].place
            places == {n \in 1..Len(queue) : queue[n] = <<o, p.att.id>>}
        IN  /\ Placed(entry, o) /\ ~Settled(entry, o)
                  => p.retryAt \/ p.again \/ p.att.id # 0
            /\ p.att.id # 0 =>
                  /\ Cardinality(places) = IF p.att.running THEN 0 ELSE 1
                  /\ p.att.running <=> \E t \in task : t.id = p.att.id

(* A proof counts as acknowledged where its output now is only if the node *)
(* took that proof for that position: a late result of a send that was     *)
(* replaced, or of a position the output has left, settles nothing.        *)
AcksAreReal ==
    \A o \in Output : \A l \in entry[o].place.acked : <<o, l, entry[o].place.out>> \in accepted

(* The counter of open routes is the number of transactions that hold one, *)
(* through failed opens, joined reservations and aborted sends, and the    *)
(* limit is kept.                                                          *)
RoutesCounted ==
    /\ sched.open = Cardinality({i \in Slots : sched.slot[i].st \in {"new", "open"}})
    /\ sched.open <= MaxRoutes
    /\ \A t \in Txid : sched.active[t] # 0 => sched.slot[sched.active[t]].txid = t

(* Every proof of a placed output reaches the node, through deferrals,     *)
(* failed routes, failed sends and replaced attempts, unless its entry     *)
(* goes or its context is prepared anew.                                   *)
Due(o) == Placed(entry, o) /\ ~entry[o].place.again
Arrived(o) == entry[o].lists \in entry[o].place.acked \/ ~Due(o)

ProofsArrive == \A o \in Output : Due(o) ~> Arrived(o)
=============================================================================
