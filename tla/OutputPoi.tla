----------------------------- MODULE OutputPoi -----------------------------
(***************************************************************************)
(* The wallet's private bookkeeping of proof-of-innocence (POI) work for   *)
(* the outputs it created: pending contexts (which lists an output still   *)
(* needs, which were submitted, where it was observed), recovery records   *)
(* (retry state, bound to a source transaction) and the POI statuses of    *)
(* the wallet's own outputs.                                               *)
(*                                                                         *)
(* One background maintenance job reads that state, talks to the POI node  *)
(* and proposes deltas; only the wallet actor writes.  Between a read and  *)
(* the delta's turn the actor may scan, rewind or reset, so every delta    *)
(* carries what it read and is applied only if that is still what is       *)
(* stored.  A job aborted by its watchdog may leave one delta in the       *)
(* actor's mailbox.                                                        *)
(***************************************************************************)
EXTENDS Naturals, FiniteSets, Sequences

CONSTANTS
  Output,     \* output commitments
  Tx,         \* transactions an output can be found in
  List,       \* POI lists
  Active,     \* the lists the wallet is configured with
  None,       \* no record, no transaction
  Roles,      \* assignments of "Change", "Recipient" or "Outgoing" (recovered) to outputs
  Proofs,     \* sets of lists the transaction builder may have stored proofs for
  Settings    \* pairs of a mode, where POI statuses are read: "proxy" (the node),
              \* "indexed" (the local corpus), "fallback" (the corpus, the node while
              \* it is not ready), and the bounds on reorganisations, watchdog aborts,
              \* forced refreshes, remote failures and blocked outputs

VARIABLES
  role,    \* role[o]: what the transaction made o for
  mode,    \* the wallet's POI runtime
  at,      \* at[o]: the transaction holding o on the canonical chain
  seen,    \* seen[o]: the transaction the wallet's scan found o in
  ctx,     \* pending output contexts
  rec,     \* output recovery records
  due,     \* due[o]: the retry time stored in rec[o] has passed
  utxo,    \* the wallet's own outputs
  truth,   \* <<o, t, l>>: the POI node holds a valid proof of o in t for l
  blocked, \* <<o, t, l>>: list l refuses o in t (ShieldBlocked unless valid)
  sent,    \* <<o, t, l>>: the node has taken a proof
  gen,     \* the wallet's reset generation
  ready,   \* backfill is complete in this generation
  ctl,     \* the maintenance controller's latches
  job,     \* the maintenance job
  forced,  \* forced submissions the scheduler deferred, per transaction
  mail,    \* deltas queued for the actor
  left     \* what remains of the bounds

wallet == <<ctx, rec, due, utxo>>
config == <<role, mode>>
node == <<truth, blocked>>
vars == <<role, mode, at, seen, ctx, rec, due, utxo, truth, blocked, sent, gen, ready, ctl,
          job, forced, mail, left>>

Outgoing == {o \in Output : role[o] = "Outgoing"}

----------------------------------------------------------------------------
(* Records *)

Context(need, proofs, obs) ==
  [need |-> need, proofs |-> proofs, sub |-> {}, obs |-> obs, terminal |-> FALSE]

ListKeys(c) == IF c.need = {} THEN c.proofs ELSE c.need
Missing(c) == ListKeys(c) \ c.sub
OnActive(c) == ListKeys(c) \cap Active

NewRecovery(src, status) == [src |-> src, status |-> status, retry |-> FALSE]

\* OutputPoiRecoveryRecord::apply_action; a retry time is stored or cleared
ApplyAction(r, a) ==
  CASE a.t = "Extend"    -> r
    [] a.t = "Detected"  -> [r EXCEPT !.status = a.status, !.retry = a.retry]
    [] a.t = "Submitted" -> [r EXCEPT !.status = "Submitted", !.retry = TRUE]
    [] a.t = "Failed"    -> [r EXCEPT !.status = "SubmitFailed", !.retry = TRUE]
    [] a.t = "Valid"     -> [r EXCEPT !.status = "Valid", !.retry = FALSE]

Detected(status, retry) == [t |-> "Detected", status |-> status, retry |-> retry]
Recovered == Detected("Recoverable", FALSE)
Act(t) == [t |-> t, status |-> "none", retry |-> FALSE]

DefaultStatus(a) ==
  CASE a.t = "Detected" -> a.status
    [] a.t = "Extend" -> "Recoverable"
    [] a.t = "Submitted" -> "Submitted"
    [] a.t = "Failed" -> "SubmitFailed"
    [] a.t = "Valid" -> "Valid"

SubmissionRetryAllowed(o, r, force) ==
  /\ r.status \in {"Submitted", "SubmitFailed", "Recoverable"}
  /\ force \/ (r.retry /\ due[o])

RetryAllowed(o, r, force) ==
  /\ r.status # "Valid"
  /\ r.status = "Skip" => force
  /\ force \/ ~r.retry \/ due[o]

\* store record r after action a: the stored retry time lies in the future
Stored(o, r, a) ==
  /\ rec' = [rec EXCEPT ![o] = ApplyAction(IF r = None THEN NewRecovery(a.src, DefaultStatus(a.act))
                                                       ELSE r, a.act)]
  /\ due' = [due EXCEPT ![o] = IF a.act.t = "Extend" THEN @ ELSE FALSE]

Erased(o) == rec' = [rec EXCEPT ![o] = None] /\ due' = [due EXCEPT ![o] = FALSE]

Unspent(o) == utxo[o] # None /\ ~utxo[o].spent

----------------------------------------------------------------------------
(* Subjects: whose output is a context about *)

NoSubject == [k |-> "none", src |-> None]

MatchesUtxo(o, c) == utxo[o].src = c.obs

\* current_pending_output_poi_subject
Subject(o, c) ==
  IF c = None THEN NoSubject
  ELSE IF c.obs = None THEN NoSubject
  ELSE IF Unspent(o)
       THEN IF MatchesUtxo(o, c) THEN [k |-> "owned", src |-> c.obs] ELSE NoSubject
       ELSE IF role[o] = "Change" THEN NoSubject ELSE [k |-> "external", src |-> c.obs]

\* pending_output_poi_subject_matches_snapshot
SubjectHolds(o, c, s) ==
  /\ s.k # "none"
  /\ c.obs = s.src
  /\ IF s.k = "owned" THEN Unspent(o) /\ utxo[o].src = s.src ELSE ~Unspent(o)

\* PoiStatus::is_recoverable: neither Valid nor ShieldBlocked
Closed(u) == u.ok \cup u.blk

\* lists that an own output's status leaves nothing to do for
Known(o, s) == IF s.k = "owned" THEN Closed(utxo[o]) ELSE {}

\* recoverable_pending_submission_list_keys
Candidates(c, kind) ==
  CASE kind = "Missing" -> Missing(c)
    [] kind = "Retry" -> ListKeys(c) \cap c.sub
    [] kind = "Force" -> ListKeys(c)

Recoverable(o, c, s, kind) == (Candidates(c, kind) \cap Active) \ Known(o, s)

PredicateHolds(c, lists, kind) == lists \subseteq Candidates(c, kind)

SourceMatches(r, c) == r # None => c.obs # None /\ r.src = c.obs

----------------------------------------------------------------------------
(* The maintenance controller *)

Idle == [on |-> FALSE, gen |-> 0, force |-> FALSE, stage |-> "none", todo |-> {},
         snap |-> <<>>, held |-> <<>>, step |-> "free", work |-> None, some |-> FALSE]

Started(force) ==
  [Idle EXCEPT !.on = TRUE, !.gen = gen, !.force = force, !.stage = "start"]

\* request: latched while a job runs or none may start
Request(force) ==
  IF ~ready \/ job.on
  THEN /\ ctl' = [ctl EXCEPT !.rerun = TRUE, !.force = @ \/ force]
       /\ UNCHANGED job
  ELSE /\ ctl' = [rerun |-> FALSE, force |-> FALSE]
       /\ job' = Started(ctl.force \/ force)

\* a periodic, corpus-driven or manual refresh
Refresh ==
  /\ Request(FALSE)
  /\ UNCHANGED <<config, forced, at, seen, wallet, node, sent, gen, ready, mail, left>>

ForceRefresh ==
  /\ left.force > 0
  /\ left' = [left EXCEPT !.force = @ - 1]
  /\ Request(TRUE)
  /\ UNCHANGED <<config, forced, at, seen, wallet, node, sent, gen, ready, mail>>

\* A variant: the follow-up job forgets that it was forced.
FollowUpForgets ==
  IF ready /\ (ctl.force \/ ctl.rerun)
  THEN ctl' = [rerun |-> FALSE, force |-> FALSE] /\ job' = Started(FALSE)
  ELSE ctl' = [ctl EXCEPT !.rerun = @ \/ ctl.force] /\ job' = Idle

\* on_poi_maintenance_done: the finished job's key is compared, a follow-up starts
FollowUp ==
  IF ready /\ (ctl.force \/ ctl.rerun)
  THEN ctl' = [rerun |-> FALSE, force |-> FALSE] /\ job' = Started(ctl.force)
  ELSE ctl' = [ctl EXCEPT !.rerun = @ \/ ctl.force] /\ job' = Idle

JobDone ==
  /\ job.on /\ job.stage = "done"
  /\ FollowUp
  /\ UNCHANGED <<config, forced, at, seen, wallet, node, sent, gen, ready, mail, left>>

\* the watchdog drops the job wherever it is; a posted delta stays posted
JobAborted ==
  /\ job.on /\ job.stage # "done" /\ left.abort > 0
  /\ left' = [left EXCEPT !.abort = @ - 1]
  /\ FollowUp
  /\ UNCHANGED <<config, forced, at, seen, wallet, node, sent, gen, ready, mail>>

----------------------------------------------------------------------------
(* The job: stages and the order in which they run *)

NextStage ==
  CASE job.stage = "start" -> "mark"
    [] job.stage = "mark" -> "refresh"
    [] job.stage = "refresh" -> "reconcile"
    [] job.stage = "reconcile" -> "verify"
    [] job.stage = "verify" -> IF job.force THEN "force" ELSE "recover"
    [] job.stage = "force" -> "recover"
    [] job.stage = "recover" -> IF job.some THEN "resubmit" ELSE "submit"
    [] job.stage = "resubmit" -> "submit"
    [] OTHER -> "done"

Authorised == job.gen = gen

\* one failure: a read, a submission or a proof fails, a route is not free, the
\* corpus is not ready for a wallet that has nothing else
Fault(fails) ==
  /\ fails => left.fault > 0
  /\ left' = IF fails THEN [left EXCEPT !.fault = @ - 1] ELSE left

\* forced retries of submitted proofs only when nothing else was forced
ForcedRetry == job.stage = "submit" /\ job.force /\ ~job.some

\* the next stage lists its records once, after a check of its authority
EnterStage(stage, skip) ==
  [job EXCEPT !.stage = stage,
              !.snap = IF skip THEN <<>> ELSE ctx,
              !.held = IF skip THEN <<>> ELSE utxo,
              !.todo = IF skip THEN {}
                       ELSE IF stage \in {"mark", "refresh", "recover"}
                            THEN {o \in Output : Unspent(o)}
                            ELSE {o \in Output : ctx[o] # None}]

\* The remote refresh is for a wallet without a corpus that is ready, the local
\* reconciliation for one with it; without either nothing is verified.
Skips(stage) ==
  CASE stage = "refresh" /\ mode = "proxy" -> {FALSE}
    [] stage = "refresh" /\ mode = "indexed" -> {TRUE}
    [] stage = "reconcile" /\ mode = "proxy" -> {TRUE}
    [] stage \in {"refresh", "reconcile"} -> BOOLEAN
    [] stage = "verify" -> {mode = "indexed" /\ job.snap = <<>>}
    [] OTHER -> {FALSE}

Advance(skip) ==
  /\ job.on /\ job.step = "free" /\ job.todo = {} /\ job.stage # "done"
  /\ skip \in IF ~Authorised \/ NextStage = "done" THEN {TRUE} ELSE Skips(NextStage)
  /\ job' = EnterStage(NextStage, skip)
  /\ Fault(skip /\ Authorised /\ NextStage = "reconcile" /\ mode = "indexed")
  /\ UNCHANGED <<config, forced, at, seen, wallet, node, sent, gen, ready, ctl, mail>>

----------------------------------------------------------------------------
(* What a stage plans for one record; the empty set when nothing is due *)

Plan(k, o, c, lists, kind) ==
  [k |-> k, o |-> o, ctx |-> c, rec |-> rec[o], subj |-> Subject(o, c),
   lists |-> lists, kind |-> kind, act |-> Act("Extend"), upd |-> None,
   seen |-> {}, blk |-> {}, merge |-> FALSE, force |-> "none"]

\* mark_valid_output_poi_recoveries
MarkPlan(o) ==
  LET u == job.held[o] IN
  IF Active \subseteq u.ok /\ rec[o] # None /\ rec[o].status # "Valid"
  THEN {[Plan("recovery", o, None, Active, "Valid") EXCEPT
           !.subj = [k |-> "owned", src |-> u.src], !.act = Act("Valid")]}
  ELSE {}

\* WalletPoiRefreshSelection: a list is neither Valid nor ShieldBlocked
Refreshable(u) == ~(Active \subseteq Closed(u))

\* refresh_wallet_poi_statuses_remote_authorized, one output at a time
RefreshPlan(o) ==
  LET u == job.held[o] IN
  IF Refreshable(u) THEN {[Plan("status", o, None, Active, "Status") EXCEPT !.upd = u]} ELSE {}

\* the records verification and submission work on
Live(o, c) == ~c.terminal /\ c.obs # None /\ Subject(o, c).k # "none"

ReconcilePlan(o) ==
  LET c == job.snap[o] IN
  IF Live(o, c) /\ OnActive(c) # {}
  THEN {Plan("check", o, c, OnActive(c), "Local")}
  ELSE {}

VerifyPlan(o) ==
  LET c == job.snap[o]
      s == Subject(o, c)
      kind == IF OnActive(c) \subseteq c.sub THEN "Submitted"
              ELSE IF s.k = "owned" /\ OnActive(c) \subseteq utxo[o].ok THEN "Owned" ELSE "None"
  IN IF Live(o, c) /\ OnActive(c) # {} /\ kind # "None" /\ SourceMatches(rec[o], c)
     THEN {[Plan("check", o, c, OnActive(c), kind) EXCEPT !.upd = utxo[o]]}
     ELSE {}

\* force_resubmit_pending_output_poi_context
ForcePlan(o) ==
  LET c == job.snap[o]
      lists == Recoverable(o, c, Subject(o, c), "Force")
  IN IF Live(o, c) /\ lists # {}
     THEN {[Plan("send", o, c, lists, "Force") EXCEPT !.force = "Force"]}
     ELSE {}

\* the submission plan of one context: missing lists, else a due retry
KindOf(o, c, force) ==
  IF Recoverable(o, c, Subject(o, c), "Missing") # {} THEN "Missing"
  ELSE IF rec[o] # None /\ SubmissionRetryAllowed(o, rec[o], force) THEN "Retry" ELSE "Missing"

ForceOf(kind, force) == IF kind = "Retry" /\ force THEN "Retry" ELSE "none"

SubmitPlan(o) ==
  LET c == job.snap[o]
      force == ForcedRetry \/ forced[o] # "none"
      kind == KindOf(o, c, force)
      lists == Recoverable(o, c, Subject(o, c), kind)
  IN IF forced[o] = "Force" THEN ForcePlan(o)
     ELSE IF Live(o, c) /\ lists # {}
     THEN {[Plan("send", o, c, lists, kind) EXCEPT !.force = ForceOf(kind, force)]}
     ELSE {}

----------------------------------------------------------------------------
(* Recovered outgoing outputs are submitted as one group *)

GroupOf(cs) == {o \in Outgoing : cs[o] # None}
FirstOf(S) == CHOOSE o \in S : TRUE

\* the node's own view: which active lists an output still misses
Unresolved(o, c) == {l \in Active : <<o, c.obs, l>> \notin truth}

\* recovered_outgoing_group_evidence: every output of the proof that is not
\* an unresolved member of the list is already valid on it
Evidence(cs, lists) ==
  LET G == GroupOf(cs) IN
  /\ lists # {}
  /\ \A o \in G : cs[o].obs = cs[FirstOf(G)].obs
  /\ \A l \in lists : /\ \E o \in G : l \in cs[o].proofs
                      /\ \A o \in Outgoing : (o \in G /\ l \in ListKeys(cs[o]))
                           \/ <<o, cs[FirstOf(G)].obs, l>> \in truth

GroupPlan(o) ==
  LET cs == job.snap
      G == GroupOf(cs)
      force == ForcedRetry \/ forced[o] # "none"
      plan == [p \in G |-> LET kind == KindOf(p, cs[p], force) IN
                 Plan("member", p, cs[p], Recoverable(p, cs[p], Subject(p, cs[p]), kind), kind)]
      lists == UNION {plan[p].lists : p \in G}
  IN IF /\ o = FirstOf(G)
        /\ \A p \in G : /\ Live(p, cs[p]) /\ Subject(p, cs[p]).k = "external"
                        /\ cs[p].need = Unresolved(p, cs[p])
                        /\ rec[p] # None
        /\ Evidence(cs, lists)
     THEN {[Plan("send", o, cs[o], lists, "Group") EXCEPT
              !.upd = plan, !.seen = truth,
              !.force = IF \E p \in G : plan[p].kind = "Retry" THEN ForceOf("Retry", force) ELSE "none"]}
     ELSE {}

----------------------------------------------------------------------------
(* Recovery of the wallet's own outputs that have no usable context *)

\* matching_pending_output_poi_context_disposition and its callers
RecoverLists(o, u, c) ==
  LET open == Active \ Closed(u) IN
  IF c = None THEN open
  ELSE IF c.obs = u.src
       THEN IF c.terminal THEN (IF job.force THEN open ELSE {}) ELSE open \ ListKeys(c)
       ELSE IF job.force THEN open ELSE {}

Extends(u, c) == c # None /\ c.obs = u.src /\ ~c.terminal

RecoverPlan(o) ==
  LET u == job.held[o]
      c == ctx[o]
      r == rec[o]
      lists == RecoverLists(o, u, c)
  IN IF /\ lists # {}
        /\ r # None => r.src = u.src
        /\ r # None => \/ r.status = "Valid"
                       \/ RetryAllowed(o, r, job.force)
                       \/ (Extends(u, c) /\ r.status = "Submitted")
     THEN {[Plan("build", o, c, lists, "Recoverable") EXCEPT
              !.subj = [k |-> "owned", src |-> u.src]]}
     ELSE {}

Planned(o) ==
  CASE job.stage = "mark" -> MarkPlan(o)
    [] job.stage = "refresh" -> RefreshPlan(o)
    [] job.stage = "reconcile" -> ReconcilePlan(o)
    [] job.stage = "verify" -> VerifyPlan(o)
    [] job.stage = "force" -> ForcePlan(o)
    [] job.stage = "recover" -> RecoverPlan(o)
    [] OTHER -> IF role[o] = "Outgoing" THEN GroupPlan(o) ELSE SubmitPlan(o)

Take ==
  /\ job.on /\ job.step = "free"
  /\ \E o \in job.todo : \E W \in {Planned(o)} :
       IF W = {} THEN job' = [job EXCEPT !.todo = @ \ {o}]
       ELSE \E w \in W : job' = [job EXCEPT !.todo = @ \ {o}, !.step = "work", !.work = w]
  /\ UNCHANGED <<config, forced, at, seen, wallet, node, sent, gen, ready, ctl, mail, left>>

----------------------------------------------------------------------------
(* Remote steps; each re-checks what the plan read *)

Has(k) == job.on /\ job.step = "work" /\ job.work.k = k

Posting(w) ==
  /\ mail' = Append(mail, [w |-> w, gen |-> job.gen])
  /\ job' = [job EXCEPT !.step = "wait", !.work = None]
Dropped == job' = [job EXCEPT !.step = "free", !.work = None] /\ UNCHANGED mail
\* lost authority ends the whole pass
Broken == job' = [job EXCEPT !.step = "free", !.work = None, !.todo = {}] /\ UNCHANGED mail

\* the work goes on with its next remote step
Goes(k) == job' = [job EXCEPT !.work.k = k] /\ UNCHANGED mail

\* a plan that needs no remote step is sent to the actor as it stands
Deliver ==
  /\ Has("recovery")
  /\ IF Authorised THEN Posting(job.work) ELSE Broken
  /\ UNCHANGED <<config, forced, at, seen, wallet, node, sent, gen, ready, ctl, left>>

\* pending_output_poi_submission_plan_current
PlanCurrent(w) ==
  /\ ctx[w.o] = w.ctx
  /\ w.lists # {} /\ w.lists \subseteq Active
  /\ rec[w.o] = w.rec
  /\ SourceMatches(w.rec, w.ctx)
  /\ PredicateHolds(w.ctx, w.lists, w.kind)
  /\ w.kind = "Retry" => w.rec # None /\ SubmissionRetryAllowed(w.o, w.rec, TRUE)
  /\ SubjectHolds(w.o, w.ctx, w.subj)
  /\ Recoverable(w.o, w.ctx, w.subj, w.kind) = w.lists

\* recovered_outgoing_submission_group_current
GroupCurrent(w) ==
  /\ GroupOf(ctx) = DOMAIN w.upd
  /\ \A p \in DOMAIN w.upd :
       /\ ctx[p] = w.upd[p].ctx /\ rec[p] = w.upd[p].rec
       /\ ctx[p].need = Unresolved(p, ctx[p])
       /\ w.upd[p].lists # {} => PlanCurrent(w.upd[p])
  /\ Evidence(ctx, w.lists)
  /\ truth = w.seen

Current(w) == IF w.kind = "Group" THEN GroupCurrent(w) ELSE PlanCurrent(w)

Covered(w) == IF w.kind = "Group" THEN {<<p, w.ctx.obs, l>> : p \in DOMAIN w.upd, l \in w.lists}
              ELSE {<<w.o, w.ctx.obs, l>> : l \in w.lists}

\* preflight, then the proofs leave the wallet (or the scheduler defers them)
Stronger(a, b) == IF "Force" \in {a, b} THEN "Force" ELSE IF "Retry" \in {a, b} THEN "Retry" ELSE "none"

\* reserve_transact_route records a forced deferral, admission ends it
Deferral(w, deferred) ==
  [forced EXCEPT ![w.o] = IF deferred THEN Stronger(@, w.force) ELSE "none"]

Send(deferred) ==
  /\ Has("send")
  /\ LET w == job.work IN
     IF ~Authorised THEN Broken
     ELSE IF ~Current(w) THEN Dropped
     ELSE IF w.kind # "Group" /\ ~(w.lists \subseteq w.ctx.proofs)
          THEN Posting([w EXCEPT !.k = "terminal"])
          ELSE IF deferred THEN Dropped ELSE Goes("sent")
  /\ forced' = IF Authorised /\ Current(job.work) THEN Deferral(job.work, deferred) ELSE forced
  /\ Fault(deferred)
  /\ UNCHANGED <<config, at, seen, wallet, node, sent, gen, ready, ctl>>

\* the remote answer: what the node took it keeps, and the wallet records it
\* only if the plan is still current
Answer(ok) ==
  /\ Has("sent")
  /\ LET w == job.work IN
     IF ~Authorised THEN Broken
     ELSE IF ~Current(w) THEN Dropped
     ELSE Posting([w EXCEPT !.k = IF w.kind = "Group" THEN "group" ELSE "submission",
                            !.merge = ok, !.act = Act(IF ok THEN "Submitted" ELSE "Failed")])
  /\ sent' = IF ok THEN sent \cup Covered(job.work) ELSE sent
  /\ Fault(~ok)
  /\ UNCHANGED <<config, forced, at, seen, wallet, node, gen, ready, ctl>>

\* pending_output_poi_subject_still_current
StillCurrent(w) ==
  /\ ctx[w.o] = w.ctx
  /\ SubjectHolds(w.o, w.ctx, w.subj)
  /\ rec[w.o] = w.rec /\ SourceMatches(w.rec, w.ctx)

ValidNow(w) == {l \in w.lists : <<w.o, w.ctx.obs, l>> \in truth}

AllValid(w) == ValidNow(w) = w.lists

\* the statuses are read between two checks of the subject; the read may fail
Check(ok) ==
  /\ Has("check")
  /\ LET w == job.work
         valid == ValidNow(w)
     IN IF ~Authorised \/ (~ok /\ w.kind # "Owned") THEN Dropped
        ELSE IF w.kind = "Local"
        THEN IF valid = {} THEN Dropped
             ELSE Posting([w EXCEPT !.k = "local", !.lists = valid])
        ELSE IF ~StillCurrent(w) THEN Dropped
        ELSE IF w.kind = "Owned" \/ AllValid(w) THEN Posting([w EXCEPT !.k = "verified"])
        ELSE IF w.rec # None THEN Dropped
        ELSE Posting([w EXCEPT !.k = "submission", !.kind = "Retry", !.act = Act("Submitted")])
  /\ Fault(~ok)
  /\ UNCHANGED <<config, forced, at, seen, wallet, node, sent, gen, ready, ctl>>

\* what is reported of an output: Valid, else ShieldBlocked, else Missing
ValidLists(o, t) == {l \in Active : <<o, t, l>> \in truth}
BlockedLists(o, t) == {l \in Active : <<o, t, l>> \in blocked \ truth}

\* A variant: a list that answers counts as valid, whatever the status.
ReadAnyStatus(ok) ==
  /\ Has("status")
  /\ LET w == job.work IN
     IF ~ok \/ ~Authorised \/ ~(Unspent(w.o) /\ utxo[w.o].src = w.upd.src) THEN Dropped
     ELSE Posting([w EXCEPT !.k = "refresh", !.seen = Active])
  /\ Fault(~ok)
  /\ UNCHANGED <<config, forced, at, seen, wallet, node, sent, gen, ready, ctl>>

\* remote statuses of one own output
ReadStatus(ok) ==
  /\ Has("status")
  /\ LET w == job.work IN
     IF ~ok \/ ~Authorised \/ ~(Unspent(w.o) /\ utxo[w.o].src = w.upd.src) THEN Dropped
     ELSE Posting([w EXCEPT !.k = "refresh", !.seen = ValidLists(w.o, w.upd.src),
                            !.blk = BlockedLists(w.o, w.upd.src)])
  /\ Fault(~ok)
  /\ UNCHANGED <<config, forced, at, seen, wallet, node, sent, gen, ready, ctl>>

\* output_poi_recovery_candidate_still_current
CandidateCurrent(w) ==
  /\ Authorised
  /\ Unspent(w.o) /\ utxo[w.o].src = w.subj.src
  /\ w.lists \cap Closed(utxo[w.o]) = {}
  /\ rec[w.o] # None => rec[w.o].src = w.subj.src

Rebuilt(w) ==
  IF Extends([src |-> w.subj.src], w.ctx)
  THEN [w.ctx EXCEPT !.need = ListKeys(w.ctx) \cup w.lists, !.proofs = @ \cup w.lists]
  ELSE Context(w.lists, w.lists, w.subj.src)

Failed(status, retry) ==
  LET w == job.work IN
  IF CandidateCurrent(w)
  THEN Posting([w EXCEPT !.k = "recovery", !.rec = rec[w.o], !.ctx = None, !.act = Detected(status, retry)])
  ELSE Dropped
RecoveryFrame == UNCHANGED <<config, forced, at, seen, wallet, node, sent, gen, ready, ctl>>

\* the transaction is reconstructed from the public cache
Build(ok) ==
  /\ Has("build")
  /\ IF ok THEN Goes("txid") ELSE Failed("Skip", FALSE) \/ Failed("ProofFailed", TRUE)
  /\ Fault(~ok) /\ RecoveryFrame

\* its TXID proof data are fetched
TxidData(ok) ==
  /\ Has("txid")
  /\ IF ~ok THEN Failed("ProofFailed", TRUE)
     ELSE IF CandidateCurrent(job.work) THEN Goes("source") ELSE Dropped
  /\ Fault(~ok) /\ RecoveryFrame

\* the proof source is held, at a corpus revision the commit will compare
ProofSource(ok) ==
  /\ Has("source")
  /\ IF ~ok THEN Failed("ProofFailed", TRUE)
     ELSE IF CandidateCurrent(job.work)
          THEN job' = [job EXCEPT !.work.k = "prove", !.work.seen = truth] /\ UNCHANGED mail
          ELSE Dropped
  /\ Fault(~ok) /\ RecoveryFrame

\* the proofs are generated: a rebuilt or an extended context
Generate(ok) ==
  /\ Has("prove")
  /\ LET w == job.work
         extend == Extends([src |-> w.subj.src], w.ctx) /\ (rec[w.o] # None => rec[w.o].status # "Valid")
     IN IF ~ok THEN Failed("ProofFailed", TRUE)
        ELSE IF CandidateCurrent(w)
             THEN Posting([w EXCEPT !.k = "recovery", !.rec = rec[w.o], !.upd = Rebuilt(w),
                                    !.act = IF extend THEN Act("Extend") ELSE Recovered])
             ELSE Dropped
  /\ Fault(~ok) /\ RecoveryFrame

----------------------------------------------------------------------------
(* The actor's turn: compare what the delta read, then commit *)

Skipped == UNCHANGED wallet

ActiveLists(w) == w.lists # {} /\ w.lists \subseteq Active

\* new_output_poi_recovery_record or new_pending_output_poi_recovery_record
From(src, a) == [src |-> src, act |-> a]

ApplyRecovery(w) ==
  IF /\ w.upd # None => w.seen = truth
     /\ Unspent(w.o) /\ utxo[w.o].src = w.subj.src
     /\ ActiveLists(w)
     /\ IF w.kind = "Valid" THEN w.lists \subseteq utxo[w.o].ok ELSE w.lists \cap Closed(utxo[w.o]) = {}
     /\ w.upd # None => ctx[w.o] = w.ctx /\ w.upd.obs = utxo[w.o].src
     /\ rec[w.o] = w.rec
     /\ rec[w.o] # None => rec[w.o].src = utxo[w.o].src
  THEN /\ Stored(w.o, rec[w.o], From(utxo[w.o].src, w.act))
       /\ ctx' = IF w.upd = None THEN ctx ELSE [ctx EXCEPT ![w.o] = w.upd]
       /\ UNCHANGED utxo
  ELSE Skipped

\* prune_nonrecoverable_unsubmitted_poi_lists
Pruned(c, known) ==
  LET keep(l) == l \in c.sub \/ l \notin Active \/ l \notin known IN
  [c EXCEPT !.need = {l \in @ : keep(l)}, !.proofs = {l \in @ : keep(l)}]

ApplySubmission(w) ==
  LET c == ctx[w.o] IN
  IF /\ ActiveLists(w)
     /\ c # None /\ c = w.ctx /\ ~c.terminal
     /\ PredicateHolds(c, w.lists, w.kind)
     /\ SubjectHolds(w.o, c, w.subj)
     /\ w.lists \cap Known(w.o, w.subj) = {}
     /\ rec[w.o] = w.rec /\ SourceMatches(w.rec, c)
     /\ w.rec # None => w.rec.status # "Valid"
  THEN /\ Stored(w.o, w.rec, From(c.obs, w.act))
       /\ ctx' = IF w.merge
                 THEN [ctx EXCEPT ![w.o] = Pruned([c EXCEPT !.sub = @ \cup w.lists], Known(w.o, w.subj))]
                 ELSE ctx
       /\ UNCHANGED utxo
  ELSE Skipped

\* every sibling or none
ApplyGroup(w) ==
  LET G == DOMAIN w.upd
      hit == {p \in G : w.upd[p].lists # {}}
  IN
  IF /\ w.seen = truth
     /\ GroupOf(ctx) = G
     /\ \A p \in G :
          /\ ctx[p] = w.upd[p].ctx /\ ~ctx[p].terminal
          /\ SubjectHolds(p, ctx[p], w.upd[p].subj)
          /\ ctx[p].need = Unresolved(p, ctx[p])
          /\ rec[p] # None /\ rec[p] = w.upd[p].rec /\ rec[p].status # "Valid"
          /\ SourceMatches(rec[p], ctx[p])
          /\ w.upd[p].kind = "Retry" => SubmissionRetryAllowed(p, rec[p], TRUE)
     /\ Evidence(ctx, w.lists)
  THEN /\ rec' = [p \in Output |-> IF p \in hit THEN ApplyAction(rec[p], w.act) ELSE rec[p]]
       /\ due' = [p \in Output |-> IF p \in hit THEN FALSE ELSE due[p]]
       /\ ctx' = IF w.merge
                 THEN [p \in Output |-> IF p \in hit THEN [ctx[p] EXCEPT !.sub = @ \cup w.upd[p].lists]
                                        ELSE ctx[p]]
                 ELSE ctx
       /\ UNCHANGED utxo
  ELSE Skipped

ApplyTerminal(w) ==
  LET c == ctx[w.o] IN
  IF /\ ActiveLists(w) /\ c # None /\ c = w.ctx
     /\ SubjectHolds(w.o, c, w.subj) /\ w.lists \cap Known(w.o, w.subj) = {}
     /\ rec[w.o] = w.rec /\ SourceMatches(w.rec, c)
  THEN ctx' = [ctx EXCEPT ![w.o].terminal = TRUE] /\ UNCHANGED <<rec, due, utxo>>
  ELSE Skipped

\* the fingerprint comparison shared by the two validating deltas
Unchanged(w) ==
  /\ ctx[w.o] # None /\ ctx[w.o] = w.ctx
  /\ SubjectHolds(w.o, ctx[w.o], w.subj)
  /\ rec[w.o] = w.rec /\ SourceMatches(w.rec, ctx[w.o])

Owned(w) == w.subj.k = "owned"
Validated(w) ==
  utxo' = IF Owned(w) THEN [utxo EXCEPT ![w.o].ok = @ \cup w.lists, ![w.o].blk = @ \ w.lists]
                      ELSE utxo

WithoutLists(c, lists) ==
  [c EXCEPT !.need = @ \ lists, !.proofs = @ \ lists, !.sub = @ \ lists]


\* no active list is left: the context is complete
Complete(c) == OnActive(c) = {}

ApplyLocal(w) ==
  LET c == ctx[w.o]
      rest == WithoutLists(c, w.lists)
  IN
  IF ActiveLists(w) /\ Unchanged(w) /\ w.lists \subseteq ListKeys(c)
  THEN /\ Validated(w)
       /\ IF Complete(rest)
          THEN /\ ctx' = [ctx EXCEPT ![w.o] = None]
               /\ IF Owned(w) THEN Stored(w.o, w.rec, From(utxo[w.o].src, Act("Valid"))) ELSE Erased(w.o)
          ELSE /\ ctx' = [ctx EXCEPT ![w.o] = rest]
               /\ IF w.rec # None /\ w.rec.status = "Valid"
                  THEN Stored(w.o, w.rec, From(c.obs, Recovered))
                  ELSE UNCHANGED <<rec, due>>
  ELSE Skipped

ApplyVerified(w) ==
  LET c == ctx[w.o] IN
  IF /\ ActiveLists(w) /\ Unchanged(w) /\ w.lists \subseteq ListKeys(c)
     /\ IF w.kind = "Owned" THEN Owned(w) /\ w.lists \subseteq w.upd.ok \cap utxo[w.o].ok
                            ELSE /\ w.lists \subseteq c.sub
                                 /\ Owned(w) => w.lists \cap (w.upd.blk \cup utxo[w.o].blk) = {}
  THEN /\ Validated(w)
       /\ ctx' = [ctx EXCEPT ![w.o] = None]
       /\ IF Owned(w)
          THEN Stored(w.o, w.rec, From(utxo[w.o].src,
                 IF Active \subseteq utxo[w.o].ok \cup w.lists THEN Act("Valid") ELSE Recovered))
          ELSE Erased(w.o)
  ELSE Skipped

\* a status may also be taken back: the refresh replaces the stored lists
ApplyRefresh(w) ==
  IF Unspent(w.o) /\ utxo[w.o] = w.upd
  THEN /\ utxo' = [utxo EXCEPT ![w.o].ok = (@ \ Active) \cup w.seen,
                               ![w.o].blk = (@ \ Active) \cup w.blk]
       /\ UNCHANGED <<ctx, rec, due>>
  ELSE Skipped

ApplyDelta(w) ==
  CASE w.k = "recovery" -> ApplyRecovery(w)
    [] w.k = "submission" -> ApplySubmission(w)
    [] w.k = "group" -> ApplyGroup(w)
    [] w.k = "terminal" -> ApplyTerminal(w)
    [] w.k = "local" -> ApplyLocal(w)
    [] w.k = "verified" -> ApplyVerified(w)
    [] w.k = "refresh" -> ApplyRefresh(w)

\* an accepted context counts as recovered and triggers the extra submission
CountsAsWork(w) == \/ w.k = "recovery" /\ w.upd # None /\ ctx'[w.o] = w.upd
                   \/ w.k \in {"submission", "group"} /\ job.stage = "force"

Apply ==
  /\ mail # <<>>
  /\ LET m == Head(mail) IN
     /\ IF m.gen = gen THEN ApplyDelta(m.w) ELSE Skipped
     /\ mail' = Tail(mail)
     /\ job' = IF job.on /\ job.step = "wait" /\ Len(mail) = 1
               THEN [job EXCEPT !.step = "free", !.some = @ \/ CountsAsWork(m.w)]
               ELSE job
  /\ UNCHANGED <<config, forced, at, seen, node, sent, gen, ready, ctl, left>>

----------------------------------------------------------------------------
(* The other turns of the actor *)


\* pending_output_poi_observation_state_updates, in the scan's own commit
Observed(o, t) ==
  LET c == ctx[o] IN
  IF c = None \/ (c.obs = t /\ (rec[o] # None => rec[o].src = t))
  THEN UNCHANGED <<ctx, rec, due>>
  ELSE /\ ctx' = [ctx EXCEPT ![o] = [c EXCEPT !.obs = t, !.sub = {}, !.terminal = FALSE]]
       /\ Erased(o)

Scan(o) ==
  /\ at[o] # None /\ seen[o] = None
  /\ seen' = [seen EXCEPT ![o] = at[o]]
  /\ utxo' = IF role[o] = "Change"
             THEN [utxo EXCEPT ![o] = [src |-> at[o], ok |-> {}, blk |-> {}, spent |-> FALSE]]
             ELSE utxo
  /\ Observed(o, at[o])
  /\ Request(FALSE)
  /\ UNCHANGED <<config, forced, at, node, sent, gen, ready, mail, left>>

Spend(o) ==
  /\ Unspent(o) /\ seen[o] = at[o]
  /\ utxo' = [utxo EXCEPT ![o].spent = TRUE]
  /\ UNCHANGED <<config, forced, at, seen, ctx, rec, due, node, sent, gen, ready, ctl, job, mail, left>>

\* local statuses from the corpus, in a turn of the actor
LocalRefresh(o) ==
  /\ mode # "proxy" /\ Unspent(o) /\ Refreshable(utxo[o])
  /\ utxo' = [utxo EXCEPT ![o].ok = ValidLists(o, utxo[o].src), ![o].blk = BlockedLists(o, utxo[o].src)]
  /\ utxo' # utxo
  /\ UNCHANGED <<config, forced, at, seen, ctx, rec, due, node, sent, gen, ready, ctl, job, mail, left>>

\* pending_output_poi_rewind_state_updates
RewoundContext(o) ==
  CASE ctx[o] = None \/ role[o] = "Change" -> ctx[o]
    [] role[o] = "Outgoing" -> None
    [] OTHER -> [ctx[o] EXCEPT !.obs = None, !.sub = {}, !.terminal = FALSE]

\* a reorganisation reaches the wallet: rewind, a new generation, forced
\* refreshes of the old one dropped; the running job is left alone
Reset ==
  /\ \E o \in Output : seen[o] \notin {None, at[o]}
  /\ \E R \in SUBSET Output :
       /\ \A o \in Output : (seen[o] \notin {None, at[o]} => o \in R) /\ (o \in R => seen[o] # None)
       /\ seen' = [o \in Output |-> IF o \in R THEN None ELSE seen[o]]
       /\ utxo' = [o \in Output |-> IF o \in R THEN None ELSE utxo[o]]
       /\ ctx' = [o \in Output |-> IF o \in R THEN RewoundContext(o) ELSE ctx[o]]
       /\ rec' = [o \in Output |-> IF o \in R /\ ctx[o] # None /\ role[o] # "Change" THEN None ELSE rec[o]]
       /\ due' = [o \in Output |-> IF rec'[o] = None THEN FALSE ELSE due[o]]
  /\ gen' = gen + 1
  /\ ready' = FALSE
  /\ ctl' = [rerun |-> FALSE, force |-> FALSE]
  /\ forced' = [o \in Output |-> "none"]
  /\ UNCHANGED <<config, at, node, sent, job, mail, left>>

BackfillDone ==
  /\ ~ready
  /\ \A o \in Output : seen[o] = at[o]
  /\ ready' = TRUE
  /\ IF job.on THEN ctl' = [ctl EXCEPT !.rerun = TRUE] /\ UNCHANGED job
               ELSE ctl' = [rerun |-> FALSE, force |-> FALSE] /\ job' = Started(ctl.force)
  /\ UNCHANGED <<config, forced, at, seen, wallet, node, sent, gen, mail, left>>

----------------------------------------------------------------------------
(* The chain, the node and the clock *)

\* recovered outgoing outputs share a transaction and move together
Reorg ==
  /\ left.reorg > 0
  /\ \E o \in Output : \E t \in Tx \ {at[o]} :
       at' = [p \in Output |-> IF p = o \/ {o, p} \subseteq Outgoing THEN t ELSE at[p]]
  /\ left' = [left EXCEPT !.reorg = @ - 1]
  /\ UNCHANGED <<config, forced, seen, wallet, node, sent, gen, ready, ctl, job, mail>>

\* the node accepts a proof of an output where the chain has it
Validate(o, l) ==
  /\ at[o] # None /\ <<o, at[o], l>> \notin truth
  /\ truth' = truth \cup {<<o, at[o], l>>}
  /\ UNCHANGED <<config, forced, at, seen, wallet, blocked, sent, gen, ready, ctl, job, mail, left>>

\* a list refuses an output; a proof accepted all the same makes it valid
Block(o, l) ==
  /\ left.block > 0 /\ at[o] # None
  /\ left' = [left EXCEPT !.block = @ - 1]
  /\ blocked' = blocked \cup {<<o, at[o], l>>}
  /\ UNCHANGED <<config, forced, at, seen, wallet, truth, sent, gen, ready, ctl, job, mail>>

Tick(o) ==
  /\ rec[o] # None /\ rec[o].retry /\ ~due[o]
  /\ due' = [due EXCEPT ![o] = TRUE]
  /\ UNCHANGED <<config, forced, at, seen, ctx, rec, utxo, node, sent, gen, ready, ctl, job, mail, left>>

Init ==
  /\ role \in Roles
  /\ \E s \in Settings : mode = s[1] /\ left = s[2]
  /\ at = [o \in Output |-> CHOOSE t \in Tx : TRUE]
  /\ seen = [o \in Output |-> IF role[o] = "Outgoing" THEN at[o] ELSE None]
  /\ \E P \in [Output -> Proofs \cup {None}] :
       /\ \A o \in Output : (P[o] = None => role[o] = "Change") /\ (role[o] = "Outgoing" => P[o] = Active)
       /\ ctx = [o \in Output |-> IF P[o] = None THEN None ELSE Context(Active, P[o], seen[o])]
  /\ rec = [o \in Output |-> IF role[o] = "Outgoing" THEN NewRecovery(at[o], "Recoverable") ELSE None]
  /\ due = [o \in Output |-> FALSE]
  /\ utxo = [o \in Output |-> None]
  /\ truth = {} /\ blocked = {} /\ sent = {}
  /\ gen = 0 /\ ready = TRUE
  /\ ctl = [rerun |-> FALSE, force |-> FALSE]
  /\ job = Idle
  /\ forced = [o \in Output |-> "none"]
  /\ mail = <<>>

JobStep ==
  \/ Take \/ Deliver
  \/ \E b \in BOOLEAN : Advance(b) \/ Send(b) \/ Answer(b) \/ Check(b) \/ ReadStatus(b)
                        \/ Build(b) \/ TxidData(b) \/ ProofSource(b) \/ Generate(b)

Next ==
  \/ JobStep \/ JobDone \/ JobAborted \/ Apply
  \/ Refresh \/ ForceRefresh \/ Reset \/ BackfillDone \/ Reorg
  \/ \E o \in Output : Scan(o) \/ Spend(o) \/ LocalRefresh(o) \/ Tick(o)
  \/ \E o \in Output, l \in List : Validate(o, l) \/ Block(o, l)

Spec == Init /\ [][Next]_vars

\* Tokio runs the job and the actor, the maintenance timer keeps firing, the
\* wallet scans the chain, and the node settles what it has taken and not
\* blocked; failures are bounded by Settings.  Nobody has to announce a
\* reorganisation.
Fairness ==
  /\ WF_vars(JobStep) /\ WF_vars(JobDone) /\ WF_vars(Apply)
  /\ WF_vars(Refresh) /\ WF_vars(BackfillDone)
  /\ \A o \in Output : WF_vars(Scan(o)) /\ WF_vars(Tick(o))
  /\ \A o \in Output, l \in List : WF_vars(<<o, at[o], l>> \in sent \ blocked /\ Validate(o, l))

FairSpec == Spec /\ Fairness

----------------------------------------------------------------------------
(* Properties *)


\* An own output is spendable on a list only if the node holds a valid proof
\* of it in the transaction the wallet has it in, and is given up as blocked
\* only on a list that refuses it.
OwnStatusIsTrue ==
  \A o \in Output : utxo[o] # None =>
    /\ \A l \in utxo[o].ok : <<o, utxo[o].src, l>> \in truth
    /\ \A l \in utxo[o].blk : <<o, utxo[o].src, l>> \in blocked

\* A context loses an active list only when the node holds the proof for it
\* or the list refuses the output, and is deleted only when the node holds
\* the proofs for all of them, or by the rewind of a reset.
RetiresValid ==
  \A o \in Output : ctx[o] # None /\ gen' = gen =>
    \A l \in OnActive(ctx[o]) :
      /\ ctx'[o] = None => <<o, ctx[o].obs, l>> \in truth
      /\ ctx'[o] # None /\ l \notin ListKeys(ctx'[o]) => <<o, ctx[o].obs, l>> \in truth \cup blocked


\* Every context the wallet can act on is settled in the end, whatever
\* failed, was reorganised or was overtaken on the way: retired, given up
\* for good, or about an output that was spent, that a list refuses, or that
\* is not on the chain as the wallet knows it.  No forced request is left
\* waiting then.
Settled(o) ==
  \/ ctx[o] = None \/ ctx[o].terminal \/ seen[o] = None
  \/ \E p \in Output : seen[p] \notin {None, at[p]}
  \/ role[o] = "Change" /\ ~Unspent(o)
  \/ \E l \in OnActive(ctx[o]) : <<o, ctx[o].obs, l>> \in blocked

ContextsSettle == \A o \in Output : []<>(Settled(o) /\ ~ctl.force)

\* A forced request that had to wait, for a running job or for the backfill
\* after a reset, stays latched until a forced job starts, in whatever way
\* that job comes about, or a reset drops it with its generation.
ForceKept ==
  ctl.force /\ ~ctl'.force => gen' # gen \/ (job'.on /\ job'.stage = "start" /\ job'.force)

ForcedNotLost == [][ForceKept]_vars
=============================================================================
