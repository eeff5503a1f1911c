------------------------------ MODULE LogPager ------------------------------
(***************************************************************************)
(* The parallel page fetch of a block range                                *)
(* (sync-service/src/chain/backfill.rs, run_parallel_log_fetch).           *)
(*                                                                         *)
(* The range is cut into NumPages pages.  Up to Parallelism providers read *)
(* their head once and then fetch one page at a time.  Finished pages are  *)
(* handed to the caller in block order.  The loop has a single await, on   *)
(* the next finished task; everything between two awaits is the steps of   *)
(* one turn, and only the pool and the cancellation token change meanwhile.*)
(***************************************************************************)
EXTENDS QueryRpcPool

CONSTANTS
  NumPages,     \* pages of the range
  Parallelism   \* providers that work at the same time

ASSUME PagerAssumption ==
  /\ NumPages \in Nat \ {0}
  /\ Parallelism \in Nat \ {0}

Page == 0..(NumPages - 1)
NoPage == -1
Window == 2 * Parallelism

VARIABLES
  pc,         \* where the turn is: deliver, fill, filter, assign, await, returned
  snapshot,   \* admitted indexes read by the current available_providers call
  untried,    \* untried available providers the last completed call found
  tried,      \* providers that were ever given a slot
  idle,       \* eligible providers without a task
  heads,      \* providers reading their head
  pageOf,     \* the page each provider is fetching, or NoPage
  failed,     \* pages put back on the queue
  nextPage,   \* first page never handed out
  completed,  \* fetched pages not yet delivered
  delivered,  \* pages delivered to the caller
  cancelled,  \* the caller's cancellation token
  result      \* how the fetch returned, "none" while it runs

fetchVars == <<pc, snapshot, untried, tried, idle, heads, pageOf, failed,
               nextPage, completed, delivered, cancelled, result>>
vars == <<poolVars, fetchVars>>

Result == {"none", "complete", "failed", "cancelled", "over_budget", "no_provider"}

TypeOK ==
  /\ PoolTypeOK
  /\ pc \in {"deliver", "fill", "filter", "assign", "await", "returned"}
  /\ snapshot \subseteq Provider
  /\ untried \subseteq Provider
  /\ tried \subseteq Provider
  /\ idle \subseteq Provider
  /\ heads \subseteq Provider
  /\ pageOf \in [Provider -> Page \cup {NoPage}]
  /\ failed \subseteq Page
  /\ nextPage \in 0..NumPages
  /\ completed \subseteq Page
  /\ delivered \in 0..NumPages
  /\ cancelled \in BOOLEAN
  /\ result \in Result

Fetching == {p \in Provider : pageOf[p] # NoPage}
Tasks == heads \cup Fetching
Busy == idle \cup Tasks

Init ==
  /\ PoolInit
  /\ pc = "deliver"
  /\ snapshot = {} /\ untried = {} /\ tried = {} /\ idle = {} /\ heads = {}
  /\ pageOf = [p \in Provider |-> NoPage]
  /\ failed = {} /\ nextPage = 0 /\ completed = {} /\ delivered = 0
  /\ cancelled = FALSE
  /\ result = "none"

Return(r) ==
  /\ pc' = "returned"
  /\ result' = r

(***************************************************************************)
(* The steps of a turn.                                                    *)
(***************************************************************************)
DeliverPage ==
  /\ pc = "deliver"
  /\ delivered \in completed
  /\ completed' = completed \ {delivered}
  /\ \/ delivered' = delivered + 1 /\ UNCHANGED <<pc, result>>
     \/ Return("failed") /\ UNCHANGED delivered     \* deliver(...)? failed
  /\ UNCHANGED <<poolVars, snapshot, untried, tried, idle, heads, pageOf,
                 failed, nextPage, cancelled>>

CheckEnd ==
  /\ pc = "deliver"
  /\ delivered \notin completed
  /\ \/ delivered = NumPages /\ Return("complete")
     \/ delivered # NumPages /\ cancelled /\ Return("cancelled")
     \/ delivered # NumPages /\ ~cancelled /\ pc' = "fill" /\ UNCHANGED result
  /\ UNCHANGED <<poolVars, snapshot, untried, tried, idle, heads, pageOf,
                 failed, nextPage, completed, delivered, cancelled>>

(* One iteration of the slot-filling loop: admitted_indices ... *)
FillSnapshot ==
  /\ pc = "fill"
  /\ IF Cardinality(Busy) < Parallelism
     THEN snapshot' = AdmittedIndices /\ pc' = "filter"
     ELSE pc' = "assign" /\ UNCHANGED snapshot
  /\ UNCHANGED <<poolVars, untried, tried, idle, heads, pageOf, failed,
                 nextPage, completed, delivered, cancelled, result>>

(* ... then the first untried available provider gets a Head task *)
FillSlot ==
  /\ pc = "filter"
  /\ untried' = Available(snapshot) \ tried
  /\ \/ /\ untried' = {}
        /\ pc' = "assign"
        /\ UNCHANGED <<tried, heads>>
     \/ \E p \in untried' :
          /\ \A q \in untried' : p <= q
          /\ tried' = tried \cup {p}
          /\ heads' = heads \cup {p}
          /\ pc' = "fill"
  /\ UNCHANGED <<poolVars, snapshot, idle, pageOf, failed, nextPage,
                 completed, delivered, cancelled, result>>

(* A variant: no limit on the pages ahead of the delivery *)
CanHandOutAnyPage == nextPage < NumPages

CanHandOut == nextPage < NumPages /\ nextPage < delivered + Window

(* An idle provider takes the lowest failed page, else the next page if it *)
(* lies inside the window                                                  *)
AssignPage ==
  /\ pc = "assign"
  /\ \E p \in idle :
       /\ idle' = idle \ {p}
       /\ \/ \E k \in failed :
               /\ \A l \in failed : k <= l
               /\ failed' = failed \ {k}
               /\ pageOf' = [pageOf EXCEPT ![p] = k]
               /\ UNCHANGED nextPage
          \/ /\ failed = {}
             /\ CanHandOut
             /\ nextPage' = nextPage + 1
             /\ pageOf' = [pageOf EXCEPT ![p] = nextPage]
             /\ UNCHANGED failed
  /\ UNCHANGED <<poolVars, pc, snapshot, untried, tried, heads, completed,
                 delivered, cancelled, result>>

AssignDone ==
  /\ pc = "assign"
  /\ idle = {} \/ (failed = {} /\ ~CanHandOut)
  /\ pc' = "await"
  /\ UNCHANGED <<poolVars, snapshot, untried, tried, idle, heads, pageOf, failed,
                 nextPage, completed, delivered, cancelled, result>>

(* tasks.next() on an empty set *)
NoTask ==
  /\ pc = "await"
  /\ Tasks = {}
  /\ Return("no_provider")
  /\ UNCHANGED <<poolVars, snapshot, untried, tried, idle, heads, pageOf, failed,
                 nextPage, completed, delivered, cancelled>>

(***************************************************************************)
(* A task finishes and wakes the loop.                                     *)
(***************************************************************************)
HeadRead(p) ==
  /\ pc = "await"
  /\ p \in heads
  /\ heads' = heads \ {p}
  /\ idle' \in {idle, idle \cup {p}}    \* lagging head, or one that covers the range
  /\ pc' = "deliver"
  /\ UNCHANGED <<poolVars, snapshot, untried, tried, pageOf, failed, nextPage,
                 completed, delivered, cancelled, result>>

PageFetched(p) ==
  /\ pc = "await"
  /\ p \in Fetching
  /\ completed' = completed \cup {pageOf[p]}
  /\ pageOf' = [pageOf EXCEPT ![p] = NoPage]
  /\ idle' = idle \cup {p}
  /\ pc' = "deliver"
  /\ UNCHANGED <<poolVars, snapshot, untried, tried, heads, failed, nextPage,
                 delivered, cancelled, result>>

(* A variant: the failed page is not put back *)
TaskFailedLosesPage(p) ==
  /\ pc = "await"
  /\ p \in Tasks
  /\ heads' = heads \ {p}
  /\ pageOf' = [pageOf EXCEPT ![p] = NoPage]
  /\ pc' = "deliver"
  /\ MarkBadProvider(p) \/ UNCHANGED poolVars
  /\ UNCHANGED <<snapshot, untried, tried, idle, failed, nextPage, completed,
                 delivered, cancelled, result>>

(* A variant: the provider keeps its slot, and its page is tried again for *)
(* ever                                                                    *)
TaskFailedKeepsProvider(p) ==
  /\ pc = "await"
  /\ p \in Tasks
  /\ heads' = heads \ {p}
  /\ idle' = idle \cup {p}
  /\ failed' = IF p \in Fetching THEN failed \cup {pageOf[p]} ELSE failed
  /\ pageOf' = [pageOf EXCEPT ![p] = NoPage]
  /\ pc' = "deliver"
  /\ MarkBadProvider(p) \/ UNCHANGED poolVars
  /\ UNCHANGED <<snapshot, untried, tried, nextPage, completed, delivered,
                 cancelled, result>>

(* Any other error: the provider stops, its page returns to the queue, and *)
(* an endpoint fault puts it on cooldown                                   *)
TaskFailed(p) ==
  /\ pc = "await"
  /\ p \in Tasks
  /\ heads' = heads \ {p}
  /\ failed' = IF p \in Fetching THEN failed \cup {pageOf[p]} ELSE failed
  /\ pageOf' = [pageOf EXCEPT ![p] = NoPage]
  /\ pc' = "deliver"
  /\ MarkBadProvider(p) \/ UNCHANGED poolVars
  /\ UNCHANGED <<snapshot, untried, tried, idle, nextPage, completed, delivered,
                 cancelled, result>>

(* A cancelled task, or a page over the shared request budget, ends the    *)
(* whole fetch                                                             *)
TaskAborts(p) ==
  /\ pc = "await"
  /\ p \in Tasks
  /\ \/ cancelled /\ Return("cancelled")
     \/ p \in Fetching /\ Return("over_budget")
  /\ UNCHANGED <<poolVars, snapshot, untried, tried, idle, heads, pageOf, failed,
                 nextPage, completed, delivered, cancelled>>

Cancel ==
  /\ result = "none"
  /\ ~cancelled
  /\ cancelled' = TRUE
  /\ UNCHANGED <<poolVars, pc, snapshot, untried, tried, idle, heads, pageOf,
                 failed, nextPage, completed, delivered, result>>

PoolChanges ==
  /\ result = "none"
  /\ \E p \in Provider :
       \/ \E a \in Admission : SetProviderAdmission(p, a)
       \/ CooldownExpires(p)
  /\ UNCHANGED fetchVars

Returned == result # "none" /\ UNCHANGED vars

Turn == DeliverPage \/ CheckEnd \/ FillSnapshot \/ FillSlot \/ AssignPage
          \/ AssignDone \/ NoTask

TaskEnds == \E p \in Provider :
              HeadRead(p) \/ PageFetched(p) \/ TaskFailed(p) \/ TaskAborts(p)

Next == Turn \/ TaskEnds \/ Cancel \/ PoolChanges \/ Returned

(* The loop is polled until it blocks, and every request it waits for is   *)
(* answered, refused or timed out by the HTTP client                       *)
Fairness == WF_vars(Turn) /\ WF_vars(TaskEnds)

Spec == Init /\ [][Next]_vars
FairSpec == Spec /\ Fairness

(***************************************************************************)
(* Properties.                                                             *)
(***************************************************************************)
InFlight == {pageOf[p] : p \in Fetching}

(* Every page handed out and not yet delivered is in exactly one place:    *)
(* fetched and waiting, back on the queue, or with one provider.  No page  *)
(* is lost when a provider fails it and none is fetched twice at a time.   *)
NoPageLost ==
  result # "failed" =>
    /\ \A k \in Page : (delivered <= k /\ k < nextPage) <=>
                           (k \in completed \cup failed \cup InFlight)
    /\ completed \cap failed = {}
    /\ InFlight \cap (completed \cup failed) = {}
    /\ \A p, q \in Fetching : pageOf[p] = pageOf[q] => p = q

(* The fetch implements PageStream: whatever providers fail, retry and     *)
(* finish out of order, the caller sees the pages of the range in block    *)
(* order, each once, no page is fetched more than 2 * parallelism ahead of *)
(* its turn, and Ok(()) means that all of them were delivered.             *)
Stream == INSTANCE PageStream WITH
  Pages <- NumPages, Ahead <- Window, given <- delivered, ready <- completed, end <- result

ImplementsPageStream == Stream!StreamSpec

(* NoHealthyRpc is returned only "once pages remain but no provider is     *)
(* running and none is left to try": no eligible provider sits idle and    *)
(* the last look at the pool found no untried one.                         *)
NoProviderIsHonest ==
  result = "no_provider" => /\ delivered < NumPages
                            /\ Busy = {}
                            /\ untried = {}

(* "Each available provider is tried at most once": a provider that lost   *)
(* its slot never works on this range again, whatever its cooldown does.   *)
StoppedStaysStopped == [][tried \ Busy \subseteq tried' \ Busy']_vars

(* The fetch returns: every failure uses up a provider, so the pages run   *)
(* out, the providers do, or the caller's budget or token ends it.         *)
FetchReturns == <>(result # "none")
=============================================================================
