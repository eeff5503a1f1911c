--------------------------- MODULE LogRangeFetch ----------------------------
(***************************************************************************)
(* One logical block range as physical eth_getLogs requests                *)
(* (sync-service/src/chain/backfill.rs, fetch_logs_for_logical_range, and  *)
(* logs.rs, LogRangeFetch::get_logs).                                      *)
(*                                                                         *)
(* A fetch makes one get_logs call after another, for the archive part of  *)
(* its range and then for the rest, each with the filters of LogFilters.   *)
(* Several fetches run at once: they share the block span the pool learned *)
(* for each endpoint (core/src/query_rpc_pool.rs) and one request budget.  *)
(* A get_logs call keeps a stack of uncovered segments, the lowest on top. *)
(* An endpoint that rejects a request for its block span narrows the       *)
(* learned span for everybody; one that rejects it for its result size     *)
(* splits only that request.                                               *)
(***************************************************************************)
EXTENDS LogFilters

CONSTANTS
  Fetch,      \* the concurrent logical fetches
  RpcOf,      \* the pool provider each fetch was given
  FromBlock,  \* the range every fetch covers
  ToBlock,
  Chains,     \* upgrade and archive boundaries: [v2, legacy, archive]
  MaxSpan,    \* the configured block range
  Budgets     \* limits of the shared request budget, NoBudget for none

ASSUME RangeAssumption ==
  /\ FromBlock \in Nat /\ ToBlock \in Nat \ {0} /\ FromBlock <= ToBlock
  /\ MaxSpan \in Nat \ {0}
  /\ Chains \subseteq [v2 : Nat, legacy : Nat, archive : Nat]
  /\ Budgets \subseteq Nat \cup {-1}

NoBudget == -1
Archive == "archive"
Rpcs == {RpcOf[f] : f \in Fetch}
Endpoint == Rpcs \cup {Archive}

Block == FromBlock..ToBlock
NoCap == 0     \* the cap of a segment no result-size split made

VARIABLES
  chain,      \* the deployment and its archive boundary
  limit,      \* the limit of the shared budget, or NoBudget
  learned,    \* narrowest span learned per endpoint (log_spans)
  issued,     \* requests reserved on the budget
  calls,      \* per fetch, the get_logs calls still to be made, the current first
  pending,    \* per fetch, the stack of <<start, end, cap>>, top first
  request,    \* per fetch, the request on the wire as <<start, end, cap>>, or <<>>
  got,        \* per fetch, how often each event of each block was answered
  cancelled,  \* the cancellation token
  result      \* per fetch: "new", "none", "ok", "rejected", "over_budget", "cancelled"

fixed == <<chain, limit>>
vars == <<chain, limit, learned, issued, calls, pending, request, got, cancelled, result>>

Segment == Block \X Block \X (0..(ToBlock - FromBlock + 1))
Call == [kinds : SUBSET Kind, from : Block, to : Block, on : Endpoint]

TypeOK ==
  /\ chain \in Chains /\ limit \in Budgets
  /\ learned \in [Endpoint -> 1..MaxSpan]
  /\ issued \in Nat
  /\ calls \in [Fetch -> Seq(Call)]
  /\ pending \in [Fetch -> Seq(Segment)]
  /\ request \in [Fetch -> Segment \cup {<<>>}]
  /\ got \in [Fetch -> [Block \X Kind -> Nat]]
  /\ cancelled \in BOOLEAN
  /\ result \in [Fetch -> {"new", "none", "ok", "rejected", "over_budget", "cancelled"}]

Init ==
  /\ chain \in Chains
  /\ limit \in Budgets
  /\ learned = [e \in Endpoint |-> MaxSpan]
  /\ issued = 0
  /\ calls = [f \in Fetch |-> <<>>]
  /\ pending = [f \in Fetch |-> <<>>]
  /\ request = [f \in Fetch |-> <<>>]
  /\ got = [f \in Fetch |-> [e \in Block \X Kind |-> 0]]
  /\ cancelled = FALSE
  /\ result = [f \in Fetch |-> "new"]

Return(f, r) == result' = [result EXCEPT ![f] = r]

(* The stack a get_logs call starts with *)
Whole(call) == << <<call.from, call.to, NoCap>> >>

(* The queries asked of one endpoint *)
Ask(endpoint, queries) ==
  [i \in DOMAIN queries |-> [kinds |-> queries[i].kinds, from |-> queries[i].from,
                             to |-> queries[i].to, on |-> endpoint]]

(* A variant: the boundary block is left to the other part *)
CallsOfExclusive(f, archive) ==
  (IF HasArchivePart(FromBlock, chain.archive)
   THEN Ask(archive, RangeQueries(FromBlock, SmallerOf(ToBlock, chain.archive - 1),
                                  chain.v2, chain.legacy))
   ELSE <<>>)
  \o (IF ToBlock > chain.archive
      THEN Ask(RpcOf[f], RangeQueries(StandardStart(FromBlock, chain.archive), ToBlock,
                                      chain.v2, chain.legacy))
      ELSE <<>>)

(* The get_logs calls of the logical range: the archive part asked of      *)
(* `archive`, the rest of the pool provider                                *)
CallsOf(f, archive) ==
  (IF HasArchivePart(FromBlock, chain.archive)
   THEN Ask(archive, RangeQueries(FromBlock, SmallerOf(ToBlock, chain.archive),
                                  chain.v2, chain.legacy))
   ELSE <<>>)
  \o (IF ToBlock > chain.archive
      THEN Ask(RpcOf[f], RangeQueries(StandardStart(FromBlock, chain.archive), ToBlock,
                                      chain.v2, chain.legacy))
      ELSE <<>>)

(* fetch_logs_for_logical_range starts: an archive part goes to the        *)
(* archive endpoint, or to the pool provider when none is configured; an   *)
(* archive endpoint that is not admitted fails the read.                   *)
Begin(f) ==
  /\ result[f] = "new"
  /\ \/ \E archive \in {Archive, RpcOf[f]} :
          /\ Return(f, "none")
          /\ calls' = [calls EXCEPT ![f] = CallsOf(f, archive)]
          /\ pending' = [pending EXCEPT ![f] = Whole(Head(CallsOf(f, archive)))]
     \/ /\ HasArchivePart(FromBlock, chain.archive)
        /\ Return(f, "rejected")
        /\ UNCHANGED <<calls, pending>>
  /\ UNCHANGED <<fixed, learned, issued, request, got, cancelled>>

(* LogRequestBudget::reserve, when there is a budget *)
Exhausted == issued = limit

Reserve == issued' = IF limit = NoBudget THEN issued ELSE issued + 1

EndpointOf(f) == Head(calls[f]).on

(* log_span, then the segment's own cap *)
SpanFor(f, cap) ==
  LET span == SmallerOf(learned[EndpointOf(f)], MaxSpan)
  IN  IF cap = NoCap THEN span ELSE SmallerOf(cap, span)

Running(f) == result[f] = "none" /\ request[f] = <<>>

(* Pop a segment, push back what the span does not reach, check the token, *)
(* reserve a request on the budget and send it                             *)
IssueRequest(f) ==
  /\ Running(f)
  /\ pending[f] # <<>>
  /\ LET seg == Head(pending[f])
         end == SmallerOf(seg[1] + SpanFor(f, seg[3]) - 1, seg[2])
         rest == IF end < seg[2] THEN << <<end + 1, seg[2], seg[3]>> >> ELSE <<>>
     IN  /\ pending' = [pending EXCEPT ![f] = rest \o Tail(@)]
         /\ IF cancelled
            THEN Return(f, "cancelled") /\ UNCHANGED <<issued, request>>
            ELSE IF Exhausted
            THEN Return(f, "over_budget") /\ UNCHANGED <<issued, request>>
            ELSE /\ Reserve
                 /\ request' = [request EXCEPT ![f] = <<seg[1], end, seg[3]>>]
                 /\ UNCHANGED result
  /\ UNCHANGED <<fixed, learned, calls, got, cancelled>>

(* The stack is empty: get_logs returns, and the next call is made *)
CallDone(f) ==
  /\ Running(f)
  /\ pending[f] = <<>>
  /\ LET left == Tail(calls[f]) IN
     /\ calls' = [calls EXCEPT ![f] = left]
     /\ IF left = <<>> THEN Return(f, "ok") /\ UNCHANGED pending
                       ELSE pending' = [pending EXCEPT ![f] = Whole(Head(left))] /\ UNCHANGED result
  /\ UNCHANGED <<fixed, learned, issued, request, got, cancelled>>

Answered(f) ==
  /\ request[f] # <<>>
  /\ got' = [got EXCEPT ![f] = [e \in Block \X Kind |->
                 IF e[1] \in request[f][1]..request[f][2] /\ e[2] \in Head(calls[f]).kinds
                 THEN @[e] + 1 ELSE @[e]]]
  /\ request' = [request EXCEPT ![f] = <<>>]
  /\ UNCHANGED <<fixed, learned, issued, calls, pending, cancelled, result>>

RejectedSpan(f) == request[f][2] - request[f][1] + 1

(* An error that is no range limit, any error of a one-block request, or   *)
(* the cancellation of the wait ends the fetch                             *)
RequestFails(f) ==
  /\ request[f] # <<>>
  /\ \/ Return(f, "rejected")
     \/ cancelled /\ Return(f, "cancelled")
  /\ request' = [request EXCEPT ![f] = <<>>]
  /\ UNCHANGED <<fixed, learned, issued, calls, pending, got, cancelled>>

(* A variant: the latest limit replaces the learned span *)
NarrowLogSpanLatest(e, span) ==
  learned' = [learned EXCEPT ![e] = LargerOf(span, 1)]

(* narrow_log_span: a learned span only narrows and never reaches 0 *)
NarrowLogSpan(e, span) ==
  learned' = [learned EXCEPT ![e] = SmallerOf(@, LargerOf(span, 1))]

(* A variant: a named limit is taken as it is *)
BlockSpanLimitNamed(f, max) ==
  /\ request[f] # <<>>
  /\ RejectedSpan(f) > 1
  /\ NarrowLogSpan(EndpointOf(f), IF max > 0 THEN max ELSE RejectedSpan(f) \div 2)
  /\ pending' = [pending EXCEPT ![f] = <<request[f]>> \o @]
  /\ request' = [request EXCEPT ![f] = <<>>]
  /\ UNCHANGED <<fixed, issued, calls, got, cancelled, result>>

(* LogRangeLimit::BlockSpan with the limit the endpoint names, 0 for none *)
BlockSpanLimit(f, max) ==
  /\ request[f] # <<>>
  /\ RejectedSpan(f) > 1
  /\ NarrowLogSpan(EndpointOf(f),
       IF max \in 1..(RejectedSpan(f) - 1) THEN max ELSE RejectedSpan(f) \div 2)
  /\ pending' = [pending EXCEPT ![f] = <<request[f]>> \o @]
  /\ request' = [request EXCEPT ![f] = <<>>]
  /\ UNCHANGED <<fixed, issued, calls, got, cancelled, result>>

(* LogRangeLimit::ResultSize: two halves, each capped at its own width *)
ResultSizeLimit(f) ==
  /\ request[f] # <<>>
  /\ RejectedSpan(f) > 1
  /\ LET first == RejectedSpan(f) \div 2
         firstEnd == request[f][1] + first - 1
     IN  pending' = [pending EXCEPT ![f] =
           << <<request[f][1], firstEnd, first>>,
              <<firstEnd + 1, request[f][2], RejectedSpan(f) - first>> >> \o @]
  /\ request' = [request EXCEPT ![f] = <<>>]
  /\ UNCHANGED <<fixed, learned, issued, calls, got, cancelled, result>>

Cancel ==
  /\ ~cancelled
  /\ \E f \in Fetch : result[f] \in {"new", "none"}
  /\ cancelled' = TRUE
  /\ UNCHANGED <<fixed, learned, issued, calls, pending, request, got, result>>

Returned == (\A f \in Fetch : result[f] \notin {"new", "none"}) /\ UNCHANGED vars

Step(f) ==
  \/ Begin(f) \/ IssueRequest(f) \/ CallDone(f)
  \/ Answered(f) \/ RequestFails(f)
  \/ \E max \in 0..(MaxSpan + 1) : BlockSpanLimit(f, max)
  \/ ResultSizeLimit(f)

Next == (\E f \in Fetch : Step(f)) \/ Cancel \/ Returned

(* A fetch is polled whenever it can run and every request is answered,    *)
(* refused or timed out by the HTTP client                                 *)
Fairness == \A f \in Fetch : WF_vars(Step(f))

Spec == Init /\ [][Next]_vars
FairSpec == Spec /\ Fairness

(***************************************************************************)
(* Properties.                                                             *)
(***************************************************************************)

(* What a running get_logs call has left: its request, then its stack *)
Uncovered(f) == IF request[f] = <<>> THEN pending[f] ELSE <<request[f]>> \o pending[f]

(* Whether the current calls of f still have to ask for kind k at block b *)
StillToAsk(f, b, k) ==
  \E i \in DOMAIN calls[f] : LET c == calls[f][i] IN
    /\ k \in c.kinds
    /\ IF i > 1 THEN b \in c.from..c.to
       ELSE \E j \in DOMAIN Uncovered(f) : b \in Uncovered(f)[j][1]..Uncovered(f)[j][2]

(* "The returned log set is that of the whole logical range": whatever     *)
(* requests were narrowed and split and wherever the upgrade and archive   *)
(* boundaries lie, no event of a block is answered twice (the logs are not *)
(* deduplicated), none that is answered is still to be asked for, and Ok   *)
(* means that every event the blocks can hold was answered.                *)
EveryLogOnce ==
  \A f \in Fetch : \A b \in Block : \A k \in Kind :
    /\ got[f][b, k] <= 1
    /\ got[f][b, k] = 1 /\ result[f] = "none" => ~StillToAsk(f, b, k)
    /\ (result[f] = "ok" /\ k \in EventsOf(b, chain.v2, chain.legacy)) => got[f][b, k] = 1

Narrows ==
  /\ \A e \in Endpoint : learned'[e] <= learned[e]
  /\ \A f \in Fetch : request[f] = <<>> /\ request'[f] # <<>> =>
       LET width == request'[f][2] - request'[f][1] + 1
       IN  /\ width <= learned[EndpointOf(f)]
           /\ request'[f][3] # NoCap => width <= request'[f][3]

(* No request is wider than its cap or than the span the endpoint had      *)
(* when the request was made; a learned span never widens again, although  *)
(* rejections of older and wider requests arrive later.                    *)
SpansNarrow == [][Narrows]_vars

(* Narrowing always makes the next request smaller than the rejected one,  *)
(* so the retries end and every fetch returns.                             *)
FetchesReturn == \A f \in Fetch : <>(result[f] \notin {"new", "none"})
=============================================================================
