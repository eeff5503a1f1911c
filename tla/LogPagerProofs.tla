--------------------------- MODULE LogPagerProofs ---------------------------
(***************************************************************************)
(* Proofs about LogPager for any number of providers, pages and slots.     *)
(***************************************************************************)
EXTENDS LogPager, FiniteSetTheorems, TLAPS

(* A provider is in at most one role, and only tried providers have one *)
RolesDisjoint ==
  /\ Busy \subseteq tried
  /\ idle \cap heads = {}
  /\ idle \cap Fetching = {}
  /\ heads \cap Fetching = {}

(* Where the pages are.  The pages above nextPage were never handed out,   *)
(* and nextPage stays inside the window because delivered only grows.      *)
PagesInWindow ==
  /\ \A k \in completed \cup failed \cup InFlight : k < nextPage
  /\ delivered <= nextPage
  /\ nextPage <= delivered + Window

(* What is known at each point of a turn.  Past the delivery the next page *)
(* to deliver is missing; at the await no provider could be given a page;  *)
(* past the filling a provider holds a slot unless none was left.          *)
TurnInv ==
  /\ pc = "returned" <=> result # "none"
  /\ pc \in {"fill", "filter", "assign", "await"} =>
       delivered \notin completed /\ delivered < NumPages
  /\ pc = "await" => idle = {} \/ (failed = {} /\ ~CanHandOut)
  /\ pc \in {"assign", "await"} => untried = {} \/ Busy # {}

IInv ==
  /\ TypeOK
  /\ RolesDisjoint
  /\ PagesInWindow
  /\ NoPageLost
  /\ TurnInv
  /\ NoProviderIsHonest

-----------------------------------------------------------------------------
(* The initial state of run_parallel_log_fetch satisfies the invariant *)
THEOREM PagerInit == Init => IInv
<1> SUFFICES ASSUME Init PROVE IInv
  BY Zenon
<1> USE ProviderAssumption, PagerAssumption
<1>1. TypeOK
  <2>1. PoolTypeOK
    BY Zenon DEF Init, PoolInit, PoolTypeOK, Admission
  <2>2. pageOf \in [Provider -> Page \cup {NoPage}]
    BY Zenon DEF Init
  <2>3. nextPage \in 0..NumPages /\ delivered \in 0..NumPages
    BY DEF Init
  <2> QED
    BY <2>1, <2>2, <2>3, Zenon DEF Init, TypeOK, Result
<1>2. Fetching = {} /\ InFlight = {} /\ Busy = {}
  BY Zenon DEF Init, Fetching, InFlight, Busy, Tasks, NoPage
<1>3. RolesDisjoint
  BY <1>2, Zenon DEF Init, RolesDisjoint
<1>4. PagesInWindow
  BY <1>2 DEF Init, PagesInWindow, Window
<1>5. NoPageLost
  BY <1>2 DEF Init, NoPageLost, Page
<1>6. TurnInv /\ NoProviderIsHonest
  BY Zenon DEF Init, TurnInv, NoProviderIsHonest
<1> QED
  BY <1>1, <1>3, <1>4, <1>5, <1>6, Zenon DEF IInv

(* An empty slot table is the only one of cardinality 0 *)
LEMMA FullSlotsNonEmpty ==
  ASSUME TypeOK, ~(Cardinality(Busy) < Parallelism)
  PROVE  Busy # {}
BY PagerAssumption, FS_EmptySet DEF TypeOK

(* Every step keeps the types *)
LEMMA PagerType == TypeOK /\ [Next]_vars => TypeOK'
<1> SUFFICES ASSUME TypeOK, [Next]_vars PROVE TypeOK'
  BY Zenon
<1> USE ProviderAssumption, PagerAssumption
<1> USE DEF TypeOK, PoolTypeOK, Admission, Page, NoPage, Result, Return
<1>1. CASE DeliverPage
  BY <1>1 DEF DeliverPage, poolVars
<1>2. CASE CheckEnd
  BY <1>2, Zenon DEF CheckEnd, poolVars
<1>3. CASE FillSnapshot
  BY <1>3, Zenon DEF FillSnapshot, poolVars, AdmittedIndices
<1>4. CASE FillSlot
  BY <1>4, Zenon DEF FillSlot, poolVars, Available
<1>5. CASE AssignPage
  <2>1. PICK p \in idle : AssignPage!2!(p)
    BY <1>5, Zenon DEF AssignPage
  <2>2. CASE failed = {}
    <3>1. nextPage \in Page /\ nextPage + 1 \in 0..NumPages
      BY <2>1, <2>2 DEF CanHandOut
    <3> QED
      BY <1>5, <2>1, <2>2, <3>1 DEF AssignPage, poolVars
  <2>3. CASE failed # {}
    BY <1>5, <2>1, <2>3, Zenon DEF AssignPage, poolVars
  <2> QED
    BY <2>2, <2>3, Zenon
<1>6. CASE AssignDone
  BY <1>6, Zenon DEF AssignDone, poolVars
<1>7. CASE NoTask
  BY <1>7, Zenon DEF NoTask, poolVars
<1>8. ASSUME NEW p \in Provider, HeadRead(p) PROVE TypeOK'
  BY <1>8, Zenon DEF HeadRead, poolVars
<1>9. ASSUME NEW p \in Provider, PageFetched(p) PROVE TypeOK'
  BY <1>9, Zenon DEF PageFetched, poolVars, Fetching
<1>10. ASSUME NEW p \in Provider, TaskFailed(p) PROVE TypeOK'
  BY <1>10, Zenon DEF TaskFailed, poolVars, MarkBadProvider, Fetching
<1>11. ASSUME NEW p \in Provider, TaskAborts(p) PROVE TypeOK'
  BY <1>11, Zenon DEF TaskAborts, poolVars
<1>12. CASE Cancel
  BY <1>12, Zenon DEF Cancel, poolVars
<1>13. CASE PoolChanges
  BY <1>13, Zenon DEF PoolChanges, fetchVars, SetProviderAdmission, CooldownExpires
<1>14. CASE Returned
  BY <1>14, Zenon DEF Returned, vars, poolVars, fetchVars
<1>15. CASE UNCHANGED vars
  BY <1>15, Zenon DEF vars, poolVars, fetchVars
<1> QED
  BY <1>1, <1>2, <1>3, <1>4, <1>5, <1>6, <1>7, <1>8, <1>9, <1>10, <1>11, <1>12,
     <1>13, <1>14, <1>15, Zenon DEF Next, Turn, TaskEnds

(* Every step keeps the invariant *)
THEOREM PagerStep == IInv /\ [Next]_vars => IInv'
<1> SUFFICES ASSUME IInv, [Next]_vars PROVE IInv'
  BY Zenon
<1> USE ProviderAssumption, PagerAssumption
<1>t. TypeOK /\ TypeOK'
  BY PagerType, Zenon DEF IInv
<1>types. /\ nextPage \in Nat /\ delivered \in Nat /\ NumPages \in Nat
          /\ Window \in Nat /\ Window >= 2
          /\ \A k \in Page : k \in Nat /\ k < NumPages /\ k # NoPage
          /\ completed \subseteq Page /\ failed \subseteq Page
          /\ nextPage <= NumPages /\ delivered <= NumPages
          /\ pageOf \in [Provider -> Page \cup {NoPage}]
          /\ idle \subseteq Provider /\ heads \subseteq Provider
  BY <1>t DEF TypeOK, Page, NoPage, Window
<1> USE DEF RolesDisjoint, PagesInWindow, NoPageLost, InFlight, Fetching, Tasks, Busy
<1>1. CASE DeliverPage
  <2>1. pc = "deliver" /\ result = "none" /\ result # "failed"
    BY <1>1, <1>t, Zenon DEF DeliverPage, IInv, TurnInv
  <2>2. RolesDisjoint'
    BY <1>1, Zenon DEF DeliverPage, IInv
  <2>3. PagesInWindow'
    BY <1>1, <1>types DEF DeliverPage, IInv
  <2>4. NoPageLost'
    BY <1>1, <1>types, <2>1 DEF DeliverPage, IInv, Return
  <2>5. TurnInv' /\ NoProviderIsHonest'
    BY <1>1, <2>1, Zenon DEF DeliverPage, IInv, TurnInv, NoProviderIsHonest, Return
  <2> QED
    BY <1>t, <2>2, <2>3, <2>4, <2>5, Zenon DEF IInv
<1>2. CASE CheckEnd
  <2>1. RolesDisjoint' /\ PagesInWindow'
    BY <1>2, Zenon DEF CheckEnd, IInv
  <2>2. NoPageLost'
    BY <1>2, <1>types DEF CheckEnd, IInv, Return, TurnInv
  <2>3. TurnInv' /\ NoProviderIsHonest'
    BY <1>2, <1>types DEF CheckEnd, IInv, TurnInv, NoProviderIsHonest, Return
  <2> QED
    BY <1>t, <2>1, <2>2, <2>3, Zenon DEF IInv
<1>3. CASE FillSnapshot
  <2>1. RolesDisjoint' /\ PagesInWindow' /\ NoPageLost'
    BY <1>3, Zenon DEF FillSnapshot, IInv
  <2>2. ~(Cardinality(Busy) < Parallelism) => Busy # {}
    BY <1>t, FullSlotsNonEmpty, Zenon
  <2>3. TurnInv' /\ NoProviderIsHonest'
    BY <1>3, <2>2, Zenon DEF FillSnapshot, IInv, TurnInv, NoProviderIsHonest, CanHandOut
  <2> QED
    BY <1>t, <2>1, <2>3, Zenon DEF IInv
<1>4. CASE FillSlot
  <2>1. RolesDisjoint'
    BY <1>4, <1>t DEF FillSlot, IInv, TypeOK
  <2>2. PagesInWindow' /\ NoPageLost'
    <3>1. UNCHANGED <<pageOf, completed, failed, nextPage, delivered, result>>
      BY <1>4, Zenon DEF FillSlot
    <3> QED
      BY <3>1, Zenon DEF IInv
  <2>3. TurnInv' /\ NoProviderIsHonest'
    BY <1>4, Zenon DEF FillSlot, IInv, TurnInv, NoProviderIsHonest, CanHandOut
  <2> QED
    BY <1>t, <2>1, <2>2, <2>3, Zenon DEF IInv
<1>5. CASE AssignPage
  <2>1. PICK p \in idle : AssignPage!2!(p)
    BY <1>5, Zenon DEF AssignPage
  <2>2. p \in Provider /\ pageOf[p] = NoPage /\ p \notin heads
    BY <1>types, Zenon DEF IInv
  <2>3. PICK k \in Page : /\ pageOf' = [pageOf EXCEPT ![p] = k]
                          /\ k \notin completed \cup InFlight
                          /\ delivered <= k /\ k < nextPage'
                          /\ failed' = failed \ {k}
                          /\ \/ k \in failed /\ nextPage' = nextPage
                             \/ failed = {} /\ k = nextPage /\ nextPage' = nextPage + 1
    <3>0. result # "failed"
      BY <1>5, Zenon DEF AssignPage, IInv, TurnInv
    <3>1. CASE failed = {}
      <4>1. nextPage \in Page /\ CanHandOut
        BY <2>1, <3>1, <1>types DEF CanHandOut, Page
      <4>2. nextPage \notin completed \cup InFlight
        BY <1>types DEF IInv
      <4>3. delivered <= nextPage
        BY Zenon DEF IInv
      <4> QED
        BY <2>1, <3>1, <4>1, <4>2, <4>3, <1>types
    <3>2. CASE failed # {}
      BY <2>1, <3>0, <3>2, <1>types DEF IInv
    <3> QED
      BY <3>1, <3>2, Zenon
  <2>4. Fetching' = Fetching \cup {p} /\ InFlight' = InFlight \cup {k}
    BY <2>2, <2>3, <1>types, Zenon
  <2>5. RolesDisjoint'
    BY <1>5, <2>1, <2>2, <2>4 DEF AssignPage, IInv
  <2>6. PagesInWindow'
    <3>1. delivered' = delivered /\ completed' = completed
      BY <1>5, Zenon DEF AssignPage
    <3>2. nextPage' <= delivered + Window /\ nextPage <= nextPage' /\ nextPage' \in Nat
      <4>1. CASE nextPage' = nextPage
        BY <4>1, <1>types DEF IInv
      <4>2. CASE failed = {} /\ nextPage' = nextPage + 1
        BY <2>1, <4>2, <1>types DEF CanHandOut
      <4> QED
        BY <2>3, <4>1, <4>2, Zenon
    <3>3. \A j \in completed \cup failed \cup InFlight : j \in Nat /\ j < nextPage'
      BY <3>2, <1>types DEF IInv
    <3> QED
      BY <3>1, <3>2, <3>3, <2>3, <2>4, <1>types DEF IInv
  <2>7. NoPageLost'
    BY <1>5, <1>types, <2>2, <2>3, <2>4 DEF AssignPage, IInv
  <2>8. TurnInv' /\ NoProviderIsHonest'
    BY <1>5, <2>4, Zenon DEF AssignPage, IInv, TurnInv, NoProviderIsHonest
  <2> QED
    BY <1>t, <2>5, <2>6, <2>7, <2>8, Zenon DEF IInv
<1>6. CASE AssignDone
  BY <1>6, <1>t DEF AssignDone, IInv, TurnInv, NoProviderIsHonest, CanHandOut
<1>7. CASE NoTask
  <2>1. RolesDisjoint' /\ PagesInWindow' /\ NoPageLost'
    BY <1>7 DEF NoTask, IInv, Return, TurnInv
  <2>2. idle = {}
    <3>1. SUFFICES ASSUME failed = {}, ~CanHandOut PROVE FALSE
      BY <1>7, Zenon DEF NoTask, IInv, TurnInv
    <3>2. delivered \notin completed /\ delivered < NumPages /\ result # "failed"
      BY <1>7, Zenon DEF NoTask, IInv, TurnInv
    <3>3. InFlight = {}
      BY <1>7, Zenon DEF NoTask
    <3>4. ~(delivered < nextPage)
      BY <3>1, <3>2, <3>3, <1>types DEF IInv, Page
    <3> QED
      BY <3>1, <3>2, <3>4, <1>types DEF CanHandOut
  <2>3. TurnInv' /\ NoProviderIsHonest'
    BY <1>7, <2>2, Zenon DEF NoTask, IInv, Return, TurnInv, NoProviderIsHonest
  <2> QED
    BY <1>t, <2>1, <2>3, Zenon DEF IInv
<1>8. ASSUME NEW p \in Provider, HeadRead(p) PROVE IInv'
  <2>1. RolesDisjoint' /\ PagesInWindow' /\ NoPageLost'
    <3>1. UNCHANGED <<tried, pageOf, completed, failed, nextPage, delivered, result>>
      BY <1>8, Zenon DEF HeadRead
    <3>2. PagesInWindow' /\ NoPageLost'
      BY <3>1, Zenon DEF IInv
    <3> QED
      BY <1>8, <3>1, <3>2 DEF HeadRead, IInv
  <2>2. TurnInv' /\ NoProviderIsHonest'
    BY <1>8, Zenon DEF HeadRead, IInv, TurnInv, NoProviderIsHonest
  <2> QED
    BY <1>t, <2>1, <2>2, Zenon DEF IInv
<1>9. ASSUME NEW p \in Provider, PageFetched(p) PROVE IInv'
  <2>1. /\ Fetching' = Fetching \ {p} /\ result # "failed"
        /\ pageOf[p] \in Page /\ pageOf[p] \in InFlight
    BY <1>9, <1>types, Zenon DEF PageFetched, IInv, TurnInv
  <2>2. InFlight' = InFlight \ {pageOf[p]}
    BY <1>9, <2>1, <1>types DEF PageFetched, IInv
  <2>3. RolesDisjoint'
    BY <1>9, <2>1 DEF PageFetched, IInv
  <2>4. PagesInWindow'
    BY <1>9, <2>1, <2>2, Zenon DEF PageFetched, IInv
  <2>5. NoPageLost'
    BY <1>9, <1>types, <2>1, <2>2 DEF PageFetched, IInv
  <2>6. TurnInv' /\ NoProviderIsHonest'
    BY <1>9, Zenon DEF PageFetched, IInv, TurnInv, NoProviderIsHonest
  <2> QED
    BY <1>t, <2>3, <2>4, <2>5, <2>6, Zenon DEF IInv
<1>10. ASSUME NEW p \in Provider, TaskFailed(p) PROVE IInv'
  <2>0. result # "failed"
    BY <1>10, Zenon DEF TaskFailed, IInv, TurnInv
  <2>1. TurnInv' /\ NoProviderIsHonest'
    BY <1>10, Zenon DEF TaskFailed, IInv, TurnInv, NoProviderIsHonest
  <2>2. CASE p \in Fetching
    <3>1. /\ Fetching' = Fetching \ {p}
          /\ pageOf[p] \in Page /\ pageOf[p] \in InFlight
      BY <1>10, <2>2, <1>types, Zenon DEF TaskFailed
    <3>2. InFlight' = InFlight \ {pageOf[p]}
      BY <1>10, <2>0, <2>2, <3>1, <1>types DEF TaskFailed, IInv
    <3>3. RolesDisjoint'
      BY <1>10, <3>1, Zenon DEF TaskFailed, IInv
    <3>4. PagesInWindow'
      BY <1>10, <2>2, <3>1, <3>2, Zenon DEF TaskFailed, IInv
    <3>5. NoPageLost'
      BY <1>10, <1>types, <2>0, <2>2, <3>1, <3>2 DEF TaskFailed, IInv
    <3> QED
      BY <1>t, <2>1, <3>3, <3>4, <3>5, Zenon DEF IInv
  <2>3. CASE p \notin Fetching
    <3>1. pageOf' = pageOf /\ failed' = failed
      BY <1>10, <2>3, <1>types, Zenon DEF TaskFailed
    <3>2. UNCHANGED <<tried, idle, completed, nextPage, delivered, result>>
      BY <1>10, Zenon DEF TaskFailed
    <3>3. PagesInWindow' /\ NoPageLost'
      BY <3>1, <3>2, Zenon DEF IInv
    <3>4. RolesDisjoint'
      BY <1>10, <3>1, <3>2 DEF TaskFailed, IInv
    <3> QED
      BY <1>t, <2>1, <3>3, <3>4, Zenon DEF IInv
  <2> QED
    BY <2>2, <2>3, Zenon
<1>11. ASSUME NEW p \in Provider, TaskAborts(p) PROVE IInv'
  <2>1. RolesDisjoint' /\ PagesInWindow' /\ NoPageLost'
    BY <1>11 DEF TaskAborts, IInv, Return, TurnInv
  <2>2. TurnInv' /\ NoProviderIsHonest'
    BY <1>11, Zenon DEF TaskAborts, IInv, Return, TurnInv, NoProviderIsHonest
  <2> QED
    BY <1>t, <2>1, <2>2, Zenon DEF IInv
<1>12. CASE Cancel
  <2>1. RolesDisjoint' /\ PagesInWindow' /\ NoPageLost'
    BY <1>12 DEF Cancel, IInv
  <2>2. TurnInv' /\ NoProviderIsHonest'
    BY <1>12 DEF Cancel, IInv, TurnInv, NoProviderIsHonest, CanHandOut
  <2> QED
    BY <1>t, <2>1, <2>2, Zenon DEF IInv
<1>13. CASE PoolChanges
  BY <1>13, <1>t DEF PoolChanges, fetchVars, IInv, TurnInv, NoProviderIsHonest, CanHandOut
<1>14. CASE Returned
  BY <1>14, <1>t DEF Returned, vars, fetchVars, IInv, TurnInv, NoProviderIsHonest, CanHandOut
<1>15. CASE UNCHANGED vars
  BY <1>15, <1>t DEF vars, fetchVars, IInv, TurnInv, NoProviderIsHonest, CanHandOut
<1> QED
  BY <1>1, <1>2, <1>3, <1>4, <1>5, <1>6, <1>7, <1>8, <1>9, <1>10, <1>11, <1>12,
     <1>13, <1>14, <1>15, Zenon DEF Next, Turn, TaskEnds

(* The invariant holds throughout every run of the fetch *)
THEOREM PagerInvariant == Spec => []IInv
BY PagerInit, PagerStep, PTL DEF Spec

(* No page handed out by run_parallel_log_fetch is ever lost or duplicated *)
THEOREM PagerLosesNoPage == Spec => []NoPageLost
<1>1. IInv => NoPageLost
  BY Zenon DEF IInv
<1> QED
  BY <1>1, PagerInvariant, PTL

(* NoHealthyRpc is returned only when no provider works, waits or is left *)
THEOREM PagerNoProvider == Spec => []NoProviderIsHonest
<1>1. IInv => NoProviderIsHonest
  BY Zenon DEF IInv
<1> QED
  BY <1>1, PagerInvariant, PTL

(* A provider that lost its slot is never given work on the range again *)
THEOREM PagerNeverRetriesProvider == Spec => StoppedStaysStopped
<1>1. IInv /\ [Next]_vars => [tried \ Busy \subseteq tried' \ Busy']_vars
  <2> SUFFICES ASSUME IInv, Next PROVE tried \ Busy \subseteq tried' \ Busy'
    BY Zenon DEF IInv
  <2>1. TypeOK
    BY Zenon DEF IInv
  <2> USE DEF Busy, Tasks, Fetching
  <2>2. CASE DeliverPage \/ CheckEnd \/ FillSnapshot \/ AssignDone \/ NoTask
    BY <2>2, Zenon DEF DeliverPage, CheckEnd, FillSnapshot, AssignDone, NoTask
  <2>3. CASE FillSlot
    BY <2>3, Zenon DEF FillSlot
  <2>4. CASE AssignPage
    <3>1. PICK p \in idle : AssignPage!2!(p)
      BY <2>4, Zenon DEF AssignPage
    <3>2. \A q \in Provider : q # p => pageOf'[q] = pageOf[q]
      BY <3>1, <2>1, Zenon DEF TypeOK
    <3> QED
      BY <2>4, <3>1, <3>2, Zenon DEF AssignPage
  <2>5. ASSUME NEW p \in Provider, HeadRead(p) \/ PageFetched(p) \/ TaskFailed(p) \/ TaskAborts(p)
        PROVE  tried \ Busy \subseteq tried' \ Busy'
    <3>1. \A q \in Provider : q # p => pageOf'[q] = pageOf[q]
      BY <2>5, <2>1, Zenon DEF TypeOK, HeadRead, PageFetched, TaskFailed, TaskAborts
    <3> QED
      BY <2>5, <3>1, Zenon DEF HeadRead, PageFetched, TaskFailed, TaskAborts
  <2>6. CASE Cancel \/ PoolChanges \/ Returned
    BY <2>6, Zenon DEF Cancel, PoolChanges, Returned, vars, fetchVars
  <2> QED
    BY <2>2, <2>3, <2>4, <2>5, <2>6, Zenon DEF Next, Turn, TaskEnds
<1> QED
  BY <1>1, PagerInvariant, PTL DEF Spec, StoppedStaysStopped

(* run_parallel_log_fetch implements PageStream for any number of pages,   *)
(* providers and slots: a fetched page was handed out inside the window    *)
(* and is not yet fetched or delivered (NoPageLost, PagesInWindow), and at *)
(* the await the next page to deliver is still missing (TurnInv).          *)
THEOREM PagerImplementsStream == Spec => ImplementsPageStream
<1>1. Init => Stream!StreamInit
  BY Zenon DEF Init, Stream!StreamInit
<1>2. IInv /\ [Next]_vars => [Stream!StreamNext]_(Stream!streamVars)
  <2> SUFFICES ASSUME IInv, [Next]_vars,
                      ~(UNCHANGED <<delivered, completed, result>>)
               PROVE  Stream!StreamNext
    BY Zenon DEF Stream!streamVars
  <2>t. /\ nextPage \in Nat /\ delivered \in Nat /\ NumPages \in Nat /\ Window \in Nat
        /\ nextPage <= NumPages /\ delivered <= NumPages
    BY PagerAssumption DEF IInv, TypeOK, Window
  <2> DEFINE Outcome == {"complete", "cancelled", "over_budget", "no_provider"}
  <2>1. CASE DeliverPage
    <3>1. result = "none"
      BY <2>1, Zenon DEF DeliverPage, IInv, TurnInv, TypeOK
    <3>2. Stream!Give \/ Stream!Refused
      BY <2>1, <3>1, Zenon DEF DeliverPage, Return, Stream!Give, Stream!Refused
    <3> QED
      BY <3>2, Zenon DEF Stream!StreamNext
  <2>2. CASE CheckEnd
    <3>1. result = "none" /\ delivered \notin completed
      BY <2>2, Zenon DEF CheckEnd, IInv, TurnInv
    <3>2. Stream!Ends("complete") \/ Stream!Ends("cancelled")
      BY <2>2, <3>1, Zenon DEF CheckEnd, Return, Stream!Ends
    <3> QED
      BY <3>2, Zenon DEF Stream!StreamNext
  <2>3. CASE NoTask
    <3>1. result = "none" /\ delivered \notin completed /\ delivered # NumPages
      BY <2>3, <2>t DEF NoTask, IInv, TurnInv
    <3>2. Stream!Ends("no_provider")
      BY <2>3, <3>1, Zenon DEF NoTask, Return, Stream!Ends
    <3> QED
      BY <3>2, Zenon DEF Stream!StreamNext
  <2>4. ASSUME NEW p \in Provider, PageFetched(p) PROVE Stream!StreamNext
    <3> DEFINE k == pageOf[p]
    <3>1. result = "none"
      BY <2>4, Zenon DEF PageFetched, IInv, TurnInv
    <3>2. k \in Page /\ k \in InFlight
      BY <2>4, Zenon DEF PageFetched, IInv, TypeOK, Fetching, InFlight
    <3>3. delivered <= k /\ k < nextPage /\ k \notin completed
      BY <3>1, <3>2, Zenon DEF IInv, NoPageLost
    <3>4. k < delivered + Window /\ k \in 0..(NumPages - 1) /\ k < NumPages
      BY <3>2, <3>3, <2>t DEF IInv, PagesInWindow, Page
    <3>5. Stream!Fetch(k)
      BY <2>4, <3>1, <3>3, <3>4, Zenon DEF PageFetched, Stream!Fetch
    <3> QED
      BY <3>4, <3>5, Zenon DEF Stream!StreamNext
  <2>5. ASSUME NEW p \in Provider, TaskAborts(p) PROVE Stream!StreamNext
    <3>1. result = "none" /\ delivered \notin completed /\ delivered # NumPages
      BY <2>5, <2>t DEF TaskAborts, IInv, TurnInv
    <3>2. Stream!Ends("cancelled") \/ Stream!Ends("over_budget")
      BY <2>5, <3>1, Zenon DEF TaskAborts, Return, Stream!Ends
    <3> QED
      BY <3>2, Zenon DEF Stream!StreamNext
  <2>6. CASE FillSnapshot \/ FillSlot \/ AssignPage \/ AssignDone \/ Cancel \/ PoolChanges
               \/ Returned \/ UNCHANGED vars
    BY <2>6, Zenon DEF FillSnapshot, FillSlot, AssignPage, AssignDone, Cancel, PoolChanges, Returned,
                vars, fetchVars
  <2>7. ASSUME NEW p \in Provider, HeadRead(p) \/ TaskFailed(p) PROVE Stream!StreamNext
    BY <2>7, Zenon DEF HeadRead, TaskFailed
  <2> QED
    BY <2>1, <2>2, <2>3, <2>4, <2>5, <2>6, <2>7, Zenon DEF Next, Turn, TaskEnds
<1> QED
  BY <1>1, <1>2, PagerInvariant, PTL DEF Spec, ImplementsPageStream, Stream!StreamSpec
=============================================================================
