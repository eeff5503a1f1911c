------------------------- MODULE BackfillLoopProofs -------------------------
(***************************************************************************)
(* Proofs about the wallet backfill loop: every active job has a driver    *)
(* and no cursor runs ahead of its wallet, for any number of blocks, jobs, *)
(* actors, resets and faults, any page size and any capacity of the queue. *)
(***************************************************************************)
EXTENDS BackfillLoop, WellFoundedInduction, TLAPS

JobToken == [actor : Nat, gen : Nat, job : Nat]
BlockSpan == [from : Nat, to : Nat]
Cursor == [key : Nat, tok : JobToken, from : Nat, target : Nat, follow : BOOLEAN, start : Nat,
           acq : BlockSpan, kept : BlockSpan, used : BOOLEAN,
           run : {"runnable", "due", "backoff"}]
AddRequest == [kind : {"add"}, cursor : Cursor]
RemoveRequest == [kind : {"remove"}, actor : Nat]
Request == AddRequest \cup RemoveRequest
WalletState == [id : Nat, key : Nat, alive : BOOLEAN, gen : Nat, scanned : Nat, jobs : SUBSET JobToken,
                pending : BOOLEAN]
Page == [from : Nat, to : Nat, epoch : Nat]

\* Like TypeOK, with the whole records and without the model's bounds.
Typed ==
  /\ head \in Nat /\ epoch \in Nat /\ jobNo \in Nat
  /\ act \in WalletState /\ cur \in Cursor /\ io \in Page
  /\ held \subseteq AddRequest /\ queue \in Seq(Request)

Requests == held \cup ToSet(queue)

\* A cursor that was made for a job that was started, and is behind the wallet
\* while the job is active.
Behind(c) == c.tok.job \in 1..jobNo /\ (Active(c.tok) => c.from <= act.scanned + 1)

RequestsBehind == \A r \in Requests : r.kind = "add" => Behind(r.cursor)
DriverOf(tok) ==
  \/ cur # NoCursor /\ cur.tok = tok
  \/ \E r \in Requests : r.kind = "add" /\ r.cursor.tok = tok

IInv ==
  /\ Typed
  /\ pc \notin {"top", "exited"} => cur # NoCursor
  /\ cur # NoCursor => Behind(cur)
  /\ RequestsBehind
  /\ act.alive => \A tok \in act.jobs : DriverOf(tok)

-----------------------------------------------------------------------------
(* The operators the loop is made of.                                       *)

LEMMA Bounds ==
    /\ MaxBlock \in Nat \ {0} /\ BlockRange \in Nat \ {0}
    /\ Keys \subseteq Nat
    /\ \A u \in Starts :
         u.key \in Nat /\ u.job \in Nat /\ u.actor \in Nat /\ u.head \in Nat /\ u.epoch \in Nat
  <1>1. Keys \subseteq Nat /\ \A u \in Starts : u.key \in Nat
    BY BackfillLoopAssumption, Zenon
  <1>2. \A u \in Starts :
          u.job \in Nat /\ u.actor \in Nat /\ u.head \in Nat /\ u.epoch \in Nat
    BY BackfillLoopAssumption
  <1>3. MaxBlock \in Nat \ {0} /\ BlockRange \in Nat \ {0}
    BY BackfillLoopAssumption
  <1> QED
    BY <1>1, <1>2, <1>3, Zenon

\* The larger and the smaller of two numbers.
LEMMA OfTwo ==
    ASSUME NEW m \in Int, NEW n \in Int
    PROVE  /\ Max({m, n}) \in {m, n} /\ Max({m, n}) >= m /\ Max({m, n}) >= n
           /\ Min({m, n}) \in {m, n} /\ Min({m, n}) <= m /\ Min({m, n}) <= n
  <1>1. /\ \E x \in {m, n} : \A y \in {m, n} : x >= y
        /\ \E x \in {m, n} : \A y \in {m, n} : x <= y
    OBVIOUS
  <1>2. /\ Max({m, n}) \in {m, n} /\ \A y \in {m, n} : Max({m, n}) >= y
        /\ Min({m, n}) \in {m, n} /\ \A y \in {m, n} : Min({m, n}) <= y
    BY <1>1, Zenon DEF Max, Min
  <1> QED
    BY <1>2, Zenon

LEMMA NatOfTwo ==
    \A m, n \in Nat :
       /\ Max({m, n}) \in Nat /\ Max({m, n}) >= m /\ Max({m, n}) >= n
       /\ Min({m, n}) \in Nat /\ Min({m, n}) <= m /\ Min({m, n}) <= n
  <1> SUFFICES ASSUME NEW m \in Nat, NEW n \in Nat
               PROVE  /\ Max({m, n}) \in Nat /\ Max({m, n}) >= m /\ Max({m, n}) >= n
                      /\ Min({m, n}) \in Nat /\ Min({m, n}) <= m /\ Min({m, n}) <= n
    BY Zenon
  <1>1. m \in Int /\ n \in Int
    OBVIOUS
  <1>2. /\ Max({m, n}) \in {m, n} /\ Max({m, n}) >= m /\ Max({m, n}) >= n
        /\ Min({m, n}) \in {m, n} /\ Min({m, n}) <= m /\ Min({m, n}) <= n
    BY <1>1, OfTwo, Zenon
  <1> QED
    BY <1>2, Zenon

\* The least of a set of blocks.
LEMMA Below ==
    ASSUME NEW x \in Nat, NEW y \in Nat, y < x
    PROVE  <<y, x>> \in OpToRel(<, Nat)
  BY Zenon DEF OpToRel

LEMMA Least ==
    ASSUME NEW S \in SUBSET Nat, S # {}
    PROVE  Min(S) \in S
  <1>1. PICK x \in S : \A y \in S : ~(<<y, x>> \in OpToRel(<, Nat))
    BY NatLessThanWellFounded, WFMin, Zenon
  <1>2. \A y \in S : ~(y < x)
    BY <1>1, Below, Zenon
  <1>3. \A y \in S : x <= y
    BY <1>2
  <1> QED
    BY <1>3, Zenon DEF Min

LEMMA Blank == NoRange \in BlockSpan /\ NoCursor \in Cursor /\ NoIO \in Page
  BY Zenon DEF NoRange, BlockSpan, NoCursor, Cursor, JobToken, NoIO, Page

\* None of them changes a cursor's token, and those that bring its position
\* back never move it forward.
LEMMA Refreshed ==
    ASSUME NEW c \in Cursor, NEW h \in Nat
    PROVE  /\ RefreshTarget(c, h) \in Cursor
           /\ RefreshTarget(c, h).tok = c.tok /\ RefreshTarget(c, h).from = c.from
  <1>0. c.target \in Nat
    BY Zenon DEF Cursor
  <1>1. Max({c.target, h}) \in Nat
    BY <1>0, NatOfTwo, Zenon
  <1> DEFINE m == Max({c.target, h})
  <1> HIDE DEF m
  <1>2. m \in Nat
    BY <1>1, Zenon DEF m
  <1>3. /\ [c EXCEPT !.target = m] \in Cursor /\ [c EXCEPT !.target = m].tok = c.tok
        /\ [c EXCEPT !.target = m].from = c.from
    BY <1>2, Zenon DEF Cursor
  <1>4. /\ [c EXCEPT !.target = h] \in Cursor /\ [c EXCEPT !.target = h].tok = c.tok
        /\ [c EXCEPT !.target = h].from = c.from
    BY Zenon DEF Cursor
  <1> QED
    BY <1>3, <1>4, Zenon DEF RefreshTarget, m

LEMMA Acquisitions ==
    ASSUME NEW c \in Cursor
    PROVE  /\ FinishAcquisition(c) \in Cursor
           /\ FinishAcquisition(c).tok = c.tok /\ FinishAcquisition(c).from = c.from
           /\ AbandonAcquisition(c) \in Cursor
           /\ AbandonAcquisition(c).tok = c.tok /\ AbandonAcquisition(c).from = c.from
           /\ RestoreAcquisition(c) \in Cursor
           /\ RestoreAcquisition(c).tok = c.tok /\ RestoreAcquisition(c).from = c.from
           /\ Completed(c) \in Cursor /\ Completed(c).tok = c.tok /\ Completed(c).from = c.from
           /\ Reconciled(c) \in Cursor /\ Reconciled(c).tok = c.tok /\ Reconciled(c).from = c.from
  <1> DEFINE used == IF c.acq # c.kept THEN FALSE ELSE c.used
  <1>1. used \in BOOLEAN
    BY Zenon DEF Cursor
  <1>2. FinishAcquisition(c) = [c EXCEPT !.used = used, !.kept = c.acq, !.acq = NoRange]
    BY Zenon DEF FinishAcquisition
  <1> HIDE DEF used
  <1>3. /\ FinishAcquisition(c) \in Cursor
        /\ FinishAcquisition(c).tok = c.tok /\ FinishAcquisition(c).from = c.from
    BY <1>1, <1>2, Blank, Zenon DEF Cursor
  <1>4. /\ AbandonAcquisition(c) \in Cursor
        /\ AbandonAcquisition(c).tok = c.tok /\ AbandonAcquisition(c).from = c.from
    BY Blank, Zenon DEF AbandonAcquisition, Cursor
  <1> DEFINE restored == [c EXCEPT !.acq = c.kept, !.used = TRUE]
  <1>5. restored \in Cursor /\ restored.tok = c.tok /\ restored.from = c.from
    BY Zenon DEF Cursor
  <1>6. /\ RestoreAcquisition(c) \in Cursor
        /\ RestoreAcquisition(c).tok = c.tok /\ RestoreAcquisition(c).from = c.from
    BY <1>5, Zenon DEF RestoreAcquisition
  <1>7. /\ Completed(c) \in Cursor /\ Completed(c).tok = c.tok /\ Completed(c).from = c.from
    BY <1>3, Zenon DEF Completed
  <1>8. /\ Reconciled(c) \in Cursor /\ Reconciled(c).tok = c.tok /\ Reconciled(c).from = c.from
    BY <1>4, <1>6, Zenon DEF Reconciled
  <1> QED
    BY <1>3, <1>4, <1>6, <1>7, <1>8, Zenon

LEMMA Positions ==
    ASSUME NEW c \in Cursor, NEW n \in Nat
    PROVE  /\ MarkProgress(c, n) \in Cursor
           /\ MarkProgress(c, n).tok = c.tok /\ MarkProgress(c, n).from = n
           /\ RetryAfterApply(c, n) \in Cursor
           /\ RetryAfterApply(c, n).tok = c.tok /\ RetryAfterApply(c, n).from <= n + 1
           /\ RetryAfterFinish(c, n) \in Cursor
           /\ RetryAfterFinish(c, n).tok = c.tok /\ RetryAfterFinish(c, n).from <= n + 1
           /\ Defer(c) \in Cursor /\ Defer(c).tok = c.tok /\ Defer(c).from = c.from
  <1>1. /\ MarkProgress(c, n) \in Cursor
        /\ MarkProgress(c, n).tok = c.tok /\ MarkProgress(c, n).from = n
    BY Zenon DEF MarkProgress, Cursor
  <1>2. Defer(c) \in Cursor /\ Defer(c).tok = c.tok /\ Defer(c).from = c.from
    BY Zenon DEF Defer, Cursor
  <1>3. /\ c.from \in Nat /\ c.start \in Nat /\ c.target \in Nat /\ n + 1 \in Nat
    BY DEF Cursor
  <1> DEFINE back == Min({c.from, n + 1})
             again == Min({c.start, n + 1})
             last == IF c.target = 0 THEN again ELSE Min({again, c.target})
  <1>4. back \in Nat /\ back <= n + 1
    BY <1>3, NatOfTwo, Zenon
  <1>5. again \in Nat /\ again <= n + 1
    BY <1>3, NatOfTwo, Zenon
  <1> HIDE DEF back, again
  <1>6. last \in Nat /\ last <= n + 1
    <2> DEFINE m == Min({again, c.target})
    <2>1. m \in Nat /\ m <= again
      BY <1>3, <1>5, NatOfTwo, Zenon
    <2> HIDE DEF m
    <2>2. last = again \/ last = m
      BY Zenon DEF m
    <2> HIDE DEF last
    <2> QED
      BY <1>3, <1>5, <2>1, <2>2
  <1>7. /\ RetryAfterApply(c, n) = [c EXCEPT !.from = back]
        /\ RetryAfterFinish(c, n) = [c EXCEPT !.from = last]
    BY Zenon DEF RetryAfterApply, RetryAfterFinish, back, again
  <1> HIDE DEF last
  <1>8. /\ [c EXCEPT !.from = back] \in Cursor /\ [c EXCEPT !.from = back].tok = c.tok
        /\ [c EXCEPT !.from = back].from = back
        /\ [c EXCEPT !.from = last] \in Cursor /\ [c EXCEPT !.from = last].tok = c.tok
        /\ [c EXCEPT !.from = last].from = last
    BY <1>4, <1>6, Zenon DEF Cursor
  <1> QED
    BY <1>1, <1>2, <1>4, <1>6, <1>7, <1>8, Zenon

\* Where a fetch begins and ends.
LEMMA Ranges ==
    ASSUME NEW c \in Cursor
    PROVE  /\ FetchTarget(c) \in Nat /\ FetchFrom(c) \in Nat
           /\ \A from, to \in Nat : SuffixFrom(from, to) \in Nat
  <1>1. FetchTarget(c) \in Nat /\ FetchFrom(c) \in Nat
    BY Zenon DEF FetchTarget, FetchFrom, Cursor, BlockSpan
  <1>2. ASSUME NEW from \in Nat, NEW to \in Nat PROVE SuffixFrom(from, to) \in Nat
    <2> DEFINE starts == {s \in from..to : s..to \subseteq cache}
    <2>1. starts \in SUBSET Nat
      OBVIOUS
    <2>2. starts # {} => Min(starts) \in starts
      <3> HIDE DEF starts
      <3> QED
        BY <2>1, Least, Zenon
    <2>3. MaxBlock + 1 \in Nat
      BY Bounds
    <2> QED
      BY <2>1, <2>2, <2>3, Zenon DEF SuffixFrom
  <1> QED
    BY <1>1, <1>2, Zenon

\* The actor without a job.
LEMMA WithoutKeeps ==
    ASSUME act \in WalletState, NEW tok
    PROVE  /\ WithoutJob(tok) \in WalletState /\ WithoutJob(tok).jobs = act.jobs \ {tok}
           /\ WithoutJob(tok).id = act.id /\ WithoutJob(tok).alive = act.alive
           /\ WithoutJob(tok).scanned = act.scanned
  <1> DEFINE left == act.jobs \ {tok}
  <1>1. left \in SUBSET JobToken
    BY Zenon DEF WalletState
  <1>2. WithoutJob(tok) = [act EXCEPT !.jobs = left]
    BY Zenon DEF WithoutJob
  <1> HIDE DEF left
  <1>3. /\ [act EXCEPT !.jobs = left] \in WalletState /\ [act EXCEPT !.jobs = left].jobs = left
        /\ [act EXCEPT !.jobs = left].id = act.id /\ [act EXCEPT !.jobs = left].alive = act.alive
        /\ [act EXCEPT !.jobs = left].scanned = act.scanned
    BY <1>1, Zenon DEF WalletState
  <1> QED
    BY <1>2, <1>3, Zenon DEF left

\* The channel: what is taken is its first request, what is sent its last.
LEMMA Channel ==
    ASSUME NEW q \in Seq(Request)
    PROVE  /\ q # <<>> => /\ Head(q) \in Request /\ Tail(q) \in Seq(Request)
                          /\ ToSet(q) = {Head(q)} \cup ToSet(Tail(q))
           /\ \A r \in Request :
                Append(q, r) \in Seq(Request) /\ ToSet(Append(q, r)) = ToSet(q) \cup {r}
           /\ ToSet(q) \subseteq Request
  <1>1. Len(q) \in Nat /\ \A i \in 1..Len(q) : q[i] \in Request
    OBVIOUS
  <1>2. ASSUME q # <<>>
        PROVE  /\ Head(q) \in Request /\ Tail(q) \in Seq(Request)
               /\ ToSet(q) = {Head(q)} \cup ToSet(Tail(q))
    <2> DEFINE rest == Tail(q)
    <2>1. /\ Head(q) \in Request /\ rest \in Seq(Request) /\ Len(rest) = Len(q) - 1
          /\ \A i \in 1..Len(rest) : rest[i] = q[i + 1]
          /\ Head(q) = q[1] /\ Len(q) >= 1
      BY <1>2
    <2> HIDE DEF rest
    <2>2. ToSet(q) \subseteq {Head(q)} \cup ToSet(rest)
      <3> SUFFICES ASSUME NEW i \in 1..Len(q) PROVE q[i] \in {Head(q)} \cup ToSet(rest)
        BY Zenon DEF ToSet
      <3>1. CASE i = 1
        BY <2>1, <3>1, Zenon
      <3>2. CASE i # 1
        <4>1. i - 1 \in 1..Len(rest) /\ rest[i - 1] = q[i]
          BY <1>1, <2>1, <3>2
        <4> QED
          BY <4>1, Zenon DEF ToSet
      <3> QED
        BY <3>1, <3>2, Zenon
    <2>3. {Head(q)} \cup ToSet(rest) \subseteq ToSet(q)
      <3> SUFFICES ASSUME NEW i \in 1..Len(rest) PROVE rest[i] \in ToSet(q)
        BY <1>1, <2>1 DEF ToSet
      <3>1. i + 1 \in 1..Len(q) /\ rest[i] = q[i + 1]
        BY <1>1, <2>1
      <3> QED
        BY <3>1, Zenon DEF ToSet
    <2> QED
      BY <2>1, <2>2, <2>3, Zenon DEF rest
  <1>3. ASSUME NEW r \in Request
        PROVE  Append(q, r) \in Seq(Request) /\ ToSet(Append(q, r)) = ToSet(q) \cup {r}
    <2> DEFINE more == Append(q, r)
    <2>1. /\ more \in Seq(Request) /\ Len(more) = Len(q) + 1 /\ more[Len(q) + 1] = r
          /\ \A i \in 1..Len(q) : more[i] = q[i]
      OBVIOUS
    <2> HIDE DEF more
    <2>2. ToSet(more) = ToSet(q) \cup {r}
      BY <1>1, <2>1 DEF ToSet
    <2> QED
      BY <2>1, <2>2, Zenon DEF more
  <1>4. ToSet(q) \subseteq Request
    BY <1>1, Zenon DEF ToSet
  <1> QED
    BY <1>2, <1>3, <1>4, Zenon
-----------------------------------------------------------------------------
(* How steps of a kind keep the invariant.                                  *)

\* What the invariant says of a request.
LEMMA Requested ==
    ASSUME IInv, NEW r \in Requests
    PROVE  /\ r \in Request /\ r.kind \in {"add", "remove"}
           /\ r.kind = "add" => r.cursor \in Cursor /\ r.cursor.from \in Nat /\ Behind(r.cursor)
  <1>1. r \in Request
    BY Channel, Zenon DEF IInv, Typed, Requests, Request
  <1>2. r.kind = "add" => r.cursor \in Cursor
    BY <1>1, Zenon DEF Request, AddRequest, RemoveRequest
  <1>3. r.kind \in {"add", "remove"}
    BY <1>1, Zenon DEF Request, AddRequest, RemoveRequest
  <1>4. r.kind = "add" => Behind(r.cursor)
    BY Zenon DEF IInv, RequestsBehind
  <1> QED
    BY <1>1, <1>2, <1>3, <1>4, Zenon DEF Cursor

\* A cursor stays behind when its wallet moves on and gets no new jobs.
LEMMA StaysBehind ==
    ASSUME IInv, NEW c \in Cursor, Behind(c), act' \in WalletState, jobNo' = jobNo,
           \/ act'.jobs = {}
           \/ ~act'.alive
           \/ /\ act'.id = act.id /\ (act'.alive => act.alive) /\ act'.jobs \subseteq act.jobs
              /\ act'.scanned >= act.scanned
    PROVE  Behind(c)'
  <1>1. c.from \in Nat /\ act.scanned \in Nat /\ act'.scanned \in Nat
    BY Zenon DEF Cursor, IInv, Typed, WalletState
  <1> QED
    BY <1>1 DEF Behind, Active, Cancelled

\* The loop works on its cursor, or the actor retires the cursor's job.
LEMMA CursorStays ==
    ASSUME IInv, cur # NoCursor, cur' \in Cursor, cur'.tok = cur.tok, io' \in Page,
           act' \in WalletState, act'.id = act.id, act'.alive = act.alive,
           act'.jobs \subseteq act.jobs, act'.scanned >= act.scanned,
           Active(cur.tok)' => cur'.from <= act'.scanned + 1,
           UNCHANGED <<head, epoch, held, queue, jobNo>>
    PROVE  IInv'
  <1>1. Typed'
    BY Zenon DEF IInv, Typed
  <1>2. cur' # NoCursor /\ Behind(cur)'
    <2>1. cur.tok.job \in 1..jobNo /\ jobNo \in Nat
      BY Zenon DEF IInv, Typed, Behind
    <2>2. NoCursor.tok.job = 0
      BY Zenon DEF NoCursor
    <2>3. cur' # NoCursor
      BY <2>1, <2>2
    <2> QED
      BY <2>1, <2>3, Zenon DEF Behind, Active, Cancelled
  <1>3. Requests' = Requests
    BY Zenon DEF Requests
  <1>4. RequestsBehind'
    <2> SUFFICES ASSUME NEW r \in Requests, r.kind = "add" PROVE Behind(r.cursor)'
      BY <1>3, Zenon DEF RequestsBehind
    <2> QED
      BY Requested, StaysBehind, Zenon
  <1>5. act'.alive => \A tok \in act'.jobs : DriverOf(tok)'
    BY <1>2, <1>3, Zenon DEF IInv, DriverOf
  <1> QED
    BY <1>1, <1>2, <1>4, <1>5, Zenon DEF IInv

\* The loop gives its cursor up and its job is retired.
LEMMA CursorLeaves ==
    ASSUME IInv, cur' = NoCursor, Retires(cur.tok), pc' = "top", io' \in Page,
           UNCHANGED <<head, epoch, held, queue, jobNo>>
    PROVE  IInv'
  <1>1. /\ act' \in WalletState /\ act'.jobs = act.jobs \ {cur.tok} /\ act'.id = act.id
        /\ act'.alive = act.alive /\ act'.scanned = act.scanned /\ act.scanned \in Nat
    BY WithoutKeeps, Zenon DEF IInv, Typed, Retires, WalletState
  <1>2. Typed'
    BY <1>1, Blank, Zenon DEF IInv, Typed
  <1>3. Requests' = Requests
    BY Zenon DEF Requests
  <1>4. RequestsBehind'
    <2> SUFFICES ASSUME NEW r \in Requests, r.kind = "add" PROVE Behind(r.cursor)'
      BY <1>3, Zenon DEF RequestsBehind
    <2> QED
      BY <1>1, Requested, StaysBehind
  <1>5. act'.alive => \A tok \in act'.jobs : DriverOf(tok)'
    BY <1>1, <1>3, Zenon DEF IInv, DriverOf
  <1> QED
    BY <1>2, <1>4, <1>5, Zenon DEF IInv

\* Something happens beside the loop that sends no request.
LEMMA BesideKeeps ==
    ASSUME IInv, head' \in Nat, epoch' \in Nat, act' \in WalletState,
           \/ act'.jobs = {}
           \/ /\ act'.id = act.id /\ (act'.alive => act.alive) /\ act'.jobs \subseteq act.jobs
              /\ act'.scanned >= act.scanned,
           UNCHANGED <<cur, pc, io, held, queue, jobNo>>
    PROVE  IInv'
  <1>1. Typed'
    BY Zenon DEF IInv, Typed
  <1>2. cur' # NoCursor => Behind(cur)'
    <2>1. cur # NoCursor => Behind(cur) /\ cur \in Cursor
      BY Zenon DEF IInv, Typed
    <2>2. cur # NoCursor => Behind(cur)'
      <3> SUFFICES ASSUME cur # NoCursor PROVE Behind(cur)'
        BY Zenon
      <3>1. /\ cur.from \in Nat /\ act.scanned \in Nat /\ act'.scanned \in Nat
            /\ cur' = cur /\ jobNo' = jobNo /\ Behind(cur)
        BY <2>1, Zenon DEF Cursor, IInv, Typed, WalletState
      <3> QED
        BY <3>1 DEF Behind, Active, Cancelled
    <2> QED
      BY <2>2, Zenon
  <1>3. Requests' = Requests
    BY Zenon DEF Requests
  <1>4. RequestsBehind'
    <2> SUFFICES ASSUME NEW r \in Requests, r.kind = "add" PROVE Behind(r.cursor)'
      BY <1>3, Zenon DEF RequestsBehind
    <2> QED
      BY Requested, StaysBehind, Zenon
  <1>5. act'.alive => \A tok \in act'.jobs : DriverOf(tok)'
    BY <1>3, Zenon DEF IInv, DriverOf
  <1> QED
    BY <1>1, <1>2, <1>4, <1>5, Zenon DEF IInv

-----------------------------------------------------------------------------
(* Requests.                                                                *)

\* apply_backfill_request: the driver that loses is retired.
LEMMA TakeKeeps ==
    ASSUME IInv, TakeRequest
    PROVE  IInv'
  <1> DEFINE r == Head(queue)
  <1>1. /\ r \in Request /\ queue' \in Seq(Request) /\ held' = held
        /\ r \in Requests /\ Requests' \subseteq Requests /\ Requests \subseteq Requests' \cup {r}
    BY Channel, Zenon DEF IInv, Typed, TakeRequest, Requests
  <1>2. /\ AddJob(r) \/ RemoveWallet(r)
        /\ pc' = "top" /\ UNCHANGED <<head, epoch, io, jobNo, held>>
    BY Zenon DEF TakeRequest
  <1> HIDE DEF r
  <1>3. /\ act \in WalletState /\ cur \in Cursor /\ act.scanned \in Nat
        /\ cur # NoCursor => Behind(cur)
    BY Zenon DEF IInv, Typed, WalletState
  <1>4. /\ r.kind = "add" => r.cursor \in Cursor /\ Behind(r.cursor)
    BY <1>1, Requested, Zenon
  <1>5. r.kind = "add" => r.cursor # NoCursor
    BY <1>4 DEF Behind, NoCursor
  <1>6. ASSUME act' \in WalletState, act'.id = act.id, act'.alive = act.alive,
               act'.jobs \subseteq act.jobs, act'.scanned = act.scanned, cur' \in Cursor,
               cur' \in {cur, NoCursor} \/ (r.kind = "add" /\ cur' = r.cursor),
               \A tok \in act'.jobs :
                 /\ cur # NoCursor /\ tok = cur.tok => cur' = cur
                 /\ r.kind = "add" /\ tok = r.cursor.tok => cur' = r.cursor
        PROVE  IInv'
    <2>1. Typed'
      BY <1>1, <1>2, <1>6, Zenon DEF IInv, Typed
    <2>2. cur' # NoCursor => Behind(cur)'
      <3>1. CASE cur' = cur /\ cur # NoCursor
        <4> DEFINE c == cur
        <4>1. c \in Cursor /\ Behind(c) /\ cur' = c
          BY <1>3, <3>1, Zenon
        <4> HIDE DEF c
        <4>2. c.tok.job \in 1..jobNo /\ (Active(c.tok) => c.from <= act.scanned + 1)
          BY <4>1, Zenon DEF Behind
        <4> QED
          BY <1>2, <1>6, <4>1, <4>2, Zenon DEF Behind, Active, Cancelled
      <3>2. CASE r.kind = "add" /\ cur' = r.cursor
        <4> DEFINE c == r.cursor
        <4>1. c.tok.job \in 1..jobNo /\ (Active(c.tok) => c.from <= act.scanned + 1)
          BY <1>4, <3>2, Zenon DEF Behind
        <4> QED
          BY <1>2, <1>6, <3>2, <4>1, Zenon DEF Behind, Active, Cancelled
      <3> QED
        BY <1>6, <3>1, <3>2, Zenon
    <2>3. RequestsBehind'
      <3> SUFFICES ASSUME NEW q \in Requests', q.kind = "add" PROVE Behind(q.cursor)'
        BY Zenon DEF RequestsBehind
      <3>1. q \in Requests
        BY <1>1, Zenon
      <3> QED
        BY <1>2, <1>3, <1>6, <3>1, Requested, StaysBehind
    <2>4. act'.alive => \A tok \in act'.jobs : DriverOf(tok)'
      <3> SUFFICES ASSUME act'.alive, NEW tok \in act'.jobs PROVE DriverOf(tok)'
        BY Zenon
      <3>1. DriverOf(tok)
        BY <1>6, Zenon DEF IInv
      <3>2. CASE cur # NoCursor /\ cur.tok = tok
        BY <1>6, <3>2, Zenon DEF DriverOf
      <3>3. CASE r.kind = "add" /\ tok = r.cursor.tok
        BY <1>5, <1>6, <3>3, Zenon DEF DriverOf
      <3>4. CASE \E q \in Requests' : q.kind = "add" /\ q.cursor.tok = tok
        BY <3>4, Zenon DEF DriverOf
      <3> QED
        BY <1>1, <3>1, <3>2, <3>3, <3>4, Zenon DEF DriverOf
    <2> QED
      BY <1>2, <2>1, <2>2, <2>3, <2>4, Zenon DEF IInv
  <1>7. \A tok : Retires(tok) =>
          /\ act' \in WalletState /\ act'.jobs = act.jobs \ {tok} /\ act'.id = act.id
          /\ act'.alive = act.alive /\ act'.scanned = act.scanned
    BY <1>3, WithoutKeeps, Zenon DEF Retires
  <1>8. CASE AddJob(r)
    <2>1. CASE cur' = r.cursor /\ cur # NoCursor /\ Retires(cur.tok)
      BY <1>4, <1>6, <1>7, <1>8, <2>1, Zenon DEF AddJob
    <2>2. CASE cur' = r.cursor /\ cur = NoCursor /\ UNCHANGED act
      BY <1>3, <1>4, <1>6, <1>8, <2>2, Zenon DEF AddJob
    <2>3. CASE Retires(r.cursor.tok) /\ UNCHANGED cur
      BY <1>3, <1>6, <1>7, <2>3, Zenon
    <2> QED
      BY <1>8, <2>1, <2>2, <2>3, Zenon DEF AddJob
  <1>9. CASE RemoveWallet(r)
    <2>1. r.kind = "remove"
      BY <1>9, Zenon DEF RemoveWallet
    <2>2. CASE cur' = NoCursor /\ Retires(cur.tok)
      BY <1>6, <1>7, <2>1, <2>2, Blank, Zenon
    <2>3. CASE UNCHANGED <<cur, act>>
      BY <1>3, <1>6, <2>1, <2>3, Zenon
    <2> QED
      BY <1>9, <2>2, <2>3, Zenon DEF RemoveWallet
  <1> QED
    BY <1>2, <1>8, <1>9, Zenon

\* The actor accepts jobs under a number of their own, and sends requests that
\* start where its wallet is, or before.
LEMMA AcceptKeeps ==
    ASSUME IInv, NEW c \in Cursor, c.tok = Token, c.from <= act.scanned + 1, jobNo' = jobNo + 1,
           act' \in WalletState, act'.id = act.id, act'.alive = act.alive,
           act'.scanned = act.scanned, act'.jobs \subseteq act.jobs \cup {Token},
           Requests' = Requests \cup {[kind |-> "add", cursor |-> c]},
           held' \subseteq AddRequest, queue' \in Seq(Request),
           UNCHANGED <<head, epoch, cur, pc, io>>
    PROVE  IInv'
  <1> DEFINE r == [kind |-> "add", cursor |-> c]
  <1>1. r.kind = "add" /\ r.cursor = c
    BY Zenon
  <1>2. Requests' = Requests \cup {r}
    BY Zenon
  <1> HIDE DEF r
  <1>3. Typed'
    BY DEF IInv, Typed
  <1>4. Token.job = jobNo + 1 /\ jobNo \in Nat
    BY Zenon DEF Token, IInv, Typed
  <1>5. ASSUME NEW d \in Cursor, Behind(d) PROVE Behind(d)'
    <2>1. d.tok.job \in 1..jobNo /\ d.tok # Token
      BY <1>4, <1>5 DEF Behind
    <2> QED
      BY <1>4, <1>5, <2>1 DEF Behind, Active, Cancelled
  <1>6. Behind(c)'
    BY <1>4 DEF Behind
  <1>7. cur # NoCursor => Behind(cur)'
    <2> SUFFICES ASSUME cur # NoCursor PROVE Behind(cur)'
      BY Zenon
    <2>1. cur.tok.job \in 1..jobNo /\ cur.tok # Token
      BY <1>4 DEF IInv, Behind
    <2> QED
      BY <1>4, <2>1 DEF IInv, Behind, Active, Cancelled
  <1>8. RequestsBehind'
    <2> SUFFICES ASSUME NEW q \in Requests', q.kind = "add" PROVE Behind(q.cursor)'
      BY Zenon DEF RequestsBehind
    <2>1. CASE q \in Requests
      BY <1>5, <2>1, Requested, Zenon
    <2>2. CASE q = r
      BY <1>1, <1>6, <2>2, Zenon
    <2> QED
      BY <1>2, <2>1, <2>2, Zenon
  <1>9. act'.alive => \A tok \in act'.jobs : DriverOf(tok)'
    <2> SUFFICES ASSUME act'.alive, NEW tok \in act'.jobs PROVE DriverOf(tok)'
      BY Zenon
    <2>1. CASE tok = Token
      BY <1>1, <1>2, <2>1, Zenon DEF DriverOf
    <2>2. CASE tok \in act.jobs
      <3>1. DriverOf(tok)
        BY <2>2, Zenon DEF IInv
      <3> QED
        BY <1>2, <3>1, Zenon DEF DriverOf
    <2> QED
      BY <2>1, <2>2, Zenon
  <1> QED
    BY <1>3, <1>7, <1>8, <1>9, Zenon DEF IInv

\* What a fresh cursor is made of.
LEMMA Fresh ==
    ASSUME IInv
    PROVE  Token \in JobToken /\ act.key \in Nat /\ head \in Nat /\ NoCursor \in Cursor
  <1>1. jobNo + 1 \in Nat /\ act.key \in Nat /\ act.id \in Nat /\ act.gen \in Nat /\ head \in Nat
    BY DEF IInv, Typed, WalletState
  <1> QED
    BY <1>1, Blank, Zenon DEF Token, JobToken

LEMMA EnqueueKeeps ==
    ASSUME IInv, NEW from \in Block, NEW follow \in BOOLEAN, NEW acqTo \in 0..MaxBlock,
           Enqueue(from, follow, acqTo)
    PROVE  IInv'
  <1> DEFINE acq == IF acqTo = 0 THEN NoRange ELSE [from |-> from, to |-> acqTo]
             c == [NoCursor EXCEPT !.key = act.key, !.tok = Token, !.from = from, !.target = head,
                                   !.follow = follow, !.start = from, !.acq = acq]
             jobs == act.jobs \cup {Token}
  <1>1. from \in Nat /\ acq \in BlockSpan
    BY Bounds, Blank DEF Block, BlockSpan
  <1>2. /\ act' = [act EXCEPT !.jobs = jobs] /\ held' = held \cup {[kind |-> "add", cursor |-> c]}
        /\ from <= act.scanned + 1 /\ jobNo' = jobNo + 1
        /\ UNCHANGED <<head, epoch, queue, cur, pc, io>>
    BY Zenon DEF Enqueue
  <1> HIDE DEF acq
  <1>3. Token \in JobToken /\ c \in Cursor /\ c.tok = Token /\ c.from = from
    BY <1>1, Fresh, Zenon DEF Cursor
  <1> HIDE DEF c
  <1>4. jobs \in SUBSET JobToken
    BY <1>3, Zenon DEF IInv, Typed, WalletState
  <1> HIDE DEF jobs
  <1>5. /\ act' \in WalletState /\ act'.jobs = jobs /\ act'.id = act.id
        /\ act'.alive = act.alive /\ act'.scanned = act.scanned
    <2>1. act \in WalletState
      BY Zenon DEF IInv, Typed
    <2> QED
      BY <1>2, <1>4, <2>1, Zenon DEF WalletState
  <1>6. [kind |-> "add", cursor |-> c] \in AddRequest
    BY <1>3, Zenon DEF AddRequest
  <1>7. held' \subseteq AddRequest /\ queue' \in Seq(Request)
    BY <1>2, <1>6, Zenon DEF IInv, Typed
  <1>8. Requests' = Requests \cup {[kind |-> "add", cursor |-> c]}
    BY <1>2, Zenon DEF Requests
  <1>9. act'.jobs \subseteq act.jobs \cup {Token}
    BY <1>5, Zenon DEF jobs
  <1> QED
    BY <1>2, <1>3, <1>5, <1>7, <1>8, <1>9, AcceptKeeps, Zenon

LEMMA AdmitKeeps ==
    ASSUME IInv, NEW settled \in BOOLEAN, AdmitReplay(settled)
    PROVE  IInv'
  <1> DEFINE from == act.scanned + 1
             c == [NoCursor EXCEPT !.key = act.key, !.tok = Token, !.from = from, !.target = head,
                                   !.follow = TRUE, !.start = from]
             jobs == {Token}
  <1>1. act \in WalletState /\ act.scanned \in Nat /\ from \in Nat
    BY DEF IInv, Typed, WalletState
  <1>2. (~settled) \in BOOLEAN /\ TRUE \in BOOLEAN
    BY Zenon
  <1>3. UNCHANGED <<head, epoch, cur, pc, io, held>>
    BY Zenon DEF AdmitReplay
  <1>4. CASE /\ jobNo' = jobNo + 1 /\ queue' = Append(queue, [kind |-> "add", cursor |-> c])
             /\ act' = [act EXCEPT !.jobs = jobs, !.pending = ~settled]
    <2>1. Token \in JobToken /\ c \in Cursor /\ c.tok = Token /\ c.from = from
      BY <1>1, <1>2, Fresh, Zenon DEF Cursor
    <2> HIDE DEF c
    <2>2. jobs \in SUBSET JobToken
      BY <2>1, Zenon
    <2> HIDE DEF jobs, from
    <2>3. /\ act' \in WalletState /\ act'.jobs = jobs /\ act'.id = act.id
          /\ act'.alive = act.alive /\ act'.scanned = act.scanned
      BY <1>1, <1>2, <1>4, <2>2, Zenon DEF WalletState
    <2>4. [kind |-> "add", cursor |-> c] \in Request
      BY <2>1, Zenon DEF Request, AddRequest
    <2>5. /\ queue' \in Seq(Request) /\ ToSet(queue') = ToSet(queue) \cup {[kind |-> "add", cursor |-> c]}
      BY <1>4, <2>4, Channel, Zenon DEF IInv, Typed
    <2>6. Requests' = Requests \cup {[kind |-> "add", cursor |-> c]}
      BY <1>3, <2>5, Zenon DEF Requests
    <2>7. held' \subseteq AddRequest /\ act'.jobs \subseteq act.jobs \cup {Token}
      BY <1>3, <2>3, Zenon DEF IInv, Typed, jobs
    <2>8. c.from <= act.scanned + 1
      BY <1>1, <2>1 DEF from
    <2> QED
      BY <1>3, <1>4, <2>1, <2>3, <2>5, <2>6, <2>7, <2>8, AcceptKeeps, Zenon
  <1>5. CASE act' = [act EXCEPT !.pending = ~settled] /\ UNCHANGED <<queue, jobNo>>
    <2>1. /\ act' \in WalletState /\ act'.jobs = act.jobs /\ act'.id = act.id
          /\ act'.alive = act.alive /\ act'.scanned = act.scanned
      BY <1>1, <1>2, <1>5, Zenon DEF WalletState
    <2>2. head' \in Nat /\ epoch' \in Nat
      BY <1>3, Zenon DEF IInv, Typed
    <2> QED
      BY <1>1, <1>3, <1>5, <2>1, <2>2, BesideKeeps
  <1> QED
    BY <1>4, <1>5, Zenon DEF AdmitReplay, Sends

\* try_send: a request that does not get into the queue gives its job up.
LEMMA PostKeeps ==
    ASSUME IInv, NEW r \in held, Post(r)
    PROVE  IInv'
  <1>1. /\ r \in AddRequest /\ r \in Request /\ r.kind = "add" /\ queue \in Seq(Request)
        /\ act \in WalletState /\ act.scanned \in Nat
    BY Zenon DEF IInv, Typed, AddRequest, Request, WalletState
  <1>2. held' = held \ {r} /\ UNCHANGED <<head, epoch, cur, pc, io, jobNo>>
    BY Zenon DEF Post
  <1>3. ASSUME act' \in WalletState, act'.id = act.id, act'.alive = act.alive,
               act'.jobs \subseteq act.jobs, act'.scanned = act.scanned, queue' \in Seq(Request),
               Requests' \subseteq Requests,
               \A q \in Requests : q \in Requests' \/ (q = r /\ r.cursor.tok \notin act'.jobs)
        PROVE  IInv'
    <2>1. Typed'
      BY <1>2, <1>3, Zenon DEF IInv, Typed
    <2>2. cur # NoCursor => Behind(cur)'
      BY <1>2, <1>3, Zenon DEF IInv, Behind, Active, Cancelled
    <2>3. RequestsBehind'
      <3> SUFFICES ASSUME NEW q \in Requests', q.kind = "add" PROVE Behind(q.cursor)'
        BY Zenon DEF RequestsBehind
      <3>1. q \in Requests
        BY <1>3, Zenon
      <3> QED
        BY <1>1, <1>2, <1>3, <3>1, Requested, StaysBehind
    <2>4. act'.alive => \A tok \in act'.jobs : DriverOf(tok)'
      <3> SUFFICES ASSUME act'.alive, NEW tok \in act'.jobs PROVE DriverOf(tok)'
        BY Zenon
      <3>1. DriverOf(tok)
        BY <1>3, Zenon DEF IInv
      <3> QED
        BY <1>2, <1>3, <3>1, Zenon DEF DriverOf
    <2> QED
      BY <1>2, <2>1, <2>2, <2>3, <2>4, Zenon DEF IInv
  <1>4. CASE queue' = Append(queue, r) /\ UNCHANGED act
    <2>1. queue' \in Seq(Request) /\ ToSet(queue') = ToSet(queue) \cup {r}
      BY <1>1, <1>4, Channel, Zenon
    <2>2. Requests' = Requests
      BY <1>2, <2>1, Zenon DEF Requests
    <2> QED
      BY <1>1, <1>3, <1>4, <2>1, <2>2, Zenon
  <1>5. CASE Retires(r.cursor.tok) /\ UNCHANGED queue
    <2>1. /\ act' \in WalletState /\ act'.jobs = act.jobs \ {r.cursor.tok} /\ act'.id = act.id
          /\ act'.alive = act.alive /\ act'.scanned = act.scanned
      BY <1>1, <1>5, WithoutKeeps, Zenon DEF Retires
    <2>2. Requests' \subseteq Requests /\ \A q \in Requests : q \in Requests' \/ q = r
      BY <1>2, <1>5, Zenon DEF Requests
    <2> QED
      BY <1>1, <1>3, <1>5, <2>1, <2>2, Zenon
  <1> QED
    BY <1>4, <1>5, Zenon DEF Post, Sends

\* finish_wallet_retirement: the removal is one more request, and not a job.
LEMMA RemovalKeeps ==
    ASSUME IInv, SendRemoval
    PROVE  IInv'
  <1> DEFINE r == [kind |-> "remove", actor |-> act.id]
  <1>1. /\ act \in WalletState /\ queue \in Seq(Request) /\ r \in Request /\ r.kind # "add"
    BY Zenon DEF IInv, Typed, WalletState, Request, RemoveRequest
  <1>2. /\ UNCHANGED <<head, epoch, act, cur, pc, io, jobNo, held>>
        /\ queue' = queue \/ queue' = Append(queue, r)
    BY Zenon DEF SendRemoval, Sends
  <1> HIDE DEF r
  <1>3. act' \in WalletState
    BY <1>1, <1>2, Zenon
  <1>4. /\ queue' \in Seq(Request) /\ ToSet(queue') \subseteq ToSet(queue) \cup {r}
        /\ ToSet(queue) \subseteq ToSet(queue')
    <2>1. CASE queue' = queue
      BY <1>1, <2>1, Zenon
    <2>2. CASE queue' = Append(queue, r)
      <3>1. queue' \in Seq(Request) /\ ToSet(queue') = ToSet(queue) \cup {r}
        BY <1>1, <2>2, Channel, Zenon
      <3> QED
        BY <3>1, Zenon
    <2> QED
      BY <1>2, <2>1, <2>2, Zenon
  <1>5. Typed'
    BY <1>2, <1>3, <1>4, Zenon DEF IInv, Typed
  <1>6. cur # NoCursor => Behind(cur)'
    BY <1>2, Zenon DEF IInv, Behind, Active, Cancelled
  <1>7. RequestsBehind'
    <2> SUFFICES ASSUME NEW q \in Requests', q.kind = "add" PROVE Behind(q.cursor)'
      BY Zenon DEF RequestsBehind
    <2>1. q \in Requests
      BY <1>1, <1>2, <1>4, Zenon DEF Requests
    <2>2. Behind(q.cursor)
      BY <2>1, Zenon DEF IInv, RequestsBehind
    <2> QED
      BY <1>2, <2>2, Zenon DEF Behind, Active, Cancelled
  <1>8. \A tok : DriverOf(tok) => DriverOf(tok)'
    <2>1. Requests \subseteq Requests'
      BY <1>2, <1>4, Zenon DEF Requests
    <2> QED
      BY <1>2, <2>1, Zenon DEF DriverOf
  <1> QED
    BY <1>2, <1>5, <1>6, <1>7, <1>8, Zenon DEF IInv

\* retire_backfill_loop_state.
LEMMA ExitKeeps ==
    ASSUME IInv, Exit
    PROVE  IInv'
  <1> DEFINE left == act.jobs \ DrivenByLoop
  <1>1. /\ act' = [act EXCEPT !.jobs = left] /\ cur' = NoCursor /\ queue' = <<>> /\ pc' = "exited"
        /\ io' = NoIO /\ UNCHANGED <<head, epoch, jobNo, held>>
    BY Zenon DEF Exit
  <1>2. act \in WalletState /\ act.scanned \in Nat /\ left \in SUBSET JobToken
    BY Zenon DEF IInv, Typed, WalletState
  <1>3. \A tok \in left : /\ tok \in act.jobs
                          /\ cur # NoCursor => cur.tok # tok
                          /\ \A r \in ToSet(queue) : r.kind = "add" => r.cursor.tok # tok
    BY Zenon DEF DrivenByLoop
  <1> HIDE DEF left
  <1>4. /\ act' \in WalletState /\ act'.jobs = left /\ act'.id = act.id
        /\ act'.alive = act.alive /\ act'.scanned = act.scanned
    BY <1>1, <1>2, Zenon DEF WalletState
  <1>5. Typed'
    BY <1>1, <1>4, Blank DEF IInv, Typed
  <1>6. Requests' = held
    BY <1>1 DEF Requests, ToSet
  <1>7. RequestsBehind'
    <2> SUFFICES ASSUME NEW q \in held, q.kind = "add" PROVE Behind(q.cursor)'
      BY <1>6, Zenon DEF RequestsBehind
    <2>1. q \in Requests
      BY Zenon DEF Requests
    <2>2. act'.jobs \subseteq act.jobs
      BY <1>3, <1>4, Zenon
    <2> QED
      BY <1>1, <1>2, <1>4, <2>1, <2>2, Requested, StaysBehind
  <1>8. act'.alive => \A tok \in act'.jobs : DriverOf(tok)'
    <2> SUFFICES ASSUME act'.alive, NEW tok \in left PROVE \E r \in held : r.kind = "add" /\ r.cursor.tok = tok
      BY <1>4, <1>6, Zenon DEF DriverOf
    <2>1. DriverOf(tok)
      BY <1>3, <1>4, Zenon DEF IInv
    <2> QED
      BY <1>3, <2>1, Zenon DEF DriverOf, Requests
  <1> QED
    BY <1>1, <1>5, <1>7, <1>8, Zenon DEF IInv

-----------------------------------------------------------------------------
(* The turns of the loop.                                                   *)

\* The steps that touch only the cursor, the page and the control.
LEMMA TurnKeeps ==
    ASSUME IInv,
           \/ Prepare \/ CompleteCached \/ RetryDue \/ Check \/ NoTail \/ TailUnavailable
           \/ (\E b \in Block : CachedRow(b)) \/ NoCachedRow \/ PlanFrom \/ HeadArrives \/ PlanRange
           \/ FetchFails \/ FetchOk \/ NormaliseFails \/ Record \/ Settle \/ Unnormalised
    PROVE  IInv'
  <1>1. /\ act \in WalletState /\ act.scanned \in Nat /\ cur \in Cursor /\ io \in Page
        /\ head \in Nat /\ epoch \in Nat /\ cur.from \in Nat /\ cur.target \in Nat
        /\ io.from \in Nat /\ io.to \in Nat
    BY Zenon DEF IInv, Typed, WalletState, Cursor, Page
  <1>2. cur # NoCursor
    BY Zenon DEF IInv, Prepare, CompleteCached, RetryDue, Check, NoTail, TailUnavailable, CachedRow,
       NoCachedRow, PlanFrom, HeadArrives, PlanRange, FetchFails, FetchOk, NormaliseFails, Record,
       Settle, Unnormalised
  <1>3. UNCHANGED <<act, head, epoch, held, queue, jobNo>>
    BY Zenon DEF LoopOnly, Prepare, CompleteCached, RetryDue, Check, NoTail, TailUnavailable, CachedRow,
       NoCachedRow, PlanFrom, HeadArrives, PlanRange, FetchFails, FetchOk, NormaliseFails, Record,
       Settle, Unnormalised
  <1>4. ASSUME cur' \in Cursor, cur'.tok = cur.tok, cur'.from = cur.from, io' \in Page
        PROVE  IInv'
    <2>1. Active(cur.tok)' => cur'.from <= act'.scanned + 1
      BY <1>2, <1>3, <1>4, Zenon DEF IInv, Behind, Active, Cancelled
    <2> QED
      BY <1>1, <1>2, <1>3, <1>4, <2>1, CursorStays
  <1>5. CASE Prepare
    <2> DEFINE c == RefreshTarget(cur, head)
    <2>1. c \in Cursor /\ c.tok = cur.tok /\ c.from = cur.from
      BY <1>1, Refreshed, Zenon
    <2>2. cur' = Reconciled(c) /\ io' = io
      BY <1>5, Zenon DEF Prepare
    <2> HIDE DEF c
    <2> QED
      BY <1>1, <1>4, <2>1, <2>2, Acquisitions, Zenon
  <1>6. CASE CompleteCached
    BY <1>1, <1>4, <1>6, Acquisitions, Zenon DEF CompleteCached
  <1>7. CASE RetryDue
    <2>1. /\ [cur EXCEPT !.run = "due"] \in Cursor /\ [cur EXCEPT !.run = "due"].tok = cur.tok
          /\ [cur EXCEPT !.run = "due"].from = cur.from
      BY <1>1, Zenon DEF Cursor
    <2> QED
      BY <1>1, <1>4, <1>7, <2>1, Zenon DEF RetryDue
  <1>8. CASE Check
    BY <1>1, <1>4, <1>8, Acquisitions, Zenon DEF Check
  <1>9. CASE NoTail \/ TailUnavailable \/ NoCachedRow \/ HeadArrives \/ FetchOk
    BY <1>1, <1>4, <1>9, Zenon DEF NoTail, TailUnavailable, NoCachedRow, HeadArrives, FetchOk
  <1>10. CASE FetchFails \/ Unnormalised
    BY <1>1, <1>4, <1>10, Blank, Zenon DEF FetchFails, Unnormalised
  <1>11. ASSUME NEW b \in Block, CachedRow(b) PROVE IInv'
    <2>1. io' = [from |-> cur.from, to |-> b, epoch |-> epoch] /\ cur' = cur /\ b \in Nat
      BY <1>11, Bounds DEF CachedRow, Block
    <2>2. io' \in Page
      BY <1>1, <2>1, Zenon DEF Page
    <2> QED
      BY <1>1, <1>4, <2>1, <2>2, Zenon
  <1>12. CASE PlanFrom
    <2> DEFINE n == FetchFrom(cur)
    <2>1. n \in Nat /\ io' = [NoIO EXCEPT !.from = n] /\ cur' = cur
      BY <1>1, <1>12, Ranges, Zenon DEF PlanFrom
    <2> HIDE DEF n
    <2>2. io' \in Page
      BY <2>1, Blank, Zenon DEF Page
    <2> QED
      BY <1>1, <1>4, <2>1, <2>2, Zenon
  <1>13. CASE PlanRange
    <2> DEFINE target == FetchTarget(cur)
               to == Min({io.from + BlockRange - 1, target})
               suffix == SuffixFrom(io.from, target)
               last == IF suffix > io.from THEN Min({to, suffix - 1}) ELSE to
    <2>1. target \in Nat /\ suffix \in Nat
      BY <1>1, Ranges, Zenon
    <2>2. io' = [io EXCEPT !.to = last, !.epoch = epoch] /\ cur' = cur
      BY <1>13, Zenon DEF PlanRange
    <2> HIDE DEF target, suffix
    <2>3. io.from + BlockRange - 1 \in Nat
      BY <1>1, Bounds
    <2>4. to \in Nat
      BY <2>1, <2>3, NatOfTwo, Zenon
    <2> HIDE DEF to
    <2>5. last \in Nat
      <3>1. CASE suffix > io.from
        <4>1. suffix - 1 \in Nat /\ last = Min({to, suffix - 1})
          BY <1>1, <2>1, <3>1
        <4> QED
          BY <2>4, <4>1, NatOfTwo, Zenon
      <3>2. CASE ~(suffix > io.from)
        BY <2>4, <3>2, Zenon
      <3> QED
        BY <3>1, <3>2, Zenon
    <2> HIDE DEF last
    <2>6. io' \in Page
      BY <1>1, <2>2, <2>5, Zenon DEF Page
    <2> QED
      BY <1>1, <1>4, <2>2, <2>6, Zenon
  <1>14. CASE NormaliseFails
    BY <1>1, <1>4, <1>14, Acquisitions, Zenon DEF NormaliseFails
  <1>15. CASE Record
    <2>1. cur' \in {cur, FinishAcquisition(cur), AbandonAcquisition(cur)} /\ io' = io
      BY <1>15, Zenon DEF Record
    <2> QED
      BY <1>1, <1>4, <2>1, Acquisitions, Zenon
  <1>16. CASE Settle
    <2> DEFINE c == Completed(cur)
               to == Min({io.to, c.target})
    <2>1. c \in Cursor /\ c.tok = cur.tok /\ c.from = cur.from
      BY <1>1, Acquisitions, Zenon
    <2>2. cur' = c /\ (io' = NoIO \/ io' = [io EXCEPT !.from = c.from, !.to = to])
      BY <1>16, Zenon DEF Settle
    <2> HIDE DEF c
    <2>3. to \in Nat /\ c.from \in Nat
      <3>1. io.to \in Nat /\ c.target \in Nat /\ c.from \in Nat
        BY <1>1, <2>1, Zenon DEF Cursor, Page
      <3> QED
        BY <3>1, NatOfTwo, Zenon
    <2> HIDE DEF to
    <2>4. io' \in Page
      BY <1>1, <2>2, <2>3, Blank, Zenon DEF Page
    <2> QED
      BY <1>4, <2>1, <2>2, <2>4, Zenon
  <1> QED
    BY <1>5, <1>6, <1>7, <1>8, <1>9, <1>10, <1>11, <1>12, <1>13, <1>14, <1>15, <1>16, Zenon

\* driver.finish, the indexed tail, and driver.apply.
LEMMA AnswerKeeps ==
    ASSUME IInv,
           \/ RetireCancelled \/ FinishReady \/ FinishGone \/ FinishRejected \/ FinishOutdated
           \/ (\E b \in Block : TailCompleted(b)) \/ Answered
    PROVE  IInv'
  <1>1. /\ act \in WalletState /\ act.scanned \in Nat /\ cur \in Cursor /\ io \in Page
        /\ head \in Nat /\ epoch \in Nat /\ cur.from \in Nat /\ io.from \in Nat /\ io.to \in Nat
    BY Zenon DEF IInv, Typed, WalletState, Cursor, Page
  <1>2. UNCHANGED <<head, epoch, held, queue, jobNo>>
    BY Zenon DEF LoopOnly, RetireCancelled, FinishReady, FinishGone, FinishRejected, FinishOutdated,
       TailCompleted, Answered, DeliverGone, DeliverPending, DeliverCovered, DeliverGap, DeliverStale, DeliverFails,
       DeliverCommitted
  <1>3. ASSUME cur # NoCursor, cur' \in Cursor, cur'.tok = cur.tok, io' \in Page, UNCHANGED act,
               cur'.from = cur.from \/ cur'.from <= act.scanned + 1
        PROVE  IInv'
    <2>1. Active(cur.tok)' => cur'.from <= act'.scanned + 1
      BY <1>3, Zenon DEF IInv, Behind, Active, Cancelled
    <2> QED
      BY <1>1, <1>2, <1>3, <2>1, CursorStays
  <1>4. Delivering => cur # NoCursor
    BY Zenon DEF IInv, Delivering
  <1>5. CASE \/ RetireCancelled \/ FinishReady \/ FinishGone \/ DeliverGone
             \/ DeliverPending /\ cur' = NoCursor
    <2>1. cur' = NoCursor /\ Retires(cur.tok) /\ pc' = "top" /\ io' \in Page
      BY <1>1, <1>5, Blank, Zenon
         DEF RetireCancelled, FinishReady, FinishGone, DeliverGone, DeliverPending, Delivered
    <2> QED
      BY <1>2, <2>1, CursorLeaves, Zenon
  <1>6. CASE FinishRejected
    <2> DEFINE c == RetryAfterFinish(cur, act.scanned)
    <2>1. c \in Cursor /\ c.tok = cur.tok /\ c.from <= act.scanned + 1
      BY <1>1, Positions, Zenon
    <2>2. cur # NoCursor /\ cur' \in {c, Defer(c)} /\ io' = io /\ UNCHANGED act
      BY <1>6, Zenon DEF FinishRejected, IInv
    <2> HIDE DEF c
    <2>3. Defer(c) \in Cursor /\ Defer(c).tok = c.tok /\ Defer(c).from = c.from
      BY <1>1, <2>1, Positions, Zenon
    <2> QED
      BY <1>1, <1>3, <2>1, <2>2, <2>3, Zenon
  <1>14. CASE FinishOutdated
    <2>1. /\ cur' \in Cursor /\ cur'.tok = cur.tok /\ cur'.from <= act.scanned + 1
          /\ cur # NoCursor /\ io' \in Page
      BY <1>1, <1>14, Positions, Zenon DEF FinishOutdated, IInv
    <2>2. CASE UNCHANGED act
      BY <1>3, <2>1, <2>2, Zenon
    <2>3. CASE Retires(cur.tok)
      <3>1. /\ act' \in WalletState /\ act'.jobs = act.jobs \ {cur.tok} /\ act'.id = act.id
            /\ act'.alive = act.alive /\ act'.scanned = act.scanned
        BY <1>1, <2>3, WithoutKeeps, Zenon DEF Retires
      <3> QED
        BY <1>1, <1>2, <2>1, <3>1, CursorStays
    <2> QED
      BY <1>14, <2>2, <2>3, Zenon DEF FinishOutdated
  <1>7. ASSUME NEW b \in Block, TailCompleted(b) PROVE IInv'
    <2> DEFINE n == Max({act.scanned, b})
               c == MarkProgress(cur, b + 1)
    <2>1. b \in Nat /\ b + 1 \in Nat
      BY Bounds DEF Block
    <2>2. n \in Nat /\ n >= act.scanned /\ n >= b
      BY <1>1, <2>1, NatOfTwo, Zenon
    <2>3. c \in Cursor /\ c.tok = cur.tok /\ c.from = b + 1
      BY <1>1, <2>1, Positions, Zenon
    <2>4. /\ act' = [act EXCEPT !.scanned = n] /\ cur' = RefreshTarget(c, head) /\ io' = io
          /\ cur # NoCursor
      BY <1>7, Zenon DEF TailCompleted, IInv
    <2> HIDE DEF n, c
    <2>5. /\ act' \in WalletState /\ act'.scanned = n /\ act'.jobs = act.jobs
          /\ act'.id = act.id /\ act'.alive = act.alive
      BY <1>1, <2>2, <2>4, Zenon DEF WalletState
    <2>6. cur' \in Cursor /\ cur'.tok = cur.tok /\ cur'.from = b + 1
      BY <1>1, <2>3, <2>4, Refreshed, Zenon
    <2> QED
      BY <1>1, <1>2, <2>1, <2>2, <2>4, <2>5, <2>6, CursorStays
  <1>8. CASE DeliverPending /\ cur' # NoCursor
    <2> DEFINE c == RetryAfterApply(cur, act.scanned)
    <2>1. c \in Cursor /\ c.tok = cur.tok /\ c.from <= act.scanned + 1
      BY <1>1, Positions, Zenon
    <2>2. cur # NoCursor /\ cur' = Defer(c) /\ io' = NoIO /\ Retires(cur.tok)
      BY <1>4, <1>8, Zenon DEF DeliverPending, Delivered
    <2> HIDE DEF c
    <2>3. cur' \in Cursor /\ cur'.tok = cur.tok /\ cur'.from <= act.scanned + 1
      BY <1>1, <2>1, <2>2, Positions, Zenon
    <2>4. /\ act' \in WalletState /\ act'.jobs = act.jobs \ {cur.tok} /\ act'.id = act.id
          /\ act'.alive = act.alive /\ act'.scanned = act.scanned
      BY <1>1, <2>2, WithoutKeeps, Zenon DEF Retires
    <2> QED
      BY <1>1, <1>2, <2>2, <2>3, <2>4, Blank, CursorStays
  <1>9. CASE DeliverCovered
    <2> DEFINE c == MarkProgress(cur, act.scanned + 1)
    <2>0. act.scanned + 1 \in Nat
      BY <1>1
    <2>1. c \in Cursor /\ c.tok = cur.tok /\ c.from = act.scanned + 1
      BY <1>1, <2>0, Positions, Zenon
    <2>2. cur # NoCursor /\ cur' = RefreshTarget(c, head) /\ io' = NoIO /\ UNCHANGED act
      BY <1>4, <1>9, Zenon DEF DeliverCovered, Delivered, Admitted, LoopOnly
    <2> HIDE DEF c
    <2>3. cur' \in Cursor /\ cur'.tok = cur.tok /\ cur'.from = act.scanned + 1
      BY <1>1, <2>1, <2>2, Refreshed, Zenon
    <2>4. cur'.from <= act.scanned + 1
      BY <2>0, <2>3
    <2> QED
      BY <1>3, <2>2, <2>3, <2>4, Blank, Zenon
  <1>10. CASE DeliverGap
    <2>1. /\ cur # NoCursor /\ cur' = MarkProgress(cur, act.scanned + 1) /\ io' = NoIO
          /\ UNCHANGED act
      BY <1>4, <1>10, Zenon DEF DeliverGap, Delivered, Admitted, LoopOnly
    <2>2. act.scanned + 1 \in Nat
      BY <1>1
    <2>3. cur' \in Cursor /\ cur'.tok = cur.tok /\ cur'.from = act.scanned + 1
      BY <1>1, <2>1, <2>2, Positions, Zenon
    <2>4. cur'.from <= act.scanned + 1
      BY <2>2, <2>3
    <2> QED
      BY <1>3, <2>1, <2>3, <2>4, Blank, Zenon
  <1>11. CASE DeliverStale
    <2>1. cur # NoCursor /\ cur' = RestoreAcquisition(cur) /\ io' = NoIO /\ UNCHANGED act
      BY <1>4, <1>11, Zenon DEF DeliverStale, Delivered, Contiguous, Admitted, LoopOnly
    <2> QED
      BY <1>1, <1>3, <2>1, Blank, Acquisitions, Zenon
  <1>12. CASE DeliverFails
    <2> DEFINE c == RetryAfterApply(cur, act.scanned)
    <2>1. c \in Cursor /\ c.tok = cur.tok /\ c.from <= act.scanned + 1
      BY <1>1, Positions, Zenon
    <2>2. cur # NoCursor /\ cur' \in {cur, Defer(c)} /\ io' = NoIO /\ UNCHANGED act
      BY <1>4, <1>12, Zenon DEF DeliverFails, Delivered, Contiguous, Admitted
    <2> HIDE DEF c
    <2>3. Defer(c) \in Cursor /\ Defer(c).tok = c.tok /\ Defer(c).from = c.from
      BY <1>1, <2>1, Positions, Zenon
    <2> QED
      BY <1>1, <1>3, <2>1, <2>2, <2>3, Blank, Zenon
  <1>13. CASE DeliverCommitted
    <2> DEFINE n == io.to
               c == MarkProgress(cur, n + 1)
    <2>1. n \in Nat /\ n >= act.scanned
      BY <1>1, <1>13 DEF DeliverCommitted, Contiguous
    <2>2. c \in Cursor /\ c.tok = cur.tok /\ c.from = n + 1
      <3>1. n + 1 \in Nat
        BY <2>1
      <3> QED
        BY <1>1, <3>1, Positions, Zenon
    <2>3. /\ act' = [act EXCEPT !.scanned = n] /\ cur' = RefreshTarget(c, head) /\ io' = NoIO
          /\ cur # NoCursor
      BY <1>4, <1>13, Zenon DEF DeliverCommitted, Delivered, Contiguous, Admitted
    <2> HIDE DEF n, c
    <2>4. /\ act' \in WalletState /\ act'.scanned = n /\ act'.jobs = act.jobs
          /\ act'.id = act.id /\ act'.alive = act.alive
      BY <1>1, <2>1, <2>3, Zenon DEF WalletState
    <2>5. cur' \in Cursor /\ cur'.tok = cur.tok /\ cur'.from = n + 1
      BY <1>1, <2>2, <2>3, Refreshed, Zenon
    <2> QED
      BY <1>1, <1>2, <2>1, <2>3, <2>4, <2>5, Blank, CursorStays
  <1> QED
    BY <1>5, <1>6, <1>7, <1>8, <1>9, <1>10, <1>11, <1>12, <1>13, <1>14, Zenon DEF Answered

\* What happens beside the loop without a request.
LEMMA EnvironmentKeeps ==
    ASSUME IInv,
           \/ (\E from \in Block : ResetWallet(from)) \/ OtherDelivery \/ Shutdown \/ RetireWallet
           \/ CallerGone \/ (\E key \in Keys : RegisterWallet(key)) \/ HeadMoves \/ Invalidate
           \/ (\E b \in Block : CacheGrows(b) \/ CacheLoses(b)) \/ UNCHANGED vars
    PROVE  IInv'
  <1>1. act \in WalletState /\ act.scanned \in Nat /\ act.id \in Nat /\ head \in Nat /\ epoch \in Nat
    BY Zenon DEF IInv, Typed, WalletState
  <1>2. UNCHANGED <<cur, pc, io, held, queue, jobNo>>
    BY Zenon DEF ResetWallet, OtherDelivery, Shutdown, RetireWallet, CallerGone, RegisterWallet,
       HeadMoves, Invalidate, CacheGrows, CacheLoses, vars
  <1>3. head' \in Nat /\ epoch' \in Nat
    <2>1. head' \in {head, head + 1} /\ epoch' \in {epoch, epoch + 1}
      BY Zenon DEF ResetWallet, OtherDelivery, Shutdown, RetireWallet, CallerGone, RegisterWallet, HeadMoves,
         Invalidate, CacheGrows, CacheLoses, vars
    <2> QED
      BY <1>1, <2>1
  <1>4. ASSUME NEW from \in Block, ResetWallet(from) PROVE IInv'
    <2> DEFINE n == Min({act.scanned, from - 1})
               g == act.gen + 1
    <2>1. n \in Nat
      <3>1. from - 1 \in Nat
        BY Bounds DEF Block
      <3> QED
        BY <1>1, <3>1, NatOfTwo, Zenon
    <2>2. g \in Nat
      BY <1>1 DEF WalletState
    <2>3. act' = [act EXCEPT !.gen = g, !.scanned = n, !.jobs = {}, !.pending = TRUE]
      BY <1>4, Zenon DEF ResetWallet
    <2> HIDE DEF n, g
    <2>4. {} \in SUBSET JobToken /\ TRUE \in BOOLEAN
      BY Zenon
    <2>5. act' \in WalletState /\ act'.jobs = {}
      BY <1>1, <2>1, <2>2, <2>3, <2>4, Zenon DEF WalletState
    <2> QED
      BY <1>2, <1>3, <2>5, BesideKeeps, Zenon
  <1>5. CASE OtherDelivery
    <2> DEFINE n == act.scanned + 1
    <2>1. n \in Nat /\ n >= act.scanned /\ act' = [act EXCEPT !.scanned = n]
      BY <1>1, <1>5 DEF OtherDelivery
    <2> HIDE DEF n
    <2>2. /\ act' \in WalletState /\ act'.scanned = n /\ act'.jobs = act.jobs
          /\ act'.id = act.id /\ act'.alive = act.alive
      BY <1>1, <2>1, Zenon DEF WalletState
    <2> QED
      BY <1>2, <1>3, <2>1, <2>2, BesideKeeps, Zenon
  <1>6. CASE Shutdown \/ RetireWallet
    <2>1. act' = [act EXCEPT !.alive = FALSE]
      BY <1>6, Zenon DEF Shutdown, RetireWallet
    <2>2. /\ act' \in WalletState /\ act'.scanned = act.scanned /\ act'.jobs = act.jobs
          /\ act'.id = act.id /\ ~act'.alive
      BY <1>1, <2>1, Zenon DEF WalletState
    <2> QED
      BY <1>1, <1>2, <1>3, <2>2, BesideKeeps
  <1>7. ASSUME NEW key \in Keys, RegisterWallet(key) PROVE IInv'
    <2> DEFINE n == act.id + 1
               s == IF key = act.key THEN act.scanned ELSE 0
    <2>1. n \in Nat /\ s \in Nat /\ key \in Nat /\ act' = NewActor(n, key, s)
      BY <1>1, <1>7, Bounds DEF RegisterWallet
    <2> HIDE DEF n, s
    <2>2. act' \in WalletState /\ act'.jobs = {}
      BY <1>1, <2>1, Zenon DEF WalletState, NewActor
    <2> QED
      BY <1>2, <1>3, <2>2, BesideKeeps, Zenon
  <1>8. CASE UNCHANGED act
    BY <1>1, <1>2, <1>3, <1>8, BesideKeeps
  <1>9. \/ (\E from \in Block : ResetWallet(from)) \/ OtherDelivery \/ Shutdown \/ RetireWallet
        \/ (\E key \in Keys : RegisterWallet(key)) \/ UNCHANGED act
    BY Zenon DEF CallerGone, HeadMoves, Invalidate, CacheGrows, CacheLoses, vars
  <1> QED
    BY <1>4, <1>5, <1>6, <1>7, <1>8, <1>9, Zenon

-----------------------------------------------------------------------------
LEMMA BackfillInit == Init => IInv
  <1> SUFFICES ASSUME Init PROVE IInv
    BY Zenon
  <1>1. PICK u \in Starts :
          /\ head = u.head /\ epoch = u.epoch /\ act = NewActor(u.actor, u.key, 0) /\ held = {}
          /\ queue = <<>> /\ cur = NoCursor /\ pc = "top" /\ io = NoIO /\ jobNo = u.job
    BY Zenon DEF Init
  <1>2. head \in Nat /\ epoch \in Nat /\ jobNo \in Nat /\ u.actor \in Nat /\ u.key \in Nat
    BY <1>1, Bounds, Zenon
  <1>3. act \in WalletState /\ act.jobs = {}
    BY <1>1, <1>2, Zenon DEF NewActor, WalletState
  <1>4. Requests = {} /\ queue \in Seq(Request)
    BY <1>1 DEF Requests, ToSet
  <1>5. Typed
    BY <1>1, <1>2, <1>3, <1>4, Blank, Zenon DEF Typed
  <1> QED
    BY <1>1, <1>3, <1>4, <1>5, Zenon DEF IInv, RequestsBehind

LEMMA BackfillNext == IInv /\ [Next]_vars => IInv'
  <1> SUFFICES ASSUME IInv, [Next]_vars PROVE IInv'
    BY Zenon
  <1>1. CASE Loop
    BY <1>1, TakeKeeps, TurnKeeps, AnswerKeeps, Zenon DEF Loop
  <1>2. CASE Environment
    <2>1. ASSUME NEW from \in Block, NEW follow \in BOOLEAN, NEW acqTo \in 0..MaxBlock,
                 Enqueue(from, follow, acqTo)
          PROVE  IInv'
      BY <2>1, EnqueueKeeps, Zenon
    <2>2. ASSUME NEW r \in held, Post(r) PROVE IInv'
      BY <2>2, PostKeeps, Zenon
    <2>3. ASSUME NEW settled \in BOOLEAN, AdmitReplay(settled) PROVE IInv'
      BY <2>3, AdmitKeeps, Zenon
    <2>4. CASE SendRemoval
      BY <2>4, RemovalKeeps, Zenon
    <2> QED
      BY <1>2, <2>1, <2>2, <2>3, <2>4, EnvironmentKeeps, Zenon DEF Environment
  <1>3. CASE Exit
    BY <1>3, ExitKeeps, Zenon
  <1>4. CASE Waits \/ UNCHANGED vars
    BY <1>4, EnvironmentKeeps, Zenon DEF Waits
  <1> QED
    BY <1>1, <1>2, <1>3, <1>4, Zenon DEF Next

LEMMA BackfillInvariant == Spec => []IInv
  BY BackfillInit, BackfillNext, PTL DEF Spec

-----------------------------------------------------------------------------
\* Every job the wallet's actor counts as active has a driver, whatever requests
\* are refused, superseded or find the queue full (apply_backfill_request,
\* enqueue_wallet_backfill, retire_backfill_loop_state).
THEOREM BackfillJobsAreDriven == Spec => []JobsAreDriven
  <1>1. IInv => JobsAreDriven
    <2> SUFFICES ASSUME IInv, act.alive, NEW tok \in act.jobs
                 PROVE  tok \in DrivenByLoop \cup {r.cursor.tok : r \in held}
      BY Zenon DEF JobsAreDriven
    <2>1. DriverOf(tok)
      BY Zenon DEF IInv
    <2> QED
      BY <2>1, Zenon DEF DriverOf, DrivenByLoop, Requests
  <1> QED
    BY <1>1, BackfillInvariant, PTL

\* The cursor of a live job is never ahead of its wallet's checkpoint, so no block
\* is skipped (run_backfill_loop, WalletBackfill::retry_after_finish).
THEOREM BackfillCursorBehind == Spec => []CursorBehindWallet
  <1>1. IInv => CursorBehindWallet
    BY Zenon DEF IInv, Behind, CursorBehindWallet
  <1> QED
    BY <1>1, BackfillInvariant, PTL
=============================================================================
