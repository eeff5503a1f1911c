--------------------------- MODULE PublicScanCache ---------------------------
(***************************************************************************)
(* The chain's public scan cache (chain/data_plane.rs): which block ranges *)
(* were scanned under the current epoch (coverage) and a bounded number of *)
(* pages of the rows found there (recent_scan_rows).  Several tasks read   *)
(* the chain under an epoch they captured first and record what they found *)
(* later; a reorganisation or a reset invalidates the cache and moves the  *)
(* epoch on in between.  Wallets replay what the cache answers instead of  *)
(* reading the chain, so the answer must be what the chain holds.          *)
(*                                                                         *)
(* A row is the pair of its block and the version of that block: a fork    *)
(* gives every block from its first one on a version of its own.  The hash *)
(* of a block is its version too.                                          *)
(***************************************************************************)
EXTENDS Integers, FiniteSets, FiniteSetsExt, SequencesExt

CONSTANTS
  MaxBlock,     \* blocks are 1..MaxBlock
  Readers,      \* the tasks that read the chain and record what they found
  WithRows,     \* blocks that may hold rows
  PageLimit,    \* RECENT_PUBLIC_SCAN_ROW_PAGE_LIMIT
  MaxFork,      \* bound on chain forks
  MaxEpoch,     \* bound on the epoch
  MaxRead       \* bound on the reads begun

VARIABLES
  chain,     \* per block: its version and whether it holds rows
  forked,    \* first block of a fork that was not detected yet, MaxBlock + 1 for none
  epoch,     \* epoch
  cov,       \* coverage.records
  pages,     \* recent_scan_rows
  rd,        \* per reader, the read in progress
  reads      \* reads begun so far

vars == <<chain, forked, epoch, cov, pages, rd, reads>>

Block == 1..MaxBlock
NoHash == -1
NoRange == [from |-> 0, to |-> 0]
Idle == [stage |-> "idle", from |-> 0, to |-> 0, epoch |-> 0, acq |-> NoRange,
         applies |-> <<>>, left |-> <<>>, right |-> <<>>]

-----------------------------------------------------------------------------
(* The two stores.  st is a transaction_snapshot: [cov, pages].             *)

\* PublicScanRange::intersects.
Meets(a, b) == a.from <= b.to /\ b.from <= a.to
Cut(rows, from, to) == {r \in rows : r[1] \in from..to}

\* PublicCoverageStore::insert_canonical: the new record replaces what it meets;
\* a left remainder loses its endpoint hash, a right one keeps it.
LeftOf(e, from) == [e EXCEPT !.to = from - 1, !.hash = NoHash]
RightOf(e, to) == [e EXCEPT !.from = to + 1]
InsertCoverage(cs, new) ==
  LET live == {e \in cs : e.epoch = new.epoch}
      hit == {e \in live : Meets(e, new)}
  IN (live \ hit) \cup {new}
     \cup {LeftOf(e, new.from) : e \in {e \in hit : e.from < new.from}}
     \cup {RightOf(e, new.to) : e \in {e \in hit : e.to > new.to}}

\* mark_range_empty, for every remainder of a page that holds no row any more.
MarkEmpty(cs, ranges) ==
  {IF \E r \in ranges : r.from = c.from /\ r.to = c.to /\ r.epoch = c.epoch
   THEN [c EXCEPT !.has = FALSE] ELSE c : c \in cs}

\* The eviction loop: the pages with the lowest endpoints go first, protected
\* ones never.
Evict(ps, protected) ==
  LET free == {p \in ps : \A q \in protected : ~Meets(p, q)}
      excess == Cardinality(ps) - PageLimit
  IN {p \in ps : p \in free => Cardinality({q \in free : q.to < p.to}) >= excess}

\* insert_recent_scan_rows_with_protection.
PageLeft(p, from) ==
  [p EXCEPT !.to = from - 1, !.rows = Cut(@, p.from, from - 1), !.hash = NoHash]
PageRight(p, to) == [p EXCEPT !.from = to + 1, !.rows = Cut(@, to + 1, p.to)]
InsertPage(st, new, protected) ==
  LET live == {p \in st.pages : p.epoch = new.epoch}
      hit == {p \in live : Meets(p, new)}
      rest == {PageLeft(p, new.from) : p \in {p \in hit : p.from < new.from}}
              \cup {PageRight(p, new.to) : p \in {p \in hit : p.to > new.to}}
      kept == (live \ hit) \cup {p \in rest : p.rows # {}}
      all == IF new.rows = {} THEN kept ELSE kept \cup {new}
  IN [cov |-> MarkEmpty(st.cov, {p \in rest : p.rows = {}}), pages |-> Evict(all, protected)]

\* stage_public_scan_rows.
StageRows(st, a, protected) ==
  LET record == [from |-> a.from, to |-> a.to, has |-> a.rows # {}, hash |-> a.hash,
                 epoch |-> a.epoch]
      page == [from |-> a.from, to |-> a.to, rows |-> a.rows, hash |-> a.hash, epoch |-> a.epoch]
  IN InsertPage([st EXCEPT !.cov = InsertCoverage(@, record)], page, protected)

\* stage_wallet_scan_apply after its checks; EmptyCoverage adds no page.
StageApply(st, a, protected) ==
  IF a.kind = "rows" THEN StageRows(st, a, protected)
  ELSE [st EXCEPT !.cov = InsertCoverage(@, [from |-> a.from, to |-> a.to, has |-> FALSE,
                                             hash |-> a.hash, epoch |-> a.epoch])]

-----------------------------------------------------------------------------
(* Answers of the cache.                                                    *)

NoApply == [from |-> 0, to |-> 0, kind |-> "none", rows |-> {}, hash |-> NoHash,
            src |-> "none", epoch |-> 0]

\* empty_coverage_prefix_for_range: the leading blocks known to hold no row.
EmptyPrefix(st, from, to, e) ==
  {t \in from..to : \A b \in from..t : \E c \in st.cov :
                       c.epoch = e /\ ~c.has /\ b \in c.from..c.to}

KeepsPageHash(st, from, to, e) ==
  LET hit == {p \in st.pages : p.epoch = e /\ from \in p.from..p.to}
      prefix == EmptyPrefix(st, from, to, e)
  IN IF hit # {}
     THEN LET p == CHOOSE p \in hit : TRUE
              t == Min({p.to, to})
          IN [from |-> from, to |-> t, kind |-> "rows", rows |-> Cut(p.rows, from, t),
              hash |-> p.hash, src |-> "cached", epoch |-> e]
     ELSE IF prefix # {}
     THEN LET t == Max(prefix)
              c == CHOOSE c \in st.cov : c.epoch = e /\ ~c.has /\ t \in c.from..c.to
          IN [from |-> from, to |-> t, kind |-> "empty", rows |-> {},
              hash |-> IF t = c.to THEN c.hash ELSE NoHash, src |-> "cached", epoch |-> e]
     ELSE NoApply

\* cached_wallet_scan_apply: a page that holds the first block, or else the
\* empty prefix; the endpoint hash survives only at the record's own endpoint.
CachedApply(st, from, to, e) ==
  LET hit == {p \in st.pages : p.epoch = e /\ from \in p.from..p.to}
      prefix == EmptyPrefix(st, from, to, e)
  IN IF hit # {}
     THEN LET p == CHOOSE p \in hit : TRUE
              t == Min({p.to, to})
          IN [from |-> from, to |-> t, kind |-> "rows", rows |-> Cut(p.rows, from, t),
              hash |-> IF t < p.to THEN NoHash ELSE p.hash, src |-> "cached", epoch |-> e]
     ELSE IF prefix # {}
     THEN LET t == Max(prefix)
              c == CHOOSE c \in st.cov : c.epoch = e /\ ~c.has /\ t \in c.from..c.to
          IN [from |-> from, to |-> t, kind |-> "empty", rows |-> {},
              hash |-> IF t = c.to THEN c.hash ELSE NoHash, src |-> "cached", epoch |-> e]
     ELSE NoApply

\* The blocks of empty records and of pages: what can be replayed.
AllCovered(st, e) ==
  UNION ({c.from..c.to : c \in {c \in st.cov : c.epoch = e}}
         \cup {p.from..p.to : p \in {p \in st.pages : p.epoch = e}})
Replayable(st, e) ==
  UNION ({c.from..c.to : c \in {c \in st.cov : c.epoch = e /\ ~c.has}}
         \cup {p.from..p.to : p \in {p \in st.pages : p.epoch = e}})

\* cached_wallet_scan_suffix: applies for the run of replayable blocks that ends
\* at the last block asked for; << >> for None.
SuffixStart(st, from, to, e) ==
  LET starts == {s \in from..to : s..to \subseteq Replayable(st, e)}
  IN IF starts = {} THEN 0 ELSE Min(starts)
CachedSuffix(st, from, to, e) ==
  LET tail[f \in 1..MaxBlock + 1] ==
        LET a == CachedApply(st, f, to, e)
        IN IF f > to THEN <<>>
           ELSE IF a = NoApply THEN <<NoApply>>
           ELSE <<a>> \o tail[a.to + 1]
      start == SuffixStart(st, from, to, e)
      applies == IF start = 0 THEN <<>> ELSE tail[start]
  IN IF NoApply \in ToSet(applies) THEN <<>> ELSE applies

\* cached_wallet_scan_exact and wallet_scan_applies_exactly_cover.
IsExact(applies, from, to) ==
  /\ applies # <<>>
  /\ applies[1].from = from /\ applies[Len(applies)].to = to
  /\ \A i \in 1..Len(applies) - 1 : applies[i + 1].from = applies[i].to + 1
CachedExact(st, from, to, e) ==
  LET applies == CachedSuffix(st, from, to, e)
  IN IF IsExact(applies, from, to) THEN applies ELSE <<>>
ExactlyCached(st, range, e) == CachedExact(st, range.from, range.to, e) # <<>>

-----------------------------------------------------------------------------
(* Recording.                                                               *)

Cache == [cov |-> cov, pages |-> pages]
Installs(st) == cov' = st.cov /\ pages' = st.pages

\* validate_public_scan_read_locked and validate_reusable_rpc_coverage.
Admissible(a) == a.epoch = epoch /\ (a.src = "rpc" => a.hash # NoHash)

\* compact_completed_wallet_scan_acquisition: neighbouring applies of one source
\* become one run.
Compact(applies) ==
  FoldLeft(LAMBDA runs, a :
             IF runs # <<>> /\ runs[Len(runs)].src = a.src
             THEN [runs EXCEPT ![Len(runs)] =
                     [@ EXCEPT !.to = a.to, !.hash = a.hash, !.rows = @ \cup a.rows]]
             ELSE Append(runs, [a EXCEPT !.kind = "rows"]),
           <<>>, applies)
Compactable(range, applies) ==
  /\ IsExact(applies, range.from, range.to)
  /\ \A i \in 1..Len(applies) : Admissible(applies[i])
RowPages(runs) == Cardinality({i \in 1..Len(runs) : runs[i].rows # {}})

\* stage_compacted_wallet_scan_acquisition.
StageRuns(st, runs, range) == FoldLeft(LAMBDA s, a : StageRows(s, a, {range}), st, runs)

\* The trial of record_public_scan_apply_with_acquisition: the apply alone makes
\* the acquisition replayable, or the compacted acquisition does.
Retains(st, range) == ExactlyCached(st, range, epoch) /\ Cardinality(st.pages) <= PageLimit
Trial(a, range, applies) ==
  LET plain == StageApply(Cache, a, {range})
  IN IF Retains(plain, range) THEN plain
     ELSE IF Compactable(range, applies) /\ RowPages(Compact(applies)) <= PageLimit
     THEN StageRuns(plain, Compact(applies), range)
     ELSE plain

-----------------------------------------------------------------------------
(* Actions.                                                                 *)

Init ==
  /\ \E with \in SUBSET WithRows : chain = [b \in Block |-> [ver |-> 0, has |-> b \in with]]
  /\ forked = MaxBlock + 1 /\ epoch = 0
  /\ cov = {} /\ pages = {} /\ rd = [r \in Readers |-> Idle] /\ reads = 0

Now(r, stage) == rd' = [rd EXCEPT ![r].stage = stage]
Ends(r) == rd' = [rd EXCEPT ![r] = Idle]

\* begin_public_scan_read: the scope is captured before the first request.
BeginRead(r, from, to) ==
  /\ rd[r].stage = "idle" /\ reads < MaxRead
  /\ rd' = [rd EXCEPT ![r] = [Idle EXCEPT !.stage = "reading", !.from = from, !.to = to,
                                          !.epoch = epoch]]
  /\ reads' = reads + 1
  /\ UNCHANGED <<chain, forked, epoch, cov, pages>>

ChainRows(from, to) == {<<b, chain[b].ver>> : b \in {b \in from..to : chain[b].has}}

\* The rows of the range are fetched in one or two pages, without a hash yet;
\* rows of an index never have one.
FetchRows(r, src, mid) ==
  LET piece(from, to) == [from |-> from, to |-> to, kind |-> "rows", rows |-> ChainRows(from, to),
                          hash |-> NoHash, src |-> src, epoch |-> rd[r].epoch]
  IN /\ rd[r].stage = "reading"
     /\ mid \in rd[r].from..rd[r].to
     /\ rd' = [rd EXCEPT ![r].stage = IF src = "rpc" THEN "rows" ELSE "held",
                         ![r].applies = IF mid = rd[r].to THEN <<piece(rd[r].from, mid)>>
                                        ELSE <<piece(rd[r].from, mid), piece(mid + 1, rd[r].to)>>]
     /\ UNCHANGED <<chain, forked, epoch, cov, pages, reads>>

\* fetch_block_hash of each endpoint, after the rows.
WithHash(a) == [a EXCEPT !.hash = chain[a.to].ver]
FetchHash(r) ==
  /\ rd[r].stage = "rows"
  /\ rd' = [rd EXCEPT ![r].stage = "held",
                      ![r].applies = [i \in DOMAIN @ |-> WithHash(@[i])]]
  /\ UNCHANGED <<chain, forked, epoch, cov, pages, reads>>

\* A suffix captured from the cache, to be restaged later.
Capture(r, from, to) ==
  /\ rd[r].stage = "idle" /\ reads < MaxRead
  /\ CachedSuffix(Cache, from, to, epoch) # <<>>
  /\ rd' = [rd EXCEPT ![r] = [Idle EXCEPT !.stage = "held", !.from = from, !.to = to,
                                !.applies = CachedSuffix(Cache, from, to, epoch)]]
  /\ reads' = reads + 1
  /\ UNCHANGED <<chain, forked, epoch, cov, pages>>

\* record_public_scan_apply for the next apply held; a refused one ends the loop.
RecordNext(r) ==
  /\ rd[r].stage = "held" /\ rd[r].applies # <<>>
  /\ IF Admissible(Head(rd[r].applies))
     THEN /\ Installs(StageApply(Cache, Head(rd[r].applies), {}))
          /\ rd' = [rd EXCEPT ![r] = IF Len(@.applies) = 1 THEN Idle
                                     ELSE [@ EXCEPT !.applies = Tail(@)]]
     ELSE Ends(r) /\ UNCHANGED <<cov, pages>>
  /\ UNCHANGED <<chain, forked, epoch, reads>>

\* wallet_scan_acquisition_candidate: the cached neighbours of a fetched page
\* within the acquisition range are read in two looks at the cache.
CandidateLeft(r, from, to) ==
  LET a == Head(rd[r].applies) IN
  /\ rd[r].stage = "held" /\ Len(rd[r].applies) = 1 /\ a.src = "rpc"
  /\ from <= a.from /\ a.to <= to
  /\ LET left == IF a.from > from THEN CachedExact(Cache, from, a.from - 1, epoch) ELSE <<>>
     IN IF a.from > from /\ left = <<>> THEN Now(r, "plain")
        ELSE rd' = [rd EXCEPT ![r].stage = "left", ![r].acq = [from |-> from, to |-> to],
                              ![r].left = left]
  /\ UNCHANGED <<chain, forked, epoch, cov, pages, reads>>

CandidateRight(r) ==
  LET a == Head(rd[r].applies)
      right == IF a.to < rd[r].acq.to THEN CachedExact(Cache, a.to + 1, rd[r].acq.to, epoch)
               ELSE <<>> IN
  /\ rd[r].stage = "left"
  /\ IF a.to < rd[r].acq.to /\ right = <<>> THEN Now(r, "plain")
     ELSE rd' = [rd EXCEPT ![r].stage = "candidate", ![r].right = right]
  /\ UNCHANGED <<chain, forked, epoch, cov, pages, reads>>

\* record_public_scan_apply_with_acquisition: the trial is installed when it
\* retains the whole acquisition, the plain staging otherwise.
RecordCandidate(r) ==
  LET a == Head(rd[r].applies)
      range == rd[r].acq
      trial == Trial(a, range, rd[r].left \o <<a>> \o rd[r].right)
      final == IF rd[r].stage = "candidate" /\ Retains(trial, range) THEN trial
               ELSE StageApply(Cache, a, {}) IN
  /\ rd[r].stage \in {"candidate", "plain"}
  /\ IF Admissible(a) THEN Installs(final) ELSE UNCHANGED <<cov, pages>>
  /\ Ends(r)
  /\ UNCHANGED <<chain, forked, epoch, reads>>

\* commit_completed_wallet_scan_acquisition: all or nothing.
CommitCompleted(r) ==
  LET range == [from |-> rd[r].from, to |-> rd[r].to]
      applies == rd[r].applies
      runs == Compact(applies)
      staged == IF ExactlyCached(Cache, range, epoch) THEN Cache ELSE StageRuns(Cache, runs, range)
  IN /\ rd[r].stage = "held" /\ IsExact(applies, range.from, range.to)
     /\ IF /\ Compactable(range, applies)
           /\ ExactlyCached(Cache, range, epoch) \/ RowPages(runs) <= PageLimit
           /\ Retains(staged, range)
        THEN Installs(staged) ELSE UNCHANGED <<cov, pages>>
     /\ Ends(r)
     /\ UNCHANGED <<chain, forked, epoch, reads>>

\* The read fails or its task is cancelled.
Abandon(r) ==
  /\ rd[r].stage # "idle" /\ Ends(r)
  /\ UNCHANGED <<chain, forked, epoch, cov, pages, reads>>

\* A fork replaces the blocks from its first one on.
Fork(from, with) ==
  LET ver == 1 + Max({chain[b].ver : b \in Block}) IN
  /\ ver <= MaxFork
  /\ chain' = [b \in Block |-> IF b < from THEN chain[b] ELSE [ver |-> ver, has |-> b \in with]]
  /\ forked' = Min({forked, from})
  /\ UNCHANGED <<epoch, cov, pages, rd, reads>>

\* PublicCoverageStore::invalidate_from.
InvalidateFrom(cs, from) ==
  {c \in cs : c.to < from}
  \cup {LeftOf(c, from) : c \in {c \in cs : c.to >= from /\ c.from < from}}

\* invalidate_public_scan_coverage_from, after the forest was reset to the block
\* before: coverage below it is carried over to the next epoch, pages are not.
Detect(from) ==
  /\ from <= forked /\ epoch < MaxEpoch
  /\ epoch' = epoch + 1 /\ pages' = {}
  /\ cov' = {[c EXCEPT !.epoch = epoch'] : c \in InvalidateFrom(cov, from)}
  /\ forked' = MaxBlock + 1
  /\ UNCHANGED <<chain, rd, reads>>

\* invalidate_public_cache_state.
ResetCache ==
  /\ epoch < MaxEpoch
  /\ epoch' = epoch + 1 /\ cov' = {} /\ pages' = {}
  /\ UNCHANGED <<chain, forked, rd, reads>>

\* All reads are done; the cache stays.
Waits == (\A r \in Readers : rd[r].stage = "idle") /\ UNCHANGED vars

Next ==
  \/ \E r \in Readers :
       \/ \E from, to \in Block : from <= to /\ (BeginRead(r, from, to) \/ Capture(r, from, to))
       \/ \E src \in {"rpc", "index"}, mid \in Block : FetchRows(r, src, mid)
       \/ \E from, to \in Block : CandidateLeft(r, from, to)
       \/ FetchHash(r) \/ RecordNext(r) \/ CandidateRight(r) \/ RecordCandidate(r)
       \/ CommitCompleted(r) \/ Abandon(r)
  \/ \E from \in Block, with \in SUBSET WithRows : Fork(from, with)
  \/ \E from \in Block : Detect(from)
  \/ ResetCache \/ Waits

Spec == Init /\ [][Next]_vars

-----------------------------------------------------------------------------
(* Properties.                                                              *)

Truth(from, to) == ChainRows(from, to)
Settled == {b \in Block : b < forked}

\* Records and pages have sensible ranges, carry the current epoch
\* (validate_public_scan_read_locked, restamp_epoch) and no page is empty.
TypeOK ==
  /\ epoch \in 0..MaxEpoch /\ forked \in 1..MaxBlock + 1
  /\ \A c \in cov : c.from \in Block /\ c.to \in c.from..MaxBlock /\ c.has \in BOOLEAN
                    /\ c.hash \in {NoHash} \cup 0..MaxFork /\ c.epoch = epoch
  /\ \A p \in pages : p.from \in Block /\ p.to \in p.from..MaxBlock /\ p.rows # {}
                      /\ p.hash \in {NoHash} \cup 0..MaxFork /\ p.epoch = epoch

\* What cached_wallet_scan_apply hands to a wallet for any range is what the
\* chain holds there, up to forks nobody detected yet; an endpoint hash is the
\* hash of the very endpoint.  A range that the records call empty
\* (cached_public_scan_coverage) holds no rows, and no block has two records.
ReplayIsTruth ==
  /\ \A from \in Block : \A to \in from..MaxBlock :
       LET a == CachedApply(Cache, from, to, epoch)
       IN a = NoApply \/
          /\ a.from = from /\ a.to \in from..to
          /\ {x \in a.rows : x[1] \in Settled} = {x \in Truth(from, a.to) : x[1] \in Settled}
          /\ (a.hash # NoHash /\ a.to \in Settled) => a.hash = chain[a.to].ver
  /\ \A c \in cov :
       /\ ~c.has => \A b \in c.from..c.to : b \in Settled => ~chain[b].has
       /\ \A d \in cov : Meets(c, d) => c = d

\* The replayable suffix that cached_wallet_scan_suffix finds is always delivered
\* whole: merging coverage and pages never promises a block that neither serves.
\* Meanwhile pages stay within the limit and disjoint, whatever is protected.
SuffixIsServed ==
  /\ \A from \in Block : \A to \in from..MaxBlock :
       to \in Replayable(Cache, epoch) =>
         LET s == CachedSuffix(Cache, from, to, epoch)
         IN IsExact(s, SuffixStart(Cache, from, to, epoch), to)
  /\ Cardinality(pages) <= PageLimit
  /\ \A p, q \in pages : Meets(p, q) => p = q
  /\ \A p \in pages : \A b \in p.from..p.to : \E c \in cov : b \in c.from..c.to

=============================================================================
