--------------------------- MODULE PoiCacheProofs ---------------------------
(***************************************************************************)
(* Proofs about the POI cache coordinator: a held reset finds it quiet,    *)
(* the anchor is the head of the corpus that is served, and no corpus ever *)
(* loses events, for any sets of callers and resets and any number of      *)
(* events, failures and compactions.                                       *)
(***************************************************************************)
EXTENDS PoiCache, TLAPS

Corpora == [ev : Nat, bl : Nat]
JournalHead == [rev : Nat, ev : Nat, bl : Nat, len : Nat, att : BOOLEAN]
Attempts == [scope : SUBSET Kinds, retry : Retriers \cup {NoOne},
             at : {"none", "load", "ready", "lock", "fetch"}, seen : JournalHead,
             base : JournalHead, from : Corpora, use : BOOLEAN, after : BOOLEAN,
             rpc : {"none", "failed", "fallback"}]
Batches == [scope : SUBSET Kinds, retry : Retriers \cup {NoOne}, ok : BOOLEAN,
            rpc : {"none", "failed", "fallback", "ok", "large"}, art : BOOLEAN,
            cand : {"none", "rpc", "artifact"}, corpus : Corpora,
            base : JournalHead, staged : JournalHead]
Lanes == [pending : Nat, base : Nat, at : {"none", "new", "queued", "writing", "done"},
          head : JournalHead]
Commands == [what : {"retry"}, who : Retriers] \cup [what : {"quiesce"}, who : Resets]
FenceUsers == Resets \cup {"job", "attempt", "compact", "orphan", "other"}

Typed ==
    /\ disk \in JournalHead /\ anchor \in JournalHead /\ preloaded \in JournalHead
    /\ installed \in Corpora /\ source \in [ev : Nat, art : Nat]
    /\ active \in Attempts /\ batch \in Batches /\ lane \in Lanes /\ orphan \in Nat
    /\ queue \in Seq(Commands) /\ line \in Seq(FenceUsers)
    /\ DOMAIN permit = Resets
    /\ gate = [w |-> gate.w, rd |-> gate.rd, line |-> gate.line]

\* The gate belongs to a reset from the moment it is closed, the fence while the
\* permit is held; a compaction writes under the fence even when it was dropped.
GateInv ==
    /\ \A r \in Resets :
          permit[r] \in {"send", "quiesce", "quiesced", "fence", "held"} => gate.w = r
    /\ \A r \in Resets : permit[r] = "held" => Holds(r)
    /\ lane.at = "writing" => Holds("compact")
    /\ orphan # 0 => Holds("orphan")

\* Where the coordinator is, and that it does nothing once it was quiesced.
TaskInv ==
    /\ ~handle => pc \in {"none", "stopped"}
    /\ pc \in {"none", "load", "first", "stopped"} => lane = Idle
    /\ pc # "loop" => active = NoAttempt
    /\ pc \notin {"commit", "apply"} => batch = NoBatch
    /\ pc = "commit" => batch.cand # "none"
    /\ \A r \in Resets :
          permit[r] \in {"quiesced", "fence", "held"} =>
              active = NoAttempt /\ pc \notin {"commit", "apply"} /\ lane = Idle

\* A head that is not behind the journal's revision is the journal's head.
Agrees(h) == (h.rev = disk.rev => h = disk) /\ h.ev <= disk.ev

HeadInv ==
    /\ disk.rev = 0 => disk = NoHead
    /\ source.art <= source.ev /\ disk.ev <= source.ev
    /\ Corpus(anchor) = installed
    /\ Agrees(anchor) /\ Agrees(preloaded) /\ Agrees(active.base) /\ Agrees(active.seen)
    /\ Agrees(batch.base) /\ Agrees(batch.staged) /\ Agrees(lane.head)
    /\ active.at = "load" => Corpus(active.seen) = installed
    /\ active.at \in {"ready", "lock", "fetch"} => active.from = Corpus(active.base)
    /\ batch.cand # "none" => batch.corpus.ev <= source.ev
    /\ batch.cand = "rpc" => batch.base.ev <= batch.corpus.ev
    /\ batch.staged.rev # 0 => batch.staged.rev # lane.base
    /\ lane.head.rev # 0 => lane.at = "done" /\ (anchor.rev = lane.base =>
                                                  Corpus(anchor) = Corpus(lane.head))

IInv == Typed /\ GateInv /\ TaskInv /\ HeadInv

-----------------------------------------------------------------------------
(* Records, the fence's line and new revisions.                             *)

LEMMA Blank ==
    /\ NoHead \in JournalHead /\ Empty \in Corpora /\ NoAttempt \in Attempts
    /\ NoBatch \in Batches /\ Idle \in Lanes
  <1>1. NoHead \in JournalHead /\ Empty \in Corpora /\ {} \in SUBSET Kinds
    BY Zenon DEF NoHead, JournalHead, Empty, Corpora
  <1>2. TRUE \in BOOLEAN /\ FALSE \in BOOLEAN /\ NoOne \in Retriers \cup {NoOne} /\ 0 \in Nat
    BY Zenon
  <1> QED
    BY <1>1, <1>2, Zenon DEF NoAttempt, Attempts, NoBatch, Batches, Idle, Lanes

LEMMA Fields ==
    ASSUME Typed
    PROVE  /\ disk.rev \in Nat /\ disk.ev \in Nat /\ disk.bl \in Nat /\ disk.len \in Nat
           /\ disk.att \in BOOLEAN /\ anchor.ev \in Nat /\ installed.ev \in Nat
           /\ source.ev \in Nat /\ source.art \in Nat
           /\ active.base \in JournalHead /\ active.from \in Corpora /\ active.scope \in SUBSET Kinds
           /\ active.retry \in Retriers \cup {NoOne}
           /\ active.rpc \in {"none", "failed", "fallback"}
           /\ active.from.ev \in Nat /\ active.from.bl \in Nat /\ active.base.ev \in Nat
           /\ batch.staged \in JournalHead /\ batch.base \in JournalHead /\ batch.corpus \in Corpora
           /\ batch.corpus.ev \in Nat /\ batch.corpus.bl \in Nat /\ batch.base.ev \in Nat
           /\ batch.staged.ev \in Nat /\ batch.staged.rev \in Nat
           /\ lane.head \in JournalHead /\ lane.base \in Nat /\ lane.pending \in Nat
           /\ lane.head.rev \in Nat
  BY Zenon DEF Typed, JournalHead, Corpora, Attempts, Batches, Lanes

\* The journal's head agrees with itself.
LEMMA OwnHead ==
    ASSUME Typed
    PROVE  Agrees(disk)
  <1>1. \A n \in Nat : n <= n
    OBVIOUS
  <1> QED
    BY <1>1, Fields, Zenon DEF Agrees

\* The corpus of a head.
LEMMA Read ==
    ASSUME NEW h \in JournalHead
    PROVE  Corpus(h) \in Corpora /\ Corpus(h).ev = h.ev /\ Corpus(h).bl = h.bl
  BY Zenon DEF JournalHead, Corpora, Corpus

\* Joining the line and leaving it never disturb its holder.
LEMMA Line ==
    ASSUME NEW s \in Seq(FenceUsers)
    PROVE  /\ s # <<>> => Head(s) \in FenceUsers /\ Tail(s) \in Seq(FenceUsers)
           /\ \A x \in FenceUsers :
                /\ Append(s, x) \in Seq(FenceUsers) /\ Append(s, x) # <<>>
                /\ s # <<>> => Head(Append(s, x)) = Head(s)
                /\ s = <<>> => Head(Append(s, x)) = x
           /\ \A x :
                /\ Without(s, x) \in Seq(FenceUsers)
                /\ s # <<>> /\ Head(s) # x =>
                     Without(s, x) # <<>> /\ Head(Without(s, x)) = Head(s)
           /\ s # <<>> => /\ <<"orphan">> \o Tail(s) \in Seq(FenceUsers)
                          /\ <<"orphan">> \o Tail(s) # <<>>
                          /\ Head(<<"orphan">> \o Tail(s)) = "orphan"
  <1>1. s # <<>> => Head(s) \in FenceUsers /\ Tail(s) \in Seq(FenceUsers)
    OBVIOUS
  <1>2. \A x \in FenceUsers :
            /\ Append(s, x) \in Seq(FenceUsers) /\ Append(s, x) # <<>>
            /\ s # <<>> => Head(Append(s, x)) = Head(s)
            /\ s = <<>> => Head(Append(s, x)) = x
    OBVIOUS
  <1>3. ASSUME NEW x
        PROVE  /\ Without(s, x) \in Seq(FenceUsers)
               /\ s # <<>> /\ Head(s) # x =>
                    Without(s, x) # <<>> /\ Head(Without(s, x)) = Head(s)
    <2>1. CASE \A i \in 1 .. Len(s) : s[i] # x
      BY <2>1, Zenon DEF Without
    <2>2. CASE ~\A i \in 1 .. Len(s) : s[i] # x
      <3> DEFINE k == CHOOSE i \in 1 .. Len(s) : s[i] = x
                 before == SubSeq(s, 1, k - 1)
                 after == SubSeq(s, k + 1, Len(s))
                 rest == before \o after
      <3>1. k \in 1 .. Len(s) /\ s[k] = x
        BY <2>2, Zenon
      <3>2. Without(s, x) = rest
        BY <2>2, Zenon DEF Without
      <3> HIDE DEF k
      <3>3. before \in Seq(FenceUsers) /\ (k > 1 => Len(before) >= 1 /\ before[1] = s[1])
        BY <3>1
      <3>4. after \in Seq(FenceUsers)
        BY <3>1
      <3> HIDE DEF before, after
      <3>5. /\ rest \in Seq(FenceUsers)
            /\ Len(before) >= 1 => Len(rest) >= 1 /\ rest[1] = before[1]
        BY <3>3, <3>4
      <3>6. s # <<>> /\ Head(s) # x => k > 1
        BY <3>1
      <3> HIDE DEF rest
      <3>7. s # <<>> /\ Head(s) # x => rest # <<>> /\ Head(rest) = Head(s)
        BY <3>3, <3>5, <3>6
      <3> QED
        BY <3>2, <3>5, <3>7, Zenon
    <2> QED
      BY <2>1, <2>2, Zenon
  <1>4. s # <<>> => /\ <<"orphan">> \o Tail(s) \in Seq(FenceUsers)
                    /\ <<"orphan">> \o Tail(s) # <<>>
                    /\ Head(<<"orphan">> \o Tail(s)) = "orphan"
    BY DEF FenceUsers
  <1> QED
    BY <1>1, <1>2, <1>3, <1>4, Zenon

\* Of n revisions, none is in V.
Spare(n, V) ==
    \E f \in [1 .. n -> 1 .. MaxRev] :
        /\ \A i, j \in 1 .. n : f[i] = f[j] => i = j
        /\ \A i \in 1 .. n : f[i] \notin V

\* One more value takes one of them at most.
LEMMA OneTaken ==
    ASSUME NEW n \in Nat, NEW m \in Nat, m = n + 1, NEW V, Spare(m, V), NEW v
    PROVE  Spare(n, V \cup {v})
  <1>1. PICK f \in [1 .. m -> 1 .. MaxRev] :
            /\ \A i, j \in 1 .. m : f[i] = f[j] => i = j
            /\ \A i \in 1 .. m : f[i] \notin V
    BY Zenon DEF Spare
  <1> DEFINE g == [i \in 1 .. n |-> IF f[i] = v THEN f[m] ELSE f[i]]
  <1>2. \A i \in 1 .. n : g[i] \in 1 .. MaxRev /\ g[i] \notin V \cup {v}
    BY <1>1
  <1>3. \A i, j \in 1 .. n : g[i] = g[j] => i = j
    BY <1>1
  <1>4. g \in [1 .. n -> 1 .. MaxRev]
    BY <1>2, Zenon
  <1> HIDE DEF g
  <1> QED
    BY <1>2, <1>3, <1>4, Zenon DEF Spare

\* There is always a revision that nobody holds.
LEMMA NewRevision ==
    NewRev \in Nat /\ NewRev # 0 /\ NewRev \notin RevisionsHeld
  <1> DEFINE S0 == {0}
             S1 == S0 \cup {disk.rev}
             S2 == S1 \cup {anchor.rev}
             S3 == S2 \cup {preloaded.rev}
             S4 == S3 \cup {active.base.rev}
             S5 == S4 \cup {active.seen.rev}
             S6 == S5 \cup {batch.base.rev}
             S7 == S6 \cup {batch.staged.rev}
             S8 == S7 \cup {lane.pending}
             S9 == S8 \cup {lane.base}
             S10 == S9 \cup {lane.head.rev}
             S11 == S10 \cup {orphan}
  <1>0. /\ 12 = 11 + 1 /\ 11 = 10 + 1 /\ 10 = 9 + 1 /\ 9 = 8 + 1 /\ 8 = 7 + 1 /\ 7 = 6 + 1
        /\ 6 = 5 + 1 /\ 5 = 4 + 1 /\ 4 = 3 + 1 /\ 3 = 2 + 1 /\ 2 = 1 + 1
        /\ {1, 2, 3, 4, 5, 6, 7, 8, 9, 10, 11, 12} \subseteq Nat
    OBVIOUS
  <1>1. \A r : r \notin S11 => r \notin RevisionsHeld
    BY Zenon DEF RevisionsHeld
  <1>2. Spare(12, S0)
    <2> DEFINE f == [i \in 1 .. 12 |-> i]
    <2>1. /\ f \in [1 .. 12 -> 1 .. 12]
          /\ \A i, j \in 1 .. 12 : f[i] = f[j] => i = j
          /\ \A i \in 1 .. 12 : f[i] \notin S0
      OBVIOUS
    <2> HIDE DEF f, S0
    <2> QED
      BY <2>1, Zenon DEF Spare, MaxRev
  <1> HIDE DEF S0
  <1>3. Spare(11, S1)
    BY <1>2, <1>0, OneTaken, Zenon
  <1> HIDE DEF S1
  <1>4. Spare(10, S2)
    BY <1>3, <1>0, OneTaken, Zenon
  <1> HIDE DEF S2
  <1>5. Spare(9, S3)
    BY <1>4, <1>0, OneTaken, Zenon
  <1> HIDE DEF S3
  <1>6. Spare(8, S4)
    BY <1>5, <1>0, OneTaken, Zenon
  <1> HIDE DEF S4
  <1>7. Spare(7, S5)
    BY <1>6, <1>0, OneTaken, Zenon
  <1> HIDE DEF S5
  <1>8. Spare(6, S6)
    BY <1>7, <1>0, OneTaken, Zenon
  <1> HIDE DEF S6
  <1>9. Spare(5, S7)
    BY <1>8, <1>0, OneTaken, Zenon
  <1> HIDE DEF S7
  <1>10. Spare(4, S8)
    BY <1>9, <1>0, OneTaken, Zenon
  <1> HIDE DEF S8
  <1>11. Spare(3, S9)
    BY <1>10, <1>0, OneTaken, Zenon
  <1> HIDE DEF S9
  <1>12. Spare(2, S10)
    BY <1>11, <1>0, OneTaken, Zenon
  <1> HIDE DEF S10
  <1>13. Spare(1, S11)
    BY <1>12, <1>0, OneTaken, Zenon
  <1> HIDE DEF S11
  <1>14. \E r \in 1 .. MaxRev : r \notin S11
    BY <1>13 DEF Spare
  <1>15. NewRev \in 1 .. MaxRev /\ NewRev \notin RevisionsHeld
    BY <1>1, <1>14, Zenon DEF NewRev
  <1> QED
    BY <1>15 DEF MaxRev

-----------------------------------------------------------------------------
(* Callers and resets.                                                      *)

\* What a participant does at the gate leaves its writer alone.
LEMMA Gate ==
    ASSUME NEW g, g = [w |-> g.w, rd |-> g.rd, line |-> g.line], NEW p
    PROVE  /\ JoinGate(g, p) = [w |-> g.w, rd |-> g.rd, line |-> Append(g.line, p)]
           /\ g.w # p => LeaveGate(g, p).w = g.w
           /\ JoinGate(LeaveGate(g, p), p) =
                [w |-> LeaveGate(g, p).w, rd |-> g.rd \ {p},
                 line |-> Append(Without(g.line, p), p)]
  <1>0. ASSUME NEW a, NEW b, NEW c
        PROVE  JoinGate([w |-> a, rd |-> b, line |-> c], p) = [w |-> a, rd |-> b, line |-> Append(c, p)]
    BY DEF JoinGate
  <1>1. JoinGate(g, p) = [w |-> g.w, rd |-> g.rd, line |-> Append(g.line, p)]
    BY <1>0, Zenon
  <1>2. g.w # p => LeaveGate(g, p).w = g.w
    BY Zenon DEF LeaveGate
  <1>3. JoinGate(LeaveGate(g, p), p) =
                [w |-> LeaveGate(g, p).w, rd |-> g.rd \ {p},
                 line |-> Append(Without(g.line, p), p)]
    <2> DEFINE h == LeaveGate(g, p)
    <2>1. /\ h = [w |-> h.w, rd |-> h.rd, line |-> h.line]
          /\ h.rd = g.rd \ {p} /\ h.line = Without(g.line, p)
      BY Zenon DEF LeaveGate
    <2> HIDE DEF h
    <2>2. JoinGate([w |-> h.w, rd |-> h.rd, line |-> h.line], p)
            = [w |-> h.w, rd |-> h.rd, line |-> Append(h.line, p)]
      BY <1>0, Zenon
    <2>3. JoinGate(h, p) = [w |-> h.w, rd |-> h.rd, line |-> Append(h.line, p)]
      BY <2>1, <2>2, Zenon
    <2>4. JoinGate(h, p) = [w |-> h.w, rd |-> g.rd \ {p}, line |-> Append(Without(g.line, p), p)]
      BY <2>1, <2>3, Zenon
    <2> QED
      BY <2>4, Zenon DEF h
  <1> QED
    BY <1>1, <1>2, <1>3, Zenon

\* A channel takes one more message.
LEMMA More ==
    ASSUME NEW S, NEW s \in Seq(S), NEW m \in S
    PROVE  Append(s, m) \in Seq(S)
  OBVIOUS

\* Heads and corpora are not touched by who does not own them.
LEMMA Beside ==
    ASSUME HeadInv, UNCHANGED <<disk, source, anchor, installed, preloaded, active, batch, lane>>
    PROVE  HeadInv'
  BY DEF HeadInv, Agrees

\* A caller of retry_chain keeps the invariant, wherever it is.
LEMMA CallersKeep ==
    ASSUME IInv, NEW c \in Retriers, CallRetry(c) \/ RetrySteps(c) \/ DropRetry(c)
    PROVE  IInv'
  <1> USE DEF IInv
  <1>1. CallerKeeps
    BY Zenon DEF CallRetry, RetrySteps, DropRetry, Look, Spawn, Initialised, EnterRetry,
           SendRetry, RetryRefused
  <1>2. /\ gate' = [w |-> gate'.w, rd |-> gate'.rd, line |-> gate'.line]
        /\ \A r \in Resets : gate.w = r => gate'.w = r
    <2>1. \/ gate' = gate \/ gate' = JoinGate(gate, c) \/ gate' = LeaveGate(gate, c)
          \/ gate' = JoinGate(LeaveGate(gate, c), c)
          \/ gate' = [LeaveGate(gate, c) EXCEPT !.rd = @ \cup {c}]
      BY Zenon DEF CallRetry, RetrySteps, DropRetry, Look, Spawn, Initialised, EnterRetry,
             SendRetry, RetryRefused, Returns
    <2>2. gate = [w |-> gate.w, rd |-> gate.rd, line |-> gate.line]
      BY Zenon DEF Typed
    <2>3. \A r \in Resets : r # c
      BY Bounds, Zenon
    <2>4. CASE gate' = gate
      BY <2>2, <2>4, Zenon
    <2>5. CASE gate' = JoinGate(gate, c)
      BY <2>2, <2>5, Gate
    <2>6. CASE gate' = LeaveGate(gate, c)
      BY <2>3, <2>6, Zenon DEF LeaveGate
    <2>7. CASE gate' = JoinGate(LeaveGate(gate, c), c)
      BY <2>2, <2>3, <2>7, Gate
    <2>8. CASE gate' = [LeaveGate(gate, c) EXCEPT !.rd = @ \cup {c}]
      BY <2>3, <2>8, Zenon DEF LeaveGate
    <2> QED
      BY <2>1, <2>4, <2>5, <2>6, <2>7, <2>8, Zenon
  <1>3. queue' \in Seq(Commands)
    <2>1. queue' = queue \/ queue' = Append(queue, [what |-> "retry", who |-> c])
      BY Zenon DEF CallRetry, RetrySteps, DropRetry, Look, Spawn, Initialised, EnterRetry,
             SendRetry, RetryRefused
    <2>2. [what |-> "retry", who |-> c] \in Commands
      BY Zenon DEF Commands
    <2> QED
      BY <2>1, <2>2, More, Zenon DEF Typed
  <1>4. /\ ~handle' => pc' \in {"none", "stopped"}
        /\ pc' = pc \/ (pc \in {"none", "stopped"} /\ pc' = "load")
    BY Zenon DEF CallRetry, RetrySteps, DropRetry, Look, Spawn, Initialised, EnterRetry,
           SendRetry, RetryRefused, TaskInv
  <1>5. Typed'
    BY <1>1, <1>2, <1>3, Zenon DEF Typed, CallerKeeps, world
  <1>6. GateInv'
    BY <1>1, <1>2, Zenon DEF GateInv, CallerKeeps, Holds
  <1>7. TaskInv'
    BY <1>1, <1>4, Zenon DEF TaskInv, CallerKeeps
  <1>8. HeadInv'
    BY <1>1, Beside, Zenon DEF CallerKeeps, world
  <1> QED
    BY <1>5, <1>6, <1>7, <1>8, Zenon

\* A reset of the public cache keeps it: the gate is its own from the moment it is
\* closed, and by then either nothing runs or the coordinator says so.
LEMMA ResetsKeep ==
    ASSUME IInv, NEW r \in Resets, BeginReset(r) \/ ResetSteps(r) \/ OpenGate(r)
    PROVE  IInv'
  <1> USE DEF IInv
  <1>1. ResetKeeps
    BY Zenon DEF BeginReset, ResetSteps, OpenGate, CloseGate, SendQuiesce, QuiesceLost, AskFence,
           HoldPermit, CancelLease
  <1>2. /\ gate' = [w |-> gate'.w, rd |-> gate'.rd, line |-> gate'.line]
        /\ \A q \in Resets \ {r} : gate.w = q => gate'.w = q
    <2>1. \/ gate' = gate \/ gate' = JoinGate(gate, r) \/ gate' = LeaveGate(gate, r)
          \/ gate.w = NoOne /\ gate' = [LeaveGate(gate, r) EXCEPT !.w = r]
      BY Zenon DEF BeginReset, ResetSteps, OpenGate, CloseGate, SendQuiesce, QuiesceLost, AskFence,
             HoldPermit, CancelLease, MayWrite, MayRead
    <2>2. gate = [w |-> gate.w, rd |-> gate.rd, line |-> gate.line]
      BY Zenon DEF Typed
    <2>3. CASE gate' = gate
      BY <2>2, <2>3, Zenon
    <2>4. CASE gate' = JoinGate(gate, r)
      BY <2>2, <2>4, Gate
    <2>5. CASE gate' = LeaveGate(gate, r)
      BY <2>5, Zenon DEF LeaveGate
    <2>6. CASE gate.w = NoOne /\ gate' = [LeaveGate(gate, r) EXCEPT !.w = r]
      BY <2>6, Bounds, Zenon DEF LeaveGate
    <2> QED
      BY <2>1, <2>3, <2>4, <2>5, <2>6, Zenon
  <1>3. queue' \in Seq(Commands)
    <2>1. queue' = queue \/ queue' = Append(queue, [what |-> "quiesce", who |-> r])
      BY Zenon DEF BeginReset, ResetSteps, OpenGate, CloseGate, SendQuiesce, QuiesceLost, AskFence,
             HoldPermit, CancelLease
    <2>2. [what |-> "quiesce", who |-> r] \in Commands
      BY Zenon DEF Commands
    <2> QED
      BY <2>1, <2>2, More, Zenon DEF Typed
  <1>4. /\ line' \in Seq(FenceUsers)
        /\ \A x : x # r /\ Holds(x) => Holds(x)'
        /\ line' = line \/ permit'[r] \in {"fence", "opened"}
    <2>1. line \in Seq(FenceUsers) /\ r \in FenceUsers /\ DOMAIN permit = Resets
      BY Zenon DEF Typed, FenceUsers
    <2>2. \/ line' = line
          \/ line' = Append(line, r) /\ permit'[r] = "fence"
          \/ line' = Without(line, r) /\ permit'[r] = "opened"
      BY <2>1, Zenon DEF BeginReset, ResetSteps, OpenGate, CloseGate, SendQuiesce, QuiesceLost, AskFence,
             HoldPermit, CancelLease, Steps
    <2>3. CASE line' = line
      BY <2>1, <2>3, Zenon DEF Holds
    <2>4. CASE line' = Append(line, r) /\ permit'[r] = "fence"
      BY <2>1, <2>4, Line, Zenon DEF Holds
    <2>5. CASE line' = Without(line, r) /\ permit'[r] = "opened"
      BY <2>1, <2>5, Line, Zenon DEF Holds
    <2> QED
      BY <2>2, <2>3, <2>4, <2>5, Zenon
  <1>5. /\ DOMAIN permit' = Resets
        /\ \A q \in Resets \ {r} : permit'[q] = permit[q]
    BY Zenon DEF Typed, BeginReset, ResetSteps, OpenGate, CloseGate, SendQuiesce, QuiesceLost, AskFence,
           HoldPermit, CancelLease, Steps
  <1>6. permit'[r] \in {"send", "quiesce", "quiesced", "fence", "held"} => gate'.w = r
    BY Zenon DEF Typed, GateInv, BeginReset, ResetSteps, OpenGate, CloseGate, SendQuiesce, QuiesceLost,
           AskFence, HoldPermit, CancelLease, Steps, LeaveGate
  <1>7. permit'[r] = "held" => Holds(r)'
    BY Zenon DEF Typed, GateInv, BeginReset, ResetSteps, OpenGate, CloseGate, SendQuiesce, QuiesceLost,
           AskFence, HoldPermit, CancelLease, Steps, Holds
  <1>8. /\ ~handle' => pc \in {"none", "stopped"}
        /\ permit'[r] \in {"quiesced", "fence", "held"} =>
              pc \in {"none", "stopped"} \/ permit[r] \in {"quiesced", "fence", "held"}
    BY Zenon DEF Typed, TaskInv, BeginReset, ResetSteps, OpenGate, CloseGate, SendQuiesce, QuiesceLost,
           AskFence, HoldPermit, CancelLease, Steps
  <1>9. Typed'
    BY <1>1, <1>2, <1>3, <1>4, <1>5, Zenon DEF Typed, ResetKeeps, world
  <1>10. GateInv'
    <2>1. lane' = lane /\ orphan' = orphan /\ r \notin {"compact", "orphan"}
      BY <1>1, Bounds, Zenon DEF ResetKeeps
    <2>2. ASSUME NEW q \in Resets
          PROVE  /\ permit'[q] \in {"send", "quiesce", "quiesced", "fence", "held"} => gate'.w = q
                 /\ permit'[q] = "held" => Holds(q)'
      BY <1>2, <1>4, <1>5, <1>6, <1>7, Zenon DEF GateInv
    <2>3. (lane.at = "writing" => Holds("compact")') /\ (orphan # 0 => Holds("orphan")')
      BY <1>4, <2>1, Zenon DEF GateInv
    <2> QED
      BY <2>1, <2>2, <2>3, Zenon DEF GateInv
  <1>11. TaskInv'
    <2>1. UNCHANGED <<pc, lane, active, batch>>
      BY <1>1, Zenon DEF ResetKeeps
    <2>2. ASSUME NEW q \in Resets, permit'[q] \in {"quiesced", "fence", "held"}
          PROVE  active = NoAttempt /\ pc \notin {"commit", "apply"} /\ lane = Idle
      BY <1>5, <1>8, <2>2, Zenon DEF TaskInv
    <2> QED
      BY <1>8, <2>1, <2>2, Zenon DEF TaskInv
  <1>12. HeadInv'
    BY <1>1, Beside, Zenon DEF ResetKeeps, world
  <1> QED
    BY <1>9, <1>10, <1>11, <1>12, Zenon

-----------------------------------------------------------------------------
(* The attempt.                                                             *)

\* Nobody is quiet while the gate is open, and nothing runs while somebody is.
LEMMA Quiet ==
    ASSUME IInv, TryRead \/ active # NoAttempt \/ pc \in {"commit", "apply"} \/ lane # Idle
    PROVE  \A r \in Resets : permit[r] \notin {"quiesced", "fence", "held"}
  BY Bounds, Zenon DEF IInv, GateInv, TaskInv, TryRead

\* A new attempt starts from what was preloaded or from the journal.
LEMMA NewAttempts ==
    ASSUME Typed, NEW scope \in SUBSET Kinds, NEW who \in Retriers \cup {NoOne}
    PROVE  LET a == NewAttempt(scope, who)
           IN  /\ a \in Attempts /\ a.seen = anchor /\ a.base = preloaded
               /\ a.from = Corpus(preloaded) /\ a.at \in {"load", "ready"}
  <1> DEFINE sc == effective_scope(scope)
             u == "events" \in sc /\ attempt_plan.use
             v == "events" \in sc /\ attempt_plan.after
             t == IF preloaded.rev = 0 THEN "load" ELSE "ready"
             from == Corpus(preloaded)
             a == NewAttempt(scope, who)
  <1>1. sc \in SUBSET Kinds
    BY Zenon DEF effective_scope
  <1>2. u \in BOOLEAN /\ v \in BOOLEAN
    BY Zenon
  <1>3. t \in {"load", "ready"}
    BY Zenon
  <1>4. from \in Corpora /\ preloaded \in JournalHead /\ anchor \in JournalHead
    BY Read, Zenon DEF Typed
  <1>5. a = [NoAttempt EXCEPT !.scope = sc, !.retry = who, !.seen = anchor, !.at = t,
                              !.base = preloaded, !.from = from, !.use = u, !.after = v]
    BY Zenon DEF NewAttempt
  <1> HIDE DEF sc, u, v, t, from, a
  <1>6. a = [scope |-> sc, retry |-> who, at |-> t, seen |-> anchor, base |-> preloaded,
             from |-> from, use |-> u, after |-> v, rpc |-> "none"]
    BY <1>5, Zenon DEF NoAttempt
  <1>7. a \in Attempts
    BY <1>1, <1>2, <1>3, <1>4, <1>6, Zenon DEF Attempts
  <1>8. a.seen = anchor /\ a.base = preloaded /\ a.from = from /\ a.at = t
    BY <1>6, Zenon
  <1> QED
    BY <1>3, <1>7, <1>8, Zenon DEF a, from

\* An attempt begins only through an open gate.
LEMMA BegunKeeps ==
    ASSUME IInv, TryRead, pc \in {"first", "loop"}, pc' = "loop",
           NEW scope \in SUBSET Kinds, NEW who \in Retriers \cup {NoOne},
           active' = NewAttempt(scope, who), preloaded' = NoHead,
           line' = line \/ line' = DropJob(line), queue' \in Seq(Commands),
           UNCHANGED <<batch, lane, orphan, installed, anchor, handle, gate, permit,
                       source, disk>>
    PROVE  IInv'
  <1> USE DEF IInv
  <1>1. /\ active' \in Attempts /\ active'.seen = anchor /\ active'.base = preloaded
        /\ active'.from = Corpus(preloaded) /\ active'.at \in {"load", "ready"}
    BY NewAttempts, Zenon
  <1>2. line' \in Seq(FenceUsers) /\ (\A x : x # "job" /\ Holds(x) => Holds(x)')
    BY Line DEF Typed, DropJob, Holds
  <1>3. Typed'
    BY <1>1, <1>2, Blank, Zenon DEF Typed
  <1>4. GateInv'
    BY <1>2, Bounds, Zenon DEF GateInv
  <1>5. TaskInv'
    <2>1. handle /\ (pc = "first" => lane = Idle)
      BY Zenon DEF TaskInv
    <2> QED
      BY <2>1, Quiet, Zenon DEF TaskInv
  <1>6. HeadInv'
    <2>1. NoHead.rev = 0 /\ NoHead.ev = 0
      BY Zenon DEF NoHead
    <2>2. Agrees(NoHead) /\ Agrees(NoHead)'
      BY <2>1, Fields DEF Agrees, HeadInv
    <2> QED
      BY <1>1, <2>2 DEF HeadInv, Agrees
  <1> QED
    BY <1>3, <1>4, <1>5, <1>6, Zenon

\* A maintenance attempt, started or refused.
LEMMA StartKeeps ==
    ASSUME IInv, NEW scope \in SUBSET Kinds, StartAttempt(scope), pc \in {"first", "loop"},
           pc' = "loop", active = NoAttempt,
           UNCHANGED <<queue, batch, lane, orphan, installed, anchor, handle, gate, permit,
                       source, disk, line>>
    PROVE  IInv'
  <1>1. CASE TryRead
    <2>1. active' = NewAttempt(scope, NoOne) /\ preloaded' = NoHead
      BY <1>1, Zenon DEF StartAttempt
    <2>2. queue' \in Seq(Commands) /\ NoOne \in Retriers \cup {NoOne}
      BY Zenon DEF IInv, Typed
    <2> QED
      BY <1>1, <2>1, <2>2, BegunKeeps, Zenon
  <1>2. CASE ~TryRead
    <2>1. UNCHANGED <<active, preloaded>>
      BY <1>2, Zenon DEF StartAttempt
    <2>2. Typed' /\ GateInv'
      BY <2>1, Zenon DEF IInv, Typed, GateInv, Holds
    <2>3. TaskInv'
      BY <2>1, Zenon DEF IInv, TaskInv
    <2>4. HeadInv'
      BY <2>1, Beside, Zenon DEF IInv
    <2> QED
      BY <2>2, <2>3, <2>4, Zenon DEF IInv
  <1> QED
    BY <1>1, <1>2, Zenon

\* A step of the job that changes no more than the attempt and its place in the line.
LEMMA WorkKeeps ==
    ASSUME IInv, Polls, active # NoAttempt, active' \in Attempts, JobKeeps,
           line' = line \/ line' = Append(line, "job"),
           active'.seen = active.seen, active'.at # "load",
           active'.base = active.base \/ active'.base = disk,
           active'.at \in {"ready", "lock", "fetch"} => active'.from = Corpus(active'.base)
    PROVE  IInv'
  <1> USE DEF IInv
  <1>1. line' \in Seq(FenceUsers) /\ (\A x : Holds(x) => Holds(x)')
    <2>1. line \in Seq(FenceUsers) /\ "job" \in FenceUsers
      BY Zenon DEF Typed, FenceUsers
    <2> QED
      BY <2>1, Line DEF Holds
  <1>2. Typed'
    BY <1>1, Zenon DEF Typed, JobKeeps, callers
  <1>3. GateInv'
    BY <1>1, Zenon DEF GateInv, JobKeeps, callers
  <1>4. TaskInv'
    BY Quiet, Zenon DEF TaskInv, JobKeeps, callers, Polls
  <1>5. HeadInv'
    <2>1. Agrees(disk)
      BY OwnHead, Zenon
    <2> QED
      BY <2>1 DEF HeadInv, Agrees, JobKeeps
  <1> QED
    BY <1>2, <1>3, <1>4, <1>5, Zenon

\* The end of the job: what it read is at hand, built on the base of the attempt.
LEMMA EndKeeps ==
    ASSUME IInv, Polls, active # NoAttempt, NEW b \in Batches, NEW f, Ends(b, f),
           b.staged = NoHead, b.cand # "none" => b.corpus.ev <= source.ev,
           b.cand = "rpc" => active.base.ev <= b.corpus.ev
    PROVE  IInv'
  <1> USE DEF IInv
  <1>1. PICK bad \in BOOLEAN :
          batch' = [b EXCEPT !.scope = active.scope, !.retry = active.retry,
                             !.base = active.base, !.ok = @ /\ ~bad]
    BY Zenon DEF Ends
  <1> DEFINE ok == b.ok /\ ~bad
  <1>2. ok \in BOOLEAN
    BY Zenon
  <1>3. /\ batch' \in Batches /\ batch'.base = active.base /\ batch'.staged = NoHead
        /\ batch'.cand = b.cand /\ batch'.corpus = b.corpus
    <2>1. batch' = [b EXCEPT !.scope = active.scope, !.retry = active.retry,
                             !.base = active.base, !.ok = ok]
      BY <1>1, Zenon
    <2> HIDE DEF ok
    <2> QED
      BY <1>2, <2>1, Fields, Zenon DEF Batches
  <1>4. /\ active' = NoAttempt /\ pc = "loop"
        /\ pc' = IF b.cand = "none" THEN "apply" ELSE "commit"
        /\ UNCHANGED <<queue, lane, orphan, preloaded, installed, anchor, callers, source, disk>>
    BY Zenon DEF Ends, Polls
  <1>5. line' \in Seq(FenceUsers) /\ (\A x : Holds(x) => Holds(x)')
    <2>1. line \in Seq(FenceUsers) /\ "attempt" \in FenceUsers
      BY Zenon DEF Typed, FenceUsers
    <2>2. line' = line \/ line' = Append(line, "attempt")
      BY Zenon DEF Ends
    <2> QED
      BY <2>1, <2>2, Line DEF Holds
  <1>6. Typed'
    BY <1>3, <1>4, <1>5, Blank, Zenon DEF Typed, callers
  <1>7. GateInv'
    BY <1>4, <1>5, Zenon DEF GateInv, callers
  <1>8. TaskInv'
    BY <1>3, <1>4, Quiet, Zenon DEF TaskInv, callers
  <1>9. HeadInv'
    <2>1. NoAttempt.seen = NoHead /\ NoAttempt.base = NoHead /\ NoAttempt.at = "none"
      BY Zenon DEF NoAttempt
    <2>2. NoHead.rev = 0 /\ NoHead.ev = 0
      BY Zenon DEF NoHead
    <2>3. Agrees(NoHead)
      BY <2>2, Fields DEF Agrees, HeadInv
    <2> QED
      BY <1>3, <1>4, <2>1, <2>2, <2>3 DEF HeadInv, Agrees
  <1> QED
    BY <1>6, <1>7, <1>8, <1>9, Zenon

\* The attempt's base is no newer than the network, and is what it started from.
LEMMA Based ==
    ASSUME IInv, active.at \in {"ready", "lock", "fetch"}
    PROVE  /\ active.from = Corpus(active.base) /\ active.from.ev = active.base.ev
           /\ active.base.ev <= disk.ev /\ disk.ev <= source.ev /\ source.art <= source.ev
  BY Read, Fields, Zenon DEF IInv, HeadInv, Agrees

\* An attempt that failed at its source leaves nothing to commit.
LEMMA FailedBatch ==
    LET b == [NoBatch EXCEPT !.ok = FALSE, !.rpc = "failed"]
    IN  b \in Batches /\ b.staged = NoHead /\ b.cand = "none"
  <1> DEFINE b == [NoBatch EXCEPT !.ok = FALSE, !.rpc = "failed"]
  <1>1. FALSE \in BOOLEAN /\ "failed" \in {"none", "failed", "fallback", "ok", "large"}
    BY Zenon
  <1>2. NoBatch.staged = NoHead /\ NoBatch.cand = "none"
    BY Zenon DEF NoBatch
  <1> QED
    BY <1>1, <1>2, Blank, Zenon DEF Batches

\* The job of an attempt keeps the invariant.
LEMMA JobKeepsInv ==
    ASSUME IInv, JobSteps
    PROVE  IInv'
  <1> USE DEF IInv
  <1>0. active \in Attempts /\ NoAttempt.at = "none"
    BY Zenon DEF Typed, NoAttempt
  <1>1. CASE JobLoads
    <2> DEFINE from == IF active.seen = disk THEN installed ELSE Corpus(disk)
               new == [active EXCEPT !.at = "ready", !.base = disk, !.from = from]
    <2>1. /\ Polls /\ active # NoAttempt /\ active' = new /\ line' = line /\ JobKeeps
          /\ active.at = "load"
      BY <1>0, <1>1, Zenon DEF JobLoads, Job
    <2>2. from = Corpus(disk)
      BY <2>1, Zenon DEF HeadInv
    <2>3. from \in Corpora /\ disk \in JournalHead
      BY <2>2, Read, Zenon DEF Typed
    <2> HIDE DEF from
    <2>4. /\ new \in Attempts /\ new.at = "ready" /\ new.base = disk /\ new.from = from
          /\ new.seen = active.seen
      BY <1>0, <2>3, Zenon DEF Attempts
    <2> HIDE DEF new
    <2> QED
      BY <2>1, <2>2, <2>4, WorkKeeps, Zenon
  <1>2. CASE JobReadsRpc
    <2> DEFINE corpus == RpcCorpus
               rpc == IF "events" \in active.scope /\ RpcCorpus.ev < source.ev
                      THEN "large" ELSE "ok"
               cand == IF RpcCorpus.ev > 0 /\ RpcCorpus # active.from THEN "rpc" ELSE "none"
               b == [NoBatch EXCEPT !.corpus = corpus, !.rpc = rpc, !.cand = cand]
    <2>1. Polls /\ active # NoAttempt /\ Ends(b, faults) /\ active.at = "ready"
      BY <1>0, <1>2, Zenon DEF JobReadsRpc, ReadsRpc, Job
    <2>2. /\ corpus \in Corpora /\ active.base.ev <= corpus.ev /\ corpus.ev <= source.ev
      BY <2>1, Based, Fields, Bounds DEF RpcCorpus, Least, Corpora
    <2>3. rpc \in {"none", "failed", "fallback", "ok", "large"} /\ cand \in {"none", "rpc", "artifact"}
      BY Zenon
    <2> HIDE DEF corpus, rpc, cand
    <2>4. /\ b \in Batches /\ b.corpus = corpus /\ b.staged = NoBatch.staged
      BY <2>2, <2>3, Blank, Zenon DEF Batches
    <2>5. NoBatch.staged = NoHead
      BY Zenon DEF NoBatch
    <2> HIDE DEF b
    <2> QED
      BY <2>1, <2>2, <2>4, <2>5, EndKeeps, Zenon
  <1>3. CASE JobRpcFails
    <2>1. Polls /\ active # NoAttempt /\ active.at = "ready"
      BY <1>0, <1>3, Zenon DEF JobRpcFails, ReadsRpc, Job
    <2>2. CASE active.after /\ active.rpc = "none"
      <3> DEFINE new == [active EXCEPT !.rpc = "failed", !.use = TRUE]
      <3>1. active' = new /\ line' = line /\ JobKeeps
        BY <1>3, <2>2, Zenon DEF JobRpcFails
      <3>2. TRUE \in BOOLEAN
        BY Zenon
      <3>3. /\ new \in Attempts /\ new.at = active.at /\ new.base = active.base
            /\ new.from = active.from /\ new.seen = active.seen
        BY <1>0, <3>2, Zenon DEF Attempts
      <3> HIDE DEF new
      <3> QED
        BY <2>1, <3>1, <3>3, Based, WorkKeeps, Zenon
    <2>3. CASE ~(active.after /\ active.rpc = "none")
      <3> DEFINE b == [NoBatch EXCEPT !.ok = FALSE, !.rpc = "failed"]
      <3>1. Ends(b, faults + 1)
        BY <1>3, <2>3, Zenon DEF JobRpcFails
      <3>2. b \in Batches /\ b.staged = NoHead /\ b.cand = "none"
        BY FailedBatch, Zenon
      <3> HIDE DEF b
      <3> QED
        BY <2>1, <3>1, <3>2, EndKeeps, Zenon
    <2> QED
      BY <2>2, <2>3, Zenon
  <1>4. CASE JobAsksFence
    <2> DEFINE new == [active EXCEPT !.at = "lock"]
    <2>1. /\ Polls /\ active # NoAttempt /\ active.at = "ready" /\ active' = new
          /\ line' = Append(line, "job") /\ JobKeeps
      BY <1>0, <1>4, Zenon DEF JobAsksFence, Job
    <2>2. /\ new \in Attempts /\ new.at = "lock" /\ new.base = active.base
          /\ new.from = active.from /\ new.seen = active.seen
      BY <1>0, Zenon DEF Attempts
    <2> HIDE DEF new
    <2> QED
      BY <2>1, <2>2, Based, WorkKeeps, Zenon
  <1>5. CASE JobLeavesFence
    <2> DEFINE new == [active EXCEPT !.at = "fetch"]
               t == IF lane.at = "queued" /\ Tail(line) # <<>> /\ Head(Tail(line)) = "compact"
                    THEN "writing" ELSE lane.at
               moved == [lane EXCEPT !.at = t]
    <2>1. /\ Polls /\ active # NoAttempt /\ active.at = "lock" /\ active' = new /\ Holds("job")
          /\ line' = Tail(line) /\ lane' = moved
          /\ UNCHANGED <<pc, queue, batch, orphan, preloaded, installed, anchor, callers, source, disk>>
      BY <1>0, <1>5, Zenon DEF JobLeavesFence, Job, world
    <2>2. /\ new \in Attempts /\ new.at = "fetch" /\ new.base = active.base
          /\ new.from = active.from /\ new.seen = active.seen
      BY <1>0, Zenon DEF Attempts
    <2>3. t \in {"none", "new", "queued", "writing", "done"} /\ (lane.at = "done" => t = "done")
      BY Zenon DEF Typed, Lanes
    <2>4. t = "writing" => lane.at = "writing" \/ (Tail(line) # <<>> /\ Head(Tail(line)) = "compact")
      BY Zenon
    <2>5. /\ moved \in Lanes /\ moved.at = t /\ moved.head = lane.head /\ moved.base = lane.base
      <3> HIDE DEF t
      <3> QED
        BY <2>3, Zenon DEF Lanes, Typed
    <2>6. Tail(line) \in Seq(FenceUsers)
      BY <2>1, Line, Zenon DEF Typed, Holds
    <2> HIDE DEF new, t, moved
    <2>7. Typed'
      BY <2>1, <2>2, <2>5, <2>6, Zenon DEF Typed, callers
    <2>8. GateInv'
      <3>1. lane.at # "writing" /\ orphan = 0 /\ \A r \in Resets : permit[r] # "held"
        BY <2>1, Bounds, Zenon DEF GateInv, Holds
      <3> QED
        BY <2>1, <2>4, <2>5, <3>1, Zenon DEF GateInv, callers, Holds
    <2>9. TaskInv'
      BY <2>1, Quiet, Zenon DEF TaskInv, callers, Polls
    <2>10. HeadInv'
      BY <2>1, <2>2, <2>3, <2>5, Based DEF HeadInv, Agrees
    <2> QED
      BY <2>7, <2>8, <2>9, <2>10, Zenon
  <1>6. CASE JobFetches
    <2> DEFINE corpus == ArtifactCorpus
               rpc == active.rpc
               cand == IF source.art > 0 THEN "artifact" ELSE "none"
               b == [NoBatch EXCEPT !.corpus = corpus, !.art = TRUE, !.rpc = rpc, !.cand = cand]
    <2>1. Polls /\ active # NoAttempt /\ Ends(b, faults) /\ active.at = "fetch"
      BY <1>0, <1>6, Zenon DEF JobFetches, Job
    <2>2. corpus \in Corpora /\ corpus.ev <= source.ev
      BY <2>1, Based, Fields DEF ArtifactCorpus, Corpora
    <2>3. /\ rpc \in {"none", "failed", "fallback", "ok", "large"}
          /\ cand \in {"none", "rpc", "artifact"} /\ cand # "rpc"
      BY Fields, Zenon
    <2>4. TRUE \in BOOLEAN
      BY Zenon
    <2> HIDE DEF corpus, rpc, cand
    <2>5. b \in Batches /\ b.corpus = corpus /\ b.staged = NoBatch.staged /\ b.cand = cand
      BY <2>2, <2>3, <2>4, Blank, Zenon DEF Batches
    <2>6. NoBatch.staged = NoHead
      BY Zenon DEF NoBatch
    <2> HIDE DEF b
    <2> QED
      BY <2>1, <2>2, <2>3, <2>5, <2>6, EndKeeps, Zenon
  <1>7. CASE JobFetchFails
    <2>1. Polls /\ active # NoAttempt /\ active.at = "fetch"
      BY <1>0, <1>7, Zenon DEF JobFetchFails, Job
    <2>2. CASE active.rpc = "failed"
      <3> DEFINE b == [NoBatch EXCEPT !.ok = FALSE, !.rpc = "failed"]
      <3>1. Ends(b, faults + 1)
        BY <1>7, <2>2, ZenonT(30) DEF JobFetchFails
      <3>2. b \in Batches /\ b.staged = NoHead /\ b.cand = "none"
        BY FailedBatch, Zenon
      <3> HIDE DEF b
      <3> QED
        BY <2>1, <3>1, <3>2, EndKeeps, Zenon
    <2>3. CASE active.rpc # "failed"
      <3> DEFINE new == [active EXCEPT !.at = "ready", !.rpc = "fallback"]
      <3>1. active' = new /\ line' = line /\ JobKeeps
        BY <1>7, <2>3, Zenon DEF JobFetchFails
      <3>2. /\ new \in Attempts /\ new.at = "ready" /\ new.base = active.base
            /\ new.from = active.from /\ new.seen = active.seen
        BY <1>0, ZenonT(30) DEF Attempts
      <3> HIDE DEF new
      <3> QED
        BY <2>1, <3>1, <3>2, Based, WorkKeeps, Zenon
    <2> QED
      BY <2>2, <2>3, Zenon
  <1>8. CASE JobLoadFails
    <2> DEFINE b == [NoBatch EXCEPT !.ok = FALSE]
    <2>1. Polls /\ active # NoAttempt /\ Ends(b, faults + 1)
      BY <1>0, <1>8, Zenon DEF JobLoadFails, Job
    <2>2. FALSE \in BOOLEAN /\ NoBatch.staged = NoHead /\ NoBatch.cand = "none"
      BY Zenon DEF NoBatch
    <2>3. b \in Batches /\ b.staged = NoHead /\ b.cand = "none"
      BY <2>2, Blank, Zenon DEF Batches
    <2> HIDE DEF b
    <2> QED
      BY <2>1, <2>3, EndKeeps, Zenon
  <1> QED
    BY <1>1, <1>2, <1>3, <1>4, <1>5, <1>6, <1>7, <1>8, Zenon DEF JobSteps

-----------------------------------------------------------------------------
(* Commits, installation and compactions.                                   *)

\* A new head of the journal, that nobody has yet and that loses no events.
Follows(h) ==
    /\ h \in JournalHead /\ h.rev # 0 /\ h.rev \notin RevisionsHeld
    /\ disk.ev <= h.ev /\ h.ev <= source.ev

\* Every head that was known stays known when a new one is written.
LEMMA Written ==
    ASSUME IInv, disk' = disk \/ Follows(disk'), NEW h \in JournalHead, Agrees(h),
           h.rev \in RevisionsHeld
    PROVE  (h.rev = disk'.rev => h = disk') /\ h.ev <= disk'.ev
  BY Fields DEF IInv, Agrees, Follows, JournalHead

\* What a commit writes follows the journal's head.
LEMMA CommitFollows ==
    ASSUME IInv, pc = "commit"
    PROVE  Committed = NoHead \/ Follows(Committed)
  <1> USE DEF IInv
  <1>1. batch.cand # "none" /\ batch.corpus.ev <= source.ev
        /\ (batch.cand = "rpc" => batch.base.ev <= batch.corpus.ev)
    BY Zenon DEF TaskInv, HeadInv
  <1>2. CASE disk.rev # batch.base.rev
    BY <1>2, Zenon DEF Committed
  <1>3. CASE disk.rev = batch.base.rev /\ batch.cand = "rpc"
    <2>1. batch.base = disk
      BY <1>3, Zenon DEF HeadInv, Agrees
    <2> DEFINE n == IF batch.corpus.ev > disk.ev THEN 1 ELSE 0
               len == IF disk.rev = 0 THEN 0
                      ELSE IF disk.len + n > Hard THEN n ELSE disk.len + n
    <2>2. Committed = [rev |-> NewRev, ev |-> batch.corpus.ev, bl |-> batch.corpus.bl,
                       att |-> disk.att, len |-> len]
      BY <1>3, Zenon DEF Committed, RpcHead
    <2>3. len \in Nat
      BY Fields
    <2> HIDE DEF len
    <2>4. Committed \in JournalHead
      BY <2>2, <2>3, NewRevision, Fields, Zenon DEF JournalHead
    <2> QED
      BY <1>1, <1>3, <2>1, <2>2, <2>4, NewRevision, Zenon DEF Follows
  <1>4. CASE disk.rev = batch.base.rev /\ batch.cand # "rpc"
    <2>1. CASE disk.ev > batch.corpus.ev
      BY <1>4, <2>1, Zenon DEF Committed, ArtifactHead
    <2>2. CASE ~(disk.ev > batch.corpus.ev)
      <3>1. Committed = [rev |-> NewRev, ev |-> batch.corpus.ev, bl |-> batch.corpus.bl,
                         att |-> TRUE, len |-> 0]
        BY <1>4, <2>2, Zenon DEF Committed, ArtifactHead
      <3>2. 0 \in Nat /\ TRUE \in BOOLEAN
        BY Zenon
      <3>3. Committed \in JournalHead
        BY <3>1, <3>2, NewRevision, Fields, Zenon DEF JournalHead
      <3> QED
        BY <1>1, <2>2, <3>1, <3>3, NewRevision, Fields DEF Follows
    <2> QED
      BY <2>1, <2>2, Zenon
  <1> QED
    BY <1>2, <1>3, <1>4, Zenon

\* What a compaction writes is the same corpus under a new revision.
LEMMA CompactionFollows ==
    ASSUME IInv, NEW base
    PROVE  /\ Compacted(base) \in JournalHead
           /\ Compacted(base) = NoHead \/ (/\ Follows(Compacted(base)) /\ disk.rev = base
                                           /\ Corpus(Compacted(base)) = Corpus(disk))
  <1>1. CASE disk.rev = base
    <2> DEFINE h == [disk EXCEPT !.rev = NewRev, !.len = 0]
    <2>1. NewRev \in Nat /\ 0 \in Nat /\ disk \in JournalHead
      BY NewRevision, Zenon DEF IInv, Typed
    <2>2. /\ h \in JournalHead /\ h.rev = NewRev /\ h.ev = disk.ev /\ h.bl = disk.bl
      BY <2>1, Zenon DEF JournalHead
    <2>3. Compacted(base) = h
      BY <1>1, Zenon DEF Compacted
    <2> HIDE DEF h
    <2> QED
      BY <1>1, <2>2, <2>3, NewRevision, Fields DEF Follows, Corpus, IInv, HeadInv
  <1>2. CASE disk.rev # base
    BY <1>2, Blank, Zenon DEF Compacted
  <1> QED
    BY <1>1, <1>2, Zenon

\* The whole of HeadInv after a write: what is known stays known, the written head is known.
LEMMA WriteKeeps ==
    ASSUME IInv, disk' = disk \/ Follows(disk'),
           UNCHANGED <<source, anchor, installed, preloaded, active>>,
           batch' \in Batches, batch'.base = batch.base, batch'.cand = batch.cand,
           batch'.corpus = batch.corpus,
           \/ batch'.staged = batch.staged
           \/ batch'.staged = NoHead
           \/ batch'.staged = disk' /\ Follows(disk') /\ lane' = lane,
           lane' \in Lanes, lane'.base = lane.base,
           \/ lane'.head = lane.head /\ (lane.at = "done" => lane'.at = "done")
           \/ lane'.head = NoHead
           \/ /\ lane'.head = disk' /\ Follows(disk') /\ lane'.at = "done"
              /\ disk.rev = lane.base /\ Corpus(disk') = Corpus(disk)
    PROVE  HeadInv'
  <1> USE DEF IInv
  <1>1. /\ anchor \in JournalHead /\ preloaded \in JournalHead /\ active.base \in JournalHead
        /\ active.seen \in JournalHead /\ batch.base \in JournalHead
        /\ batch.staged \in JournalHead /\ lane.head \in JournalHead /\ disk' \in JournalHead
    BY DEF Typed, Attempts, Batches, Lanes, Follows
  <1>2. /\ anchor.rev \in RevisionsHeld /\ preloaded.rev \in RevisionsHeld
        /\ active.base.rev \in RevisionsHeld /\ active.seen.rev \in RevisionsHeld
        /\ batch.base.rev \in RevisionsHeld /\ batch.staged.rev \in RevisionsHeld
        /\ lane.head.rev \in RevisionsHeld /\ lane.base \in RevisionsHeld
    BY Zenon DEF RevisionsHeld
  <1>3. /\ Agrees(anchor)' /\ Agrees(preloaded)' /\ Agrees(active.base)'
        /\ Agrees(active.seen)' /\ Agrees(batch.base)'
    BY <1>1, <1>2, Written, Zenon DEF Agrees, HeadInv
  <1>4. NoHead.rev = 0 /\ NoHead.ev = 0 /\ (disk'.rev = 0 => disk' = NoHead)
    BY Zenon DEF NoHead, HeadInv, Follows
  <1>5. (NoHead.rev = disk'.rev => NoHead = disk') /\ NoHead.ev <= disk'.ev
    BY <1>1, <1>4 DEF JournalHead
  <1>6. (disk'.rev = disk'.rev => disk' = disk') /\ disk'.ev <= disk'.ev
    BY <1>1 DEF JournalHead
  <1>7. (batch.staged.rev = disk'.rev => batch.staged = disk') /\ batch.staged.ev <= disk'.ev
    BY <1>1, <1>2, Written, Zenon DEF HeadInv
  <1>8. (lane.head.rev = disk'.rev => lane.head = disk') /\ lane.head.ev <= disk'.ev
    BY <1>1, <1>2, Written, Zenon DEF HeadInv
  <1>9. Agrees(batch.staged)' /\ Agrees(lane.head)'
    BY <1>5, <1>6, <1>7, <1>8, Zenon DEF Agrees
  <1>10. source.art <= source.ev /\ disk'.ev <= source.ev
    BY Zenon DEF HeadInv, Follows
  <1>11. batch'.staged.rev # 0 => batch'.staged.rev # lane'.base
    BY <1>2, <1>4, Zenon DEF HeadInv, Follows
  <1>12. lane'.head.rev # 0 => lane'.at = "done" /\ (anchor.rev = lane'.base =>
                                                     Corpus(anchor) = Corpus(lane'.head))
    <2>1. CASE lane'.head = lane.head /\ (lane.at = "done" => lane'.at = "done")
      BY <2>1, Zenon DEF HeadInv
    <2>2. CASE lane'.head = NoHead
      BY <1>4, <2>2, Zenon
    <2>3. CASE /\ lane'.head = disk' /\ Follows(disk') /\ lane'.at = "done"
               /\ disk.rev = lane.base /\ Corpus(disk') = Corpus(disk)
      BY <2>3, Zenon DEF HeadInv, Agrees
    <2> QED
      BY <2>1, <2>2, <2>3, Zenon
  <1> QED
    BY <1>3, <1>4, <1>9, <1>10, <1>11, <1>12, Zenon DEF HeadInv

\* Finishing an attempt keeps the invariant: the commit is conditional on the base of
\* the attempt, and the anchor moves with the corpus that is installed.
LEMMA FinishKeepsInv ==
    ASSUME IInv, FinishSteps
    PROVE  IInv'
  <1> USE DEF IInv
  <1>0. /\ FinishKeeps /\ pc \in {"commit", "apply"} /\ active = NoAttempt
    BY Zenon DEF FinishSteps, FinishCancelled, Commit, Apply, TaskInv
  <1>1. \A r \in Resets : permit[r] \notin {"quiesced", "fence", "held"}
    BY <1>0, Quiet, Zenon
  <1>2. NoHead.rev = 0 /\ NoHead.ev = 0
    BY Zenon DEF NoHead
  <1>3. /\ NoBatch.staged = NoHead /\ NoBatch.base = NoHead /\ NoBatch.cand = "none"
        /\ NoBatch \in Batches
    BY Blank, Zenon DEF NoBatch
  <1>4. Agrees(NoHead)
    BY <1>2, Fields DEF Agrees, HeadInv
  <1>5. CASE FinishCancelled
    <2>1. /\ line' = Without(line, "attempt") /\ batch' = NoBatch /\ pc' = "loop"
          /\ UNCHANGED <<lane, installed, anchor, disk>>
      BY <1>5, Zenon DEF FinishCancelled
    <2>2. line' \in Seq(FenceUsers) /\ (\A x : x # "attempt" /\ Holds(x) => Holds(x)')
      BY <2>1, Line, Zenon DEF Typed, Holds
    <2>3. Typed'
      BY <1>0, <1>3, <2>1, <2>2, Zenon DEF Typed, FinishKeeps
    <2>4. GateInv'
      BY <1>0, <2>1, <2>2, Bounds, Zenon DEF GateInv, FinishKeeps
    <2>5. TaskInv'
      BY <1>0, <1>1, <2>1, Zenon DEF TaskInv, FinishKeeps
    <2>6. HeadInv'
      BY <1>0, <1>2, <1>3, <1>4, <2>1 DEF HeadInv, Agrees, FinishKeeps
    <2> QED
      BY <2>3, <2>4, <2>5, <2>6, Zenon
  <1>6. CASE Commit
    <2>1. /\ pc = "commit" /\ Holds("attempt") /\ line' = Tail(line) /\ pc' = "apply"
          /\ UNCHANGED <<lane, installed, anchor>>
          /\ \/ /\ batch' = [batch EXCEPT !.staged = Committed]
                /\ disk' = IF Committed.rev = 0 THEN disk ELSE Committed
             \/ batch' = [batch EXCEPT !.ok = FALSE] /\ disk' = disk
      BY <1>6, Zenon DEF Commit
    <2>2. Committed = NoHead \/ Follows(Committed)
      BY <2>1, CommitFollows, Zenon
    <2>3. Committed \in JournalHead
      BY <2>2, Blank, Zenon DEF Follows
    <2>4. disk' = disk \/ (Follows(disk') /\ Committed = disk')
      BY <1>2, <2>1, <2>2, Zenon
    <2>5. /\ batch' \in Batches /\ batch'.base = batch.base /\ batch'.cand = batch.cand
          /\ batch'.corpus = batch.corpus
          /\ \/ batch'.staged = batch.staged
             \/ batch'.staged = NoHead
             \/ batch'.staged = disk' /\ Follows(disk')
      <3>1. CASE /\ batch' = [batch EXCEPT !.staged = Committed]
                 /\ disk' = IF Committed.rev = 0 THEN disk ELSE Committed
        <4> DEFINE h == Committed
        <4> HIDE DEF h
        <4>1. batch' = [batch EXCEPT !.staged = h] /\ h \in JournalHead
          BY <2>3, <3>1, Zenon DEF h
        <4>2. /\ batch' \in Batches /\ batch'.base = batch.base /\ batch'.cand = batch.cand
              /\ batch'.corpus = batch.corpus /\ batch'.staged = h
          BY <4>1, Zenon DEF Batches, Typed
        <4>3. h = NoHead \/ (h = disk' /\ Follows(disk'))
          BY <2>2, <3>1, Zenon DEF h, Follows
        <4> QED
          BY <4>2, <4>3, Zenon
      <3>2. CASE batch' = [batch EXCEPT !.ok = FALSE] /\ disk' = disk
        <4>1. FALSE \in BOOLEAN
          BY Zenon
        <4> QED
          BY <3>2, <4>1, Zenon DEF Batches, Typed
      <3> QED
        BY <2>1, <3>1, <3>2, Zenon
    <2>6. disk' \in JournalHead
      BY <2>3, <2>4, Zenon DEF Typed
    <2>7. Tail(line) \in Seq(FenceUsers)
      BY <2>1, Line, Zenon DEF Typed, Holds
    <2>8. Typed'
      BY <1>0, <2>1, <2>5, <2>6, <2>7, Zenon DEF Typed, FinishKeeps
    <2>9. GateInv'
      <3>1. lane.at # "writing" /\ orphan = 0
        BY <2>1, Zenon DEF GateInv, Holds
      <3> QED
        BY <1>0, <1>1, <2>1, <3>1, Zenon DEF GateInv, FinishKeeps
    <2>10. TaskInv'
      BY <1>0, <1>1, <2>1, Zenon DEF TaskInv, FinishKeeps
    <2>11. HeadInv'
      <3>1. /\ UNCHANGED <<source, anchor, installed, preloaded, active, lane>>
            /\ lane' \in Lanes
        BY <1>0, <2>1, Zenon DEF FinishKeeps, Typed
      <3> QED
        BY <2>4, <2>5, <3>1, WriteKeeps, Zenon
    <2> QED
      BY <2>8, <2>9, <2>10, <2>11, Zenon
  <1>7. CASE Apply
    <2> DEFINE asked == IF batch.staged.len >= Soft
                        THEN [lane EXCEPT !.pending = batch.staged.rev] ELSE lane
    <2>1. /\ pc = "apply" /\ batch' = NoBatch /\ pc' = "loop" /\ UNCHANGED <<disk, line>>
          /\ installed' = (IF Installs THEN Corpus(batch.staged) ELSE installed)
          /\ anchor' = (IF Installs THEN batch.staged ELSE anchor)
          /\ lane' = NextCompaction(asked)
      BY <1>7, Zenon DEF Apply
    <2>2. /\ asked \in Lanes /\ asked.base = lane.base /\ asked.at = lane.at
          /\ asked.head = lane.head
      <3>1. lane \in Lanes /\ batch.staged.rev \in Nat
        BY Fields, Zenon DEF Typed
      <3> QED
        BY <3>1, Zenon DEF Lanes
    <2> HIDE DEF asked
    <2>3. /\ lane' \in Lanes
          /\ \/ lane' = asked
             \/ lane'.head = NoHead /\ lane'.at = "new" /\ lane.base = 0
      <3> DEFINE new == [Idle EXCEPT !.base = asked.pending, !.at = "new"]
      <3>1. asked.pending \in Nat
        BY <2>2, Zenon DEF Lanes
      <3>2. Idle.head = NoHead /\ Idle \in Lanes
        BY Blank, Zenon DEF Idle
      <3>3. new \in Lanes /\ new.head = NoHead /\ new.at = "new"
        BY <3>1, <3>2, ZenonT(30) DEF Lanes
      <3> QED
        BY <2>1, <2>2, <3>3, Zenon DEF NextCompaction
    <2>4. Corpus(batch.staged) \in Corpora /\ batch.staged \in JournalHead
      BY Fields, Read, Zenon
    <2>5. Typed'
      BY <1>0, <1>3, <2>1, <2>3, <2>4, Zenon DEF Typed, FinishKeeps
    <2>6. GateInv'
      BY <1>0, <1>1, <2>1, <2>2, <2>3, Zenon DEF GateInv, FinishKeeps, Holds
    <2>7. TaskInv'
      BY <1>0, <1>1, <2>1, Zenon DEF TaskInv, FinishKeeps
    <2>8. HeadInv'
      <3>1. Corpus(anchor') = installed'
        BY <2>1, Zenon DEF HeadInv
      <3>2. Agrees(anchor)'
        BY <2>1, Zenon DEF HeadInv, Agrees
      <3>3. lane'.head.rev # 0 => lane'.at = "done" /\ (anchor'.rev = lane'.base =>
                                                        Corpus(anchor') = Corpus(lane'.head))
        <4>1. CASE lane' = asked
          BY <2>1, <2>2, <4>1, Zenon DEF HeadInv, Installs
        <4>2. CASE lane'.head = NoHead
          BY <1>2, <4>2, Zenon
        <4> QED
          BY <2>3, <4>1, <4>2, Zenon
      <3>4. Agrees(lane.head)'
        BY <1>4, <2>1, <2>2, <2>3, Zenon DEF HeadInv, Agrees
      <3>5. NoAttempt.at = "none"
        BY Zenon DEF NoAttempt
      <3> QED
        BY <1>0, <1>2, <1>3, <1>4, <2>1, <3>1, <3>2, <3>3, <3>4, <3>5, Zenon DEF HeadInv, Agrees, FinishKeeps
    <2> QED
      BY <2>5, <2>6, <2>7, <2>8, Zenon
  <1> QED
    BY <1>5, <1>6, <1>7, Zenon DEF FinishSteps

\* The compaction lane keeps the invariant.
LEMMA LaneKeepsInv ==
    ASSUME IInv, LaneSteps
    PROVE  IInv'
  <1> USE DEF IInv
  <1>0. /\ Polls /\ LaneKeeps /\ lane \in Lanes /\ line \in Seq(FenceUsers)
        /\ UNCHANGED <<pc, orphan, disk>>
    BY Zenon DEF LaneSteps, LaneAsksFence, LaneGetsFence, LaneFinishes, Typed
  <1>1. lane # Idle /\ batch = NoBatch /\ pc = "loop" /\ handle
    <2>1. Idle.at = "none"
      BY Zenon DEF Idle
    <2> QED
      BY <1>0, <2>1, Zenon DEF LaneSteps, LaneAsksFence, LaneGetsFence, LaneFinishes, TaskInv, Polls
  <1>2. \A r \in Resets : permit[r] \notin {"quiesced", "fence", "held"}
    BY <1>1, Quiet, Zenon
  <1>3. TaskInv'
    BY <1>0, <1>1, <1>2, Zenon DEF TaskInv, LaneKeeps, callers
  <1>4. CASE LaneAsksFence \/ LaneGetsFence
    <2>1. /\ anchor' = anchor /\ lane.at # "done"
          /\ \/ /\ line' = line /\ Holds("compact")
                /\ lane' = [lane EXCEPT !.at = "writing"]
             \/ /\ line' = Append(line, "compact")
                /\ lane' = [lane EXCEPT !.at = IF line = <<>> THEN "writing" ELSE "queued"]
      BY <1>4, Zenon DEF LaneAsksFence, LaneGetsFence
    <2>2. /\ lane' \in Lanes /\ lane'.head = lane.head /\ lane'.base = lane.base
          /\ lane'.at \in {"writing", "queued"}
          /\ lane'.at = "writing" => \/ line' = line /\ Holds("compact")
                                     \/ line = <<>> /\ line' = Append(line, "compact")
      BY <1>0, <2>1, Zenon DEF Lanes
    <2>3. "compact" \in FenceUsers
      BY Zenon DEF FenceUsers
    <2>4. line' \in Seq(FenceUsers) /\ \A x : Holds(x) => Holds(x)'
      <3>1. line \in Seq(FenceUsers)
        BY <1>0, Zenon
      <3>2. CASE line' = line
        BY <3>1, <3>2, Zenon DEF Holds
      <3>3. CASE line' = Append(line, "compact")
        <4>1. /\ Append(line, "compact") \in Seq(FenceUsers) /\ Append(line, "compact") # <<>>
              /\ line # <<>> => Head(Append(line, "compact")) = Head(line)
          BY <2>3, <3>1, Line, Zenon
        <4> QED
          BY <3>3, <4>1, Zenon DEF Holds
      <3> QED
        BY <2>1, <3>2, <3>3, Zenon
    <2>5. lane'.at = "writing" => Holds("compact")'
      BY <1>0, <2>2, <2>3, Line DEF Holds
    <2>6. Typed'
      BY <1>0, <2>1, <2>2, <2>4, Zenon DEF Typed, LaneKeeps, callers
    <2>7. GateInv'
      BY <1>0, <2>4, <2>5, Zenon DEF GateInv, LaneKeeps, callers
    <2>8. HeadInv'
      BY <1>0, <2>1, <2>2 DEF HeadInv, Agrees, LaneKeeps
    <2> QED
      BY <1>3, <2>6, <2>7, <2>8, Zenon
  <1>5. CASE LaneFinishes
    <2> DEFINE over == [lane EXCEPT !.base = 0, !.at = "none", !.head = NoHead]
    <2>1. anchor' = Reconciled /\ lane' = NextCompaction(over) /\ line' = line
      BY <1>5, Zenon DEF LaneFinishes
    <2>2. /\ over \in Lanes /\ over.head = NoHead /\ over.at = "none"
      BY <1>0, Blank, Zenon DEF Lanes
    <2> HIDE DEF over
    <2>3. lane' \in Lanes /\ lane'.head = NoHead /\ lane'.at \in {"none", "new"}
      <3> DEFINE new == [Idle EXCEPT !.base = over.pending, !.at = "new"]
      <3>1. over.pending \in Nat
        BY <2>2, Zenon DEF Lanes
      <3>2. Idle.head = NoHead /\ Idle \in Lanes
        BY Blank, Zenon DEF Idle
      <3>3. new \in Lanes /\ new.head = NoHead /\ new.at = "new"
        BY <3>1, <3>2, Zenon DEF Lanes
      <3> QED
        BY <2>1, <2>2, <3>3, Zenon DEF NextCompaction
    <2>4. anchor' \in JournalHead /\ Corpus(anchor') = installed /\ Agrees(anchor')
      BY <2>1, Fields, Zenon DEF Reconciled, Typed, HeadInv, Agrees
    <2>5. NoHead.rev = 0 /\ NoHead.ev = 0 /\ NoBatch.staged = NoHead
      BY Zenon DEF NoHead, NoBatch
    <2>6. Typed'
      BY <1>0, <2>1, <2>3, <2>4, Zenon DEF Typed, LaneKeeps, callers
    <2>7. GateInv'
      BY <1>0, <2>1, <2>3, ZenonT(30) DEF GateInv, LaneKeeps, callers, Holds
    <2>8. HeadInv'
      <3>1. Agrees(NoHead)
        BY <2>5, Fields DEF Agrees, HeadInv
      <3> QED
        BY <1>0, <1>1, <2>1, <2>3, <2>4, <2>5, <3>1 DEF HeadInv, Agrees, LaneKeeps
    <2> QED
      BY <1>3, <2>6, <2>7, <2>8, Zenon
  <1> QED
    BY <1>4, <1>5, Zenon DEF LaneSteps

\* A compaction ends and keeps the invariant, wanted or dropped.
LEMMA CompactionKeepsInv ==
    ASSUME IInv, CompactionWrites
    PROVE  IInv' /\ (disk' = disk \/ Follows(disk'))
  <1> USE DEF IInv
  <1> DEFINE base == IF orphan # 0 THEN orphan ELSE lane.base
  <1>1. PICK h \in {Compacted(base), NoHead} :
          /\ disk' = IF h.rev = 0 THEN disk ELSE h
          /\ lane' = IF orphan # 0 THEN lane ELSE [lane EXCEPT !.at = "done", !.head = h]
    BY Zenon DEF CompactionWrites
  <1>2. /\ orphan' = 0 /\ line' = Tail(line) /\ UNCHANGED <<pc, anchor>> /\ LaneKeeps
        /\ lane.at = "writing" \/ orphan # 0
    BY Zenon DEF CompactionWrites
  <1>3. /\ h \in JournalHead
        /\ h = NoHead \/ (Follows(h) /\ disk.rev = base /\ Corpus(h) = Corpus(disk))
    BY CompactionFollows, Blank
  <1> HIDE DEF base
  <1>4. NoHead.rev = 0
    BY Zenon DEF NoHead
  <1>5. (h = NoHead /\ disk' = disk) \/ (h = disk' /\ Follows(disk'))
    BY <1>1, <1>3, <1>4, Zenon DEF Follows
  <1>6. /\ lane' \in Lanes /\ lane'.base = lane.base /\ lane'.at # "writing"
        /\ \/ lane' = lane
           \/ /\ lane'.at = "done" /\ lane'.head = h /\ base = lane.base
              /\ lane.at = "writing"
    <2>1. CASE orphan # 0
      <3>1. lane.at # "writing"
        BY <2>1, Zenon DEF GateInv, Holds
      <3> QED
        BY <1>1, <2>1, <3>1, Zenon DEF Typed
    <2>2. CASE orphan = 0
      <3>1. lane' = [lane EXCEPT !.at = "done", !.head = h] /\ base = lane.base
        BY <1>1, <2>2, Zenon DEF base
      <3> QED
        BY <1>2, <1>3, <2>2, <3>1, Zenon DEF Lanes, Typed
    <2> QED
      BY <2>1, <2>2, Zenon
  <1>7. /\ line # <<>> /\ Tail(line) \in Seq(FenceUsers)
        /\ \A r \in Resets : permit[r] # "held"
    <2>1. Holds("compact") \/ Holds("orphan")
      BY <1>2, Zenon DEF GateInv
    <2>2. line # <<>>
      BY <2>1, Zenon DEF Holds
    <2> QED
      BY <2>1, <2>2, Line, Bounds DEF Typed, GateInv, Holds
  <1>8. Typed'
    BY <1>2, <1>3, <1>5, <1>6, <1>7, Zenon DEF Typed, LaneKeeps, callers
  <1>9. GateInv'
    BY <1>2, <1>6, <1>7, Zenon DEF GateInv, LaneKeeps, callers
  <1>10. TaskInv'
    <2>1. CASE lane' = lane
      BY <1>2, <2>1, Zenon DEF TaskInv, LaneKeeps, callers
    <2>2. CASE lane.at = "writing"
      <3>1. lane # Idle
        BY <2>2 DEF Idle
      <3>2. \A r \in Resets : permit[r] \notin {"quiesced", "fence", "held"}
        BY <3>1, Quiet, Zenon
      <3> QED
        BY <1>2, <3>1, <3>2, Zenon DEF TaskInv, LaneKeeps, callers
    <2> QED
      BY <1>6, <2>1, <2>2, Zenon
  <1>11. HeadInv'
    <2>1. /\ UNCHANGED <<source, anchor, installed, preloaded, active, batch>>
          /\ batch' \in Batches
      BY <1>2, Zenon DEF LaneKeeps, Typed
    <2>2. \/ lane'.head = lane.head /\ (lane.at = "done" => lane'.at = "done")
          \/ lane'.head = NoHead
          \/ /\ lane'.head = disk' /\ Follows(disk') /\ lane'.at = "done"
             /\ disk.rev = lane.base /\ Corpus(disk') = Corpus(disk)
      BY <1>3, <1>4, <1>5, <1>6, Zenon DEF Follows
    <2> QED
      BY <1>5, <1>6, <2>1, <2>2, WriteKeeps, Zenon
  <1> QED
    BY <1>5, <1>8, <1>9, <1>10, <1>11, Zenon

-----------------------------------------------------------------------------
(* The coordinator's task.                                                  *)

\* Dropping the attempt and the lane: a compaction that writes keeps the fence under
\* another name, and whoever else holds it keeps it.
LEMMA DroppedKeeps ==
    ASSUME IInv, pc \notin {"commit", "apply"}, pc' \in {pc, "stopped"}, handle \/ pc' = pc,
           active' = NoAttempt, DropLane, line' = LineWithoutLane(DropJob(line)),
           queue' \in Seq(Commands), DOMAIN permit' = Resets,
           \A r \in Resets : \/ permit'[r] = permit[r]
                             \/ permit[r] = "quiesce" /\ permit'[r] = "quiesced",
           UNCHANGED <<handle, batch, preloaded, installed, anchor, gate, source, disk>>
    PROVE  IInv'
  <1> USE DEF IInv
  <1>1. /\ DropJob(line) \in Seq(FenceUsers)
        /\ \A x : x # "job" /\ Holds(x) => DropJob(line) # <<>> /\ Head(DropJob(line)) = x
    BY Line, Zenon DEF Typed, DropJob, Holds
  <1>2. /\ line' \in Seq(FenceUsers)
        /\ lane.at = "writing" => Holds("orphan")'
        /\ lane.at # "writing" => \A x : x \notin {"job", "compact"} /\ Holds(x) => Holds(x)'
    <2> DEFINE l == DropJob(line)
    <2>1. l \in Seq(FenceUsers)
      BY <1>1, Zenon
    <2>2. CASE lane.at = "writing"
      <3>1. l # <<>>
        BY <1>1, <2>2, Zenon DEF GateInv
      <3>2. line' = <<"orphan">> \o Tail(l)
        BY <2>2, Zenon DEF LineWithoutLane
      <3> HIDE DEF l
      <3> QED
        BY <2>1, <2>2, <3>1, <3>2, Line, Zenon DEF Holds
    <2>3. CASE lane.at # "writing"
      <3>1. line' = Without(l, "compact")
        BY <2>3, Zenon DEF LineWithoutLane
      <3>2. \A x : x \notin {"job", "compact"} /\ Holds(x) => l # <<>> /\ Head(l) = x
        BY <1>1, Zenon
      <3> HIDE DEF l
      <3> QED
        BY <2>1, <2>3, <3>1, <3>2, Line DEF Holds
    <2> QED
      BY <2>2, <2>3, Zenon
  <1>3. /\ lane' = Idle /\ orphan' = IF lane.at = "writing" THEN lane.base ELSE orphan
        /\ Idle.at = "none" /\ Idle.head = NoHead /\ Idle.base = 0
    BY Zenon DEF DropLane, Idle
  <1>4. Typed'
    BY <1>2, <1>3, Blank, Fields, Zenon DEF Typed
  <1>5. GateInv'
    <2>1. orphan' # 0 => Holds("orphan")'
      BY <1>2, <1>3, Zenon DEF GateInv
    <2>2. ASSUME NEW r \in Resets, permit'[r] = "held" PROVE Holds(r)'
      <3>1. Holds(r) /\ r \notin {"job", "compact"}
        BY <2>2, Bounds, Zenon DEF GateInv
      <3>2. lane.at # "writing"
        BY <3>1, Zenon DEF GateInv, Holds
      <3> QED
        BY <1>2, <3>1, <3>2, Zenon
    <2> QED
      BY <1>3, <2>1, <2>2, Zenon DEF GateInv
  <1>6. TaskInv'
    BY <1>3, Zenon DEF TaskInv
  <1>7. HeadInv'
    <2>1. NoAttempt.seen = NoHead /\ NoAttempt.base = NoHead /\ NoAttempt.at = "none"
      BY Zenon DEF NoAttempt
    <2>2. NoHead.rev = 0 /\ NoHead.ev = 0 /\ NoBatch.staged = NoHead
      BY Zenon DEF NoHead, NoBatch
    <2>3. Agrees(NoHead)
      BY <2>2, Fields DEF Agrees, HeadInv
    <2>4. batch = NoBatch
      BY Zenon DEF TaskInv
    <2> QED
      BY <1>3, <2>1, <2>2, <2>3, <2>4, Zenon DEF HeadInv, Agrees
  <1> QED
    BY <1>4, <1>5, <1>6, <1>7, Zenon

\* Start, commands and stop of the coordinator keep the invariant.
LEMMA CoordinatorKeeps ==
    ASSUME IInv, CoordinatorSteps
    PROVE  IInv'
  <1> USE DEF IInv
  <1>1. CASE LoadPersisted
    <2>1. /\ pc = "load" /\ pc' = "first"
          /\ UNCHANGED <<queue, active, batch, lane, orphan, callers, source, disk, line>>
          /\ \/ installed' = Corpus(disk) /\ anchor' = disk /\ preloaded' = disk
             \/ UNCHANGED <<installed, anchor, preloaded>>
      BY <1>1, Zenon DEF LoadPersisted
    <2>2. Corpus(disk) \in Corpora /\ disk \in JournalHead /\ Agrees(disk)
      BY Read, OwnHead, Zenon DEF Typed
    <2>3. Typed'
      BY <2>1, <2>2, Zenon DEF Typed, callers
    <2>4. GateInv'
      BY <2>1, Zenon DEF GateInv, callers, Holds
    <2>5. TaskInv'
      BY <2>1, Zenon DEF TaskInv, callers
    <2>6. HeadInv'
      <3>1. lane = Idle /\ active = NoAttempt
        BY <2>1, Zenon DEF TaskInv
      <3>2. lane.head.rev = 0 /\ active.at = "none"
        BY <3>1, Zenon DEF Idle, NoHead, NoAttempt
      <3> QED
        BY <2>1, <2>2, <3>2 DEF HeadInv, Agrees
    <2> QED
      BY <2>3, <2>4, <2>5, <2>6, Zenon
  <1>2. CASE FirstAttempt
    <2>1. /\ pc = "first" /\ pc' = "loop" /\ StartAttempt(Kinds) /\ active = NoAttempt
          /\ UNCHANGED <<queue, batch, lane, orphan, installed, anchor, handle, gate, permit,
                         source, disk, line>>
      BY <1>2, Zenon DEF FirstAttempt, TaskInv, callers, world
    <2>2. Kinds \in SUBSET Kinds
      BY Zenon
    <2> QED
      BY <2>1, <2>2, StartKeeps, Zenon
  <1>3. CASE ResetReleased
    <2>1. /\ pc = "loop" /\ pc' = "loop" /\ StartAttempt(Kinds) /\ active = NoAttempt
          /\ UNCHANGED <<queue, batch, lane, orphan, installed, anchor, handle, gate, permit,
                         source, disk, line>>
      BY <1>3, Zenon DEF ResetReleased, Polls, callers, world
    <2>2. Kinds \in SUBSET Kinds
      BY Zenon
    <2> QED
      BY <2>1, <2>2, StartKeeps, Zenon
  <1>4. CASE Stop
    <2>1. /\ pc \in {"load", "first", "loop"} /\ pc' = "stopped" /\ active' = NoAttempt /\ DropLane
          /\ line' = LineWithoutLane(DropJob(line)) /\ queue' = <<>>
          /\ UNCHANGED <<handle, batch, preloaded, installed, anchor, gate, permit, source, disk>>
      BY <1>4, Zenon DEF Stop, world
    <2>2. handle
      BY <2>1, Zenon DEF TaskInv
    <2>3. queue' \in Seq(Commands) /\ DOMAIN permit' = Resets
      BY <2>1 DEF Typed
    <2> QED
      BY <2>1, <2>2, <2>3, DroppedKeeps, Zenon
  <1>5. CASE TakeCommand
    <2> DEFINE m == Head(queue)
    <2>1. /\ pc = "loop" /\ queue # <<>> /\ queue' = Tail(queue)
          /\ UNCHANGED <<pc, batch, installed, anchor, handle, gate, source, disk>>
          /\ \/ m.what = "retry" /\ TakeRetry(m.who) /\ UNCHANGED <<lane, orphan, permit>>
             \/ m.what = "quiesce" /\ TakeQuiesce(m.who) /\ UNCHANGED preloaded
      BY <1>5, Zenon DEF TakeCommand, world
    <2>2. m \in Commands /\ queue' \in Seq(Commands)
      BY <2>1 DEF Typed
    <2> HIDE DEF m
    <2>3. CASE m.what = "retry" /\ TakeRetry(m.who) /\ UNCHANGED <<lane, orphan, permit>>
      <3>1. m.who \in Retriers \cup {NoOne}
        BY <2>2, <2>3, Zenon DEF Commands
      <3>2. CASE UNCHANGED <<active, line, preloaded>>
        <4>1. Typed'
          BY <2>1, <2>2, <2>3, <3>2, Zenon DEF Typed
        <4>2. GateInv'
          BY <2>1, <2>3, <3>2, Zenon DEF GateInv, Holds
        <4>3. TaskInv'
          BY <2>1, <2>3, <3>2, Zenon DEF TaskInv
        <4>4. HeadInv'
          BY <2>1, <2>3, <3>2, Beside, Zenon
        <4> QED
          BY <4>1, <4>2, <4>3, <4>4, Zenon
      <3>3. CASE ~UNCHANGED <<active, line, preloaded>>
        <4>1. /\ TryRead /\ preloaded' = NoHead /\ line' = DropJob(line)
              /\ \E scope \in {Kinds, {"events"}} :
                    active' = NewAttempt(scope \cup active.scope, m.who)
          BY <2>3, <3>3, Zenon DEF TakeRetry
        <4>2. PICK scope \in {Kinds, {"events"}} :
                 active' = NewAttempt(scope \cup active.scope, m.who)
          BY <4>1, Zenon
        <4>3. scope \cup active.scope \in SUBSET Kinds
          BY Fields, Zenon DEF Kinds
        <4> QED
          BY <2>1, <2>2, <2>3, <3>1, <4>1, <4>2, <4>3, BegunKeeps, ZenonT(30)
      <3> QED
        BY <3>2, <3>3, Zenon
    <2>4. CASE m.what = "quiesce" /\ TakeQuiesce(m.who) /\ UNCHANGED preloaded
      <3>1. /\ active' = NoAttempt /\ DropLane /\ line' = LineWithoutLane(DropJob(line))
            /\ permit' = [permit EXCEPT ![m.who] = IF @ = "quiesce" THEN "quiesced" ELSE @]
        BY <2>4, Zenon DEF TakeQuiesce
      <3>2. /\ DOMAIN permit' = Resets
            /\ \A r \in Resets : \/ permit'[r] = permit[r]
                                 \/ permit[r] = "quiesce" /\ permit'[r] = "quiesced"
        BY <3>1, Zenon DEF Typed
      <3> QED
        BY <2>1, <2>2, <2>4, <3>1, <3>2, DroppedKeeps, Zenon
    <2> QED
      BY <2>1, <2>3, <2>4, Zenon
  <1> QED
    BY <1>1, <1>2, <1>3, <1>4, <1>5, Zenon DEF CoordinatorSteps

\* The surroundings keep the invariant.
LEMMA SurroundingsKeep ==
    ASSUME IInv,
           \/ OtherTakes \/ OtherGives \/ RpcAges \/ EventAppears \/ ArtifactAppears
           \/ BeginShutdown \/ UNCHANGED vars
    PROVE  IInv'
  <1> USE DEF IInv
  <1>1. CASE OtherTakes \/ OtherGives
    <2>1. UNCHANGED <<coordinator, callers, world, disk>>
      BY <1>1, Zenon DEF OtherTakes, OtherGives
    <2>2. line \in Seq(FenceUsers) /\ "other" \in FenceUsers
      BY Zenon DEF Typed, FenceUsers
    <2>3. line' \in Seq(FenceUsers) /\ \A x : x # "other" => ~Holds(x)
      BY <1>1, <2>2, Line, Zenon DEF OtherTakes, OtherGives, Holds
    <2>4. Typed'
      BY <2>1, <2>3, Zenon DEF Typed, coordinator, callers, world
    <2>5. GateInv'
      BY <2>1, <2>3, Bounds, Zenon DEF GateInv, coordinator, callers
    <2>6. TaskInv'
      BY <2>1, Zenon DEF TaskInv, coordinator, callers
    <2>7. HeadInv'
      BY <2>1, Beside, Zenon DEF coordinator, world
    <2> QED
      BY <2>4, <2>5, <2>6, <2>7, Zenon
  <1>2. CASE EventAppears \/ ArtifactAppears
    <2>1. UNCHANGED <<coordinator, callers, disk, line>>
      BY <1>2, Zenon DEF EventAppears, ArtifactAppears
    <2>2. /\ source' \in [ev : Nat, art : Nat] /\ source.ev <= source'.ev
          /\ source'.art <= source'.ev
      <3>1. source \in [ev : Nat, art : Nat] /\ source.art <= source.ev
        BY Zenon DEF Typed, HeadInv
      <3>2. CASE EventAppears
        <4> DEFINE n == source.ev + 1
                   new == [source EXCEPT !.ev = n]
        <4>1. n \in Nat /\ source.ev <= n /\ source.art <= n
          BY <3>1
        <4> HIDE DEF n
        <4>2. new \in [ev : Nat, art : Nat] /\ new.ev = n /\ new.art = source.art
          BY <3>1, <4>1, Zenon
        <4>3. source' = new
          BY <3>2, Zenon DEF EventAppears, n
        <4> HIDE DEF new
        <4> QED
          BY <4>1, <4>2, <4>3, Zenon
      <3>3. CASE ArtifactAppears
        <4> DEFINE new == [source EXCEPT !.art = source.ev]
        <4>1. new \in [ev : Nat, art : Nat] /\ new.ev = source.ev /\ new.art = source.ev
          BY <3>1, Zenon
        <4>2. source' = new
          BY <3>3, Zenon DEF ArtifactAppears
        <4>3. source.ev <= source.ev
          BY <3>1
        <4> HIDE DEF new
        <4> QED
          BY <4>1, <4>2, <4>3, Zenon
      <3> QED
        BY <1>2, <3>2, <3>3, Zenon
    <2>3. Typed'
      BY <2>1, <2>2, Zenon DEF Typed, coordinator, callers
    <2>4. GateInv' /\ TaskInv'
      BY <2>1, Zenon DEF GateInv, TaskInv, coordinator, callers, Holds
    <2>5. HeadInv'
      <3>1. source'.ev \in Nat /\ source.ev \in Nat /\ disk.ev \in Nat /\ batch.corpus.ev \in Nat
        BY <2>2, Fields, Zenon
      <3> QED
        BY <2>1, <2>2, <3>1 DEF HeadInv, Agrees, coordinator
    <2> QED
      BY <2>3, <2>4, <2>5, Zenon
  <1>3. CASE RpcAges \/ BeginShutdown \/ UNCHANGED vars
    <2>1. UNCHANGED <<pc, queue, active, batch, lane, orphan, preloaded, installed, anchor,
                      callers, source, disk, line>>
      BY <1>3, Zenon DEF RpcAges, BeginShutdown, vars, coordinator, world
    <2>2. Typed'
      BY <2>1, Zenon DEF Typed, callers
    <2>3. GateInv' /\ TaskInv'
      BY <2>1, Zenon DEF GateInv, TaskInv, callers, Holds
    <2>4. HeadInv'
      BY <2>1, Beside, Zenon
    <2> QED
      BY <2>2, <2>3, <2>4, Zenon
  <1> QED
    BY <1>1, <1>2, <1>3, Zenon

-----------------------------------------------------------------------------
LEMMA PoiInit == Init => IInv
  <1> SUFFICES ASSUME Init PROVE IInv
    BY Zenon
  <1>1. Typed
    <2>1. [ev |-> 0, art |-> 0] \in [ev : Nat, art : Nat]
      BY Zenon
    <2>2. <<>> \in Seq(Commands) /\ <<>> \in Seq(FenceUsers) /\ 0 \in Nat
      OBVIOUS
    <2> QED
      BY <2>1, <2>2, Blank, Zenon DEF Init, Typed
  <1>2. GateInv
    BY Zenon DEF Init, GateInv, Idle
  <1>3. TaskInv
    BY Zenon DEF Init, TaskInv
  <1>4. HeadInv
    BY DEF Init, HeadInv, Agrees, NoHead, Empty, Corpus, NoAttempt, NoBatch, Idle
  <1> QED
    BY <1>1, <1>2, <1>3, <1>4, Zenon DEF IInv

LEMMA PoiNext == IInv /\ [Next]_vars => IInv'
  <1> SUFFICES ASSUME IInv, [Next]_vars PROVE IInv'
    BY Zenon
  <1>1. CASE \E scope \in SUBSET Kinds \ {{}} : MaintenanceDue(scope)
    <2>1. PICK scope \in SUBSET Kinds : MaintenanceDue(scope)
      BY <1>1, Zenon
    <2>2. /\ pc = "loop" /\ pc' = "loop" /\ StartAttempt(scope) /\ active = NoAttempt
          /\ UNCHANGED <<queue, batch, lane, orphan, installed, anchor, handle, gate, permit,
                         source, disk, line>>
      BY <2>1, Zenon DEF MaintenanceDue, Polls, callers, world
    <2> QED
      BY <2>2, StartKeeps, Zenon
  <1>2. CASE \E c \in Retriers : CallRetry(c) \/ RetrySteps(c) \/ DropRetry(c)
    BY <1>2, CallersKeep, Zenon
  <1>3. CASE \E r \in Resets : BeginReset(r) \/ ResetSteps(r) \/ OpenGate(r)
    BY <1>3, ResetsKeep, Zenon
  <1> QED
    BY <1>1, <1>2, <1>3, JobKeepsInv, FinishKeepsInv, LaneKeepsInv, CompactionKeepsInv,
       CoordinatorKeeps, SurroundingsKeep, Zenon DEF Next

LEMMA PoiInvariant == Spec => []IInv
  BY PoiInit, PoiNext, PTL DEF Spec

(* While a reset of the public cache holds its permit, the coordinator runs *)
(* no attempt, commits nothing and compacts nothing, and no compaction that *)
(* it dropped still writes.                                                 *)
THEOREM PoiResetIsQuiet == Spec => []ResetIsQuiet
  <1>1. IInv => ResetIsQuiet
    <2> SUFFICES ASSUME IInv, NEW r \in Resets, permit[r] = "held"
                 PROVE  /\ active = NoAttempt /\ pc \notin {"commit", "apply"}
                        /\ lane.at # "writing" /\ orphan = 0
      BY Zenon DEF ResetIsQuiet
    <2>1. active = NoAttempt /\ pc \notin {"commit", "apply"} /\ Holds(r)
      BY Zenon DEF IInv, TaskInv, GateInv
    <2>2. ~Holds("compact") /\ ~Holds("orphan")
      BY <2>1, Bounds, Zenon DEF Holds
    <2> QED
      BY <2>1, <2>2, Zenon DEF IInv, GateInv
  <1> QED
    BY <1>1, PoiInvariant, PTL

(* The anchor is the head of the corpus that is installed, and is the       *)
(* journal's head whenever it has its revision, through commits,            *)
(* installations and compactions that end in any order.                     *)
THEOREM PoiAnchor == Spec => []AnchorMatchesCorpus
  <1>1. IInv => AnchorMatchesCorpus
    BY Zenon DEF IInv, HeadInv, Agrees, AnchorMatchesCorpus
  <1> QED
    BY <1>1, PoiInvariant, PTL

(* No step takes events from the journal or from the corpus that is served, *)
(* and what is served is in the journal.                                    *)
THEOREM PoiKeepsEvents == Spec => CorpusNeverShrinks
  <1>1. IInv /\ [Next]_vars => [KeepsEvents]_vars
    <2> SUFFICES ASSUME IInv, Next PROVE KeepsEvents
      BY Zenon DEF KeepsEvents
    <2>1. disk.ev \in Nat /\ installed.ev \in Nat
      BY Fields, Zenon DEF IInv
    <2>2. CASE UNCHANGED <<disk, installed>>
      BY <2>1, <2>2 DEF KeepsEvents
    <2>3. CASE Commit
      <3>1. /\ pc = "commit" /\ installed' = installed
            /\ disk' = disk \/ (Committed.rev # 0 /\ disk' = Committed)
        BY <2>3, Zenon DEF Commit
      <3>2. disk' = disk \/ Follows(disk')
        BY <3>1, CommitFollows DEF NoHead
      <3> QED
        BY <2>1, <3>1, <3>2 DEF KeepsEvents, Follows, JournalHead
    <2>4. CASE CompactionWrites
      <3>1. disk' = disk \/ Follows(disk')
        BY <2>4, CompactionKeepsInv, Zenon
      <3>2. installed' = installed
        BY <2>4, Zenon DEF CompactionWrites, LaneKeeps
      <3> QED
        BY <2>1, <3>1, <3>2 DEF KeepsEvents, Follows, JournalHead
    <2>5. CASE Apply
      <3>1. /\ disk' = disk
            /\ installed' = IF Installs THEN Corpus(batch.staged) ELSE installed
        BY <2>5, Zenon DEF Apply
      <3>2. batch.staged.ev <= disk.ev /\ Corpus(batch.staged).ev = batch.staged.ev
        BY Fields, Read, Zenon DEF IInv, HeadInv, Agrees
      <3>3. CASE Installs
        <4>1. installed'.ev = batch.staged.ev /\ installed.ev <= installed'.ev
          BY <3>1, <3>2, <3>3, Zenon DEF Installs
        <4>2. installed.ev \in Nat /\ batch.staged.ev \in Nat /\ disk.ev \in Nat
          BY Fields, Zenon DEF IInv
        <4> QED
          BY <3>1, <3>2, <4>1, <4>2 DEF KeepsEvents
      <3>4. CASE ~Installs
        BY <2>1, <3>1, <3>4 DEF KeepsEvents
      <3> QED
        BY <3>3, <3>4, Zenon
    <2>6. CASE LoadPersisted
      <3>1. disk' = disk /\ (installed' = Corpus(disk) \/ installed' = installed)
        BY <2>6, Zenon DEF LoadPersisted
      <3>2. Corpus(disk).ev = disk.ev /\ Corpus(anchor).ev = anchor.ev
        BY Read, Zenon DEF IInv, Typed
      <3>3. installed.ev <= disk.ev
        BY <3>2, Zenon DEF IInv, HeadInv, Agrees
      <3> QED
        BY <2>1, <3>1, <3>2, <3>3 DEF KeepsEvents
    <2>7. \/ UNCHANGED <<disk, installed>>
          \/ Commit \/ CompactionWrites \/ Apply \/ LoadPersisted
      <3>1. CASE JobSteps
        BY <3>1, Zenon DEF JobSteps, JobLoads, JobLoadFails, JobReadsRpc, JobRpcFails, JobAsksFence,
                    JobLeavesFence, JobFetches, JobFetchFails, JobKeeps, Ends
      <3>2. CASE FinishSteps
        BY <3>2, Zenon DEF FinishSteps, FinishCancelled
      <3>3. CASE LaneSteps
        BY <3>3, Zenon DEF LaneSteps, LaneAsksFence, LaneGetsFence, LaneFinishes, LaneKeeps
      <3>4. CASE CoordinatorSteps
        BY <3>4, Zenon DEF CoordinatorSteps, FirstAttempt, TakeCommand, ResetReleased, Stop
      <3>5. CASE \E c \in Retriers : CallRetry(c) \/ RetrySteps(c) \/ DropRetry(c)
        BY <3>5, Zenon DEF CallRetry, RetrySteps, DropRetry, Look, Spawn, Initialised, EnterRetry,
                    SendRetry, RetryRefused, CallerKeeps
      <3>6. CASE \E r \in Resets : BeginReset(r) \/ ResetSteps(r) \/ OpenGate(r)
        BY <3>6, Zenon DEF BeginReset, ResetSteps, OpenGate, CloseGate, SendQuiesce, QuiesceLost,
                    AskFence, HoldPermit, CancelLease, ResetKeeps
      <3>7. CASE \/ OtherTakes \/ OtherGives \/ RpcAges \/ EventAppears \/ ArtifactAppears
                 \/ BeginShutdown
        BY <3>7, Zenon DEF OtherTakes, OtherGives, RpcAges, EventAppears, ArtifactAppears,
                    BeginShutdown, coordinator
      <3>8. CASE \E scope \in SUBSET Kinds \ {{}} : MaintenanceDue(scope)
        BY <3>8, Zenon DEF MaintenanceDue
      <3> QED
        BY <3>1, <3>2, <3>3, <3>4, <3>5, <3>6, <3>7, <3>8, Zenon DEF Next
    <2> QED
      BY <2>2, <2>3, <2>4, <2>5, <2>6, <2>7, Zenon
  <1> QED
    BY <1>1, PoiInvariant, PTL DEF Spec, CorpusNeverShrinks
=============================================================================
