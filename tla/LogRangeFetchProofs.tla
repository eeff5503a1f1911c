------------------------ MODULE LogRangeFetchProofs -------------------------
(***************************************************************************)
(* Proofs about LogRangeFetch for any range, any upgrade and archive       *)
(* boundaries, any number of concurrent fetches, any budget and any spans. *)
(*                                                                         *)
(* The calls of a fetch ask for each event of each block at most once, and *)
(* for every event a block can hold.  From then on each step only moves    *)
(* events from those still to be asked for to those answered.              *)
(***************************************************************************)
EXTENDS LogRangeFetch, TLAPS

Queries(from, to) == [kinds : SUBSET Kind, from : from..to, to : from..to]

(* What a call, and what a list of calls, asks for *)
AsksFor(c, b, k) == k \in c.kinds /\ b \in c.from..c.to
Asks(s, b, k) == \E i \in DOMAIN s : AsksFor(s[i], b, k)

(* No two calls ask for the same event of the same block *)
Apart(s) ==
  \A i, j \in DOMAIN s : i < j =>
    \A b \in Nat : \A k \in Kind : ~(AsksFor(s[i], b, k) /\ AsksFor(s[j], b, k))

(* The blocks of a stack of segments, and that the segments ascend *)
Covers(u, b) == \E j \in DOMAIN u : b \in u[j][1]..u[j][2]
Below(n, u) == \A j \in DOMAIN u : n < u[j][1]
Ascends(u) == \A i, j \in DOMAIN u : i < j => u[i][2] < u[j][1]

(* What is still to be asked for with the calls c, the first of which has  *)
(* the segments u left                                                     *)
Left(c, u, b, k) == (k \in Head(c).kinds /\ Covers(u, b)) \/ Asks(Tail(c), b, k)

Required(b) == EventsOf(b, chain.v2, chain.legacy)

RunInv(f) ==
  /\ calls[f] # <<>> /\ Apart(calls[f])
  /\ Ascends(Uncovered(f))
  /\ \A b \in Block : Covers(Uncovered(f), b) => b \in Head(calls[f]).from..Head(calls[f]).to
  /\ \A b \in Block : \A k \in Kind :
       /\ got[f][b, k] = 1 => ~Left(calls[f], Uncovered(f), b, k)
       /\ k \in Required(b) => got[f][b, k] = 1 \/ Left(calls[f], Uncovered(f), b, k)

FetchInv(f) ==
  /\ request[f] # <<>> => result[f] = "none"
  /\ \A b \in Block : \A k \in Kind : got[f][b, k] <= 1
  /\ result[f] = "new" => \A b \in Block : \A k \in Kind : got[f][b, k] = 0
  /\ result[f] = "none" => RunInv(f)
  /\ result[f] = "ok" => \A b \in Block : \A k \in Required(b) : got[f][b, k] = 1

IInv == TypeOK /\ \A f \in Fetch : FetchInv(f)

-----------------------------------------------------------------------------
(* Lists of calls.                                                         *)

LEMMA AsksJoin ==
  ASSUME NEW S, NEW s \in Seq(S), NEW t \in Seq(S), NEW b, NEW k
  PROVE  Asks(s \o t, b, k) <=> Asks(s, b, k) \/ Asks(t, b, k)
  <1>1. ASSUME NEW i \in DOMAIN (s \o t)
        PROVE  \/ i \in DOMAIN s /\ (s \o t)[i] = s[i]
               \/ i - Len(s) \in DOMAIN t /\ (s \o t)[i] = t[i - Len(s)]
    OBVIOUS
  <1>2. ASSUME NEW i \in DOMAIN s PROVE i \in DOMAIN (s \o t) /\ (s \o t)[i] = s[i]
    OBVIOUS
  <1>3. ASSUME NEW i \in DOMAIN t
        PROVE  Len(s) + i \in DOMAIN (s \o t) /\ (s \o t)[Len(s) + i] = t[i]
    OBVIOUS
  <1> QED
    BY <1>1, <1>2, <1>3, Zenon DEF Asks

LEMMA ApartJoin ==
  ASSUME NEW S, NEW s \in Seq(S), NEW t \in Seq(S), Apart(s), Apart(t),
         \A b \in Nat : \A k \in Kind : ~(Asks(s, b, k) /\ Asks(t, b, k))
  PROVE  Apart(s \o t)
  <1> SUFFICES ASSUME NEW i \in DOMAIN (s \o t), NEW j \in DOMAIN (s \o t), i < j,
                      NEW b \in Nat, NEW k \in Kind,
                      AsksFor((s \o t)[i], b, k), AsksFor((s \o t)[j], b, k)
               PROVE  FALSE
    BY Zenon DEF Apart
  <1>1. CASE i \in DOMAIN s /\ j \in DOMAIN s
    <2>1. (s \o t)[i] = s[i] /\ (s \o t)[j] = s[j]
      BY <1>1
    <2> QED
      BY <1>1, <2>1, Zenon DEF Apart
  <1>2. CASE i \in DOMAIN s /\ j \notin DOMAIN s
    <2>1. (s \o t)[i] = s[i] /\ (s \o t)[j] = t[j - Len(s)] /\ j - Len(s) \in DOMAIN t
      BY <1>2
    <2> QED
      BY <1>2, <2>1, Zenon DEF Asks
  <1>3. CASE i \notin DOMAIN s
    <2>1. /\ (s \o t)[i] = t[i - Len(s)] /\ i - Len(s) \in DOMAIN t
          /\ (s \o t)[j] = t[j - Len(s)] /\ j - Len(s) \in DOMAIN t
          /\ i - Len(s) < j - Len(s)
      BY <1>3
    <2> QED
      BY <2>1, Zenon DEF Apart
  <1> QED
    BY <1>1, <1>2, <1>3, Zenon

(* A list of one query or none *)
LEMMA OnlyAsks ==
  ASSUME NEW Q, NEW cond \in BOOLEAN, NEW x, cond => x \in Q
  PROVE  /\ Only(cond, x) \in Seq(Q) /\ Apart(Only(cond, x))
         /\ \A b, k : Asks(Only(cond, x), b, k) <=> cond /\ AsksFor(x, b, k)
  <1>1. CASE cond
    <2>1. Only(cond, x) = <<x>>
      BY <1>1, Zenon DEF Only
    <2>2. <<x>> \in Seq(Q) /\ DOMAIN <<x>> = {1} /\ <<x>>[1] = x
      BY <1>1
    <2>3. Apart(<<x>>)
      BY <2>2 DEF Apart
    <2> QED
      BY <1>1, <2>1, <2>2, <2>3, Zenon DEF Asks
  <1>2. CASE ~cond
    <2>1. Only(cond, x) = <<>>
      BY <1>2, Zenon DEF Only
    <2>2. <<>> \in Seq(Q) /\ DOMAIN <<>> = {}
      OBVIOUS
    <2> QED
      BY <1>2, <2>1, <2>2, Zenon DEF Asks, Apart
  <1> QED
    BY <1>1, <1>2, Zenon

(* Another query after a list *)
LEMMA AskMore ==
  ASSUME NEW Q, NEW s \in Seq(Q), Apart(s), NEW cond \in BOOLEAN, NEW x, cond => x \in Q,
         \A b \in Nat : \A k \in Kind : ~(Asks(s, b, k) /\ cond /\ AsksFor(x, b, k))
  PROVE  /\ s \o Only(cond, x) \in Seq(Q) /\ Apart(s \o Only(cond, x))
         /\ \A b, k : Asks(s \o Only(cond, x), b, k) <=>
                        Asks(s, b, k) \/ (cond /\ AsksFor(x, b, k))
  <1>1. /\ Only(cond, x) \in Seq(Q) /\ Apart(Only(cond, x))
        /\ \A b, k : Asks(Only(cond, x), b, k) <=> cond /\ AsksFor(x, b, k)
    BY OnlyAsks, Zenon
  <1>2. s \o Only(cond, x) \in Seq(Q)
    BY <1>1
  <1>3. Apart(s \o Only(cond, x))
    BY <1>1, ApartJoin, Zenon
  <1>4. \A b, k : Asks(s \o Only(cond, x), b, k) <=> Asks(s, b, k) \/ Asks(Only(cond, x), b, k)
    BY <1>1, AsksJoin, Zenon
  <1> QED
    BY <1>1, <1>2, <1>3, <1>4, Zenon

(* What the separate filters ask for, at any block of their range *)
Separately(b, k, v2, legacy) ==
  \/ k = Commitments /\ b <= v2
  \/ k = Transact /\ b >= v2
  \/ k = LegacyShield /\ b >= v2 /\ b <= legacy
  \/ k = Shield /\ b >= v2 /\ b > legacy
  \/ k = Nullifiers

LEMMA Separate ==
  ASSUME NEW from \in Nat, NEW to \in Nat, from <= to, NEW v2 \in Nat, NEW legacy \in Nat
  PROVE  LET s == SeparateQueries(from, to, v2, legacy)
         IN  /\ s \in Seq(Queries(from, to)) /\ s # <<>> /\ Apart(s)
             /\ \A b \in Nat : \A k \in Kind :
                  Asks(s, b, k) <=> b \in from..to /\ Separately(b, k, v2, legacy)
  <1> DEFINE Q == Queries(from, to)
             start == LargerOf(from, v2)
             modern == to >= v2
             q1 == Query({Commitments}, from, SmallerOf(to, v2))
             q2 == Query({Transact}, start, to)
             q3 == Query({LegacyShield}, start, SmallerOf(to, legacy))
             q4 == Query({Shield}, LargerOf(start, legacy + 1), to)
             q5 == Query({Nullifiers}, from, to)
             c1 == from <= v2
             c3 == modern /\ start <= legacy
             c4 == modern /\ to > legacy
             s1 == Only(c1, q1)
             s2 == s1 \o Only(modern, q2)
             s3 == s2 \o Only(c3, q3)
             s4 == s3 \o Only(c4, q4)
             s5 == s4 \o Only(TRUE, q5)
  <1>1. SeparateQueries(from, to, v2, legacy) = s5
    BY Zenon DEF SeparateQueries, Only
  <1>2. /\ c1 => SmallerOf(to, v2) \in from..to
        /\ modern => start \in from..to
        /\ c3 => SmallerOf(to, legacy) \in from..to
        /\ c4 => LargerOf(start, legacy + 1) \in from..to
        /\ from \in from..to /\ to \in from..to
    BY DEF SmallerOf, LargerOf
  <1>3. /\ c1 => q1 \in Q
        /\ modern => q2 \in Q
        /\ c3 => q3 \in Q
        /\ c4 => q4 \in Q
        /\ TRUE => q5 \in Q
    BY <1>2, Zenon DEF Queries, Query, Kind
  <1> HIDE DEF Q
  <1>4. \A b \in Nat : \A k :
          /\ AsksFor(q1, b, k) <=> k = Commitments /\ b \in from..SmallerOf(to, v2)
          /\ AsksFor(q2, b, k) <=> k = Transact /\ b \in start..to
          /\ AsksFor(q3, b, k) <=> k = LegacyShield /\ b \in start..SmallerOf(to, legacy)
          /\ AsksFor(q4, b, k) <=> k = Shield /\ b \in LargerOf(start, legacy + 1)..to
          /\ AsksFor(q5, b, k) <=> k = Nullifiers /\ b \in from..to
    BY Zenon DEF AsksFor, Query
  <1> HIDE DEF q1, q2, q3, q4, q5
  <1>5. /\ Commitments # Transact /\ Commitments # LegacyShield /\ Commitments # Shield
        /\ Commitments # Nullifiers /\ Transact # LegacyShield /\ Transact # Shield
        /\ Transact # Nullifiers /\ LegacyShield # Shield /\ LegacyShield # Nullifiers
        /\ Shield # Nullifiers
    BY DEF Commitments, Transact, LegacyShield, Shield, Nullifiers
  <1>6. c1 \in BOOLEAN /\ modern \in BOOLEAN /\ c3 \in BOOLEAN /\ c4 \in BOOLEAN
    OBVIOUS
  <1> HIDE DEF c1, modern, c3, c4
  <1>a. /\ s1 \in Seq(Q) /\ Apart(s1)
        /\ \A b, k : Asks(s1, b, k) <=> c1 /\ AsksFor(q1, b, k)
    BY <1>3, <1>6, OnlyAsks, Zenon
  <1> HIDE DEF s1
  <1>b. /\ s2 \in Seq(Q) /\ Apart(s2)
        /\ \A b, k : Asks(s2, b, k) <=> Asks(s1, b, k) \/ (modern /\ AsksFor(q2, b, k))
    <2>1. \A b \in Nat : \A k \in Kind : ~(Asks(s1, b, k) /\ modern /\ AsksFor(q2, b, k))
      BY <1>a, <1>4, <1>5, Zenon
    <2> QED
      BY <1>a, <2>1, <1>3, <1>6, AskMore, Zenon
  <1> HIDE DEF s2
  <1>c. /\ s3 \in Seq(Q) /\ Apart(s3)
        /\ \A b, k : Asks(s3, b, k) <=> Asks(s2, b, k) \/ (c3 /\ AsksFor(q3, b, k))
    <2>1. \A b \in Nat : \A k \in Kind : ~(Asks(s2, b, k) /\ c3 /\ AsksFor(q3, b, k))
      BY <1>a, <1>b, <1>4, <1>5, Zenon
    <2> QED
      BY <1>b, <2>1, <1>3, <1>6, AskMore, Zenon
  <1> HIDE DEF s3
  <1>d. /\ s4 \in Seq(Q) /\ Apart(s4)
        /\ \A b, k : Asks(s4, b, k) <=> Asks(s3, b, k) \/ (c4 /\ AsksFor(q4, b, k))
    <2>1. \A b \in Nat : \A k \in Kind : ~(Asks(s3, b, k) /\ c4 /\ AsksFor(q4, b, k))
      BY <1>a, <1>b, <1>c, <1>4, <1>5, Zenon
    <2> QED
      BY <1>c, <2>1, <1>3, <1>6, AskMore, Zenon
  <1> HIDE DEF s4
  <1>e. /\ s5 \in Seq(Q) /\ Apart(s5)
        /\ \A b, k : Asks(s5, b, k) <=> Asks(s4, b, k) \/ (TRUE /\ AsksFor(q5, b, k))
    <2>1. \A b \in Nat : \A k \in Kind : ~(Asks(s4, b, k) /\ TRUE /\ AsksFor(q5, b, k))
      BY <1>a, <1>b, <1>c, <1>d, <1>4, <1>5, Zenon
    <2> QED
      BY <1>d, <2>1, <1>3, AskMore, Zenon
  <1>f. s5 # <<>>
    BY <1>d, <1>3 DEF Only
  <1> HIDE DEF s5
  <1>g. ASSUME NEW b \in Nat, NEW k \in Kind
        PROVE  Asks(s5, b, k) <=> b \in from..to /\ Separately(b, k, v2, legacy)
    <2>1. /\ Asks(s5, b, k) <=>
               \/ c1 /\ k = Commitments /\ b \in from..SmallerOf(to, v2)
               \/ modern /\ k = Transact /\ b \in start..to
               \/ c3 /\ k = LegacyShield /\ b \in start..SmallerOf(to, legacy)
               \/ c4 /\ k = Shield /\ b \in LargerOf(start, legacy + 1)..to
               \/ k = Nullifiers /\ b \in from..to
      <3>1. /\ Asks(s1, b, k) <=> c1 /\ k = Commitments /\ b \in from..SmallerOf(to, v2)
            /\ Asks(s2, b, k) <=> Asks(s1, b, k) \/ (modern /\ k = Transact /\ b \in start..to)
        BY <1>a, <1>b, <1>4, Zenon
      <3>2. Asks(s3, b, k) <=>
              Asks(s2, b, k) \/ (c3 /\ k = LegacyShield /\ b \in start..SmallerOf(to, legacy))
        <4>1. Asks(s3, b, k) <=> Asks(s2, b, k) \/ (c3 /\ AsksFor(q3, b, k))
          BY <1>c, Zenon
        <4>2. AsksFor(q3, b, k) <=> k = LegacyShield /\ b \in start..SmallerOf(to, legacy)
          BY <1>4, Zenon
        <4> QED
          BY <4>1, <4>2, Zenon
      <3>3. Asks(s4, b, k) <=>
              Asks(s3, b, k) \/ (c4 /\ k = Shield /\ b \in LargerOf(start, legacy + 1)..to)
        <4>1. Asks(s4, b, k) <=> Asks(s3, b, k) \/ (c4 /\ AsksFor(q4, b, k))
          BY <1>d, Zenon
        <4>2. AsksFor(q4, b, k) <=> k = Shield /\ b \in LargerOf(start, legacy + 1)..to
          BY <1>4, Zenon
        <4> QED
          BY <4>1, <4>2, Zenon
      <3>4. Asks(s5, b, k) <=> Asks(s4, b, k) \/ (k = Nullifiers /\ b \in from..to)
        BY <1>e, <1>4, Zenon
      <3> QED
        BY <3>1, <3>2, <3>3, <3>4, Zenon
    <2>2. c1 /\ b \in from..SmallerOf(to, v2) <=> b \in from..to /\ b <= v2
      BY DEF c1, SmallerOf
    <2>3. modern /\ b \in start..to <=> b \in from..to /\ b >= v2
      BY DEF modern, LargerOf
    <2>4. c3 /\ b \in start..SmallerOf(to, legacy) <=> b \in from..to /\ b >= v2 /\ b <= legacy
      BY DEF c3, modern, LargerOf, SmallerOf
    <2>5. c4 /\ b \in LargerOf(start, legacy + 1)..to <=> b \in from..to /\ b >= v2 /\ b > legacy
      BY DEF c4, modern, LargerOf
    <2> QED
      BY <2>1, <2>2, <2>3, <2>4, <2>5, Zenon DEF Separately
  <1> QED
    BY <1>1, <1>e, <1>f, <1>g, Zenon DEF Q

(* fetch_logs_for_range_with_provider asks for every event of its blocks,  *)
(* once, and for nothing outside them                                      *)
LEMMA RangeAsks ==
  ASSUME NEW from \in Nat, NEW to \in Nat, from <= to, NEW v2 \in Nat, NEW legacy \in Nat
  PROVE  LET s == RangeQueries(from, to, v2, legacy)
         IN  /\ s \in Seq(Queries(from, to)) /\ s # <<>> /\ Apart(s)
             /\ \A b \in Nat : \A k \in Kind :
                  /\ Asks(s, b, k) => b \in from..to
                  /\ b \in from..to /\ k \in EventsOf(b, v2, legacy) => Asks(s, b, k)
  <1> DEFINE s == RangeQueries(from, to, v2, legacy)
             all == CombinedKinds(from, to, v2, legacy)
             q == Query(all, from, to)
  <1>1. CASE all # {}
    <2>1. s = Only(TRUE, q)
      BY <1>1 DEF RangeQueries, Only
    <2>2. all \in SUBSET Kind
      BY DEF CombinedKinds, Kind
    <2>3. q \in Queries(from, to)
      BY <2>2 DEF Query, Queries
    <2>4. /\ s \in Seq(Queries(from, to)) /\ Apart(s)
          /\ \A b, k : Asks(s, b, k) <=> TRUE /\ AsksFor(q, b, k)
      BY <2>1, <2>3, OnlyAsks, Zenon
    <2>5. \A b, k : AsksFor(q, b, k) <=> k \in all /\ b \in from..to
      BY Zenon DEF AsksFor, Query
    <2>6. ASSUME NEW b \in from..to, NEW k \in EventsOf(b, v2, legacy) PROVE k \in all
      BY <1>1, <2>6 DEF EventsOf, CombinedKinds
    <2>7. s # <<>>
      BY <2>1 DEF Only
    <2> HIDE DEF s, q, all
    <2> QED
      BY <2>4, <2>5, <2>6, <2>7, Zenon DEF s
  <1>2. CASE all = {}
    <2>1. s = SeparateQueries(from, to, v2, legacy)
      BY <1>2 DEF RangeQueries
    <2>2. /\ s \in Seq(Queries(from, to)) /\ s # <<>> /\ Apart(s)
          /\ \A b \in Nat : \A k \in Kind :
               Asks(s, b, k) <=> b \in from..to /\ Separately(b, k, v2, legacy)
      <3> DEFINE p == SeparateQueries(from, to, v2, legacy)
      <3>1. /\ p \in Seq(Queries(from, to)) /\ p # <<>> /\ Apart(p)
            /\ \A b \in Nat : \A k \in Kind :
                 Asks(p, b, k) <=> b \in from..to /\ Separately(b, k, v2, legacy)
        BY Separate, Zenon
      <3> HIDE DEF s
      <3> QED
        BY <2>1, <3>1, Zenon
    <2>3. ASSUME NEW b \in Nat, NEW k \in EventsOf(b, v2, legacy)
          PROVE  Separately(b, k, v2, legacy)
      BY <2>3 DEF EventsOf, Separately
    <2> HIDE DEF s, all
    <2> QED
      BY <2>2, <2>3, Zenon DEF s
  <1> QED
    BY <1>1, <1>2, Zenon

(* The same queries, asked of an endpoint *)
LEMMA AskOf ==
  ASSUME NEW from \in Block, NEW to \in Block, NEW q \in Seq(Queries(from, to)),
         NEW e \in Endpoint
  PROVE  /\ Ask(e, q) \in Seq(Call)
         /\ q # <<>> => Ask(e, q) # <<>>
         /\ Apart(q) => Apart(Ask(e, q))
         /\ \A b, k : Asks(Ask(e, q), b, k) <=> Asks(q, b, k)
  <1>1. DOMAIN Ask(e, q) = DOMAIN q
    BY Zenon DEF Ask
  <1>2. ASSUME NEW i \in DOMAIN q
        PROVE  /\ Ask(e, q)[i] = [kinds |-> q[i].kinds, from |-> q[i].from, to |-> q[i].to,
                                  on |-> e]
               /\ q[i].kinds \in SUBSET Kind /\ q[i].from \in from..to /\ q[i].to \in from..to
    <2>1. q[i] \in Queries(from, to)
      OBVIOUS
    <2> QED
      BY <2>1, Zenon DEF Queries, Ask
  <1>3. \A ks \in SUBSET Kind : \A x, y \in Block :
          LET r == [kinds |-> ks, from |-> x, to |-> y, on |-> e]
          IN  r \in Call /\ r.kinds = ks /\ r.from = x /\ r.to = y
    BY DEF Call
  <1>4. from..to \subseteq Block
    BY RangeAssumption DEF Block
  <1>5. ASSUME NEW i \in DOMAIN q
        PROVE  /\ Ask(e, q)[i] \in Call /\ Ask(e, q)[i].kinds = q[i].kinds
               /\ Ask(e, q)[i].from = q[i].from /\ Ask(e, q)[i].to = q[i].to
    <2>1. q[i].from \in Block /\ q[i].to \in Block
      BY <1>2, <1>4, Zenon
    <2> QED
      <3> DEFINE r == [kinds |-> q[i].kinds, from |-> q[i].from, to |-> q[i].to, on |-> e]
      <3>1. r \in Call /\ r.kinds = q[i].kinds /\ r.from = q[i].from /\ r.to = q[i].to
        BY <1>2, <1>3, <2>1, Zenon
      <3>2. Ask(e, q)[i] = r
        BY <1>2, Zenon
      <3> HIDE DEF r
      <3> QED
        BY <3>1, <3>2, Zenon
  <1>6. Ask(e, q) \in Seq(Call)
    <2>1. Len(q) \in Nat /\ DOMAIN q = 1..Len(q)
      OBVIOUS
    <2>2. Ask(e, q) \in [1..Len(q) -> Call]
      BY <1>5, <2>1, Zenon DEF Ask
    <2> QED
      BY <2>1, <2>2
  <1>7. ASSUME NEW i \in DOMAIN q, NEW b, NEW k
        PROVE  AsksFor(Ask(e, q)[i], b, k) <=> AsksFor(q[i], b, k)
    BY <1>5, Zenon DEF AsksFor
  <1>8. q # <<>> => Ask(e, q) # <<>>
    BY <1>1, <1>6
  <1> QED
    BY <1>1, <1>6, <1>7, <1>8, Zenon DEF Apart, Asks

(* The calls of a logical range ask once for every event its blocks hold:  *)
(* the archive part ends where the rest begins                             *)
LEMMA CallsAsk ==
  ASSUME chain \in Chains, NEW f \in Fetch, NEW archive \in {Archive, RpcOf[f]}
  PROVE  LET c == CallsOf(f, archive)
         IN  /\ c \in Seq(Call) /\ c # <<>> /\ Apart(c)
             /\ \A b \in Block : \A k \in Required(b) : Asks(c, b, k)
  <1> DEFINE v2 == chain.v2
             legacy == chain.legacy
             until == SmallerOf(ToBlock, chain.archive)
             start == StandardStart(FromBlock, chain.archive)
             old == IF HasArchivePart(FromBlock, chain.archive)
                    THEN Ask(archive, RangeQueries(FromBlock, until, v2, legacy)) ELSE <<>>
             new == IF ToBlock > chain.archive
                    THEN Ask(RpcOf[f], RangeQueries(start, ToBlock, v2, legacy)) ELSE <<>>
  <1>1. v2 \in Nat /\ legacy \in Nat /\ chain.archive \in Nat
    BY RangeAssumption
  <1>2. archive \in Endpoint /\ RpcOf[f] \in Endpoint
    BY Zenon DEF Endpoint, Rpcs
  <1>3. CallsOf(f, archive) = old \o new
    BY Zenon DEF CallsOf
  <1>e. <<>> \in Seq(Call) /\ Apart(<<>>) /\ \A b, k : ~Asks(<<>>, b, k)
    BY DEF Apart, Asks
  <1>k. \A b \in Block : b \in Nat /\ Required(b) \subseteq Kind
    BY RangeAssumption DEF Block, Required, EventsOf, Kind
  <1>4. /\ old \in Seq(Call) /\ Apart(old)
        /\ HasArchivePart(FromBlock, chain.archive) => old # <<>>
        /\ \A b \in Nat : \A k \in Kind : Asks(old, b, k) => b <= chain.archive
        /\ \A b \in Block : \A k \in Required(b) : chain.archive > 0 /\ b <= chain.archive => Asks(old, b, k)
    <2>1. CASE HasArchivePart(FromBlock, chain.archive)
      <3>1. /\ FromBlock \in Nat /\ until \in Nat /\ FromBlock <= until /\ until <= chain.archive
            /\ FromBlock \in Block /\ until \in Block
        BY <2>1, <1>1, RangeAssumption DEF HasArchivePart, SmallerOf, Block
      <3>2. ASSUME NEW b \in Block, b <= chain.archive PROVE b \in FromBlock..until
        BY <3>2, <1>1, RangeAssumption DEF SmallerOf, Block
      <3> DEFINE q == RangeQueries(FromBlock, until, v2, legacy)
      <3>3. /\ q \in Seq(Queries(FromBlock, until)) /\ q # <<>> /\ Apart(q)
            /\ \A b \in Nat : \A k \in Kind :
                 /\ Asks(q, b, k) => b \in FromBlock..until
                 /\ b \in FromBlock..until /\ k \in EventsOf(b, v2, legacy) => Asks(q, b, k)
        BY <1>1, <3>1, RangeAsks, Zenon
      <3>4. old = Ask(archive, q)
        BY <2>1, Zenon
      <3>5. \A b \in FromBlock..until : b <= chain.archive
        BY <3>1, <1>1
      <3> HIDE DEF q, until, old
      <3>6. /\ old \in Seq(Call) /\ old # <<>> /\ Apart(old)
            /\ \A b, k : Asks(old, b, k) <=> Asks(q, b, k)
        BY <1>2, <3>1, <3>3, <3>4, AskOf, Zenon
      <3> QED
        BY <1>k, <3>2, <3>3, <3>5, <3>6, Zenon DEF Required
    <2>2. CASE ~HasArchivePart(FromBlock, chain.archive)
      <3>1. old = <<>>
        BY <2>2, Zenon
      <3>2. \A b \in Block : ~(chain.archive > 0 /\ b <= chain.archive)
        BY <2>2, <1>1, RangeAssumption DEF HasArchivePart, Block
      <3> HIDE DEF old
      <3> QED
        BY <2>2, <3>1, <3>2, <1>e, Zenon
    <2> QED
      BY <2>1, <2>2, Zenon
  <1>5. /\ new \in Seq(Call) /\ Apart(new)
        /\ ToBlock > chain.archive => new # <<>>
        /\ \A b \in Nat : \A k \in Kind : Asks(new, b, k) => chain.archive = 0 \/ b > chain.archive
        /\ \A b \in Block : \A k \in Required(b) : chain.archive = 0 \/ b > chain.archive => Asks(new, b, k)
    <2>1. CASE ToBlock > chain.archive
      <3>1. /\ start \in Nat /\ ToBlock \in Nat /\ start <= ToBlock
            /\ start \in Block /\ ToBlock \in Block
        BY <2>1, <1>1, RangeAssumption DEF StandardStart, LargerOf, Block
      <3>2. ASSUME NEW b \in Block, chain.archive = 0 \/ b > chain.archive PROVE b \in start..ToBlock
        BY <3>2, <1>1, RangeAssumption DEF StandardStart, LargerOf, Block
      <3> DEFINE q == RangeQueries(start, ToBlock, v2, legacy)
      <3>3. /\ q \in Seq(Queries(start, ToBlock)) /\ q # <<>> /\ Apart(q)
            /\ \A b \in Nat : \A k \in Kind :
                 /\ Asks(q, b, k) => b \in start..ToBlock
                 /\ b \in start..ToBlock /\ k \in EventsOf(b, v2, legacy) => Asks(q, b, k)
        BY <1>1, <3>1, RangeAsks, Zenon
      <3>4. new = Ask(RpcOf[f], q)
        BY <2>1, Zenon
      <3>5. \A b \in start..ToBlock : chain.archive = 0 \/ b > chain.archive
        BY <1>1, RangeAssumption DEF StandardStart, LargerOf
      <3> HIDE DEF q, start, new
      <3>6. /\ new \in Seq(Call) /\ new # <<>> /\ Apart(new)
            /\ \A b, k : Asks(new, b, k) <=> Asks(q, b, k)
        BY <1>2, <3>1, <3>3, <3>4, AskOf, Zenon
      <3> QED
        BY <1>k, <3>2, <3>3, <3>5, <3>6, Zenon DEF Required
    <2>2. CASE ~(ToBlock > chain.archive)
      <3>1. new = <<>>
        BY <2>2, Zenon
      <3>2. \A b \in Block : ~(chain.archive = 0 \/ b > chain.archive)
        BY <2>2, <1>1, RangeAssumption DEF Block
      <3> HIDE DEF new
      <3> QED
        BY <2>2, <3>1, <3>2, <1>e, Zenon
    <2> QED
      BY <2>1, <2>2, Zenon
  <1>6. HasArchivePart(FromBlock, chain.archive) \/ ToBlock > chain.archive
    BY <1>1, RangeAssumption DEF HasArchivePart
  <1>7. HasArchivePart(FromBlock, chain.archive) => chain.archive > 0
    BY Zenon DEF HasArchivePart
  <1> HIDE DEF old, new
  <1>8. old \o new \in Seq(Call) /\ old \o new # <<>>
    BY <1>4, <1>5, <1>6
  <1>9. \A b, k : Asks(old \o new, b, k) <=> Asks(old, b, k) \/ Asks(new, b, k)
    BY <1>4, <1>5, AsksJoin, Zenon
  <1>10. \A b \in Nat : \A k \in Kind : ~(Asks(old, b, k) /\ Asks(new, b, k))
    <2> SUFFICES ASSUME NEW b \in Nat, NEW k \in Kind, Asks(old, b, k), Asks(new, b, k) PROVE FALSE
      BY Zenon
    <2>1. b <= chain.archive /\ (chain.archive = 0 \/ b > chain.archive)
      BY <1>4, <1>5, Zenon
    <2>2. chain.archive > 0
      <3>1. old # <<>>
        BY <1>e, Zenon
      <3> QED
        BY <1>7, <3>1, Zenon DEF old
    <2> QED
      BY <1>1, <2>1, <2>2
  <1>11. Apart(old \o new)
    BY <1>4, <1>5, <1>10, ApartJoin, Zenon
  <1>12. ASSUME NEW b \in Block, NEW k \in Required(b) PROVE Asks(old, b, k) \/ Asks(new, b, k)
    <2>1. \/ chain.archive > 0 /\ b <= chain.archive
          \/ chain.archive = 0 \/ b > chain.archive
      BY <1>1, <1>k
    <2> QED
      BY <1>4, <1>5, <2>1, Zenon
  <1> QED
    BY <1>3, <1>8, <1>9, <1>11, <1>12, Zenon

(* The first of a list of calls, and the others *)
LEMMA FirstCall ==
  ASSUME NEW c \in Seq(Call), c # <<>>
  PROVE  /\ Head(c) \in Call /\ Tail(c) \in Seq(Call)
         /\ \A b, k : Asks(c, b, k) <=> AsksFor(Head(c), b, k) \/ Asks(Tail(c), b, k)
         /\ Apart(c) => /\ Apart(Tail(c))
                        /\ \A b \in Nat : \A k \in Kind :
                             ~(AsksFor(Head(c), b, k) /\ Asks(Tail(c), b, k))
  <1>1. /\ Head(c) \in Call /\ Tail(c) \in Seq(Call) /\ 1 \in DOMAIN c /\ c[1] = Head(c)
        /\ \A i \in DOMAIN Tail(c) : i + 1 \in DOMAIN c /\ 1 < i + 1 /\ c[i + 1] = Tail(c)[i]
        /\ \A i \in DOMAIN c : i # 1 => i - 1 \in DOMAIN Tail(c) /\ Tail(c)[i - 1] = c[i]
        /\ \A i, j \in DOMAIN Tail(c) : i < j => i + 1 < j + 1
    OBVIOUS
  <1>2. ASSUME NEW b, NEW k
        PROVE  Asks(c, b, k) <=> AsksFor(Head(c), b, k) \/ Asks(Tail(c), b, k)
    BY <1>1, Zenon DEF Asks
  <1>3. ASSUME Apart(c), NEW b \in Nat, NEW k \in Kind, AsksFor(Head(c), b, k),
               Asks(Tail(c), b, k)
        PROVE  FALSE
    <2>1. PICK i \in DOMAIN Tail(c) : AsksFor(Tail(c)[i], b, k)
      BY <1>3, Zenon DEF Asks
    <2> QED
      BY <1>1, <1>3, <2>1, Zenon DEF Apart
  <1>4. ASSUME Apart(c) PROVE Apart(Tail(c))
    <2> SUFFICES ASSUME NEW i \in DOMAIN Tail(c), NEW j \in DOMAIN Tail(c), i < j,
                        NEW b \in Nat, NEW k \in Kind,
                        AsksFor(Tail(c)[i], b, k), AsksFor(Tail(c)[j], b, k)
                 PROVE  FALSE
      BY Zenon DEF Apart
    <2>1. /\ i + 1 \in DOMAIN c /\ j + 1 \in DOMAIN c /\ i + 1 < j + 1
          /\ c[i + 1] = Tail(c)[i] /\ c[j + 1] = Tail(c)[j]
      BY <1>1, Zenon
    <2> QED
      BY <1>4, <2>1, Zenon DEF Apart
  <1> QED
    BY <1>1, <1>2, <1>3, <1>4, Zenon

-----------------------------------------------------------------------------
(* Stacks of segments.                                                     *)

LEMMA Pushed ==
  ASSUME NEW x \in Segment, NEW t \in Seq(Segment)
  PROVE  /\ <<x>> \o t \in Seq(Segment) /\ <<x>> \o t # <<>>
         /\ \A b : Covers(<<x>> \o t, b) <=> b \in x[1]..x[2] \/ Covers(t, b)
         /\ Ascends(<<x>> \o t) <=> Ascends(t) /\ Below(x[2], t)
         /\ \A n : Below(n, <<x>> \o t) <=> n < x[1] /\ Below(n, t)
  <1> DEFINE s == <<x>> \o t
  <1>1. /\ s \in Seq(Segment) /\ s # <<>> /\ 1 \in DOMAIN s /\ s[1] = x
        /\ \A i \in DOMAIN t : i + 1 \in DOMAIN s /\ 1 < i + 1 /\ s[i + 1] = t[i]
        /\ \A i \in DOMAIN s : i # 1 => i - 1 \in DOMAIN t /\ t[i - 1] = s[i]
        /\ \A i, j \in DOMAIN t : i < j => i + 1 < j + 1
        /\ \A i, j \in DOMAIN s : i < j => j # 1 /\ (i = 1 \/ i - 1 < j - 1)
    OBVIOUS
  <1> HIDE DEF s
  <1>2. ASSUME NEW b PROVE Covers(s, b) <=> b \in x[1]..x[2] \/ Covers(t, b)
    BY <1>1, Zenon DEF Covers
  <1>3. ASSUME NEW n PROVE Below(n, s) <=> n < x[1] /\ Below(n, t)
    BY <1>1, Zenon DEF Below
  <1>4. ASSUME Ascends(s) PROVE Ascends(t) /\ Below(x[2], t)
    BY <1>1, <1>4 DEF Ascends, Below
  <1>5. ASSUME Ascends(t), Below(x[2], t) PROVE Ascends(s)
    <2> SUFFICES ASSUME NEW i \in DOMAIN s, NEW j \in DOMAIN s, i < j PROVE s[i][2] < s[j][1]
      BY Zenon DEF Ascends
    <2>1. j # 1 /\ (i = 1 \/ i - 1 < j - 1)
      BY <1>1, Zenon
    <2>2. j - 1 \in DOMAIN t /\ t[j - 1] = s[j]
      BY <1>1, <2>1, Zenon
    <2>3. CASE i = 1
      BY <1>1, <1>5, <2>2, <2>3, Zenon DEF Below
    <2>4. CASE i # 1
      <3>1. i - 1 \in DOMAIN t /\ t[i - 1] = s[i] /\ i - 1 < j - 1
        BY <1>1, <2>1, <2>4, Zenon
      <3>2. t[i - 1][2] < t[j - 1][1]
        BY <1>5, <2>2, <3>1, Zenon DEF Ascends
      <3> QED
        BY <2>2, <3>1, <3>2, Zenon
    <2> QED
      BY <2>3, <2>4, Zenon
  <1> QED
    BY <1>1, <1>2, <1>3, <1>4, <1>5, Zenon DEF s

LEMMA Popped ==
  ASSUME NEW s \in Seq(Segment), s # <<>>
  PROVE  Head(s) \in Segment /\ Tail(s) \in Seq(Segment) /\ s = <<Head(s)>> \o Tail(s)
  OBVIOUS

LEMMA EmptyStack ==
  /\ <<>> \in Seq(Segment) /\ Ascends(<<>>) /\ \A b : ~Covers(<<>>, b)
  /\ \A n : Below(n, <<>>)
  BY DEF Ascends, Covers, Below

LEMMA Lower ==
  ASSUME NEW m \in Int, NEW n \in Int, m <= n, NEW t \in Seq(Segment), Below(n, t)
  PROVE  Below(m, t)
  <1>1. ASSUME NEW j \in DOMAIN t PROVE m < t[j][1]
    <2>1. t[j] \in Segment /\ n < t[j][1]
      BY DEF Below
    <2>2. t[j][1] \in Int
      BY <2>1, RangeAssumption DEF Segment, Block
    <2> QED
      BY <2>1, <2>2
  <1> QED
    BY <1>1, Zenon DEF Below

(* A get_logs call starts with all it asks for *)
LEMMA WholeCall ==
  ASSUME NEW c \in Seq(Call), c # <<>>
  PROVE  LET u == Whole(Head(c))
         IN  /\ u \in Seq(Segment) /\ Ascends(u)
             /\ \A b : Covers(u, b) <=> b \in Head(c).from..Head(c).to
             /\ \A b, k : Left(c, u, b, k) <=> Asks(c, b, k)
  <1> DEFINE x == <<Head(c).from, Head(c).to, NoCap>>
             u == <<x>> \o <<>>
  <1>1. Head(c) \in Call
    BY FirstCall, Zenon
  <1>2. x \in Segment /\ x[1] = Head(c).from /\ x[2] = Head(c).to
    BY <1>1, RangeAssumption DEF Call, Segment, NoCap, Block
  <1>3. Whole(Head(c)) = u
    BY <1>2 DEF Whole
  <1> HIDE DEF x
  <1>4. /\ u \in Seq(Segment) /\ Ascends(u)
        /\ \A b : Covers(u, b) <=> b \in x[1]..x[2]
    BY <1>2, Pushed, EmptyStack, Zenon
  <1>5. \A b : Covers(Whole(Head(c)), b) <=> b \in Head(c).from..Head(c).to
    BY <1>2, <1>3, <1>4, Zenon
  <1>6. \A b, k : Asks(c, b, k) <=> AsksFor(Head(c), b, k) \/ Asks(Tail(c), b, k)
    BY FirstCall, Zenon
  <1>7. ASSUME NEW b, NEW k PROVE Left(c, Whole(Head(c)), b, k) <=> Asks(c, b, k)
    BY <1>5, <1>6, Zenon DEF Left, AsksFor
  <1> QED
    BY <1>3, <1>4, <1>5, <1>7, Zenon

-----------------------------------------------------------------------------
(* The steps.                                                              *)

(* The initial states satisfy the invariant *)
LEMMA RangeInit == Init => IInv
  <1> SUFFICES ASSUME Init PROVE IInv
    BY Zenon
  <1>1. TypeOK
    <2>1. learned \in [Endpoint -> 1..MaxSpan]
      <3>1. MaxSpan \in 1..MaxSpan
        BY RangeAssumption
      <3> QED
        BY <3>1, Zenon DEF Init
    <2>2. <<>> \in Seq(Call) /\ <<>> \in Seq(Segment) /\ 0 \in Nat
      OBVIOUS
    <2>3. got \in [Fetch -> [Block \X Kind -> Nat]]
      BY <2>2, Zenon DEF Init
    <2> QED
      BY <2>1, <2>2, <2>3, Zenon DEF Init, TypeOK
  <1>2. ASSUME NEW f \in Fetch PROVE FetchInv(f)
    <2>1. request[f] = <<>> /\ result[f] = "new"
      BY Zenon DEF Init
    <2>2. ASSUME NEW b \in Block, NEW k \in Kind PROVE got[f][b, k] = 0
      BY Zenon DEF Init
    <2>3. result[f] # "none" /\ result[f] # "ok" /\ 0 <= 1
      BY <2>1
    <2> QED
      BY <2>1, <2>2, <2>3, Zenon DEF FetchInv
  <1> QED
    BY <1>1, <1>2, Zenon DEF IInv

(* A fetch that goes on *)
LEMMA Runs ==
  ASSUME NEW f \in Fetch, result'[f] = "none", RunInv(f)',
         \A b \in Block : \A k \in Kind : got'[f][b, k] <= 1
  PROVE  FetchInv(f)'
  <1>1. "none" # "new" /\ "none" # "ok"
    BY Zenon
  <1> QED
    BY <1>1, Zenon DEF FetchInv

(* A fetch whose part of the state stays *)
LEMMA Frame ==
  ASSUME NEW f \in Fetch, FetchInv(f), chain' = chain, calls'[f] = calls[f],
         pending'[f] = pending[f], request'[f] = request[f], got'[f] = got[f],
         result'[f] = result[f]
  PROVE  FetchInv(f)'
  <1>1. Uncovered(f)' = Uncovered(f)
    BY Zenon DEF Uncovered
  <1>2. \A b : Required(b)' = Required(b)
    BY Zenon DEF Required
  <1> QED
    BY <1>1, <1>2, Zenon DEF FetchInv, RunInv

(* A fetch that goes on with the same blocks to ask for *)
LEMMA SameLeft ==
  ASSUME NEW f \in Fetch, FetchInv(f), result[f] = "none", chain' = chain,
         calls'[f] = calls[f], got'[f] = got[f], result'[f] = "none",
         Ascends(Uncovered(f))',
         \A b \in Block : Covers(Uncovered(f)', b) <=> Covers(Uncovered(f), b)
  PROVE  FetchInv(f)'
  <1>1. \A b : Required(b)' = Required(b)
    BY Zenon DEF Required
  <1>2. \A b \in Block : \A k :
          Left(calls[f], Uncovered(f)', b, k) <=> Left(calls[f], Uncovered(f), b, k)
    BY Zenon DEF Left
  <1>3. RunInv(f)'
    BY <1>1, <1>2, Zenon DEF FetchInv, RunInv
  <1> QED
    BY <1>3, Runs, Zenon DEF FetchInv

(* A fetch that ends with an error *)
LEMMA Fails ==
  ASSUME NEW f \in Fetch, FetchInv(f), got'[f] = got[f], request'[f] = <<>>,
         result'[f] \in {"rejected", "over_budget", "cancelled"}
  PROVE  FetchInv(f)'
  <1>1. result'[f] # "none" /\ result'[f] # "new" /\ result'[f] # "ok"
    OBVIOUS
  <1> QED
    BY <1>1, Zenon DEF FetchInv

(* A step of one fetch leaves the others alone *)
LEMMA OneFetch ==
  ASSUME NEW f \in Fetch, \A g \in Fetch : FetchInv(g), FetchInv(f)', chain' = chain,
         \A g \in Fetch \ {f} :
           /\ calls'[g] = calls[g] /\ pending'[g] = pending[g] /\ request'[g] = request[g]
           /\ got'[g] = got[g] /\ result'[g] = result[g]
  PROVE  \A g \in Fetch : FetchInv(g)'
  <1> SUFFICES ASSUME NEW g \in Fetch \ {f} PROVE FetchInv(g)'
    BY Zenon
  <1> QED
    BY Frame, Zenon

LEMMA BeginStep ==
  ASSUME IInv, NEW f \in Fetch, Begin(f)
  PROVE  IInv'
  <1>0. TypeOK /\ FetchInv(f) /\ result[f] = "new" /\ request[f] = <<>>
    <2>1. TypeOK /\ FetchInv(f) /\ result[f] = "new"
      BY Zenon DEF IInv, Begin
    <2>2. "new" # "none"
      OBVIOUS
    <2> QED
      BY <2>1, <2>2, Zenon DEF FetchInv
  <1>1. CASE \E archive \in {Archive, RpcOf[f]} :
               /\ Return(f, "none")
               /\ calls' = [calls EXCEPT ![f] = CallsOf(f, archive)]
               /\ pending' = [pending EXCEPT ![f] = Whole(Head(CallsOf(f, archive)))]
    <2>1. PICK archive \in {Archive, RpcOf[f]} :
               /\ Return(f, "none")
               /\ calls' = [calls EXCEPT ![f] = CallsOf(f, archive)]
               /\ pending' = [pending EXCEPT ![f] = Whole(Head(CallsOf(f, archive)))]
      BY <1>1, Zenon
    <2> DEFINE c == CallsOf(f, archive)
               u == Whole(Head(c))
    <2>2. /\ c \in Seq(Call) /\ c # <<>> /\ Apart(c)
          /\ \A b \in Block : \A k \in Required(b) : Asks(c, b, k)
      BY <1>0, CallsAsk, Zenon DEF TypeOK
    <2>3. /\ u \in Seq(Segment) /\ Ascends(u)
          /\ \A b : Covers(u, b) <=> b \in Head(c).from..Head(c).to
          /\ \A b, k : Left(c, u, b, k) <=> Asks(c, b, k)
      BY <2>2, WholeCall, Zenon
    <2> HIDE DEF c, u
    <2>4. /\ calls' = [calls EXCEPT ![f] = c] /\ pending' = [pending EXCEPT ![f] = u]
          /\ result' = [result EXCEPT ![f] = "none"]
          /\ UNCHANGED <<chain, limit, learned, issued, request, got, cancelled>>
      BY <2>1, Zenon DEF c, u, Return, Begin, fixed
    <2>5. TypeOK'
      BY <1>0, <2>2, <2>3, <2>4, Zenon DEF TypeOK
    <2>6. /\ calls'[f] = c /\ pending'[f] = u /\ result'[f] = "none"
          /\ \A g \in Fetch \ {f} : /\ calls'[g] = calls[g] /\ pending'[g] = pending[g]
                                    /\ result'[g] = result[g]
      BY <1>0, <2>4, Zenon DEF TypeOK
    <2>7. Uncovered(f)' = u
      BY <1>0, <2>4, <2>6, Zenon DEF Uncovered
    <2>8. FetchInv(f)'
      <3>1. \A b : Required(b)' = Required(b)
        BY <2>4, Zenon DEF Required
      <3>2. \A b \in Block : \A k \in Kind : got'[f][b, k] = 0
        BY <1>0, <2>4, Zenon DEF FetchInv
      <3>3. 0 # 1 /\ 0 <= 1
        OBVIOUS
      <3>4. RunInv(f)'
        BY <2>2, <2>3, <2>6, <2>7, <3>1, <3>2, <3>3, Zenon DEF RunInv
      <3> QED
        BY <2>6, <3>2, <3>3, <3>4, Runs, Zenon
    <2> QED
      BY <2>4, <2>5, <2>6, <2>8, OneFetch, Zenon DEF IInv
  <1>2. CASE Return(f, "rejected") /\ UNCHANGED <<calls, pending>>
    <2>1. /\ result' = [result EXCEPT ![f] = "rejected"]
          /\ UNCHANGED <<chain, limit, learned, issued, calls, pending, request, got, cancelled>>
      BY <1>2, Zenon DEF Return, Begin, fixed
    <2>2. result'[f] = "rejected" /\ \A g \in Fetch \ {f} : result'[g] = result[g]
      BY <1>0, <2>1, Zenon DEF TypeOK
    <2>3. TypeOK'
      BY <1>0, <2>1, Zenon DEF TypeOK
    <2>4. FetchInv(f)'
      BY <1>0, <2>1, <2>2, Fails, Zenon
    <2> QED
      BY <2>1, <2>2, <2>3, <2>4, OneFetch, Zenon DEF IInv
  <1> QED
    BY <1>1, <1>2, Zenon DEF Begin

(* What is known of a running fetch *)
LEMMA RunFacts ==
  ASSUME IInv, NEW f \in Fetch, result[f] = "none"
  PROVE  /\ TypeOK /\ FetchInv(f) /\ RunInv(f)
         /\ calls[f] \in Seq(Call) /\ Head(calls[f]) \in Call
         /\ pending[f] \in Seq(Segment)
         /\ request[f] # <<>> => request[f] \in Segment
         /\ request[f] = <<>> => Uncovered(f) = pending[f]
         /\ request[f] # <<>> => Uncovered(f) = <<request[f]>> \o pending[f]
  <1>1. TypeOK /\ FetchInv(f) /\ RunInv(f)
    BY Zenon DEF IInv, FetchInv
  <1>2. calls[f] \in Seq(Call) /\ pending[f] \in Seq(Segment) /\ request[f] \in Segment \cup {<<>>}
    BY <1>1, Zenon DEF TypeOK
  <1>3. Head(calls[f]) \in Call
    BY <1>1, <1>2, FirstCall, Zenon DEF RunInv
  <1> QED
    BY <1>1, <1>2, <1>3, Zenon DEF Uncovered

(* The number at the end of a segment, and its parts *)
LEMMA SegmentParts ==
  ASSUME NEW x \in Segment
  PROVE  /\ x[1] \in Block /\ x[2] \in Block /\ x[1] \in Nat /\ x[2] \in Nat
         /\ x[3] \in Nat /\ x = <<x[1], x[2], x[3]>>
  BY RangeAssumption DEF Segment, Block

(* A request never reaches beyond its segment, and takes at least a block  *)
LEMMA SpanForFacts ==
  ASSUME TypeOK, NEW f \in Fetch, EndpointOf(f) \in Endpoint, NEW cap \in Nat
  PROVE  SpanFor(f, cap) \in Nat \ {0}
  <1>1. learned[EndpointOf(f)] \in 1..MaxSpan
    BY Zenon DEF TypeOK
  <1>2. SmallerOf(learned[EndpointOf(f)], MaxSpan) \in Nat \ {0}
    BY <1>1, RangeAssumption DEF SmallerOf
  <1> QED
    BY <1>2 DEF SpanFor, SmallerOf, NoCap

LEMMA IssueStep ==
  ASSUME IInv, NEW f \in Fetch, IssueRequest(f)
  PROVE  IInv'
  <1>1. result[f] = "none" /\ request[f] = <<>> /\ pending[f] # <<>>
    BY Zenon DEF IssueRequest, Running
  <1>2. /\ TypeOK /\ FetchInv(f) /\ RunInv(f) /\ Head(calls[f]) \in Call
        /\ pending[f] \in Seq(Segment) /\ Uncovered(f) = pending[f]
    BY <1>1, RunFacts, Zenon
  <1> DEFINE seg == Head(pending[f])
             tl == Tail(pending[f])
             span == SpanFor(f, seg[3])
             end == SmallerOf(seg[1] + span - 1, seg[2])
             x == <<end + 1, seg[2], seg[3]>>
             rest == IF end < seg[2] THEN << x >> ELSE <<>>
             req == <<seg[1], end, seg[3]>>
  <1>3. seg \in Segment /\ tl \in Seq(Segment) /\ pending[f] = <<seg>> \o tl
    BY <1>1, <1>2, Popped, Zenon
  <1>4. /\ pending' = [pending EXCEPT ![f] = rest \o tl]
        /\ UNCHANGED <<chain, limit, learned, calls, got, cancelled>>
        /\ \/ /\ result' = [result EXCEPT ![f] = "cancelled"] \/ result' = [result EXCEPT ![f] = "over_budget"]
              /\ UNCHANGED <<issued, request>>
           \/ Reserve /\ request' = [request EXCEPT ![f] = req] /\ UNCHANGED result
    BY Zenon DEF IssueRequest, Return, fixed
  <1> HIDE DEF seg, tl
  <1>5. /\ seg[1] \in Block /\ seg[2] \in Block /\ seg[1] \in Nat /\ seg[2] \in Nat
        /\ seg[3] \in Nat /\ seg[3] \in 0..(ToBlock - FromBlock + 1)
    BY <1>3, RangeAssumption DEF Segment, Block
  <1>6. span \in Nat \ {0}
    <2>1. EndpointOf(f) \in Endpoint
      BY <1>2, Zenon DEF EndpointOf, Call
    <2> QED
      BY <1>2, <1>5, <2>1, SpanForFacts, Zenon
  <1> HIDE DEF span
  <1>7. /\ end \in Block /\ end \in Nat /\ end <= seg[2]
        /\ end < seg[2] => seg[1] <= end /\ end + 1 \in Block
    BY <1>5, <1>6, RangeAssumption DEF SmallerOf, Block
  <1> HIDE DEF end
  <1>8. /\ req \in Segment /\ req[1] = seg[1] /\ req[2] = end
        /\ end < seg[2] => x \in Segment /\ x[1] = end + 1 /\ x[2] = seg[2]
    BY <1>5, <1>7 DEF Segment
  <1>9. /\ rest \o tl \in Seq(Segment)
        /\ \A b : Covers(rest \o tl, b) <=> (end < seg[2] /\ b \in end + 1..seg[2]) \/ Covers(tl, b)
        /\ Ascends(pending[f]) => Ascends(rest \o tl) /\ Below(end, rest \o tl)
    <2>1. Ascends(pending[f]) => Ascends(tl) /\ Below(seg[2], tl)
      BY <1>3, Pushed, Zenon
    <2>2. Below(seg[2], tl) => Below(end, tl)
      BY <1>3, <1>5, <1>7, Lower
    <2>3. CASE end < seg[2]
      <3>1. rest = <<x>>
        BY <2>3, Zenon
      <3>2. end < x[1]
        BY <1>7, <1>8, <2>3
      <3> HIDE DEF x, rest
      <3>3. /\ <<x>> \o tl \in Seq(Segment)
            /\ \A b : Covers(<<x>> \o tl, b) <=> b \in x[1]..x[2] \/ Covers(tl, b)
            /\ Ascends(<<x>> \o tl) <=> Ascends(tl) /\ Below(x[2], tl)
            /\ \A n : Below(n, <<x>> \o tl) <=> n < x[1] /\ Below(n, tl)
        BY <1>3, <1>8, <2>3, Pushed, Zenon
      <3> QED
        BY <1>8, <2>1, <2>2, <2>3, <3>1, <3>2, <3>3, Zenon
    <2>4. CASE ~(end < seg[2])
      <3>1. rest = <<>>
        BY <2>4, Zenon
      <3> HIDE DEF x, rest
      <3>2. rest \o tl = tl
        BY <1>3, <3>1
      <3> QED
        BY <1>3, <2>1, <2>2, <2>4, <3>2, Zenon
    <2> QED
      BY <2>3, <2>4, Zenon
  <1> DEFINE new == rest \o tl
  <1>a. pending' = [pending EXCEPT ![f] = new]
    BY <1>4, Zenon
  <1> HIDE DEF rest, x, new
  <1>10. /\ new \in Seq(Segment)
         /\ \A b : Covers(new, b) <=> (end < seg[2] /\ b \in end + 1..seg[2]) \/ Covers(tl, b)
         /\ Ascends(new) /\ Below(end, new)
    BY <1>2, <1>9, Zenon DEF new, RunInv
  <1>11. /\ pending'[f] = new
         /\ \A g \in Fetch \ {f} : pending'[g] = pending[g]
         /\ pending' \in [Fetch -> Seq(Segment)]
    BY <1>2, <1>10, <1>a, Zenon DEF TypeOK
  <1>12. CASE /\ result' = [result EXCEPT ![f] = "cancelled"] \/ result' = [result EXCEPT ![f] = "over_budget"]
              /\ UNCHANGED <<issued, request>>
    <2>1. /\ result'[f] \in {"rejected", "over_budget", "cancelled"}
          /\ result' \in [Fetch -> {"new", "none", "ok", "rejected", "over_budget", "cancelled"}]
          /\ \A g \in Fetch \ {f} : result'[g] = result[g]
      BY <1>2, <1>12, Zenon DEF TypeOK
    <2>2. TypeOK'
      BY <1>2, <1>4, <1>11, <1>12, <2>1, Zenon DEF TypeOK
    <2>3. FetchInv(f)'
      BY <1>1, <1>2, <1>4, <1>12, <2>1, Fails, Zenon
    <2> QED
      BY <1>4, <1>11, <1>12, <2>1, <2>2, <2>3, OneFetch, Zenon DEF IInv
  <1>13. CASE Reserve /\ request' = [request EXCEPT ![f] = req] /\ UNCHANGED result
    <2> HIDE DEF req
    <2>1. request'[f] = req /\ \A g \in Fetch \ {f} : request'[g] = request[g]
      BY <1>2, <1>13, Zenon DEF TypeOK
    <2>2. issued' \in Nat
      BY <1>2, <1>13 DEF TypeOK, Reserve
    <2>3. TypeOK'
      BY <1>2, <1>4, <1>8, <1>11, <1>13, <2>2, Zenon DEF TypeOK
    <2>4. Uncovered(f)' = <<req>> \o new
      <3>1. req # <<>>
        BY DEF req
      <3> QED
        BY <1>11, <2>1, <3>1, Zenon DEF Uncovered
    <2>5. /\ \A b : Covers(<<req>> \o new, b) <=> b \in seg[1]..end \/ Covers(new, b)
          /\ Ascends(<<req>> \o new)
      BY <1>8, <1>10, Pushed, Zenon
    <2>6. ASSUME NEW b \in Block PROVE Covers(<<req>> \o new, b) <=> Covers(Uncovered(f), b)
      <3>1. Covers(Uncovered(f), b) <=> b \in seg[1]..seg[2] \/ Covers(tl, b)
        <4>1. Covers(<<seg>> \o tl, b) <=> b \in seg[1]..seg[2] \/ Covers(tl, b)
          BY <1>3, Pushed, Zenon
        <4> QED
          BY <1>2, <1>3, <4>1, Zenon
      <3>2. b \in seg[1]..seg[2] <=> b \in seg[1]..end \/ (end < seg[2] /\ b \in end + 1..seg[2])
        BY <1>5, <1>7, RangeAssumption DEF Block
      <3> QED
        BY <1>10, <2>5, <3>1, <3>2, Zenon
    <2>7. FetchInv(f)'
      BY <1>1, <1>2, <1>4, <1>13, <2>4, <2>5, <2>6, SameLeft, Zenon
    <2> QED
      BY <1>4, <1>11, <1>13, <2>1, <2>3, <2>7, OneFetch, Zenon DEF IInv
  <1> QED
    BY <1>4, <1>12, <1>13, Zenon

LEMMA DoneStep ==
  ASSUME IInv, NEW f \in Fetch, CallDone(f)
  PROVE  IInv'
  <1>1. result[f] = "none" /\ request[f] = <<>> /\ pending[f] = <<>>
    BY Zenon DEF CallDone, Running
  <1>2. /\ TypeOK /\ FetchInv(f) /\ RunInv(f) /\ calls[f] \in Seq(Call)
        /\ Uncovered(f) = <<>> /\ calls[f] # <<>>
    BY <1>1, RunFacts, Zenon DEF RunInv
  <1> DEFINE left == Tail(calls[f])
  <1>3. /\ left \in Seq(Call) /\ Apart(left)
    BY <1>2, FirstCall, Zenon DEF RunInv
  <1>4. ASSUME NEW b \in Block, NEW k \in Kind
        PROVE  /\ got[f][b, k] = 1 => ~Asks(left, b, k)
               /\ k \in Required(b) => got[f][b, k] = 1 \/ Asks(left, b, k)
    BY <1>2, EmptyStack, Zenon DEF RunInv, Left
  <1>5. \A b : Required(b)' = Required(b)
    BY Zenon DEF Required, CallDone, fixed
  <1>6. /\ calls' = [calls EXCEPT ![f] = left]
        /\ UNCHANGED <<chain, limit, learned, issued, request, got, cancelled>>
    BY Zenon DEF CallDone, fixed
  <1>7. calls'[f] = left /\ \A g \in Fetch \ {f} : calls'[g] = calls[g]
    BY <1>2, <1>6, Zenon DEF TypeOK
  <1>8. \A b \in Block : \A k \in Kind : got[f][b, k] <= 1
    BY <1>2, Zenon DEF FetchInv
  <1>9. CASE left = <<>>
    <2>1. result' = [result EXCEPT ![f] = "ok"] /\ UNCHANGED pending
      BY <1>9, Zenon DEF CallDone, Return
    <2>2. result'[f] = "ok" /\ \A g \in Fetch \ {f} : result'[g] = result[g]
      BY <1>2, <2>1, Zenon DEF TypeOK
    <2>3. TypeOK'
      BY <1>2, <1>3, <1>6, <2>1, Zenon DEF TypeOK
    <2>4. ASSUME NEW b \in Block, NEW k \in Required(b) PROVE got[f][b, k] = 1
      <3>1. Required(b) \subseteq Kind
        BY DEF Required, EventsOf, Kind
      <3>2. ~Asks(left, b, k)
        BY <1>9 DEF Asks
      <3> QED
        BY <1>4, <3>1, <3>2, Zenon
    <2>5. FetchInv(f)'
      <3>1. "ok" # "new" /\ "ok" # "none"
        OBVIOUS
      <3> QED
        BY <1>1, <1>5, <1>6, <1>8, <2>2, <2>4, <3>1, Zenon DEF FetchInv
    <2> QED
      BY <1>6, <1>7, <2>1, <2>2, <2>3, <2>5, OneFetch, Zenon DEF IInv
  <1>10. CASE left # <<>>
    <2> DEFINE u == Whole(Head(left))
    <2>1. pending' = [pending EXCEPT ![f] = u] /\ UNCHANGED result
      BY <1>10, Zenon DEF CallDone
    <2> HIDE DEF left
    <2>2. /\ u \in Seq(Segment) /\ Ascends(u)
          /\ \A b : Covers(u, b) <=> b \in Head(left).from..Head(left).to
          /\ \A b, k : Left(left, u, b, k) <=> Asks(left, b, k)
      BY <1>3, <1>10, WholeCall, Zenon
    <2> HIDE DEF u
    <2>3. pending'[f] = u /\ \A g \in Fetch \ {f} : pending'[g] = pending[g]
      BY <1>2, <2>1, Zenon DEF TypeOK
    <2>4. TypeOK'
      BY <1>2, <1>3, <1>6, <2>1, <2>2, Zenon DEF TypeOK
    <2>5. Uncovered(f)' = u
      BY <1>1, <1>6, <2>3, Zenon DEF Uncovered
    <2>6. RunInv(f)'
      BY <1>3, <1>4, <1>5, <1>6, <1>7, <1>10, <2>2, <2>5, Zenon DEF RunInv
    <2>7. FetchInv(f)'
      BY <1>1, <1>6, <1>8, <2>1, <2>6, Runs, Zenon
    <2> QED
      BY <1>6, <1>7, <2>1, <2>3, <2>4, <2>7, OneFetch, Zenon DEF IInv
  <1> QED
    BY <1>9, <1>10, Zenon

LEMMA NotCovered ==
  ASSUME NEW n \in Int, NEW t \in Seq(Segment), Below(n, t), NEW b \in Int, b <= n
  PROVE  ~Covers(t, b)
  <1> SUFFICES ASSUME NEW j \in DOMAIN t, b \in t[j][1]..t[j][2] PROVE FALSE
    BY Zenon DEF Covers
  <1>1. t[j] \in Segment
    OBVIOUS
  <1>2. t[j][1] \in Int /\ t[j][2] \in Int
    BY <1>1, RangeAssumption DEF Segment, Block
  <1>3. n < t[j][1]
    BY Zenon DEF Below
  <1> QED
    BY <1>2, <1>3

(* A request on the wire belongs to a running fetch *)
LEMMA WireFacts ==
  ASSUME IInv, NEW f \in Fetch, request[f] # <<>>
  PROVE  /\ result[f] = "none" /\ TypeOK /\ FetchInv(f) /\ RunInv(f)
         /\ calls[f] \in Seq(Call) /\ Head(calls[f]) \in Call
         /\ pending[f] \in Seq(Segment) /\ request[f] \in Segment
         /\ Uncovered(f) = <<request[f]>> \o pending[f]
         /\ \A b : Covers(Uncovered(f), b) <=>
                     b \in request[f][1]..request[f][2] \/ Covers(pending[f], b)
         /\ Ascends(pending[f]) /\ Below(request[f][2], pending[f])
  <1>1. result[f] = "none"
    BY Zenon DEF IInv, FetchInv
  <1>2. /\ TypeOK /\ FetchInv(f) /\ RunInv(f)
        /\ calls[f] \in Seq(Call) /\ Head(calls[f]) \in Call
        /\ pending[f] \in Seq(Segment) /\ request[f] \in Segment
        /\ Uncovered(f) = <<request[f]>> \o pending[f]
    BY <1>1, RunFacts, Zenon
  <1>3. Ascends(<<request[f]>> \o pending[f])
    BY <1>2, Zenon DEF RunInv
  <1> QED
    <2>1. /\ \A b : Covers(<<request[f]>> \o pending[f], b) <=>
                     b \in request[f][1]..request[f][2] \/ Covers(pending[f], b)
          /\ Ascends(pending[f]) /\ Below(request[f][2], pending[f])
      BY <1>2, <1>3, Pushed, Zenon
    <2> QED
      BY <1>1, <1>2, <2>1, Zenon

LEMMA OnlyZero == \A n \in Nat : \A m : n # 1 /\ n <= 1 /\ m = n + 1 => n = 0 /\ m = 1
  OBVIOUS

LEMMA AnsweredStep ==
  ASSUME IInv, NEW f \in Fetch, Answered(f)
  PROVE  IInv'
  <1> DEFINE r == request[f]
             hd == Head(calls[f])
             Asked(b, k) == b \in r[1]..r[2] /\ k \in hd.kinds
  <1>1. /\ result[f] = "none" /\ TypeOK /\ FetchInv(f) /\ RunInv(f)
        /\ calls[f] \in Seq(Call) /\ hd \in Call /\ calls[f] # <<>> /\ Apart(calls[f])
        /\ pending[f] \in Seq(Segment) /\ r \in Segment
        /\ \A b : Covers(Uncovered(f), b) <=> b \in r[1]..r[2] \/ Covers(pending[f], b)
        /\ Ascends(pending[f]) /\ Below(r[2], pending[f])
    BY WireFacts, Zenon DEF Answered, RunInv
  <1>2. /\ got' = [got EXCEPT ![f] = [e \in Block \X Kind |->
                     IF e[1] \in r[1]..r[2] /\ e[2] \in hd.kinds THEN got[f][e] + 1 ELSE got[f][e]]]
        /\ request' = [request EXCEPT ![f] = <<>>]
        /\ UNCHANGED <<chain, limit, learned, issued, calls, pending, cancelled, result>>
    BY Zenon DEF Answered, fixed
  <1>3. got[f] \in [Block \X Kind -> Nat]
    BY <1>1, Zenon DEF TypeOK
  <1>4. /\ request'[f] = <<>>
        /\ \A g \in Fetch \ {f} : request'[g] = request[g] /\ got'[g] = got[g]
        /\ got'[f] = [e \in Block \X Kind |->
             IF e[1] \in r[1]..r[2] /\ e[2] \in hd.kinds THEN got[f][e] + 1 ELSE got[f][e]]
    BY <1>1, <1>2, Zenon DEF TypeOK
  <1>5. got'[f] \in [Block \X Kind -> Nat]
    BY <1>3, <1>4
  <1>6. ASSUME NEW b \in Block, NEW k \in Kind
        PROVE  /\ got[f][b, k] \in Nat
               /\ got'[f][b, k] = IF Asked(b, k) THEN got[f][b, k] + 1 ELSE got[f][b, k]
    BY <1>3, <1>4, Zenon
  <1>7. TypeOK'
    <2>1. got' \in [Fetch -> [Block \X Kind -> Nat]]
      BY <1>1, <1>2, <1>4, <1>5, Zenon DEF TypeOK
    <2> QED
      BY <1>1, <1>2, <2>1, Zenon DEF TypeOK
  <1>8. Uncovered(f)' = pending[f]
    BY <1>2, <1>4, Zenon DEF Uncovered
  <1>9. \A b : Required(b)' = Required(b)
    BY <1>2, Zenon DEF Required
  <1>10. \A b \in Block : b \in Nat
    BY RangeAssumption DEF Block
  <1> HIDE DEF r, hd, Asked
  <1>11. ASSUME NEW b \in Block, NEW k \in Kind, Asked(b, k)
         PROVE  /\ got[f][b, k] = 0 /\ got'[f][b, k] = 1
                /\ ~Left(calls[f], pending[f], b, k)
    <2>1. b \in r[1]..r[2] /\ k \in hd.kinds /\ Covers(Uncovered(f), b)
      BY <1>1, <1>11, Zenon DEF Asked
    <2>2. got[f][b, k] # 1 /\ got[f][b, k] <= 1
      BY <1>1, <2>1, Zenon DEF RunInv, FetchInv, Left, hd
    <2>3. got[f][b, k] = 0 /\ got'[f][b, k] = 1
      <3>1. got[f][b, k] \in Nat /\ got'[f][b, k] = got[f][b, k] + 1
        BY <1>6, <1>11, Zenon
      <3> QED
        BY <2>2, <3>1, OnlyZero, Zenon
    <2>4. ~Covers(pending[f], b)
      <3>1. r[2] \in Int /\ b \in Int /\ b <= r[2]
        <4>1. r[1] \in Nat /\ r[2] \in Nat
          BY <1>1, SegmentParts, Zenon
        <4> QED
          BY <2>1, <4>1, <1>10
      <3> QED
        BY <1>1, <3>1, NotCovered, Zenon
    <2>5. ~Asks(Tail(calls[f]), b, k)
      <3>1. AsksFor(hd, b, k)
        BY <1>1, <2>1, Zenon DEF AsksFor, RunInv, hd
      <3> QED
        BY <1>1, <1>10, <3>1, FirstCall, Zenon DEF hd
    <2> QED
      BY <2>3, <2>4, <2>5, Zenon DEF Left
  <1>12. ASSUME NEW b \in Block, NEW k \in Kind, ~Asked(b, k)
         PROVE  /\ got'[f][b, k] = got[f][b, k]
                /\ Left(calls[f], pending[f], b, k) <=> Left(calls[f], Uncovered(f), b, k)
    <2>1. got'[f][b, k] = got[f][b, k]
      BY <1>6, <1>12, Zenon
    <2>2. k \in hd.kinds => (Covers(pending[f], b) <=> Covers(Uncovered(f), b))
      BY <1>1, <1>12, Zenon DEF Asked
    <2> QED
      BY <2>1, <2>2, Zenon DEF Left, hd
  <1>13. \A b \in Block : \A k \in Kind :
           /\ got'[f][b, k] <= 1
           /\ got'[f][b, k] = 1 => ~Left(calls[f], pending[f], b, k)
           /\ k \in Required(b) => got'[f][b, k] = 1 \/ Left(calls[f], pending[f], b, k)
    <2> SUFFICES ASSUME NEW b \in Block, NEW k \in Kind
                 PROVE  /\ got'[f][b, k] <= 1
                        /\ got'[f][b, k] = 1 => ~Left(calls[f], pending[f], b, k)
                        /\ k \in Required(b) => got'[f][b, k] = 1 \/ Left(calls[f], pending[f], b, k)
      BY Zenon
    <2>0. 1 <= 1
      OBVIOUS
    <2>1. CASE Asked(b, k)
      BY <1>11, <2>0, <2>1, Zenon
    <2>2. CASE ~Asked(b, k)
      <3>1. /\ got[f][b, k] <= 1
            /\ got[f][b, k] = 1 => ~Left(calls[f], Uncovered(f), b, k)
            /\ k \in Required(b) => got[f][b, k] = 1 \/ Left(calls[f], Uncovered(f), b, k)
        BY <1>1, Zenon DEF RunInv, FetchInv
      <3> QED
        BY <1>12, <2>2, <3>1, Zenon
    <2> QED
      BY <2>1, <2>2, Zenon
  <1>14. \A b \in Block : Covers(pending[f], b) => b \in hd.from..hd.to
    BY <1>1, Zenon DEF RunInv, hd
  <1>15. RunInv(f)'
    BY <1>1, <1>2, <1>8, <1>9, <1>13, <1>14, Zenon DEF RunInv, hd
  <1>16. FetchInv(f)'
    BY <1>1, <1>2, <1>13, <1>15, Runs, Zenon
  <1> QED
    BY <1>2, <1>4, <1>7, <1>16, OneFetch, Zenon DEF IInv

LEMMA FailsStep ==
  ASSUME IInv, NEW f \in Fetch, RequestFails(f)
  PROVE  IInv'
  <1>1. /\ request[f] # <<>> /\ request' = [request EXCEPT ![f] = <<>>]
        /\ \/ result' = [result EXCEPT ![f] = "rejected"]
           \/ result' = [result EXCEPT ![f] = "cancelled"]
        /\ UNCHANGED <<chain, limit, learned, issued, calls, pending, got, cancelled>>
    BY Zenon DEF RequestFails, Return, fixed
  <1>2. TypeOK /\ FetchInv(f)
    BY Zenon DEF IInv
  <1>3. /\ result'[f] \in {"rejected", "over_budget", "cancelled"} /\ request'[f] = <<>>
        /\ result' \in [Fetch -> {"new", "none", "ok", "rejected", "over_budget", "cancelled"}]
        /\ request' \in [Fetch -> Segment \cup {<<>>}]
        /\ \A g \in Fetch \ {f} : result'[g] = result[g] /\ request'[g] = request[g]
    BY <1>1, <1>2, Zenon DEF TypeOK
  <1>4. TypeOK'
    BY <1>1, <1>2, <1>3, Zenon DEF TypeOK
  <1>5. FetchInv(f)'
    BY <1>1, <1>2, <1>3, Fails, Zenon
  <1> QED
    BY <1>1, <1>3, <1>4, <1>5, OneFetch, Zenon DEF IInv

(* A rejected request is put back as it is, or in two halves *)
LEMMA PutBack ==
  ASSUME IInv, NEW f \in Fetch, request[f] # <<>>, NEW stack \in Seq(Segment),
         Ascends(stack), \A b \in Block : Covers(stack, b) <=> Covers(Uncovered(f), b),
         request' = [request EXCEPT ![f] = <<>>], pending' = [pending EXCEPT ![f] = stack],
         learned' \in [Endpoint -> 1..MaxSpan],
         UNCHANGED <<chain, limit, issued, calls, got, cancelled, result>>
  PROVE  IInv'
  <1>1. TypeOK /\ FetchInv(f) /\ result[f] = "none"
    BY WireFacts, Zenon
  <1>2. /\ request'[f] = <<>> /\ pending'[f] = stack
        /\ request' \in [Fetch -> Segment \cup {<<>>}] /\ pending' \in [Fetch -> Seq(Segment)]
        /\ \A g \in Fetch \ {f} : pending'[g] = pending[g] /\ request'[g] = request[g]
    BY <1>1, Zenon DEF TypeOK
  <1>3. TypeOK'
    BY <1>1, <1>2, Zenon DEF TypeOK
  <1>4. Uncovered(f)' = stack
    BY <1>2, Zenon DEF Uncovered
  <1>5. FetchInv(f)'
    BY <1>1, <1>4, SameLeft, Zenon
  <1> QED
    BY <1>2, <1>3, <1>5, OneFetch, Zenon DEF IInv

(* A learned span stays within the configured one *)
LEMMA Narrowed ==
  ASSUME TypeOK, NEW e \in Endpoint, NEW n \in Nat, NarrowLogSpan(e, n)
  PROVE  /\ learned' \in [Endpoint -> 1..MaxSpan]
         /\ \A d \in Endpoint : learned'[d] <= learned[d]
  <1> DEFINE span == SmallerOf(learned[e], LargerOf(n, 1))
  <1>1. learned \in [Endpoint -> 1..MaxSpan] /\ learned' = [learned EXCEPT ![e] = span]
    BY Zenon DEF TypeOK, NarrowLogSpan
  <1>2. learned[e] \in 1..MaxSpan
    BY <1>1, Zenon
  <1>3. span \in 1..MaxSpan /\ span <= learned[e]
    BY <1>2, RangeAssumption DEF SmallerOf, LargerOf
  <1> HIDE DEF span
  <1>4. \A d \in Endpoint : learned[d] <= learned[d]
    BY <1>1, RangeAssumption
  <1> QED
    BY <1>1, <1>3, <1>4, Zenon

LEMMA BlockSpanStep ==
  ASSUME IInv, NEW f \in Fetch, NEW max \in 0..(MaxSpan + 1), BlockSpanLimit(f, max)
  PROVE  IInv' /\ \A d \in Endpoint : learned'[d] <= learned[d]
  <1>1. request[f] # <<>> /\ RejectedSpan(f) > 1
    BY Zenon DEF BlockSpanLimit
  <1>2. /\ TypeOK /\ RunInv(f) /\ Head(calls[f]) \in Call /\ pending[f] \in Seq(Segment)
        /\ request[f] \in Segment /\ Uncovered(f) = <<request[f]>> \o pending[f]
    BY <1>1, WireFacts, Zenon
  <1>3. EndpointOf(f) \in Endpoint
    BY <1>2, Zenon DEF EndpointOf, Call
  <1> DEFINE n == IF max \in 1..(RejectedSpan(f) - 1) THEN max ELSE RejectedSpan(f) \div 2
  <1>4. n \in Nat
    <2>1. request[f][1] \in Nat /\ request[f][2] \in Nat
      BY <1>2, SegmentParts, Zenon
    <2>2. RejectedSpan(f) \in Nat
      BY <1>1, <2>1 DEF RejectedSpan
    <2>3. max \in Nat
      BY RangeAssumption
    <2> QED
      BY <2>2, <2>3
  <1>5. /\ NarrowLogSpan(EndpointOf(f), n)
        /\ pending' = [pending EXCEPT ![f] = <<request[f]>> \o pending[f]]
        /\ request' = [request EXCEPT ![f] = <<>>]
        /\ UNCHANGED <<chain, limit, issued, calls, got, cancelled, result>>
    BY Zenon DEF BlockSpanLimit, fixed
  <1> HIDE DEF n
  <1>6. learned' \in [Endpoint -> 1..MaxSpan] /\ \A d \in Endpoint : learned'[d] <= learned[d]
    BY <1>2, <1>3, <1>4, <1>5, Narrowed, Zenon
  <1>7. <<request[f]>> \o pending[f] \in Seq(Segment)
    BY <1>2, Pushed, Zenon
  <1>8. Ascends(<<request[f]>> \o pending[f])
    BY <1>2, Zenon DEF RunInv
  <1>9. IInv'
    BY <1>1, <1>2, <1>5, <1>6, <1>7, <1>8, PutBack, Zenon
  <1> QED
    BY <1>6, <1>9, Zenon

LEMMA Halves ==
  \A n \in Nat : n > 1 => n \div 2 \in Nat /\ n \div 2 >= 1 /\ n \div 2 < n
  OBVIOUS

LEMMA PushedBoth ==
  ASSUME NEW x \in Segment, NEW y \in Segment, NEW p \in Seq(Segment)
  PROVE  <<x, y>> \o p = <<x>> \o (<<y>> \o p)
  <1> DEFINE q == <<y>> \o p
             a == <<x, y>> \o p
             b == <<x>> \o q
  <1>1. q \in Seq(Segment) /\ Len(q) = Len(p) + 1 /\ \A i \in 1..Len(q) : q[i] = IF i = 1 THEN y ELSE p[i - 1]
    OBVIOUS
  <1> HIDE DEF q
  <1>2. b \in Seq(Segment) /\ Len(b) = Len(p) + 2 /\ \A i \in 1..Len(b) : b[i] = IF i = 1 THEN x ELSE q[i - 1]
    BY <1>1
  <1>3. a \in Seq(Segment) /\ Len(a) = Len(p) + 2
        /\ \A i \in 1..Len(a) : a[i] = IF i = 1 THEN x ELSE IF i = 2 THEN y ELSE p[i - 2]
    OBVIOUS
  <1> HIDE DEF a, b
  <1>4. Len(a) = Len(b) /\ Len(a) \in Nat /\ \A i \in 1..Len(a) : a[i] = b[i]
    <2>1. Len(a) = Len(b) /\ Len(p) \in Nat /\ Len(a) = Len(p) + 2
      BY <1>2, <1>3
    <2>2. ASSUME NEW i \in 1..Len(a) PROVE a[i] = b[i]
      <3>1. CASE i = 1
        BY <1>2, <1>3, <2>1, <3>1
      <3>2. CASE i # 1
        <4>1. i - 1 \in 1..Len(q) /\ i - 1 - 1 = i - 2 /\ (i - 1 = 1 <=> i = 2)
          BY <1>1, <2>1, <3>2
        <4>2. q[i - 1] = IF i = 2 THEN y ELSE p[i - 2]
          BY <1>1, <4>1
        <4> QED
          BY <1>2, <1>3, <2>1, <3>2, <4>2
      <3> QED
        BY <3>1, <3>2, Zenon
    <2> QED
      BY <2>1, <2>2
  <1>5. a = [i \in 1..Len(a) |-> a[i]] /\ b = [i \in 1..Len(b) |-> b[i]]
    BY <1>2, <1>3
  <1>6. a = b
    BY <1>4, <1>5
  <1> QED
    BY <1>6, Zenon DEF a, b, q

LEMMA ResultSizeStep ==
  ASSUME IInv, NEW f \in Fetch, ResultSizeLimit(f)
  PROVE  IInv'
  <1> DEFINE r == request[f]
             first == RejectedSpan(f) \div 2
             mid == r[1] + first - 1
             x == <<r[1], mid, first>>
             y == <<mid + 1, r[2], RejectedSpan(f) - first>>
             s == <<y>> \o pending[f]
             t == <<x>> \o s
  <1>1. request[f] # <<>> /\ RejectedSpan(f) > 1
    BY Zenon DEF ResultSizeLimit
  <1>2. /\ TypeOK /\ pending[f] \in Seq(Segment) /\ r \in Segment
        /\ \A b : Covers(Uncovered(f), b) <=> b \in r[1]..r[2] \/ Covers(pending[f], b)
        /\ Ascends(pending[f]) /\ Below(r[2], pending[f])
    BY <1>1, WireFacts, Zenon
  <1>3. /\ pending' = [pending EXCEPT ![f] = <<x, y>> \o pending[f]]
        /\ request' = [request EXCEPT ![f] = <<>>]
        /\ UNCHANGED <<chain, limit, learned, issued, calls, got, cancelled, result>>
    BY Zenon DEF ResultSizeLimit, fixed
  <1>4. /\ r[1] \in Block /\ r[2] \in Block /\ r[1] \in Nat /\ r[2] \in Nat
        /\ RejectedSpan(f) = r[2] - r[1] + 1
    BY <1>2, SegmentParts, Zenon DEF RejectedSpan
  <1>5. /\ first \in Nat /\ first >= 1 /\ first < RejectedSpan(f)
        /\ RejectedSpan(f) \in Nat
    <2>1. RejectedSpan(f) \in Nat
      BY <1>1, <1>4
    <2> QED
      BY <1>1, <2>1, Halves, Zenon
  <1> HIDE DEF r, first
  <1>6. /\ mid \in Nat /\ r[1] <= mid /\ mid < r[2] /\ mid \in Block /\ mid + 1 \in Block
        /\ first \in 0..(ToBlock - FromBlock + 1)
        /\ RejectedSpan(f) - first \in 0..(ToBlock - FromBlock + 1)
    BY <1>4, <1>5, RangeAssumption DEF Block
  <1> HIDE DEF mid
  <1>7. /\ x \in Segment /\ x[1] = r[1] /\ x[2] = mid
        /\ y \in Segment /\ y[1] = mid + 1 /\ y[2] = r[2]
    BY <1>4, <1>6 DEF Segment
  <1> HIDE DEF x, y
  <1>8. <<x, y>> \o pending[f] = t
    <2>1. x \in Segment /\ y \in Segment /\ pending[f] \in Seq(Segment)
      BY <1>2, <1>7, Zenon
    <2> QED
      BY <2>1, PushedBoth, Zenon
  <1>9. /\ s \in Seq(Segment) /\ Ascends(s)
        /\ \A b : Covers(s, b) <=> b \in mid + 1..r[2] \/ Covers(pending[f], b)
        /\ Below(mid, s)
    <2>1. Below(mid, pending[f])
      BY <1>2, <1>4, <1>6, Lower
    <2>2. mid < y[1]
      BY <1>6, <1>7
    <2> QED
      BY <1>2, <1>7, <2>1, <2>2, Pushed, Zenon
  <1> HIDE DEF s
  <1>10. /\ t \in Seq(Segment) /\ Ascends(t)
         /\ \A b : Covers(t, b) <=> b \in r[1]..mid \/ Covers(s, b)
    BY <1>7, <1>9, Pushed, Zenon
  <1> HIDE DEF t
  <1>11. ASSUME NEW b \in Block PROVE Covers(t, b) <=> Covers(Uncovered(f), b)
    <2>1. b \in r[1]..r[2] <=> b \in r[1]..mid \/ b \in mid + 1..r[2]
      BY <1>4, <1>6, RangeAssumption DEF Block
    <2> QED
      BY <1>2, <1>9, <1>10, <2>1, Zenon
  <1>12. learned' \in [Endpoint -> 1..MaxSpan]
    BY <1>2, <1>3, Zenon DEF TypeOK
  <1> QED
    BY <1>1, <1>3, <1>8, <1>10, <1>11, <1>12, PutBack, Zenon

LEMMA RangeStep == IInv /\ [Next]_vars => IInv'
  <1> SUFFICES ASSUME IInv, [Next]_vars PROVE IInv'
    BY Zenon
  <1>1. ASSUME NEW f \in Fetch, Step(f) PROVE IInv'
    BY <1>1, BeginStep, IssueStep, DoneStep, AnsweredStep, FailsStep, BlockSpanStep,
       ResultSizeStep, Zenon DEF Step
  <1>2. ASSUME UNCHANGED <<chain, limit, learned, issued, calls, pending, request, got, result>>,
               cancelled' \in BOOLEAN
        PROVE  IInv'
    <2>1. TypeOK'
      BY <1>2, Zenon DEF IInv, TypeOK
    <2> QED
      BY <1>2, <2>1, Frame, Zenon DEF IInv
  <1>3. CASE Cancel
    BY <1>2, <1>3, Zenon DEF Cancel, fixed
  <1>4. CASE UNCHANGED vars
    BY <1>2, <1>4, Zenon DEF vars, IInv, TypeOK
  <1> QED
    BY <1>1, <1>3, <1>4, Zenon DEF Next, Returned

(* fetch_logs_for_logical_range and get_logs: at every await, the calls    *)
(* still to be made, the stack of segments and the request on the wire     *)
(* hold exactly what is not answered yet, each block and event once.       *)
THEOREM RangeInvariant == Spec => []IInv
  BY RangeInit, RangeStep, PTL DEF Spec

(* StillToAsk is Left of the calls and the stack *)
LEMMA StillLeft ==
  ASSUME NEW f \in Fetch, calls[f] \in Seq(Call), calls[f] # <<>>, NEW b, NEW k,
         StillToAsk(f, b, k)
  PROVE  Left(calls[f], Uncovered(f), b, k)
  <1>1. PICK i \in DOMAIN calls[f] :
          /\ k \in calls[f][i].kinds
          /\ IF i > 1 THEN b \in calls[f][i].from..calls[f][i].to
             ELSE \E j \in DOMAIN Uncovered(f) : b \in Uncovered(f)[j][1]..Uncovered(f)[j][2]
    BY Zenon DEF StillToAsk
  <1>2. CASE i > 1
    <2>1. i - 1 \in DOMAIN Tail(calls[f]) /\ Tail(calls[f])[i - 1] = calls[f][i]
      BY <1>2
    <2> QED
      BY <1>1, <1>2, <2>1, Zenon DEF Left, Asks, AsksFor
  <1>3. CASE ~(i > 1)
    <2>1. calls[f][i] = Head(calls[f])
      BY <1>3
    <2> QED
      BY <1>1, <1>3, <2>1, Zenon DEF Left, Covers
  <1> QED
    BY <1>2, <1>3, Zenon

(* fetch_logs_for_logical_range: however requests are narrowed and split,  *)
(* by whichever of the concurrent fetches, no event of a block is answered *)
(* twice or asked for again, and Ok means that every event was answered.   *)
THEOREM RangeEveryLogOnce == Spec => []EveryLogOnce
  <1>1. IInv => EveryLogOnce
    <2> SUFFICES ASSUME IInv, NEW f \in Fetch, NEW b \in Block, NEW k \in Kind
                 PROVE  /\ got[f][b, k] <= 1
                        /\ got[f][b, k] = 1 /\ result[f] = "none" => ~StillToAsk(f, b, k)
                        /\ (result[f] = "ok" /\ k \in EventsOf(b, chain.v2, chain.legacy)) =>
                             got[f][b, k] = 1
      BY Zenon DEF EveryLogOnce
    <2>1. FetchInv(f)
      BY Zenon DEF IInv
    <2>2. ASSUME got[f][b, k] = 1, result[f] = "none" PROVE ~StillToAsk(f, b, k)
      <3>1. calls[f] \in Seq(Call) /\ RunInv(f)
        BY <2>2, RunFacts, Zenon
      <3> QED
        BY <2>2, <3>1, StillLeft, Zenon DEF RunInv
    <2> QED
      BY <2>1, <2>2, Zenon DEF FetchInv, Required
  <1> QED
    BY <1>1, RangeInvariant, PTL

(* A step that sends nothing and widens no span *)
LEMMA SendsNothing ==
  ASSUME \A e \in Endpoint : learned'[e] <= learned[e],
         \A f \in Fetch : request'[f] = request[f] \/ request'[f] = <<>>
  PROVE  Narrows
  BY Zenon DEF Narrows

(* A request is sent within the learned span and the cap of its segment *)
LEMMA SentWithin ==
  ASSUME IInv, NEW f \in Fetch, IssueRequest(f)
  PROVE  Narrows
  <1> DEFINE seg == Head(pending[f])
             span == SpanFor(f, seg[3])
             end == SmallerOf(seg[1] + span - 1, seg[2])
             req == <<seg[1], end, seg[3]>>
  <1>1. result[f] = "none" /\ pending[f] # <<>>
    BY Zenon DEF IssueRequest, Running
  <1>2. /\ TypeOK /\ Head(calls[f]) \in Call /\ pending[f] \in Seq(Segment)
    BY <1>1, RunFacts, Zenon
  <1>3. seg[1] \in Nat /\ seg[2] \in Nat /\ seg[3] \in Nat
    <2>1. seg \in Segment
      BY <1>1, <1>2, Popped, Zenon
    <2> QED
      BY <2>1, SegmentParts, Zenon
  <1>4. learned' = learned /\ (request' = request \/ request' = [request EXCEPT ![f] = req])
    BY Zenon DEF IssueRequest
  <1> HIDE DEF seg
  <1>5. learned[EndpointOf(f)] \in 1..MaxSpan /\ \A e \in Endpoint : learned[e] <= learned[e]
    <2>1. EndpointOf(f) \in Endpoint
      BY <1>2, Zenon DEF EndpointOf, Call
    <2>2. learned \in [Endpoint -> 1..MaxSpan]
      BY <1>2, Zenon DEF TypeOK
    <2>3. \A n \in 1..MaxSpan : n <= n
      BY RangeAssumption
    <2> QED
      BY <2>1, <2>2, <2>3, Zenon
  <1>6. /\ span \in Nat /\ span <= learned[EndpointOf(f)]
        /\ seg[3] # NoCap => span <= seg[3]
    BY <1>3, <1>5, RangeAssumption DEF SpanFor, SmallerOf, NoCap
  <1> HIDE DEF span
  <1>7. end \in Int /\ end - seg[1] + 1 <= span
    BY <1>3, <1>6 DEF SmallerOf
  <1> HIDE DEF end
  <1>8. /\ req[1] = seg[1] /\ req[2] = end /\ req[3] = seg[3]
        /\ end - seg[1] + 1 <= learned[EndpointOf(f)]
        /\ seg[3] # NoCap => end - seg[1] + 1 <= seg[3]
    BY <1>3, <1>5, <1>6, <1>7
  <1> HIDE DEF req
  <1>9. CASE request' = request
    BY <1>4, <1>5, <1>9, SendsNothing, Zenon
  <1>10. CASE request' = [request EXCEPT ![f] = req]
    <2>1. request'[f] = req /\ \A g \in Fetch \ {f} : request'[g] = request[g]
      BY <1>2, <1>10, Zenon DEF TypeOK
    <2>2. ASSUME NEW g \in Fetch, request[g] = <<>>, request'[g] # <<>>
          PROVE  LET width == request'[g][2] - request'[g][1] + 1
                 IN  /\ width <= learned[EndpointOf(g)]
                     /\ request'[g][3] # NoCap => width <= request'[g][3]
      <3>1. g = f
        BY <2>1, <2>2, Zenon
      <3> QED
        BY <1>8, <2>1, <3>1, Zenon
    <2> QED
      BY <1>4, <1>5, <2>2, Zenon DEF Narrows
  <1> QED
    BY <1>4, <1>9, <1>10, Zenon

(* QueryRpcPool::narrow_log_span and get_logs: whatever rejections of old  *)
(* and wide requests arrive late, a learned span never widens, and no      *)
(* request exceeds the span learned before it or the cap of its segment.   *)
THEOREM RangeSpansNarrow == Spec => SpansNarrow
  <1>1. IInv /\ [Next]_vars => [Narrows]_vars
    <2> SUFFICES ASSUME IInv, Next PROVE Narrows
      BY Zenon DEF vars
    <2>1. \A e \in Endpoint : learned[e] <= learned[e]
      <3>1. learned \in [Endpoint -> 1..MaxSpan]
        BY Zenon DEF IInv, TypeOK
      <3>2. \A n \in 1..MaxSpan : n <= n
        BY RangeAssumption
      <3> QED
        BY <3>1, <3>2, Zenon
    <2>2. ASSUME NEW f \in Fetch, request' = [request EXCEPT ![f] = <<>>]
          PROVE  \A g \in Fetch : request'[g] = request[g] \/ request'[g] = <<>>
      BY <2>2, Zenon DEF IInv, TypeOK
    <2>3. ASSUME NEW f \in Fetch, Begin(f) \/ CallDone(f) PROVE Narrows
      BY <2>1, <2>3, SendsNothing, Zenon DEF Begin, CallDone
    <2>4. ASSUME NEW f \in Fetch, IssueRequest(f) PROVE Narrows
      BY <2>4, SentWithin, Zenon
    <2>5. ASSUME NEW f \in Fetch, Answered(f) \/ RequestFails(f) \/ ResultSizeLimit(f)
          PROVE  Narrows
      <3>1. learned' = learned /\ request' = [request EXCEPT ![f] = <<>>]
        BY <2>5, Zenon DEF Answered, RequestFails, ResultSizeLimit
      <3> QED
        BY <2>1, <2>2, <3>1, SendsNothing, Zenon
    <2>6. ASSUME NEW f \in Fetch, NEW max \in 0..(MaxSpan + 1), BlockSpanLimit(f, max)
          PROVE  Narrows
      <3>1. \A d \in Endpoint : learned'[d] <= learned[d]
        BY <2>6, BlockSpanStep, Zenon
      <3>2. request' = [request EXCEPT ![f] = <<>>]
        BY <2>6, Zenon DEF BlockSpanLimit
      <3> QED
        BY <2>2, <3>1, <3>2, SendsNothing, Zenon
    <2>7. CASE Cancel \/ Returned
      BY <2>1, <2>7, SendsNothing, Zenon DEF Cancel, Returned, vars
    <2> QED
      BY <2>3, <2>4, <2>5, <2>6, <2>7, Zenon DEF Next, Step
  <1> QED
    BY <1>1, RangeInvariant, PTL DEF Spec, SpansNarrow
=============================================================================
