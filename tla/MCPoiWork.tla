------------------------------ MODULE MCPoiWork -----------------------------
(* The wallet's POI maintenance: one own output on two lists, one of which *)
(* may refuse it, one output of either kind on one list with a             *)
(* reorganisation, faults, an aborted job or a forced refresh, and a group *)
(* of two recovered outgoing outputs.                                      *)
(* The chain's sender: one output with two inputs, and two outputs of the  *)
(* same transaction or of two.                                             *)
EXTENDS Naturals, Sequences, FiniteSets, TLC

CONSTANTS None, o1, o2, t1, t2, la, lb, p1, p2

VARIABLES
    part,    \* the instance that this behaviour runs
    role, mode, at, seen, ctx, rec, due, utxo, truth, blocked, sent, gen, ready, ctl, job,
    forced, mail, left, txid, routed, entry, queue, task, retry, refresh, sched, wallet, accepted,
    inputs, faults, stopped

poiVars ==
    <<role, mode, at, seen, ctx, rec, due, utxo, truth, blocked, sent, gen, ready, ctl, job,
    forced, mail, left>>
sendVars ==
    <<txid, routed, entry, queue, task, retry, refresh, sched, wallet, accepted, inputs,
    faults, stopped>>
allVars == <<part, poiVars, sendVars>>

NoPoi ==
    /\ role = None /\ at = None /\ seen = None /\ ctx = None /\ rec = None
    /\ due = None /\ utxo = None /\ truth = None /\ sent = None /\ gen = None
    /\ ready = None /\ ctl = None /\ job = None /\ forced = None /\ mail = None
    /\ left = None /\ mode = None /\ blocked = None
NoSend ==
    /\ txid = None /\ routed = None /\ entry = None /\ queue = None /\ task = None
    /\ retry = None /\ refresh = None /\ sched = None /\ wallet = None /\ accepted = None
    /\ inputs = None /\ faults = None /\ stopped = None

Budget(r, a, f, x, b) == [reorg |-> r, abort |-> a, force |-> f, fault |-> x, block |-> b]
Own == part \in {"pair", "single"}
Poi == Own \/ part = "group"

Pair == INSTANCE OutputPoi WITH
    Output <- {o1}, Tx <- {t1, t2}, List <- {la, lb}, Active <- {la, lb},
    Roles <- [{o1} -> {"Change"}],
    Settings <- {<<"indexed", Budget(0, 0, 0, 1, 0)>>, <<"proxy", Budget(0, 0, 0, 0, 1)>>},
    Proofs <- {{la, lb}, {la}}
Single == INSTANCE OutputPoi WITH
    Output <- {o1}, Tx <- {t1, t2}, List <- {la}, Active <- {la},
    Roles <- [{o1} -> {"Change", "Recipient"}],
    Settings <- {<<"proxy", Budget(1, 1, 0, 0, 0)>>, <<"fallback", Budget(0, 0, 1, 1, 0)>>,
                 <<"proxy", Budget(1, 0, 0, 1, 0)>>, <<"proxy", Budget(1, 0, 1, 0, 0)>>},
    Proofs <- {{la}}
Group == INSTANCE OutputPoi WITH
    Output <- {o1, o2}, Tx <- {t1, t2}, List <- {la}, Active <- {la},
    Roles <- [{o1, o2} -> {"Outgoing"}],
    Settings <- {<<"indexed", Budget(0, 1, 0, 1, 0)>>}, Proofs <- {{la}}
One == INSTANCE PoiSubmitter WITH
    Output <- {o1}, Txid <- {t1, t2}, Lists <- {la, lb}, Position <- {p1, p2}, Final <- p1,
    NoPosition <- None, First <- la, TxidMaps <- {[o \in {o1} |-> t1]}, MaxSends <- 2,
    MaxRoutes <- 1, MaxInput <- 2, MaxFault <- 1
Two == INSTANCE PoiSubmitter WITH
    Output <- {o1, o2}, Txid <- {t1, t2}, Lists <- {la, lb}, Position <- {p1, p2},
    Final <- p1, NoPosition <- None, First <- la,
    TxidMaps <- {o1 :> t1 @@ o2 :> t1, o1 :> t1 @@ o2 :> t2}, MaxSends <- 2,
    MaxRoutes <- 1, MaxInput <- 1, MaxFault <- 1

Init ==
    \/ part = "pair" /\ Pair!Init /\ NoSend
    \/ part = "single" /\ Single!Init /\ NoSend
    \/ part = "group" /\ Group!Init /\ NoSend
    \/ part = "one" /\ One!Init /\ NoPoi
    \/ part = "two" /\ Two!Init /\ NoPoi

Next ==
    \/ part = "pair" /\ Pair!Next /\ UNCHANGED <<part, sendVars>>
    \/ part = "single" /\ Single!Next /\ UNCHANGED <<part, sendVars>>
    \/ part = "group" /\ Group!Next /\ UNCHANGED <<part, sendVars>>
    \/ part = "one" /\ One!Next /\ UNCHANGED <<part, poiVars>>
    \/ part = "two" /\ Two!Next /\ UNCHANGED <<part, poiVars>>

Spec == Init /\ [][Next]_allVars

(* The fairness of the components, of the part that runs *)
PoiFairness ==
    /\ WF_poiVars(
           (part = "pair" /\ Pair!JobStep)
        \/ (part = "single" /\ Single!JobStep)
        \/ (part = "group" /\ Group!JobStep))
    /\ WF_poiVars(
           (part = "pair" /\ Pair!JobDone)
        \/ (part = "single" /\ Single!JobDone)
        \/ (part = "group" /\ Group!JobDone))
    /\ WF_poiVars(
           (part = "pair" /\ Pair!Apply)
        \/ (part = "single" /\ Single!Apply)
        \/ (part = "group" /\ Group!Apply))
    /\ WF_poiVars(
           (part = "pair" /\ Pair!Refresh)
        \/ (part = "single" /\ Single!Refresh)
        \/ (part = "group" /\ Group!Refresh))
    /\ WF_poiVars(
           (part = "pair" /\ Pair!BackfillDone)
        \/ (part = "single" /\ Single!BackfillDone)
        \/ (part = "group" /\ Group!BackfillDone))
    /\ \A o \in {o1, o2} :
       /\ WF_poiVars(
           (part = "pair" /\ o \in DOMAIN role /\ Pair!Scan(o))
        \/ (part = "single" /\ o \in DOMAIN role /\ Single!Scan(o))
        \/ (part = "group" /\ o \in DOMAIN role /\ Group!Scan(o)))
       /\ WF_poiVars(
           (part = "pair" /\ o \in DOMAIN role /\ Pair!Tick(o))
        \/ (part = "single" /\ o \in DOMAIN role /\ Single!Tick(o))
        \/ (part = "group" /\ o \in DOMAIN role /\ Group!Tick(o)))
       /\ \A l \in {la, lb} :
            WF_poiVars(Poi /\ o \in DOMAIN role /\ <<o, at[o], l>> \in sent \ blocked /\ Pair!Validate(o, l))

SendFairness ==
    /\ WF_sendVars((part = "one" /\ One!TaskSteps) \/ (part = "two" /\ Two!TaskSteps))
    /\ WF_sendVars((part = "one" /\ \E t \in task : One!FinishSend(t)) \/ (part = "two" /\ \E t \in task : Two!FinishSend(t)))
    /\ WF_sendVars((part = "one" /\ \E i \in One!Slots : One!OpenRoute(i)) \/ (part = "two" /\ \E i \in Two!Slots : Two!OpenRoute(i)))
    /\ WF_sendVars((part = "one" /\ One!RetryDue) \/ (part = "two" /\ Two!RetryDue))
    /\ WF_sendVars((part = "one" /\ One!GapEnds) \/ (part = "two" /\ Two!GapEnds))
    /\ WF_sendVars((part = "one" /\ One!RouteReleased) \/ (part = "two" /\ Two!RouteReleased))
    /\ WF_sendVars((part = "one" /\ One!WalletReleases) \/ (part = "two" /\ Two!WalletReleases))

FairSpec == Spec /\ PoiFairness /\ SendFairness


(* OutputPoi: a wallet's own output shows Valid on a list only once the    *)
(* list holds it, and ShieldBlocked only on a list that refuses it,        *)
(* whatever order applies and status reads come in.                        *)
OwnStatusIsTrue == Own => Single!OwnStatusIsTrue


(* PoiSubmitter: a proof with a position is sent, queued once, running or  *)
(* waiting for its retry.                                                  *)
NothingForgotten == (part = "one" => One!NothingForgotten) /\ (part = "two" => Two!NothingForgotten)

(* PoiSubmitter: only what the node took for the position an output has    *)
(* counts as acknowledged.                                                 *)
AcksAreReal == (part = "one" => One!AcksAreReal) /\ (part = "two" => Two!AcksAreReal)

(* PoiSubmitter: the scheduler's counter of open routes is the number of   *)
(* transactions that hold one.                                             *)
RoutesCounted == (part = "one" => One!RoutesCounted) /\ (part = "two" => Two!RoutesCounted)


(* OutputPoi: a forced request that has to wait stays latched until a      *)
(* forced job starts or a reset drops it.                                  *)
ForcedNotLost == [][Own => Single!ForceKept]_allVars
=============================================================================
