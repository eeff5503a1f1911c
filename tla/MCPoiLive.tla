------------------------------ MODULE MCPoiLive -----------------------------
(* The liveness of the POI cache coordinator: a retry with two events, one *)
(* with a failure anywhere, two retries that meet, and one that meets a    *)
(* reset.                                                                  *)
EXTENDS Naturals, Sequences

CONSTANTS c1, c2, r1, NoOne

VARIABLES
    part,    \* the instance that this behaviour runs
    pc, handle, cancelled, queue, active, batch, reset, lane, orphan, health, preloaded,
    installed, anchor, disk, line, gate, call, permit, released, source, faults

cacheVars ==
    <<pc, handle, cancelled, queue, active, batch, reset, lane, orphan, health, preloaded,
    installed, anchor, disk, line, gate, call, permit, released, source, faults>>
allVars == <<part, cacheVars>>

Growing == INSTANCE PoiCache WITH
    Retriers <- {c1}, Resets <- {}, MaxEvent <- 2, MaxFault <- 0,
    Page <- 1, Threshold <- 2, Soft <- 1, Hard <- 1, QueueCap <- 1
Failing == INSTANCE PoiCache WITH
    Retriers <- {c1}, Resets <- {}, MaxEvent <- 1, MaxFault <- 1,
    Page <- 1, Threshold <- 2, Soft <- 1, Hard <- 1, QueueCap <- 1
Meeting == INSTANCE PoiCache WITH
    Retriers <- {c1, c2}, Resets <- {}, MaxEvent <- 1, MaxFault <- 0,
    Page <- 1, Threshold <- 2, Soft <- 1, Hard <- 1, QueueCap <- 1
Quiesced == INSTANCE PoiCache WITH
    Retriers <- {c1}, Resets <- {r1}, MaxEvent <- 1, MaxFault <- 0,
    Page <- 1, Threshold <- 2, Soft <- 1, Hard <- 1, QueueCap <- 1

Init ==
    \/ part = "growing" /\ Growing!Init
    \/ part = "failing" /\ Failing!Init
    \/ part = "meeting" /\ Meeting!Init
    \/ part = "quiesced" /\ Quiesced!Init

Next ==
    \/ part = "growing" /\ Growing!Next /\ UNCHANGED part
    \/ part = "failing" /\ Failing!Next /\ UNCHANGED part
    \/ part = "meeting" /\ Meeting!Next /\ UNCHANGED part
    \/ part = "quiesced" /\ Quiesced!Next /\ UNCHANGED part

Spec == Init /\ [][Next]_allVars

(* PoiCache!Fairness of the part that runs.  The parts differ in MaxFault  *)
(* and in who calls: where neither is failing, their steps are those of    *)
(* the part with a reset.                                                  *)
Fairness ==
    /\ WF_cacheVars(IF part = "failing" THEN Failing!JobSteps \/ Failing!FinishSteps
                                        ELSE Quiesced!JobSteps \/ Quiesced!FinishSteps)
    /\ SF_cacheVars(Quiesced!LaneSteps)
    /\ WF_cacheVars(IF part = "failing" THEN Failing!CompactionWrites \/ Failing!OtherGives
                                        ELSE Quiesced!CompactionWrites \/ Quiesced!OtherGives)
    /\ WF_cacheVars(IF part = "failing" THEN Failing!CoordinatorSteps
                                        ELSE Quiesced!CoordinatorSteps)
    /\ \A c \in {c1, c2} : SF_cacheVars(c \in DOMAIN call /\ Quiesced!RetrySteps(c))
    /\ SF_cacheVars(part = "quiesced" /\ Quiesced!ResetSteps(r1))
    /\ SF_cacheVars(Quiesced!MaintenanceDue({"events"}))

FairSpec == Spec /\ Fairness

(* Again and again every retry call has returned, through a start of the   *)
(* coordinator, a failure, a retry that replaces it, a reset and shutdown, *)
(* and every event on the network is served, for an attempt never keeps    *)
(* reading an artifact that is behind.  The exception is a coordinator     *)
(* that waits for its own compaction.                                      *)
AttemptsAnswer ==
    []<>(/\ \A c \in DOMAIN call : Quiesced!Answered(c)
         /\ IF part = "growing" THEN Growing!Served ELSE Quiesced!Served)
=============================================================================
