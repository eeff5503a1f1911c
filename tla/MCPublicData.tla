---------------------------- MODULE MCPublicData ----------------------------
(* The public data of a chain, one of two parts in each behaviour: the     *)
(* slot of the warm task with two resets and the shutdown, and the scan    *)
(* cache with two tasks that record over a chain that forks once and whose *)
(* first block holds rows before.  The slot is at rest while the scan      *)
(* cache runs.                                                             *)
EXTENDS WindowWarm, Integers, Sequences, FiniteSets, TLC

CONSTANTS None, r1, r2

VARIABLES
    part,    \* the instance that this behaviour runs
    chain, forked, scanEpoch, cov, pages, rd, reads

scanVars == <<chain, forked, scanEpoch, cov, pages, rd, reads>>
dataVars == <<part, vars, scanVars>>

Scan == INSTANCE PublicScanCache WITH
    MaxBlock <- 2, Readers <- {r1, r2}, WithRows <- {1, 2}, PageLimit <- 1, MaxFork <- 1,
    MaxEpoch <- 1, MaxRead <- 2, epoch <- scanEpoch

NoScan ==
    /\ chain = None /\ forked = None /\ scanEpoch = None /\ cov = None /\ pages = None
    /\ rd = None /\ reads = None

DataInit ==
    \/ part = "scan" /\ Scan!Init /\ Init /\ chain[1].has
    \/ part = "warm" /\ NoScan /\ Init

DataNext ==
    \/ part = "scan" /\ Scan!Next /\ UNCHANGED <<part, vars>>
    \/ part = "warm" /\ Next /\ UNCHANGED <<part, scanVars>>

(* The fairness of WindowWarm, for the behaviours that run it. *)
WarmFairness ==
    /\ \A i \in Ids : WF_vars(part = "warm" /\ WarmStep(i))
    /\ \A p \in Resetters : WF_vars(part = "warm" /\ (ResetStep(p) \/ DropPermit(p)))
    /\ WF_vars(part = "warm" /\ ShutdownQuiesces)
    /\ SF_vars(part = "warm" /\ ShutdownDrains)

DataSpec == DataInit /\ [][DataNext]_dataVars /\ WarmFairness

(* PublicScanCache: the replayable suffix is delivered whole, from pages   *)
(* that stay bounded.                                                      *)
SuffixIsServed == part = "scan" => Scan!SuffixIsServed

(* PublicScanCache: what is handed to a wallet is what the chain holds.    *)
ReplayIsTruth == part = "scan" => Scan!ReplayIsTruth
=============================================================================
