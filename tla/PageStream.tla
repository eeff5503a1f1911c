----------------------------- MODULE PageStream -----------------------------
(***************************************************************************)
(* What a paged log fetch promises its caller (the documentation of        *)
(* run_parallel_log_fetch in chain/backfill.rs): the pages of the range    *)
(* are handed over one by one in block order, each once; a page is fetched *)
(* at most `ahead` pages before its turn; and the fetch ends complete only *)
(* after the last page.  Providers, failures, retries and the pool are     *)
(* hidden.                                                                 *)
(***************************************************************************)
EXTENDS Integers

CONSTANTS
  Pages,   \* pages of the range
  Ahead    \* pages that may be fetched before the next one to deliver arrived

VARIABLES
  given,   \* pages handed to the caller
  ready,   \* pages fetched and not handed over yet
  end      \* how the fetch ended, "none" while it runs

streamVars == <<given, ready, end>>

StreamInit == given = 0 /\ ready = {} /\ end = "none"

Fetch(k) ==
  /\ end = "none" /\ given <= k /\ k < Pages /\ k < given + Ahead /\ k \notin ready
  /\ ready' = ready \cup {k}
  /\ UNCHANGED <<given, end>>

Give ==
  /\ end = "none" /\ given \in ready
  /\ given' = given + 1 /\ ready' = ready \ {given}
  /\ UNCHANGED end

(* The caller refuses the page that is handed to it *)
Refused ==
  /\ end = "none" /\ given \in ready
  /\ ready' = ready \ {given} /\ end' = "failed"
  /\ UNCHANGED given

Ends(r) ==
  /\ end = "none" /\ r # "none" /\ given \notin ready
  /\ (r = "complete") = (given = Pages)
  /\ end' = r
  /\ UNCHANGED <<given, ready>>

StreamNext ==
  \/ \E k \in 0..(Pages - 1) : Fetch(k)
  \/ Give \/ Refused
  \/ \E r \in {"complete", "cancelled", "over_budget", "no_provider"} : Ends(r)

StreamSpec == StreamInit /\ [][StreamNext]_streamVars
=============================================================================
