----------------------------- MODULE MCBackfill -----------------------------
(* Three starts of the loop: one job per actor, with a retirement and a    *)
(* registration after it, a fault and an epoch change; a job among what    *)
(* other tasks deliver and record; and two jobs of one actor with a reset, *)
(* once the head stands still.                                             *)
EXTENDS BackfillLoop

Used(h, j, a, r, e, f, o) ==
  [key |-> 1, head |-> h, job |-> j, actor |-> a, reset |-> r, epoch |-> e, fault |-> f, other |-> o]
MCStarts ==
  {Used(0, 1, 1, 1, 0, 0, 1), Used(1, 1, 2, 1, 1, 0, 0), Used(2, 0, 2, 0, 1, 1, 1)}
=============================================================================
