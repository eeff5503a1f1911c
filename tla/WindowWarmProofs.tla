-------------------------- MODULE WindowWarmProofs --------------------------
(***************************************************************************)
(* The safety property of WindowWarm, for every set of resetters and any   *)
(* number of warm tasks and resets, by an inductive invariant.             *)
(***************************************************************************)
EXTENDS WindowWarm, TLAPS

\* A reset call that has begun holds the commit fence, and blocks the slot
\* until it releases it; so two of them never overlap.
ResetsFenced ==
    \A p \in Resetters :
        /\ reset[p].stage # "idle" => fence = p
        /\ reset[p].stage \in {"wait", "held", "release"} => blocked

\* A blocked slot records no task, and a task that the slot no longer records
\* was cancelled when it was taken out, or has ended.
TasksRecorded ==
    /\ blocked => active = NoWarm
    /\ \A i \in Ids :
        /\ i >= nextId => warm[i].state = "none"
        /\ Running(i) => active = i \/ warm[i].cancel

\* The records of the warm tasks and of the reset calls.
Warm == [state : {"none", "spawned", "fetching", "cleanup", "ended"},
         cancel : BOOLEAN, scope : 0 .. MaxEpoch]
ResetCall == [stage : {"idle", "wait", "held", "release", "unlock"},
              awaits : {NoWarm} \cup Ids]

IInv ==
    /\ TypeOK
    /\ ResetsFenced
    /\ TasksRecorded
    /\ rows \subseteq {epoch}

USE WarmAssumption DEF Ids, NoWarm

\* The initial state satisfies the inductive invariant.
LEMMA WarmInit == Init => IInv
  <1> SUFFICES ASSUME Init PROVE IInv
    BY Zenon
  <1>1. TypeOK
    <2>1. 1 \in 1 .. MaxWarm + 1 /\ 0 \in 0 .. MaxEpoch
      OBVIOUS
    <2>2. [state |-> "none", cancel |-> FALSE, scope |-> 0] \in Warm
      BY <2>1, Zenon DEF Warm
    <2>3. [stage |-> "idle", awaits |-> NoWarm] \in ResetCall
      BY Zenon DEF ResetCall
    <2>4. /\ warm \in [Ids -> Warm]
          /\ reset \in [Resetters -> ResetCall]
      BY <2>2, <2>3, Zenon DEF Init
    <2>5. stop \in [stage : {"idle", "begun", "wait", "returned"}, awaits : {NoWarm} \cup Ids]
      BY Zenon DEF Init
    <2> QED
      BY <2>1, <2>4, <2>5, Zenon DEF Init, TypeOK, Warm, ResetCall
  <1> QED BY <1>1 DEF Init, IInv, ResetsFenced, TasksRecorded, Running

\* Every step keeps the types.
LEMMA WarmType == TypeOK /\ [Next]_vars => TypeOK'
  <1> SUFFICES ASSUME TypeOK, [Next]_vars PROVE TypeOK'
    BY Zenon
  <1> DEFINE stopped == IF active = NoWarm THEN warm ELSE [warm EXCEPT ![active].cancel = TRUE]
  <1>0. /\ warm \in [Ids -> Warm] /\ reset \in [Resetters -> ResetCall]
        /\ \A i \in Ids : warm[i] \in Warm
    BY Zenon DEF TypeOK, Warm, ResetCall
  <1>a. ASSUME NEW i \in Ids
        PROVE  /\ [warm[i] EXCEPT !.cancel = TRUE] \in Warm
               /\ [warm[i] EXCEPT !.state = "cleanup"] \in Warm
    BY <1>0, Zenon DEF Warm
  <1>b. /\ \A i \in Ids : [warm EXCEPT ![i].cancel = TRUE] \in [Ids -> Warm]
        /\ \A i \in Ids : [warm EXCEPT ![i].state = "cleanup"] \in [Ids -> Warm]
    BY <1>0, <1>a, Zenon
  <1>c. stopped \in [Ids -> Warm]
    BY <1>0, <1>b, Zenon DEF TypeOK
  <1>d. ASSUME NEW i \in {NoWarm} \cup Ids
        PROVE  /\ [stage |-> "wait", awaits |-> i] \in ResetCall
               /\ \A p \in Resetters :
                    [reset EXCEPT ![p] = [stage |-> "wait", awaits |-> i]] \in [Resetters -> ResetCall]
    BY <1>0, Zenon DEF ResetCall
  <1> USE DEF TypeOK
  <1>1. CASE TryStart
    <2>1. nextId \in Ids /\ nextId + 1 \in 1 .. MaxWarm + 1
      BY <1>1 DEF TryStart
    <2>2. warm' \in [Ids -> Warm]
      BY <1>1, <2>1 DEF TryStart, Warm
    <2> QED
      BY <1>1, <2>1, <2>2, Zenon DEF TryStart, Warm
  <1>2. ASSUME NEW i \in Ids, BeginRead(i) PROVE TypeOK'
    <2>1. warm \in [Ids -> Warm] /\ epoch \in 0 .. MaxEpoch
      BY Zenon DEF Warm
    <2>2. [warm[i] EXCEPT !.state = "fetching", !.scope = epoch] \in Warm
      <3>1. warm[i] \in Warm
        BY <2>1, Zenon
      <3> QED
        BY <2>1, <3>1, Zenon DEF Warm
    <2>3. warm' \in [Ids -> Warm]
      BY <1>2, <2>1, <2>2, Zenon DEF BeginRead
    <2> QED
      BY <1>2, <2>3, Zenon DEF BeginRead, Warm
  <1>3. ASSUME NEW i \in Ids, FetchEnds(i) PROVE TypeOK'
    <2>1. warm' \in [Ids -> Warm]
      BY <1>3, <1>b, Zenon DEF FetchEnds
    <2>2. rows' \subseteq 0 .. MaxEpoch
      BY <1>3, Zenon DEF FetchEnds
    <2> QED
      BY <1>3, <2>1, <2>2, Zenon DEF FetchEnds, Warm
  <1>4. ASSUME NEW i \in Ids, FetchFails(i) PROVE TypeOK'
    <2>1. warm' \in [Ids -> Warm]
      BY <1>4, <1>b, Zenon DEF FetchFails
    <2> QED
      BY <1>4, <2>1, Zenon DEF FetchFails, Warm
  <1>5. ASSUME NEW i \in Ids, ClearFinished(i) PROVE TypeOK'
    BY <1>5, ZenonT(30) DEF ClearFinished
  <1>6. ASSUME NEW p \in Resetters, Acquire(p) PROVE TypeOK'
    <2>1. warm' \in [Ids -> Warm]
      BY <1>6, <1>c, Zenon DEF Acquire, Quiesce
    <2>2. reset' \in [Resetters -> ResetCall]
      BY <1>6, <1>d, Zenon DEF Acquire
    <2> QED
      BY <1>6, <2>1, <2>2, Zenon DEF Acquire, Quiesce, Warm, ResetCall
  <1>7. ASSUME NEW p \in Resetters, Acquired(p) PROVE TypeOK'
    BY <1>7, Zenon DEF Acquired
  <1>8. ASSUME NEW p \in Resetters, Apply(p) PROVE TypeOK'
    <2>1. epoch + 1 \in 0 .. MaxEpoch
      BY <1>8 DEF Apply
    <2>2. reset' \in [Resetters -> ResetCall]
      BY <1>8, Zenon DEF Apply, ResetCall
    <2> QED
      BY <1>8, <2>1, <2>2, Zenon DEF Apply, ResetCall
  <1>9. ASSUME NEW p \in Resetters, DropPermit(p) PROVE TypeOK'
    BY <1>9, ZenonT(30) DEF DropPermit
  <1>10. ASSUME NEW p \in Resetters, Unblock(p) PROVE TypeOK'
    BY <1>10, Zenon DEF Unblock
  <1>11. ASSUME NEW p \in Resetters, Unlock(p) PROVE TypeOK'
    BY <1>11, Zenon DEF Unlock
  <1>12. CASE BeginShutdown
    <2>1. warm' \in [Ids -> Warm]
      BY <1>12, <1>c, Zenon DEF BeginShutdown
    <2>2. stop' \in [stage : {"idle", "begun", "wait", "returned"}, awaits : {NoWarm} \cup Ids]
      BY <1>12, Zenon DEF BeginShutdown
    <2> QED
      BY <1>12, <2>1, <2>2, Zenon DEF BeginShutdown, Warm
  <1>13. CASE ShutdownQuiesces
    <2>1. warm' \in [Ids -> Warm]
      BY <1>13, <1>c, Zenon DEF ShutdownQuiesces, Quiesce
    <2>2. stop' \in [stage : {"idle", "begun", "wait", "returned"}, awaits : {NoWarm} \cup Ids]
      BY <1>13, Zenon DEF ShutdownQuiesces
    <2> QED
      BY <1>13, <2>1, <2>2, Zenon DEF ShutdownQuiesces, Quiesce, Warm
  <1>14. CASE ShutdownDrains
    BY <1>14, Zenon DEF ShutdownDrains
  <1>15. CASE UNCHANGED vars
    BY <1>15, Zenon DEF vars
  <1> HIDE DEF TypeOK
  <1> QED
    BY <1>1, <1>2, <1>3, <1>4, <1>5, <1>6, <1>7, <1>8, <1>9, <1>10, <1>11, <1>12,
       <1>13, <1>14, <1>15, Zenon DEF Next, WarmStep, ResetStep, Shutdown, Rests

\* Every step keeps the inductive invariant.
LEMMA WarmStepKeeps == IInv /\ [Next]_vars => IInv'
  <1> SUFFICES ASSUME IInv, [Next]_vars PROVE IInv'
    BY Zenon
  <1>0. TypeOK'
    BY WarmType, Zenon DEF IInv
  <1> USE <1>0 DEF IInv, ResetsFenced, TasksRecorded, Running
  <1>1. CASE TryStart
    BY <1>1 DEF TryStart, TypeOK
  <1>2. ASSUME NEW i \in Ids, BeginRead(i) PROVE IInv'
    <2> DEFINE new == [warm[i] EXCEPT !.state = "fetching", !.scope = epoch]
    <2>1. warm \in [Ids -> Warm] /\ warm[i] \in Warm
      BY Zenon DEF TypeOK, Warm
    <2>2. new.cancel = warm[i].cancel /\ new.state = "fetching"
      BY <2>1, Zenon DEF Warm
    <2>3. warm' = [warm EXCEPT ![i] = new]
      BY <1>2, <2>1, Zenon DEF BeginRead
    <2> HIDE DEF new
    <2>4. warm'[i] = new /\ \A j \in Ids \ {i} : warm'[j] = warm[j]
      BY <2>1, <2>3, Zenon
    <2>5. /\ warm[i].state = "spawned"
          /\ UNCHANGED <<blocked, active, nextId, fence, reset, epoch, rows>>
      BY <1>2, Zenon DEF BeginRead
    <2>6. TasksRecorded'
      <3> SUFFICES ASSUME NEW j \in Ids
                   PROVE  /\ j >= nextId => warm'[j].state = "none"
                          /\ warm'[j].state \in {"spawned", "fetching", "cleanup"} =>
                               active = j \/ warm'[j].cancel
        BY <2>5, Zenon
      <3>1. CASE j = i
        BY <2>2, <2>4, <2>5, <3>1, Zenon
      <3>2. CASE j # i
        BY <2>4, <3>2, Zenon
      <3> QED
        BY <3>1, <3>2, Zenon
    <2> QED
      BY <2>5, <2>6, Zenon
  <1>3. ASSUME NEW i \in Ids, FetchEnds(i) PROVE IInv'
    BY <1>3 DEF FetchEnds, TypeOK
  <1>4. ASSUME NEW i \in Ids, FetchFails(i) PROVE IInv'
    BY <1>4 DEF FetchFails, TypeOK
  <1>5. ASSUME NEW i \in Ids, ClearFinished(i) PROVE IInv'
    BY <1>5 DEF ClearFinished, TypeOK
  <1>6. ASSUME NEW p \in Resetters, Acquire(p) PROVE IInv'
    <2>1. ResetsFenced'
      BY <1>6 DEF Acquire, Quiesce, TypeOK
    <2>2. TasksRecorded'
      BY <1>6 DEF Acquire, Quiesce, TypeOK
    <2> QED BY <1>6, <2>1, <2>2 DEF Acquire
  <1>7. ASSUME NEW p \in Resetters, Acquired(p) PROVE IInv'
    BY <1>7, Zenon DEF Acquired, TypeOK
  <1>8. ASSUME NEW p \in Resetters, Apply(p) PROVE IInv'
    BY <1>8 DEF Apply, TypeOK
  <1>9. ASSUME NEW p \in Resetters, DropPermit(p) PROVE IInv'
    BY <1>9, Zenon DEF DropPermit, TypeOK
  <1>10. ASSUME NEW p \in Resetters, Unblock(p) PROVE IInv'
    BY <1>10 DEF Unblock, TypeOK
  <1>11. ASSUME NEW p \in Resetters, Unlock(p) PROVE IInv'
    BY <1>11 DEF Unlock, TypeOK
  <1>12. CASE BeginShutdown
    BY <1>12 DEF BeginShutdown, TypeOK
  <1>13. CASE ShutdownQuiesces
    <2>1. ResetsFenced' /\ TasksRecorded'
      BY <1>13 DEF ShutdownQuiesces, Quiesce, TypeOK
    <2> QED BY <1>13, <2>1 DEF ShutdownQuiesces
  <1>14. CASE ShutdownDrains
    BY <1>14, Zenon DEF ShutdownDrains
  <1>15. CASE UNCHANGED vars
    BY <1>15, Zenon DEF vars
  <1> HIDE DEF IInv
  <1> QED
    BY <1>1, <1>2, <1>3, <1>4, <1>5, <1>6, <1>7, <1>8, <1>9, <1>10, <1>11, <1>12,
       <1>13, <1>14, <1>15, Zenon DEF Next, WarmStep, ResetStep, Shutdown, Rests

\* The inductive invariant holds throughout.
LEMMA WarmInvariant == Spec => []IInv
  BY WarmInit, WarmStepKeeps, PTL DEF Spec

\* No warm task runs uncancelled under a reset permit, and the cache holds no
\* rows read before the last reset, for any number of resets and tasks
\* (quiesce_public_window_warm, PublicCacheResetPermit::release).
THEOREM WarmHeldIsQuiet == Spec => []HeldIsQuiet
  <1>1. IInv => HeldIsQuiet
    BY DEF IInv, HeldIsQuiet, ResetsFenced, TasksRecorded, TypeOK
  <1> QED BY <1>1, WarmInvariant, PTL
=============================================================================
