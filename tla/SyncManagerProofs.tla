------------------------- MODULE SyncManagerProofs --------------------------
(***************************************************************************)
(* The safety properties of SyncManager, for every set of keys and         *)
(* callers, by one inductive invariant.                                    *)
(***************************************************************************)
EXTENDS SyncManager, TLAPS

\* A pending start belongs to the call that is preparing it.
StartsOwned ==
  /\ \A k \in Key : starts[k] # None =>
       pc[starts[k]] = "prepare" /\ arg[starts[k]] = k
  /\ \A c \in Caller : pc[c] = "prepare" => c \in Adders /\ starts[arg[c]] = c

\* A removal has a task, which takes the service only after the start it found
\* is over; by then no other start of the key was admitted.
RemovalsRun ==
  \A k \in Key :
    /\ removal[k] = "none" <=> removals[k] = None
    /\ removal[k] # "stopping" => stopping[k] = None
    /\ removal[k] = "stopping" => chains[k] = None /\ starts[k] = None
    /\ removal[k] = "waiting" /\ starts[k] # None =>
         starts[k] \in cancelled /\ awaited[k] = starts[k]
    /\ starts[k] # None => chains[k] = None

\* The reset that runs is the one a call is in; it excludes removals and has
\* cancelled, and waits for, every pending start.
ResetRuns ==
  /\ \A c \in Caller : pc[c] \in {"starts", "caches"} => c \in Resetters /\ reset = c
  /\ reset # None =>
       /\ pc[reset] \in {"starts", "caches"}
       /\ Removing = {}
       /\ Pending \subseteq cancelled
       /\ pc[reset] = "starts" => Pending \subseteq wait[reset]
       /\ pc[reset] = "caches" => Pending = {} /\ collected = Services

\* A stop has cancelled every start and begun to stop every service; its task
\* waits for the reset, then for what was running, then drains.
StopRuns ==
  /\ lifecycle # "Running" => Pending \subseteq cancelled /\ Services \subseteq begun
  /\ lifecycle = "Running" => stopTask = "none" /\ shutdown = None
  /\ stopTask # "none" => lifecycle = "Stopping"
  /\ stopTask = "reset" /\ reset # None => reset \in stopWait
  /\ stopTask = "all" => reset = None /\ Pending \cup Removing \subseteq stopWait
  /\ stopTask = "stopping" =>
       reset = None /\ Pending = {} /\ Removing = {} /\ Services = {}
  /\ stopTask # "stopping" => drained = {}
  /\ lease <=> lifecycle # "Stopped"
  /\ lifecycle = "Stopped" =>
       reset = None /\ shutdown = None /\ Pending = {} /\ Removing = {} /\ Services = {}

IInv ==
  /\ TypeOK /\ StartsOwned /\ RemovalsRun /\ ResetRuns /\ StopRuns
  /\ OneServicePerSlot

\* The initial state satisfies the inductive invariant.
LEMMA ManagerInit == Init => IInv
  <1> SUFFICES ASSUME Init PROVE IInv
    BY Zenon
  <1>1. TypeOK
    BY ManagerAssumption, Zenon DEF Init, TypeOK, CallOrNone
  <1>2. Pending = {} /\ Removing = {} /\ Services = {}
    BY Zenon DEF Init, Pending, Removing, Services
  <1>3. StartsOwned /\ RemovalsRun /\ ResetRuns /\ StopRuns
    BY <1>2, Zenon DEF Init, StartsOwned, RemovalsRun, ResetRuns, StopRuns
  <1>4. OneServicePerSlot
    BY Zenon DEF Init, OneServicePerSlot, ServicesOf
  <1> QED BY <1>1, <1>3, <1>4 DEF IInv

\* Every step keeps the types.
LEMMA ManagerType == TypeOK /\ StartsOwned /\ [Next]_vars => TypeOK'
  <1> SUFFICES ASSUME TypeOK, StartsOwned, [Next]_vars PROVE TypeOK'
    BY Zenon
  <1> USE ManagerAssumption DEF TypeOK, CallOrNone, Caller, Goto, RetryAfter, JoinAfter,
        Returns, FinishStart, CancelStarts, removalVars, stopVars, stateVars, callVars
  <1>1. ASSUME NEW c \in Caller, AddChain(c) PROVE TypeOK'
    BY <1>1 DEF AddChain, AtAdmission, BlockingRemovals
  <1>2. ASSUME NEW c \in Caller, RemoveChain(c) PROVE TypeOK'
    BY <1>2 DEF RemoveChain, AtAdmission
  <1>3. ASSUME NEW c \in Caller, ResetCaches(c) PROVE TypeOK'
    BY <1>3 DEF ResetCaches, AtAdmission, Removing, Pending
  <1>4. ASSUME NEW c \in Caller, Shutdown(c) PROVE TypeOK'
    BY <1>4 DEF Shutdown, AtAdmission, BeginStopping, Services, Pending
  <1>5. ASSUME NEW c \in Caller, StartCancelled(c) \/ PrepareFails(c) PROVE TypeOK'
    BY <1>5 DEF StartCancelled, PrepareFails
  <1>6. ASSUME NEW c \in Caller, ResetCollects(c) PROVE TypeOK'
    BY <1>6 DEF ResetCollects, Services
  <1>7. ASSUME NEW c \in Caller, ResetEnds(c) PROVE TypeOK'
    BY <1>7, Zenon DEF ResetEnds
  <1>8. ASSUME NEW c \in Caller, Joined(c) PROVE TypeOK'
    BY <1>8, Zenon DEF Joined
  <1>9. ASSUME NEW c \in Caller, FutureDropped(c) PROVE TypeOK'
    <2>1. starts' = [starts EXCEPT ![arg[c]] = None] \/ starts' = starts
      BY <1>9, Zenon DEF FutureDropped
    <2>2. reset' \in {reset, None} /\ collected' \subseteq collected
      BY <1>9, Zenon DEF FutureDropped
    <2>3. starts' \in [Key -> Adders \cup {None}]
      BY <2>1, Zenon
    <2> QED BY <1>9, <2>2, <2>3 DEF FutureDropped
  <1>10. ASSUME NEW c \in Caller, PublishPreparedChain(c) PROVE TypeOK'
    <2>1. c \in Adders
      BY <1>10, Zenon DEF PublishPreparedChain, StartsOwned
    <2>2. chains' = chains \/ chains' = [chains EXCEPT ![arg[c]] = c]
      BY <1>10, Zenon DEF PublishPreparedChain
    <2>3. chains' \in [Key -> Adders \cup {None}]
      BY <2>1, <2>2
    <2>4. starts' = [starts EXCEPT ![arg[c]] = None]
          /\ pc' = [pc EXCEPT ![c] = "returned"] /\ wait' = wait
      BY <1>10, Zenon DEF PublishPreparedChain
    <2>5. starts' \in [Key -> Adders \cup {None}]
      BY <2>4, Zenon
    <2>6. UNCHANGED <<lifecycle, lease, cancelled, removals, reset, shutdown, begun,
                      arg, collected, removal, awaited, stopping, stopTask, stopWait,
                      drained>>
      BY <1>10, Zenon DEF PublishPreparedChain
    <2> QED BY <2>3, <2>4, <2>5, <2>6
  <1>11. ASSUME NEW k \in Key, RemovalTakesService(k) PROVE TypeOK'
    BY <1>11, Zenon DEF RemovalTakesService
  <1>12. ASSUME NEW k \in Key, RemovalEnds(k) PROVE TypeOK'
    BY <1>12, Zenon DEF RemovalEnds
  <1>13. CASE StopTask
    <2>1. CASE StopSeesOperations
      BY <2>1 DEF StopSeesOperations, Pending, Removing
    <2>2. CASE StopDrains
      BY <2>2 DEF StopDrains, Services
    <2>3. CASE StopEnds
      BY <2>3, Zenon DEF StopEnds
    <2> QED BY <1>13, <2>1, <2>2, <2>3 DEF StopTask
  <1>14. CASE ManagerDropped
    BY <1>14 DEF ManagerDropped, BeginStopping, Services, Pending
  <1>15. CASE UNCHANGED vars
    BY <1>15, Zenon DEF vars
  <1> HIDE DEF TypeOK
  <1> QED
    BY Zenon, <1>1, <1>2, <1>3, <1>4, <1>5, <1>6, <1>7, <1>8, <1>9, <1>10, <1>11,
       <1>12, <1>13, <1>14, <1>15
       DEF Next, Admission, Proceeds, RemovalTask, Quiet

\* The sets of operations depend on three variables only.
LEMMA SetsKept ==
  /\ UNCHANGED chains => Services' = Services
  /\ UNCHANGED removals => Removing' = Removing
  /\ UNCHANGED starts => Pending' = Pending
  BY Zenon DEF Services, Removing, Pending

\* What the end of a start does: only its own entry goes.
LEMMA StartLeaves ==
  ASSUME TypeOK, StartsOwned, NEW c \in Caller, pc[c] = "prepare", FinishStart(c),
         Returns(c), UNCHANGED arg
  PROVE  /\ StartsOwned'
         /\ Pending' \subseteq Pending
         /\ \A k \in Key : starts'[k] = starts[k] \/ starts'[k] = None
  <1> USE ManagerAssumption DEF TypeOK, Caller
  <1>1. c \in Adders /\ arg[c] \in Key /\ starts[arg[c]] = c
    BY Zenon DEF StartsOwned
  <1>2. starts' = [starts EXCEPT ![arg[c]] = None]
    BY Zenon DEF FinishStart
  <1>3. \A k \in Key : starts'[k] = starts[k] \/ starts'[k] = None
    BY <1>2, Zenon
  <1>4. pc' = [pc EXCEPT ![c] = "returned"]
    BY Zenon DEF Returns, Goto
  <1>5. \A k \in Key : starts'[k] # None => starts'[k] = starts[k] /\ starts[k] # c
    BY <1>1, <1>2, Zenon DEF StartsOwned
  <1>6. \A k \in Key : starts'[k] # None =>
          pc'[starts'[k]] = "prepare" /\ arg'[starts'[k]] = k
    BY <1>4, <1>5 DEF StartsOwned
  <1>7. \A d \in Caller : pc'[d] = "prepare" => d \in Adders /\ starts'[arg'[d]] = d
    <2> SUFFICES ASSUME NEW d \in Caller, pc'[d] = "prepare"
                 PROVE  d \in Adders /\ starts'[arg'[d]] = d
      BY Zenon
    <2>1. d # c /\ pc[d] = "prepare"
      BY <1>4, Zenon
    <2>2. d \in Adders /\ starts[arg[d]] = d /\ arg[d] \in Key
      BY <2>1, Zenon DEF StartsOwned
    <2>3. arg[d] # arg[c]
      BY <1>1, <2>1, <2>2, Zenon
    <2> QED BY <1>2, <2>2, <2>3
  <1> QED BY <1>3, <1>6, <1>7 DEF StartsOwned, Pending

\* The end of a start, with or without a published service, keeps the invariant.
LEMMA StartEnds ==
  ASSUME IInv, NEW c \in Caller, pc[c] = "prepare", FinishStart(c), Returns(c),
         UNCHANGED <<lifecycle, lease, chains, cancelled, removals, reset, shutdown,
                     begun, arg, collected, removalVars, stopVars>>
  PROVE  StartsOwned' /\ RemovalsRun' /\ ResetRuns' /\ StopRuns' /\ OneServicePerSlot'
  <1> USE ManagerAssumption DEF IInv, TypeOK, Caller, removalVars, stopVars
  <1>1. StartsOwned' /\ Pending' \subseteq Pending
        /\ \A k \in Key : starts'[k] = starts[k] \/ starts'[k] = None
    BY StartLeaves, Zenon
  <1>2. RemovalsRun'
    BY <1>1, Zenon DEF RemovalsRun
  <1>3. Services' = Services /\ Removing' = Removing
    BY SetsKept, Zenon
  <1>4. pc' = [pc EXCEPT ![c] = "returned"] /\ wait' = wait
    BY Zenon DEF Returns, Goto
  <1>5. ResetRuns'
    <2>1. \A d \in Caller : pc'[d] \in {"starts", "caches"} => d \in Resetters /\ reset' = d
      BY <1>4, Zenon DEF ResetRuns
    <2>2. reset # None => reset # c /\ reset \in Caller
      BY Zenon DEF ResetRuns
    <2> QED BY <1>1, <1>3, <1>4, <2>1, <2>2 DEF ResetRuns
  <1>6. StopRuns'
    BY <1>1, <1>3, Zenon DEF StopRuns
  <1>7. OneServicePerSlot'
    <2>1. \A k \in Key : ServicesOf(k)' \subseteq ServicesOf(k)
      BY <1>1, Zenon DEF ServicesOf
    <2> QED BY <2>1 DEF OneServicePerSlot
  <1> QED BY <1>1, <1>2, <1>5, <1>6, <1>7

\* A step of a call that changes only where the call is, and not from or into a
\* label the invariant speaks of, keeps the invariant.
LEMMA CallMoves ==
  ASSUME IInv, NEW c \in Caller, pc[c] \in {"idle", "retry", "join"},
         NEW label \in {"retry", "join", "returned"}, Goto(c, label),
         \A d \in Caller \ {c} : wait'[d] = wait[d],
         UNCHANGED <<stateVars, arg, collected, removalVars, stopVars>>
  PROVE  StartsOwned' /\ RemovalsRun' /\ ResetRuns' /\ StopRuns' /\ OneServicePerSlot'
  <1> USE ManagerAssumption DEF IInv, TypeOK, Caller, stateVars, removalVars, stopVars
  <1>1. pc' = [pc EXCEPT ![c] = label]
    BY Zenon DEF Goto
  <1>2. StartsOwned'
    BY <1>1 DEF StartsOwned
  <1>3. Services' = Services /\ Removing' = Removing /\ Pending' = Pending
    BY SetsKept, Zenon
  <1>4. RemovalsRun' /\ StopRuns'
    BY <1>3, Zenon DEF RemovalsRun, StopRuns
  <1>5. OneServicePerSlot'
    <2>1. \A k \in Key : ServicesOf(k)' \subseteq ServicesOf(k)
      BY Zenon DEF ServicesOf
    <2> QED BY <2>1 DEF OneServicePerSlot
  <1>6. ResetRuns'
    <2>1. reset # None => reset # c /\ wait'[reset] = wait[reset]
      BY Zenon DEF ResetRuns
    <2> QED BY <1>1, <1>3, <2>1 DEF ResetRuns
  <1> QED BY <1>2, <1>4, <1>5, <1>6

\* Admitting a start keeps the invariant: no service of its key, or of its chain
\* id under the indexed policy, is in any phase.
LEMMA AddStep ==
  ASSUME IInv, NEW c \in Caller, AddChain(c)
  PROVE  StartsOwned' /\ RemovalsRun' /\ ResetRuns' /\ StopRuns' /\ OneServicePerSlot'
  <1> USE ManagerAssumption DEF IInv, TypeOK, Caller
  <1> DEFINE k == arg[c]
  <1>0. c \in Adders /\ k \in Key /\ pc[c] \in {"idle", "retry"}
    BY Zenon DEF AddChain, AtAdmission
  <1>1. CASE starts' = starts
    <2>1. PICK label \in {"retry", "returned"} : Goto(c, label)
      BY <1>0, <1>1, Zenon DEF AddChain, Returns, RetryAfter
    <2>2. \A d \in Caller \ {c} : wait'[d] = wait[d]
      BY <1>0, <1>1, Zenon DEF AddChain, Returns, RetryAfter
    <2>3. UNCHANGED <<stateVars, arg, collected, removalVars, stopVars>>
      BY <1>1, Zenon DEF AddChain, stateVars
    <2>4. pc[c] \in {"idle", "retry", "join"} /\ label \in {"retry", "join", "returned"}
      BY <1>0, Zenon
    <2> HIDE DEF IInv, TypeOK, Caller
    <2> QED BY <2>1, <2>2, <2>3, <2>4, CallMoves
  <1>2. CASE starts' # starts
    <2>1. /\ lifecycle = "Running" /\ BlockingRemovals(k) = {} /\ chains[k] = None
          /\ reset = None /\ starts[k] = None /\ Conflicts(k) = {}
          /\ starts' = [starts EXCEPT ![k] = c]
          /\ pc' = [pc EXCEPT ![c] = "prepare"] /\ wait' = wait
      BY <1>2, Zenon DEF AddChain, Goto
    <2>2. UNCHANGED <<lifecycle, lease, chains, cancelled, removals, reset, shutdown,
                      begun, arg, collected, removal, awaited, stopping, stopTask,
                      stopWait, drained>>
      BY Zenon DEF AddChain, removalVars, stopVars
    <2>3. StartsOwned'
      BY <1>0, <2>1, <2>2 DEF StartsOwned
    <2>a. \A s \in Key : s = k \/ (Indexed /\ ChainId[s] = ChainId[k]) =>
             removals[s] \in BlockingRemovals(k) \cup {None}
      BY Zenon DEF BlockingRemovals
    <2>4. removals[k] = None
      BY <1>0, <2>1, <2>a, Zenon
    <2>5. RemovalsRun'
      BY <1>0, <2>1, <2>2, <2>4 DEF RemovalsRun
    <2>6. ResetRuns'
      BY <1>0, <2>1, <2>2, Zenon DEF ResetRuns
    <2>7. StopRuns'
      BY <2>1, <2>2, Zenon DEF StopRuns, Services, Removing, Pending
    <2>8. ASSUME NEW s \in Key, s = k \/ (Indexed /\ ChainId[s] = ChainId[k])
          PROVE  ServicesOf(s) = {}
      <3>1. removals[s] = None
        BY <2>1, <2>8, <2>a, Zenon
      <3>2. stopping[s] = None
        BY <3>1, Zenon DEF RemovalsRun
      <3>3. chains[s] = None /\ starts[s] = None
        BY <1>0, <2>1, <2>8, Zenon DEF Conflicts
      <3> QED BY <3>2, <3>3 DEF ServicesOf
    <2>9. \A s \in Key : ServicesOf(s)' \subseteq ServicesOf(s) \cup {c}
                          /\ (s # k => ServicesOf(s)' = ServicesOf(s))
      BY <1>0, <2>1, <2>2, Zenon DEF ServicesOf
    <2>10. OneServicePerSlot'
      BY <1>0, <2>2, <2>8, <2>9 DEF OneServicePerSlot
    <2> QED BY <2>3, <2>5, <2>6, <2>7, <2>10
  <1> QED BY <1>1, <1>2

\* Publishing a prepared service keeps the invariant: it moves from the pending
\* starts to the services, unless something has cancelled or excluded it.
LEMMA PublishStep ==
  ASSUME IInv, NEW c \in Caller, PublishPreparedChain(c)
  PROVE  StartsOwned' /\ RemovalsRun' /\ ResetRuns' /\ StopRuns' /\ OneServicePerSlot'
  <1> USE ManagerAssumption DEF IInv, TypeOK, Caller
  <1> DEFINE k == arg[c]
  <1>0. c \in Adders /\ k \in Key /\ pc[c] = "prepare" /\ starts[k] = c /\ c # None
    BY DEF PublishPreparedChain, StartsOwned
  <1>1. CASE chains' = chains
    BY <1>0, <1>1, StartEnds, Zenon DEF PublishPreparedChain
  <1>2. CASE chains' # chains
    <2>1. /\ lifecycle = "Running" /\ reset = None /\ removals[k] = None
          /\ chains' = [chains EXCEPT ![k] = c]
          /\ starts' = [starts EXCEPT ![k] = None]
          /\ pc' = [pc EXCEPT ![c] = "returned"]
      BY <1>2, Zenon DEF PublishPreparedChain, FinishStart, Returns, Goto
    <2>2. UNCHANGED <<lifecycle, lease, cancelled, removals, reset, shutdown, begun,
                      arg, collected, removal, awaited, stopping, stopTask, stopWait,
                      drained>>
      BY Zenon DEF PublishPreparedChain, removalVars, stopVars
    <2>3. StartsOwned' /\ Pending' \subseteq Pending
      BY <1>0, <2>2, StartLeaves, Zenon DEF PublishPreparedChain
    <2>4. RemovalsRun'
      BY <1>0, <2>1, <2>2, Zenon DEF RemovalsRun
    <2>5. ResetRuns'
      BY <1>0, <2>1, <2>2, Zenon DEF ResetRuns
    <2>6. StopRuns'
      BY <2>1, <2>2, Zenon DEF StopRuns
    <2>7. \A s \in Key : ServicesOf(s)' \subseteq ServicesOf(s)
      BY <1>0, <2>1, <2>2, Zenon DEF ServicesOf
    <2>8. OneServicePerSlot'
      BY <2>7 DEF OneServicePerSlot
    <2> QED BY <2>3, <2>4, <2>5, <2>6, <2>8
  <1> QED BY <1>1, <1>2

\* remove_chain keeps the invariant: its removal starts outside of a reset and
\* cancels the start it finds.
LEMMA RemoveStep ==
  ASSUME IInv, NEW c \in Caller, RemoveChain(c)
  PROVE  StartsOwned' /\ RemovalsRun' /\ ResetRuns' /\ StopRuns' /\ OneServicePerSlot'
  <1> USE ManagerAssumption DEF IInv, TypeOK, Caller
  <1> DEFINE k == arg[c]
  <1>0. c \in Removers /\ k \in Key /\ pc[c] \in {"idle", "retry"} /\ c # None
    BY Zenon DEF RemoveChain, AtAdmission
  <1>1. CASE removals' = removals
    <2>0. UNCHANGED <<cancelled, removals, removal, awaited>>
      BY <1>0, <1>1, Zenon DEF RemoveChain
    <2>1. PICK label \in {"retry", "join", "returned"} : Goto(c, label)
      BY <1>0, <1>1, Zenon DEF RemoveChain, Returns, RetryAfter, JoinAfter
    <2>2. \A d \in Caller \ {c} : wait'[d] = wait[d]
      BY <1>0, <1>1 DEF RemoveChain, Returns, RetryAfter, JoinAfter
    <2>3. UNCHANGED <<stateVars, arg, collected, removalVars, stopVars>>
      BY <2>0, Zenon DEF RemoveChain, stateVars, removalVars
    <2>4. pc[c] \in {"idle", "retry", "join"}
      BY <1>0, Zenon
    <2> HIDE DEF IInv, TypeOK, Caller
    <2> QED BY <2>1, <2>2, <2>3, <2>4, CallMoves, Zenon
  <1>2. CASE removals' # removals
    <2>1. /\ lifecycle = "Running" /\ reset = None /\ removals[k] = None
          /\ removals' = [removals EXCEPT ![k] = c]
          /\ cancelled' = cancelled \cup ({starts[k]} \ {None})
          /\ removal' = [removal EXCEPT ![k] = "waiting"]
          /\ awaited' = [awaited EXCEPT ![k] = starts[k]]
          /\ pc' = [pc EXCEPT ![c] = "join"]
      BY <1>2, Zenon DEF RemoveChain, JoinAfter, Goto
    <2>2. UNCHANGED <<lifecycle, lease, chains, starts, reset, shutdown, begun, arg,
                      collected, stopping, stopTask, stopWait, drained>>
      BY Zenon DEF RemoveChain, stopVars
    <2>3. StartsOwned'
      BY <1>0, <2>1, <2>2 DEF StartsOwned
    <2>4. RemovalsRun'
      BY <1>0, <2>1, <2>2, Zenon DEF RemovalsRun
    <2>5. ResetRuns'
      BY <1>0, <2>1, <2>2, Zenon DEF ResetRuns
    <2>6. StopRuns'
      BY <2>1, <2>2, Zenon DEF StopRuns
    <2>7. \A s \in Key : ServicesOf(s)' \subseteq ServicesOf(s)
      BY <2>2, Zenon DEF ServicesOf
    <2>8. OneServicePerSlot'
      BY <2>7 DEF OneServicePerSlot
    <2> QED BY <2>3, <2>4, <2>5, <2>6, <2>8
  <1> QED BY <1>1, <1>2

\* The two steps of run_chain_removal keep the invariant.
LEMMA RemovalTaskStep ==
  ASSUME IInv, NEW k \in Key, RemovalTask(k)
  PROVE  StartsOwned' /\ RemovalsRun' /\ ResetRuns' /\ StopRuns' /\ OneServicePerSlot'
  <1> USE ManagerAssumption DEF IInv, TypeOK, Caller
  <1>1. CASE RemovalTakesService(k)
    <2>1. /\ removal[k] = "waiting" /\ Completed({awaited[k]})
          /\ stopping' = [stopping EXCEPT ![k] = chains[k]]
          /\ chains' = [chains EXCEPT ![k] = None]
          /\ removal' = [removal EXCEPT ![k] = "stopping"]
          /\ UNCHANGED <<lifecycle, lease, starts, cancelled, removals, reset,
                         shutdown, begun, pc, arg, wait, collected, awaited,
                         stopTask, stopWait, drained>>
      BY <1>1, Zenon DEF RemovalTakesService, callVars, stopVars
    <2>2. starts[k] = None
      <3> SUFFICES ASSUME starts[k] # None PROVE FALSE
        BY Zenon
      <3>1. awaited[k] \in Pending
        BY <2>1, Zenon DEF RemovalsRun, Pending
      <3> QED BY <2>1, <3>1 DEF Completed, Ongoing
    <2>3. removals[k] \in Removing
      BY <2>1, Zenon DEF RemovalsRun, Removing
    <2>4. reset = None
      BY <2>3, Zenon DEF ResetRuns
    <2>5. StartsOwned'
      BY <2>1, Zenon DEF StartsOwned
    <2>6. RemovalsRun'
      BY <2>1, <2>2, Zenon DEF RemovalsRun
    <2>7. ResetRuns'
      BY <2>1, <2>4, Zenon DEF ResetRuns
    <2>8. Services' \subseteq Services /\ Removing' = Removing /\ Pending' = Pending
      BY <2>1 DEF Services, Removing, Pending
    <2>9. StopRuns'
      BY <2>1, <2>8, Zenon DEF StopRuns
    <2>10. \A s \in Key : ServicesOf(s)' \subseteq ServicesOf(s)
      BY <2>1, Zenon DEF ServicesOf
    <2>11. OneServicePerSlot'
      BY <2>10 DEF OneServicePerSlot
    <2> QED BY <2>5, <2>6, <2>7, <2>9, <2>11
  <1>2. CASE RemovalEnds(k)
    <2>1. /\ removal[k] = "stopping"
          /\ stopping' = [stopping EXCEPT ![k] = None]
          /\ removals' = [removals EXCEPT ![k] = None]
          /\ removal' = [removal EXCEPT ![k] = "none"]
          /\ UNCHANGED <<lifecycle, lease, chains, starts, cancelled, reset, shutdown,
                         begun, pc, arg, wait, collected, awaited, stopTask, stopWait,
                         drained>>
      BY <1>2, Zenon DEF RemovalEnds, callVars, stopVars
    <2>2. StartsOwned'
      BY <2>1, Zenon DEF StartsOwned
    <2>3. RemovalsRun'
      BY <2>1, Zenon DEF RemovalsRun
    <2>4. Services' = Services /\ Removing' \subseteq Removing /\ Pending' = Pending
      BY <2>1 DEF Services, Removing, Pending
    <2>5. ResetRuns'
      BY <2>1, <2>4, Zenon DEF ResetRuns
    <2>6. StopRuns'
      BY <2>1, <2>4, Zenon DEF StopRuns
    <2>7. \A s \in Key : ServicesOf(s)' \subseteq ServicesOf(s)
      BY <2>1, Zenon DEF ServicesOf
    <2>8. OneServicePerSlot'
      BY <2>7 DEF OneServicePerSlot
    <2> QED BY <2>2, <2>3, <2>5, <2>6, <2>8
  <1> QED BY <1>1, <1>2 DEF RemovalTask

\* reset_public_sync_caches keeps the invariant, from admission to the end.
LEMMA ResetStep ==
  ASSUME IInv, NEW c \in Caller, ResetCaches(c) \/ ResetCollects(c) \/ ResetEnds(c)
  PROVE  StartsOwned' /\ RemovalsRun' /\ ResetRuns' /\ StopRuns' /\ OneServicePerSlot'
  <1> USE ManagerAssumption DEF IInv, TypeOK, Caller
  <1>1. CASE ResetCaches(c) /\ reset' = reset
    <2>0. c \in Resetters /\ pc[c] \in {"idle", "retry"} /\ c # None
      BY <1>1, Zenon DEF ResetCaches, AtAdmission
    <2>1. cancelled' = cancelled
      BY <1>1, <2>0, Zenon DEF ResetCaches
    <2>2. PICK label \in {"retry", "join", "returned"} : Goto(c, label)
      BY <1>1, <2>0, Zenon DEF ResetCaches, Returns, RetryAfter
    <2>3. \A d \in Caller \ {c} : wait'[d] = wait[d]
      BY <1>1, <2>0, Zenon DEF ResetCaches, Returns, RetryAfter
    <2>4. UNCHANGED <<stateVars, arg, collected, removalVars, stopVars>>
      BY <1>1, <2>1, Zenon DEF ResetCaches, stateVars
    <2>5. pc[c] \in {"idle", "retry", "join"}
      BY <2>0, Zenon
    <2> HIDE DEF IInv, TypeOK, Caller
    <2> QED BY <2>2, <2>3, <2>4, <2>5, CallMoves
  <1>2. CASE ResetCaches(c) /\ reset' # reset
    <2>0. c \in Resetters /\ pc[c] \in {"idle", "retry"} /\ c # None
      BY <1>2, Zenon DEF ResetCaches, AtAdmission
    <2>1. /\ lifecycle = "Running" /\ reset = None /\ Removing = {}
          /\ reset' = c
          /\ cancelled' = cancelled \cup Pending
          /\ pc' = [pc EXCEPT ![c] = "starts"]
          /\ wait' = [wait EXCEPT ![c] = Pending]
      BY <1>2, Zenon DEF ResetCaches, Goto, CancelStarts
    <2>2. UNCHANGED <<lifecycle, lease, chains, starts, removals, shutdown, begun, arg,
                      collected, removal, awaited, stopping, stopTask, stopWait,
                      drained>>
      BY <1>2, Zenon DEF ResetCaches, removalVars, stopVars
    <2>3. StartsOwned'
      BY <2>0, <2>1, <2>2 DEF StartsOwned
    <2>4. RemovalsRun'
      BY <2>1, <2>2, Zenon DEF RemovalsRun
    <2>5. Services' = Services /\ Removing' = Removing /\ Pending' = Pending
      BY <2>2, SetsKept, Zenon
    <2>6. ResetRuns'
      BY <2>0, <2>1, <2>2, <2>5, Zenon DEF ResetRuns
    <2>7. StopRuns'
      BY <2>1, <2>2, <2>5, Zenon DEF StopRuns
    <2>8. \A s \in Key : ServicesOf(s)' \subseteq ServicesOf(s)
      BY <2>2, Zenon DEF ServicesOf
    <2>9. OneServicePerSlot'
      BY <2>8 DEF OneServicePerSlot
    <2> QED BY <2>3, <2>4, <2>6, <2>7, <2>9
  <1>3. CASE ResetCollects(c)
    <2>1. /\ pc[c] = "starts" /\ Completed(wait[c])
          /\ collected' = Services
          /\ pc' = [pc EXCEPT ![c] = "caches"]
          /\ wait' = wait /\ arg' = arg
      BY <1>3, Zenon DEF ResetCollects, Goto
    <2>2. UNCHANGED <<stateVars, removalVars, stopVars>>
      BY <1>3, Zenon DEF ResetCollects
    <2>3. Services' = Services /\ Removing' = Removing /\ Pending' = Pending
      BY <2>2, SetsKept, Zenon DEF stateVars
    <2>4. c = reset /\ c # None /\ c \in Resetters
      BY <2>1, Zenon DEF ResetRuns
    <2>5. Pending = {}
      BY <2>1, <2>4, Zenon DEF ResetRuns, Completed, Ongoing
    <2>6. StartsOwned'
      BY <2>1, <2>2, <2>4 DEF StartsOwned, stateVars
    <2>7. RemovalsRun'
      BY <2>2, Zenon DEF RemovalsRun, stateVars, removalVars
    <2>8. ResetRuns'
      BY <2>1, <2>2, <2>3, <2>4, <2>5, Zenon DEF ResetRuns, stateVars
    <2>9. StopRuns'
      BY <2>2, <2>3, Zenon DEF StopRuns, stateVars, stopVars
    <2>10. \A s \in Key : ServicesOf(s)' \subseteq ServicesOf(s)
      BY <2>2, Zenon DEF ServicesOf, stateVars, removalVars
    <2>11. OneServicePerSlot'
      BY <2>10 DEF OneServicePerSlot
    <2> QED BY <2>6, <2>7, <2>8, <2>9, <2>11
  <1>4. CASE ResetEnds(c)
    <2>1. /\ pc[c] = "caches"
          /\ reset' = None /\ collected' = {}
          /\ pc' = [pc EXCEPT ![c] = "returned"]
          /\ wait' = wait
      BY <1>4, Zenon DEF ResetEnds, Returns, Goto
    <2>2. UNCHANGED <<lifecycle, lease, chains, starts, cancelled, removals, shutdown,
                      begun, arg, removal, awaited, stopping, stopTask, stopWait,
                      drained>>
      BY <1>4, Zenon DEF ResetEnds, removalVars, stopVars
    <2>3. StartsOwned'
      BY <2>1, <2>2 DEF StartsOwned
    <2>4. RemovalsRun'
      BY <2>2, Zenon DEF RemovalsRun
    <2>5. ResetRuns'
      BY <2>1, Zenon DEF ResetRuns
    <2>6. Services' = Services /\ Removing' = Removing /\ Pending' = Pending
      BY <2>2, SetsKept, Zenon
    <2>7. StopRuns'
      BY <2>1, <2>2, <2>6, Zenon DEF StopRuns
    <2>8. \A s \in Key : ServicesOf(s)' \subseteq ServicesOf(s)
      BY <2>2, Zenon DEF ServicesOf
    <2>9. OneServicePerSlot'
      BY <2>8 DEF OneServicePerSlot
    <2> QED BY <2>3, <2>4, <2>5, <2>7, <2>9
  <1> QED BY <1>1, <1>2, <1>3, <1>4

\* shutdown, its task and Drop keep the invariant.
LEMMA StopStep ==
  ASSUME IInv, (\E c \in Caller : Shutdown(c)) \/ StopTask \/ ManagerDropped
  PROVE  StartsOwned' /\ RemovalsRun' /\ ResetRuns' /\ StopRuns' /\ OneServicePerSlot'
  <1> USE ManagerAssumption DEF IInv, TypeOK, Caller
  <1>1. ASSUME NEW c \in Caller, Shutdown(c), lifecycle # "Running"
        PROVE  StartsOwned' /\ RemovalsRun' /\ ResetRuns' /\ StopRuns' /\ OneServicePerSlot'
    <2>0. c \in Stoppers /\ pc[c] \in {"idle", "retry", "join"}
      BY <1>1, Zenon DEF Shutdown, AtAdmission
    <2>1. UNCHANGED <<lifecycle, cancelled, begun, shutdown, stopTask, stopWait>>
      BY <1>1, Zenon DEF Shutdown
    <2>2. PICK label \in {"retry", "join", "returned"} : Goto(c, label)
      BY <1>1, Zenon DEF Shutdown, Returns, JoinAfter
    <2>3. \A d \in Caller \ {c} : wait'[d] = wait[d]
      BY <1>1, <2>0 DEF Shutdown, Returns, JoinAfter
    <2>4. UNCHANGED <<stateVars, arg, collected, removalVars, stopVars>>
      BY <1>1, <2>1, Zenon DEF Shutdown, stateVars, stopVars
    <2> HIDE DEF IInv, TypeOK, Caller
    <2> QED BY <2>0, <2>2, <2>3, <2>4, CallMoves, Zenon
  <1>2. ASSUME NEW c \in Caller, Shutdown(c), lifecycle = "Running"
        PROVE  StartsOwned' /\ RemovalsRun' /\ ResetRuns' /\ StopRuns' /\ OneServicePerSlot'
    <2>0. c \in Stoppers /\ pc[c] \in {"idle", "retry"} /\ c # None
      BY <1>2, Zenon DEF Shutdown, AtAdmission
    <2>1. /\ lifecycle' = "Stopping"
          /\ cancelled' = cancelled \cup Pending
          /\ begun' = begun \cup Services
          /\ shutdown' = c
          /\ stopTask' = "reset" /\ stopWait' = {reset}
          /\ pc' = [pc EXCEPT ![c] = "join"]
          /\ wait' = [wait EXCEPT ![c] = {c}]
      BY <1>2, Zenon DEF Shutdown, BeginStopping, CancelStarts, JoinAfter, Goto
    <2>2. UNCHANGED <<lease, chains, starts, removals, reset, arg, collected,
                      removal, awaited, stopping, drained>>
      BY <1>2, Zenon DEF Shutdown, removalVars
    <2>3. Services' = Services /\ Removing' = Removing /\ Pending' = Pending
      BY <2>2, SetsKept, Zenon
    <2>4. StartsOwned'
      BY <2>0, <2>1, <2>2 DEF StartsOwned
    <2>5. RemovalsRun'
      BY <2>1, <2>2, Zenon DEF RemovalsRun
    <2>6. ResetRuns'
      <3>1. reset # None => reset # c /\ wait'[reset] = wait[reset] /\ pc'[reset] = pc[reset]
        BY <2>0, <2>1, Zenon DEF ResetRuns
      <3> QED BY <2>0, <2>1, <2>2, <2>3, <3>1 DEF ResetRuns
    <2>7. StopRuns'
      BY <1>2, <2>1, <2>2, <2>3, Zenon DEF StopRuns
    <2>8. \A s \in Key : ServicesOf(s)' \subseteq ServicesOf(s)
      BY <2>2, Zenon DEF ServicesOf
    <2>9. OneServicePerSlot'
      BY <2>8 DEF OneServicePerSlot
    <2> QED BY <2>4, <2>5, <2>6, <2>7, <2>9
  <1>3. CASE StopSeesOperations
    <2>1. /\ stopTask = "reset" /\ Completed(stopWait)
          /\ stopTask' = "all" /\ stopWait' = Pending \cup Removing
          /\ drained' = drained
          /\ UNCHANGED <<stateVars, callVars, removalVars>>
      BY <1>3, Zenon DEF StopSeesOperations
    <2>2. Services' = Services /\ Removing' = Removing /\ Pending' = Pending
      BY <2>1, SetsKept, Zenon DEF stateVars
    <2>3. reset = None
      BY <2>1, Zenon DEF StopRuns, Completed, Ongoing
    <2>4. StartsOwned' /\ RemovalsRun'
      BY <2>1, Zenon DEF StartsOwned, RemovalsRun, stateVars, callVars, removalVars
    <2>5. ResetRuns'
      BY <2>1, <2>2, Zenon DEF ResetRuns, stateVars, callVars
    <2>6. StopRuns'
      BY <2>1, <2>2, <2>3, Zenon DEF StopRuns, stateVars
    <2>7. \A s \in Key : ServicesOf(s)' \subseteq ServicesOf(s)
      BY <2>1, Zenon DEF ServicesOf, stateVars, removalVars
    <2>8. OneServicePerSlot'
      BY <2>7 DEF OneServicePerSlot
    <2> QED BY <2>4, <2>5, <2>6, <2>8
  <1>4. CASE StopDrains
    <2>1. /\ stopTask = "all" /\ Completed(stopWait)
          /\ drained' = Services
          /\ chains' = [k \in Key |-> None]
          /\ stopTask' = "stopping"
          /\ UNCHANGED <<lifecycle, lease, starts, cancelled, removals, reset, shutdown,
                         begun, pc, arg, wait, collected, removal, awaited, stopping,
                         stopWait>>
      BY <1>4, Zenon DEF StopDrains, callVars, removalVars
    <2>2. Pending = {} /\ Removing = {} /\ reset = None
      BY <2>1 DEF StopRuns, Completed, Ongoing
    <2>3. Services' = {} /\ Removing' = Removing /\ Pending' = Pending
      BY <2>1 DEF Services, Removing, Pending
    <2>4. StartsOwned'
      BY <2>1, Zenon DEF StartsOwned
    <2>5. RemovalsRun'
      BY <2>1, Zenon DEF RemovalsRun
    <2>6. ResetRuns'
      BY <2>1, <2>2, Zenon DEF ResetRuns
    <2>7. StopRuns'
      BY <2>1, <2>2, <2>3, Zenon DEF StopRuns
    <2>8. \A s \in Key : ServicesOf(s)' \subseteq ServicesOf(s)
      BY <2>1, Zenon DEF ServicesOf
    <2>9. OneServicePerSlot'
      BY <2>8 DEF OneServicePerSlot
    <2> QED BY <2>4, <2>5, <2>6, <2>7, <2>9
  <1>5. CASE StopEnds
    <2>1. /\ stopTask = "stopping"
          /\ lease' = FALSE /\ lifecycle' = "Stopped" /\ shutdown' = None
          /\ drained' = {} /\ stopTask' = "none"
          /\ UNCHANGED <<chains, starts, cancelled, removals, reset, begun, pc, arg,
                         wait, collected, removal, awaited, stopping, stopWait>>
      BY <1>5, Zenon DEF StopEnds, callVars, removalVars
    <2>2. Services' = Services /\ Removing' = Removing /\ Pending' = Pending
      BY <2>1, SetsKept, Zenon
    <2>3. StartsOwned' /\ RemovalsRun'
      BY <2>1, Zenon DEF StartsOwned, RemovalsRun
    <2>4. ResetRuns'
      BY <2>1, <2>2, Zenon DEF ResetRuns
    <2>5. StopRuns'
      BY <2>1, <2>2, Zenon DEF StopRuns
    <2>6. \A s \in Key : ServicesOf(s)' \subseteq ServicesOf(s)
      BY <2>1, Zenon DEF ServicesOf
    <2>7. OneServicePerSlot'
      BY <2>6 DEF OneServicePerSlot
    <2> QED BY <2>3, <2>4, <2>5, <2>7
  <1>6. CASE ManagerDropped
    <2>1. /\ \A c \in Caller : pc[c] \in {"idle", "returned"}
          /\ lifecycle = "Running" /\ lifecycle' = "Stopping"
          /\ cancelled' = cancelled \cup Pending
          /\ begun' = begun \cup Services
          /\ pc' = [c \in Caller |-> "returned"]
          /\ UNCHANGED <<lease, chains, starts, removals, reset, shutdown, arg, wait,
                         collected, removal, awaited, stopping, stopTask, stopWait,
                         drained>>
      BY <1>6, Zenon DEF ManagerDropped, BeginStopping, CancelStarts, removalVars, stopVars
    <2>2. Services' = Services /\ Removing' = Removing /\ Pending' = Pending
      BY <2>1, SetsKept, Zenon
    <2>3. \A k \in Key : starts[k] = None
      BY <2>1 DEF StartsOwned
    <2>4. reset = None
      BY <2>1, Zenon DEF ResetRuns
    <2>5. StartsOwned' /\ RemovalsRun'
      BY <2>1, <2>3, Zenon DEF StartsOwned, RemovalsRun
    <2>6. ResetRuns'
      BY <2>1, <2>4, Zenon DEF ResetRuns
    <2>7. StopRuns'
      BY <2>1, <2>2, Zenon DEF StopRuns
    <2>8. \A s \in Key : ServicesOf(s)' \subseteq ServicesOf(s)
      BY <2>1, Zenon DEF ServicesOf
    <2>9. OneServicePerSlot'
      BY <2>8 DEF OneServicePerSlot
    <2> QED BY <2>5, <2>6, <2>7, <2>9
  <1> QED BY <1>1, <1>2, <1>3, <1>4, <1>5, <1>6 DEF StopTask

\* A dropped future keeps the invariant: its guards undo what the call had put
\* in the state.
LEMMA DropStep ==
  ASSUME IInv, NEW c \in Caller, FutureDropped(c)
  PROVE  StartsOwned' /\ RemovalsRun' /\ ResetRuns' /\ StopRuns' /\ OneServicePerSlot'
  <1> USE ManagerAssumption DEF IInv, TypeOK, Caller
  <1>0. pc' = [pc EXCEPT ![c] = "returned"] /\ wait' = wait
    BY Zenon DEF FutureDropped, Returns, Goto
  <1>1. CASE pc[c] = "prepare"
    <2>1. UNCHANGED <<reset, collected>> /\ FinishStart(c) /\ Returns(c)
      BY <1>1, Zenon DEF FutureDropped
    <2>2. UNCHANGED <<lifecycle, lease, chains, cancelled, removals, reset, shutdown,
                      begun, arg, collected, removalVars, stopVars>>
      BY <2>1, Zenon DEF FutureDropped
    <2> HIDE DEF IInv, TypeOK, Caller
    <2> QED BY <1>1, <2>1, <2>2, StartEnds
  <1>2. CASE pc[c] \in {"starts", "caches"}
    <2>1. reset' = None /\ collected' = {} /\ starts' = starts
      BY <1>2, Zenon DEF FutureDropped
    <2>2. UNCHANGED <<lifecycle, lease, chains, cancelled, removals, shutdown, begun,
                      arg, removal, awaited, stopping, stopTask, stopWait, drained>>
      BY Zenon DEF FutureDropped, removalVars, stopVars
    <2>3. StartsOwned'
      BY <1>0, <1>2, <2>1, <2>2 DEF StartsOwned
    <2>4. RemovalsRun'
      BY <2>1, <2>2, Zenon DEF RemovalsRun
    <2>5. ResetRuns'
      BY <1>0, <1>2, <2>1, Zenon DEF ResetRuns
    <2>6. Services' = Services /\ Removing' = Removing /\ Pending' = Pending
      BY <2>1, <2>2, SetsKept, Zenon
    <2>7. StopRuns'
      BY <2>1, <2>2, <2>6, Zenon DEF StopRuns
    <2>8. \A s \in Key : ServicesOf(s)' \subseteq ServicesOf(s)
      BY <2>1, <2>2, Zenon DEF ServicesOf
    <2>9. OneServicePerSlot'
      BY <2>8 DEF OneServicePerSlot
    <2> QED BY <2>3, <2>4, <2>5, <2>7, <2>9
  <1>3. CASE pc[c] \in {"retry", "join"}
    <2>1. UNCHANGED <<starts, reset, collected>>
      BY <1>3, Zenon DEF FutureDropped
    <2>2. UNCHANGED <<stateVars, arg, collected, removalVars, stopVars>>
      BY <2>1, Zenon DEF FutureDropped, stateVars
    <2>3. Goto(c, "returned") /\ pc[c] \in {"idle", "retry", "join"}
      BY <1>3, Zenon DEF FutureDropped, Returns
    <2>4. \A d \in Caller \ {c} : wait'[d] = wait[d]
      BY <1>0, Zenon
    <2> HIDE DEF IInv, TypeOK, Caller
    <2> QED BY <2>2, <2>3, <2>4, CallMoves, Zenon
  <1> QED BY <1>1, <1>2, <1>3 DEF FutureDropped

\* Every step keeps the inductive invariant.
LEMMA ManagerStep == IInv /\ [Next]_vars => IInv'
  <1> SUFFICES ASSUME IInv, [Next]_vars PROVE IInv'
    BY Zenon
  <1>0. TypeOK'
    BY ManagerType, Zenon DEF IInv
  <1>1. SUFFICES StartsOwned' /\ RemovalsRun' /\ ResetRuns' /\ StopRuns'
                 /\ OneServicePerSlot'
    BY <1>0, Zenon DEF IInv
  <1>2. ASSUME NEW c \in Caller, StartCancelled(c) \/ PrepareFails(c)
        PROVE  StartsOwned' /\ RemovalsRun' /\ ResetRuns' /\ StopRuns' /\ OneServicePerSlot'
    BY <1>2, StartEnds, Zenon DEF StartCancelled, PrepareFails
  <1>3. ASSUME NEW c \in Caller, Joined(c)
        PROVE  StartsOwned' /\ RemovalsRun' /\ ResetRuns' /\ StopRuns' /\ OneServicePerSlot'
    <2>1. pc[c] \in {"idle", "retry", "join"} /\ Goto(c, "returned")
      BY <1>3, Zenon DEF Joined, Returns
    <2>2. \A d \in Caller \ {c} : wait'[d] = wait[d]
      BY <1>3, Zenon DEF Joined, Returns
    <2>3. UNCHANGED <<stateVars, arg, collected, removalVars, stopVars>>
      BY <1>3, Zenon DEF Joined
    <2> HIDE DEF IInv, TypeOK, Caller
    <2> QED BY <2>1, <2>2, <2>3, CallMoves, Zenon
  <1>4. CASE UNCHANGED vars
    <2>1. Services' = Services /\ Removing' = Removing /\ Pending' = Pending
      BY <1>4, SetsKept, Zenon DEF vars, stateVars
    <2>2. StartsOwned' /\ RemovalsRun'
      BY <1>4, Zenon DEF IInv, vars, stateVars, callVars, removalVars, StartsOwned, RemovalsRun
    <2>3. ResetRuns'
      BY <1>4, <2>1, Zenon DEF IInv, vars, stateVars, callVars, ResetRuns
    <2>4. StopRuns'
      BY <1>4, <2>1, Zenon DEF IInv, vars, stateVars, stopVars, StopRuns
    <2>5. \A s \in Key : ServicesOf(s)' \subseteq ServicesOf(s)
      BY <1>4, Zenon DEF vars, stateVars, removalVars, ServicesOf
    <2>6. OneServicePerSlot'
      BY <2>5, Zenon DEF IInv, OneServicePerSlot
    <2> QED BY <2>2, <2>3, <2>4, <2>6
  <1> QED
    BY <1>2, <1>3, <1>4, AddStep, PublishStep, RemoveStep, RemovalTaskStep, ResetStep,
       StopStep, DropStep, Zenon
       DEF Next, Admission, Proceeds, Quiet

\* The inductive invariant holds in every reachable state.
THEOREM ManagerInvariant == Spec => []IInv
  BY ManagerInit, ManagerStep, PTL DEF Spec

\* manager.rs: never two services for one key, nor two POI coordinators for one
\* chain id under the indexed policy, in any phase of their lives.
THEOREM ManagerOneService == Spec => []OneServicePerSlot
  BY ManagerInvariant, PTL DEF IInv

\* reset_public_sync_caches: the caches are reset for exactly the published
\* services, with no start or removal running.
THEOREM ManagerReset == Spec => []ResetSeesEveryService
  <1>1. IInv => ResetSeesEveryService
    BY ManagerAssumption, Zenon DEF IInv, ResetRuns, ResetSeesEveryService, Caller
  <1> QED BY <1>1, ManagerInvariant, PTL

\* shutdown, Drop: every published service has been told to stop.
THEOREM ManagerStopping == Spec => []StoppingReachesAll
  <1>1. IInv => StoppingReachesAll
    BY Zenon DEF IInv, StopRuns, StoppingReachesAll
  <1> QED BY <1>1, ManagerInvariant, PTL

\* run_manager_shutdown: the lease goes back only when nothing is left running.
THEOREM ManagerStopped == Spec => []StoppedIsQuiet
  <1>1. ASSUME IInv PROVE StoppedIsQuiet
    <2>1. lifecycle = "Stopped" => Ongoing = {}
      BY <1>1, Zenon DEF IInv, StopRuns, Ongoing
    <2>2. lifecycle = "Stopped" => \A k \in Key : removal[k] = "none"
      BY <1>1, Zenon DEF IInv, StopRuns, RemovalsRun, Removing
    <2>3. lifecycle = "Stopped" => Services = {} /\ drained = {}
      BY <1>1, Zenon DEF IInv, StopRuns
    <2>4. lease <=> lifecycle # "Stopped"
      BY <1>1, Zenon DEF IInv, StopRuns
    <2> QED BY <2>1, <2>2, <2>3, <2>4 DEF StoppedIsQuiet
  <1> QED BY <1>1, ManagerInvariant, PTL

\* run_chain_removal: no service is published for a key under removal, and the
\* removal completes only when the key has none.
THEOREM ManagerRemoval == Spec => RemovalIsExclusive
  <1>1. ASSUME IInv, [Next]_vars, NEW k \in Key, removals[k] # None
        PROVE  chains'[k] = None \/ (chains'[k] = chains[k] /\ removals'[k] # None)
    <2> USE ManagerAssumption DEF TypeOK, IInv, Caller
    <2>1. ASSUME NEW c \in Caller, PublishPreparedChain(c)
          PROVE  chains'[k] = chains[k] /\ removals' = removals
      <3>1. chains' = chains \/ (removals[arg[c]] = None
                                /\ chains' = [chains EXCEPT ![arg[c]] = c])
        BY <2>1, Zenon DEF PublishPreparedChain
      <3> QED BY <1>1, <2>1, <3>1 DEF PublishPreparedChain
    <2>2. ASSUME NEW r \in Key, RemovalTask(r)
          PROVE  chains'[k] = None \/ (chains'[k] = chains[k] /\ removals'[k] # None)
      BY <1>1, <2>2, Zenon DEF RemovalTask, RemovalTakesService, RemovalEnds, RemovalsRun
    <2>3. ASSUME NEW c \in Caller, RemoveChain(c)
          PROVE  chains' = chains /\ removals'[k] # None
      BY <1>1, <2>3, Zenon DEF RemoveChain
    <2>4. ASSUME NEW c \in Caller,
                 \/ AddChain(c) \/ ResetCaches(c) \/ Shutdown(c) \/ StartCancelled(c)
                 \/ PrepareFails(c) \/ ResetCollects(c) \/ ResetEnds(c) \/ Joined(c)
                 \/ FutureDropped(c)
          PROVE  chains' = chains /\ removals' = removals
      BY <2>4, Zenon DEF AddChain, ResetCaches, Shutdown, StartCancelled, PrepareFails,
         ResetCollects, ResetEnds, Joined, FutureDropped, stateVars
    <2>5. CASE StopTask
      BY <2>5, <1>1, Zenon DEF StopTask, StopSeesOperations, StopDrains, StopEnds, stateVars
    <2>6. CASE ManagerDropped \/ UNCHANGED vars
      BY <2>6, <1>1, Zenon DEF ManagerDropped, vars, stateVars
    <2> QED
      BY <1>1, <2>1, <2>2, <2>3, <2>4, <2>5, <2>6, Zenon DEF Next, Admission, Proceeds, Quiet
  <1>2. IInv /\ [Next]_vars =>
          [\A k \in Key : removals[k] # None =>
             chains'[k] = None \/ (chains'[k] = chains[k] /\ removals'[k] # None)]_vars
    BY <1>1, Zenon
  <1> QED BY <1>2, ManagerInvariant, PTL DEF Spec, RemovalIsExclusive
=============================================================================
