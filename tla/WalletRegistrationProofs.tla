----------------------- MODULE WalletRegistrationProofs -----------------------
(***************************************************************************)
(* The safety of the wallet registration, for every set of keys and        *)
(* callers and any number of calls, commits, panics and failed reads.      *)
(*                                                                         *)
(* The gate makes the argument: a call past it holds it (GateInv), so what *)
(* it found in the slot stays true until it leaves (CallInv), and an actor *)
(* that is not registered belongs to that call or is retired (ActorInv).   *)
(***************************************************************************)
EXTENDS WalletRegistration, TLAPS

\* The stages of a call that is not past the gate.
Quiet == {"idle", "watching", "done", "gate"}

GateInv == \A t \in Tasks : task[t].stage \notin Quiet => Holds(t)

\* What a call may rely on at its stage.
CallInv ==
    \A t \in Tasks :
        /\ task[t].stage \in {"starting", "installing"} =>
              task[t].reg \in Actors /\ act[task[t].reg].life \in {"prepared", "stopping"}
        /\ task[t].stage \in {"ack", "join"} =>
              /\ task[t].reg \in Actors /\ act[task[t].reg].life = "retired"
              /\ task[t].next \in {"idle", "read", "register"}
              /\ task[t].op = "shutdown" => task[t].next = "idle"
        /\ task[t].stage \in {"register", "read", "prepare", "starting", "installing", "ack", "join"} =>
              slot = NoActor
        /\ task[t].stage = "undo" => slot \in Actors /\ act[slot].life = "retired"
        /\ task[t].stage = "prepare" => task[t].base = disk[task[t].key] \/ task[t].blind
        /\ task[t].stage = "gate" /\ task[t].op = "unregister" => task[t].reg \in Actors
        /\ task[t].stage = "watching" => task[t].op = "reap"
        /\ task[t].op = "shutdown" => shut

\* The call that holds the gate is at one of the stages, with actor a in hand.
InHand(a, stages) ==
    line # <<>> /\ task[Head(line)].reg = a /\ task[Head(line)].stage \in stages

\* Who answers for an actor, and that its view of its cache is the newest or that
\* it started without one.
ActorInv ==
    \A a \in Actors :
        /\ act[a].life = "none" => act[a].worker = "none"
        /\ act[a].life = "prepared" => InHand(a, {"starting", "installing"})
        /\ act[a].life = "active" => slot = a
        /\ slot = a => act[a].life \in {"active", "stopping", "retired"}
        /\ act[a].worker \in {"running", "dead"} =>
              \/ slot = a
              \/ InHand(a, {"starting", "installing", "ack", "join"})
              \/ a \in detached /\ act[a].life = "retired"
        /\ act[a].life \in {"prepared", "active"} => act[a].view = disk[act[a].key] \/ act[a].blind

ReturnInv ==
    returned => shut /\ slot = NoActor /\ \A t \in Tasks : task[t].stage \in Quiet

IInv == TypeOK /\ GateInv /\ CallInv /\ ActorInv /\ ReturnInv

CallRecord == [op : Ops, key : Keys, reg : {NoActor} \cup Actors, stage : Stages,
               next : Stages, failed : BOOLEAN, base : 0 .. MaxCommit, blind : BOOLEAN]
ActorRecord == [life : Lifecycles, key : Keys, cancel : BOOLEAN,
                worker : {"none", "running", "dead", "ended"}, view : 0 .. MaxCommit,
                blind : BOOLEAN]

-----------------------------------------------------------------------------
\* What TypeOK says of the functions.
LEMMA Types ==
    ASSUME TypeOK
    PROVE  /\ task \in [Tasks -> CallRecord] /\ act \in [Actors -> ActorRecord]
           /\ line \in Seq(Tasks) /\ disk \in [Keys -> 0 .. MaxCommit]
           /\ slot \in {NoActor} \cup Actors /\ detached \subseteq Actors
  BY Zenon DEF TypeOK, CallRecord, ActorRecord

\* Actors are tasks (their reapers), and NoActor is no task.
LEMMA Names ==
    /\ MaxCall \in Nat /\ MaxCommit \in Nat /\ MaxFault \in Nat
    /\ NoActor \notin Actors /\ NoActor \notin Tasks /\ Actors \subseteq Tasks
    /\ Callers \cap Actors = {} /\ Tasks = Callers \cup Actors /\ Callers \subseteq Tasks
  BY RegistrationAssumption DEF NoActor, Actors, Tasks

\* The records of a call that was not made and of an actor that was not spawned.
LEMMA Blank == AnyKey \in Keys /\ NoCall \in CallRecord /\ NoOne \in ActorRecord
  <1>1. AnyKey \in Keys
    BY RegistrationAssumption, Zenon DEF AnyKey
  <1>2. 0 \in 0 .. MaxCommit
    BY Names
  <1> QED
    BY <1>1, <1>2, Zenon DEF NoCall, NoOne, CallRecord, ActorRecord, Ops, Stages, Lifecycles, NoActor

\* One more in a queue.
LEMMA LongerQueue ==
    ASSUME NEW S, NEW s \in Seq(S), NEW x \in S
    PROVE  /\ Append(s, x) \in Seq(S) /\ Append(s, x) # <<>>
           /\ s # <<>> => Head(Append(s, x)) = Head(s)
  <1>1. /\ Append(s, x) \in Seq(S) /\ Len(Append(s, x)) = Len(s) + 1
        /\ \A i \in 1 .. Len(s) : Append(s, x)[i] = s[i]
    OBVIOUS
  <1> DEFINE longer == Append(s, x)
  <1> HIDE DEF longer
  <1>2. longer \in Seq(S) /\ Len(longer) = Len(s) + 1 /\ \A i \in 1 .. Len(s) : longer[i] = s[i]
    BY <1>1 DEF longer
  <1>3. longer # <<>>
    BY <1>2
  <1>4. s # <<>> => Head(longer) = Head(s)
    BY <1>2
  <1> QED
    BY <1>2, <1>3, <1>4 DEF longer

\* The gate's queue: a waiter joins at the end, the holder leaves at the front,
\* and a waiter that gives up does not touch the holder.
LEMMA Queue ==
    ASSUME NEW s \in Seq(Tasks)
    PROVE  /\ s # <<>> => Head(s) \in Tasks /\ Tail(s) \in Seq(Tasks)
           /\ \A t \in Tasks :
                /\ Append(s, t) \in Seq(Tasks) /\ Append(s, t) # <<>>
                /\ s # <<>> => Head(Append(s, t)) = Head(s)
           /\ \A i \in 1 .. Len(s) :
                /\ RemoveAt(s, i) \in Seq(Tasks)
                /\ s[i] # Head(s) => RemoveAt(s, i) # <<>> /\ Head(RemoveAt(s, i)) = Head(s)
  <1>1. s # <<>> => Head(s) \in Tasks /\ Tail(s) \in Seq(Tasks)
    OBVIOUS
  <1>2. \A t \in Tasks :
            /\ Append(s, t) \in Seq(Tasks) /\ Append(s, t) # <<>>
            /\ s # <<>> => Head(Append(s, t)) = Head(s)
    BY LongerQueue, Zenon
  <1>3. ASSUME NEW i \in 1 .. Len(s)
        PROVE  /\ RemoveAt(s, i) \in Seq(Tasks)
               /\ s[i] # Head(s) => RemoveAt(s, i) # <<>> /\ Head(RemoveAt(s, i)) = Head(s)
    <2> DEFINE before == SubSeq(s, 1, i - 1)
               after == SubSeq(s, i + 1, Len(s))
    <2>1. before \in Seq(Tasks) /\ (i > 1 => Len(before) = i - 1 /\ before[1] = s[1])
      OBVIOUS
    <2>2. after \in Seq(Tasks)
      OBVIOUS
    <2>3. RemoveAt(s, i) = before \o after
      BY Zenon DEF RemoveAt
    <2> HIDE DEF before, after
    <2>4. /\ before \o after \in Seq(Tasks)
          /\ Len(before \o after) = Len(before) + Len(after)
          /\ Len(before) >= 1 => (before \o after)[1] = before[1]
      BY <2>1, <2>2
    <2>5. CASE s[i] = Head(s)
      BY <2>3, <2>4, <2>5, Zenon
    <2>6. CASE s[i] # Head(s)
      <3>1. i > 1
        BY <2>6
      <3> QED
        BY <2>1, <2>2, <2>3, <2>4, <3>1
    <2> QED
      BY <2>5, <2>6, Zenon
  <1> QED
    BY <1>1, <1>2, <1>3, Zenon

\* What leaving the gate does to the line and to the calls.
LEMMA Left ==
    ASSUME TypeOK, NEW t \in Tasks, Holds(t), Leave(t)
    PROVE  /\ line' \in Seq(Tasks) /\ task' \in [Tasks -> CallRecord]
           /\ task'[t].stage \in {"idle", "done"} /\ task'[t].op = "reap"
           /\ \A u \in Tasks \ {t} : task'[u] = task[u]
  <1> DEFINE stage == IF t \in Callers THEN "idle" ELSE "done"
             blank == [NoCall EXCEPT !.stage = stage]
  <1>1. stage \in Stages /\ stage \in {"idle", "done"}
    BY Zenon DEF Stages
  <1> HIDE DEF stage
  <1>2. blank \in CallRecord /\ blank.stage = stage /\ blank.op = "reap"
    BY <1>1, Blank, Zenon DEF CallRecord, NoCall
  <1>3. task' = [task EXCEPT ![t] = blank]
    BY Zenon DEF Leave, stage
  <1> HIDE DEF blank
  <1> QED
    BY <1>1, <1>2, <1>3, Types, Queue, Zenon DEF Leave, Holds

\* What retiring an actor does to the actors.
LEMMA Retiring ==
    ASSUME TypeOK, NEW a \in Actors, act' = Retired(a)
    PROVE  /\ act' \in [Actors -> ActorRecord]
           /\ act'[a].life = "retired" /\ act'[a].worker = act[a].worker
           /\ \A b \in Actors \ {a} : act'[b] = act[b]
  <1>1. act[a] \in ActorRecord /\ act \in [Actors -> ActorRecord]
    BY Types, Zenon
  <1> DEFINE new == [act[a] EXCEPT !.life = "retired", !.cancel = TRUE]
  <1>2. new \in ActorRecord /\ new.life = "retired" /\ new.worker = act[a].worker
    BY <1>1, Zenon DEF ActorRecord, Lifecycles
  <1>3. act' = [act EXCEPT ![a] = new]
    BY <1>1, Zenon DEF Retired
  <1> HIDE DEF new
  <1> QED
    BY <1>1, <1>2, <1>3, Zenon

\* What taking the registration out of the slot does.
LEMMA Taken ==
    ASSUME TypeOK, NEW t \in Tasks, NEW a \in Actors, NEW next \in Stages, TakeAndRetire(t, a, next)
    PROVE  /\ slot' = NoActor /\ line' = line
           /\ task' \in [Tasks -> CallRecord]
           /\ task'[t].stage = "ack" /\ task'[t].reg = a /\ task'[t].next = next
           /\ task'[t].op = task[t].op
           /\ \A u \in Tasks \ {t} : task'[u] = task[u]
           /\ act' \in [Actors -> ActorRecord]
           /\ act'[a].life = "retired" /\ act'[a].worker = act[a].worker
           /\ \A b \in Actors \ {a} : act'[b] = act[b]
  <1>1. task[t] \in CallRecord /\ task \in [Tasks -> CallRecord]
    BY Types, Zenon
  <1> DEFINE new == [task[t] EXCEPT !.stage = "ack", !.reg = a, !.next = next]
  <1>2. /\ new \in CallRecord /\ new.stage = "ack" /\ new.reg = a /\ new.next = next
        /\ new.op = task[t].op
    BY <1>1, Zenon DEF CallRecord, Stages
  <1>3. task' = [task EXCEPT ![t] = new]
    BY <1>1, Zenon DEF TakeAndRetire
  <1> HIDE DEF new
  <1>4. /\ task' \in [Tasks -> CallRecord]
        /\ task'[t] = new /\ \A u \in Tasks \ {t} : task'[u] = task[u]
    BY <1>1, <1>2, <1>3, Zenon
  <1> QED
    BY <1>2, <1>4, Retiring, Zenon DEF TakeAndRetire

\* Calls that are not past the gate rely on little.
LEMMA QuietCalls ==
    ASSUME \A u \in Tasks :
              /\ task'[u].stage \in Quiet
              /\ task'[u].stage = "watching" => task'[u].op = "reap"
              /\ task'[u].op = "shutdown" => shut'
              /\ task'[u].stage = "gate" /\ task'[u].op = "unregister" => task'[u].reg \in Actors
    PROVE  GateInv' /\ CallInv'
  BY Zenon DEF GateInv, CallInv, Quiet

\* A call takes a registration out of the slot and goes on to retire it.
LEMMA TakingKeeps ==
    ASSUME IInv, NEW t \in Tasks, Holds(t), task[t].stage \in {"gate", "undo"},
           slot \in Actors, NEW next \in {"idle", "read", "register"},
           task[t].op = "shutdown" => next = "idle", TakeAndRetire(t, slot, next),
           UNCHANGED <<shut, loop, detached, disk, returned, calls, faults>>
    PROVE  IInv'
  <1>1. next \in Stages /\ TypeOK /\ ~returned
    BY Names, Zenon DEF Stages, IInv, ReturnInv
  <1>2. /\ slot' = NoActor /\ line' = line
        /\ task' \in [Tasks -> CallRecord]
        /\ task'[t].stage = "ack" /\ task'[t].reg = slot /\ task'[t].next = next
        /\ task'[t].op = task[t].op
        /\ \A u \in Tasks \ {t} : task'[u] = task[u]
        /\ act' \in [Actors -> ActorRecord]
        /\ act'[slot].life = "retired" /\ act'[slot].worker = act[slot].worker
        /\ \A b \in Actors \ {slot} : act'[b] = act[b]
    BY <1>1, Taken, Zenon
  <1>3. TypeOK'
    BY <1>1, <1>2, Zenon DEF TypeOK, CallRecord, ActorRecord
  <1>4. \A u \in Tasks \ {t} : task[u].stage \in Quiet
    BY Zenon DEF IInv, GateInv, Holds
  <1>5. GateInv'
    BY <1>2, <1>4, Zenon DEF GateInv, Holds
  <1>6. CallInv'
    BY <1>2, <1>4, Names DEF CallInv, IInv, Quiet
  <1>7. ActorInv'
    BY <1>2, Names DEF ActorInv, IInv, InHand, Holds
  <1>8. ReturnInv'
    BY <1>1, Zenon DEF ReturnInv
  <1> QED
    BY <1>3, <1>5, <1>6, <1>7, <1>8, Zenon DEF IInv

\* A call leaves the gate with nothing in hand.
LEMMA LeavingKeeps ==
    ASSUME IInv, NEW t \in Tasks, Holds(t), Leave(t),
           task[t].stage \in {"gate", "register", "read", "prepare", "resetting"},
           returned' = returned \/ (returned' = TRUE /\ shut /\ slot = NoActor),
           UNCHANGED <<shut, loop, slot, act, detached, disk, calls, faults>>
    PROVE  IInv'
  <1>1. TypeOK
    BY Zenon DEF IInv
  <1>2. /\ line' \in Seq(Tasks) /\ task' \in [Tasks -> CallRecord]
        /\ task'[t].stage \in {"idle", "done"} /\ task'[t].op = "reap"
        /\ \A u \in Tasks \ {t} : task'[u] = task[u]
    BY <1>1, Left, Zenon
  <1>3. TypeOK'
    BY <1>1, <1>2, Zenon DEF TypeOK, CallRecord
  <1>4. \A u \in Tasks : task'[u].stage \in Quiet
    BY <1>2, Zenon DEF IInv, GateInv, Holds, Quiet
  <1>5. GateInv'
    BY <1>4, Zenon DEF GateInv
  <1>6. CallInv'
    BY <1>2, <1>4 DEF CallInv, IInv, Quiet
  <1>7. ActorInv'
    BY <1>2, Zenon DEF ActorInv, IInv, InHand, Holds
  <1>8. ReturnInv'
    BY <1>4, Zenon DEF ReturnInv, IInv
  <1> QED
    BY <1>3, <1>5, <1>6, <1>7, <1>8, Zenon DEF IInv

\* The holder of the gate moves on to another stage; the actors stay as they are.
LEMMA MovingKeeps ==
    ASSUME IInv, NEW t \in Tasks, Holds(t), ~returned, NEW new \in CallRecord,
           task' = [task EXCEPT ![t] = new], new.op = task[t].op,
           slot = NoActor \/ new.stage = "resetting",
           \/ new.stage = "resetting" /\ task[t].stage = "gate"
           \/ new.stage \in {"register", "read"}
              /\ \/ task[t].stage \in {"gate", "register"}
                 \/ task[t].stage = "join" /\ act[task[t].reg].worker = "ended"
           \/ new.stage = "prepare" /\ task[t].stage = "read"
              /\ (new.base = disk[new.key] \/ new.blind)
           \/ /\ new.stage = "installing" /\ task[t].stage = "starting"
              /\ new.reg = task[t].reg
           \/ /\ new.stage = "join" /\ task[t].stage = "ack"
              /\ new.reg = task[t].reg /\ new.next = task[t].next,
           shut => shut', shut' \in BOOLEAN, returned' = returned,
           faults' \in 0 .. MaxFault, UNCHANGED <<loop, slot, line, act, detached, disk, calls>>
    PROVE  IInv'
  <1>1. /\ TypeOK /\ task' \in [Tasks -> CallRecord] /\ task'[t] = new
        /\ \A u \in Tasks \ {t} : task'[u] = task[u]
    BY Types, Zenon DEF IInv
  <1>2. TypeOK'
    BY <1>1, Zenon DEF TypeOK, CallRecord
  <1>3. \A u \in Tasks \ {t} : task[u].stage \in Quiet
    BY Zenon DEF IInv, GateInv, Holds
  <1>4. GateInv'
    BY <1>1, <1>3, Zenon DEF GateInv, Holds
  <1>5. CallInv'
    BY <1>1, <1>3 DEF CallInv, IInv, Quiet
  <1>6. ActorInv'
    BY <1>1 DEF ActorInv, IInv, InHand, Holds
  <1>7. ReturnInv'
    BY Zenon DEF ReturnInv
  <1> QED
    BY <1>2, <1>4, <1>5, <1>6, <1>7, Zenon DEF IInv

\* The actor in hand is retired before it is installed: by the call that spawned
\* it, which then waits for its worker.
LEMMA GivingUpKeeps ==
    ASSUME IInv, NEW t \in Tasks, Holds(t), NEW new \in CallRecord,
           task[t].stage \in {"starting", "installing"},
           task' = [task EXCEPT ![t] = new], new.op = task[t].op, new.reg = task[t].reg,
           new.stage \in {"ack", "join"}, new.next = "idle", act' = Retired(task[t].reg),
           UNCHANGED <<shut, loop, slot, line, detached, disk, returned, calls, faults>>
    PROVE  IInv'
  <1> DEFINE a == task[t].reg
  <1>1. /\ TypeOK /\ task' \in [Tasks -> CallRecord] /\ task'[t] = new
        /\ \A u \in Tasks \ {t} : task'[u] = task[u]
        /\ a \in Actors /\ slot = NoActor /\ ~returned
    BY Types, Zenon DEF IInv, CallInv, ReturnInv, Quiet
  <1>2. /\ act' \in [Actors -> ActorRecord]
        /\ act'[a].life = "retired" /\ act'[a].worker = act[a].worker
        /\ \A b \in Actors \ {a} : act'[b] = act[b]
    BY <1>1, Retiring, Zenon
  <1>3. TypeOK'
    BY <1>1, <1>2, Zenon DEF TypeOK, CallRecord, ActorRecord
  <1>4. \A u \in Tasks \ {t} : task[u].stage \in Quiet
    BY Zenon DEF IInv, GateInv, Holds
  <1>5. GateInv'
    BY <1>1, <1>4, Zenon DEF GateInv, Holds
  <1>6. CallInv'
    BY <1>1, <1>2, <1>4 DEF CallInv, IInv, Quiet
  <1>7. ActorInv'
    BY <1>1, <1>2, Names DEF ActorInv, IInv, InHand, Holds
  <1>8. ReturnInv'
    BY <1>1, Zenon DEF ReturnInv
  <1> QED
    BY <1>3, <1>5, <1>6, <1>7, <1>8, Zenon DEF IInv

\* A call joins the line at the gate.
LEMMA CallKeeps ==
    ASSUME IInv, NEW c \in Callers, NEW op \in Ops, NEW k \in Keys,
           NEW a \in {NoActor} \cup Actors, Call(c, op, k, a)
    PROVE  IInv'
  <1> DEFINE new == [NoCall EXCEPT !.op = op, !.stage = "gate", !.key = k, !.reg = a]
  <1>1. /\ TypeOK /\ c \in Tasks /\ task[c].stage = "idle"
        /\ task \in [Tasks -> CallRecord] /\ line \in Seq(Tasks)
    BY Names, Types, Zenon DEF IInv, Call
  <1>2. new \in CallRecord /\ new.stage = "gate" /\ new.op = op /\ new.reg = a
    BY Blank, Zenon DEF CallRecord, Stages, NoCall
  <1>3. task' = [task EXCEPT ![c] = new] /\ line' = Append(line, c)
    BY Zenon DEF Call
  <1> HIDE DEF new
  <1>4. /\ task' \in [Tasks -> CallRecord] /\ task'[c] = new
        /\ \A u \in Tasks \ {c} : task'[u] = task[u]
    BY <1>1, <1>2, <1>3, Zenon
  <1>5. /\ line' \in Seq(Tasks) /\ line' # <<>>
        /\ line # <<>> => Head(line') = Head(line)
    BY <1>1, <1>3, Queue, Zenon
  <1>6. /\ UNCHANGED <<loop, slot, act, detached, disk, returned, faults>>
        /\ calls' \in 0 .. MaxCall /\ shut' \in BOOLEAN
    BY <1>1, Names DEF Call, TypeOK
  <1>7. (shut => shut') /\ (op = "shutdown" => shut') /\ (op = "unregister" => a \in Actors)
    BY <1>1, Zenon DEF Call, TypeOK
  <1>8. TypeOK'
    BY <1>1, <1>4, <1>5, <1>6, Zenon DEF TypeOK, CallRecord
  <1>9. GateInv'
    BY <1>1, <1>2, <1>4, <1>5, Zenon DEF IInv, GateInv, Holds, Quiet
  <1>10. CallInv'
    BY <1>1, <1>2, <1>4, <1>6, <1>7 DEF IInv, CallInv
  <1>11. ActorInv'
    <2>1. ASSUME NEW b \in Actors, NEW stages, InHand(b, stages), "idle" \notin stages
          PROVE  InHand(b, stages)'
      BY <1>1, <1>4, <1>5, <2>1, Queue, Zenon DEF InHand
    <2> QED
      BY <1>6, <2>1, Zenon DEF IInv, ActorInv
  <1>12. ReturnInv'
    BY <1>2, <1>4, <1>6, <1>7, Zenon DEF IInv, ReturnInv, Quiet
  <1> QED
    BY <1>8, <1>9, <1>10, <1>11, <1>12, Zenon DEF IInv

\* A prepared actor is spawned by the call that read the newest version.
LEMMA SpawnKeeps ==
    ASSUME IInv, NEW t \in Tasks, SpawnPrepared(t)
    PROVE  IInv'
  <1>1. PICK a \in Actors :
            /\ act[a].life = "none"
            /\ act' = [act EXCEPT ![a] =
                         [life |-> "prepared", key |-> task[t].key, cancel |-> FALSE,
                          worker |-> "running", view |-> task[t].base, blind |-> task[t].blind]]
            /\ task' = [task EXCEPT ![t].stage = "starting", ![t].reg = a]
    BY Zenon DEF SpawnPrepared
  <1> DEFINE new == [task[t] EXCEPT !.stage = "starting", !.reg = a]
             actor == [life |-> "prepared", key |-> task[t].key, cancel |-> FALSE,
                       worker |-> "running", view |-> task[t].base, blind |-> task[t].blind]
  <1>2. /\ TypeOK /\ Holds(t) /\ task[t].stage = "prepare" /\ slot = NoActor
        /\ (task[t].base = disk[task[t].key] \/ task[t].blind) /\ ~returned
        /\ UNCHANGED <<shut, loop, slot, line, detached, disk, returned, calls, faults>>
        /\ task \in [Tasks -> CallRecord] /\ act \in [Actors -> ActorRecord]
        /\ task[t] \in CallRecord
    BY Types, Zenon DEF IInv, CallInv, ReturnInv, Quiet, SpawnPrepared, At
  <1>3. /\ new \in CallRecord /\ new.stage = "starting" /\ new.reg = a /\ new.op = task[t].op
        /\ actor \in ActorRecord /\ actor.life = "prepared" /\ actor.worker = "running"
        /\ actor.view = task[t].base /\ actor.key = task[t].key /\ actor.blind = task[t].blind
    BY <1>2, Zenon DEF CallRecord, ActorRecord, Stages, Lifecycles
  <1>4. task' = [task EXCEPT ![t] = new] /\ act' = [act EXCEPT ![a] = actor]
    BY <1>1, <1>2, Zenon
  <1> HIDE DEF new, actor
  <1>5. /\ task' \in [Tasks -> CallRecord] /\ task'[t] = new
        /\ \A u \in Tasks \ {t} : task'[u] = task[u]
        /\ act' \in [Actors -> ActorRecord] /\ act'[a] = actor
        /\ \A b \in Actors \ {a} : act'[b] = act[b]
    BY <1>2, <1>3, <1>4, Zenon
  <1>6. TypeOK'
    BY <1>2, <1>5, Zenon DEF TypeOK, CallRecord, ActorRecord
  <1>7. \A u \in Tasks \ {t} : task[u].stage \in Quiet
    BY <1>2, Zenon DEF IInv, GateInv, Holds
  <1>8. GateInv'
    BY <1>2, <1>5, <1>7, Zenon DEF GateInv, Holds
  <1>9. CallInv'
    BY <1>2, <1>3, <1>5, <1>7 DEF CallInv, IInv, Quiet
  <1>10. ActorInv'
    BY <1>2, <1>3, <1>5, Names DEF ActorInv, IInv, InHand, Holds
  <1>11. ReturnInv'
    BY <1>2, Zenon DEF ReturnInv
  <1> QED
    BY <1>6, <1>8, <1>9, <1>10, <1>11, Zenon DEF IInv

\* A worker that died before its first attempt leaves a retired actor behind.
LEMMA StartupLostKeeps ==
    ASSUME IInv, NEW t \in Tasks, StartupLost(t)
    PROVE  IInv'
  <1> DEFINE a == task[t].reg
  <1>1. /\ TypeOK /\ Holds(t) /\ task[t].stage = "starting" /\ a \in Actors
        /\ slot = NoActor /\ ~returned /\ Leave(t) /\ act' = Retired(a)
        /\ detached' = detached \cup {a}
        /\ UNCHANGED <<shut, loop, slot, disk, returned, calls, faults>>
    BY Zenon DEF IInv, CallInv, ReturnInv, Quiet, StartupLost, At
  <1>2. /\ line' \in Seq(Tasks) /\ task' \in [Tasks -> CallRecord]
        /\ task'[t].stage \in {"idle", "done"} /\ task'[t].op = "reap"
        /\ \A u \in Tasks \ {t} : task'[u] = task[u]
    BY <1>1, Left, Zenon
  <1>3. /\ act' \in [Actors -> ActorRecord]
        /\ act'[a].life = "retired" /\ act'[a].worker = act[a].worker
        /\ \A b \in Actors \ {a} : act'[b] = act[b]
    BY <1>1, Retiring, Zenon
  <1>4. TypeOK'
    BY <1>1, <1>2, <1>3, Zenon DEF TypeOK, CallRecord, ActorRecord
  <1>5. \A u \in Tasks : task'[u].stage \in Quiet
    BY <1>1, <1>2, Zenon DEF IInv, GateInv, Holds, Quiet
  <1>6. \A u \in Tasks \ {t} :
            /\ task[u].stage = "watching" => task[u].op = "reap"
            /\ task[u].op = "shutdown" => shut
            /\ task[u].stage = "gate" /\ task[u].op = "unregister" => task[u].reg \in Actors
    BY Zenon DEF IInv, CallInv
  <1>7. GateInv' /\ CallInv'
    BY <1>1, <1>2, <1>5, <1>6, QuietCalls, Zenon
  <1>8. ActorInv'
    BY <1>1, <1>2, <1>3, Names DEF ActorInv, IInv, InHand, Holds
  <1>9. ReturnInv'
    BY <1>1, Zenon DEF ReturnInv
  <1> QED
    BY <1>4, <1>7, <1>8, <1>9, Zenon DEF IInv

\* A retirement ends with the worker's join, whatever its result.
LEMMA JoinedLeavesKeeps ==
    ASSUME IInv, NEW t \in Tasks, Joined(t), Leave(t)
    PROVE  IInv'
  <1>1. /\ TypeOK /\ Holds(t) /\ task[t].stage = "join" /\ task[t].reg \in Actors
        /\ act[task[t].reg].worker = "ended" /\ slot = NoActor /\ ~returned
        /\ UNCHANGED <<loop, slot, act, detached, disk, calls, faults>>
        /\ task[t].op = "shutdown" => shut
    BY Zenon DEF IInv, CallInv, ReturnInv, Quiet, Joined, At
  <1>2. /\ shut' \in BOOLEAN /\ returned' \in BOOLEAN /\ (shut => shut')
        /\ returned' => shut
    BY <1>1, Zenon DEF Joined, TypeOK
  <1>3. /\ line' \in Seq(Tasks) /\ task' \in [Tasks -> CallRecord]
        /\ task'[t].stage \in {"idle", "done"} /\ task'[t].op = "reap"
        /\ \A u \in Tasks \ {t} : task'[u] = task[u]
    BY <1>1, Left, Zenon
  <1>4. TypeOK'
    BY <1>1, <1>2, <1>3, Zenon DEF TypeOK, CallRecord
  <1>5. \A u \in Tasks : task'[u].stage \in Quiet
    BY <1>1, <1>3, Zenon DEF IInv, GateInv, Holds, Quiet
  <1>6. GateInv'
    BY <1>5, Zenon DEF GateInv
  <1>7. CallInv'
    BY <1>1, <1>2, <1>3, <1>5 DEF CallInv, IInv, Quiet
  <1>8. ActorInv'
    BY <1>1, <1>3, Zenon DEF ActorInv, IInv, InHand, Holds
  <1>9. ReturnInv'
    BY <1>1, <1>2, <1>5, Zenon DEF ReturnInv
  <1> QED
    BY <1>4, <1>6, <1>7, <1>8, <1>9, Zenon DEF IInv

\* The registration is installed and its actor activated, and the call returns.
LEMMA ActivateKeeps ==
    ASSUME IInv, NEW t \in Tasks, Holds(t), task[t].stage = "installing", ~shut,
           act[task[t].reg].life = "prepared", slot' = task[t].reg,
           act' = [act EXCEPT ![task[t].reg].life = "active"], line' = Tail(line),
           task' = [task EXCEPT ![t] = NoCall,
                                ![task[t].reg] = [NoCall EXCEPT !.stage = "watching"]],
           UNCHANGED <<shut, loop, detached, disk, returned, calls, faults>>
    PROVE  IInv'
  <1> DEFINE a == task[t].reg
             actor == [act[a] EXCEPT !.life = "active"]
  <1>1. /\ TypeOK /\ a \in Actors /\ a \in Tasks /\ slot = NoActor /\ ~returned
        /\ task \in [Tasks -> CallRecord] /\ act \in [Actors -> ActorRecord]
        /\ act[a] \in ActorRecord /\ line \in Seq(Tasks)
    BY Names, Types, Zenon DEF IInv, CallInv, ReturnInv, Quiet
  <1>2. /\ actor \in ActorRecord /\ actor.life = "active" /\ actor.worker = act[a].worker
        /\ actor.view = act[a].view /\ actor.key = act[a].key /\ actor.blind = act[a].blind
    BY <1>1, Zenon DEF ActorRecord, Lifecycles
  <1>3. act' = [act EXCEPT ![a] = actor]
    BY <1>1, Zenon
  <1> HIDE DEF actor
  <1>4. /\ act' \in [Actors -> ActorRecord] /\ act'[a] = actor
        /\ \A b \in Actors \ {a} : act'[b] = act[b]
    BY <1>1, <1>2, <1>3, Zenon
  <1> DEFINE reaper == [NoCall EXCEPT !.stage = "watching"]
  <1>5. reaper \in CallRecord /\ reaper.stage = "watching" /\ reaper.op = "reap"
    BY Blank, Zenon DEF CallRecord, Stages, NoCall
  <1>6. task' = [task EXCEPT ![t] = NoCall, ![a] = reaper]
    BY Zenon
  <1> HIDE DEF reaper
  <1>9. /\ task' \in [Tasks -> CallRecord] /\ task'[a] = reaper
        /\ t # a => task'[t] = NoCall
        /\ \A u \in Tasks \ {t, a} : task'[u] = task[u]
    BY <1>1, <1>5, <1>6, Blank, Zenon
  <1>10. line' \in Seq(Tasks)
    BY <1>1, Queue, Zenon DEF Holds
  <1>11. TypeOK'
    BY <1>1, <1>4, <1>9, <1>10, Zenon DEF TypeOK, CallRecord, ActorRecord
  <1>12. NoCall.stage = "idle" /\ NoCall.op = "reap"
    BY Zenon DEF NoCall
  <1>13. \A u \in Tasks \ {t} : task[u].stage \in Quiet
    BY Zenon DEF IInv, GateInv, Holds
  <1>14. \A u \in Tasks :
            \/ task'[u] = task[u] /\ task[u].stage \in Quiet
            \/ task'[u].stage \in {"idle", "watching"} /\ task'[u].op = "reap"
    BY <1>5, <1>9, <1>12, <1>13, Zenon
  <1>15. \A u \in Tasks :
            /\ task[u].stage = "watching" => task[u].op = "reap"
            /\ task[u].op = "shutdown" => shut
            /\ task[u].stage = "gate" /\ task[u].op = "unregister" => task[u].reg \in Actors
    BY Zenon DEF IInv, CallInv
  <1>16. GateInv' /\ CallInv'
    BY <1>14, <1>15, QuietCalls, ZenonT(30) DEF Quiet
  <1>17. ActorInv'
    <2>1. slot' = a /\ detached' = detached /\ disk' = disk
      BY Zenon
    <2>2. act[a].view = disk[act[a].key] \/ act[a].blind
      BY <1>1, Zenon DEF ActorInv, IInv
    <2>3. ASSUME NEW b \in Actors \ {a}
          PROVE  /\ act[b].life \notin {"prepared", "active"}
                 /\ act[b].life = "none" => act[b].worker = "none"
                 /\ act[b].worker \in {"running", "dead"} => b \in detached /\ act[b].life = "retired"
      <3>1. b # slot /\ ~InHand(b, {"starting", "installing"})
              /\ ~InHand(b, {"starting", "installing", "ack", "join"})
        BY <1>1, Names, Zenon DEF InHand, Holds
      <3> QED
        BY <3>1, Zenon DEF ActorInv, IInv
    <2> QED
      BY <1>2, <1>4, <2>1, <2>2, <2>3, Zenon DEF ActorInv
  <1>18. ReturnInv'
    BY <1>1, Zenon DEF ReturnInv
  <1> QED
    BY <1>11, <1>16, <1>17, <1>18, Zenon DEF IInv

\* A worker that died meanwhile leaves a retired registration to be taken out.
LEMMA FailedActivationKeeps ==
    ASSUME IInv, NEW t \in Tasks, Holds(t), NEW new \in CallRecord,
           task[t].stage = "installing", task' = [task EXCEPT ![t] = new],
           new.op = task[t].op, new.stage = "undo", slot' = task[t].reg,
           act' = Retired(task[t].reg),
           UNCHANGED <<shut, loop, line, detached, disk, returned, calls, faults>>
    PROVE  IInv'
  <1> DEFINE a == task[t].reg
  <1>1. /\ TypeOK /\ task' \in [Tasks -> CallRecord] /\ task'[t] = new
        /\ \A u \in Tasks \ {t} : task'[u] = task[u]
        /\ a \in Actors /\ slot = NoActor /\ ~returned
    BY Types, Zenon DEF IInv, CallInv, ReturnInv, Quiet
  <1>2. /\ act' \in [Actors -> ActorRecord]
        /\ act'[a].life = "retired" /\ act'[a].worker = act[a].worker
        /\ \A b \in Actors \ {a} : act'[b] = act[b]
    BY <1>1, Retiring, Zenon
  <1>3. TypeOK'
    BY <1>1, <1>2, Zenon DEF TypeOK, CallRecord, ActorRecord
  <1>4. \A u \in Tasks \ {t} : task[u].stage \in Quiet
    BY Zenon DEF IInv, GateInv, Holds
  <1>5. GateInv'
    BY <1>1, <1>4, Zenon DEF GateInv, Holds
  <1>6. CallInv'
    BY <1>1, <1>2, <1>4 DEF CallInv, IInv, Quiet
  <1>7. ActorInv'
    BY <1>1, <1>2, Names DEF ActorInv, IInv, InHand, Holds
  <1>8. ReturnInv'
    BY <1>1, Zenon DEF ReturnInv
  <1> QED
    BY <1>3, <1>5, <1>6, <1>7, <1>8, Zenon DEF IInv

\* A caller drops its future: what it had in hand is retired and detached.
LEMMA DropKeeps ==
    ASSUME IInv, NEW c \in Callers, DropCall(c)
    PROVE  IInv'
  <1> DEFINE a == task[c].reg
             spawned == task[c].stage \in {"starting", "installing"}
             held == task[c].stage \in {"starting", "installing", "ack", "join"}
  <1>1. /\ TypeOK /\ c \in Tasks /\ task \in [Tasks -> CallRecord]
        /\ line \in Seq(Tasks) /\ act \in [Actors -> ActorRecord]
        /\ held => a \in Actors /\ slot = NoActor /\ ~returned
        /\ task[c].stage \in {"ack", "join"} => act[a].life = "retired"
        /\ UNCHANGED <<shut, loop, slot, disk, returned, calls, faults>>
        /\ task' = [task EXCEPT ![c] = NoCall]
    BY Names, Types, Zenon DEF IInv, CallInv, ReturnInv, Quiet, DropCall
  <1>2. /\ task' \in [Tasks -> CallRecord] /\ task'[c] = NoCall
        /\ NoCall.stage = "idle" /\ NoCall.op = "reap"
        /\ \A u \in Tasks \ {c} : task'[u] = task[u]
    BY <1>1, Blank, Zenon DEF NoCall
  <1>3. /\ line' \in Seq(Tasks)
        /\ line # <<>>
        /\ Head(line) # c => line' # <<>> /\ Head(line') = Head(line)
    <2>1. PICK i \in 1 .. Len(line) : line[i] = c /\ line' = RemoveAt(line, i)
      BY Zenon DEF DropCall
    <2> QED
      BY <1>1, <2>1, Queue
  <1>4. /\ act' \in [Actors -> ActorRecord]
        /\ spawned => act'[a].life = "retired" /\ act'[a].worker = act[a].worker
        /\ \A b \in Actors : b # a \/ ~spawned => act'[b] = act[b]
    <2>1. CASE spawned
      <3>1. act' = Retired(a)
        BY <2>1, Zenon DEF DropCall
      <3> QED
        BY <1>1, <2>1, <3>1, Retiring, Zenon
    <2>2. CASE ~spawned
      BY <1>1, <2>2, Zenon DEF DropCall
    <2> QED
      BY <2>1, <2>2, Zenon
  <1>5. detached' = IF held THEN detached \cup {a} ELSE detached
    BY Zenon DEF DropCall
  <1>6. TypeOK'
    BY <1>1, <1>2, <1>3, <1>4, <1>5, Zenon DEF TypeOK, CallRecord, ActorRecord
  <1>7. \A u \in Tasks : task[u].stage \notin Quiet => u = Head(line)
    BY Zenon DEF IInv, GateInv, Holds
  <1>8. CASE Head(line) = c
    <2>1. \A u \in Tasks : task'[u].stage \in Quiet
      BY <1>2, <1>7, <1>8, Zenon DEF Quiet
    <2>2. \A u \in Tasks \ {c} :
              /\ task[u].stage = "watching" => task[u].op = "reap"
              /\ task[u].op = "shutdown" => shut
              /\ task[u].stage = "gate" /\ task[u].op = "unregister" => task[u].reg \in Actors
      BY Zenon DEF IInv, CallInv
    <2>3. GateInv' /\ CallInv'
      BY <1>1, <1>2, <2>1, <2>2, QuietCalls, Zenon
    <2>4. ActorInv'
      BY <1>1, <1>4, <1>5, <1>8, Names DEF ActorInv, IInv, InHand
    <2>5. ReturnInv'
      BY <1>1, <2>1, Zenon DEF ReturnInv, IInv
    <2> QED
      BY <1>6, <2>3, <2>4, <2>5, Zenon DEF IInv
  <1>9. CASE Head(line) # c
    <2>1. task[c].stage \in Quiet /\ ~held /\ ~spawned
      BY <1>1, <1>7, <1>9, Zenon DEF Quiet
    <2>2. act' = act /\ detached' = detached
      BY <1>5, <2>1, Zenon DEF DropCall
    <2>3. GateInv'
      BY <1>2, <1>3, <1>7, <1>9, Zenon DEF GateInv, Holds, Quiet
    <2>4. CallInv'
      BY <1>1, <1>2, <2>2 DEF CallInv, IInv
    <2>5. Head(line) \in Tasks
      BY <1>1, <1>3, Queue, Zenon
    <2>6. ActorInv'
      BY <1>1, <1>2, <1>3, <1>9, <2>2, <2>5 DEF ActorInv, IInv, InHand
    <2>7. ReturnInv'
      BY <1>1, <1>2, Zenon DEF ReturnInv, IInv, Quiet
    <2> QED
      BY <1>6, <2>3, <2>4, <2>6, <2>7, Zenon DEF IInv
  <1> QED
    BY <1>8, <1>9, Zenon

\* A worker dies or ends; a live lifecycle may stop with it.
LEMMA WorkerKeeps ==
    ASSUME IInv, NEW a \in Actors, NEW new \in ActorRecord, act' = [act EXCEPT ![a] = new],
           act[a].worker \in {"running", "dead"}, new.worker \in {"dead", "ended"},
           new.key = act[a].key, new.view = act[a].view, new.blind = act[a].blind,
           \/ new.life = act[a].life
           \/ new.life = "stopping" /\ act[a].life \in {"prepared", "active"},
           faults' \in 0 .. MaxFault,
           UNCHANGED <<shut, loop, slot, line, task, detached, disk, returned, calls>>
    PROVE  IInv'
  <1>1. /\ TypeOK /\ act' \in [Actors -> ActorRecord] /\ act'[a] = new
        /\ \A b \in Actors \ {a} : act'[b] = act[b]
    BY Types, Zenon DEF IInv
  <1>2. TypeOK'
    BY <1>1, Zenon DEF TypeOK, ActorRecord
  <1>3. GateInv' /\ ReturnInv'
    BY Zenon DEF IInv, GateInv, ReturnInv, Holds
  <1>4. CallInv'
    BY <1>1 DEF CallInv, IInv
  <1>5. ActorInv'
    BY <1>1 DEF ActorInv, IInv, InHand
  <1> QED
    BY <1>2, <1>3, <1>4, <1>5, Zenon DEF IInv

\* A commit writes the version after the newest; no other actor may commit.
LEMMA CommitKeeps ==
    ASSUME IInv, NEW a \in Actors, Commit(a)
    PROVE  IInv'
  <1> DEFINE k == act[a].key
             new == [act[a] EXCEPT !.view = act[a].view + 1]
  <1>1. /\ TypeOK /\ act \in [Actors -> ActorRecord] /\ disk \in [Keys -> 0 .. MaxCommit]
        /\ act[a] \in ActorRecord /\ k \in Keys
        /\ act[a].life \in {"prepared", "active"} /\ act[a].worker = "running"
    BY Types, Zenon DEF IInv, Commit, CanCommit, AllowsDurableCommits, ActorRecord
  <1>2. act[a].view + 1 \in 0 .. MaxCommit
    BY <1>1, Names DEF Commit, ActorRecord
  <1>3. /\ new \in ActorRecord /\ new.life = act[a].life /\ new.worker = act[a].worker
        /\ new.key = k /\ new.view = act[a].view + 1
    BY <1>1, <1>2, Zenon DEF ActorRecord
  <1>4. /\ act' = [act EXCEPT ![a] = new] /\ disk' = [disk EXCEPT ![k] = act[a].view + 1]
        /\ UNCHANGED <<shut, loop, slot, line, task, detached, returned, calls, faults>>
    BY <1>1, Zenon DEF Commit
  <1> HIDE DEF new
  <1>5. /\ act' \in [Actors -> ActorRecord] /\ act'[a] = new
        /\ \A b \in Actors \ {a} : act'[b] = act[b]
        /\ disk' \in [Keys -> 0 .. MaxCommit] /\ disk'[k] = act[a].view + 1
        /\ \A j \in Keys \ {k} : disk'[j] = disk[j]
    BY <1>1, <1>2, <1>3, <1>4, Zenon
  <1>6. TypeOK'
    BY <1>1, <1>4, <1>5, Zenon DEF TypeOK, ActorRecord
  <1>7. GateInv' /\ ReturnInv'
    BY <1>4, Zenon DEF IInv, GateInv, ReturnInv, Holds
  <1>8. ASSUME NEW b \in Actors, act[b].life \in {"prepared", "active"}
        PROVE  \/ slot = b
               \/ slot = NoActor /\ InHand(b, {"starting", "installing"})
    <2>1. CASE act[b].life = "active"
      BY <2>1, Zenon DEF IInv, ActorInv
    <2>2. CASE act[b].life = "prepared"
      <3>1. InHand(b, {"starting", "installing"}) /\ Head(line) \in Tasks
        BY <1>1, <2>2, Types, Queue, Zenon DEF IInv, ActorInv, InHand
      <3> QED
        BY <3>1, Zenon DEF IInv, CallInv, InHand
    <2> QED
      BY <1>8, <2>1, <2>2, Zenon
  <1>9. \A t \in Tasks : task[t].stage # "prepare"
    BY <1>1, <1>8, Names, Zenon DEF IInv, GateInv, CallInv, InHand, Holds, Quiet
  <1>10. CallInv'
    BY <1>3, <1>4, <1>5, <1>9 DEF IInv, CallInv
  <1>11. \A b \in Actors \ {a} : act[b].life \notin {"prepared", "active"}
    BY <1>1, <1>8, Names, Zenon DEF InHand
  <1>12. ActorInv'
    BY <1>3, <1>4, <1>5, <1>11 DEF IInv, ActorInv, InHand
  <1> QED
    BY <1>6, <1>7, <1>10, <1>12, Zenon DEF IInv

\* The reaper of a stopped actor joins the line.
LEMMA WakeKeeps ==
    ASSUME IInv, NEW a \in Actors, ReaperWakes(a)
    PROVE  IInv'
  <1> DEFINE new == [task[a] EXCEPT !.stage = "gate"]
  <1>1. /\ TypeOK /\ a \in Tasks /\ task \in [Tasks -> CallRecord] /\ task[a] \in CallRecord
        /\ line \in Seq(Tasks) /\ task[a].stage = "watching" /\ line' = Append(line, a)
        /\ UNCHANGED <<shut, loop, slot, act, detached, disk, returned, calls, faults>>
    BY Names, Types, Zenon DEF IInv, ReaperWakes, CanWake
  <1>2. new \in CallRecord /\ new.stage = "gate" /\ new.op = task[a].op
    BY <1>1, Zenon DEF CallRecord, Stages
  <1>3. task' = [task EXCEPT ![a] = new]
    BY <1>1, Zenon DEF ReaperWakes
  <1> HIDE DEF new
  <1>4. /\ task' \in [Tasks -> CallRecord] /\ task'[a] = new
        /\ \A u \in Tasks \ {a} : task'[u] = task[u]
    BY <1>1, <1>2, <1>3, Zenon
  <1>5. /\ line' \in Seq(Tasks) /\ line' # <<>>
        /\ line # <<>> => Head(line') = Head(line) /\ Head(line) \in Tasks
    BY <1>1, Queue, Zenon
  <1>6. TypeOK'
    BY <1>1, <1>4, <1>5, Zenon DEF TypeOK, CallRecord
  <1>7. GateInv'
    BY <1>1, <1>2, <1>4, <1>5, Zenon DEF IInv, GateInv, Holds, Quiet
  <1>8. CallInv'
    BY <1>1, <1>2, <1>4 DEF IInv, CallInv
  <1>9. ActorInv'
    BY <1>1, <1>2, <1>4, <1>5 DEF IInv, ActorInv, InHand
  <1>10. ReturnInv'
    BY <1>1, <1>2, <1>4, Zenon DEF IInv, ReturnInv, Quiet
  <1> QED
    BY <1>6, <1>7, <1>8, <1>9, <1>10, Zenon DEF IInv

-----------------------------------------------------------------------------
\* The service starts with an empty slot and nobody in line.
LEMMA RegistrationInit == Init => IInv
  <1> SUFFICES ASSUME Init PROVE IInv
    BY Zenon
  <1>1. /\ task \in [Tasks -> CallRecord] /\ act \in [Actors -> ActorRecord]
        /\ \A t \in Tasks : task[t] = NoCall
        /\ \A a \in Actors : act[a] = NoOne
    BY Blank, Zenon DEF Init
  <1>2. /\ NoCall.stage = "idle" /\ NoCall.op = "reap"
        /\ NoOne.life = "none" /\ NoOne.worker = "none"
    BY Zenon DEF NoCall, NoOne
  <1>3. /\ disk \in [Keys -> 0 .. MaxCommit] /\ line \in Seq(Tasks)
        /\ calls \in 0 .. MaxCall /\ faults \in 0 .. MaxFault
    BY Names DEF Init
  <1>4. TypeOK
    BY <1>1, <1>3, Zenon DEF Init, TypeOK, CallRecord, ActorRecord
  <1>5. GateInv /\ CallInv
    BY <1>1, <1>2, Zenon DEF GateInv, CallInv, Quiet
  <1>6. ActorInv /\ ReturnInv
    BY <1>1, <1>2, Names, Zenon DEF Init, ActorInv, ReturnInv
  <1> QED
    BY <1>4, <1>5, <1>6, Zenon DEF IInv

\* The steps of a call that enters the gate.
LEMMA EnterKeeps ==
    ASSUME IInv, NEW t \in Tasks,
           \/ EnterRegister(t) \/ EnterReplace(t) \/ EnterUnregister(t) \/ EnterTakeAny(t)
           \/ EnterReap(t) \/ EnterReset(t)
    PROVE  IInv'
  <1> DEFINE rest == <<shut, loop, detached, disk, calls, faults>>
  <1>1. /\ TypeOK /\ task \in [Tasks -> CallRecord] /\ task[t] \in CallRecord
        /\ slot \in {NoActor} \cup Actors /\ NoActor \notin Actors /\ faults \in 0 .. MaxFault
    BY Names, Types, Zenon DEF IInv, TypeOK
  <1>2. Holds(t) /\ UNCHANGED rest
    BY Zenon DEF EnterRegister, EnterReplace, EnterUnregister, EnterTakeAny, EnterReap, EnterReset, At
  <1>3. /\ task[t].op = "shutdown" => shut
        /\ task[t].stage = "gate" /\ task[t].op = "unregister" => task[t].reg \in Actors
        /\ task[t].stage = "register" => slot = NoActor
        /\ returned => slot = NoActor
    BY Zenon DEF IInv, CallInv, ReturnInv
  <1>4. ASSUME Leave(t), UNCHANGED <<slot, act, returned>>,
               task[t].stage \in {"gate", "register"}
        PROVE  IInv'
    BY <1>2, <1>4, LeavingKeeps, Zenon
  <1>5. ASSUME NEW next \in {"idle", "read", "register"}, slot # NoActor,
               TakeAndRetire(t, slot, next), UNCHANGED returned, task[t].stage = "gate",
               task[t].op = "shutdown" => next = "idle"
        PROVE  IInv'
    BY <1>1, <1>2, <1>5, TakingKeeps, Zenon
  <1>6. ASSUME NEW stage \in {"read", "register"}, slot = NoActor, ~shut,
               task' = [task EXCEPT ![t].stage = stage],
               task[t].stage \in {"gate", "register"},
               UNCHANGED <<slot, line, act, returned>>
        PROVE  IInv'
    <2> DEFINE new == [task[t] EXCEPT !.stage = stage]
    <2>1. new \in CallRecord /\ new.stage = stage /\ new.op = task[t].op
      BY <1>1, Zenon DEF CallRecord, Stages
    <2>2. task' = [task EXCEPT ![t] = new]
      BY <1>1, <1>6, Zenon
    <2> HIDE DEF new
    <2>3. ~returned /\ shut \in BOOLEAN
      BY <1>1, <1>6, Zenon DEF IInv, ReturnInv, TypeOK
    <2> QED
      BY <1>1, <1>2, <1>6, <2>1, <2>2, <2>3, MovingKeeps, Zenon
  <1>7. CASE EnterRegister(t)
    <2>1. /\ task[t].stage \in {"gate", "register"} /\ RegisterLocked(t) /\ UNCHANGED returned
          /\ task[t].stage = "gate" => task[t].op = "register"
      BY <1>7, Zenon DEF EnterRegister, At
    <2>2. CASE Leave(t) /\ UNCHANGED <<slot, act>>
      BY <1>4, <2>1, <2>2, Zenon
    <2>3. CASE /\ ~shut /\ slot = NoActor /\ task' = [task EXCEPT ![t].stage = "read"]
               /\ UNCHANGED <<line, slot, act>>
      BY <1>6, <2>1, <2>3, Zenon
    <2>4. CASE slot # NoActor /\ TakeAndRetire(t, slot, "read")
      BY <1>3, <1>5, <2>1, <2>4, Zenon
    <2> QED
      BY <2>1, <2>2, <2>3, <2>4, Zenon DEF RegisterLocked
  <1>8. CASE EnterReplace(t)
    <2>1. task[t].stage = "gate" /\ task[t].op = "replace" /\ UNCHANGED returned
      BY <1>8, Zenon DEF EnterReplace, At
    <2>2. CASE Leave(t) /\ UNCHANGED <<slot, act>>
      BY <1>4, <2>1, <2>2, Zenon
    <2>3. CASE /\ ~shut /\ slot = NoActor /\ task' = [task EXCEPT ![t].stage = "register"]
               /\ UNCHANGED <<line, slot, act>>
      BY <1>6, <2>1, <2>3, Zenon
    <2>4. CASE slot # NoActor /\ TakeAndRetire(t, slot, "register")
      BY <1>5, <2>1, <2>4, Zenon
    <2> QED
      BY <1>8, <2>2, <2>3, <2>4, Zenon DEF EnterReplace
  <1>9. CASE EnterUnregister(t)
    <2>1. task[t].stage = "gate" /\ task[t].op = "unregister" /\ UNCHANGED returned
      BY <1>9, Zenon DEF EnterUnregister, At
    <2>2. CASE Leave(t) /\ UNCHANGED <<slot, act>>
      BY <1>4, <2>1, <2>2, Zenon
    <2>3. CASE slot = task[t].reg /\ TakeAndRetire(t, slot, "idle")
      BY <1>1, <1>3, <1>5, <2>1, <2>3, Zenon
    <2> QED
      BY <1>9, <2>2, <2>3, Zenon DEF EnterUnregister
  <1>10. CASE EnterTakeAny(t)
    <2>1. task[t].stage = "gate"
      BY <1>10, Zenon DEF EnterTakeAny, At
    <2>2. CASE /\ slot = NoActor /\ Leave(t) /\ UNCHANGED <<slot, act>>
               /\ returned' = (returned \/ task[t].op = "shutdown")
      <3>1. returned' = returned \/ (returned' = TRUE /\ shut /\ slot = NoActor)
        BY <1>1, <1>3, <2>2, Zenon DEF TypeOK
      <3> QED
        BY <1>2, <2>1, <2>2, <3>1, LeavingKeeps, Zenon
    <2>3. CASE slot # NoActor /\ TakeAndRetire(t, slot, "idle") /\ UNCHANGED returned
      BY <1>5, <2>1, <2>3, Zenon
    <2> QED
      BY <1>10, <2>2, <2>3, Zenon DEF EnterTakeAny
  <1>11. CASE EnterReap(t)
    <2>1. task[t].stage = "gate" /\ UNCHANGED returned
      BY <1>11, Zenon DEF EnterReap, At
    <2>2. CASE Leave(t) /\ UNCHANGED <<slot, act>>
      BY <1>4, <2>1, <2>2, Zenon
    <2>3. CASE slot = t /\ TakeAndRetire(t, t, "idle")
      BY <1>5, <2>1, <2>3, Names, Zenon
    <2> QED
      BY <1>11, <2>2, <2>3, Zenon DEF EnterReap
  <1>12. CASE EnterReset(t)
    <2>1. task[t].stage = "gate" /\ task[t].op = "reset" /\ UNCHANGED <<slot, act, returned>>
      BY <1>12, Zenon DEF EnterReset, At
    <2>2. CASE Leave(t)
      BY <1>4, <2>1, <2>2, Zenon
    <2>3. CASE /\ slot # NoActor /\ UNCHANGED line
               /\ task' = [task EXCEPT ![t].stage = "resetting", ![t].reg = slot]
      <3> DEFINE new == [task[t] EXCEPT !.stage = "resetting", !.reg = slot]
      <3>1. new \in CallRecord /\ new.stage = "resetting" /\ new.op = task[t].op
        BY <1>1, Zenon DEF CallRecord, Stages
      <3>2. task' = [task EXCEPT ![t] = new]
        BY <1>1, <2>3, Zenon
      <3> HIDE DEF new
      <3>3. ~returned /\ shut \in BOOLEAN
        BY <1>1, <1>3, <2>3, Zenon DEF TypeOK
      <3> QED
        BY <1>1, <1>2, <2>1, <2>3, <3>1, <3>2, <3>3, MovingKeeps, Zenon
    <2> QED
      BY <1>12, <2>2, <2>3, Zenon DEF EnterReset
  <1> QED
    BY <1>7, <1>8, <1>9, <1>10, <1>11, <1>12, Zenon

\* The steps of a call past the gate.
LEMMA HolderKeeps ==
    ASSUME IInv, NEW t \in Tasks,
           \/ Acknowledged(t) \/ Joined(t) \/ ReadStore(t) \/ SpawnPrepared(t) \/ PrepareFails(t)
           \/ StartupLost(t) \/ Started(t) \/ Install(t) \/ UndoInstall(t) \/ ResetAnswered(t)
    PROVE  IInv'
  <1>1. /\ TypeOK /\ task \in [Tasks -> CallRecord] /\ task[t] \in CallRecord
        /\ disk \in [Keys -> 0 .. MaxCommit] /\ act \in [Actors -> ActorRecord]
        /\ shut \in BOOLEAN /\ NoActor \in {NoActor} \cup Actors /\ faults \in 0 .. MaxFault
    BY Types, Zenon DEF IInv, TypeOK
  <1>2. task[t].stage \in {"read", "starting", "installing", "ack", "join"} =>
            slot = NoActor /\ ~returned
    BY Zenon DEF IInv, CallInv, ReturnInv, Quiet
  <1>3. CASE Acknowledged(t)
    <2> DEFINE new == [task[t] EXCEPT !.stage = "join", !.failed = ~loop]
    <2>1. /\ new \in CallRecord /\ new.stage = "join" /\ new.op = task[t].op
          /\ new.reg = task[t].reg /\ new.next = task[t].next
      <3>1. (~loop) \in BOOLEAN
        BY Zenon
      <3> QED
        BY <1>1, <3>1, Zenon DEF CallRecord, Stages
    <2>2. /\ task' = [task EXCEPT ![t] = new] /\ Holds(t) /\ task[t].stage = "ack"
          /\ UNCHANGED <<shut, loop, slot, line, act, detached, disk, returned, calls, faults>>
      BY <1>1, <1>3, Zenon DEF Acknowledged, At
    <2> HIDE DEF new
    <2> QED
      BY <1>1, <1>2, <2>1, <2>2, MovingKeeps, Zenon
  <1>4. CASE Joined(t)
    <2>1. /\ Holds(t) /\ task[t].stage = "join" /\ act[task[t].reg].worker = "ended"
          /\ UNCHANGED <<loop, slot, act, detached, disk, calls, faults>>
      BY <1>4, Zenon DEF Joined, At
    <2>2. CASE Leave(t)
      BY <1>4, <2>2, JoinedLeavesKeeps, Zenon
    <2>3. CASE /\ task[t].next # "idle" /\ UNCHANGED line
               /\ task' = [task EXCEPT ![t].stage = task[t].next, ![t].reg = NoActor]
      <3> DEFINE new == [task[t] EXCEPT !.stage = task[t].next, !.reg = NoActor]
      <3>1. task[t].next \in {"register", "read"} /\ task[t].op # "shutdown"
        BY <2>1, <2>3, Zenon DEF IInv, CallInv
      <3>2. /\ new \in CallRecord /\ new.stage = task[t].next /\ new.op = task[t].op
        BY <1>1, <3>1, Zenon DEF CallRecord, Stages
      <3>3. task' = [task EXCEPT ![t] = new]
        BY <1>1, <2>3, Zenon
      <3>4. shut' \in BOOLEAN /\ (shut => shut') /\ returned' = returned
        BY <1>1, <1>4, <3>1, Zenon DEF Joined, TypeOK
      <3> HIDE DEF new
      <3> QED
        BY <1>1, <1>2, <2>1, <2>3, <3>1, <3>2, <3>3, <3>4, MovingKeeps, Zenon
    <2> QED
      BY <1>4, <2>2, <2>3, Zenon DEF Joined
  <1>5. CASE ReadStore(t)
    <2>1. disk[task[t].key] \in 0 .. MaxCommit
      BY <1>1, Zenon DEF CallRecord
    <2>2. /\ Holds(t) /\ task[t].stage = "read"
          /\ UNCHANGED <<shut, loop, slot, line, act, detached, disk, returned, calls>>
      BY <1>5, Zenon DEF ReadStore, At
    <2>3. faults' \in 0 .. MaxFault
      BY <1>1, <1>5, Names DEF ReadStore
    <2>4. CASE task' = [task EXCEPT ![t].stage = "prepare", ![t].base = disk[task[t].key]]
      <3> DEFINE new == [task[t] EXCEPT !.stage = "prepare", !.base = disk[task[t].key]]
      <3>1. /\ new \in CallRecord /\ new.stage = "prepare" /\ new.op = task[t].op
            /\ new.key = task[t].key /\ new.base = disk[task[t].key]
        BY <1>1, <2>1, Zenon DEF CallRecord, Stages
      <3>2. task' = [task EXCEPT ![t] = new]
        BY <1>1, <2>4, Zenon
      <3> HIDE DEF new
      <3> QED
        BY <1>1, <1>2, <2>2, <2>3, <3>1, <3>2, MovingKeeps, Zenon
    <2>5. CASE task' = [task EXCEPT ![t].stage = "prepare", ![t].blind = TRUE]
      <3> DEFINE new == [task[t] EXCEPT !.stage = "prepare", !.blind = TRUE]
      <3>1. /\ new \in CallRecord /\ new.stage = "prepare" /\ new.op = task[t].op
            /\ new.blind
        BY <1>1, Zenon DEF CallRecord, Stages
      <3>2. task' = [task EXCEPT ![t] = new]
        BY <1>1, <2>5, Zenon
      <3> HIDE DEF new
      <3> QED
        BY <1>1, <1>2, <2>2, <2>3, <3>1, <3>2, MovingKeeps, Zenon
    <2> QED
      BY <1>5, <2>4, <2>5, Zenon DEF ReadStore
  <1>6. CASE SpawnPrepared(t)
    BY <1>6, SpawnKeeps, Zenon
  <1>7. CASE PrepareFails(t)
    <2>1. /\ Holds(t) /\ task[t].stage \in {"read", "prepare"} /\ Leave(t) /\ returned' = returned
          /\ UNCHANGED <<shut, loop, slot, act, detached, disk, calls, faults>>
      BY <1>7, Zenon DEF PrepareFails, At
    <2> QED
      BY <2>1, LeavingKeeps, Zenon
  <1>8. CASE StartupLost(t)
    BY <1>8, StartupLostKeeps, Zenon
  <1>9. CASE Started(t)
    <2>1. /\ Holds(t) /\ task[t].stage = "starting"
          /\ UNCHANGED <<shut, loop, slot, line, detached, disk, returned, calls, faults>>
      BY <1>9, Zenon DEF Started, At
    <2>2. CASE /\ act' = Retired(task[t].reg)
               /\ task' = [task EXCEPT ![t].stage = "join", ![t].next = "idle"]
      <3> DEFINE new == [task[t] EXCEPT !.stage = "join", !.next = "idle"]
      <3>1. /\ new \in CallRecord /\ new.stage = "join" /\ new.op = task[t].op
            /\ new.reg = task[t].reg /\ new.next = "idle"
        BY <1>1, Zenon DEF CallRecord, Stages
      <3>2. task' = [task EXCEPT ![t] = new]
        BY <1>1, <2>2, Zenon
      <3> HIDE DEF new
      <3> QED
        BY <2>1, <2>2, <3>1, <3>2, GivingUpKeeps, Zenon
    <2>3. CASE task' = [task EXCEPT ![t].stage = "installing"] /\ UNCHANGED act
      <3> DEFINE new == [task[t] EXCEPT !.stage = "installing"]
      <3>1. /\ new \in CallRecord /\ new.stage = "installing" /\ new.op = task[t].op
            /\ new.reg = task[t].reg
        BY <1>1, Zenon DEF CallRecord, Stages
      <3>2. task' = [task EXCEPT ![t] = new]
        BY <1>1, <2>3, Zenon
      <3> HIDE DEF new
      <3> QED
        BY <1>1, <1>2, <2>1, <2>3, <3>1, <3>2, MovingKeeps, Zenon
    <2> QED
      BY <1>9, <2>2, <2>3, Zenon DEF Started
  <1>10. CASE Install(t)
    <2> DEFINE a == task[t].reg
    <2>1. /\ Holds(t) /\ task[t].stage = "installing"
          /\ UNCHANGED <<shut, loop, detached, disk, returned, calls, faults>>
      BY <1>10, Zenon DEF Install, At
    <2>2. CASE /\ act' = Retired(a) /\ UNCHANGED <<slot, line>>
               /\ task' = [task EXCEPT ![t].stage = "ack", ![t].next = "idle"]
      <3> DEFINE new == [task[t] EXCEPT !.stage = "ack", !.next = "idle"]
      <3>1. /\ new \in CallRecord /\ new.stage = "ack" /\ new.op = task[t].op
            /\ new.reg = task[t].reg /\ new.next = "idle"
        BY <1>1, Zenon DEF CallRecord, Stages
      <3>2. task' = [task EXCEPT ![t] = new]
        BY <1>1, <2>2, Zenon
      <3> HIDE DEF new
      <3> QED
        BY <2>1, <2>2, <3>1, <3>2, GivingUpKeeps, Zenon
    <2>3. CASE /\ ~shut /\ act[a].life = "prepared" /\ slot' = a /\ line' = Tail(line)
               /\ act' = [act EXCEPT ![a].life = "active"]
               /\ task' = [task EXCEPT ![t] = NoCall, ![a] = [NoCall EXCEPT !.stage = "watching"]]
      BY <2>1, <2>3, ActivateKeeps, Zenon
    <2>4. CASE /\ slot' = a /\ act' = Retired(a) /\ UNCHANGED line
               /\ task' = [task EXCEPT ![t].stage = "undo"]
      <3> DEFINE new == [task[t] EXCEPT !.stage = "undo"]
      <3>1. new \in CallRecord /\ new.stage = "undo" /\ new.op = task[t].op
        BY <1>1, Zenon DEF CallRecord, Stages
      <3>2. task' = [task EXCEPT ![t] = new]
        BY <1>1, <2>4, Zenon
      <3> HIDE DEF new
      <3> QED
        BY <2>1, <2>4, <3>1, <3>2, FailedActivationKeeps, Zenon
    <2> QED
      BY <1>10, <2>2, <2>3, <2>4, Zenon DEF Install
  <1>11. CASE UndoInstall(t)
    <2>1. /\ Holds(t) /\ task[t].stage = "undo" /\ TakeAndRetire(t, slot, "idle")
          /\ UNCHANGED <<shut, loop, detached, disk, returned, calls, faults>>
      BY <1>11, Zenon DEF UndoInstall, At
    <2>2. slot \in Actors
      BY <2>1, Zenon DEF IInv, CallInv
    <2> QED
      BY <2>1, <2>2, TakingKeeps, Zenon
  <1>12. CASE ResetAnswered(t)
    <2>1. /\ Holds(t) /\ task[t].stage = "resetting" /\ Leave(t) /\ returned' = returned
          /\ UNCHANGED <<shut, loop, slot, act, detached, disk, calls, faults>>
      BY <1>12, Zenon DEF ResetAnswered, At
    <2> QED
      BY <2>1, LeavingKeeps, Zenon
  <1> QED
    BY <1>3, <1>4, <1>5, <1>6, <1>7, <1>8, <1>9, <1>10, <1>11, <1>12, Zenon

\* The steps of a worker.
LEMMA WorkerStepKeeps ==
    ASSUME IInv, NEW a \in Actors, WorkerEnds(a) \/ WorkerPanics(a) \/ Terminalize(a)
    PROVE  IInv'
  <1>1. /\ TypeOK /\ act \in [Actors -> ActorRecord] /\ act[a] \in ActorRecord
        /\ faults \in 0 .. MaxFault
    BY Types, Zenon DEF IInv, TypeOK
  <1>2. CASE WorkerEnds(a)
    <2> DEFINE life == IF act[a].life = "active" THEN "stopping" ELSE act[a].life
               new == [act[a] EXCEPT !.worker = "ended", !.life = life]
    <2>1. life \in Lifecycles
      BY <1>1, Zenon DEF ActorRecord, Lifecycles
    <2>2. act' = [act EXCEPT ![a] = new]
      BY <1>1, <1>2, Zenon DEF WorkerEnds
    <2>3. \/ life = act[a].life
          \/ life = "stopping" /\ act[a].life \in {"prepared", "active"}
      BY Zenon
    <2> HIDE DEF life
    <2>4. /\ new \in ActorRecord /\ new.worker = "ended" /\ new.life = life
          /\ new.key = act[a].key /\ new.view = act[a].view /\ new.blind = act[a].blind
      BY <1>1, <2>1, Zenon DEF ActorRecord
    <2> HIDE DEF new
    <2>5. /\ act[a].worker = "running"
          /\ UNCHANGED <<shut, loop, slot, line, task, detached, disk, returned, calls, faults>>
      BY <1>2, Zenon DEF WorkerEnds, CanEnd
    <2> QED
      BY <1>1, <2>2, <2>3, <2>4, <2>5, WorkerKeeps, Zenon
  <1>3. CASE WorkerPanics(a)
    <2> DEFINE new == [act[a] EXCEPT !.worker = "dead"]
    <2>1. /\ new \in ActorRecord /\ new.worker = "dead" /\ new.life = act[a].life
          /\ new.key = act[a].key /\ new.view = act[a].view /\ new.blind = act[a].blind
      BY <1>1, Zenon DEF ActorRecord
    <2>2. act' = [act EXCEPT ![a] = new]
      BY <1>1, <1>3, Zenon DEF WorkerPanics
    <2> HIDE DEF new
    <2>3. /\ act[a].worker = "running" /\ faults' \in 0 .. MaxFault
          /\ UNCHANGED <<shut, loop, slot, line, task, detached, disk, returned, calls>>
      BY <1>1, <1>3, Names DEF WorkerPanics
    <2> QED
      BY <2>1, <2>2, <2>3, WorkerKeeps, Zenon
  <1>4. CASE Terminalize(a)
    <2> DEFINE life == IF AllowsDurableCommits(act[a].life) THEN "stopping" ELSE act[a].life
               new == [act[a] EXCEPT !.worker = "ended", !.life = life]
    <2>1. life \in Lifecycles
      BY <1>1, Zenon DEF ActorRecord, Lifecycles
    <2>2. act' = [act EXCEPT ![a] = new]
      BY <1>1, <1>4, Zenon DEF Terminalize
    <2>3. \/ life = act[a].life
          \/ life = "stopping" /\ act[a].life \in {"prepared", "active"}
      BY Zenon DEF AllowsDurableCommits
    <2> HIDE DEF life
    <2>4. /\ new \in ActorRecord /\ new.worker = "ended" /\ new.life = life
          /\ new.key = act[a].key /\ new.view = act[a].view /\ new.blind = act[a].blind
      BY <1>1, <2>1, Zenon DEF ActorRecord
    <2> HIDE DEF new
    <2>5. /\ act[a].worker = "dead"
          /\ UNCHANGED <<shut, loop, slot, line, task, detached, disk, returned, calls, faults>>
      BY <1>4, Zenon DEF Terminalize
    <2> QED
      BY <1>1, <2>2, <2>3, <2>4, <2>5, WorkerKeeps, Zenon
  <1> QED
    BY <1>2, <1>3, <1>4, Zenon

LEMMA RegistrationNext == IInv /\ [Next]_vars => IInv'
  <1> SUFFICES ASSUME IInv, [Next]_vars PROVE IInv'
    BY Zenon
  <1>1. CASE Calls
    BY <1>1, CallKeeps, Zenon DEF Calls
  <1>2. ASSUME NEW t \in Tasks, TaskStep(t) PROVE IInv'
    BY <1>2, EnterKeeps, HolderKeeps, Zenon DEF TaskStep
  <1>3. ASSUME NEW c \in Callers, DropCall(c) PROVE IInv'
    BY <1>3, DropKeeps, Zenon
  <1>4. ASSUME NEW a \in Actors, Commit(a) \/ WorkerPanics(a) \/ ActorStep(a) PROVE IInv'
    BY <1>4, CommitKeeps, WorkerStepKeeps, WakeKeeps, Zenon DEF ActorStep
  <1>5. CASE LoopExits
    <2>1. TypeOK'
      BY <1>5, Zenon DEF LoopExits, IInv, TypeOK
    <2> QED
      BY <1>5, <2>1 DEF LoopExits, IInv, GateInv, CallInv, ActorInv, ReturnInv, Holds, InHand
  <1>6. CASE Rests \/ UNCHANGED vars
    <2>1. UNCHANGED vars
      BY <1>6, Zenon DEF Rests
    <2>2. TypeOK'
      BY <2>1, Zenon DEF vars, IInv, TypeOK
    <2> QED
      BY <2>1, <2>2 DEF vars, IInv, GateInv, CallInv, ActorInv, ReturnInv, Holds, InHand
  <1> QED
    BY <1>1, <1>2, <1>3, <1>4, <1>5, <1>6, Zenon DEF Next

LEMMA RegistrationInvariant == Spec => []IInv
  BY RegistrationInit, RegistrationNext, PTL DEF Spec

-----------------------------------------------------------------------------
\* An actor that may still commit holds the newest version of its wallet cache,
\* whatever calls are dropped, workers panic or predecessors linger, unless the
\* read of its cache failed when it was registered (register_wallet_locked,
\* WalletActorLifecycleCell::with_active_apply).
THEOREM RegistrationNoLostCommit == Spec => []NoLostCommit
  <1>1. IInv => NoLostCommit
    BY Zenon DEF IInv, ActorInv, NoLostCommit, CanCommit, AllowsDurableCommits
  <1> QED
    BY <1>1, RegistrationInvariant, PTL

\* Every worker that runs can be retired: it is registered, in the hands of the
\* call that holds the gate, or retired already; and none but a detached one
\* outlives a shutdown() that returned (unregister_wallet, shutdown).
THEOREM RegistrationNoOrphan == Spec => []NoOrphan
  <1>1. IInv => NoOrphan
    <2> SUFFICES ASSUME IInv PROVE NoOrphan
      BY Zenon
    <2>1. ASSUME NEW a \in Actors
          PROVE  /\ act[a].life = "active" => slot = a
                 /\ act[a].life = "prepared" => InHand(a, {"starting", "installing"})
      BY Zenon DEF IInv, ActorInv
    <2>2. ASSUME returned, NEW a \in Actors
          PROVE  \/ act[a].worker \in {"none", "ended"}
                 \/ a \in detached /\ act[a].life = "retired"
      <3>1. slot # a /\ \A t \in Tasks : task[t].stage \in Quiet
        BY <2>2, Names, Zenon DEF IInv, ReturnInv
      <3>2. ~InHand(a, {"starting", "installing", "ack", "join"})
        BY <3>1, Types, Queue, Zenon DEF IInv, InHand, Quiet
      <3>3. act[a].worker \in {"none", "running", "dead", "ended"}
        BY Types, Zenon DEF IInv, ActorRecord
      <3> QED
        BY <3>1, <3>2, <3>3, Zenon DEF IInv, ActorInv
    <2>3. returned => slot = NoActor
      BY Zenon DEF IInv, ReturnInv
    <2> QED
      BY <2>1, <2>2, <2>3, Zenon DEF NoOrphan, InHand
  <1> QED
    BY <1>1, RegistrationInvariant, PTL

\* A live registration leaves the slot only to a call that means to remove it
\* (unregister_wallet, reap_terminal_wallet_registration, replace_wallet).
THEOREM RegistrationMeantRemovals == Spec => OnlyMeantRemovals
  <1>1. IInv /\ [Next]_vars => [RemovesOnlyMeant]_vars
    <2> SUFFICES ASSUME IInv, Next PROVE RemovesOnlyMeant
      BY Zenon DEF vars
    <2> SUFFICES ASSUME slot # NoActor, slot' # slot, ~Terminal(slot)
                 PROVE  \/ task[Head(line)].op \in {"replace", "unregister_all", "shutdown"}
                        \/ task[Head(line)].op = "unregister" /\ task[Head(line)].reg = slot
      BY Zenon DEF RemovesOnlyMeant
    <2>1. PICK t \in Tasks : TaskStep(t)
      BY Zenon DEF Next, Calls, Call, DropCall, Commit, WorkerPanics, ActorStep, WorkerEnds, Terminalize,
         ReaperWakes, LoopExits, Rests, vars
    <2>2. /\ task[t].stage = "installing" => slot = NoActor
          /\ task[t].stage = "undo" => Terminal(slot)
      BY Zenon DEF IInv, CallInv, Terminal, AllowsDurableCommits
    <2>3. ~EnterRegister(t) /\ ~EnterReap(t)
      BY Zenon DEF EnterRegister, RegisterLocked, EnterReap
    <2>4. /\ ~Acknowledged(t) /\ ~Joined(t) /\ ~ReadStore(t)
          /\ ~EnterReset(t) /\ ~ResetAnswered(t)
      BY Zenon DEF Acknowledged, Joined, ReadStore, EnterReset, ResetAnswered
    <2>5. ~SpawnPrepared(t) /\ ~PrepareFails(t) /\ ~StartupLost(t) /\ ~Started(t)
      BY Zenon DEF SpawnPrepared, PrepareFails, StartupLost, Started
    <2>6. ~Install(t) /\ ~UndoInstall(t)
      BY <2>2, Zenon DEF Install, UndoInstall, At
    <2>7. CASE EnterReplace(t)
      BY <2>7, Zenon DEF EnterReplace, At, Holds
    <2>8. CASE EnterUnregister(t)
      BY <2>8, Zenon DEF EnterUnregister, At, Holds
    <2>9. CASE EnterTakeAny(t)
      BY <2>9, Zenon DEF EnterTakeAny, At, Holds
    <2> QED
      BY <2>1, <2>3, <2>4, <2>5, <2>6, <2>7, <2>8, <2>9, Zenon DEF TaskStep
  <1> QED
    BY <1>1, RegistrationInvariant, PTL DEF Spec, OnlyMeantRemovals
=============================================================================
