----------------------- MODULE OperatorProcessProofs ------------------------
(***************************************************************************)
(* What the operator process guarantees for every set of replicas, every   *)
(* timing and every drain timeout: type correctness, that nobody runs      *)
(* controllers or answers a probe before being elected, that the gate never*)
(* sleeps on a store that has synced, and that the guarantees of the election survive inside the process,     *)
(* whose drain may end a loop that still runs.                             *)
(***************************************************************************)
EXTENDS OperatorProcess, LeaderElectionProofs

-----------------------------------------------------------------------------
(* The process takes steps of the election *)

\* The drain after a SIGTERM is over, wherever the election loop stands: the one way for a
\* process to end that LeaderElection alone does not know.
Drained(r) ==
    /\ main[r] = "draining"
    /\ Die(r)
    /\ TrackLost
    /\ UNCHANGED disturbed

\* Seen from the Lease, a step of the process is a step of the election, the end of a drain,
\* or nothing.
LEMMA ElectionMoves ==
    [ProcessNext]_allVars => [Next]_vars \/ \E r \in Replicas : Drained(r)
<1> SUFFICES ASSUME [ProcessNext]_allVars
             PROVE  [Next]_vars \/ \E r \in Replicas : Drained(r)
  OBVIOUS
<1>1. ASSUME NEW r \in Replicas, MainStep(r) PROVE [Next]_vars \/ Drained(r)
  <2>1. CASE \/ CheckLeader(r) \/ ArmWaiter(r) \/ SpawnControllers(r) \/ StoreReady(r)
             \/ SpawnGate(r) \/ ControllersStop(r)
    BY <2>1 DEF CheckLeader, ArmWaiter, SpawnControllers, StoreReady, SpawnGate, ControllersStop
  <2>2. CASE DrainEnds(r)
    BY <2>2 DEF DrainEnds, ProcessEnds, Drained
  <2>3. CASE ProcessRestart(r)
    BY <2>3 DEF ProcessRestart, Next, Step, Loop
  <2> QED BY <1>1, <2>1, <2>2, <2>3 DEF MainStep
<1>2. ASSUME NEW r \in Replicas, GateStep(r) \/ MarkSynced(r) PROVE [Next]_vars
  BY <1>2 DEF GateStep, GateSubscribes, GateChecks, GateAwaits, GateWakes, GateMoves, GateStores,
     MarkSynced
<1>3. ASSUME NEW r \in Replicas, SigTerm(r) \/ ProcessCrash(r) PROVE [Next]_vars
  BY <1>3 DEF SigTerm, ProcessCrash, ProcessEnds, Next, Step, Disturbance, Crash
<1>4. ASSUME NEW r \in Replicas, ElectionStep(r) PROVE [Next]_vars
  BY <1>4 DEF ElectionStep, Next, Step, Disturbance, Loop
<1>5. CASE LeaseStep \/ ProcessTick
  BY <1>5 DEF LeaseStep, ProcessTick, Next, Step
<1>6. CASE UNCHANGED allVars
  BY <1>6 DEF allVars
<1> QED BY <1>1, <1>2, <1>3, <1>4, <1>5, <1>6 DEF ProcessNext

\* Ending a drained process keeps what the election's proofs rest on.
LEMMA DrainedKeeps ==
    ASSUME TypeOK, NEW r \in Replicas, Drained(r)
    PROVE  /\ TypeOK'
           /\ LostInv => LostInv'
           /\ LostInv /\ FreshInv => FreshInv'
<1> USE TimingAssumption, ReplicaAssumption
    DEF TypeOK, Drained, Die, MoveTo, InRequest, Attempting, Stopped
<1>1. lost' \in [Replicas -> Nat]
  BY DEF TrackLost
<1>2. late' \subseteq LateWrites
  BY DEF Abandon, InFlight, LateWrites, Verbs
<1>3. TypeOK'
  BY <1>1, <1>2 DEF Unread, Holders
<1>4. ASSUME LostInv PROVE LostInv'
  <2> SUFFICES ASSUME NEW q \in Replicas
               PROVE  /\ lost'[q] <= LostLimit(q)'
                      /\ pc'[q] \in Stopped \cup {"release"} => ~ isLeader'[q]
    BY DEF LostInv
  <2>1. lost'[q] = IF isLeader'[q] /\ holder' # q THEN lost[q] ELSE 0
    BY DEF TrackLost
  <2>2. lost[q] <= LostLimit(q) /\ (pc[q] \in Stopped \cup {"release"} => ~ isLeader[q])
    BY <1>4 DEF LostInv
  <2> QED BY <1>3, <2>1, <2>2 DEF LostLimit
<1>5. ASSUME LostInv, FreshInv PROVE FreshInv'
  BY <1>5 DEF FreshInv, LostInv, Confirmed, LostLimit
<1> QED BY <1>3, <1>4, <1>5

\* So the types and the bounds of the election hold in every step of the process.
LEMMA ElectionStepKeeps ==
    ASSUME TypeOK, LostInv, FreshInv, [ProcessNext]_allVars
    PROVE  TypeOK' /\ LostInv' /\ FreshInv'
<1>1. CASE [Next]_vars
  BY <1>1, TypeStep, LostStep, FreshStep
<1>2. ASSUME NEW r \in Replicas, Drained(r) PROVE TypeOK' /\ LostInv' /\ FreshInv'
  BY <1>2, DrainedKeeps
<1> QED BY <1>1, <1>2, ElectionMoves

\* And they hold at the start.
LEMMA ElectionStarts == ProcessInit => TypeOK /\ LostInv /\ FreshInv
<1>1. Init => LostInv
  BY TimingAssumption DEF Init, LostInv, LostLimit, Stopped
<1>2. Init => FreshInv
  BY DEF Init, FreshInv, Confirmed
<1> QED BY <1>1, <1>2, TypeInit DEF ProcessInit

\* The election's inductive invariants, inside the process.
LEMMA ElectionHolds == ProcessSpec => [](TypeOK /\ LostInv /\ FreshInv)
<1>1. (TypeOK /\ LostInv /\ FreshInv) /\ [ProcessNext]_allVars => (TypeOK /\ LostInv /\ FreshInv)'
  BY ElectionStepKeeps
<1> QED BY <1>1, ElectionStarts, PTL DEF ProcessSpec

\* A replica's is_leader outlives the lease by at most one renewal sleep and three requests
\* also when its process is told to stop, drains, and is ended with its loop still running.
THEOREM ProcessStaleLeadership == ProcessSpec => []StaleLeadershipBounded
<1>1. TypeOK /\ LostInv => StaleLeadershipBounded
  BY TimingAssumption DEF TypeOK, LostInv, LostLimit, StaleLeadershipBounded, InRequest, Attempting
<1> QED BY <1>1, ElectionHolds, PTL

\* When a renewal fits, the lease of a process that leads and holds it never expires, the
\* time it drains included.
THEOREM ProcessLeaseFreshness == ProcessSpec => []LeaderLeaseFresh
<1>1. TypeOK /\ LostInv /\ FreshInv => LeaderLeaseFresh
  BY TimingAssumption DEF TypeOK, LostInv, FreshInv, Confirmed, LostLimit, LeaderLeaseFresh,
     LatencyFits, HasExpired, InRequest, Attempting, Stopped
<1> QED BY <1>1, ElectionHolds, PTL

-----------------------------------------------------------------------------
(* Types, and where main and the loop stand *)

\* Only the end of a process takes its loop down, and only a restart brings it up.
LEMMA DownMoves ==
    ASSUME TypeOK, NEW r \in Replicas,
           \/ RunLoop(r) \/ RequestFails(r) \/ ReleaseFails(r) \/ Shutdown(r)
    PROVE  /\ pc[r] # "down" /\ pc'[r] # "down"
           /\ \A q \in Replicas \ {r} : pc'[q] = pc[q] /\ isLeader'[q] = isLeader[q]
BY DEF TypeOK, RunLoop, Read, DecideWrite, DecideDenied, Write, Settle, Wake, Release,
       RequestFails, ReleaseFails, Shutdown, ShutdownInAttempt, ShutdownInSleep, ShutdownMissed,
       SettleAs, MoveTo, InRequest, Attempting, Stopped

\* Every step of the process keeps the types, and main is gone exactly when the loop is down.
LEMMA ProcessTypesStep ==
    ASSUME TypeOK, ProcessTypeOK, [ProcessNext]_allVars
    PROVE  ProcessTypeOK'
<1> USE DEF ProcessTypeOK, MainMoves, Mains, Gates, readyVars
<1>0. pc \in [Replicas -> InRequest \cup Stopped \cup {"sleep"}]
  BY DEF TypeOK
<1>1. ASSUME NEW r \in Replicas, MainStep(r) PROVE ProcessTypeOK'
  <2>1. CASE CheckLeader(r)      BY <2>1 DEF CheckLeader, vars
  <2>2. CASE ArmWaiter(r)        BY <2>2 DEF ArmWaiter, vars
  <2>3. CASE SpawnControllers(r) BY <2>3 DEF SpawnControllers, vars
  <2>7. CASE StoreReady(r)       BY <2>7 DEF StoreReady, vars
  <2>8. CASE SpawnGate(r)        BY <2>8 DEF SpawnGate, vars
  <2>4. CASE ControllersStop(r)  BY <2>4 DEF ControllersStop, vars
  <2>5. CASE DrainEnds(r)
    BY <1>0, <2>5, DrainAssumption DEF DrainEnds, ProcessEnds, Die, MoveTo
  <2>6. CASE ProcessRestart(r)
    BY <1>0, <2>6 DEF ProcessRestart, Restart, MoveTo
  <2> QED BY <1>1, <2>1, <2>2, <2>3, <2>4, <2>5, <2>6, <2>7, <2>8 DEF MainStep
<1>2. ASSUME NEW r \in Replicas, GateStep(r) \/ MarkSynced(r) PROVE ProcessTypeOK'
  <2>1. CASE GateSubscribes(r) \/ GateChecks(r) \/ GateAwaits(r) \/ GateWakes(r)
    BY <2>1 DEF GateSubscribes, GateChecks, GateAwaits, GateWakes, GateMoves, vars
  <2>2. CASE GateStores(r)   BY <2>2 DEF GateStores, vars
  <2>3. CASE MarkSynced(r)   BY <2>3 DEF MarkSynced, WakeGate, vars
  <2> QED BY <1>2, <2>1, <2>2, <2>3 DEF GateStep
<1>3. ASSUME NEW r \in Replicas, SigTerm(r) PROVE ProcessTypeOK'
  <2>1. pc[r] # "down" /\ pc'[r] # "down" /\ \A q \in Replicas \ {r} : pc'[q] = pc[q]
    BY <1>3, DownMoves DEF SigTerm
  <2>2. drain' \in [Replicas -> 0 .. DrainTimeout]
    BY <1>3, DrainAssumption DEF SigTerm
  <2> QED BY <1>3, <2>1, <2>2 DEF SigTerm
<1>4. ASSUME NEW r \in Replicas, ProcessCrash(r) PROVE ProcessTypeOK'
  BY <1>0, <1>4, DrainAssumption DEF ProcessCrash, ProcessEnds, Die, MoveTo
<1>5. ASSUME NEW r \in Replicas, ElectionStep(r) PROVE ProcessTypeOK'
  <2>1. pc[r] # "down" /\ pc'[r] # "down" /\ \A q \in Replicas \ {r} : pc'[q] = pc[q]
    BY <1>5, DownMoves DEF ElectionStep
  <2>2. main' \in [Replicas -> Mains] /\ \A q \in Replicas : main'[q] = "gone" <=> main[q] = "gone"
    BY <1>5 DEF ElectionStep, Notify
  <2>3. led' \in [Replicas -> BOOLEAN]
    BY <1>5, Zenon DEF ElectionStep
  <2> QED BY <1>5, <2>1, <2>2, <2>3 DEF ElectionStep
<1>6. CASE LeaseStep
  BY <1>6 DEF LeaseStep, Environment, Deliver, Lose, DeleteLease, procVars
<1>7. CASE ProcessTick
  <2>1. drain' \in [Replicas -> 0 .. DrainTimeout]
    BY <1>7, DrainAssumption DEF ProcessTick
  <2> QED BY <1>7, <2>1 DEF ProcessTick, Tick
<1>8. CASE UNCHANGED allVars
  BY <1>8 DEF allVars, vars, procVars
<1> QED BY <1>1, <1>2, <1>3, <1>4, <1>5, <1>6, <1>7, <1>8 DEF ProcessNext

\* Every variable of the process keeps its type, and no part of a process outlives it:
\* main is gone exactly when the election loop is down.
THEOREM ProcessTypeCorrect == ProcessSpec => []ProcessTypeOK
<1>1. ProcessInit => ProcessTypeOK
  BY DrainAssumption DEF ProcessInit, Init, ProcessTypeOK, Mains, Gates
<1>2. TypeOK /\ ProcessTypeOK /\ [ProcessNext]_allVars => ProcessTypeOK'
  BY ProcessTypesStep
<1> QED BY <1>1, <1>2, ElectionHolds, PTL DEF ProcessSpec

-----------------------------------------------------------------------------
(* A standby stays quiet *)

\* Whoever is past wait_until_leader has led, and only they run controllers or answer /readyz.
LedInv ==
    \A r \in Replicas :
        /\ isLeader[r] => led[r]
        /\ main[r] \in {"elected", "spawned", "announced", "serving", "draining"} => led[r]
        /\ controllers[r] \/ ready[r]
             => main[r] \in {"spawned", "announced", "serving", "draining"}

\* Every step keeps that: the loop raises led with is_leader, and main looks at is_leader
\* again after each transition it is woken for.
LEMMA LedStep ==
    ASSUME TypeOK, ProcessTypeOK, LedInv, [ProcessNext]_allVars
    PROVE  LedInv'
<1> USE DEF ProcessTypeOK, MainMoves, readyVars
<1>0. isLeader \in [Replicas -> BOOLEAN]
  BY DEF TypeOK
<1>1. ASSUME NEW r \in Replicas, MainStep(r) PROVE LedInv'
  <2>1. CASE CheckLeader(r)      BY <2>1 DEF CheckLeader, vars, LedInv
  <2>2. CASE ArmWaiter(r)        BY <2>2 DEF ArmWaiter, vars, LedInv
  <2>3. CASE SpawnControllers(r) BY <2>3 DEF SpawnControllers, vars, LedInv
  <2>7. CASE StoreReady(r)       BY <2>7 DEF StoreReady, vars, LedInv
  <2>8. CASE SpawnGate(r)        BY <2>8 DEF SpawnGate, vars, LedInv
  <2>4. CASE ControllersStop(r)  BY <2>4 DEF ControllersStop, vars, LedInv
  <2>5. CASE DrainEnds(r)
    BY <1>0, <2>5 DEF DrainEnds, ProcessEnds, Die, LedInv
  <2>6. CASE ProcessRestart(r)
    <3>1. main[r] = "gone"
      BY <2>6 DEF ProcessRestart, Restart
    <3> QED BY <2>6, <3>1 DEF ProcessRestart, Restart, LedInv
  <2> QED BY <1>1, <2>1, <2>2, <2>3, <2>4, <2>5, <2>6, <2>7, <2>8 DEF MainStep
<1>2. ASSUME NEW r \in Replicas, GateStep(r) \/ MarkSynced(r) PROVE LedInv'
  BY <1>2 DEF GateStep, GateSubscribes, GateChecks, GateAwaits, GateWakes, GateMoves, GateStores,
     MarkSynced, vars, LedInv
<1>3. ASSUME NEW r \in Replicas, SigTerm(r) PROVE LedInv'
  <2>1. \A q \in Replicas : isLeader'[q] => isLeader[q]
    BY <1>0, <1>3 DEF SigTerm, Shutdown, ShutdownInAttempt, ShutdownInSleep, ShutdownMissed
  <2> QED BY <1>3, <2>1 DEF SigTerm, LedInv
<1>4. ASSUME NEW r \in Replicas, ProcessCrash(r) PROVE LedInv'
  BY <1>0, <1>4 DEF ProcessCrash, ProcessEnds, Die, LedInv
<1>5. ASSUME NEW r \in Replicas, ElectionStep(r) PROVE LedInv'
  <2>1. \A q \in Replicas \ {r} : isLeader'[q] = isLeader[q]
    BY <1>5, DownMoves DEF ElectionStep
  <2>2. /\ \A q \in Replicas \ {r} : led'[q] = led[q]
        /\ led'[r] = (led[r] \/ isLeader'[r])
    BY <1>5, Zenon DEF ElectionStep
  <2>3. \A q \in Replicas : \/ main'[q] = main[q]
                            \/ main[q] = "parked" /\ main'[q] = "check"
    <3> DEFINE woken == main[r] = "parked" /\ isLeader'[r] # isLeader[r]
    <3>1. main' = [main EXCEPT ![r] = IF woken THEN "check" ELSE main[r]]
      BY <1>5 DEF ElectionStep, Notify
    <3>2. woken => main[r] = "parked"
      OBVIOUS
    <3> HIDE DEF woken
    <3> QED BY <3>1, <3>2
  <2>4. UNCHANGED <<controllers, ready>>
    BY <1>5 DEF ElectionStep
  <2> QED BY <2>1, <2>2, <2>3, <2>4 DEF LedInv
<1>6. CASE LeaseStep
  BY <1>6 DEF LeaseStep, Environment, Deliver, Lose, DeleteLease, procVars, LedInv
<1>7. CASE ProcessTick
  BY <1>7 DEF ProcessTick, Tick, LedInv
<1>8. CASE UNCHANGED allVars
  BY <1>8 DEF allVars, vars, procVars, LedInv
<1> QED BY <1>1, <1>2, <1>3, <1>4, <1>5, <1>6, <1>7, <1>8 DEF ProcessNext

\* How far the gate_ready task has come, against the channel it waits on.  It exists only after
\* main has spawned it, stores only what it has read, and is never given up while the process
\* serves; and when it sleeps, or is about to, its receiver has not seen the synced value.
GateInv ==
    \A r \in Replicas :
        /\ latch[r] = synced[r]
        /\ synced[r] => main[r] \in {"spawned", "announced", "serving", "draining"}
        /\ gate[r] # "none" => main[r] \in {"serving", "draining"}
        /\ gate[r] \in {"storing", "done"} => synced[r]
        /\ gate[r] = "parked" => ~ latch[r]
        /\ gate[r] \in {"wait", "parked", "woken"} => ~ rxSeen[r]
        /\ reconcileReady[r] => gate[r] = "done"
        /\ main[r] = "serving" => gate[r] # "none" /\ (gate[r] = "done" => reconcileReady[r])

\* Every step keeps that: borrow_and_update marks as seen what it has just found unset, and
\* changed() compares with the channel before it sleeps.
LEMMA GateInvStep ==
    ASSUME TypeOK, ProcessTypeOK, LedInv, GateInv, [ProcessNext]_allVars
    PROVE  GateInv'
<1> USE DEF ProcessTypeOK, MainMoves, readyVars
<1>1. ASSUME NEW r \in Replicas, MainStep(r) PROVE GateInv'
  <2>1. CASE CheckLeader(r)      BY <2>1 DEF CheckLeader, GateInv
  <2>2. CASE ArmWaiter(r)        BY <2>2 DEF ArmWaiter, GateInv
  <2>3. CASE SpawnControllers(r) BY <2>3 DEF SpawnControllers, GateInv
  <2>7. CASE StoreReady(r)       BY <2>7 DEF StoreReady, GateInv
  <2>8. CASE SpawnGate(r)        BY <2>8 DEF SpawnGate, GateInv
  <2>4. CASE ControllersStop(r)  BY <2>4 DEF ControllersStop, GateInv
  <2>5. CASE DrainEnds(r)        BY <2>5 DEF DrainEnds, ProcessEnds, GateInv
  <2>6. CASE ProcessRestart(r)
    <3>1. main[r] = "gone"
      BY <2>6 DEF ProcessRestart, Restart
    <3> QED BY <2>6, <3>1 DEF ProcessRestart, GateInv
  <2> QED BY <1>1, <2>1, <2>2, <2>3, <2>4, <2>5, <2>6, <2>7, <2>8 DEF MainStep
<1>2. ASSUME NEW r \in Replicas, GateStep(r) PROVE GateInv'
  <2>1. CASE GateSubscribes(r) BY <2>1 DEF GateSubscribes, GateMoves, GateInv
  <2>2. CASE GateChecks(r)     BY <2>2 DEF GateChecks, GateMoves, GateInv
  <2>3. CASE GateAwaits(r)
    <3>1. CASE rxSeen[r] # latch[r]
      BY <2>3, <3>1 DEF GateAwaits, GateMoves, GateInv
    <3>2. CASE rxSeen[r] = latch[r]
      BY <2>3, <3>2 DEF GateAwaits, GateMoves, GateInv
    <3> QED BY <3>1, <3>2
  <2>4. CASE GateWakes(r)      BY <2>4 DEF GateWakes, GateMoves, GateInv
  <2>5. CASE GateStores(r)     BY <2>5 DEF GateStores, GateInv
  <2> QED BY <1>2, <2>1, <2>2, <2>3, <2>4, <2>5 DEF GateStep
<1>4. ASSUME NEW r \in Replicas, MarkSynced(r) PROVE GateInv'
  BY <1>4 DEF MarkSynced, WakeGate, GateInv, LedInv
<1>5. ASSUME NEW r \in Replicas, SigTerm(r) PROVE GateInv'
  BY <1>5 DEF SigTerm, GateInv
<1>6. ASSUME NEW r \in Replicas, ProcessCrash(r) PROVE GateInv'
  BY <1>6 DEF ProcessCrash, ProcessEnds, GateInv
<1>7. ASSUME NEW r \in Replicas, ElectionStep(r) PROVE GateInv'
  <2>1. \A q \in Replicas : main'[q] = main[q] \/ (main[q] = "parked" /\ main'[q] = "check")
    <3> DEFINE woken == main[r] = "parked" /\ isLeader'[r] # isLeader[r]
    <3>1. main' = [main EXCEPT ![r] = IF woken THEN "check" ELSE main[r]]
      BY <1>7 DEF ElectionStep, Notify
    <3>2. woken => main[r] = "parked"
      OBVIOUS
    <3> HIDE DEF woken
    <3> QED BY <3>1, <3>2
  <2>2. UNCHANGED readyVars
    BY <1>7 DEF ElectionStep
  <2> QED BY <2>1, <2>2 DEF GateInv
<1>8. CASE LeaseStep
  BY <1>8 DEF LeaseStep, procVars, GateInv
<1>9. CASE ProcessTick
  BY <1>9 DEF ProcessTick, GateInv
<1>10. CASE UNCHANGED allVars
  BY <1>10 DEF allVars, procVars, GateInv
<1> QED
  BY <1>1, <1>2, <1>4, <1>5, <1>6, <1>7, <1>8, <1>9, <1>10 DEF ProcessNext

\* Both hold throughout.
LEMMA LedAndGated == ProcessSpec => [](LedInv /\ GateInv)
<1>1. ProcessInit => LedInv /\ GateInv
  BY DEF ProcessInit, Init, LedInv, GateInv
<1>2. TypeOK /\ ProcessTypeOK /\ (LedInv /\ GateInv) /\ [ProcessNext]_allVars => (LedInv /\ GateInv)'
  BY LedStep, GateInvStep
<1> QED BY <1>1, <1>2, ElectionHolds, ProcessTypeCorrect, PTL DEF ProcessSpec

\* "A non-leader never reaches this line": controllers run and /readyz answers only in a process
\* that was elected in its life, and /reconcilez only once its store has synced as well, through
\* every crash, restart, shutdown and wake-up that wait_until_leader may meet.
THEOREM ElectedBeforeServing == ProcessSpec => []OnlyElectedServe
<1>1. LedInv /\ GateInv => OnlyElectedServe
  BY DEF LedInv, GateInv, OnlyElectedServe
<1> QED BY <1>1, LedAndGated, PTL

\* What SyncIsPublished rests on besides fairness: in a serving process whose store has synced,
\* /reconcilez is published, or the gate has a step to take that leads there.  It is never
\* asleep in changed(), and where it is about to call it, the value counts as not seen.
NeverAsleepOnSync ==
    \A r \in Replicas :
        main[r] = "serving" /\ synced[r] =>
            \/ reconcileReady[r]
            \/ gate[r] \in {"spawned", "check", "woken", "storing"}
            \/ gate[r] = "wait" /\ rxSeen[r] # latch[r]

\* "A mark_synced landing between the check and the await still wakes changed()": no order of
\* the sync and the gate's spawn, subscription, check and sleep loses the wake-up, for any
\* number of replicas and whatever the election does meanwhile.
THEOREM SyncNeverLost == ProcessSpec => []NeverAsleepOnSync
<1>1. ProcessTypeOK /\ GateInv => NeverAsleepOnSync
  BY DEF ProcessTypeOK, Gates, GateInv, NeverAsleepOnSync
<1> QED BY <1>1, LedAndGated, ProcessTypeCorrect, PTL

-----------------------------------------------------------------------------
(* One leader at most while nothing disturbs it *)

\* A drain follows a SIGTERM, which counts as a disturbance.
DrainDisturbed == \A r \in Replicas : main[r] = "draining" => disturbed # 0

\* No step makes a disturbance unhappen, and the one that starts a drain counts one.
LEMMA DrainStep ==
    ASSUME TypeOK, ProcessTypeOK, DrainDisturbed, [ProcessNext]_allVars
    PROVE  DrainDisturbed'
<1> SUFFICES ASSUME disturbed' = 0, NEW r \in Replicas, main'[r] = "draining" PROVE FALSE
  BY DEF DrainDisturbed
<1>1. disturbed = 0
  <2>1. CASE [Next]_vars
    BY <2>1, DisturbanceCounted
  <2>2. ASSUME NEW q \in Replicas, Drained(q) PROVE disturbed = 0
    BY <2>2 DEF Drained
  <2> QED BY <2>1, <2>2, ElectionMoves
<1>2. main[r] # "draining"
  BY <1>1 DEF DrainDisturbed
<1>3. \A q \in Replicas : ~ SigTerm(q)
  BY <1>1 DEF SigTerm, Disturb
<1>4. main'[r] # "draining"
  BY <1>2, <1>3
     DEF ProcessTypeOK, ProcessNext, MainStep, GateStep, CheckLeader, ArmWaiter,
         SpawnControllers, StoreReady, SpawnGate, ControllersStop, DrainEnds, ProcessEnds,
         ProcessRestart, GateSubscribes, GateChecks, GateAwaits, GateWakes, GateMoves, GateStores,
         MarkSynced, ProcessCrash, ElectionStep, Notify, LeaseStep, ProcessTick, MainMoves,
         allVars, procVars
<1> QED BY <1>4

\* With requests short enough, no two processes believe to lead until something disturbs
\* them: nothing that main or its tasks do gets in the way of the election.
THEOREM ProcessSoleLeader == ProcessSpec => []SoleUntilDisturbed
<1>1. ProcessInit => UndisturbedInv /\ DrainDisturbed
  BY TimingAssumption, ReplicaAssumption
     DEF ProcessInit, Init, UndisturbedInv, SoleInv, SoleFor, LostLimit, Attempting, Unread,
         DrainDisturbed
<1>2. UndisturbedInv => SoleUntilDisturbed
  BY DEF UndisturbedInv, SoleInv, SoleFor, SoleUntilDisturbed, AtMostOneLeader
<1>3. CASE LatencyFits
  <2>1. /\ TypeOK /\ TypeOK' /\ ProcessTypeOK /\ UndisturbedInv /\ DrainDisturbed
        /\ [ProcessNext]_allVars
        => (UndisturbedInv /\ DrainDisturbed)'
    <3> SUFFICES ASSUME TypeOK, TypeOK', ProcessTypeOK, UndisturbedInv, DrainDisturbed,
                        [ProcessNext]_allVars
                 PROVE  UndisturbedInv'
      BY DrainStep
    <3>1. CASE [Next]_vars
      BY <1>3, <3>1, SoleStep
    <3>2. ASSUME NEW r \in Replicas, Drained(r) PROVE UndisturbedInv'
      BY <3>2 DEF Drained, DrainDisturbed, UndisturbedInv
    <3> QED BY <3>1, <3>2, ElectionMoves
  <2> QED BY <1>1, <1>2, <2>1, ElectionHolds, ProcessTypeCorrect, PTL DEF ProcessSpec
<1>4. CASE ~ LatencyFits
  <2>1. SoleUntilDisturbed  BY <1>4 DEF SoleUntilDisturbed
  <2> QED BY <2>1, PTL
<1> QED BY <1>3, <1>4

=============================================================================
