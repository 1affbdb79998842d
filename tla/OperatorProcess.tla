-------------------------- MODULE OperatorProcess ---------------------------
(***************************************************************************)
(* One operator process per replica (src/main.rs, src/readiness.rs) around *)
(* the election loop: main waits for leadership, spawns the controllers,   *)
(* publishes the probes, and on SIGTERM withdraws them, asks the loop to   *)
(* release the Lease and drains for a bounded time.                        *)
(*                                                                         *)
(* main, the election loop, the gate behind /reconcilez and the store-sync *)
(* watcher are tasks of a multi-threaded runtime: any two of their steps   *)
(* may interleave where one of them has no await in between.               *)
(***************************************************************************)
EXTENDS LeaderElection

CONSTANT DrainTimeout   \* how long main waits for its tasks on shutdown

ASSUME DrainAssumption == DrainTimeout \in Nat

VARIABLES
    main,            \* where main stands
    drain,           \* time left of the drain
    controllers,     \* the reconcile loops of all controllers run
    ready,           \* /readyz
    synced,          \* the gateway store finished its LIST and mark_synced was called
    latch,           \* StoreReadiness: the value of the watch channel
    rxSeen,          \* the value the gate's receiver has seen last
    gate,            \* the gate_ready task
    reconcileReady,  \* /reconcilez
    led              \* history: this process has been leader

readyVars == <<synced, latch, rxSeen, gate, reconcileReady>>
procVars == <<main, drain, controllers, ready, readyVars, led>>
allVars == <<vars, procVars>>

Mains == {"check", "arm", "parked", "elected", "spawned", "announced", "serving",
          "draining", "gone"}

\* gate_ready: not there, spawned and not yet polled, then its points inside a poll
\* ("check", "wait", "storing"), asleep in changed(), woken and not yet polled, done.
Gates == {"none", "spawned", "check", "wait", "parked", "woken", "storing", "done"}

\* Every variable keeps its type, and a process that is gone has nothing running.
ProcessTypeOK ==
    /\ main \in [Replicas -> Mains]
    /\ drain \in [Replicas -> 0 .. DrainTimeout]
    /\ controllers \in [Replicas -> BOOLEAN]
    /\ ready \in [Replicas -> BOOLEAN]
    /\ synced \in [Replicas -> BOOLEAN]
    /\ latch \in [Replicas -> BOOLEAN]
    /\ rxSeen \in [Replicas -> BOOLEAN]
    /\ gate \in [Replicas -> Gates]
    /\ reconcileReady \in [Replicas -> BOOLEAN]
    /\ led \in [Replicas -> BOOLEAN]
    /\ \A r \in Replicas : pc[r] = "down" <=> main[r] = "gone"

ProcessInit ==
    /\ Init
    /\ main = [r \in Replicas |-> "check"]
    /\ drain = [r \in Replicas |-> 0]
    /\ controllers = [r \in Replicas |-> FALSE]
    /\ ready = [r \in Replicas |-> FALSE]
    /\ synced = [r \in Replicas |-> FALSE]
    /\ latch = [r \in Replicas |-> FALSE]
    /\ rxSeen = [r \in Replicas |-> FALSE]
    /\ gate = [r \in Replicas |-> "none"]
    /\ reconcileReady = [r \in Replicas |-> FALSE]
    /\ led = [r \in Replicas |-> FALSE]

-----------------------------------------------------------------------------
(* main, up to serving *)

MainMoves(r, next) == main' = [main EXCEPT ![r] = next]

\* Mutant of CheckLeader: any transition ends the wait.
CheckLeaderUnchecked(r) ==
    /\ main[r] = "check"
    /\ MainMoves(r, "elected")
    /\ UNCHANGED <<vars, drain, controllers, ready, readyVars, led>>

\* wait_until_leader: load is_leader, return if set.
CheckLeader(r) ==
    /\ main[r] = "check"
    /\ MainMoves(r, IF isLeader[r] THEN "elected" ELSE "arm")
    /\ UNCHANGED <<vars, drain, controllers, ready, readyVars, led>>

\* Only then does notified() register this waiter.
ArmWaiter(r) ==
    /\ main[r] = "arm"
    /\ MainMoves(r, "parked")
    /\ UNCHANGED <<vars, drain, controllers, ready, readyVars, led>>

\* The controllers are spawned, the one whose store StoreReadiness tracks first.
SpawnControllers(r) ==
    /\ main[r] = "elected"
    /\ MainMoves(r, "spawned")
    /\ controllers' = [controllers EXCEPT ![r] = TRUE]
    /\ UNCHANGED <<vars, drain, ready, readyVars, led>>

\* /readyz turns true.
StoreReady(r) ==
    /\ main[r] = "spawned"
    /\ MainMoves(r, "announced")
    /\ ready' = [ready EXCEPT ![r] = TRUE]
    /\ UNCHANGED <<vars, drain, controllers, readyVars, led>>

\* The gate is spawned, and main waits for a signal.
SpawnGate(r) ==
    /\ main[r] = "announced"
    /\ MainMoves(r, "serving")
    /\ gate' = [gate EXCEPT ![r] = "spawned"]
    /\ UNCHANGED <<vars, drain, controllers, ready, synced, latch, rxSeen, reconcileReady, led>>

-----------------------------------------------------------------------------
(* /reconcilez: StoreReadiness, a watch channel, and gate_ready *)

\* changed() wakes the receiver that sleeps in it.
WakeGate(r) == gate' = [gate EXCEPT ![r] = IF @ = "parked" THEN "woken" ELSE @]

\* Mutant of MarkSynced: send instead of send_replace, which drops the value when no
\* receiver is subscribed.
MarkSyncedSending(r) ==
    /\ controllers[r]
    /\ ~ synced[r]
    /\ synced' = [synced EXCEPT ![r] = TRUE]
    /\ latch' = [latch EXCEPT ![r] = gate[r] \in {"check", "wait", "parked", "woken"}]
    /\ WakeGate(r)
    /\ UNCHANGED <<vars, main, drain, controllers, ready, rxSeen, reconcileReady, led>>

\* The gateway controller's reflector store is ready, which a task beside the controller
\* learns at its next tick at the latest: mark_synced.
MarkSynced(r) ==
    /\ controllers[r]
    /\ ~ synced[r]
    /\ synced' = [synced EXCEPT ![r] = TRUE]
    /\ latch' = [latch EXCEPT ![r] = TRUE]
    /\ WakeGate(r)
    /\ UNCHANGED <<vars, main, drain, controllers, ready, rxSeen, reconcileReady, led>>

\* A step of the gate: its receiver has seen what the channel holds now.
GateMoves(r, next) ==
    /\ gate' = [gate EXCEPT ![r] = next]
    /\ rxSeen' = [rxSeen EXCEPT ![r] = latch[r]]
    /\ UNCHANGED <<vars, main, drain, controllers, ready, synced, latch, reconcileReady, led>>

\* subscribe(): the new receiver counts the present value as seen.
GateSubscribes(r) == gate[r] = "spawned" /\ GateMoves(r, "check")

\* borrow_and_update()
GateChecks(r) ==
    gate[r] = "check" /\ GateMoves(r, IF latch[r] THEN "storing" ELSE "wait")

\* changed(): return at once on a value not seen yet, or sleep; an aborted task ends here.
GateAwaits(r) ==
    /\ gate[r] = "wait"
    /\ GateMoves(r, IF rxSeen[r] # latch[r] THEN "check"
                    ELSE IF main[r] = "draining" THEN "none" ELSE "parked")

\* changed() returns.
GateWakes(r) == gate[r] = "woken" /\ GateMoves(r, "check")

GateStores(r) ==
    /\ gate[r] = "storing"
    /\ gate' = [gate EXCEPT ![r] = "done"]
    /\ reconcileReady' = [reconcileReady EXCEPT ![r] = TRUE]
    /\ UNCHANGED <<vars, main, drain, controllers, ready, synced, latch, rxSeen, led>>

-----------------------------------------------------------------------------
(* Shutdown *)

\* SIGTERM in the select: abort the gate, clear the flags, le.shutdown(), drain.
\* abort() ends a task that is not being polled, and one that is at its next await.
SigTerm(r) ==
    /\ main[r] = "serving"
    /\ Disturb("shutdown")
    /\ MainMoves(r, "draining")
    /\ gate' = [gate EXCEPT ![r] = IF @ \in {"spawned", "parked", "woken"} THEN "none" ELSE @]
    /\ ready' = [ready EXCEPT ![r] = FALSE]
    /\ reconcileReady' = [reconcileReady EXCEPT ![r] = FALSE]
    /\ drain' = [drain EXCEPT ![r] = DrainTimeout]
    /\ Shutdown(r)
    /\ TrackLost
    /\ UNCHANGED <<controllers, synced, latch, rxSeen, led>>

\* shutdown_on_signal: the controllers finish what they are doing.
ControllersStop(r) ==
    /\ main[r] = "draining"
    /\ controllers[r]
    /\ controllers' = [controllers EXCEPT ![r] = FALSE]
    /\ UNCHANGED <<vars, main, drain, ready, readyVars, led>>

\* The process ends: all its tasks with it.
ProcessEnds(r) ==
    /\ Die(r)
    /\ MainMoves(r, "gone")
    /\ drain' = [drain EXCEPT ![r] = 0]
    /\ controllers' = [controllers EXCEPT ![r] = FALSE]
    /\ ready' = [ready EXCEPT ![r] = FALSE]
    /\ synced' = [synced EXCEPT ![r] = FALSE]
    /\ latch' = [latch EXCEPT ![r] = FALSE]
    /\ rxSeen' = [rxSeen EXCEPT ![r] = FALSE]
    /\ gate' = [gate EXCEPT ![r] = "none"]
    /\ reconcileReady' = [reconcileReady EXCEPT ![r] = FALSE]
    /\ led' = [led EXCEPT ![r] = FALSE]
    /\ TrackLost

\* The webhook and metrics servers never return, so the drain runs to its timeout.
DrainEnds(r) ==
    /\ main[r] = "draining"
    /\ drain[r] = 0
    /\ ProcessEnds(r)
    /\ UNCHANGED disturbed

\* A crash, or a SIGTERM before main listens for one.
ProcessCrash(r) == Disturb("crash") /\ ProcessEnds(r)

\* Mutant of ProcessRestart: the loop starts before main does.
ProcessRestartHalfway(r) ==
    /\ Restart(r)
    /\ TrackLost
    /\ UNCHANGED procVars

\* The container starts again: main reaches wait_until_leader.
ProcessRestart(r) ==
    /\ Restart(r)
    /\ MainMoves(r, "check")
    /\ TrackLost
    /\ UNCHANGED <<drain, controllers, ready, readyVars, led>>

-----------------------------------------------------------------------------
(* The election loop inside the process *)

\* transition.notify_waiters() reaches main only if it is parked.
Notify(r) ==
    main' = [main EXCEPT ![r] = IF @ = "parked" /\ isLeader'[r] # isLeader[r]
                                THEN "check" ELSE @]

ElectionStep(r) ==
    /\ RunLoop(r) \/ RequestFails(r) \/ ReleaseFails(r)
    /\ Notify(r)
    /\ led' = [led EXCEPT ![r] = @ \/ isLeader'[r]]
    /\ TrackLost
    /\ UNCHANGED <<drain, controllers, ready, readyVars>>

LeaseStep == Environment /\ TrackLost /\ UNCHANGED procVars

ProcessTick ==
    /\ Tick
    /\ \A r \in Replicas : main[r] = "draining" => drain[r] > 0
    /\ drain' = [r \in Replicas |-> IF main[r] = "draining" THEN drain[r] - 1 ELSE drain[r]]
    /\ UNCHANGED <<main, controllers, ready, readyVars, led>>

MainStep(r) ==
    \/ CheckLeader(r) \/ ArmWaiter(r)
    \/ SpawnControllers(r) \/ StoreReady(r) \/ SpawnGate(r)
    \/ ControllersStop(r) \/ DrainEnds(r) \/ ProcessRestart(r)

GateStep(r) ==
    GateSubscribes(r) \/ GateChecks(r) \/ GateAwaits(r) \/ GateWakes(r) \/ GateStores(r)

ProcessNext ==
    \/ \E r \in Replicas :
          \/ MainStep(r) \/ GateStep(r) \/ MarkSynced(r)
          \/ SigTerm(r) \/ ProcessCrash(r) \/ ElectionStep(r)
    \/ LeaseStep
    \/ ProcessTick

ProcessSpec == ProcessInit /\ [][ProcessNext]_allVars

\* The runtime polls every task that can make progress, timers fire, the kubelet
\* restarts the container.  A watch may never sync, a signal may never come.
ProcessFairness ==
    /\ \A r \in Replicas :
          /\ WF_allVars(MainStep(r))
          /\ WF_allVars(GateStep(r))
          /\ WF_allVars(RunLoop(r) /\ ElectionStep(r))
    /\ WF_allVars(ProcessTick)
    /\ WF_allVars((Deliver \/ Lose) /\ LeaseStep)

FairProcessSpec == ProcessSpec /\ ProcessFairness

-----------------------------------------------------------------------------
(* Properties *)

\* "A non-leader never reaches this line, so a standby still never turns Ready": controllers
\* run and /readyz answers only in a process that has been elected in its life, and /reconcilez
\* only if its store has synced as well, whatever crash, restart or SIGTERM comes in between.
\* Whether a process that was elected still leads is LoserYields.
OnlyElectedServe ==
    \A r \in Replicas :
        /\ controllers[r] \/ ready[r] => led[r]
        /\ reconcileReady[r] => led[r] /\ synced[r]

\* "A mark_synced landing between the check and the await still wakes changed()", and one
\* before the gate's first poll is not dropped: a serving process whose store has synced
\* publishes /reconcilez, whenever the sync came, unless it is shut down first.
SyncIsPublished ==
    \A r \in Replicas :
        main[r] = "serving" /\ synced[r] ~> reconcileReady[r] \/ main[r] # "serving"

\* "If the renew window is missed, the holder yields (controllers stop)": a process whose
\* election loop has cleared is_leader stops its controllers, or leads again.
LoserYields ==
    \A r \in Replicas :
        controllers[r] /\ ~ isLeader[r] ~> ~ controllers[r] \/ isLeader[r]

\* wait_until_leader "returns immediately if already leading": a process that
\* acquires and keeps the lease goes on to run the controllers.
LeaderServes ==
    \A r \in Replicas : isLeader[r] ~> controllers[r] \/ ~ isLeader[r]
=============================================================================
