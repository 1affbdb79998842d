--------------------------- MODULE LeaderElection ---------------------------
(***************************************************************************)
(* Leader election over one coordination.k8s.io Lease (src/leader.rs).     *)
(*                                                                         *)
(* Every operator replica runs run_loop: read the Lease, decide, write it, *)
(* settle is_leader, sleep, repeat.  The steps of one attempt are separate *)
(* actions because each is a round trip to the apiserver and peers act in  *)
(* between.  Writes are merge patches without a resourceVersion, so the    *)
(* apiserver applies them whatever happened since the read; only the       *)
(* create of a missing Lease is arbitrated (409 for the loser).            *)
(*                                                                         *)
(* Time is relative: a variable holds how long ago the Lease was stamped   *)
(* and how long each replica has waited, so no clock has to be bounded.    *)
(* An age past LeaseDuration saturates, since nothing tells them apart.    *)
(* All replicas read the same clock.                                       *)
(***************************************************************************)
EXTENDS Integers, FiniteSets

CONSTANTS
    Replicas,        \* pod names, the identities that compete
    LeaseDuration,   \* lease_duration, renew_deadline, retry_period
    RenewDeadline,
    RetryPeriod,
    MaxLatency,      \* longest time one apiserver request may take
    Disturbances,    \* which of DisturbanceKinds the environment may inflict
    MaxDisturbances, \* and how many of them in one behaviour
    Nobody,          \* holderIdentity is null
    Absent           \* there is no Lease object

DisturbanceKinds == {"crash", "error", "delete", "shutdown"}

ASSUME TimingAssumption ==
    /\ LeaseDuration \in Nat
    /\ RenewDeadline \in Nat
    /\ RetryPeriod \in Nat
    /\ MaxLatency \in Nat
    /\ RetryPeriod < RenewDeadline
    /\ RenewDeadline < LeaseDuration

ASSUME ReplicaAssumption ==
    /\ Nobody \notin Replicas
    /\ Absent \notin Replicas
    /\ Nobody # Absent

ASSUME DisturbanceAssumption ==
    /\ Disturbances \subseteq DisturbanceKinds
    /\ MaxDisturbances \in Nat

VARIABLES
    holder,     \* the Lease's holderIdentity, Nobody or Absent
    age,        \* time since the Lease's renewTime
    pc,         \* where each replica's run_loop stands
    timer,      \* sleeping: time left; otherwise: age of the request in hand
    seen,       \* what the GET of this attempt returned
    write,      \* the write of this attempt, then its outcome
    isLeader,   \* the is_leader flag
    late,       \* writes whose sender gave up and that may still arrive
    disturbed,  \* disturbances so far
    lost        \* history: for how long isLeader has been true without the lease

vars == <<holder, age, pc, timer, seen, write, isLeader, late, disturbed, lost>>

-----------------------------------------------------------------------------
(* Types *)

Holders == Replicas \cup {Nobody, Absent}
Verbs   == {"create", "renew", "replace"}

Attempting == {"get", "decide", "write", "reply"}
InRequest  == Attempting \cup {"release"}
Stopped    == {"exited", "down"}

Unread == [holder |-> Absent, age |-> 0]

LateWrites == [by : Replicas, verb : Verbs \cup {"release"}, age : 0 .. MaxLatency]

\* Every variable keeps its type: no request outlives MaxLatency, no sleep exceeds
\* renew_deadline, and the Lease names a known identity or nobody.
TypeOK ==
    /\ holder \in Holders
    /\ age \in Nat
    /\ pc \in [Replicas -> InRequest \cup Stopped \cup {"sleep"}]
    /\ timer \in [Replicas -> Nat]
    /\ \A r \in Replicas :
          /\ pc[r] \in InRequest => timer[r] <= MaxLatency
          /\ pc[r] = "sleep" => timer[r] <= RenewDeadline
    /\ seen \in [Replicas -> [holder : Holders, age : Nat]]
    /\ write \in [Replicas -> Verbs \cup {"none", "accepted", "rejected"}]
    /\ \A r \in Replicas : pc[r] = "write" => write[r] \in Verbs
    /\ isLeader \in [Replicas -> BOOLEAN]
    /\ late \subseteq LateWrites
    /\ disturbed \in 0 .. MaxDisturbances
    /\ lost \in [Replicas -> Nat]

Init ==
    /\ holder = Absent
    /\ age = 0
    /\ pc = [r \in Replicas |-> "get"]
    /\ timer = [r \in Replicas |-> 0]
    /\ seen = [r \in Replicas |-> Unread]
    /\ write = [r \in Replicas |-> "none"]
    /\ isLeader = [r \in Replicas |-> FALSE]
    /\ late = {}
    /\ disturbed = 0
    /\ lost = [r \in Replicas |-> 0]

-----------------------------------------------------------------------------
(* Helpers *)

Older(a) == IF a > LeaseDuration THEN a ELSE a + 1

\* Mutants of HasExpired: a comparison with >=, and one in the wrong unit.
HasExpiredAtDuration(a) == a >= LeaseDuration
HasExpiredNever(a) == a > 1000 * LeaseDuration

\* has_expired: strictly more than lease_duration since the renewTime read.
HasExpired(a) == a > LeaseDuration

Disturb(kind) ==
    /\ kind \in Disturbances
    /\ disturbed < MaxDisturbances
    /\ disturbed' = disturbed + 1

Undisturbed == UNCHANGED <<late, disturbed>>

\* The apiserver accepts a create only when the Lease is absent, and a merge
\* patch only when it is present; it compares nothing else.
Accepts(v) == (v = "create") <=> (holder = Absent)

\* Mutant of Apply: a renewal forgets to restamp renewTime.
ApplyUnstamped(r, v, a) ==
    IF Accepts(v)
    THEN holder' = (IF v = "release" THEN Nobody ELSE r) /\ age' = IF v = "renew" THEN age ELSE a
    ELSE UNCHANGED <<holder, age>>

\* The Lease after r's write v, built a time units ago, has reached the apiserver.
Apply(r, v, a) ==
    IF Accepts(v)
    THEN holder' = (IF v = "release" THEN Nobody ELSE r) /\ age' = a
    ELSE UNCHANGED <<holder, age>>

\* The loop moves on, with a request, a sleep of length t or nothing in hand.
MoveTo(r, next, t, w) ==
    /\ pc' = [pc EXCEPT ![r] = next]
    /\ timer' = [timer EXCEPT ![r] = t]
    /\ write' = [write EXCEPT ![r] = w]
    /\ seen' = [seen EXCEPT ![r] = Unread]

\* Mutant of SettleAs: the holder sleeps lease_duration.
SettleAsOversleeping(r, held) ==
    /\ isLeader' = [isLeader EXCEPT ![r] = held]
    /\ MoveTo(r, "sleep", IF held THEN LeaseDuration ELSE RetryPeriod, "none")

\* An attempt ends: set is_leader, sleep until the next one.
SettleAs(r, held) ==
    /\ isLeader' = [isLeader EXCEPT ![r] = held]
    /\ MoveTo(r, "sleep", IF held THEN RenewDeadline ELSE RetryPeriod, "none")

\* The write that r walks away from, if there is one in flight: it may be lost,
\* or arrive later.
InFlight(r) ==
    IF pc[r] \in {"write", "release"}
    THEN {[by   |-> r,
           verb |-> IF pc[r] = "write" THEN write[r] ELSE "release",
           age  |-> timer[r]]}
    ELSE {}

Abandon(r) == \E kept \in SUBSET InFlight(r) : late' = late \cup kept

-----------------------------------------------------------------------------
(* run_loop and try_acquire_or_renew *)

\* The apiserver answers the GET.
Read(r) ==
    /\ pc[r] = "get"
    /\ seen' = [seen EXCEPT ![r] = [holder |-> holder, age |-> age]]
    /\ pc' = [pc EXCEPT ![r] = "decide"]
    /\ Undisturbed
    /\ UNCHANGED <<holder, age, timer, write, isLeader>>

\* The Lease is absent, ours, or expired: build the write and send it.
DecideWrite(r) ==
    /\ pc[r] = "decide"
    /\ seen[r].holder \in {Absent, r} \/ HasExpired(seen[r].age)
    /\ MoveTo(r, "write", 0, IF seen[r].holder = Absent THEN "create"
                             ELSE IF seen[r].holder = r THEN "renew"
                             ELSE "replace")
    /\ Undisturbed
    /\ UNCHANGED <<holder, age, isLeader>>

\* Mutant of DecideDenied: Ok(false) leaves is_leader as it was.
DecideDeniedLeading(r) ==
    /\ pc[r] = "decide"
    /\ seen[r].holder \notin {Absent, r}
    /\ ~ HasExpired(seen[r].age)
    /\ SettleAs(r, isLeader[r])
    /\ Undisturbed
    /\ UNCHANGED <<holder, age>>

\* Another replica holds a fresh lease, or a released one has not expired.
DecideDenied(r) ==
    /\ pc[r] = "decide"
    /\ seen[r].holder \notin {Absent, r}
    /\ ~ HasExpired(seen[r].age)
    /\ SettleAs(r, FALSE)
    /\ Undisturbed
    /\ UNCHANGED <<holder, age>>

\* create_lease, renew_lease or replace_holder reaches the apiserver.
Write(r) ==
    /\ pc[r] = "write"
    /\ Apply(r, write[r], timer[r])
    /\ write' = [write EXCEPT ![r] = IF Accepts(write[r]) THEN "accepted" ELSE "rejected"]
    /\ pc' = [pc EXCEPT ![r] = "reply"]
    /\ Undisturbed
    /\ UNCHANGED <<timer, seen, isLeader>>

\* Ok(true) or, for a 404 or 409, Err.
Settle(r) ==
    /\ pc[r] = "reply"
    /\ SettleAs(r, write[r] = "accepted")
    /\ Undisturbed
    /\ UNCHANGED <<holder, age>>

\* A request fails or its answer is lost: Err, relinquish.
RequestFails(r) ==
    /\ pc[r] \in Attempting
    /\ Disturb("error")
    /\ SettleAs(r, FALSE)
    /\ Abandon(r)
    /\ UNCHANGED <<holder, age>>

\* The sleep is over: the loop sends the next GET.
Wake(r) ==
    /\ pc[r] = "sleep"
    /\ timer[r] = 0
    /\ MoveTo(r, "get", 0, "none")
    /\ Undisturbed
    /\ UNCHANGED <<holder, age, isLeader>>

\* shutdown(): notify_waiters wakes whoever waits right now.  During an attempt
\* that is the shutdown arm of the select, which drops the attempt, clears
\* is_leader and, if it was set, releases the Lease.
ShutdownInAttempt(r) ==
    /\ pc[r] \in Attempting
    /\ MoveTo(r, IF isLeader[r] THEN "release" ELSE "exited", 0, "none")
    /\ isLeader' = [isLeader EXCEPT ![r] = FALSE]
    /\ Abandon(r)
    /\ UNCHANGED <<holder, age>>

\* During a sleep it is sleep_or_shutdown, which swallows it: the loop goes on
\* with its next attempt.
ShutdownInSleep(r) ==
    /\ pc[r] = "sleep"
    /\ MoveTo(r, "get", 0, "none")
    /\ UNCHANGED <<holder, age, isLeader, late>>

\* Between an attempt and its sleep, and between the sleep and the next select,
\* nobody waits, and once the loop has taken the shutdown arm nobody will.
ShutdownMissed(r) ==
    /\ \/ pc[r] \in {"release", "exited"}
       \/ /\ pc[r] = "sleep"
          /\ timer[r] \in {0, IF isLeader[r] THEN RenewDeadline ELSE RetryPeriod}
    /\ UNCHANGED <<holder, age, pc, timer, seen, write, isLeader, late>>

Shutdown(r) == ShutdownInAttempt(r) \/ ShutdownInSleep(r) \/ ShutdownMissed(r)

\* release_lease: the patch applies whoever holds the Lease by now; a 404 is fine.
Release(r) ==
    /\ pc[r] = "release"
    /\ Apply(r, "release", timer[r])
    /\ MoveTo(r, "exited", 0, "none")
    /\ Undisturbed
    /\ UNCHANGED isLeader

\* The release patch fails: that is logged and the loop ends.
ReleaseFails(r) ==
    /\ pc[r] = "release"
    /\ Disturb("error")
    /\ MoveTo(r, "exited", 0, "none")
    /\ Abandon(r)
    /\ UNCHANGED <<holder, age, isLeader>>

-----------------------------------------------------------------------------
(* The environment *)

\* The process ends; what it had on the wire may still arrive.
Die(r) ==
    /\ pc[r] # "down"
    /\ MoveTo(r, "down", 0, "none")
    /\ isLeader' = [isLeader EXCEPT ![r] = FALSE]
    /\ Abandon(r)
    /\ UNCHANGED <<holder, age>>

Crash(r) == Disturb("crash") /\ Die(r)

\* The kubelet restarts the container under the same pod name.
Restart(r) ==
    /\ pc[r] = "down"
    /\ MoveTo(r, "get", 0, "none")
    /\ Undisturbed
    /\ UNCHANGED <<holder, age, isLeader>>

\* The loop has ended: so does the process, once main has drained.
Exit(r) ==
    /\ pc[r] = "exited"
    /\ MoveTo(r, "down", 0, "none")
    /\ Undisturbed
    /\ UNCHANGED <<holder, age, isLeader>>

\* An abandoned write arrives after all, or never will.
Deliver ==
    \E m \in late :
        /\ late' = late \ {m}
        /\ Apply(m.by, m.verb, m.age)
        /\ UNCHANGED <<pc, timer, seen, write, isLeader, disturbed>>

Lose ==
    \E m \in late :
        /\ late' = late \ {m}
        /\ UNCHANGED <<holder, age, pc, timer, seen, write, isLeader, disturbed>>

\* Somebody deletes the Lease object.
DeleteLease ==
    /\ holder # Absent
    /\ Disturb("delete")
    /\ holder' = Absent
    /\ age' = 0
    /\ UNCHANGED <<pc, timer, seen, write, isLeader, late>>

\* One unit of time: requests end within MaxLatency and sleeps end on time.
Tick ==
    /\ \A r \in Replicas :
          /\ pc[r] \in InRequest => timer[r] < MaxLatency
          /\ pc[r] = "sleep" => timer[r] > 0
    /\ \A m \in late : m.age < MaxLatency
    /\ age' = IF holder = Absent THEN age ELSE Older(age)
    /\ timer' = [r \in Replicas |-> IF pc[r] \in InRequest THEN timer[r] + 1
                                    ELSE IF pc[r] = "sleep" THEN timer[r] - 1
                                    ELSE timer[r]]
    /\ seen' = [r \in Replicas |-> IF pc[r] = "decide" /\ seen[r].holder # Absent
                                   THEN [holder |-> seen[r].holder, age |-> Older(seen[r].age)]
                                   ELSE seen[r]]
    /\ late' = {[by |-> m.by, verb |-> m.verb, age |-> m.age + 1] : m \in late}
    /\ lost' = [r \in Replicas |-> IF isLeader[r] /\ holder # r THEN lost[r] + 1 ELSE 0]
    /\ UNCHANGED <<holder, pc, write, isLeader, disturbed>>

-----------------------------------------------------------------------------
(* The specification *)

RunLoop(r) == \/ Read(r) \/ DecideWrite(r) \/ DecideDenied(r) \/ Write(r)
              \/ Settle(r) \/ Wake(r) \/ Release(r)

Loop(r) == RunLoop(r) \/ Exit(r) \/ Restart(r)

Disturbance(r) == \/ RequestFails(r) \/ ReleaseFails(r) \/ Crash(r)
                  \/ (Shutdown(r) /\ Disturb("shutdown"))

Environment == Deliver \/ Lose \/ DeleteLease

\* Leadership without the lease is measured from the moment it begins.
TrackLost ==
    lost' = [r \in Replicas |-> IF isLeader'[r] /\ holder' # r THEN lost[r] ELSE 0]

Step == ((\E r \in Replicas : Loop(r) \/ Disturbance(r)) \/ Environment) /\ TrackLost

Next == Step \/ Tick

Spec == Init /\ [][Next]_vars

\* Tasks that can run do run, timers fire, requests end, pods are restarted.
Fairness ==
    /\ \A r \in Replicas : WF_vars(Loop(r) /\ TrackLost)
    /\ WF_vars(Tick)
    /\ WF_vars((Deliver \/ Lose) /\ TrackLost)

FairSpec == Spec /\ Fairness

-----------------------------------------------------------------------------
(* Properties *)

\* A renewal is due every renew_deadline and takes at most four requests' time
\* until every peer that still judges the previous stamp has decided.
LatencyFits == RenewDeadline + 4 * MaxLatency <= LeaseDuration

\* run_loop relinquishes: a replica whose lease was taken, released or deleted
\* under it clears is_leader, or has written the Lease again, within one renewal
\* sleep and three requests, whatever crashes, errors or late writes occur.
StaleLeadershipBounded ==
    \A r \in Replicas : lost[r] <= RenewDeadline + 3 * MaxLatency

\* try_acquire_or_renew renews in time: when LatencyFits, the lease of a replica
\* that leads is never expired, so no peer that reads it now may take it.
LeaderLeaseFresh ==
    LatencyFits => \A r \in Replicas : isLeader[r] /\ holder = r => ~ HasExpired(age)

\* "One holder at a time runs the controllers" (module comment of leader.rs): no
\* two replicas see is_leader at once.  After a takeover nothing arbitrates between
\* two contenders.
AtMostOneLeader ==
    \A p, q \in Replicas : isLeader[p] /\ isLeader[q] => p = q

\* Until something disturbs it, that much holds: a create is arbitrated by the
\* apiserver, and the lease of a leader that renews in time never expires.
SoleUntilDisturbed == LatencyFits /\ disturbed = 0 => AtMostOneLeader

\* The longest that r can have led without the lease, by where its loop stands: it
\* is counted from r's own accepted write on.
LostLimit(r) ==
    IF pc[r] = "sleep" THEN MaxLatency + RenewDeadline - timer[r]
    ELSE IF pc[r] \in {"get", "decide"} THEN MaxLatency + RenewDeadline + timer[r]
    ELSE IF pc[r] = "reply" /\ write[r] = "accepted" THEN timer[r]
    ELSE IF pc[r] \in {"write", "reply"} THEN 2 * MaxLatency + RenewDeadline + timer[r]
    ELSE 0

\* What makes StaleLeadershipBounded inductive.
LostInv ==
    \A r \in Replicas :
        /\ lost[r] <= LostLimit(r)
        /\ pc[r] \in Stopped \cup {"release"} => ~ isLeader[r]

\* r holds the lease and acts, or is about to act, on that.
Confirmed(r) == holder = r /\ (isLeader[r] \/ (pc[r] = "reply" /\ write[r] = "accepted"))

\* What makes LeaderLeaseFresh inductive: a late write of r's own may have put
\* back a stamp that is MaxLatency old.
FreshInv ==
    \A r \in Replicas : Confirmed(r) => age <= LostLimit(r) + MaxLatency

\* While nothing disturbs it, the replica whose create succeeded is the only one
\* that acts on the Lease: every other finds it absent and loses the create, or
\* finds it fresh.
SoleFor(r) ==
    /\ pc[r] \in Attempting \cup {"sleep"}
    /\ holder # r =>
          /\ ~ isLeader[r]
          /\ pc[r] = "decide" => \/ seen[r].holder = Absent
                                 \/ /\ seen[r].holder = holder
                                    /\ seen[r].age <= RenewDeadline + 3 * MaxLatency + timer[r]
          /\ pc[r] = "write" => write[r] = "create"
          /\ pc[r] = "reply" => write[r] = "rejected"
    /\ holder = r =>
          /\ age <= LostLimit(r)
          /\ pc[r] = "decide" => seen[r].holder = r
          /\ pc[r] = "write" => write[r] = "renew"
          /\ pc[r] = "reply" => write[r] = "accepted"

SoleInv == late = {} /\ holder # Nobody /\ \A r \in Replicas : SoleFor(r)

\* What makes SoleUntilDisturbed inductive.
UndisturbedInv == disturbed = 0 => SoleInv

\* Once disturbances cease, leadership converges: exactly one replica leads, for
\* ever, after any crash, restart, deletion, failed request or shutdown.
LeadershipConverges == <>[](\E r \in Replicas : {q \in Replicas : isLeader[q]} = {r})
=============================================================================
