------------------------ MODULE LeaderElectionProofs ------------------------
(***************************************************************************)
(* What leader election guarantees for every set of replicas and every     *)
(* choice of the timings: type correctness, how long leadership can        *)
(* outlive the lease, freshness of a leader's lease, and one leader at     *)
(* most while nothing disturbs it.                                         *)
(***************************************************************************)
EXTENDS LeaderElection, TLAPS

\* The answer to a write decides whether its sender leads.
LEMMA SettleFlag ==
    ASSUME NEW r \in Replicas, isLeader \in [Replicas -> BOOLEAN], Settle(r)
    PROVE  isLeader'[r] = (write[r] = "accepted")
BY Zenon DEF Settle, SettleAs

\* The specification starts in its types.
LEMMA TypeInit == Init => TypeOK
BY TimingAssumption, ReplicaAssumption, DisturbanceAssumption
   DEF Init, TypeOK, Holders, Verbs, Attempting, InRequest, Stopped, Unread, LateWrites

\* Every step keeps the types; the parts of TypeOK that talk about time follow the
\* loop: a request in hand is never older than MaxLatency because Tick waits for it.
LEMMA TypeStep == TypeOK /\ [Next]_vars => TypeOK'
<1> USE TimingAssumption, ReplicaAssumption, DisturbanceAssumption
<1> USE DEF Holders, Verbs, Attempting, InRequest, Stopped, Unread,
            LateWrites
<1> SUFFICES ASSUME TypeOK, [Next]_vars PROVE TypeOK'
  OBVIOUS
<1> USE DEF TypeOK
<1>1. ASSUME Step PROVE TypeOK'
  <2>1. ASSUME TrackLost PROVE lost' \in [Replicas -> Nat]
    BY <2>1 DEF TrackLost
  <2>2. ASSUME NEW r \in Replicas, Loop(r), TrackLost PROVE TypeOK'
    <3> USE <2>1, <2>2 DEF Undisturbed
    <3>1. CASE Read(r)          BY <3>1 DEF Read
    <3>2. CASE DecideWrite(r)   BY <3>2 DEF DecideWrite, MoveTo
    <3>3. CASE DecideDenied(r)  BY <3>3 DEF DecideDenied, SettleAs, MoveTo
    <3>4. CASE Write(r)         BY <3>4 DEF Write, Apply
    <3>5. CASE Settle(r)        BY <3>5 DEF Settle, SettleAs, MoveTo
    <3>6. CASE Wake(r)          BY <3>6 DEF Wake, MoveTo
    <3>7. CASE Release(r)       BY <3>7 DEF Release, Apply, MoveTo
    <3>8. CASE Exit(r)          BY <3>8 DEF Exit, MoveTo
    <3>9. CASE Restart(r)       BY <3>9 DEF Restart, MoveTo
    <3> QED BY <2>2, <3>1, <3>2, <3>3, <3>4, <3>5, <3>6, <3>7, <3>8, <3>9 DEF Loop, RunLoop
  <2>3. ASSUME NEW r \in Replicas, Abandon(r) PROVE late' \subseteq LateWrites
    BY <2>3 DEF Abandon, InFlight
  <2>4. ASSUME NEW r \in Replicas, Disturbance(r), TrackLost PROVE TypeOK'
    <3> USE <2>1, <2>3, <2>4 DEF Disturb, MoveTo
    <3>1. CASE RequestFails(r)  BY <3>1 DEF RequestFails, SettleAs
    <3>2. CASE ReleaseFails(r)  BY <3>2 DEF ReleaseFails
    <3>3. CASE Crash(r)         BY <3>3 DEF Crash, Die
    <3>4. CASE Shutdown(r) /\ Disturb("shutdown")
      <4> USE <3>4
      <4>1. CASE ShutdownInAttempt(r)  BY <4>1 DEF ShutdownInAttempt
      <4>2. CASE ShutdownInSleep(r)    BY <4>2 DEF ShutdownInSleep
      <4>3. CASE ShutdownMissed(r)     BY <4>3 DEF ShutdownMissed
      <4> QED BY <4>1, <4>2, <4>3 DEF Shutdown
    <3> QED BY <2>4, <3>1, <3>2, <3>3, <3>4 DEF Disturbance
  <2>5. ASSUME Environment, TrackLost PROVE TypeOK'
    <3> USE <2>1, <2>5
    <3>1. CASE Deliver
      <4> PICK m \in late : /\ late' = late \ {m}
                            /\ Apply(m.by, m.verb, m.age)
                            /\ UNCHANGED <<pc, timer, seen, write, isLeader, disturbed>>
        BY <3>1 DEF Deliver
      <4>1. m \in LateWrites  OBVIOUS
      <4>2. m.by \in Replicas /\ m.age \in Nat /\ m.age <= MaxLatency  BY <4>1
      <4> QED BY <4>2 DEF Apply
    <3>2. CASE Lose         BY <3>2 DEF Lose
    <3>3. CASE DeleteLease  BY <3>3 DEF DeleteLease, Disturb
    <3> QED BY <2>5, <3>1, <3>2, <3>3 DEF Environment
  <2> QED BY <1>1, <2>2, <2>4, <2>5 DEF Step
<1>2. ASSUME Tick PROVE TypeOK'
  <2> USE <1>2 DEF Tick
  <2>1. age' \in Nat  BY DEF Older
  <2>2. timer' \in [Replicas -> Nat]  OBVIOUS
  <2>3. seen' \in [Replicas -> [holder : Holders, age : Nat]]  BY DEF Older
  <2>4. late' \subseteq LateWrites
    <3> SUFFICES ASSUME NEW m \in late
                 PROVE  [by |-> m.by, verb |-> m.verb, age |-> m.age + 1] \in LateWrites
      OBVIOUS
    <3>1. m \in LateWrites /\ m.age < MaxLatency  OBVIOUS
    <3> QED BY <3>1
  <2> QED BY <2>1, <2>2, <2>3, <2>4
<1>3. CASE UNCHANGED vars
  BY <1>3 DEF vars
<1> QED BY <1>1, <1>2, <1>3 DEF Next

\* Every variable of the election keeps its type, its time bounds included.
THEOREM TypeCorrect == Spec => []TypeOK
BY TypeInit, TypeStep, PTL DEF Spec

-----------------------------------------------------------------------------
(* How long leadership outlives the lease *)

\* Each step of the loop keeps the time led without the lease below LostLimit:
\* an accepted write resets it, a denied or failed attempt ends leadership.
LEMMA LostStep == TypeOK /\ TypeOK' /\ LostInv /\ [Next]_vars => LostInv'
<1> SUFFICES ASSUME TypeOK, TypeOK', LostInv, [Next]_vars, NEW r \in Replicas
             PROVE  /\ lost'[r] <= LostLimit(r)'
                    /\ pc'[r] \in Stopped \cup {"release"} => ~ isLeader'[r]
  BY DEF LostInv
<1> USE TimingAssumption, ReplicaAssumption DEF TypeOK, LostLimit, InRequest, Attempting, Stopped
<1>0. lost[r] <= LostLimit(r) /\ (pc[r] \in Stopped \cup {"release"} => ~ isLeader[r])
  BY DEF LostInv
<1>1. ASSUME Step PROVE /\ lost'[r] <= LostLimit(r)'
                        /\ pc'[r] \in Stopped \cup {"release"} => ~ isLeader'[r]
  <2>0. lost'[r] = IF isLeader'[r] /\ holder' # r THEN lost[r] ELSE 0
    BY <1>1 DEF Step, TrackLost
  <2>1. ASSUME NEW p \in Replicas, Loop(p)
        PROVE /\ lost'[r] <= LostLimit(r)'
              /\ pc'[r] \in Stopped \cup {"release"} => ~ isLeader'[r]
    <3> USE <1>0, <2>0, <2>1 DEF MoveTo, SettleAs
    <3>1. CASE Read(p)          BY <3>1 DEF Read
    <3>2. CASE DecideWrite(p)   BY <3>2 DEF DecideWrite
    <3>3. CASE DecideDenied(p)  BY <3>3 DEF DecideDenied
    <3>4. CASE Write(p)         BY <3>4 DEF Write, Apply, Verbs
    <3>5. CASE Settle(p)
      <4> USE <3>5 DEF Settle
      <4>1. CASE p # r  BY <4>1
      <4>2. CASE p = r /\ write[r] = "accepted"
        <5>1. timer'[r] = RenewDeadline /\ pc'[r] = "sleep"  BY <4>2
        <5> QED BY <4>2, <5>1
      <4>3. CASE p = r /\ write[r] # "accepted"
        <5>0. isLeader'[r] = (write[r] = "accepted")  BY <4>3, SettleFlag
        <5>1. ~ isLeader'[r]  BY <4>3, <5>0, Zenon
        <5>2. timer'[r] = RetryPeriod /\ pc'[r] = "sleep"  BY <4>3
        <5> QED BY <5>1, <5>2
      <4> QED BY <4>1, <4>2, <4>3
    <3>6. CASE Wake(p)          BY <3>6 DEF Wake
    <3>7. CASE Release(p)       BY <3>7 DEF Release
    <3>8. CASE Exit(p)          BY <3>8 DEF Exit
    <3>9. CASE Restart(p)       BY <3>9 DEF Restart
    <3> QED BY <2>1, <3>1, <3>2, <3>3, <3>4, <3>5, <3>6, <3>7, <3>8, <3>9 DEF Loop, RunLoop
  <2>2. ASSUME NEW p \in Replicas, Disturbance(p)
        PROVE /\ lost'[r] <= LostLimit(r)'
              /\ pc'[r] \in Stopped \cup {"release"} => ~ isLeader'[r]
    <3> USE <1>0, <2>0, <2>2 DEF MoveTo, SettleAs
    <3>1. CASE RequestFails(p)       BY <3>1 DEF RequestFails
    <3>2. CASE ReleaseFails(p)       BY <3>2 DEF ReleaseFails
    <3>3. CASE Crash(p)              BY <3>3 DEF Crash, Die
    <3>4. CASE ShutdownInAttempt(p)  BY <3>4 DEF ShutdownInAttempt
    <3>5. CASE ShutdownInSleep(p)    BY <3>5 DEF ShutdownInSleep
    <3>6. CASE ShutdownMissed(p)     BY <3>6 DEF ShutdownMissed
    <3> QED BY <2>2, <3>1, <3>2, <3>3, <3>4, <3>5, <3>6 DEF Disturbance, Shutdown
  <2>3. ASSUME Environment
        PROVE /\ lost'[r] <= LostLimit(r)'
              /\ pc'[r] \in Stopped \cup {"release"} => ~ isLeader'[r]
    BY <1>0, <2>0, <2>3 DEF Environment, Deliver, Lose, DeleteLease
  <2> QED BY <1>1, <2>1, <2>2, <2>3 DEF Step
<1>2. CASE Tick
  BY <1>0, <1>2 DEF Tick
<1>3. CASE UNCHANGED vars
  BY <1>0, <1>3 DEF vars
<1> QED BY <1>1, <1>2, <1>3 DEF Next

\* The inductive invariant behind StaleLeadership: run_loop keeps the time without
\* the lease below the limit for where it stands.
THEOREM LostCorrect == Spec => []LostInv
<1>1. Init => LostInv
  BY TimingAssumption DEF Init, LostInv, LostLimit, Stopped
<1> QED BY <1>1, LostStep, TypeCorrect, PTL DEF Spec

\* For every timing and every number of disturbances, is_leader outlives the
\* lease by at most one renewal sleep and three requests.
THEOREM StaleLeadership == Spec => []StaleLeadershipBounded
<1>1. TypeOK /\ LostInv => StaleLeadershipBounded
  BY TimingAssumption DEF TypeOK, LostInv, LostLimit, StaleLeadershipBounded, InRequest, Attempting
<1> QED BY <1>1, TypeCorrect, LostCorrect, PTL

-----------------------------------------------------------------------------
(* A leader's lease stays fresh *)

\* The Lease is stamped when a write is built; between two accepted writes of the
\* same replica its age follows the loop, as LostLimit does.
LEMMA FreshStep ==
    TypeOK /\ TypeOK' /\ LostInv /\ FreshInv /\ [Next]_vars => FreshInv'
<1> SUFFICES ASSUME TypeOK, TypeOK', LostInv, FreshInv, [Next]_vars,
                    NEW r \in Replicas, Confirmed(r)'
             PROVE  age' <= LostLimit(r)' + MaxLatency
  BY DEF FreshInv
<1> USE TimingAssumption, ReplicaAssumption DEF TypeOK, LostLimit, InRequest, Attempting, Stopped
<1>0. /\ Confirmed(r) => age <= LostLimit(r) + MaxLatency
      /\ pc[r] \in Stopped \cup {"release"} => ~ isLeader[r]
  BY DEF FreshInv, LostInv
<1>1. ASSUME NEW p \in Replicas, Loop(p) PROVE age' <= LostLimit(r)' + MaxLatency
  <2> USE <1>0, <1>1 DEF MoveTo, SettleAs, Confirmed
  <2>1. CASE Read(p)          BY <2>1 DEF Read
  <2>2. CASE DecideWrite(p)   BY <2>2 DEF DecideWrite
  <2>3. CASE DecideDenied(p)  BY <2>3 DEF DecideDenied
  <2>4. CASE Write(p)
    <3> USE <2>4 DEF Write
    <3>1. CASE ~ Accepts(write[p])
      <4>1. holder' = holder /\ age' = age  BY <3>1 DEF Apply
      <4> QED BY <3>1, <4>1
    <3>2. CASE Accepts(write[p])
      <4>1. holder' = p /\ age' = timer[p]  BY <3>2 DEF Apply, Verbs
      <4> QED BY <3>2, <4>1
    <3> QED BY <3>1, <3>2
  <2>5. CASE Settle(p)
    <3> USE <2>5 DEF Settle
    <3>1. CASE p # r  BY <3>1
    <3>2. CASE p = r /\ write[r] = "accepted"
      <4>1. timer'[r] = RenewDeadline /\ pc'[r] = "sleep"  BY <3>2
      <4> QED BY <3>2, <4>1
    <3>3. CASE p = r /\ write[r] # "accepted"
      <4>0. isLeader'[r] = (write[r] = "accepted")  BY <3>3, SettleFlag
      <4>1. ~ isLeader'[r]  BY <3>3, <4>0, Zenon
      <4>2. pc'[r] = "sleep"  BY <3>3
      <4> QED BY <4>1, <4>2
    <3> QED BY <3>1, <3>2, <3>3
  <2>6. CASE Wake(p)          BY <2>6 DEF Wake
  <2>7. CASE Release(p)
    <3>1. holder' = Nobody \/ (holder' = holder /\ age' = age)  BY <2>7 DEF Release, Apply
    <3> QED BY <2>7, <3>1 DEF Release
  <2>8. CASE Exit(p)          BY <2>8 DEF Exit
  <2>9. CASE Restart(p)       BY <2>9 DEF Restart
  <2> QED BY <1>1, <2>1, <2>2, <2>3, <2>4, <2>5, <2>6, <2>7, <2>8, <2>9 DEF Loop, RunLoop
<1>2. ASSUME NEW p \in Replicas, Disturbance(p) PROVE age' <= LostLimit(r)' + MaxLatency
  <2> USE <1>0, <1>2 DEF MoveTo, SettleAs, Confirmed
  <2>1. CASE RequestFails(p)       BY <2>1 DEF RequestFails
  <2>2. CASE ReleaseFails(p)       BY <2>2 DEF ReleaseFails
  <2>3. CASE Crash(p)              BY <2>3 DEF Crash, Die
  <2>4. CASE ShutdownInAttempt(p)  BY <2>4 DEF ShutdownInAttempt
  <2>5. CASE ShutdownInSleep(p)    BY <2>5 DEF ShutdownInSleep
  <2>6. CASE ShutdownMissed(p)     BY <2>6 DEF ShutdownMissed
  <2> QED BY <1>2, <2>1, <2>2, <2>3, <2>4, <2>5, <2>6 DEF Disturbance, Shutdown
<1>3. CASE Deliver
  <2> PICK m \in late : /\ Apply(m.by, m.verb, m.age)
                        /\ UNCHANGED <<pc, timer, seen, write, isLeader, disturbed>>
    BY <1>3 DEF Deliver
  <2>1. m \in LateWrites  OBVIOUS
  <2>2. m.age \in Nat /\ m.age <= MaxLatency  BY <2>1 DEF LateWrites
  <2>3. CASE holder' = holder /\ age' = age
    BY <1>0, <2>3 DEF Confirmed
  <2>4. CASE age' = m.age
    <3>1. pc'[r] \notin Stopped \cup {"release"}  BY <1>0 DEF Confirmed
    <3> QED BY <2>2, <2>4, <3>1
  <2> QED BY <2>3, <2>4 DEF Apply
<1>4. CASE Lose \/ DeleteLease \/ UNCHANGED vars
  BY <1>0, <1>4 DEF Lose, DeleteLease, vars, Confirmed
<1>5. CASE Tick
  <2>1. Confirmed(r) /\ age' <= age + 1  BY <1>5 DEF Tick, Confirmed, Older
  <2> QED BY <1>0, <1>5, <2>1 DEF Tick, Confirmed
<1> QED BY <1>1, <1>2, <1>3, <1>4, <1>5 DEF Next, Step, Environment

\* When a renewal fits (renew_deadline plus four requests is at most
\* lease_duration), the lease of a replica that leads and holds it never expires,
\* whatever else crashes, fails or arrives late.
THEOREM LeaseFreshness == Spec => []LeaderLeaseFresh
<1>1. Init => FreshInv
  BY DEF Init, FreshInv, Confirmed
<1>2. TypeOK /\ LostInv /\ FreshInv => LeaderLeaseFresh
  BY TimingAssumption DEF TypeOK, LostInv, FreshInv, Confirmed, LostLimit, LeaderLeaseFresh,
     LatencyFits, HasExpired, InRequest, Attempting, Stopped
<1> QED BY <1>1, <1>2, FreshStep, TypeCorrect, LostCorrect, PTL DEF Spec

-----------------------------------------------------------------------------
(* One leader at most while nothing disturbs it *)

\* The holder's stamp is at most renew_deadline and three requests old.
LEMMA SoleAge == ASSUME TypeOK, SoleInv, holder # Absent
                 PROVE  age <= RenewDeadline + 3 * MaxLatency
BY TimingAssumption, ReplicaAssumption
   DEF TypeOK, SoleInv, SoleFor, LostLimit, Holders, InRequest, Attempting

\* Nothing takes a disturbance back: a behaviour that has met none so far has met
\* none in its last step either.
LEMMA DisturbanceCounted ==
    ASSUME TypeOK, [Next]_vars, disturbed' = 0
    PROVE  disturbed = 0 /\ \A kind \in DisturbanceKinds : ~ Disturb(kind)
<1> USE DisturbanceAssumption
<1>0. disturbed \in Nat  BY DEF TypeOK
<1>1. ASSUME NEW kind, Disturb(kind) PROVE FALSE  BY <1>0, <1>1 DEF Disturb
<1>2. ASSUME NEW p \in Replicas, Loop(p) PROVE disturbed' = disturbed
  BY <1>2 DEF Loop, RunLoop, Read, DecideWrite, DecideDenied, Write, Settle, Wake, Release, Exit,
              Restart, Undisturbed
<1>3. ASSUME NEW p \in Replicas, Disturbance(p) PROVE FALSE
  BY <1>1, <1>3 DEF Disturbance, RequestFails, ReleaseFails, Crash
<1>4. ASSUME Environment PROVE disturbed' = disturbed
  BY <1>1, <1>4 DEF Environment, Deliver, Lose, DeleteLease
<1>5. Tick \/ UNCHANGED vars => disturbed' = disturbed  BY DEF Tick, vars
<1>6. disturbed' = disturbed  BY <1>2, <1>3, <1>4, <1>5 DEF Next, Step
<1> QED BY <1>1, <1>6

\* A contender that read the holder's stamp decides while that stamp, one more
\* request old by then, has still not expired: it is denied.
LEMMA SoleStep ==
    ASSUME LatencyFits
    PROVE  TypeOK /\ TypeOK' /\ UndisturbedInv /\ [Next]_vars => UndisturbedInv'
<1> SUFFICES ASSUME TypeOK, TypeOK', UndisturbedInv, [Next]_vars, disturbed' = 0 PROVE SoleInv'
  BY DEF UndisturbedInv
<1>a. disturbed = 0 /\ \A kind \in DisturbanceKinds : ~ Disturb(kind)
  BY DisturbanceCounted
<1>b. SoleInv  BY <1>a DEF UndisturbedInv
<1> USE TimingAssumption, ReplicaAssumption
        DEF TypeOK, LostLimit, InRequest, Attempting, LatencyFits, Holders, Verbs
<1>0. /\ late = {} /\ holder # Nobody
      /\ \A r \in Replicas : SoleFor(r)
  BY <1>b DEF SoleInv
<1>1. ASSUME NEW p \in Replicas, Loop(p)
      PROVE late' = {} /\ holder' # Nobody /\ \A r \in Replicas : SoleFor(r)'
  <2>0. SoleFor(p)  BY <1>0
  <2> USE <1>0, <1>1 DEF MoveTo, SettleAs, Undisturbed
  <2>1. CASE Read(p)
    BY <1>b, <2>1, SoleAge DEF Read, SoleFor
  <2>2. CASE DecideWrite(p)
    <3>1. holder # p => seen[p].holder = Absent
      BY <2>0, <2>2 DEF DecideWrite, SoleFor, HasExpired
    <3> QED BY <2>2, <3>1 DEF DecideWrite, SoleFor
  <2>3. CASE DecideDenied(p)
    <3>1. holder # p  BY <2>0, <2>3 DEF DecideDenied, SoleFor
    <3> QED BY <2>3, <3>1 DEF DecideDenied, SoleFor
  <2>4. CASE Write(p)
    <3>1. CASE holder = p
      <4>1. write[p] = "renew" /\ Accepts(write[p])
        BY <2>0, <2>4, <3>1 DEF Write, SoleFor, Accepts
      <4> QED BY <2>4, <3>1, <4>1 DEF Write, Apply, SoleFor
    <3>2. CASE holder = Absent
      <4>1. Accepts(write[p]) /\ write[p] = "create"
        BY <2>0, <2>4, <3>2 DEF Write, SoleFor, Accepts
      <4>2. holder' = p /\ age' = timer[p] /\ write'[p] = "accepted"
        BY <2>4, <4>1 DEF Write, Apply
      <4>3. ASSUME NEW r \in Replicas, r # p PROVE SoleFor(r)'
        BY <2>4, <3>2, <4>2, <4>3 DEF Write, SoleFor
      <4>4. SoleFor(p)'  BY <2>4, <4>2 DEF Write, SoleFor
      <4> QED BY <2>4, <4>2, <4>3, <4>4 DEF Write
    <3>3. CASE holder \notin {p, Absent}
      <4>1. ~ Accepts(write[p])
        BY <2>0, <2>4, <3>3 DEF Write, SoleFor, Accepts
      <4> QED BY <2>4, <3>3, <4>1 DEF Write, Apply, SoleFor
    <3> QED BY <3>1, <3>2, <3>3
  <2>5. CASE Settle(p)
    <3>1. CASE holder = p
      <4>1. write[p] = "accepted"  BY <2>0, <2>5, <3>1 DEF Settle, SoleFor
      <4> QED BY <2>5, <3>1, <4>1 DEF Settle, SoleFor
    <3>2. CASE holder # p
      <4>1. write[p] = "rejected"  BY <2>0, <2>5, <3>2 DEF Settle, SoleFor
      <4>2. isLeader'[p] = (write[p] = "accepted")  BY <2>5, SettleFlag
      <4>3. ~ isLeader'[p]  BY <4>1, <4>2
      <4>4. \A r \in Replicas \ {p} : isLeader'[r] = isLeader[r]  BY <2>5 DEF Settle
      <4> QED BY <2>5, <3>2, <4>3, <4>4 DEF Settle, SoleFor
    <3> QED BY <3>1, <3>2
  <2>6. CASE Wake(p)  BY <2>6 DEF Wake, SoleFor
  <2>7. CASE Release(p) \/ Exit(p) \/ Restart(p)
    BY <2>0, <2>7 DEF Release, Exit, Restart, SoleFor
  <2> QED BY <1>1, <2>1, <2>2, <2>3, <2>4, <2>5, <2>6, <2>7 DEF Loop, RunLoop
<1>2. ~ \E p \in Replicas : Disturbance(p)
  BY <1>a DEF Disturbance, RequestFails, ReleaseFails, Crash, DisturbanceKinds
<1>3. ~ Environment
  BY <1>0, <1>a DEF Environment, Deliver, Lose, DeleteLease, DisturbanceKinds
<1>4. ASSUME Tick
      PROVE late' = {} /\ holder' # Nobody /\ \A r \in Replicas : SoleFor(r)'
  <2>1. late' = {} /\ holder' = holder  BY <1>0, <1>4 DEF Tick
  <2>2. ASSUME NEW r \in Replicas PROVE SoleFor(r)'
    <3>1. age' <= age + 1  BY <1>4 DEF Tick, Older
    <3>2. seen'[r].holder = seen[r].holder /\ seen'[r].age <= seen[r].age + 1
      BY <1>4 DEF Tick, Older
    <3> QED BY <1>0, <1>4, <2>1, <3>1, <3>2 DEF Tick, SoleFor
  <2> QED BY <1>0, <2>1, <2>2
<1>5. ASSUME UNCHANGED vars
      PROVE late' = {} /\ holder' # Nobody /\ \A r \in Replicas : SoleFor(r)'
  BY <1>0, <1>5 DEF vars, SoleFor
<1>6. late' = {} /\ holder' # Nobody /\ \A r \in Replicas : SoleFor(r)'
  BY <1>1, <1>2, <1>3, <1>4, <1>5 DEF Next, Step
<1> QED BY <1>6 DEF SoleInv

\* With requests short enough, no two replicas believe to lead until something
\* disturbs them: a create is arbitrated by the apiserver and a renewed lease never
\* expires.
THEOREM SoleLeader == Spec => []SoleUntilDisturbed
<1>1. Init => UndisturbedInv
  BY TimingAssumption, ReplicaAssumption
     DEF Init, UndisturbedInv, SoleInv, SoleFor, LostLimit, Attempting, Unread
<1>2. UndisturbedInv => SoleUntilDisturbed
  BY DEF UndisturbedInv, SoleInv, SoleFor, SoleUntilDisturbed, AtMostOneLeader
<1>3. CASE LatencyFits
  BY <1>1, <1>2, <1>3, SoleStep, TypeCorrect, PTL DEF Spec
<1>4. CASE ~ LatencyFits
  <2>1. SoleUntilDisturbed  BY <1>4 DEF SoleUntilDisturbed
  <2> QED BY <2>1, PTL
<1> QED BY <1>3, <1>4
=============================================================================
