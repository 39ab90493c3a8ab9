---------------------------- MODULE MetricsProofs ----------------------------
(***************************************************************************)
(* Proofs about Metrics, for any number of jobs, workers, runs and faults, *)
(* and any pace of the clock: start times are spent once, the ones of runs *)
(* that never end are swept, a duration is its own run's, the counters     *)
(* agree with the queue, and the delay of a retry is the promised one for  *)
(* every policy and every width of a Duration.                             *)
(***************************************************************************)
EXTENDS Metrics, TaskQueueProofs, FiniteSetTheorems, WellFoundedInduction

(* Leaves are Zenon's, but for those that name SMT. *)
USE Zenon

-----------------------------------------------------------------------------
(* How a job's record may go on *)

(* s may be the record of a job some time after r was: done and dead are final,
   what was issued stays so, attempts do not get fewer, and a job does not wait
   for its first attempt again. *)
Follows(r, s) ==
  /\ r = Done => s = Done
  /\ r = Dead => s = Dead
  /\ \A l \in Leases : Issued(l, r) => Issued(l, s)
  /\ s.phase = "absent" => r.phase = "absent"
  /\ s.phase = "waiting" => \/ s.attempt > 0
                            \/ r.phase = "absent"
                            \/ r.phase = "waiting" /\ r.attempt = s.attempt
  /\ s.phase \in {"waiting", "leased"} =>
       \/ r.phase = "absent"
       \/ r.phase \in {"waiting", "leased"} /\ r.attempt <= s.attempt

Advances == QueueTypeOK' /\ \A j \in Jobs : Follows(job[j], job'[j])

(* A record may stay as it is. *)
LEMMA FollowsItself ==
  ASSUME NEW r, WellFormed(r)
  PROVE  Follows(r, r)
<1>1. r.phase \in {"waiting", "leased"} => r.attempt <= r.attempt
  BY QueueAssumption, SMT DEF WellFormed
<1>2. QED
  BY <1>1 DEF Follows

(* What the records of the five phases are not. *)
LEMMA Phases ==
  /\ Absent.phase = "absent" /\ Done.phase = "done" /\ Dead.phase = "dead"
  /\ \A a : Waiting(a).phase = "waiting" /\ Waiting(a).attempt = a
  /\ \A a, w, t, e : /\ Leased(a, w, t, e).phase = "leased"
                     /\ Leased(a, w, t, e).attempt = a
                     /\ Leased(a, w, t, e).token = t
                     /\ Leased(a, w, t, e).owner = w
  BY DEF Absent, Done, Dead, Waiting, Leased

(* An enqueued job waits. *)
LEMMA FollowsAbsent ==
  ASSUME NEW r, r.phase = "absent"
  PROVE  Follows(r, Waiting(0))
<1>1. ~(\E l \in Leases : Issued(l, r)) /\ r # Done /\ r # Dead
  BY Phases DEF Issued
<1>2. QED
  BY <1>1, Phases DEF Follows

(* A waiting job is leased at the same attempt. *)
LEMMA FollowsWaiting ==
  ASSUME NEW r, WellFormed(r), r.phase = "waiting", NEW w
  PROVE  Follows(r, Leased(r.attempt, w, 1, FALSE))
<1> DEFINE s == Leased(r.attempt, w, 1, FALSE)
<1>1. s.phase = "leased" /\ s.attempt = r.attempt /\ r # Done /\ r # Dead
  BY SMT DEF Leased, Done, Dead
<1>2. r.attempt <= r.attempt
  BY QueueAssumption, SMT DEF WellFormed
<1> HIDE DEF s
<1>3. \A l \in Leases : Issued(l, r) => Issued(l, s)
  BY <1>1 DEF Issued
<1>4. Follows(r, s)
  BY <1>1, <1>2, <1>3 DEF Follows
<1>5. QED
  BY <1>4 DEF s

(* A lease is kept or handed on at the same attempt, with a higher token. *)
LEMMA FollowsLeased ==
  ASSUME NEW r, WellFormed(r), r.phase = "leased", NEW w, NEW t \in Nat, NEW e,
         r.token < t \/ (t = r.token /\ w = r.owner)
  PROVE  Follows(r, Leased(r.attempt, w, t, e))
<1> DEFINE s == Leased(r.attempt, w, t, e)
<1>1. /\ s.phase = "leased" /\ s.attempt = r.attempt /\ s.token = t /\ s.owner = w
      /\ r # Done /\ r # Dead
  BY SMT DEF Leased, Done, Dead
<1>2. r.attempt <= r.attempt /\ r.token \in Nat
  BY QueueAssumption, SMT DEF WellFormed
<1> HIDE DEF s
<1>3. ASSUME NEW l \in Leases, Issued(l, r)
      PROVE  Issued(l, s)
  <2>1. l.token \in Nat
    BY DEF Leases
  <2>2. \/ l.attempt < r.attempt
        \/ l.attempt = r.attempt /\ l.token < r.token
        \/ l.attempt = r.attempt /\ l.token = r.token /\ l.owner = r.owner
    BY <1>3 DEF Issued
  <2>3. CASE l.attempt < r.attempt
    BY <1>1, <2>3 DEF Issued
  <2>4. CASE l.attempt = r.attempt /\ l.token < r.token
    <3>1. l.token < t
      BY <1>2, <2>1, <2>4, SMT
    <3>2. QED
      BY <1>1, <2>4, <3>1 DEF Issued
  <2>5. CASE l.attempt = r.attempt /\ l.token = r.token /\ l.owner = r.owner
    BY <1>1, <2>5 DEF Issued
  <2>6. QED
    BY <2>2, <2>3, <2>4, <2>5
<1>4. Follows(r, s)
  BY <1>1, <1>2, <1>3 DEF Follows
<1>5. QED
  BY <1>4 DEF s

(* A leased job is settled: it is done or dead, or waits for the next attempt. *)
LEMMA FollowsSettled ==
  ASSUME NEW r, WellFormed(r), r.phase = "leased"
  PROVE  Follows(r, Done) /\ Follows(r, Dead) /\ Follows(r, Waiting(r.attempt + 1))
<1> DEFINE s == Waiting(r.attempt + 1)
<1>1. /\ s.phase = "waiting" /\ s.attempt = r.attempt + 1
      /\ r # Done /\ r # Dead
  BY Phases
<1>2. r.attempt <= r.attempt + 1 /\ r.attempt + 1 > 0 /\ r.attempt \in Nat
  BY QueueAssumption, SMT DEF WellFormed
<1> HIDE DEF s
<1>3. ASSUME NEW l \in Leases, Issued(l, r)
      PROVE  Issued(l, s)
  <2>1. l.attempt \in Nat
    BY QueueAssumption, SMT DEF Leases
  <2>2. l.attempt < r.attempt \/ l.attempt = r.attempt
    BY <1>3 DEF Issued
  <2>3. l.attempt < r.attempt + 1
    BY <1>2, <2>1, <2>2, SMT
  <2>4. QED
    BY <1>1, <2>3 DEF Issued
<1>4. Follows(r, s)
  BY <1>1, <1>2, <1>3 DEF Follows
<1>5. Follows(r, Done) /\ Follows(r, Dead)
  BY <1>1, Phases DEF Follows, Issued
<1>6. QED
  BY <1>4, <1>5 DEF s

(* Enqueueing a job advances it. *)
LEMMA EnqueueAdvances ==
  ASSUME QueueTypeOK, NEW js, Enqueue(js)
  PROVE  Advances
<1>1. \A j \in Jobs : Follows(job[j], job[j])
  BY FollowsItself DEF QueueTypeOK
<1>2. \A j \in Jobs : j \in js => Follows(job[j], Waiting(0))
  BY FollowsAbsent DEF Enqueue, In
<1>3. QED
  BY <1>1, <1>2, EnqueueType DEF Advances, Enqueue

(* Claiming jobs advances them. *)
LEMMA ClaimAdvances ==
  ASSUME QueueTypeOK, NEW w \in Workers, NEW js, Claim(w, js)
  PROVE  Advances
<1>1. \A j \in Jobs : Follows(job[j], job[j])
  BY FollowsItself DEF QueueTypeOK
<1>2. \A j \in Jobs : j \in js => Follows(job[j], Leased(job[j].attempt, w, 1, FALSE))
  BY FollowsWaiting DEF Claim, In, QueueTypeOK
<1>3. QED
  BY <1>1, <1>2, ClaimType DEF Advances, Claim

(* Recovering expired jobs advances them. *)
LEMMA RecoverAdvances ==
  ASSUME QueueTypeOK, NEW w \in Workers, NEW js, RecoverExpired(w, js)
  PROVE  Advances
<1>1. \A j \in Jobs : Follows(job[j], job[j])
  BY FollowsItself DEF QueueTypeOK
<1>2. ASSUME NEW j \in Jobs, j \in js
      PROVE  Follows(job[j], Leased(job[j].attempt, w, job[j].token + 1, FALSE))
  <2>1. WellFormed(job[j]) /\ job[j].phase = "leased"
    BY <1>2 DEF RecoverExpired, In, QueueTypeOK
  <2>2. job[j].token + 1 \in Nat /\ job[j].token < job[j].token + 1
    BY <2>1, SMT DEF WellFormed
  <2>3. QED
    BY <2>1, <2>2, FollowsLeased
<1>3. QED
  BY <1>1, <1>2, RecoverType DEF Advances, RecoverExpired

(* The end of a lease's term advances the job. *)
LEMMA ExpireAdvances ==
  ASSUME QueueTypeOK, NEW j \in Jobs, Expire(j)
  PROVE  Advances
<1>1. \A i \in Jobs : Follows(job[i], job[i])
  BY FollowsItself DEF QueueTypeOK
<1>2. WellFormed(job[j]) /\ job[j].phase = "leased"
  BY DEF Expire, In, QueueTypeOK
<1>3. job[j].token \in Nat
  BY <1>2, SMT DEF WellFormed
<1>4. Follows(job[j], Leased(job[j].attempt, job[j].owner, job[j].token, TRUE))
  BY <1>2, <1>3, FollowsLeased
<1>5. QED
  BY <1>1, <1>4, ExpireType DEF Advances, Expire, QueueTypeOK

(* Settling a job advances it. *)
LEMMA SettleAdvances ==
  ASSUME QueueTypeOK, NEW j \in Jobs, Ack({j}) \/ DeadLetter(j) \/ Retry(j)
  PROVE  Advances
<1>1. \A i \in Jobs : Follows(job[i], job[i])
  BY FollowsItself DEF QueueTypeOK
<1>2. WellFormed(job[j]) /\ job[j].phase = "leased"
  BY DEF Ack, DeadLetter, Retry, In, QueueTypeOK
<1>3. Follows(job[j], Done) /\ Follows(job[j], Dead) /\ Follows(job[j], Waiting(job[j].attempt + 1))
  BY <1>2, FollowsSettled
<1>4. CASE Ack({j})
  BY <1>1, <1>3, <1>4, AckType DEF Advances, Ack, QueueTypeOK
<1>5. CASE DeadLetter(j)
  BY <1>1, <1>3, <1>5, DeadLetterType DEF Advances, DeadLetter, QueueTypeOK
<1>6. CASE Retry(j)
  BY <1>1, <1>3, <1>6, RetryType DEF Advances, Retry, QueueTypeOK
<1>7. QED
  BY <1>4, <1>5, <1>6

-----------------------------------------------------------------------------
(* The retries that were counted are no more than the job's attempt. *)
LEMMA RetriesBound ==
  ASSUME TypeOK, RetriesMatchAttempt, NEW j \in Jobs, j \in In("waiting") \cup In("leased")
  PROVE  count["retried"][j] <= job[j].attempt
<1>1. Retried(j) \subseteq DOMAIN run /\ IsFiniteSet(DOMAIN run)
  BY DEF Retried, TypeOK
<1>2. Cardinality(Retried(j)) \in Nat
  BY <1>1, FS_Subset, FS_CardinalityType
<1>3. count["retried"][j] \in Nat /\ job[j].attempt \in Nat
  <2>1. job[j].attempt \in 0 .. MaxAttempts - 1
    BY FieldTypes DEF TypeOK
  <2>2. count["retried"][j] \in Nat
    BY DEF TypeOK, Counters
  <2>3. QED
    BY <2>1, <2>2, QueueAssumption, SMT
<1>4. count["retried"][j] + Cardinality(Retried(j)) <= job[j].attempt
  BY DEF RetriesMatchAttempt
<1>5. QED
  BY <1>2, <1>3, <1>4, SMT

(* Steps that count nothing and start nothing *)

(* A job whose retries, counted or about to be, stay the same or get fewer. *)
LEMMA RetriesKept ==
  ASSUME MetricsIInv, Advances, NEW j \in Jobs,
         count'["retried"][j] = count["retried"][j], Retried(j)' \subseteq Retried(j)
  PROVE  /\ job'[j].phase = "absent" => count'["retried"][j] = 0
         /\ job'[j].phase \in {"waiting", "leased"} =>
              count'["retried"][j] + Cardinality(Retried(j)') <= job'[j].attempt
<1>1. TypeOK /\ RunsWereIssued /\ RetriesMatchAttempt
  BY DEF MetricsIInv
<1>2. Follows(job[j], job'[j]) /\ WellFormed(job[j]) /\ WellFormed(job'[j])
  BY <1>1 DEF Advances, TypeOK, QueueTypeOK
<1>3. /\ job[j].phase = "absent" => count["retried"][j] = 0
      /\ job[j].phase \in {"waiting", "leased"} =>
           count["retried"][j] + Cardinality(Retried(j)) <= job[j].attempt
  BY <1>1 DEF RetriesMatchAttempt, In
<1>4. IsFiniteSet(Retried(j))
  <2>1. Retried(j) \subseteq DOMAIN run /\ IsFiniteSet(DOMAIN run)
    BY <1>1 DEF Retried, TypeOK
  <2>2. QED
    BY <2>1, FS_Subset
<1>5. /\ Cardinality(Retried(j)') <= Cardinality(Retried(j))
      /\ Cardinality(Retried(j)') \in Nat /\ Cardinality(Retried(j)) \in Nat
  BY <1>4, FS_Subset, FS_CardinalityType
<1>6. count["retried"][j] \in Nat
  BY <1>1 DEF TypeOK, Counters
<1>7. CASE job[j].phase = "absent"
  <2>1. \A l \in DOMAIN run : l.id # j
    BY <1>1, <1>7 DEF RunsWereIssued, Issued
  <2>2. Retried(j) = {}
    BY <2>1 DEF Retried
  <2>3. Cardinality(Retried(j)') = 0
    BY <2>2, FS_EmptySet
  <2>4. job'[j].phase \in {"waiting", "leased"} => job'[j].attempt \in Nat
    BY <1>2, QueueAssumption, SMT DEF WellFormed
  <2>5. QED
    BY <1>3, <1>7, <2>3, <2>4, SMT
<1>8. CASE job[j].phase # "absent"
  <2>1. /\ job'[j].phase # "absent"
        /\ job'[j].phase \in {"waiting", "leased"} =>
             job[j].phase \in {"waiting", "leased"} /\ job[j].attempt <= job'[j].attempt
    BY <1>2, <1>8 DEF Follows
  <2>2. /\ job[j].phase \in {"waiting", "leased"} => job[j].attempt \in Nat
        /\ job'[j].phase \in {"waiting", "leased"} => job'[j].attempt \in Nat
    BY <1>2, QueueAssumption, SMT DEF WellFormed
  <2>3. QED
    BY <1>3, <1>5, <1>6, <2>1, <2>2, SMT
<1>9. QED
  BY <1>7, <1>8

(* Nothing is picked up for the first time, and no first run is new. *)
LEMMA PickupsKept ==
  ASSUME MetricsIInv, Advances, UNCHANGED pickups,
         \A l \in DOMAIN run' : run'[l] = "new" /\ l.attempt = 0 /\ l.token = 1 =>
           (l \in DOMAIN run /\ run[l] = "new") \/ pickups[l.id] = 0
  PROVE  PickupWasFirst'
<1> SUFFICES ASSUME NEW j \in Jobs, pickups[j] > 0
             PROVE  /\ pickups[j] = 1
                    /\ job'[j].phase # "absent"
                    /\ job'[j].phase = "waiting" => job'[j].attempt > 0
                    /\ \A l \in DOMAIN run' :
                         l.id = j /\ l.attempt = 0 /\ l.token = 1 => run'[l] # "new"
  BY DEF PickupWasFirst
<1>1. /\ pickups[j] = 1
      /\ job[j].phase # "absent"
      /\ job[j].phase = "waiting" => job[j].attempt > 0
      /\ \A l \in DOMAIN run : l.id = j /\ l.attempt = 0 /\ l.token = 1 => run[l] # "new"
  BY DEF MetricsIInv, PickupWasFirst
<1>2. job'[j].phase # "absent" /\ (job'[j].phase = "waiting" => job'[j].attempt > 0)
  BY <1>1 DEF Advances, Follows
<1>3. pickups[j] # 0
  BY <1>1, SMT
<1>4. QED
  BY <1>1, <1>2, <1>3

(* The other parts of the invariant that speak of the queue and of runs. *)
LEMMA QuietQueue ==
  ASSUME MetricsIInv, Advances, UNCHANGED count,
         DOMAIN run' \subseteq DOMAIN run,
         \A l \in DOMAIN run' :
           run'[l] = run[l] \/ run'[l] \notin {"new", "completed", "retried", "deadLettered"}
  PROVE  RunsWereIssued' /\ OutcomesMatchQueue' /\ RetriesMatchAttempt' /\ FinalIsCountedOnce'
<1>1. TypeOK /\ RunsWereIssued /\ OutcomesMatchQueue /\ FinalIsCountedOnce
  BY DEF MetricsIInv
<1>2. \A l \in DOMAIN run : l \in Leases /\ l.id \in Jobs
  BY <1>1 DEF TypeOK, Leases
<1>3. \A j \in Jobs : Follows(job[j], job'[j])
  BY DEF Advances
<1>4. RunsWereIssued'
  BY <1>1, <1>2, <1>3 DEF RunsWereIssued, Follows
<1>5. OutcomesMatchQueue'
  <2>1. \A l \in DOMAIN run : /\ job[l.id] = Done => job'[l.id] = Done
                              /\ job[l.id] = Dead => job'[l.id] = Dead
    BY <1>2, <1>3 DEF Follows
  <2>2. ASSUME NEW l \in DOMAIN run', run'[l] \in {"completed", "deadLettered"}
        PROVE  l \in DOMAIN run /\ run[l] = run'[l]
    BY <2>2
  <2>3. \A l \in DOMAIN run' :
          /\ run'[l] = "completed" => job'[l.id] = Done /\ count'["completed"][l.id] = 0
          /\ run'[l] = "deadLettered" => job'[l.id] = Dead /\ count'["deadLettered"][l.id] = 0
    BY <1>1, <2>1, <2>2 DEF OutcomesMatchQueue
  <2>4. ASSUME NEW l \in DOMAIN run', run'[l] \in {"completed", "deadLettered"},
               NEW m \in DOMAIN run', m.id = l.id, run'[m] = run'[l]
        PROVE  m = l
    <3>1. /\ l \in DOMAIN run /\ run[l] \in {"completed", "deadLettered"}
          /\ m \in DOMAIN run /\ run[m] = run[l]
      BY <2>2, <2>4
    <3>2. QED
      BY <1>1, <2>4, <3>1 DEF OutcomesMatchQueue
  <2>5. QED
    BY <2>3, <2>4 DEF OutcomesMatchQueue
<1>6. RetriesMatchAttempt'
  <2>1. \A j \in Jobs : Retried(j)' \subseteq Retried(j)
    BY DEF Retried
  <2>2. QED
    BY <2>1, RetriesKept DEF RetriesMatchAttempt, In
<1>7. FinalIsCountedOnce'
  BY <1>1, <1>3 DEF FinalIsCountedOnce, Follows
<1>8. QED
  BY <1>4, <1>5, <1>6, <1>7

(* The parts that speak of start times. *)
LEMMA QuietStarts ==
  ASSUME MetricsIInv, now <= now', now' \in Nat, UNCHANGED <<seen, startTimes, lastSweep>>,
         DOMAIN run' \subseteq DOMAIN run,
         DOMAIN began' \subseteq DOMAIN began,
         \A l \in DOMAIN began' : began'[l] = began[l]
  PROVE  SweptAtLast' /\ RunsWereSeen' /\ StartIsOwn'
<1>1. TypeOK /\ SweptAtLast /\ RunsWereSeen /\ StartIsOwn
  BY DEF MetricsIInv
<1>2. SweptAtLast'
  BY <1>1 DEF SweptAtLast
<1>3. RunsWereSeen'
  BY <1>1 DEF RunsWereSeen, Alone, AttemptOf
<1>4. StartIsOwn'
  <2> SUFFICES ASSUME NEW l \in DOMAIN began', Alone(l)
               PROVE  IF KeyOf(l) \in DOMAIN startTimes THEN startTimes[KeyOf(l)] = began'[l]
                      ELSE now' - began'[l] > StaleAfter
    BY DEF StartIsOwn, Alone, AttemptOf, KeyOf
  <2>1. IF KeyOf(l) \in DOMAIN startTimes THEN startTimes[KeyOf(l)] = began[l]
        ELSE now - began[l] > StaleAfter
    BY <1>1 DEF StartIsOwn
  <2>2. began[l] \in Nat /\ now \in Nat /\ began'[l] = began[l]
    BY <1>1, SMT DEF TypeOK
  <2>3. CASE KeyOf(l) \in DOMAIN startTimes
    BY <2>1, <2>2, <2>3
  <2>4. CASE KeyOf(l) \notin DOMAIN startTimes
    <3>1. now - began[l] > StaleAfter
      BY <2>1, <2>4
    <3>2. now' - began'[l] > StaleAfter
      BY <2>2, <3>1, MetricsAssumption, SMT
    <3>3. QED
      BY <2>4, <3>2
  <2>5. QED
    BY <2>3, <2>4
<1>5. QED
  BY <1>2, <1>3, <1>4

(* A step that counts and starts nothing, and moves runs on or ends them. *)
LEMMA Quiet ==
  ASSUME MetricsIInv, Advances, now <= now', now' \in Nat, now' <= MaxTime,
         DOMAIN due' = Jobs, faults' \in 0 .. MaxFaults, UNCHANGED <<seen, metrics>>,
         DOMAIN run' \subseteq DOMAIN run,
         DOMAIN began' \subseteq DOMAIN began \cap DOMAIN run',
         \A l \in DOMAIN began' : began'[l] = began[l],
         \A l \in DOMAIN run' :
           run'[l] = run[l] \/ run'[l] \notin {"new", "completed", "retried", "deadLettered"}
  PROVE  MetricsIInv'
<1>1. UNCHANGED <<startTimes, lastSweep, pickups, started, durations, count>>
  BY DEF metrics
<1>2. /\ RunsWereIssued' /\ OutcomesMatchQueue' /\ RetriesMatchAttempt'
      /\ PickupWasFirst' /\ FinalIsCountedOnce'
  BY <1>1, QuietQueue, PickupsKept
<1>3. SweptAtLast' /\ RunsWereSeen' /\ StartIsOwn'
  BY <1>1, QuietStarts
<1>4. StartsAreSpentOnce'
  BY <1>1 DEF MetricsIInv, StartsAreSpentOnce
<1>5. TypeOK'
  <2>1. TypeOK
    BY DEF MetricsIInv
  <2>2. 0 .. now \subseteq 0 .. now'
    BY <2>1, SMT DEF TypeOK
  <2>3. DOMAIN run' \subseteq Leases /\ IsFiniteSet(DOMAIN run')
    BY <2>1, FS_Subset DEF TypeOK
  <2>4. QED
    BY <1>1, <2>1, <2>2, <2>3 DEF TypeOK, Advances
<1>6. QED
  BY <1>2, <1>3, <1>4, <1>5 DEF MetricsIInv

(* Whatever leaves the queue alone advances it. *)
LEMMA NothingAdvances ==
  ASSUME QueueTypeOK, UNCHANGED job
  PROVE  Advances
  BY FollowsItself DEF Advances, QueueTypeOK

(* Goto moves one run on. *)
LEMMA GotoFacts ==
  ASSUME NEW l \in DOMAIN run, NEW pc, Goto(l, pc)
  PROVE  /\ DOMAIN run' = DOMAIN run /\ run'[l] = pc
         /\ \A m \in DOMAIN run : m # l => run'[m] = run[m]
         /\ UNCHANGED <<began, seen>>
  BY DEF Goto

(* End forgets one run. *)
LEMMA EndFacts ==
  ASSUME NEW l, End(l)
  PROVE  /\ DOMAIN run' = DOMAIN run \ {l} /\ DOMAIN began' = DOMAIN began \ {l}
         /\ \A m \in DOMAIN run' : run'[m] = run[m]
         /\ \A m \in DOMAIN began' : began'[m] = began[m]
         /\ UNCHANGED seen
  BY DEF End, Without

(* A failure uses up one of those allowed. *)
LEMMA FaultFacts ==
  ASSUME MetricsIInv, Fault
  PROVE  faults' \in 0 .. MaxFaults
  BY MetricsAssumption, SMT DEF Fault, MetricsIInv, TypeOK

(* The call that settles an owned lease. *)
LEMMA CarriedFacts ==
  ASSUME MetricsIInv, NEW l \in DOMAIN run, Owns(l), Carried(l)
  PROVE  Advances /\ DOMAIN due' = Jobs
<1>1. l.id \in Jobs /\ QueueTypeOK /\ DOMAIN due = Jobs
  BY DEF MetricsIInv, TypeOK, Leases
<1>2. Ack({l.id}) \/ DeadLetter(l.id) \/ Retry(l.id)
  BY DEF Carried
<1>3. DOMAIN due' = DOMAIN due
  BY DEF Carried
<1>4. QED
  BY <1>1, <1>2, <1>3, SettleAdvances

(* Time passes. *)
LEMMA TickInv == MetricsIInv /\ Tick => MetricsIInv'
<1> SUFFICES ASSUME MetricsIInv, Tick PROVE MetricsIInv'
  OBVIOUS
<1>1. TypeOK /\ QueueTypeOK
  BY DEF MetricsIInv, TypeOK
<1>2. now <= now' /\ now' \in Nat /\ now' <= MaxTime
  BY <1>1, MetricsAssumption, SMT DEF Tick, TypeOK
<1>3. UNCHANGED <<job, due, run, began, seen, metrics, faults>>
  BY DEF Tick
<1>4. Advances
  BY <1>1, <1>3, NothingAdvances
<1>5. QED
  BY <1>1, <1>2, <1>3, <1>4, Quiet DEF TypeOK

(* What happens in the queue without this process. *)
LEMMA ElsewhereInv ==
  ASSUME MetricsIInv, Advances, DOMAIN due' = Jobs,
         UNCHANGED <<now, run, began, seen, metrics, faults>>
  PROVE  MetricsIInv'
<1>1. TypeOK
  BY DEF MetricsIInv
<1>2. now \in Nat /\ now <= now /\ now <= MaxTime
  BY <1>1, SMT DEF TypeOK
<1>3. QED
  BY <1>1, <1>2, Quiet DEF TypeOK

(* Jobs are submitted, leases expire, other processes settle theirs. *)
LEMMA QueueStepsInv ==
  ASSUME MetricsIInv, NEW j \in Jobs, Submit(j) \/ LeaseExpires(j) \/ OtherSettles(j)
  PROVE  MetricsIInv'
<1>1. QueueTypeOK /\ DOMAIN due = Jobs
  BY DEF MetricsIInv, TypeOK
<1>2. CASE Submit(j)
  <2>1. Advances
    BY <1>1, <1>2, EnqueueAdvances DEF Submit
  <2>2. QED
    BY <1>1, <1>2, <2>1, ElsewhereInv DEF Submit
<1>3. CASE LeaseExpires(j)
  <2>1. Advances
    BY <1>1, <1>3, ExpireAdvances DEF LeaseExpires
  <2>2. QED
    BY <1>1, <1>3, <2>1, ElsewhereInv DEF LeaseExpires
<1>4. CASE OtherSettles(j)
  <2>1. Advances
    BY <1>1, <1>4, SettleAdvances DEF OtherSettles
  <2>2. QED
    BY <1>1, <1>4, <2>1, ElsewhereInv DEF OtherSettles
<1>5. QED
  BY <1>2, <1>3, <1>4

(* A run goes on to a place from which nothing is counted yet. *)
LEMMA GotoInv ==
  ASSUME MetricsIInv, NEW l \in DOMAIN run, NEW pc,
         pc \notin {"new", "completed", "retried", "deadLettered"}, Goto(l, pc),
         Advances, DOMAIN due' = Jobs, faults' \in 0 .. MaxFaults, UNCHANGED <<now, metrics>>
  PROVE  MetricsIInv'
<1>1. TypeOK
  BY DEF MetricsIInv
<1>2. now \in Nat /\ now <= now /\ now <= MaxTime
  BY <1>1, SMT DEF TypeOK
<1>3. /\ DOMAIN run' = DOMAIN run /\ UNCHANGED <<began, seen>>
      /\ \A m \in DOMAIN run' :
           run'[m] = run[m] \/ run'[m] \notin {"new", "completed", "retried", "deadLettered"}
  BY GotoFacts
<1>4. DOMAIN began \subseteq DOMAIN run
  BY <1>1 DEF TypeOK
<1>5. QED
  BY <1>2, <1>3, <1>4, Quiet

(* A run ends without a callback. *)
LEMMA EndInv ==
  ASSUME MetricsIInv, NEW l \in DOMAIN run, End(l),
         Advances, DOMAIN due' = Jobs, faults' \in 0 .. MaxFaults, UNCHANGED <<now, metrics>>
  PROVE  MetricsIInv'
<1>1. TypeOK
  BY DEF MetricsIInv
<1>2. now \in Nat /\ now <= now /\ now <= MaxTime
  BY <1>1, SMT DEF TypeOK
<1>3. /\ DOMAIN run' = DOMAIN run \ {l} /\ DOMAIN began' = DOMAIN began \ {l}
      /\ \A m \in DOMAIN run' : run'[m] = run[m]
      /\ \A m \in DOMAIN began' : began'[m] = began[m]
      /\ UNCHANGED seen
  BY EndFacts
<1>4. DOMAIN began \subseteq DOMAIN run
  BY <1>1 DEF TypeOK
<1>5. DOMAIN run' \subseteq DOMAIN run /\ DOMAIN began' \subseteq DOMAIN began \cap DOMAIN run'
  BY <1>3, <1>4
<1>6. QED
  BY <1>2, <1>3, <1>5, Quiet

(* The steps of handleOne and process up to the settling call, and a settling
   call that fails. *)
LEMMA RunningInv ==
  ASSUME MetricsIInv, NEW l \in DOMAIN run,
         \/ TooMany(l) \/ Succeeds(l) \/ CutOff(l)
         \/ \E retryable \in BOOLEAN : JobFailed(l, retryable)
         \/ SettleFails(l)
  PROVE  MetricsIInv'
<1>1. QueueTypeOK /\ DOMAIN due = Jobs /\ faults \in 0 .. MaxFaults
  BY DEF MetricsIInv, TypeOK
<1>2. CASE TooMany(l) \/ Succeeds(l)
  <2>1. \E pc \in {"burying", "acking"} : Goto(l, pc)
    BY <1>2 DEF TooMany, Succeeds
  <2>2. UNCHANGED <<job, now, due, metrics, faults>>
    BY <1>2 DEF TooMany, Succeeds
  <2>3. QED
    BY <1>1, <2>1, <2>2, NothingAdvances, GotoInv
<1>3. ASSUME NEW retryable, JobFailed(l, retryable)
      PROVE  MetricsIInv'
  <2>1. \E pc \in {"burying", "retrying"} : Goto(l, pc)
    BY <1>3 DEF JobFailed
  <2>2. UNCHANGED <<job, now, due, metrics, faults>>
    BY <1>3 DEF JobFailed
  <2>3. QED
    BY <1>1, <2>1, <2>2, NothingAdvances, GotoInv
<1>4. CASE CutOff(l)
  <2>1. UNCHANGED <<job, now, due, metrics>> /\ Advances
    BY <1>1, <1>4, NothingAdvances DEF CutOff
  <2>2. CASE Goto(l, "lost") /\ UNCHANGED faults
    BY <1>1, <2>1, <2>2, GotoInv
  <2>3. CASE End(l) /\ Fault
    BY <1>1, <2>1, <2>3, FaultFacts, EndInv
  <2>4. QED
    BY <1>4, <2>2, <2>3 DEF CutOff
<1>5. CASE SettleFails(l)
  <2>1. Advances /\ DOMAIN due' = Jobs
    BY <1>1, <1>5, CarriedFacts, NothingAdvances DEF SettleFails
  <2>2. faults' \in 0 .. MaxFaults
    BY <1>5, FaultFacts DEF SettleFails
  <2>3. QED
    BY <1>5, <2>1, <2>2, EndInv DEF SettleFails
<1>6. QED
  BY <1>2, <1>3, <1>4, <1>5

-----------------------------------------------------------------------------
(* A run begins *)

(* A lease that is newer than those of all runs is handed to this process. *)
LEMMA BeginsInv ==
  ASSUME MetricsIInv, Advances, NEW l \in Leases, Issued(l, job'[l.id]),
         \A m \in DOMAIN run : m.id = l.id /\ m.attempt = l.attempt => m.token < l.token,
         l.attempt = 0 /\ l.token = 1 => pickups[l.id] = 0,
         run' = Put(run, l, "new"), seen' = [seen EXCEPT ![AttemptOf(l)] = @ + 1],
         UNCHANGED <<now, due, began, metrics, faults>>
  PROVE  MetricsIInv'
<1>1. /\ TypeOK /\ RunsWereIssued /\ OutcomesMatchQueue /\ FinalIsCountedOnce
      /\ RunsWereSeen /\ StartIsOwn
  BY DEF MetricsIInv
<1>2. UNCHANGED <<startTimes, lastSweep, pickups, started, durations, count>>
  BY DEF metrics
<1>3. \A m \in DOMAIN run : m \in Leases /\ m.id \in Jobs
  BY <1>1 DEF TypeOK, Leases
<1>4. l \notin DOMAIN run /\ \A m \in DOMAIN run : m.id = l.id /\ m.attempt = l.attempt => m.token # l.token
  <2>1. l.token \in Nat
    BY DEF Leases
  <2>2. QED
    BY <2>1, SMT
<1>5. /\ DOMAIN run' = DOMAIN run \cup {l} /\ run'[l] = "new"
      /\ \A m \in DOMAIN run : run'[m] = run[m]
  BY <1>4 DEF Put
<1>6. \A j \in Jobs : Follows(job[j], job'[j])
  BY DEF Advances
<1>7. RunsWereIssued'
  <2>1. \A m \in DOMAIN run' : Issued(m, job'[m.id])
    BY <1>1, <1>3, <1>5, <1>6 DEF RunsWereIssued, Follows
  <2>2. ASSUME NEW m \in DOMAIN run', NEW n \in DOMAIN run',
               m.id = n.id, m.attempt = n.attempt, m.token = n.token
        PROVE  m = n
    <3>1. CASE m \in DOMAIN run /\ n \in DOMAIN run
      BY <1>1, <2>2, <3>1 DEF RunsWereIssued
    <3>2. CASE m = l \/ n = l
      BY <1>4, <1>5, <2>2, <3>2
    <3>3. QED
      BY <1>5, <3>1, <3>2
  <2>3. QED
    BY <2>1, <2>2 DEF RunsWereIssued
<1>8. OutcomesMatchQueue'
  <2>1. SUFFICES ASSUME NEW m \in DOMAIN run', run'[m] \in {"completed", "deadLettered"}
                 PROVE  /\ run'[m] = "completed" => job'[m.id] = Done /\ count["completed"][m.id] = 0
                        /\ run'[m] = "deadLettered" => job'[m.id] = Dead /\ count["deadLettered"][m.id] = 0
                        /\ \A n \in DOMAIN run' : n.id = m.id /\ run'[n] = run'[m] => n = m
    BY <1>2 DEF OutcomesMatchQueue
  <2>2. m # l /\ m \in DOMAIN run /\ run'[m] = run[m] /\ m.id \in Jobs
    BY <1>3, <1>5, <2>1
  <2>3. \A n \in DOMAIN run' : run'[n] = run'[m] => n \in DOMAIN run /\ run[n] = run[m]
    BY <1>5, <2>1, <2>2
  <2>4. Follows(job[m.id], job'[m.id])
    BY <1>6, <2>2
  <2>5. QED
    BY <1>1, <2>1, <2>2, <2>3, <2>4 DEF OutcomesMatchQueue, Follows
<1>9. RetriesMatchAttempt'
  <2>1. \A j \in Jobs : Retried(j)' \subseteq Retried(j)
    BY <1>5 DEF Retried
  <2>2. QED
    BY <1>2, <2>1, RetriesKept DEF RetriesMatchAttempt, In
<1>10. PickupWasFirst'
  BY <1>2, <1>5, PickupsKept
<1>11. FinalIsCountedOnce'
  BY <1>1, <1>2, <1>6 DEF FinalIsCountedOnce, Follows
<1>12. SweptAtLast' /\ StartsAreSpentOnce'
  BY <1>2 DEF MetricsIInv, SweptAtLast, StartsAreSpentOnce
<1>13. /\ AttemptOf(l) \in Keys /\ seen[AttemptOf(l)] \in Nat
       /\ seen'[AttemptOf(l)] = seen[AttemptOf(l)] + 1
       /\ \A k \in Keys : k # AttemptOf(l) => seen'[k] = seen[k]
       /\ seen' \in [Keys -> Nat]
  <2>1. AttemptOf(l) \in Keys
    BY DEF AttemptOf, Keys, Leases
  <2>2. seen[AttemptOf(l)] \in Nat /\ seen \in [Keys -> Nat]
    BY <1>1, <2>1 DEF TypeOK
  <2>3. seen[AttemptOf(l)] + 1 \in Nat
    BY <2>2, SMT
  <2>4. QED
    BY <2>1, <2>2, <2>3
<1>14. ASSUME NEW m \in DOMAIN run
       PROVE  /\ AttemptOf(m) \in Keys /\ seen'[AttemptOf(m)] > 0
              /\ Alone(m)' => Alone(m) /\ AttemptOf(m) # AttemptOf(l)
  <2>1. AttemptOf(m) \in Keys
    BY <1>3 DEF AttemptOf, Keys, Leases
  <2>2. seen[AttemptOf(m)] > 0 /\ seen[AttemptOf(m)] \in Nat
    BY <1>1, <2>1 DEF RunsWereSeen, TypeOK
  <2>3. CASE AttemptOf(m) = AttemptOf(l)
    <3>1. seen'[AttemptOf(m)] = seen[AttemptOf(m)] + 1
      BY <1>13, <2>3
    <3>2. seen'[AttemptOf(m)] > 0 /\ seen'[AttemptOf(m)] # 1
      BY <2>2, <3>1, SMT
    <3>3. QED
      BY <2>1, <3>2 DEF Alone, AttemptOf
  <2>4. CASE AttemptOf(m) # AttemptOf(l)
    <3>1. seen'[AttemptOf(m)] = seen[AttemptOf(m)]
      BY <1>13, <2>1, <2>4
    <3>2. QED
      BY <2>1, <2>2, <2>4, <3>1 DEF Alone, AttemptOf
  <2>5. QED
    BY <2>3, <2>4
<1>15. RunsWereSeen'
  <2>1. seen'[AttemptOf(l)] > 0
    BY <1>13, SMT
  <2>2. ASSUME NEW m \in DOMAIN run, Alone(m)', NEW n \in DOMAIN run',
               m.id = n.id, m.attempt = n.attempt
        PROVE  m = n
    BY <1>1, <1>5, <1>14, <2>2 DEF RunsWereSeen, AttemptOf
  <2>3. ASSUME Alone(l)', NEW n \in DOMAIN run', l.id = n.id, l.attempt = n.attempt
        PROVE  l = n
    BY <1>5, <1>14, <2>3 DEF Alone, AttemptOf
  <2>4. QED
    BY <1>5, <1>14, <2>1, <2>2, <2>3 DEF RunsWereSeen, AttemptOf
<1>16. StartIsOwn'
  BY <1>1, <1>2, <1>14 DEF StartIsOwn, TypeOK, KeyOf
<1>17. TypeOK'
  <2>1. DOMAIN run' \subseteq Leases /\ IsFiniteSet(DOMAIN run')
    <3>1. DOMAIN run \subseteq Leases /\ IsFiniteSet(DOMAIN run)
      BY <1>1 DEF TypeOK
    <3>2. IsFiniteSet(DOMAIN run \cup {l})
      BY <3>1, FS_AddElement
    <3>3. QED
      BY <1>5, <3>1, <3>2
  <2>2. DOMAIN began \subseteq DOMAIN run'
    BY <1>1, <1>5 DEF TypeOK
  <2>3. QED
    BY <1>1, <1>2, <1>13, <2>1, <2>2 DEF TypeOK, Advances
<1>18. QED
  BY <1>7, <1>8, <1>9, <1>10, <1>11, <1>12, <1>15, <1>16, <1>17 DEF MetricsIInv

(* A worker of this process or of another is handed a lease. *)
LEMMA LeaseInv ==
  ASSUME MetricsIInv, NEW w \in Workers, NEW j \in Jobs, Lease(w, j)
  PROVE  MetricsIInv'
<1>1. TypeOK /\ QueueTypeOK /\ DOMAIN due = Jobs
  BY DEF MetricsIInv, TypeOK
<1>2. UNCHANGED <<now, due, began, metrics, faults>>
  BY DEF Lease
<1>3. Claim(w, {j}) \/ RecoverExpired(w, {j})
  BY DEF Lease
<1>4. Advances
  BY <1>1, <1>3, ClaimAdvances, RecoverAdvances
<1>5. CASE w \in Others
  BY <1>1, <1>2, <1>4, <1>5, ElsewhereInv DEF Lease, Begins
<1>6. CASE w \notin Others /\ Claim(w, {j}) /\ Begins(w, [id |-> j, attempt |-> job[j].attempt, owner |-> w, token |-> 1])
  <2> DEFINE l == [id |-> j, attempt |-> job[j].attempt, owner |-> w, token |-> 1]
  <2>1. job[j].phase = "waiting" /\ job[j].attempt \in 0 .. MaxAttempts - 1
    BY <1>1, <1>6, FieldTypes DEF Claim, In
  <2>2. l \in Leases /\ l.id = j /\ l.attempt = job[j].attempt /\ l.token = 1 /\ l.owner = w
    BY <2>1, SMT DEF Leases
  <2>3. job'[j] = Leased(job[j].attempt, w, 1, FALSE)
    BY <1>6 DEF Claim
  <2>4. Issued(l, job'[j])
    BY <2>2, <2>3, SMT DEF Issued, Leased
  <2>5. run' = Put(run, l, "new") /\ seen' = [seen EXCEPT ![AttemptOf(l)] = @ + 1]
    BY <1>6 DEF Begins
  <2> HIDE DEF l
  <2>6. \A m \in DOMAIN run : m.id = j => m.attempt < job[j].attempt
    BY <2>1 DEF MetricsIInv, RunsWereIssued, Issued
  <2>7. \A m \in DOMAIN run : m.id = l.id => m.attempt # l.attempt
    BY <2>1, <2>2, <2>6, QueueAssumption, SMT
  <2>8. l.attempt = 0 => pickups[l.id] = 0
    <3>1. pickups[j] \in Nat /\ (pickups[j] > 0 => job[j].attempt > 0)
      BY <1>1, <2>1 DEF MetricsIInv, PickupWasFirst, TypeOK
    <3>2. QED
      BY <2>2, <3>1, SMT
  <2>9. QED
    BY <1>2, <1>4, <2>2, <2>4, <2>5, <2>7, <2>8, BeginsInv
<1>7. CASE w \notin Others /\ RecoverExpired(w, {j}) /\ Begins(w, [id |-> j, attempt |-> job[j].attempt, owner |-> w, token |-> job[j].token + 1])
  <2> DEFINE l == [id |-> j, attempt |-> job[j].attempt, owner |-> w, token |-> job[j].token + 1]
  <2>1. /\ job[j].phase = "leased" /\ job[j].attempt \in 0 .. MaxAttempts - 1
        /\ job[j].token \in Nat \ {0}
    BY <1>1, <1>7, FieldTypes DEF RecoverExpired, In
  <2>2. /\ l \in Leases /\ l.id = j /\ l.attempt = job[j].attempt
        /\ l.token = job[j].token + 1 /\ l.owner = w
    BY <2>1, SMT DEF Leases
  <2>3. job'[j] = Leased(job[j].attempt, w, job[j].token + 1, FALSE)
    BY <1>7 DEF RecoverExpired
  <2>4. Issued(l, job'[j])
    BY <2>2, <2>3, SMT DEF Issued, Leased
  <2>5. run' = Put(run, l, "new") /\ seen' = [seen EXCEPT ![AttemptOf(l)] = @ + 1]
    BY <1>7 DEF Begins
  <2> HIDE DEF l
  <2>6. ASSUME NEW m \in DOMAIN run, m.id = l.id, m.attempt = l.attempt
        PROVE  m.token < l.token
    <3>1. Issued(m, job[j]) /\ m.token \in Nat /\ m.attempt \in Nat
      BY <1>1, <2>2, <2>6, QueueAssumption, SMT DEF MetricsIInv, RunsWereIssued, TypeOK, Leases
    <3>2. m.token < job[j].token \/ m.token = job[j].token
      BY <2>1, <2>2, <2>6, <3>1, SMT DEF Issued
    <3>3. QED
      BY <2>1, <2>2, <3>1, <3>2, SMT
  <2>7. l.token # 1
    BY <2>1, <2>2, SMT
  <2>8. QED
    BY <1>2, <1>4, <2>2, <2>4, <2>5, <2>6, <2>7, BeginsInv
<1>8. QED
  BY <1>5, <1>6, <1>7 DEF Lease

-----------------------------------------------------------------------------
(* A run starts *)

(* startKeys are as different as the attempts they are of. *)
LEMMA KeysDiffer ==
  ASSUME NEW l, NEW m, KeyOf(l) = KeyOf(m) \/ AttemptOf(l) = AttemptOf(m)
  PROVE  l.id = m.id /\ l.attempt = m.attempt
  BY SMT DEF KeyOf, AttemptOf

(* The starts that JobStarted keeps: those from before and the new one, or of
   these the ones that are not stale. *)
LEMMA StartedStarts ==
  ASSUME MetricsIInv, NEW l \in DOMAIN run, JobStarted(l)
  PROVE  /\ lastSweep' \in {lastSweep, now} /\ lastSweep' \in 0 .. now
         /\ DOMAIN startTimes' \subseteq DOMAIN startTimes \cup {KeyOf(l)}
         /\ \A k \in DOMAIN startTimes' :
              /\ startTimes'[k] = IF k = KeyOf(l) THEN now ELSE startTimes[k]
              /\ lastSweep' - startTimes'[k] <= StaleAfter
         /\ \A k \in DOMAIN startTimes :
              k \in DOMAIN startTimes' \/ now - startTimes[k] > StaleAfter
         /\ KeyOf(l) \in DOMAIN startTimes'
<1> DEFINE times == Put(startTimes, KeyOf(l), now)
<1>1. TypeOK /\ SweptAtLast
  BY DEF MetricsIInv
<1>2. /\ DOMAIN times = DOMAIN startTimes \cup {KeyOf(l)}
      /\ \A k \in DOMAIN times : times[k] = IF k = KeyOf(l) THEN now ELSE startTimes[k]
  BY DEF Put
<1>3. now \in Nat /\ lastSweep \in 0 .. now
  BY <1>1 DEF TypeOK
<1>4. \A k \in DOMAIN startTimes : startTimes[k] \in 0 .. now
  BY <1>1 DEF TypeOK
<1>5. now - now <= StaleAfter /\ lastSweep - now <= StaleAfter /\ now \in 0 .. now
  BY <1>3, MetricsAssumption, SMT
<1>6. \/ startTimes' = times /\ UNCHANGED lastSweep
      \/ startTimes' = Swept(times) /\ lastSweep' = now
  BY DEF JobStarted
<1> HIDE DEF times
<1>7. CASE startTimes' = times /\ UNCHANGED lastSweep
  BY <1>1, <1>2, <1>3, <1>5, <1>7 DEF SweptAtLast
<1>8. CASE startTimes' = Swept(times) /\ lastSweep' = now
  <2>1. /\ DOMAIN startTimes' = {k \in DOMAIN times : now - times[k] <= StaleAfter}
        /\ \A k \in DOMAIN startTimes' : startTimes'[k] = times[k]
    BY <1>8 DEF Swept
  <2>2. KeyOf(l) \in DOMAIN startTimes'
    BY <1>2, <1>5, <2>1
  <2>3. ASSUME NEW k \in DOMAIN startTimes
        PROVE  k \in DOMAIN startTimes' \/ now - startTimes[k] > StaleAfter
    <3>1. CASE k = KeyOf(l)
      BY <2>2, <3>1
    <3>2. CASE k # KeyOf(l)
      <4>1. times[k] = startTimes[k] /\ k \in DOMAIN times
        BY <1>2, <3>2
      <4>2. now - startTimes[k] <= StaleAfter \/ now - startTimes[k] > StaleAfter
        BY <1>3, <1>4, MetricsAssumption, SMT
      <4>3. QED
        BY <2>1, <4>1, <4>2
    <3>3. QED
      BY <3>1, <3>2
  <2>4. QED
    BY <1>2, <1>5, <1>8, <2>1, <2>2, <2>3
<1>9. QED
  BY <1>6, <1>7, <1>8

(* JobStarted observes the pickup latency once for each job. *)
LEMMA StartedPickups ==
  ASSUME MetricsIInv, NEW l \in DOMAIN run, JobStarted(l)
  PROVE  PickupWasFirst' /\ pickups' \in [Jobs -> Nat]
<1>1. TypeOK /\ RunsWereIssued /\ PickupWasFirst
  BY DEF MetricsIInv
<1>2. /\ run[l] = "new" /\ DOMAIN run' = DOMAIN run /\ run'[l] = "running"
      /\ \A m \in DOMAIN run : m # l => run'[m] = run[m]
      /\ UNCHANGED job
  BY DEF JobStarted, At
<1>3. l \in Leases /\ l.id \in Jobs /\ pickups \in [Jobs -> Nat] /\ WellFormed(job[l.id])
  BY <1>1 DEF TypeOK, Leases, QueueTypeOK
<1>4. CASE ~(l.attempt = 0 /\ l.token = 1)
  <2>1. pickups' = pickups
    BY <1>4 DEF JobStarted
  <2>2. \A m \in DOMAIN run : run'[m] = "new" => run[m] = "new"
    BY <1>2
  <2>3. QED
    BY <1>1, <1>2, <1>3, <2>1, <2>2 DEF PickupWasFirst
<1>5. CASE l.attempt = 0 /\ l.token = 1
  <2>1. pickups' = [pickups EXCEPT ![l.id] = @ + 1]
    BY <1>5 DEF JobStarted
  <2>2. pickups[l.id] = 0
    <3>1. ~(pickups[l.id] > 0) /\ pickups[l.id] \in Nat
      BY <1>1, <1>2, <1>3, <1>5 DEF PickupWasFirst
    <3>2. QED
      BY <3>1, SMT
  <2>3. pickups'[l.id] = 1 /\ pickups' \in [Jobs -> Nat]
    BY <1>3, <2>1, <2>2, SMT
  <2>4. \A j \in Jobs : j # l.id => pickups'[j] = pickups[j]
    BY <1>3, <2>1
  <2>5. Issued(l, job[l.id])
    BY <1>1 DEF RunsWereIssued
  <2>6. job[l.id].phase # "absent" /\ (job[l.id].phase = "waiting" => job[l.id].attempt > 0)
    BY <1>5, <2>5, <1>3, SMT DEF Issued, WellFormed
  <2>7. ASSUME NEW m \in DOMAIN run, m.attempt = 0, m.token = 1, run'[m] = "new"
        PROVE  m.id # l.id /\ run[m] = "new"
    BY <1>1, <1>2, <1>5, <2>7 DEF RunsWereIssued
  <2>8. ASSUME NEW j \in Jobs, pickups'[j] > 0
        PROVE  /\ pickups'[j] = 1
               /\ job'[j].phase # "absent"
               /\ job'[j].phase = "waiting" => job'[j].attempt > 0
               /\ \A m \in DOMAIN run' :
                    m.id = j /\ m.attempt = 0 /\ m.token = 1 => run'[m] # "new"
    <3>1. CASE j = l.id
      BY <1>2, <2>3, <2>6, <2>7, <3>1
    <3>2. CASE j # l.id
      BY <1>1, <1>2, <2>4, <2>7, <2>8, <3>2 DEF PickupWasFirst
    <3>3. QED
      BY <3>1, <3>2
  <2>9. QED
    BY <2>3, <2>8 DEF PickupWasFirst
<1>6. QED
  BY <1>4, <1>5

(* JobStarted. *)
LEMMA JobStartedInv ==
  ASSUME MetricsIInv, NEW l \in DOMAIN run, JobStarted(l)
  PROVE  MetricsIInv'
<1>1. TypeOK /\ RunsWereSeen /\ StartIsOwn /\ StartsAreSpentOnce
  BY DEF MetricsIInv
<1>2. /\ DOMAIN run' = DOMAIN run /\ run'[l] = "running"
      /\ \A m \in DOMAIN run : m # l => run'[m] = run[m]
      /\ started' = started + 1
      /\ UNCHANGED <<job, now, due, seen, durations, count, faults>>
  BY DEF JobStarted
<1>3. /\ DOMAIN began' = DOMAIN began \cup {l} /\ began'[l] = now
      /\ \A m \in DOMAIN began : m # l => began'[m] = began[m]
  BY DEF JobStarted, Put
<1>4. Advances
  BY <1>1, <1>2, NothingAdvances DEF TypeOK
<1>5. RunsWereIssued' /\ OutcomesMatchQueue' /\ RetriesMatchAttempt' /\ FinalIsCountedOnce'
  <2>1. \A m \in DOMAIN run' :
          run'[m] = run[m] \/ run'[m] \notin {"new", "completed", "retried", "deadLettered"}
    BY <1>2
  <2>2. QED
    BY <1>2, <1>4, <2>1, QuietQueue
<1>6. PickupWasFirst' /\ pickups' \in [Jobs -> Nat]
  BY StartedPickups
<1>7. SweptAtLast'
  BY StartedStarts DEF SweptAtLast
<1>8. RunsWereSeen'
  BY <1>1, <1>2 DEF RunsWereSeen, Alone, AttemptOf
<1>9. StartIsOwn'
  <2> SUFFICES ASSUME NEW m \in DOMAIN began', Alone(m)
               PROVE  IF KeyOf(m) \in DOMAIN startTimes' THEN startTimes'[KeyOf(m)] = began'[m]
                      ELSE now - began'[m] > StaleAfter
    BY <1>2 DEF StartIsOwn, Alone, AttemptOf, KeyOf
  <2>1. CASE m = l
    BY <1>3, <2>1, StartedStarts
  <2>2. CASE m # l
    <3>1. m \in DOMAIN began /\ m \in DOMAIN run /\ began'[m] = began[m]
      BY <1>1, <1>3, <2>2 DEF TypeOK
    <3>2. KeyOf(m) # KeyOf(l)
      BY <1>1, <2>2, <3>1, KeysDiffer DEF RunsWereSeen
    <3>3. IF KeyOf(m) \in DOMAIN startTimes THEN startTimes[KeyOf(m)] = began[m]
          ELSE now - began[m] > StaleAfter
      BY <1>1, <3>1 DEF StartIsOwn
    <3>4. QED
      BY <3>1, <3>2, <3>3, StartedStarts
  <2>3. QED
    BY <2>1, <2>2
<1>10. KeyOf(l) \in Keys
  BY <1>1 DEF TypeOK, Leases, KeyOf, Keys
<1>11. /\ IsFiniteSet(DOMAIN startTimes')
       /\ Cardinality(DOMAIN startTimes') \in Nat /\ Cardinality(DOMAIN startTimes) \in Nat
       /\ Cardinality(DOMAIN startTimes') <= Cardinality(DOMAIN startTimes) + 1
  <2>1. IsFiniteSet(DOMAIN startTimes)
    BY <1>1 DEF TypeOK
  <2>2. /\ IsFiniteSet(DOMAIN startTimes \cup {KeyOf(l)})
        /\ Cardinality(DOMAIN startTimes \cup {KeyOf(l)}) =
             IF KeyOf(l) \in DOMAIN startTimes THEN Cardinality(DOMAIN startTimes)
             ELSE Cardinality(DOMAIN startTimes) + 1
    BY <2>1, FS_AddElement
  <2>3. /\ IsFiniteSet(DOMAIN startTimes')
        /\ Cardinality(DOMAIN startTimes') <= Cardinality(DOMAIN startTimes \cup {KeyOf(l)})
    BY <2>2, StartedStarts, FS_Subset
  <2>4. Cardinality(DOMAIN startTimes') \in Nat /\ Cardinality(DOMAIN startTimes) \in Nat
    BY <2>1, <2>3, FS_CardinalityType
  <2>5. QED
    BY <2>2, <2>3, <2>4, SMT
<1>12. StartsAreSpentOnce' /\ started' \in Nat
  <2>1. started \in Nat /\ durations \in Nat /\ durations + Cardinality(DOMAIN startTimes) <= started
    BY <1>1 DEF TypeOK, StartsAreSpentOnce
  <2>2. durations' + Cardinality(DOMAIN startTimes') <= started' /\ started' \in Nat
    BY <1>2, <1>11, <2>1, SMT
  <2>3. QED
    BY <2>2 DEF StartsAreSpentOnce
<1>13. TypeOK'
  <2>1. now \in 0 .. now
    BY <1>1, SMT DEF TypeOK
  <2>2. \A k \in DOMAIN startTimes' : k \in Keys /\ startTimes'[k] \in 0 .. now
    BY <1>1, <1>10, <2>1, StartedStarts DEF TypeOK
  <2>3. DOMAIN began' \subseteq DOMAIN run' /\ \A m \in DOMAIN began' : began'[m] \in 0 .. now
    BY <1>1, <1>2, <1>3, <2>1 DEF TypeOK
  <2>4. lastSweep' \in 0 .. now
    BY StartedStarts
  <2>5. DOMAIN startTimes' \subseteq Keys
    BY <2>2
  <2>6. QED
    BY <1>1, <1>2, <1>4, <1>6, <1>11, <1>12, <2>2, <2>3, <2>4, <2>5 DEF TypeOK, Advances
<1>14. QED
  BY <1>5, <1>6, <1>7, <1>8, <1>9, <1>12, <1>13 DEF MetricsIInv

-----------------------------------------------------------------------------
(* A run settles its job *)

(* A job that is leased was not counted as done or dead, nor is it about to be. *)
LEMMA LeasedIsUncounted ==
  ASSUME MetricsIInv, NEW j \in Jobs, job[j].phase = "leased"
  PROVE  /\ count["completed"][j] = 0 /\ count["deadLettered"][j] = 0
         /\ \A m \in DOMAIN run : m.id = j => run[m] \notin {"completed", "deadLettered"}
<1>1. TypeOK /\ FinalIsCountedOnce /\ OutcomesMatchQueue
  BY DEF MetricsIInv
<1>2. job[j] # Done /\ job[j] # Dead
  BY Phases
<1>3. /\ count["completed"][j] \in Nat /\ count["deadLettered"][j] \in Nat
      /\ count["completed"][j] + count["deadLettered"][j] <= 1
      /\ count["completed"][j] # 1 /\ count["deadLettered"][j] # 1
  BY <1>1, <1>2 DEF TypeOK, Counters, FinalIsCountedOnce
<1>4. count["completed"][j] = 0 /\ count["deadLettered"][j] = 0
  BY <1>3, SMT
<1>5. QED
  BY <1>1, <1>2, <1>4 DEF OutcomesMatchQueue

(* What the settling call of an owned lease does, and where the run goes. *)
LEMMA SettleFacts ==
  ASSUME MetricsIInv, NEW l \in DOMAIN run, Owns(l), Carried(l)
  PROVE  /\ l.id \in Jobs /\ job[l.id].phase = "leased"
         /\ \/ Outcome(l) = "completed" /\ job'[l.id] = Done
            \/ /\ Outcome(l) = "retried"
               /\ job'[l.id].phase = "waiting" /\ job'[l.id].attempt = job[l.id].attempt + 1
            \/ Outcome(l) = "deadLettered" /\ job'[l.id] = Dead
<1>1. l.id \in Jobs /\ job[l.id].phase = "leased"
  BY DEF Owns, In
<1>2. \A j \in Jobs : j \in DOMAIN job
  BY DEF MetricsIInv, TypeOK, QueueTypeOK
<1>3. CASE At(l, "acking") /\ Ack({l.id})
  <2>1. Outcome(l) = "completed"
    BY <1>3 DEF Outcome, At
  <2>2. QED
    BY <1>1, <1>3, <2>1 DEF Ack
<1>4. CASE At(l, "retrying") /\ Retry(l.id)
  <2>1. Outcome(l) = "retried"
    BY <1>4 DEF Outcome, At
  <2>2. job'[l.id] = Waiting(job[l.id].attempt + 1)
    BY <1>1, <1>2, <1>4 DEF Retry
  <2>3. job'[l.id].phase = "waiting" /\ job'[l.id].attempt = job[l.id].attempt + 1
    BY <2>2, SMT DEF Waiting
  <2>4. QED
    BY <1>1, <2>1, <2>3
<1>5. CASE At(l, "burying") /\ DeadLetter(l.id)
  <2>1. Outcome(l) = "deadLettered"
    BY <1>5 DEF Outcome, At
  <2>2. QED
    BY <1>1, <1>2, <1>5, <2>1 DEF DeadLetter
<1>6. QED
  BY <1>3, <1>4, <1>5 DEF Carried

(* The settling call is carried out, and its callback is still to come. *)
LEMMA CarriedInv ==
  ASSUME MetricsIInv, NEW l \in DOMAIN run, Owns(l), Carried(l), Goto(l, Outcome(l)),
         UNCHANGED <<now, metrics, faults>>
  PROVE  MetricsIInv'
<1>1. TypeOK /\ RunsWereIssued /\ OutcomesMatchQueue /\ FinalIsCountedOnce /\ RetriesMatchAttempt
  BY DEF MetricsIInv
<1>2. UNCHANGED <<startTimes, lastSweep, pickups, started, durations, count>>
  BY DEF metrics
<1>3. /\ DOMAIN run' = DOMAIN run /\ run'[l] = Outcome(l)
      /\ \A m \in DOMAIN run : m # l => run'[m] = run[m]
      /\ UNCHANGED <<began, seen>>
  BY GotoFacts
<1>4. Advances /\ DOMAIN due' = Jobs
  BY CarriedFacts
<1>5. \A m \in DOMAIN run : m.id \in Jobs /\ Follows(job[m.id], job'[m.id])
  BY <1>1, <1>4 DEF TypeOK, Leases, Advances
<1>6. RunsWereIssued'
  <2>1. \A m \in DOMAIN run : m \in Leases
    BY <1>1 DEF TypeOK
  <2>2. QED
    BY <1>1, <1>3, <1>5, <2>1 DEF RunsWereIssued, Follows
<1>7. /\ count["completed"][l.id] = 0 /\ count["deadLettered"][l.id] = 0
      /\ \A m \in DOMAIN run : m.id = l.id => run[m] \notin {"completed", "deadLettered"}
  BY SettleFacts, LeasedIsUncounted
<1>8. OutcomesMatchQueue'
  <2>1. ASSUME NEW m \in DOMAIN run, m # l, run'[m] \in {"completed", "deadLettered"}
        PROVE  /\ run'[m] = "completed" => job'[m.id] = Done /\ count["completed"][m.id] = 0
               /\ run'[m] = "deadLettered" => job'[m.id] = Dead /\ count["deadLettered"][m.id] = 0
               /\ \A n \in DOMAIN run : n.id = m.id /\ run'[n] = run'[m] => n = m
    <3>1. run'[m] = run[m] /\ m.id # l.id
      BY <1>3, <1>7, <2>1
    <3>2. \A n \in DOMAIN run : n.id = m.id => run'[n] = run[n]
      BY <1>3, <3>1
    <3>3. QED
      BY <1>1, <1>5, <2>1, <3>1, <3>2 DEF OutcomesMatchQueue, Follows
  <2>2. /\ run'[l] = "completed" => job'[l.id] = Done /\ count["completed"][l.id] = 0
        /\ run'[l] = "deadLettered" => job'[l.id] = Dead /\ count["deadLettered"][l.id] = 0
    BY <1>3, <1>7, SettleFacts
  <2>3. run'[l] \in {"completed", "deadLettered"} =>
          \A n \in DOMAIN run : n.id = l.id /\ run'[n] = run'[l] => n = l
    BY <1>3, <1>7
  <2>4. QED
    BY <1>2, <1>3, <2>1, <2>2, <2>3 DEF OutcomesMatchQueue
<1>9. RetriesMatchAttempt'
  <2>1. ASSUME NEW j \in Jobs, Retried(j)' \subseteq Retried(j)
        PROVE  /\ job'[j].phase = "absent" => count'["retried"][j] = 0
               /\ job'[j].phase \in {"waiting", "leased"} =>
                    count'["retried"][j] + Cardinality(Retried(j)') <= job'[j].attempt
    BY <1>2, <1>4, <2>1, RetriesKept
  <2>2. ASSUME NEW j \in Jobs, ~(Retried(j)' \subseteq Retried(j))
        PROVE  /\ job'[j].phase = "absent" => count'["retried"][j] = 0
               /\ job'[j].phase \in {"waiting", "leased"} =>
                    count'["retried"][j] + Cardinality(Retried(j)') <= job'[j].attempt
    <3>1. j = l.id /\ Outcome(l) = "retried"
      BY <1>3, <2>2 DEF Retried
    <3>2. /\ job'[j].phase = "waiting" /\ job'[j].attempt = job[j].attempt + 1
          /\ job[j].phase = "leased"
      BY <3>1, SettleFacts
    <3>3. Retried(j)' \subseteq Retried(j) \cup {l}
      BY <1>3 DEF Retried
    <3>4. IsFiniteSet(Retried(j))
      <4>1. Retried(j) \subseteq DOMAIN run /\ IsFiniteSet(DOMAIN run)
        BY <1>1 DEF Retried, TypeOK
      <4>2. QED
        BY <4>1, FS_Subset
    <3>5. /\ IsFiniteSet(Retried(j) \cup {l})
          /\ Cardinality(Retried(j) \cup {l}) =
               IF l \in Retried(j) THEN Cardinality(Retried(j)) ELSE Cardinality(Retried(j)) + 1
      BY <3>4, FS_AddElement
    <3>6. /\ Cardinality(Retried(j)') <= Cardinality(Retried(j) \cup {l})
          /\ Cardinality(Retried(j)') \in Nat /\ Cardinality(Retried(j)) \in Nat
      BY <3>3, <3>4, <3>5, FS_Subset, FS_CardinalityType
    <3>7. count["retried"][j] + Cardinality(Retried(j)) <= job[j].attempt
      BY <1>1, <3>2 DEF RetriesMatchAttempt, In
    <3>8. count["retried"][j] \in Nat /\ job[j].attempt \in Nat
      <4>1. count["retried"][j] \in Nat /\ WellFormed(job[j])
        BY <1>1 DEF TypeOK, Counters, QueueTypeOK
      <4>2. QED
        BY <3>2, <4>1, QueueAssumption, SMT DEF WellFormed
    <3>9. count["retried"][j] + Cardinality(Retried(j)') <= job[j].attempt + 1
      BY <3>5, <3>6, <3>7, <3>8, SMT
    <3>10. QED
      BY <1>2, <3>2, <3>9
  <2>3. QED
    BY <2>1, <2>2 DEF RetriesMatchAttempt, In
<1>10. PickupWasFirst'
  <2>1. Outcome(l) # "new"
    BY SettleFacts
  <2>2. QED
    BY <1>2, <1>3, <1>4, <2>1, PickupsKept
<1>11. FinalIsCountedOnce'
  BY <1>1, <1>2, <1>4 DEF FinalIsCountedOnce, Follows, Advances
<1>12. StartsAreSpentOnce'
  BY <1>2 DEF MetricsIInv, StartsAreSpentOnce
<1>13. SweptAtLast' /\ RunsWereSeen' /\ StartIsOwn'
  <2>1. now \in Nat /\ now <= now
    BY <1>1, SMT DEF TypeOK
  <2>2. QED
    BY <1>2, <1>3, <2>1, QuietStarts
<1>14. TypeOK'
  BY <1>1, <1>2, <1>3, <1>4 DEF TypeOK, Advances
<1>15. QED
  BY <1>6, <1>8, <1>9, <1>10, <1>11, <1>12, <1>13, <1>14 DEF MetricsIInv

(* The settling call returns. *)
LEMMA SettleInv ==
  ASSUME MetricsIInv, NEW l \in DOMAIN run, Settle(l)
  PROVE  MetricsIInv'
<1>1. QueueTypeOK /\ DOMAIN due = Jobs /\ faults \in 0 .. MaxFaults
  BY DEF MetricsIInv, TypeOK
<1>2. UNCHANGED <<now, metrics, faults>>
  BY DEF Settle
<1>3. CASE Owns(l)
  <2>1. Carried(l) /\ Goto(l, Outcome(l))
    BY <1>3 DEF Settle
  <2>2. QED
    BY <1>2, <1>3, <2>1, CarriedInv
<1>4. CASE ~Owns(l)
  <2>1. UNCHANGED <<job, due>> /\ Goto(l, "lost")
    BY <1>4 DEF Settle
  <2>2. QED
    BY <1>1, <1>2, <2>1, NothingAdvances, GotoInv
<1>5. QED
  BY <1>3, <1>4

-----------------------------------------------------------------------------
(* A run ends with a callback *)

(* The callback deletes the run's start: only this run may have needed it. *)
LEMMA StartDeleted ==
  ASSUME MetricsIInv, NEW l \in DOMAIN run, End(l),
         startTimes' = Without(startTimes, KeyOf(l)), UNCHANGED <<now, lastSweep>>
  PROVE  /\ SweptAtLast' /\ RunsWereSeen' /\ StartIsOwn'
         /\ DOMAIN startTimes' \subseteq Keys /\ IsFiniteSet(DOMAIN startTimes')
         /\ \A k \in DOMAIN startTimes' : startTimes'[k] \in 0 .. now
         /\ Cardinality(DOMAIN startTimes') \in Nat /\ Cardinality(DOMAIN startTimes) \in Nat
         /\ Cardinality(DOMAIN startTimes) =
              Cardinality(DOMAIN startTimes') + Cardinality({KeyOf(l)} \cap DOMAIN startTimes)
         /\ Cardinality({KeyOf(l)} \cap DOMAIN startTimes) \in {0, 1}
<1>1. TypeOK /\ SweptAtLast /\ RunsWereSeen /\ StartIsOwn
  BY DEF MetricsIInv
<1>2. /\ DOMAIN startTimes' = DOMAIN startTimes \ {KeyOf(l)}
      /\ \A k \in DOMAIN startTimes' : startTimes'[k] = startTimes[k]
  BY DEF Without
<1>3. /\ DOMAIN run' = DOMAIN run \ {l} /\ DOMAIN began' = DOMAIN began \ {l}
      /\ \A m \in DOMAIN began' : began'[m] = began[m]
      /\ UNCHANGED seen
  BY EndFacts
<1>4. SweptAtLast'
  BY <1>1, <1>2 DEF SweptAtLast
<1>5. RunsWereSeen'
  BY <1>1, <1>3 DEF RunsWereSeen, Alone, AttemptOf
<1>6. StartIsOwn'
  <2> SUFFICES ASSUME NEW m \in DOMAIN began', Alone(m)
               PROVE  IF KeyOf(m) \in DOMAIN startTimes' THEN startTimes'[KeyOf(m)] = began'[m]
                      ELSE now - began'[m] > StaleAfter
    BY <1>3 DEF StartIsOwn, Alone, AttemptOf, KeyOf
  <2>1. m \in DOMAIN began /\ m \in DOMAIN run /\ m # l /\ began'[m] = began[m]
    BY <1>1, <1>3 DEF TypeOK
  <2>2. KeyOf(m) # KeyOf(l)
    BY <1>1, <2>1, KeysDiffer DEF RunsWereSeen
  <2>3. QED
    BY <1>1, <1>2, <2>1, <2>2 DEF StartIsOwn
<1>7. IsFiniteSet(DOMAIN startTimes)
  BY <1>1 DEF TypeOK
<1>8. /\ IsFiniteSet(DOMAIN startTimes \ {KeyOf(l)})
      /\ Cardinality(DOMAIN startTimes \ {KeyOf(l)}) =
           IF KeyOf(l) \in DOMAIN startTimes THEN Cardinality(DOMAIN startTimes) - 1
           ELSE Cardinality(DOMAIN startTimes)
  BY <1>7, FS_RemoveElement
<1>9. Cardinality(DOMAIN startTimes') \in Nat /\ Cardinality(DOMAIN startTimes) \in Nat
  BY <1>2, <1>7, <1>8, FS_CardinalityType
<1>10. Cardinality({KeyOf(l)} \cap DOMAIN startTimes) =
         IF KeyOf(l) \in DOMAIN startTimes THEN 1 ELSE 0
  <2>1. {KeyOf(l)} \cap DOMAIN startTimes =
          IF KeyOf(l) \in DOMAIN startTimes THEN {KeyOf(l)} ELSE {}
    OBVIOUS
  <2>2. QED
    BY <2>1, FS_Singleton, FS_EmptySet
<1>11. Cardinality(DOMAIN startTimes) =
         Cardinality(DOMAIN startTimes') + Cardinality({KeyOf(l)} \cap DOMAIN startTimes)
  <2>1. CASE KeyOf(l) \in DOMAIN startTimes
    <3>1. /\ Cardinality(DOMAIN startTimes') = Cardinality(DOMAIN startTimes) - 1
          /\ Cardinality({KeyOf(l)} \cap DOMAIN startTimes) = 1
      BY <1>2, <1>8, <1>10, <2>1
    <3>2. QED
      BY <1>9, <3>1, SMT
  <2>2. CASE KeyOf(l) \notin DOMAIN startTimes
    <3>1. /\ Cardinality(DOMAIN startTimes') = Cardinality(DOMAIN startTimes)
          /\ Cardinality({KeyOf(l)} \cap DOMAIN startTimes) = 0
      BY <1>2, <1>8, <1>10, <2>2
    <3>2. QED
      BY <1>9, <3>1, SMT
  <2>3. QED
    BY <2>1, <2>2
<1>12. QED
  BY <1>1, <1>2, <1>4, <1>5, <1>6, <1>8, <1>9, <1>10, <1>11 DEF TypeOK

(* JobLeaseLost. *)
LEMMA JobLeaseLostInv ==
  ASSUME MetricsIInv, NEW l \in DOMAIN run, JobLeaseLost(l)
  PROVE  MetricsIInv'
<1>1. TypeOK /\ StartsAreSpentOnce
  BY DEF MetricsIInv
<1>2. /\ startTimes' = Without(startTimes, KeyOf(l)) /\ End(l)
      /\ UNCHANGED <<job, now, due, lastSweep, pickups, started, durations, count, faults>>
  BY DEF JobLeaseLost
<1>3. /\ DOMAIN run' = DOMAIN run \ {l} /\ DOMAIN began' = DOMAIN began \ {l}
      /\ \A m \in DOMAIN run' : run'[m] = run[m]
      /\ \A m \in DOMAIN began' : began'[m] = began[m]
      /\ UNCHANGED seen
  BY <1>2, EndFacts
<1>4. Advances
  BY <1>1, <1>2, NothingAdvances DEF TypeOK
<1>5. /\ RunsWereIssued' /\ OutcomesMatchQueue' /\ RetriesMatchAttempt'
      /\ FinalIsCountedOnce' /\ PickupWasFirst'
  BY <1>2, <1>3, <1>4, QuietQueue, PickupsKept
<1>6. /\ SweptAtLast' /\ RunsWereSeen' /\ StartIsOwn'
      /\ DOMAIN startTimes' \subseteq Keys /\ IsFiniteSet(DOMAIN startTimes')
      /\ \A k \in DOMAIN startTimes' : startTimes'[k] \in 0 .. now
      /\ Cardinality(DOMAIN startTimes') \in Nat /\ Cardinality(DOMAIN startTimes) \in Nat
      /\ Cardinality(DOMAIN startTimes) =
           Cardinality(DOMAIN startTimes') + Cardinality({KeyOf(l)} \cap DOMAIN startTimes)
      /\ Cardinality({KeyOf(l)} \cap DOMAIN startTimes) \in {0, 1}
  BY <1>2, StartDeleted
<1>7. StartsAreSpentOnce'
  <2>1. started \in Nat /\ durations \in Nat /\ durations + Cardinality(DOMAIN startTimes) <= started
    BY <1>1 DEF TypeOK, StartsAreSpentOnce
  <2>2. durations + Cardinality(DOMAIN startTimes') <= started
    BY <1>6, <2>1, SMT
  <2>3. QED
    BY <1>2, <2>2 DEF StartsAreSpentOnce
<1>8. TypeOK'
  <2>1. DOMAIN run' \subseteq Leases /\ IsFiniteSet(DOMAIN run') /\ DOMAIN began' \subseteq DOMAIN run'
    BY <1>1, <1>3, FS_Subset DEF TypeOK
  <2>2. QED
    BY <1>1, <1>2, <1>3, <1>4, <1>6, <2>1 DEF TypeOK, Advances
<1>9. QED
  BY <1>5, <1>6, <1>7, <1>8 DEF MetricsIInv

(* Inc adds one to one counter of one job. *)
LEMMA IncFacts ==
  ASSUME TypeOK, NEW l \in DOMAIN run, NEW c \in Counters, Inc(c, l)
  PROVE  /\ count' \in [Counters -> [Jobs -> Nat]]
         /\ count'[c][l.id] = count[c][l.id] + 1
         /\ \A d \in Counters, j \in Jobs : d # c \/ j # l.id => count'[d][j] = count[d][j]
<1>1. l.id \in Jobs /\ count \in [Counters -> [Jobs -> Nat]]
  BY DEF TypeOK, Leases
<1>2. count' = [count EXCEPT ![c] = [count[c] EXCEPT ![l.id] = count[c][l.id] + 1]]
  BY DEF Inc
<1>3. count[c][l.id] + 1 \in Nat
  BY <1>1, SMT
<1>4. [count[c] EXCEPT ![l.id] = count[c][l.id] + 1] \in [Jobs -> Nat]
  BY <1>1, <1>3
<1>5. QED
  BY <1>1, <1>2, <1>4

(* JobCompleted, JobRetried and JobDeadLettered count what the queue did. *)
LEMMA SettledCounts ==
  ASSUME MetricsIInv, NEW l \in DOMAIN run, Settled(l)
  PROVE  OutcomesMatchQueue' /\ RetriesMatchAttempt' /\ FinalIsCountedOnce'
<1>1. TypeOK /\ RunsWereIssued /\ OutcomesMatchQueue /\ RetriesMatchAttempt /\ FinalIsCountedOnce
  BY DEF MetricsIInv
<1>2. run[l] \in Counters /\ Inc(run[l], l) /\ End(l) /\ UNCHANGED job
  BY DEF Settled, HasSettled, Counters
<1>3. /\ count' \in [Counters -> [Jobs -> Nat]]
      /\ count'[run[l]][l.id] = count[run[l]][l.id] + 1
      /\ \A d \in Counters, j \in Jobs : d # run[l] \/ j # l.id => count'[d][j] = count[d][j]
  BY <1>1, <1>2, IncFacts
<1>4. DOMAIN run' = DOMAIN run \ {l} /\ \A m \in DOMAIN run' : run'[m] = run[m]
  BY <1>2, EndFacts
<1>5. \A m \in DOMAIN run : m.id \in Jobs
  BY <1>1 DEF TypeOK, Leases
<1>6. OutcomesMatchQueue'
  <2>1. ASSUME NEW m \in DOMAIN run', run[m] \in {"completed", "deadLettered"}
        PROVE  count'[run[m]][m.id] = count[run[m]][m.id]
    <3>1. m \in DOMAIN run /\ m # l /\ m.id \in Jobs /\ run[m] \in Counters
      BY <1>4, <1>5, <2>1 DEF Counters
    <3>2. run[m] # run[l] \/ m.id # l.id
      BY <1>1, <2>1, <3>1 DEF OutcomesMatchQueue
    <3>3. QED
      BY <1>3, <3>1, <3>2
  <2>2. ASSUME NEW m \in DOMAIN run'
        PROVE  /\ run'[m] = "completed" => job'[m.id] = Done /\ count'["completed"][m.id] = 0
               /\ run'[m] = "deadLettered" => job'[m.id] = Dead /\ count'["deadLettered"][m.id] = 0
               /\ run'[m] \in {"completed", "deadLettered"} =>
                    \A n \in DOMAIN run' : n.id = m.id /\ run'[n] = run'[m] => n = m
    <3>1. m \in DOMAIN run /\ run'[m] = run[m] /\ job'[m.id] = job[m.id]
      BY <1>2, <1>4
    <3>2. /\ run[m] = "completed" => job[m.id] = Done /\ count["completed"][m.id] = 0
          /\ run[m] = "deadLettered" => job[m.id] = Dead /\ count["deadLettered"][m.id] = 0
          /\ run[m] \in {"completed", "deadLettered"} =>
               \A n \in DOMAIN run : n.id = m.id /\ run[n] = run[m] => n = m
      BY <1>1, <3>1 DEF OutcomesMatchQueue
    <3>3. CASE run[m] = "completed"
      BY <1>4, <2>1, <3>1, <3>2, <3>3
    <3>4. CASE run[m] = "deadLettered"
      BY <1>4, <2>1, <3>1, <3>2, <3>4
    <3>5. QED
      BY <3>1, <3>3, <3>4
  <2>3. QED
    BY <2>2 DEF OutcomesMatchQueue
<1>7. RetriesMatchAttempt'
  <2>1. Advances
    BY <1>1, <1>2, NothingAdvances DEF TypeOK
  <2>2. ASSUME NEW j \in Jobs, j # l.id \/ run[l] # "retried"
        PROVE  /\ job'[j].phase = "absent" => count'["retried"][j] = 0
               /\ job'[j].phase \in {"waiting", "leased"} =>
                    count'["retried"][j] + Cardinality(Retried(j)') <= job'[j].attempt
    <3>1. count'["retried"][j] = count["retried"][j]
      BY <1>3, <2>2 DEF Counters
    <3>2. Retried(j)' \subseteq Retried(j)
      BY <1>4 DEF Retried
    <3>3. QED
      BY <2>1, <3>1, <3>2, RetriesKept
  <2>3. ASSUME run[l] = "retried"
        PROVE  LET j == l.id
               IN  /\ job'[j].phase = "absent" => count'["retried"][j] = 0
                   /\ job'[j].phase \in {"waiting", "leased"} =>
                        count'["retried"][j] + Cardinality(Retried(j)') <= job'[j].attempt
    <3> DEFINE j == l.id
    <3>1. j \in Jobs /\ job'[j] = job[j] /\ job[j].phase # "absent"
      BY <1>1, <1>2, <1>5 DEF RunsWereIssued, Issued
    <3>2. l \in Retried(j) /\ Retried(j)' = Retried(j) \ {l}
      BY <1>4, <2>3 DEF Retried
    <3>3. IsFiniteSet(Retried(j))
      <4>1. Retried(j) \subseteq DOMAIN run /\ IsFiniteSet(DOMAIN run)
        BY <1>1 DEF Retried, TypeOK
      <4>2. QED
        BY <4>1, FS_Subset
    <3>4. Cardinality(Retried(j)') = Cardinality(Retried(j)) - 1 /\ Cardinality(Retried(j)) \in Nat
      BY <3>2, <3>3, FS_RemoveElement, FS_CardinalityType
    <3>5. count'["retried"][j] = count["retried"][j] + 1 /\ count["retried"][j] \in Nat
      BY <1>1, <1>3, <2>3, <3>1 DEF TypeOK, Counters
    <3>6. count'["retried"][j] + Cardinality(Retried(j)') = count["retried"][j] + Cardinality(Retried(j))
      BY <3>4, <3>5, SMT
    <3>7. job[j].phase \in {"waiting", "leased"} =>
            count["retried"][j] + Cardinality(Retried(j)) <= job[j].attempt
      BY <1>1, <3>1 DEF RetriesMatchAttempt, In
    <3>8. QED
      BY <3>1, <3>6, <3>7
  <2>4. QED
    BY <2>2, <2>3 DEF RetriesMatchAttempt, In
<1>8. FinalIsCountedOnce'
  <2> SUFFICES ASSUME NEW j \in Jobs
               PROVE  /\ count'["completed"][j] + count'["deadLettered"][j] <= 1
                      /\ count'["completed"][j] = 1 => job[j] = Done
                      /\ count'["deadLettered"][j] = 1 => job[j] = Dead
    BY <1>2 DEF FinalIsCountedOnce
  <2>1. /\ count["completed"][j] + count["deadLettered"][j] <= 1
        /\ count["completed"][j] = 1 => job[j] = Done
        /\ count["deadLettered"][j] = 1 => job[j] = Dead
        /\ count["completed"][j] \in Nat /\ count["deadLettered"][j] \in Nat
    BY <1>1 DEF FinalIsCountedOnce, TypeOK, Counters
  <2>2. Done # Dead
    BY SMT DEF Done, Dead
  <2>3. CASE j # l.id \/ run[l] = "retried"
    BY <1>3, <2>1, <2>3 DEF Counters
  <2>4. CASE j = l.id /\ run[l] = "completed"
    <3>1. job[j] = Done /\ count["completed"][j] = 0
      BY <1>1, <2>4 DEF OutcomesMatchQueue
    <3>2. /\ count'["completed"][j] = count["completed"][j] + 1
          /\ count'["deadLettered"][j] = count["deadLettered"][j]
      BY <1>3, <2>4 DEF Counters
    <3>3. count["deadLettered"][j] # 1
      BY <2>1, <2>2, <3>1
    <3>4. count'["completed"][j] + count'["deadLettered"][j] <= 1 /\ count'["deadLettered"][j] # 1
      BY <2>1, <3>1, <3>2, <3>3, SMT
    <3>5. QED
      BY <3>1, <3>4
  <2>5. CASE j = l.id /\ run[l] = "deadLettered"
    <3>1. job[j] = Dead /\ count["deadLettered"][j] = 0
      BY <1>1, <2>5 DEF OutcomesMatchQueue
    <3>2. /\ count'["deadLettered"][j] = count["deadLettered"][j] + 1
          /\ count'["completed"][j] = count["completed"][j]
      BY <1>3, <2>5 DEF Counters
    <3>3. count["completed"][j] # 1
      BY <2>1, <2>2, <3>1
    <3>4. count'["completed"][j] + count'["deadLettered"][j] <= 1 /\ count'["completed"][j] # 1
      BY <2>1, <3>1, <3>2, <3>3, SMT
    <3>5. QED
      BY <3>1, <3>4
  <2>6. QED
    BY <1>2, <2>3, <2>4, <2>5 DEF Counters
<1>9. QED
  BY <1>6, <1>7, <1>8

(* JobCompleted, JobRetried and JobDeadLettered. *)
LEMMA SettledInv ==
  ASSUME MetricsIInv, NEW l \in DOMAIN run, Settled(l)
  PROVE  MetricsIInv'
<1>1. TypeOK /\ RunsWereIssued /\ StartsAreSpentOnce
  BY DEF MetricsIInv
<1>2. /\ startTimes' = Without(startTimes, KeyOf(l)) /\ End(l)
      /\ durations' = durations + Cardinality({KeyOf(l)} \cap DOMAIN startTimes)
      /\ run[l] \in Counters /\ Inc(run[l], l)
      /\ UNCHANGED <<job, now, due, lastSweep, pickups, started, faults>>
  BY DEF Settled, ObserveDuration, HasSettled, Counters
<1>3. /\ DOMAIN run' = DOMAIN run \ {l} /\ DOMAIN began' = DOMAIN began \ {l}
      /\ \A m \in DOMAIN run' : run'[m] = run[m]
      /\ \A m \in DOMAIN began' : began'[m] = began[m]
      /\ UNCHANGED seen
  BY <1>2, EndFacts
<1>4. Advances
  BY <1>1, <1>2, NothingAdvances DEF TypeOK
<1>5. OutcomesMatchQueue' /\ RetriesMatchAttempt' /\ FinalIsCountedOnce'
  BY SettledCounts
<1>6. PickupWasFirst'
  BY <1>2, <1>3, <1>4, PickupsKept
<1>7. RunsWereIssued'
  BY <1>1, <1>2, <1>3 DEF RunsWereIssued
<1>8. /\ SweptAtLast' /\ RunsWereSeen' /\ StartIsOwn'
      /\ DOMAIN startTimes' \subseteq Keys /\ IsFiniteSet(DOMAIN startTimes')
      /\ \A k \in DOMAIN startTimes' : startTimes'[k] \in 0 .. now
      /\ Cardinality(DOMAIN startTimes') \in Nat /\ Cardinality(DOMAIN startTimes) \in Nat
      /\ Cardinality(DOMAIN startTimes) =
           Cardinality(DOMAIN startTimes') + Cardinality({KeyOf(l)} \cap DOMAIN startTimes)
      /\ Cardinality({KeyOf(l)} \cap DOMAIN startTimes) \in {0, 1}
  BY <1>2, StartDeleted
<1>9. StartsAreSpentOnce' /\ durations' \in Nat
  <2>1. started \in Nat /\ durations \in Nat /\ durations + Cardinality(DOMAIN startTimes) <= started
    BY <1>1 DEF TypeOK, StartsAreSpentOnce
  <2>2. durations' + Cardinality(DOMAIN startTimes') <= started /\ durations' \in Nat
    BY <1>2, <1>8, <2>1, SMT
  <2>3. QED
    BY <1>2, <2>2 DEF StartsAreSpentOnce
<1>10. TypeOK'
  <2>1. DOMAIN run' \subseteq Leases /\ IsFiniteSet(DOMAIN run') /\ DOMAIN began' \subseteq DOMAIN run'
    BY <1>1, <1>3, FS_Subset DEF TypeOK
  <2>2. count' \in [Counters -> [Jobs -> Nat]]
    BY <1>1, <1>2, IncFacts
  <2>3. QED
    BY <1>1, <1>2, <1>3, <1>4, <1>8, <1>9, <2>1, <2>2 DEF TypeOK, Advances
<1>11. QED
  BY <1>5, <1>6, <1>7, <1>8, <1>9, <1>10 DEF MetricsIInv

-----------------------------------------------------------------------------
(* The theorems *)

(* The invariant holds when the process comes up. *)
LEMMA InitInv == Init => MetricsIInv
<1> SUFFICES ASSUME Init PROVE MetricsIInv
  OBVIOUS
<1>1. DOMAIN run = {} /\ DOMAIN began = {} /\ DOMAIN startTimes = {}
  BY SMT DEF Init
<1>2. /\ now = 0 /\ lastSweep = 0 /\ started = 0 /\ durations = 0 /\ faults = MaxFaults
      /\ due = [j \in Jobs |-> 0] /\ seen = [k \in Keys |-> 0] /\ pickups = [j \in Jobs |-> 0]
      /\ count = [c \in Counters |-> [j \in Jobs |-> 0]]
      /\ job = [j \in Jobs |-> Absent]
  BY DEF Init, QueueInit
<1>3. /\ 0 \in Nat /\ 0 <= MaxTime /\ 0 \in 0 .. 0 /\ MaxFaults \in 0 .. MaxFaults
      /\ ~(0 > 0) /\ 0 + 0 <= 0 /\ 0 + 0 <= 1 /\ 0 # 1
  BY MetricsAssumption, SMT
<1>4. IsFiniteSet({}) /\ Cardinality({}) = 0
  BY FS_EmptySet
<1>5. QueueTypeOK
  BY <1>2, Phases DEF QueueTypeOK, WellFormed
<1>6. TypeOK
  BY <1>1, <1>2, <1>3, <1>4, <1>5 DEF TypeOK
<1>7. \A j \in Jobs : /\ job[j].phase = "absent" /\ pickups[j] = 0
                      /\ \A c \in Counters : count[c][j] = 0
  BY <1>2, Phases
<1>8. RetriesMatchAttempt /\ PickupWasFirst /\ FinalIsCountedOnce
  BY <1>3, <1>7 DEF RetriesMatchAttempt, PickupWasFirst, FinalIsCountedOnce, In, Counters
<1>9. /\ StartsAreSpentOnce /\ RunsWereIssued /\ OutcomesMatchQueue /\ SweptAtLast
      /\ RunsWereSeen /\ StartIsOwn
  BY <1>1, <1>2, <1>3, <1>4
  DEF StartsAreSpentOnce, RunsWereIssued, OutcomesMatchQueue, SweptAtLast, RunsWereSeen, StartIsOwn
<1>10. QED
  BY <1>6, <1>8, <1>9 DEF MetricsIInv

(* Every step preserves the invariant. *)
LEMMA NextInv == MetricsIInv /\ [Next]_vars => MetricsIInv'
<1> SUFFICES ASSUME MetricsIInv, [Next]_vars PROVE MetricsIInv'
  OBVIOUS
<1>1. CASE Tick
  BY <1>1, TickInv
<1>2. ASSUME NEW j \in Jobs,
             Submit(j) \/ LeaseExpires(j) \/ OtherSettles(j) \/ \E w \in Workers : Lease(w, j)
      PROVE  MetricsIInv'
  BY <1>2, QueueStepsInv, LeaseInv
<1>3. ASSUME NEW l \in DOMAIN run, RunStep(l)
      PROVE  MetricsIInv'
  BY <1>3, RunningInv, JobStartedInv, SettleInv, SettledInv, JobLeaseLostInv DEF RunStep
<1>4. CASE UNCHANGED vars
  <2>1. UNCHANGED <<job, now, due, run, began, seen, metrics, faults>>
    BY <1>4 DEF vars
  <2>2. Advances /\ DOMAIN due' = Jobs
    BY <2>1, NothingAdvances DEF MetricsIInv, TypeOK
  <2>3. QED
    BY <2>1, <2>2, ElsewhereInv
<1>5. QED
  BY <1>1, <1>2, <1>3, <1>4 DEF Next

(* The strengthened invariant is inductive. *)
THEOREM MetricsInductiveInvariant == Spec => []MetricsIInv
  BY InitInv, NextInv, PTL DEF Spec

(* Each start time is spent on one duration at most, with runs of one job that
   overlap in the process. *)
THEOREM DurationsAreOfStarts == Spec => []StartsAreSpentOnce
<1>1. MetricsIInv => StartsAreSpentOnce
  BY DEF MetricsIInv
<1>2. QED
  BY <1>1, MetricsInductiveInvariant, PTL

(* The duration of a run that is the only delivery of its attempt in the process
   is its own, or is missing as the run took longer than staleAfter. *)
THEOREM DurationsAreTheirOwn == Spec => []DurationIsOwn
<1>1. MetricsIInv => DurationIsOwn
  <2> SUFFICES ASSUME MetricsIInv, NEW l \in DOMAIN began, Alone(l)
               PROVE  \/ Finds(l) = {began[l]}
                      \/ Finds(l) = {} /\ now - began[l] > StaleAfter
    BY DEF DurationIsOwn
  <2>1. IF KeyOf(l) \in DOMAIN startTimes THEN startTimes[KeyOf(l)] = began[l]
        ELSE now - began[l] > StaleAfter
    BY DEF MetricsIInv, StartIsOwn
  <2>2. CASE KeyOf(l) \in DOMAIN startTimes
    <3>1. {KeyOf(l)} \cap DOMAIN startTimes = {KeyOf(l)}
      BY <2>2
    <3>2. QED
      BY <2>1, <2>2, <3>1 DEF Finds
  <2>3. CASE KeyOf(l) \notin DOMAIN startTimes
    <3>1. {KeyOf(l)} \cap DOMAIN startTimes = {}
      BY <2>3
    <3>2. QED
      BY <2>1, <2>3, <3>1 DEF Finds
  <2>4. QED
    BY <2>2, <2>3
<1>2. QED
  BY <1>1, MetricsInductiveInvariant, PTL

(* The counters agree with the queue, whatever zombies report: a job is counted
   as completed or dead-lettered once and only if it is, retried no more often
   than it was, and picked up once. *)
THEOREM CountersAreTrue == Spec => []CountersMatchQueue
<1>1. MetricsIInv => CountersMatchQueue
  <2> SUFFICES ASSUME MetricsIInv PROVE CountersMatchQueue
    OBVIOUS
  <2>1. \A j \in Jobs : pickups[j] <= 1
    <3>1. \A j \in Jobs : pickups[j] \in Nat /\ (pickups[j] > 0 => pickups[j] = 1)
      BY DEF MetricsIInv, TypeOK, PickupWasFirst
    <3>2. QED
      BY <3>1, SMT
  <2>2. FinalIsCountedOnce
    BY DEF MetricsIInv
  <2>3. \A j \in In("waiting") \cup In("leased") : count["retried"][j] <= job[j].attempt
    BY RetriesBound DEF In, MetricsIInv
  <2>4. QED
    BY <2>1, <2>2, <2>3 DEF CountersMatchQueue, FinalIsCountedOnce
<1>2. QED
  BY <1>1, MetricsInductiveInvariant, PTL

(* A run is started by JobStarted only. *)
LEMMA OnlyJobStartedStarts ==
  ASSUME Next, NEW l \in DOMAIN run, run[l] = "new", run'[l] = "running"
  PROVE  JobStarted(l)
<1>1. run'[l] # run[l]
  OBVIOUS
<1>2. ~Tick
  BY <1>1 DEF Tick
<1>3. ASSUME NEW j \in Jobs, Submit(j) \/ LeaseExpires(j) \/ OtherSettles(j)
      PROVE  FALSE
  BY <1>1, <1>3 DEF Submit, LeaseExpires, OtherSettles
<1>4. ASSUME NEW w, NEW m, Begins(w, m)
      PROVE  run'[l] = "new"
  BY <1>4 DEF Begins, Put
<1>5. ASSUME NEW j \in Jobs, NEW w \in Workers, Lease(w, j)
      PROVE  FALSE
  BY <1>4, <1>5 DEF Lease
<1>6. ASSUME NEW m \in DOMAIN run, RunStep(m)
      PROVE  JobStarted(l)
  <2>1. ASSUME NEW pc, Goto(m, pc)
        PROVE  run'[l] = IF l = m THEN pc ELSE "new"
    BY <2>1 DEF Goto
  <2>2. ASSUME End(m), m # l
        PROVE  run'[l] = "new"
    BY <2>2 DEF End, Without
  <2>3. CASE TooMany(m) \/ Succeeds(m) \/ \E retryable \in BOOLEAN : JobFailed(m, retryable)
    <3>1. \E pc \in {"burying", "acking", "retrying"} : Goto(m, pc)
      BY <2>3 DEF TooMany, Succeeds, JobFailed
    <3>2. QED
      BY <2>1, <3>1
  <2>4. CASE CutOff(m) \/ SettleFails(m) \/ Settled(m) \/ JobLeaseLost(m)
    BY <2>1, <2>2, <2>4
    DEF CutOff, SettleFails, Settled, JobLeaseLost, At, Settling, HasSettled
  <2>5. CASE Settle(m)
    BY <2>1, <2>5 DEF Settle, Settling
  <2>6. CASE JobStarted(m)
    BY <2>6 DEF JobStarted
  <2>7. QED
    BY <1>6, <2>3, <2>4, <2>5, <2>6 DEF RunStep
<1>7. QED
  BY <1>2, <1>3, <1>5, <1>6 DEF Next

(* Whenever a job starts, no start time is kept that is older than staleAfter and
   sweepEvery together. *)
THEOREM StartsDoNotPileUp == Spec => StaleStartsAreSwept
<1>1. ASSUME MetricsIInv, Next, NEW l \in DOMAIN run, run[l] = "new", run'[l] = "running",
             NEW k \in DOMAIN startTimes'
      PROVE  now - startTimes'[k] < StaleAfter + SweepEvery
  <2>1. JobStarted(l)
    BY <1>1, OnlyJobStartedStarts
  <2>2. lastSweep' - startTimes'[k] <= StaleAfter /\ lastSweep' \in 0 .. now
    BY <1>1, <2>1, StartedStarts
  <2>3. now \in Nat /\ startTimes'[k] \in 0 .. now /\ lastSweep \in Nat
    <3>1. TypeOK /\ TypeOK'
      BY <1>1, <2>1, JobStartedInv DEF MetricsIInv
    <3>2. UNCHANGED now
      BY <2>1 DEF JobStarted
    <3>3. now \in Nat /\ startTimes'[k] \in 0 .. now /\ lastSweep \in 0 .. now
      BY <1>1, <3>1, <3>2 DEF TypeOK
    <3>4. QED
      BY <3>3, SMT
  <2>4. \/ now - lastSweep < SweepEvery /\ lastSweep' = lastSweep
        \/ lastSweep' = now
    BY <2>1 DEF JobStarted
  <2>5. QED
    BY <2>2, <2>3, <2>4, MetricsAssumption, SMT
<1>2. MetricsIInv /\ [Next]_vars =>
        [\A l \in DOMAIN run : run[l] = "new" /\ run'[l] = "running" =>
           \A k \in DOMAIN startTimes' : now - startTimes'[k] < StaleAfter + SweepEvery]_vars
  BY <1>1
<1>3. QED
  BY <1>2, MetricsInductiveInvariant, PTL DEF Spec, StaleStartsAreSwept

(* The variables keep their types. *)
THEOREM MetricsTypeCorrect == Spec => []TypeOK
<1>1. MetricsIInv => TypeOK
  BY DEF MetricsIInv
<1>2. QED
  BY <1>1, MetricsInductiveInvariant, PTL

-----------------------------------------------------------------------------
(* What the recursive definitions of RetryPolicy compute *)

(* A set of naturals that is not empty has a least element. *)
LEMMA LeastNat ==
  ASSUME NEW S, S \subseteq Nat, S # {}
  PROVE  \E m \in S : \A n \in S : m <= n
<1>1. PICK m \in S : \A n \in S : ~(<<n, m>> \in OpToRel(<, Nat))
  BY NatLessThanWellFounded, WFMin
<1>2. ASSUME NEW n \in S
      PROVE  m <= n
  <2>1. m \in Nat /\ n \in Nat
    OBVIOUS
  <2>2. n < m => <<n, m>> \in OpToRel(<, Nat)
    BY <2>1, SMT DEF OpToRel
  <2>3. ~(n < m)
    BY <1>1, <2>2
  <2>4. QED
    BY <2>1, <2>3, SMT
<1>3. QED
  BY <1>2

(* A set of naturals that holds 0, and the next of each it holds, holds all. *)
LEMMA Induction ==
  ASSUME NEW G, 0 \in G, \A n \in Nat : n \in G => n + 1 \in G
  PROVE  Nat \subseteq G
<1> DEFINE Bad == {n \in Nat : n \notin G}
<1> SUFFICES ASSUME Bad # {} PROVE FALSE
  OBVIOUS
<1>1. Bad \subseteq Nat
  OBVIOUS
<1>2. PICK n \in Bad : \A m \in Bad : n <= m
  BY <1>1, LeastNat
<1>3. n \in Nat /\ n \notin G /\ n # 0
  OBVIOUS
<1> HIDE DEF Bad
<1>4. n - 1 \in Nat /\ ~(n <= n - 1) /\ (n - 1) + 1 = n
  BY <1>3, SMT
<1>5. n - 1 \in G
  BY <1>2, <1>4 DEF Bad
<1> QED
  BY <1>3, <1>4, <1>5

(* F may be applied to c any number of times, and f goes from c on by F, n times
   or without end. *)
Iterable(S, F, c) == F \in [S -> S] /\ c \in S
Iterates(S, F, c, n, f) ==
  /\ f \in [0 .. n -> S]
  /\ f[0] = c
  /\ \A i \in 0 .. n : i # n => f[i + 1] = F[f[i]]
IteratesOn(S, F, c, f) ==
  /\ f \in [Nat -> S]
  /\ f[0] = c
  /\ \A i \in Nat : f[i + 1] = F[f[i]]

(* There is such an f for each n. *)
LEMMA IterationExists ==
  ASSUME NEW S, NEW F, NEW c, Iterable(S, F, c)
  PROVE  \A n \in Nat : \E f : Iterates(S, F, c, n, f)
<1> DEFINE G == {n \in Nat : \E f : Iterates(S, F, c, n, f)}
<1>0. F \in [S -> S] /\ c \in S
  BY DEF Iterable
<1>1. 0 \in G
  <2> DEFINE f == [i \in 0 .. 0 |-> c]
  <2>1. 0 \in Nat /\ 0 \in 0 .. 0 /\ \A i \in 0 .. 0 : i = 0
    BY SMT
  <2>2. f \in [0 .. 0 -> S] /\ f[0] = c
    BY <1>0, <2>1
  <2>3. Iterates(S, F, c, 0, f)
    BY <2>1, <2>2 DEF Iterates
  <2> QED
    BY <2>1, <2>3
<1>2. ASSUME NEW n \in Nat, n \in G
      PROVE  n + 1 \in G
  <2>1. PICK f : Iterates(S, F, c, n, f)
    BY <1>2
  <2> DEFINE g == [i \in 0 .. n + 1 |-> IF i = n + 1 THEN F[f[n]] ELSE f[i]]
  <2>2. /\ n + 1 \in Nat /\ 0 # n + 1 /\ 0 \in 0 .. n + 1 /\ n \in 0 .. n /\ n # n + 1
        /\ n \in 0 .. n + 1 /\ n + 1 \in 0 .. n + 1
        /\ \A i \in 0 .. n + 1 : i # n + 1 => i \in 0 .. n
        /\ \A i \in 0 .. n : /\ i \in 0 .. n + 1 /\ i + 1 \in 0 .. n + 1 /\ i # n + 1
                             /\ i # n => i + 1 \in 0 .. n /\ i + 1 # n + 1
    BY SMT
  <2>3. f[n] \in S /\ F[f[n]] \in S
    BY <1>0, <2>1, <2>2 DEF Iterates
  <2>4. g \in [0 .. n + 1 -> S]
    BY <2>1, <2>2, <2>3 DEF Iterates
  <2>5. /\ g[n + 1] = F[f[n]]
        /\ \A i \in 0 .. n : g[i] = f[i]
    BY <2>2
  <2> HIDE DEF g
  <2>6. g[0] = c
    BY <2>1, <2>2, <2>5 DEF Iterates
  <2>7. ASSUME NEW i \in 0 .. n + 1, i # n + 1
        PROVE  g[i + 1] = F[g[i]]
    <3>1. i \in 0 .. n
      BY <2>2, <2>7
    <3>2. CASE i = n
      BY <2>2, <2>5, <3>2
    <3>3. CASE i # n
      <4>1. f[i + 1] = F[f[i]] /\ i + 1 \in 0 .. n
        BY <2>1, <2>2, <3>1, <3>3 DEF Iterates
      <4> QED
        BY <2>5, <3>1, <4>1
    <3> QED
      BY <3>2, <3>3
  <2>8. Iterates(S, F, c, n + 1, g)
    BY <2>4, <2>6, <2>7 DEF Iterates
  <2> QED
    BY <2>2, <2>8
<1> HIDE DEF G
<1>3. Nat \subseteq G
  BY <1>1, <1>2, Induction
<1> QED
  BY <1>3 DEF G

(* The longer goes on where the shorter ends. *)
LEMMA IterationAgrees ==
  ASSUME NEW S, NEW F, NEW c, Iterable(S, F, c), NEW n \in Nat,
         NEW f, Iterates(S, F, c, n, f), NEW g, Iterates(S, F, c, n + 1, g)
  PROVE  g[n + 1] = F[f[n]]
<1> DEFINE G == {i \in Nat : i \in 0 .. n => g[i] = f[i]}
<1>1. 0 \in G
  BY DEF Iterates
<1>2. ASSUME NEW i \in Nat, i \in G
      PROVE  i + 1 \in G
  <2>1. i + 1 \in Nat
    BY SMT
  <2>2. ASSUME i + 1 \in 0 .. n
        PROVE  g[i + 1] = f[i + 1]
    <3>1. i \in 0 .. n /\ i # n /\ i \in 0 .. n + 1 /\ i # n + 1
      BY <2>2, SMT
    <3>2. g[i] = f[i]
      BY <1>2, <3>1
    <3> QED
      BY <3>1, <3>2 DEF Iterates
  <2> QED
    BY <2>1, <2>2
<1> HIDE DEF G
<1>3. n \in G
  BY <1>1, <1>2, Induction
<1>4. n \in 0 .. n /\ n \in 0 .. n + 1 /\ n # n + 1
  BY SMT
<1>5. g[n] = f[n]
  BY <1>3, <1>4 DEF G
<1> QED
  BY <1>4, <1>5 DEF Iterates

(* F may be applied without end. *)
LEMMA IterationOnNat ==
  ASSUME NEW S, NEW F, NEW c, Iterable(S, F, c)
  PROVE  \E f : IteratesOn(S, F, c, f)
<1> DEFINE upTo(n) == CHOOSE f : Iterates(S, F, c, n, f)
           h == [n \in Nat |-> upTo(n)[n]]
<1>1. \A n \in Nat : Iterates(S, F, c, n, upTo(n))
  BY IterationExists
<1>2. \A n \in Nat : n \in 0 .. n /\ n + 1 \in Nat
  BY SMT
<1> HIDE DEF upTo
<1>3. h \in [Nat -> S]
  BY <1>1, <1>2 DEF Iterates
<1>4. 0 \in Nat
  BY SMT
<1>5. h[0] = c
  BY <1>1, <1>4 DEF Iterates
<1>6. ASSUME NEW n \in Nat
      PROVE  h[n + 1] = F[h[n]]
  <2> DEFINE f == upTo(n)
             g == upTo(n + 1)
  <2>1. Iterates(S, F, c, n, f) /\ Iterates(S, F, c, n + 1, g)
    BY <1>1, <1>2
  <2>2. h[n] = f[n] /\ h[n + 1] = g[n + 1]
    BY <1>2
  <2> HIDE DEF f, g, h
  <2>3. g[n + 1] = F[f[n]]
    BY <2>1, IterationAgrees, SMT
  <2> QED
    BY <2>2, <2>3
<1> HIDE DEF h
<1> QED
  BY <1>3, <1>5, <1>6 DEF IteratesOn

(* The powers of two. *)
LEMMA Powers ==
  /\ Pow2 \in [Nat -> Nat \ {0}] /\ Pow2[0] = 1
  /\ \A n \in Nat : Pow2[n + 1] = 2 * Pow2[n]
<1> DEFINE Twice == [x \in Nat \ {0} |-> 2 * x]
           Def(f) == f = [n \in Nat |-> IF n = 0 THEN 1 ELSE 2 * f[n - 1]]
<1>1. Twice \in [Nat \ {0} -> Nat \ {0}] /\ 1 \in Nat \ {0}
  BY SMT
<1>2. \A x \in Nat \ {0} : Twice[x] = 2 * x
  OBVIOUS
<1> HIDE DEF Twice
<1>0. PICK f : IteratesOn(Nat \ {0}, Twice, 1, f)
  BY <1>1, IterationOnNat DEF Iterable
<1>3. /\ f \in [Nat -> Nat \ {0}] /\ f[0] = 1
      /\ \A n \in Nat : f[n + 1] = Twice[f[n]]
  BY <1>0 DEF IteratesOn
<1>4. \A n \in Nat : n # 0 => n - 1 \in Nat /\ (n - 1) + 1 = n
  BY SMT
<1>5. \A n \in Nat : f[n] = IF n = 0 THEN 1 ELSE 2 * f[n - 1]
  BY <1>2, <1>3, <1>4
<1>6. Def(f)
  <2>1. f = [n \in Nat |-> f[n]]
    BY <1>3
  <2> QED
    BY <1>5, <2>1
<1>7. Pow2 = CHOOSE g : Def(g)
  BY DEF Pow2
<1>8. Def(Pow2)
  BY <1>6, <1>7
<1>9. Pow2[0] = 1
  BY <1>8, SMT
<1>10. \A n \in Nat : n + 1 \in Nat /\ n + 1 # 0 /\ (n + 1) - 1 = n
  BY SMT
<1>11. \A n \in Nat : Pow2[n + 1] = 2 * Pow2[n]
  BY <1>8, <1>10
<1>12. Pow2 = [n \in Nat |-> Pow2[n]]
  BY <1>8
<1> HIDE DEF Def
<1>13. \A n \in Nat : Pow2[n] \in Nat \ {0}
  <2> DEFINE G == {n \in Nat : Pow2[n] \in Nat \ {0}}
  <2>1. 0 \in G
    BY <1>1, <1>9
  <2>2. ASSUME NEW n \in Nat, n \in G
        PROVE  n + 1 \in G
    BY <1>10, <1>11, <2>2, SMT
  <2> HIDE DEF G
  <2>3. Nat \subseteq G
    BY <2>1, <2>2, Induction
  <2> QED
    BY <2>3 DEF G
<1> QED
  BY <1>9, <1>11, <1>12, <1>13

(* A number that fits is not wrapped. *)
LEMMA SmallIsNotWrapped ==
  ASSUME NEW x \in Int, -Pow2[Width - 1] <= x, x < Pow2[Width - 1]
  PROVE  Wrapped(x) = x
<1> DEFINE h == Pow2[Width - 1]
<1>1. h \in Nat \ {0} /\ Pow2[Width] = 2 * h
  <2>1. Width - 1 \in Nat /\ (Width - 1) + 1 = Width
    BY WidthAssumption, SMT
  <2> QED
    BY <2>1, Powers
<1>2. -h <= x /\ x < h
  OBVIOUS
<1>3. Wrapped(x) = ((x + h) % (2 * h)) - h
  BY <1>1 DEF Wrapped
<1> HIDE DEF h
<1>4. ASSUME NEW y \in Nat, NEW m \in Nat \ {0}, y < m
      PROVE  y % m = y
  BY <1>4, SMT
<1>5. x + h \in Nat /\ 2 * h \in Nat \ {0} /\ x + h < 2 * h
  BY <1>1, <1>2, SMT
<1>6. (x + h) % (2 * h) = x + h
  BY <1>4, <1>5
<1> QED
  BY <1>1, <1>3, <1>6, SMT

(* A pass of the loop in NextDelay, as a function of the delay. *)
Pass(max) == [d \in Int |-> IF d < max THEN Wrapped(2 * d) ELSE d]

(* d is the exact delay e, unless both have reached the cap. *)
Near(d, e, max) ==
  /\ d \in Nat \ {0}
  /\ d = e \/ (d >= max /\ e >= max)

(* Wrapping gives an integer. *)
LEMMA WrappedIsInt ==
  ASSUME NEW x \in Int
  PROVE  Wrapped(x) \in Int
<1> DEFINE h == Pow2[Width - 1]
           m == Pow2[Width]
<1>1. h \in Int /\ m \in Nat \ {0}
  <2>1. Width - 1 \in Nat /\ Width \in Nat
    BY WidthAssumption, SMT
  <2> QED
    BY <2>1, Powers, SMT
<1> HIDE DEF h, m
<1>2. ((x + h) % m) - h \in Int
  BY <1>1, SMT
<1> QED
  BY <1>2 DEF h, m, Wrapped

(* The cap leaves room for one more doubling. *)
LEMMA Headroom ==
  ASSUME NEW max \in 1 .. Pow2[Width - 2], NEW d \in Nat \ {0}, d < max
  PROVE  Wrapped(2 * d) = 2 * d
<1> DEFINE q == Pow2[Width - 2]
           h == Pow2[Width - 1]
<1>1. q \in Nat \ {0} /\ h = 2 * q
  <2>1. Width - 2 \in Nat /\ (Width - 2) + 1 = Width - 1
    BY WidthAssumption, SMT
  <2> QED
    BY <2>1, Powers
<1>2. max \in 1 .. q
  OBVIOUS
<1> HIDE DEF q, h
<1>3. 2 * d \in Int /\ -h <= 2 * d /\ 2 * d < h
  BY <1>1, <1>2, SMT
<1> QED
  BY <1>3, SmallIsNotWrapped DEF h

(* A pass keeps the delay near the exact one. *)
LEMMA PassKeepsNear ==
  ASSUME NEW max \in 1 .. Pow2[Width - 2], NEW d, NEW e \in Int, Near(d, e, max)
  PROVE  Near(IF d < max THEN Wrapped(2 * d) ELSE d, 2 * e, max)
<1>0. max \in Nat \ {0} /\ d \in Nat \ {0}
  <2>1. Width - 2 \in Nat
    BY WidthAssumption, SMT
  <2>2. Pow2[Width - 2] \in Nat
    BY <2>1, Powers
  <2>3. max \in Nat \ {0}
    BY <2>2, SMT
  <2> QED
    BY <2>3 DEF Near
<1>1. CASE d < max
  <2>1. Wrapped(2 * d) = 2 * d
    BY <1>0, <1>1, Headroom
  <2>2. d = e
    BY <1>0, <1>1, SMT DEF Near
  <2>3. Near(2 * d, 2 * e, max)
    BY <1>0, <2>2, SMT DEF Near
  <2> QED
    BY <1>1, <2>1, <2>3
<1>2. CASE ~(d < max)
  <2>1. Near(d, 2 * e, max)
    BY <1>0, <1>2, SMT DEF Near
  <2> QED
    BY <1>2, <2>1
<1> QED
  BY <1>1, <1>2

(* What the loop leaves is near base * 2^(attempt - 1). *)
LEMMA DoubledIsNear ==
  ASSUME NEW base \in Nat \ {0}, NEW max \in 1 .. Pow2[Width - 2],
         NEW attempt \in Nat \ {0}
  PROVE  Near(Doubled(base, max, attempt), base * Pow2[attempt - 1], max)
<1> DEFINE Def(f) == f = [i \in 1 .. attempt |->
                            IF i = 1 THEN base
                            ELSE IF f[i - 1] < max THEN Wrapped(2 * f[i - 1]) ELSE f[i - 1]]
           delay == CHOOSE f : Def(f)
<1>1. \E f : Def(f)
  <2>1. Pass(max) \in [Int -> Int]
    <3>1. \A d \in Int : 2 * d \in Int
      BY SMT
    <3> QED
      BY <3>1, WrappedIsInt DEF Pass
  <2>2. base \in Int
    BY SMT
  <2>3. PICK f : IteratesOn(Int, Pass(max), base, f)
    BY <2>1, <2>2, IterationOnNat DEF Iterable
  <2>4. /\ f \in [Nat -> Int] /\ f[0] = base
        /\ \A i \in Nat : f[i + 1] = Pass(max)[f[i]]
    BY <2>3 DEF IteratesOn
  <2> DEFINE g == [i \in 1 .. attempt |-> f[i - 1]]
  <2>5. \A i \in 1 .. attempt :
          /\ i - 1 \in Nat
          /\ i = 1 => i - 1 = 0
          /\ i # 1 => i - 1 \in 1 .. attempt /\ (i - 1) - 1 \in Nat /\ ((i - 1) - 1) + 1 = i - 1
    BY SMT
  <2>6. ASSUME NEW i \in 1 .. attempt
        PROVE  g[i] = IF i = 1 THEN base
                      ELSE IF g[i - 1] < max THEN Wrapped(2 * g[i - 1]) ELSE g[i - 1]
    <3>1. CASE i = 1
      BY <2>4, <2>5, <3>1
    <3>2. CASE i # 1
      <4>1. g[i] = f[i - 1] /\ g[i - 1] = f[(i - 1) - 1]
        BY <2>5, <3>2
      <4>2. f[i - 1] = Pass(max)[f[(i - 1) - 1]] /\ f[(i - 1) - 1] \in Int
        BY <2>4, <2>5, <3>2
      <4> HIDE DEF g
      <4>3. g[i] = IF g[i - 1] < max THEN Wrapped(2 * g[i - 1]) ELSE g[i - 1]
        BY <4>1, <4>2 DEF Pass
      <4> QED
        BY <3>2, <4>3
    <3> QED
      BY <3>1, <3>2
  <2>7. Def(g)
    BY <2>6
  <2> QED
    BY <2>7
<1>2. Def(delay)
  BY <1>1
<1>3. Doubled(base, max, attempt) = delay[attempt]
  BY DEF Doubled
<1>4. \A i \in 1 .. attempt :
        delay[i] = IF i = 1 THEN base
                   ELSE IF delay[i - 1] < max THEN Wrapped(2 * delay[i - 1]) ELSE delay[i - 1]
  BY <1>2
<1> HIDE DEF delay, Def
<1> DEFINE G == {n \in Nat : n + 1 \in 1 .. attempt => Near(delay[n + 1], base * Pow2[n], max)}
<1>5. 0 \in G
  <2>1. 0 + 1 = 1 /\ 1 \in 1 .. attempt
    BY SMT
  <2>2. delay[1] = base
    BY <1>4, <2>1
  <2>3. base * Pow2[0] = base
    <3>1. Pow2[0] = 1
      BY Powers
    <3> QED
      BY <3>1, SMT
  <2>4. Near(base, base, max)
    BY DEF Near
  <2>5. 0 \in Nat
    BY SMT
  <2> QED
    BY <2>1, <2>2, <2>3, <2>4, <2>5
<1>6. ASSUME NEW n \in Nat, n \in G
      PROVE  n + 1 \in G
  <2>1. n + 1 \in Nat
    BY SMT
  <2>2. ASSUME (n + 1) + 1 \in 1 .. attempt
        PROVE  Near(delay[(n + 1) + 1], base * Pow2[n + 1], max)
    <3>1. n + 1 \in 1 .. attempt /\ (n + 1) + 1 # 1 /\ ((n + 1) + 1) - 1 = n + 1
      BY <2>2, SMT
    <3>2. Near(delay[n + 1], base * Pow2[n], max)
      BY <1>6, <3>1
    <3>3. base * Pow2[n] \in Int /\ base * Pow2[n + 1] = 2 * (base * Pow2[n])
      <4>1. Pow2[n] \in Nat /\ Pow2[n + 1] = 2 * Pow2[n]
        BY Powers
      <4> QED
        BY <4>1, SMT
    <3>4. delay[(n + 1) + 1] = IF delay[n + 1] < max THEN Wrapped(2 * delay[n + 1]) ELSE delay[n + 1]
      BY <1>4, <2>2, <3>1
    <3> QED
      BY <3>2, <3>3, <3>4, PassKeepsNear
  <2> QED
    BY <2>1, <2>2
<1> HIDE DEF G
<1>7. attempt - 1 \in Nat /\ (attempt - 1) + 1 = attempt /\ attempt \in 1 .. attempt
  BY SMT
<1>8. attempt - 1 \in G
  BY <1>5, <1>6, <1>7, Induction
<1>9. Near(delay[attempt], base * Pow2[attempt - 1], max)
  BY <1>7, <1>8 DEF G
<1> QED
  BY <1>3, <1>9

(* The least and the greatest element of a set of integers. *)
Least(S, m) == S \subseteq Int /\ m \in S /\ \A x \in S : m <= x
Greatest(S, m) == S \subseteq Int /\ m \in S /\ \A x \in S : m >= x

(* Min and Max find them. *)
LEMMA MinIs ==
  ASSUME NEW S, NEW m, Least(S, m)
  PROVE  Min(S) = m
<1> DEFINE P(y) == \A x \in S : y <= x
<1>1. Min(S) \in S /\ P(Min(S))
  BY DEF Min, Least
<1>2. Min(S) <= m /\ m <= Min(S)
  BY <1>1 DEF Least
<1>3. m \in Int /\ Min(S) \in Int
  BY <1>1 DEF Least
<1> QED
  BY <1>2, <1>3, SMT

LEMMA MaxIs ==
  ASSUME NEW S, NEW m, Greatest(S, m)
  PROVE  Max(S) = m
<1> DEFINE P(y) == \A x \in S : y >= x
<1>1. Max(S) \in S /\ P(Max(S))
  BY DEF Max, Greatest
<1>2. Max(S) >= m /\ m >= Max(S)
  BY <1>1 DEF Greatest
<1>3. m \in Int /\ Max(S) \in Int
  BY <1>1 DEF Greatest
<1> QED
  BY <1>2, <1>3, SMT

LEMMA MinOfTwo ==
  ASSUME NEW a \in Int, NEW b \in Int
  PROVE  Min({a, b}) = IF a <= b THEN a ELSE b
<1>0. {a, b} \subseteq Int /\ a \in {a, b} /\ b \in {a, b}
  OBVIOUS
<1>1. CASE a <= b
  <2>1. Least({a, b}, a)
    BY <1>0, <1>1, SMT DEF Least
  <2>2. Min({a, b}) = a
    BY <2>1, MinIs
  <2> QED
    BY <1>1, <2>2
<1>2. CASE ~(a <= b)
  <2>1. Least({a, b}, b)
    BY <1>0, <1>2, SMT DEF Least
  <2>2. Min({a, b}) = b
    BY <2>1, MinIs
  <2> QED
    BY <1>2, <2>2
<1> QED
  BY <1>1, <1>2

LEMMA MaxOfTwo ==
  ASSUME NEW a \in Int, NEW b \in Int
  PROVE  Max({a, b}) = IF a >= b THEN a ELSE b
<1>0. {a, b} \subseteq Int /\ a \in {a, b} /\ b \in {a, b}
  OBVIOUS
<1>1. CASE a >= b
  <2>1. Greatest({a, b}, a)
    BY <1>0, <1>1, SMT DEF Greatest
  <2>2. Max({a, b}) = a
    BY <2>1, MaxIs
  <2> QED
    BY <1>1, <2>2
<1>2. CASE ~(a >= b)
  <2>1. Greatest({a, b}, b)
    BY <1>0, <1>2, SMT DEF Greatest
  <2>2. Max({a, b}) = b
    BY <2>1, MaxIs
  <2> QED
    BY <1>2, <2>2
<1> QED
  BY <1>1, <1>2

(* The delays drawn from d when the last j quarters of it are random. *)
Drawn(d, j) == IF j > 0 /\ d > 0 THEN (d * (4 - j)) \div 4 .. d - 1 ELSE {d}

(* They are at most d, and at least what is left of it. *)
LEMMA DrawnDelays ==
  ASSUME NEW d \in Nat \ {0}, NEW j \in 0 .. 4
  PROVE  /\ Max(Drawn(d, j)) <= d
         /\ Min(Drawn(d, j)) >= (d * (4 - j)) \div 4
         /\ j = 0 => Drawn(d, j) = {d}
<1> DEFINE q == (d * (4 - j)) \div 4
           D == Drawn(d, j)
<1>1. CASE j = 0
  <2>1. D = {d} /\ q = d
    BY <1>1, SMT DEF Drawn
  <2> HIDE DEF q, D
  <2>2. Least({d}, d) /\ Greatest({d}, d)
    BY SMT DEF Least, Greatest
  <2>3. Min({d}) = d /\ Max({d}) = d
    BY <2>2, MinIs, MaxIs
  <2>4. Max(D) <= d /\ Min(D) >= q
    BY <2>1, <2>3, SMT
  <2> QED
    BY <2>1, <2>4 DEF q, D
<1>2. CASE j # 0
  <2>1. q \in Nat /\ q <= d - 1
    <3>1. j = 1 \/ j = 2 \/ j = 3 \/ j = 4
      BY <1>2, SMT
    <3>2. CASE j = 1
      BY <3>2, SMT
    <3>3. CASE j = 2
      BY <3>3, SMT
    <3>4. CASE j = 3
      BY <3>4, SMT
    <3>5. CASE j = 4
      BY <3>5, SMT
    <3> QED
      BY <3>1, <3>2, <3>3, <3>4, <3>5
  <2>2. D = q .. d - 1
    BY <1>2, SMT DEF Drawn
  <2> HIDE DEF q, D
  <2>3. Least(D, q) /\ Greatest(D, d - 1)
    BY <2>1, <2>2, SMT DEF Least, Greatest
  <2>4. Min(D) = q /\ Max(D) = d - 1
    BY <2>3, MinIs, MaxIs
  <2>5. Max(D) <= d /\ Min(D) >= q
    BY <2>1, <2>4, SMT
  <2> QED
    BY <1>2, <2>5 DEF q, D
<1> QED
  BY <1>1, <1>2

(* The default MaxDelay is within a quarter of a Duration's range. *)
LEMMA DefaultMaxFits == 30 \in 1 .. Pow2[Width - 2]
<1> DEFINE G == {n \in Nat : Pow2[n + 5] >= 32}
<1>1. 0 \in G
  <2>1. /\ Pow2[0 + 1] = 2 * Pow2[0] /\ Pow2[1 + 1] = 2 * Pow2[1] /\ Pow2[2 + 1] = 2 * Pow2[2]
        /\ Pow2[3 + 1] = 2 * Pow2[3] /\ Pow2[4 + 1] = 2 * Pow2[4] /\ Pow2[0] = 1
    <3>1. 0 \in Nat /\ 1 \in Nat /\ 2 \in Nat /\ 3 \in Nat /\ 4 \in Nat
      BY SMT
    <3> QED
      BY <3>1, Powers
  <2>2. Pow2[0 + 5] = 32 /\ 0 \in Nat /\ 32 >= 32
    BY <2>1, SMT
  <2> QED
    BY <2>2
<1>2. ASSUME NEW n \in Nat, n \in G
      PROVE  n + 1 \in G
  <2>1. n + 1 \in Nat /\ n + 5 \in Nat /\ (n + 1) + 5 = (n + 5) + 1
    BY SMT
  <2>2. Pow2[(n + 1) + 5] = 2 * Pow2[n + 5] /\ Pow2[n + 5] \in Nat
    BY <2>1, Powers
  <2>3. Pow2[(n + 1) + 5] >= 32
    BY <1>2, <2>2, SMT
  <2> QED
    BY <2>1, <2>3
<1> HIDE DEF G
<1>3. Width - 7 \in Nat /\ (Width - 7) + 5 = Width - 2 /\ Width - 2 \in Nat
  BY WidthAssumption, SMT
<1>4. Width - 7 \in G
  BY <1>1, <1>2, <1>3, Induction
<1>5. Pow2[Width - 2] >= 32
  BY <1>3, <1>4 DEF G
<1>6. Pow2[Width - 2] \in Nat
  BY <1>3, Powers
<1> QED
  BY <1>5, <1>6, SMT

(* Capped, the delay of the loop and the exact one are the same. *)
LEMMA NearIsCapped ==
  ASSUME NEW max \in Nat \ {0}, NEW d, NEW e \in Int, Near(d, e, max)
  PROVE  Min({d, max}) = Min({e, max}) /\ Min({d, max}) \in Nat \ {0}
<1>1. d \in Nat \ {0} /\ (d = e \/ (d >= max /\ e >= max))
  BY DEF Near
<1>2. d \in Int /\ max \in Int
  BY <1>1, SMT
<1>3. /\ Min({d, max}) = IF d <= max THEN d ELSE max
      /\ Min({e, max}) = IF e <= max THEN e ELSE max
  BY <1>2, MinOfTwo
<1> QED
  BY <1>1, <1>2, <1>3, SMT

(* The jitter is cut to between none and four quarters. *)
LEMMA JitterInRange ==
  ASSUME NEW x \in Int
  PROVE  Min({Max({x, 0}), 4}) \in 0 .. 4
<1>1. 0 \in Int /\ 4 \in Int
  BY SMT
<1>2. Max({x, 0}) = IF x >= 0 THEN x ELSE 0
  BY <1>1, MaxOfTwo
<1>3. Max({x, 0}) \in Nat
  BY <1>2, SMT
<1>4. Max({x, 0}) \in Int
  BY <1>3, SMT
<1>5. Min({Max({x, 0}), 4}) = IF Max({x, 0}) <= 4 THEN Max({x, 0}) ELSE 4
  BY <1>1, <1>4, MinOfTwo
<1> QED
  BY <1>3, <1>5, SMT

(* NextDelay's delays are the promised ones, under a configured policy. *)
LEMMA NextDelayIsBackoff ==
  ASSUME NEW p, p.base \in Nat \ {0}, p.max \in 0 .. Pow2[Width - 2], p.jitter \in Int,
         NEW nth \in Nat \ {0}
  PROVE  IsBackoff(p, nth)
<1> DEFINE base == IF p.base = 0 THEN 1 ELSE p.base
           max == IF p.max = 0 THEN 30 ELSE p.max
           loop == Doubled(base, max, Max({nth, 1}))
           delay == Min({loop, max})
           jitter == Min({Max({p.jitter, 0}), 4})
<1>1. base = p.base /\ base \in Nat \ {0}
  BY SMT
<1>2. max \in 1 .. Pow2[Width - 2] /\ max \in Nat \ {0}
  <2>1. Width - 2 \in Nat
    BY WidthAssumption, SMT
  <2>2. Pow2[Width - 2] \in Nat
    BY <2>1, Powers
  <2> QED
    BY <2>2, DefaultMaxFits, SMT
<1>3. Max({nth, 1}) = nth
  <2>1. nth \in Int /\ 1 \in Int /\ nth >= 1
    BY SMT
  <2> QED
    BY <2>1, MaxOfTwo
<1>4. NextDelay(p, nth) = Drawn(delay, jitter)
  BY DEF NextDelay, Drawn
<1>5. Backoff(p, nth) = Min({p.base * Pow2[nth - 1], max})
  BY DEF Backoff
<1>6. jitter \in 0 .. 4
  BY JitterInRange
<1> HIDE DEF base, max, jitter
<1>7. Near(loop, p.base * Pow2[nth - 1], max)
  BY <1>1, <1>2, <1>3, DoubledIsNear
<1>8. p.base * Pow2[nth - 1] \in Int
  <2>1. nth - 1 \in Nat
    BY SMT
  <2>2. Pow2[nth - 1] \in Nat
    BY <2>1, Powers
  <2> QED
    BY <2>2, SMT
<1> HIDE DEF loop
<1>9. delay = Backoff(p, nth) /\ delay \in Nat \ {0}
  BY <1>2, <1>5, <1>7, <1>8, NearIsCapped
<1> HIDE DEF delay
<1>10. /\ Max(Drawn(delay, jitter)) <= delay
       /\ Min(Drawn(delay, jitter)) >= (delay * (4 - jitter)) \div 4
       /\ jitter = 0 => Drawn(delay, jitter) = {delay}
  BY <1>6, <1>9, DrawnDelays
<1>11. /\ Max(NextDelay(p, nth)) <= Backoff(p, nth)
       /\ Min(NextDelay(p, nth)) >= (Backoff(p, nth) * (4 - jitter)) \div 4
       /\ jitter = 0 => NextDelay(p, nth) = {Backoff(p, nth)}
  BY <1>4, <1>9, <1>10
<1> QED
  BY <1>11 DEF IsBackoff, jitter

(* RetryPolicy.NextDelay under any policy a worker may be given, with MaxDelay up
   to a quarter of the range of a Duration: from the first retry on, the delay is
   BaseDelay * 2^(attempt - 1), capped at MaxDelay, less at most the last Jitter
   part of it, and the doubling never overflows. *)
THEOREM DelaysBackOff ==
  ASSUME NEW p \in [base : Int, max : 0 .. Pow2[Width - 2], jitter : Int],
         NEW nth \in Nat \ {0}
  PROVE  IsBackoff(Configured(p), nth)
<1>1. CASE p.base <= 0
  <2>1. Configured(p) = DefaultRetryPolicy
    BY <1>1 DEF Configured
  <2>2. /\ DefaultRetryPolicy.base = 1 /\ DefaultRetryPolicy.max = 30
        /\ DefaultRetryPolicy.jitter = 2
    BY SMT DEF DefaultRetryPolicy
  <2>3. 30 \in 0 .. Pow2[Width - 2] /\ 1 \in Nat \ {0} /\ 2 \in Int
    <3>1. 30 \in 1 .. Pow2[Width - 2]
      BY DefaultMaxFits
    <3>2. Width - 2 \in Nat
      BY WidthAssumption, SMT
    <3>3. Pow2[Width - 2] \in Nat
      BY <3>2, Powers
    <3> QED
      BY <3>1, <3>3, SMT
  <2> QED
    BY <2>1, <2>2, <2>3, NextDelayIsBackoff
<1>2. CASE ~(p.base <= 0)
  <2>1. Configured(p) = p
    BY <1>2 DEF Configured
  <2>2. p.base \in Int /\ p.max \in 0 .. Pow2[Width - 2] /\ p.jitter \in Int
    BY SMT
  <2>3. p.base \in Nat \ {0}
    BY <1>2, <2>2, SMT
  <2> QED
    BY <2>1, <2>2, <2>3, NextDelayIsBackoff
<1> QED
  BY <1>1, <1>2

(* So it is in Metrics: for every policy, however many times a job is retried. *)
THEOREM DelaysAreBackoffs == Spec => []DelayIsBackoff
<1>1. ASSUME NEW p \in Policies, NEW nth \in 1 .. Width + 2
      PROVE  IsBackoff(Configured(p), nth)
  <2>1. p \in [base : Int, max : 0 .. Pow2[Width - 2], jitter : Int]
    <3>1. -1 .. 3 \subseteq Int /\ {-1, 0, 1, 2, 4, 5} \subseteq Int
      BY SMT
    <3> QED
      BY <3>1 DEF Policies
  <2>2. nth \in Nat \ {0}
    BY WidthAssumption, SMT
  <2> QED
    BY <2>1, <2>2, DelaysBackOff
<1>2. DelayIsBackoff
  BY <1>1 DEF DelayIsBackoff
<1> QED
  BY <1>2, PTL
=============================================================================
