------------------------------- MODULE Metrics -------------------------------
(***************************************************************************)
(* prommetrics.Metrics, fed by the callbacks of handleOne and process in   *)
(* one process, whose workers share it.  Leases also go to other           *)
(* processes, runs of one job overlap, settling calls fail, and the clock  *)
(* goes on between any two steps.  Every task has a handler here.          *)
(***************************************************************************)
EXTENDS TaskQueue, RetryPolicy

CONSTANTS
  Others,        \* the workers of other processes
  MaxDeliveries, \* WorkerConfig.MaxDeliveries
  Policy,        \* WorkerConfig.RetryPolicy
  StaleAfter,    \* Metrics.staleAfter: 60
  SweepEvery,    \* Metrics.sweepEvery: 1
  MaxTime,       \* bound of the model: when the clock stops
  MaxFaults      \* bound of the model: settling calls that fail, runs cut off

ASSUME MetricsAssumption ==
  /\ Others \subseteq Workers
  /\ {MaxDeliveries, StaleAfter, MaxTime, MaxFaults} \subseteq Nat
  /\ SweepEvery \in Nat \ {0}

VARIABLES
  now,        \* the clock
  due,        \* job ID -> AvailableAt
  run,        \* lease -> how far handleOne has come, in this process
  began,      \* history: lease -> when JobStarted was called, of the runs that go on
  seen,       \* history: job ID, attempt -> how often it was delivered to this process
  startTimes, \* startKey -> time
  lastSweep,
  pickups,    \* histogram: job ID -> samples
  started,    \* counter
  durations,  \* histogram: number of samples
  count,      \* counters: outcome -> job ID -> how often
  faults      \* faults still to come

metrics == <<startTimes, lastSweep, pickups, started, durations, count>>
vars == <<job, now, due, run, began, seen, metrics, faults>>

KeyOfJob(l) == <<l.id, 0>>  \* fault for KeyOf: the job's ID is the key

(* keyOf: each attempt is an entry of its own in the stream, so the attempt
   stands for the message ID. *)
KeyOf(l) == <<l.id, l.attempt>>

AttemptOf(l) == <<l.id, l.attempt>>

(* failed and leaseLost are counted too, where this is said below. *)
Counters == {"completed", "retried", "deadLettered"}

Keys == Jobs \X (0 .. MaxAttempts - 1)

Init ==
  /\ QueueInit
  /\ now = 0 /\ lastSweep = 0
  /\ due = [j \in Jobs |-> 0]
  /\ run = <<>> /\ began = <<>> /\ startTimes = <<>>
  /\ seen = [k \in Keys |-> 0]
  /\ started = 0 /\ durations = 0
  /\ pickups = [j \in Jobs |-> 0]
  /\ count = [c \in Counters |-> [j \in Jobs |-> 0]]
  /\ faults = MaxFaults

Put(f, k, v) == [x \in DOMAIN f \cup {k} |-> IF x = k THEN v ELSE f[x]]
Without(f, k) == [x \in DOMAIN f \ {k} |-> f[x]]

At(l, pc) == l \in DOMAIN run /\ run[l] = pc
Goto(l, pc) == run' = [run EXCEPT ![l] = pc] /\ UNCHANGED <<began, seen>>
End(l) == run' = Without(run, l) /\ began' = Without(began, l) /\ UNCHANGED seen
Fault == faults > 0 /\ faults' = faults - 1
Inc(c, l) == count' = [count EXCEPT ![c][l.id] = @ + 1]

-----------------------------------------------------------------------------
(* The queue and the clock *)

Tick ==
  /\ now < MaxTime
  /\ now' = now + 1
  /\ UNCHANGED <<job, due, run, began, seen, metrics, faults>>

Submit(j) ==
  /\ Enqueue({j})
  /\ due' = [due EXCEPT ![j] = now]
  /\ UNCHANGED <<now, run, began, seen, metrics, faults>>

LeaseExpires(j) == Expire(j) /\ UNCHANGED <<now, due, run, began, seen, metrics, faults>>

(* A worker gets a lease; if it is one of this process, handleOne begins. *)
Begins(w, l) ==
  IF w \in Others THEN UNCHANGED <<run, seen>>
  ELSE run' = Put(run, l, "new") /\ seen' = [seen EXCEPT ![AttemptOf(l)] = @ + 1]

Lease(w, j) ==
  /\ \/ /\ Claim(w, {j}) /\ due[j] <= now
        /\ Begins(w, [id |-> j, attempt |-> job[j].attempt, owner |-> w, token |-> 1])
     \/ /\ RecoverExpired(w, {j})
        /\ job[j].token <= MaxDeliveries
        /\ Begins(w, [id |-> j, attempt |-> job[j].attempt, owner |-> w,
                      token |-> job[j].token + 1])
  /\ UNCHANGED <<now, due, began, metrics, faults>>

(* Another process settles a job it has leased. *)
OtherSettles(j) ==
  /\ j \in In("leased") /\ job[j].owner \in Others
  /\ Ack({j}) \/ DeadLetter(j)
  /\ UNCHANGED <<now, due, run, began, seen, metrics, faults>>

-----------------------------------------------------------------------------
(* handleOne and process, with the callbacks they make *)

(* handleOne's check. *)
TooMany(l) ==
  /\ At(l, "new") /\ l.token > MaxDeliveries
  /\ Goto(l, "burying")
  /\ UNCHANGED <<job, now, due, metrics, faults>>

(* Fault for Swept: only starts as old as the last sweep are dropped. *)
SweptOld(times) ==
  [k \in {k \in DOMAIN times : lastSweep - times[k] <= StaleAfter} |-> times[k]]

Swept(times) ==
  [k \in {k \in DOMAIN times : now - times[k] <= StaleAfter} |-> times[k]]

(* JobStarted, with sweepStale.  The series initTask creates are there from the
   start. *)
JobStarted(l) ==
  /\ At(l, "new") /\ l.token <= MaxDeliveries
  /\ run' = [run EXCEPT ![l] = "running"] /\ began' = Put(began, l, now)
  /\ started' = started + 1
  /\ LET times == Put(startTimes, KeyOf(l), now)
     IN  IF now - lastSweep < SweepEvery
         THEN startTimes' = times /\ UNCHANGED lastSweep
         ELSE startTimes' = Swept(times) /\ lastSweep' = now
  /\ pickups' = IF l.attempt = 0 /\ l.token = 1 THEN [pickups EXCEPT ![l.id] = @ + 1] ELSE pickups
  /\ UNCHANGED <<job, now, due, seen, durations, count, faults>>

Succeeds(l) ==
  /\ At(l, "running")
  /\ Goto(l, "acking")
  /\ UNCHANGED <<job, now, due, metrics, faults>>

(* JobFailed; failed is counted. *)
JobFailed(l, retryable) ==
  /\ At(l, "running")
  /\ Goto(l, IF retryable /\ ~Exhausted(l.attempt) THEN "retrying" ELSE "burying")
  /\ UNCHANGED <<job, now, due, metrics, faults>>

(* The context is done: the lease was lost, or shutdown cuts the run off. *)
CutOff(l) ==
  /\ At(l, "running")
  /\ \/ ~Owns(l) /\ Goto(l, "lost") /\ UNCHANGED faults
     \/ End(l) /\ Fault
  /\ UNCHANGED <<job, now, due, metrics>>

(* The settling call is carried out. *)
Carried(l) ==
  \/ At(l, "acking") /\ Ack({l.id}) /\ UNCHANGED due
  \/ /\ At(l, "retrying") /\ Retry(l.id)
     /\ \E d \in NextDelay(Configured(Policy), l.attempt + 1) :
          due' = [due EXCEPT ![l.id] = now + d]
  \/ At(l, "burying") /\ DeadLetter(l.id) /\ UNCHANGED due

Settling(l) == l \in DOMAIN run /\ run[l] \in {"acking", "retrying", "burying"}

Outcome(l) ==
  CASE run[l] = "acking" -> "completed"
    [] run[l] = "retrying" -> "retried"
    [] run[l] = "burying" -> "deadLettered"

(* Fault for Settle: ErrLeaseLost is taken for success. *)
SettleTwice(l) ==
  /\ Settling(l)
  /\ IF Owns(l) THEN Carried(l) ELSE UNCHANGED <<job, due>>
  /\ Goto(l, Outcome(l))
  /\ UNCHANGED <<now, metrics, faults>>

(* The settling call returns, with the callback still to come. *)
Settle(l) ==
  /\ Settling(l)
  /\ IF Owns(l)
     THEN Carried(l) /\ Goto(l, Outcome(l))
     ELSE UNCHANGED <<job, due>> /\ Goto(l, "lost")
  /\ UNCHANGED <<now, metrics, faults>>

(* The call fails, whether or not it was carried out, and there is no callback. *)
SettleFails(l) ==
  /\ Settling(l) /\ Fault
  /\ (Owns(l) /\ Carried(l)) \/ UNCHANGED <<job, due>>
  /\ End(l)
  /\ UNCHANGED <<now, metrics>>

(* LoadAndDelete and Observe, of the time since the start *)
ObserveDuration(l) ==
  /\ durations' = durations + Cardinality({KeyOf(l)} \cap DOMAIN startTimes)
  /\ startTimes' = Without(startTimes, KeyOf(l))

HasSettled(l) == l \in DOMAIN run /\ run[l] \in {"completed", "retried", "deadLettered"}

(* Fault for Settled: the start is looked up and not deleted. *)
SettledKeeping(l) ==
  /\ HasSettled(l)
  /\ durations' = durations + Cardinality({KeyOf(l)} \cap DOMAIN startTimes)
  /\ Inc(run[l], l)
  /\ End(l)
  /\ UNCHANGED <<job, now, due, startTimes, lastSweep, pickups, started, faults>>

(* JobCompleted, JobRetried and JobDeadLettered *)
Settled(l) ==
  /\ HasSettled(l)
  /\ ObserveDuration(l)
  /\ Inc(run[l], l)
  /\ End(l)
  /\ UNCHANGED <<job, now, due, lastSweep, pickups, started, faults>>

(* JobLeaseLost; leaseLost is counted. *)
JobLeaseLost(l) ==
  /\ At(l, "lost")
  /\ startTimes' = Without(startTimes, KeyOf(l))
  /\ End(l)
  /\ UNCHANGED <<job, now, due, lastSweep, pickups, started, durations, count, faults>>

RunStep(l) ==
  \/ TooMany(l) \/ JobStarted(l) \/ Succeeds(l) \/ CutOff(l)
  \/ \E retryable \in BOOLEAN : JobFailed(l, retryable)
  \/ Settle(l) \/ SettleFails(l) \/ Settled(l) \/ JobLeaseLost(l)

Next ==
  \/ Tick
  \/ \E j \in Jobs : Submit(j) \/ LeaseExpires(j) \/ OtherSettles(j) \/ \E w \in Workers : Lease(w, j)
  \/ \E l \in DOMAIN run : RunStep(l)

Spec == Init /\ [][Next]_vars

-----------------------------------------------------------------------------
(* Properties *)

Leases == [id : Jobs, attempt : 0 .. MaxAttempts - 1, owner : Workers, token : Nat \ {0}]

TypeOK ==
  /\ QueueTypeOK
  /\ now \in Nat /\ now <= MaxTime /\ lastSweep \in 0 .. now /\ faults \in 0 .. MaxFaults
  /\ DOMAIN due = Jobs /\ pickups \in [Jobs -> Nat]
  /\ count \in [Counters -> [Jobs -> Nat]]
  /\ started \in Nat /\ durations \in Nat
  /\ seen \in [Keys -> Nat]
  /\ DOMAIN run \subseteq Leases /\ IsFiniteSet(DOMAIN run)
  /\ DOMAIN began \subseteq DOMAIN run
  /\ \A l \in DOMAIN began : began[l] \in 0 .. now
  /\ DOMAIN startTimes \subseteq Keys /\ IsFiniteSet(DOMAIN startTimes)
  /\ \A k \in DOMAIN startTimes : startTimes[k] \in 0 .. now

(* JobStarted: "entries older than staleAfter are swept, at most once per
   sweepEvery".  Whenever a job starts, no start time is kept that is older than
   both together, though runs were cut off or their settling calls failed. *)
StaleStartsAreSwept ==
  [][\A l \in DOMAIN run : run[l] = "new" /\ run'[l] = "running" =>
       \A k \in DOMAIN startTimes' : now - startTimes'[k] < StaleAfter + SweepEvery]_vars

(* Each start time is spent on one duration at most: with runs of one job that
   overlap in the process, there are never more durations than runs. *)
StartsAreSpentOnce ==
  durations + Cardinality(DOMAIN startTimes) <= started

(* No other delivery of the same attempt was in this process.  One that was has
   the same message ID and so the same startKey, though startKey "identifies one
   delivery": its callbacks overwrite or delete the start of this one. *)
Alone(l) == seen[AttemptOf(l)] = 1

(* What the callback finds under the run's key. *)
Finds(l) == {startTimes[k] : k \in {KeyOf(l)} \cap DOMAIN startTimes}

(* JobCompleted, JobRetried, JobDeadLettered: the duration of a run that is the
   only delivery of its attempt in the process is its own; it is missing only if
   the run took longer than staleAfter.  Earlier attempts of the job may still
   run, end late or be swept. *)
DurationIsOwn ==
  \A l \in DOMAIN began : HasSettled(l) /\ Alone(l) =>
    \/ Finds(l) = {began[l]}
    \/ Finds(l) = {} /\ now - began[l] > StaleAfter

(* handleOne calls back only when the queue has done what is counted: a job is
   counted as completed or dead-lettered once and only if it is, retried no more
   often than it was, and picked up once, whatever zombies report. *)
CountersMatchQueue ==
  \A j \in Jobs :
    /\ count["completed"][j] + count["deadLettered"][j] <= 1
    /\ count["completed"][j] = 1 => job[j] = Done
    /\ count["deadLettered"][j] = 1 => job[j] = Dead
    /\ j \in In("waiting") \cup In("leased") => count["retried"][j] <= job[j].attempt
    /\ pickups[j] <= 1

(* NextDelay: "BaseDelay * 2^(attempt-1), capped at MaxDelay, with the last Jitter
   fraction of it randomized".  So it is for every retry that a job not enqueued
   yet can come to, far beyond the one at which the doubling would overflow, and
   for every policy its worker may be given with MaxDelay up to a quarter of the
   range of a Duration (146 years). *)
DelayIsBackoff ==
  \A j \in In("absent"), p \in Policies, nth \in 1 .. Width + 2 : IsBackoff(Configured(p), nth)

-----------------------------------------------------------------------------
(* What the proofs need besides *)

(* The lease l was handed out before the job's record became r, or is the one
   that r shows. *)
Issued(l, r) ==
  \/ r.phase \in {"done", "dead"}
  \/ r.phase \in {"waiting", "leased"} /\ l.attempt < r.attempt
  \/ /\ r.phase = "leased" /\ l.attempt = r.attempt
     /\ l.token < r.token \/ (l.token = r.token /\ l.owner = r.owner)

(* A run has a lease that was handed out, and no two have the same one. *)
RunsWereIssued ==
  \A l \in DOMAIN run :
    /\ Issued(l, job[l.id])
    /\ \A m \in DOMAIN run :
         l.id = m.id /\ l.attempt = m.attempt /\ l.token = m.token => l = m

(* An outcome about to be counted is what the queue did, by one run. *)
OutcomesMatchQueue ==
  \A l \in DOMAIN run :
    /\ run[l] = "completed" => job[l.id] = Done /\ count["completed"][l.id] = 0
    /\ run[l] = "deadLettered" => job[l.id] = Dead /\ count["deadLettered"][l.id] = 0
    /\ run[l] \in {"completed", "deadLettered"} =>
         \A m \in DOMAIN run : m.id = l.id /\ run[m] = run[l] => m = l

(* What CountersMatchQueue says of jobs that are done or dead. *)
FinalIsCountedOnce ==
  \A j \in Jobs :
    /\ count["completed"][j] + count["deadLettered"][j] <= 1
    /\ count["completed"][j] = 1 => job[j] = Done
    /\ count["deadLettered"][j] = 1 => job[j] = Dead

Retried(j) == {l \in DOMAIN run : l.id = j /\ run[l] = "retried"}

(* Each retry that was or is about to be counted raised the job's attempt. *)
RetriesMatchAttempt ==
  \A j \in Jobs :
    /\ j \in In("absent") => count["retried"][j] = 0
    /\ j \in In("waiting") \cup In("leased") =>
         count["retried"][j] + Cardinality(Retried(j)) <= job[j].attempt

(* Once a job was picked up, its first delivery is over. *)
PickupWasFirst ==
  \A j \in Jobs : pickups[j] > 0 =>
    /\ pickups[j] = 1
    /\ job[j].phase # "absent"
    /\ job[j].phase = "waiting" => job[j].attempt > 0
    /\ \A l \in DOMAIN run : l.id = j /\ l.attempt = 0 /\ l.token = 1 => run[l] # "new"

(* The last sweep left no stale start. *)
SweptAtLast ==
  \A k \in DOMAIN startTimes : lastSweep - startTimes[k] <= StaleAfter

(* Every run was counted as seen. *)
RunsWereSeen ==
  \A l \in DOMAIN run :
    /\ seen[AttemptOf(l)] > 0
    /\ Alone(l) => \A m \in DOMAIN run : l.id = m.id /\ l.attempt = m.attempt => l = m

(* DurationIsOwn, from the start of the run on. *)
StartIsOwn ==
  \A l \in DOMAIN began : Alone(l) =>
    IF KeyOf(l) \in DOMAIN startTimes THEN startTimes[KeyOf(l)] = began[l]
    ELSE now - began[l] > StaleAfter

MetricsIInv ==
  /\ TypeOK
  /\ StartsAreSpentOnce
  /\ RunsWereIssued /\ OutcomesMatchQueue /\ RetriesMatchAttempt /\ PickupWasFirst
  /\ FinalIsCountedOnce
  /\ SweptAtLast
  /\ RunsWereSeen /\ StartIsOwn
=============================================================================
