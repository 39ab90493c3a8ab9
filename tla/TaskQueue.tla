------------------------------ MODULE TaskQueue ------------------------------
(***************************************************************************)
(* The contract of queue.Backend: what the rest of the system may assume   *)
(* of the queue, whatever stores it.  A job is one record, and each call   *)
(* changes it in one step.  Calls that carry a lease change something only *)
(* while the caller owns it; with a lost lease they return ErrLeaseLost    *)
(* and are not steps.  StreamStore is shown to implement this contract,    *)
(* and Worker and Downstream are built on it.                              *)
(***************************************************************************)
EXTENDS Naturals, FiniteSets

CONSTANTS
  Jobs,         \* job IDs
  Workers,      \* worker IDs
  MaxAttempts   \* Job.MaxAttempts

ASSUME QueueAssumption == MaxAttempts \in Nat \ {0}

VARIABLE job    \* job ID -> where the job is

Absent == [phase |-> "absent"]
Waiting(attempt) == [phase |-> "waiting", attempt |-> attempt]
Leased(attempt, owner, token, expired) ==
  [phase |-> "leased", attempt |-> attempt, owner |-> owner, token |-> token,
   expired |-> expired]
Done == [phase |-> "done"]
Dead == [phase |-> "dead"]

In(phase) == {j \in Jobs : job[j].phase = phase}

(* One run's view of a job: its ID and attempt and the Lease. *)
LeaseOn(j) ==
  [id |-> j, attempt |-> job[j].attempt, owner |-> job[j].owner, token |-> job[j].token]

Owns(l) == l.id \in In("leased") /\ LeaseOn(l.id) = l

Exhausted(attempt) == attempt + 1 >= MaxAttempts

QueueInit == job = [j \in Jobs |-> Absent]

Enqueue(js) ==
  /\ js \subseteq In("absent")
  /\ job' = [j \in Jobs |-> IF j \in js THEN Waiting(0) ELSE job[j]]

Claim(w, js) ==
  /\ js \subseteq In("waiting")
  /\ job' = [j \in Jobs |->
               IF j \in js THEN Leased(job[j].attempt, w, 1, FALSE) ELSE job[j]]

(* The lease on j goes without renewal for the visibility timeout. *)
Expire(j) ==
  /\ j \in In("leased")
  /\ ~job[j].expired
  /\ job' = [job EXCEPT ![j] = Leased(job[j].attempt, job[j].owner, job[j].token, TRUE)]

RecoverExpired(w, js) ==
  /\ \A j \in js : j \in In("leased") /\ job[j].expired
  /\ job' = [j \in Jobs |->
               IF j \in js THEN Leased(job[j].attempt, w, job[j].token + 1, FALSE)
               ELSE job[j]]

Extend(js) ==
  /\ js \subseteq In("leased")
  /\ job' = [j \in Jobs |->
               IF j \in js THEN Leased(job[j].attempt, job[j].owner, job[j].token, FALSE)
               ELSE job[j]]

Ack(js) ==
  /\ js \subseteq In("leased")
  /\ job' = [j \in Jobs |-> IF j \in js THEN Done ELSE job[j]]

Retry(j) ==
  /\ j \in In("leased")
  /\ ~Exhausted(job[j].attempt)
  /\ job' = [job EXCEPT ![j] = Waiting(job[j].attempt + 1)]

DeadLetter(j) ==
  /\ j \in In("leased")
  /\ job' = [job EXCEPT ![j] = Dead]

QueueNext ==
  \/ \E js \in SUBSET In("absent") : Enqueue(js)
  \/ \E w \in Workers, js \in SUBSET In("waiting") : Claim(w, js)
  \/ \E w \in Workers, js \in SUBSET In("leased") : RecoverExpired(w, js)
  \/ \E js \in SUBSET In("leased") : Extend(js) \/ Ack(js)
  \/ \E j \in Jobs : Expire(j) \/ Retry(j) \/ DeadLetter(j)

QueueSpec == QueueInit /\ [][QueueNext]_job

(* A job is in one of five phases; it has an attempt while it waits or is
   leased, and a lease while it is leased. *)
WellFormed(r) ==
  /\ r.phase \in {"absent", "waiting", "leased", "done", "dead"}
  /\ r.phase \in {"waiting", "leased"} => r.attempt \in 0 .. MaxAttempts - 1
  /\ r.phase = "leased" => r.owner \in Workers /\ r.token \in Nat \ {0}

QueueTypeOK ==
  /\ job = [j \in Jobs |-> job[j]]
  /\ \A j \in Jobs : WellFormed(job[j])
=============================================================================
