--------------------------- MODULE TaskQueueProofs ---------------------------
(***************************************************************************)
(* Facts about the calls of the Backend contract, for the proofs of the    *)
(* modules that are built on it.                                           *)
(***************************************************************************)
EXTENDS TaskQueue, TLAPS

(* Leaves are Zenon's, but for those that name SMT. *)
USE Zenon

(* The records the queue's calls leave are well-formed. *)
LEMMA Records ==
  /\ WellFormed(Absent) /\ Absent.phase = "absent"
  /\ WellFormed(Done) /\ Done.phase = "done"
  /\ WellFormed(Dead) /\ Dead.phase = "dead"
  /\ \A a \in 0 .. MaxAttempts - 1 : WellFormed(Waiting(a)) /\ Waiting(a).phase = "waiting"
  /\ \A e : \A a \in 0 .. MaxAttempts - 1, w \in Workers, t \in Nat \ {0} :
       WellFormed(Leased(a, w, t, e)) /\ Leased(a, w, t, e).phase = "leased"
BY SMT DEF WellFormed, Absent, Done, Dead, Waiting, Leased

(* The fields a leased or waiting job has. *)
LEMMA FieldTypes ==
  ASSUME QueueTypeOK, NEW j \in Jobs
  PROVE  /\ j \in In("waiting") => job[j].attempt \in 0 .. MaxAttempts - 1
         /\ j \in In("leased") => /\ job[j].attempt \in 0 .. MaxAttempts - 1
                                  /\ job[j].owner \in Workers
                                  /\ job[j].token \in Nat \ {0}
BY DEF QueueTypeOK, WellFormed, In

(* The calls of the queue keep every job's record well-formed, and only an ack
   makes a job done. *)
LEMMA EnqueueType ==
  ASSUME QueueTypeOK, NEW js, Enqueue(js)
  PROVE  QueueTypeOK' /\ \A j \in Jobs : job'[j].phase = "done" => job[j].phase = "done"
<1>1. 0 \in 0 .. MaxAttempts - 1
  BY QueueAssumption, SMT
<1> QED
  BY <1>1, Records DEF QueueTypeOK, Enqueue

(* Claim leases waiting jobs. *)
LEMMA ClaimType ==
  ASSUME QueueTypeOK, NEW w \in Workers, NEW js, Claim(w, js)
  PROVE  QueueTypeOK' /\ \A j \in Jobs : job'[j].phase = "done" => job[j].phase = "done"
<1>1. ASSUME NEW j \in js
      PROVE  /\ WellFormed(Leased(job[j].attempt, w, 1, FALSE))
             /\ Leased(job[j].attempt, w, 1, FALSE).phase = "leased"
  <2>1. j \in Jobs /\ j \in In("waiting")
    BY DEF Claim, In
  <2>2. job[j].attempt \in 0 .. MaxAttempts - 1 /\ 1 \in Nat \ {0}
    BY <2>1, FieldTypes, SMT
  <2> QED
    BY <2>2, Records
<1> QED
  BY <1>1 DEF QueueTypeOK, Claim

(* Expire only raises the flag of a lease. *)
LEMMA ExpireType ==
  ASSUME QueueTypeOK, NEW j \in Jobs, Expire(j)
  PROVE  QueueTypeOK' /\ \A i \in Jobs : job'[i].phase = "done" => job[i].phase = "done"
<1> DEFINE r == Leased(job[j].attempt, job[j].owner, job[j].token, TRUE)
<1>1. WellFormed(r) /\ r.phase = "leased"
  BY FieldTypes, Records DEF Expire
<1>2. job' = [job EXCEPT ![j] = r]
  BY DEF Expire
<1> HIDE DEF r
<1> QED
  BY <1>1, <1>2 DEF QueueTypeOK

(* RecoverExpired gives a leased job the next token. *)
LEMMA RecoverType ==
  ASSUME QueueTypeOK, NEW w \in Workers, NEW js, RecoverExpired(w, js)
  PROVE  QueueTypeOK' /\ \A j \in Jobs : job'[j].phase = "done" => job[j].phase = "done"
<1>1. ASSUME NEW j \in js
      PROVE  /\ WellFormed(Leased(job[j].attempt, w, job[j].token + 1, FALSE))
             /\ Leased(job[j].attempt, w, job[j].token + 1, FALSE).phase = "leased"
  <2>1. j \in Jobs /\ j \in In("leased")
    BY DEF RecoverExpired, In
  <2>2. job[j].token + 1 \in Nat \ {0}
    BY <2>1, FieldTypes, SMT
  <2> QED
    BY <2>1, <2>2, FieldTypes, Records
<1> QED
  BY <1>1 DEF QueueTypeOK, RecoverExpired

(* Extend only lowers the flag of leases. *)
LEMMA ExtendType ==
  ASSUME QueueTypeOK, NEW js, Extend(js)
  PROVE  QueueTypeOK' /\ \A j \in Jobs : job'[j].phase = "done" => job[j].phase = "done"
<1>1. ASSUME NEW j \in js
      PROVE  /\ WellFormed(Leased(job[j].attempt, job[j].owner, job[j].token, FALSE))
             /\ Leased(job[j].attempt, job[j].owner, job[j].token, FALSE).phase = "leased"
  <2>1. j \in Jobs /\ j \in In("leased")
    BY DEF Extend, In
  <2> QED
    BY <2>1, FieldTypes, Records
<1> QED
  BY <1>1 DEF QueueTypeOK, Extend

(* Ack makes exactly the acked jobs done. *)
LEMMA AckType ==
  ASSUME QueueTypeOK, NEW js, Ack(js)
  PROVE  QueueTypeOK' /\ \A i \in Jobs : job'[i].phase = "done" => job[i].phase = "done" \/ i \in js
BY Records DEF QueueTypeOK, Ack

(* Retry counts an attempt that is still allowed. *)
LEMMA RetryType ==
  ASSUME QueueTypeOK, NEW j \in Jobs, Retry(j)
  PROVE  QueueTypeOK' /\ \A i \in Jobs : job'[i].phase = "done" => job[i].phase = "done"
<1> DEFINE r == Waiting(job[j].attempt + 1)
<1>1. job[j].attempt + 1 \in 0 .. MaxAttempts - 1
  BY FieldTypes, QueueAssumption, SMT DEF Retry, Exhausted
<1>2. WellFormed(r) /\ r.phase = "waiting"
  BY <1>1, Records
<1>3. job' = [job EXCEPT ![j] = r]
  BY DEF Retry
<1> HIDE DEF r
<1> QED
  BY <1>2, <1>3 DEF QueueTypeOK

(* DeadLetter makes a job dead. *)
LEMMA DeadLetterType ==
  ASSUME QueueTypeOK, NEW j \in Jobs, DeadLetter(j)
  PROVE  QueueTypeOK' /\ \A i \in Jobs : job'[i].phase = "done" => job[i].phase = "done"
BY Records DEF QueueTypeOK, DeadLetter
=============================================================================
