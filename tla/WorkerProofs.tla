---------------------------- MODULE WorkerProofs ----------------------------
(***************************************************************************)
(* Proofs about Worker, for any number of jobs and workers and any         *)
(* configuration of them: WorkerIInv is inductive, and with it nobody      *)
(* waits in vain for an ack's answer, slots are respected, a job is        *)
(* completed once, and its starts are bounded.  QuietIInv is inductive     *)
(* while nothing fails, and then a job starts once for each attempt.       *)
(***************************************************************************)
EXTENDS Worker, TaskQueueProofs, FiniteSetTheorems

(* Leaves are Zenon's, but for those that name SMT. *)
USE Zenon

-----------------------------------------------------------------------------
(* How a job's record may go on *)

(* s may be the record of a job some time after r was: done is final, a lease
   that had been issued still has, and the deliveries do not get fewer. *)
Follows(r, s) ==
  /\ r = Done => s = Done
  /\ \A l \in Lease : Issued(l, r) => Issued(l, s)
  /\ Deliveries(r) <= Deliveries(s)

Advances == QueueTypeOK' /\ \A j \in Jobs : Follows(job[j], job'[j])

(* Multiplication by a natural number is monotonic. *)
LEMMA TimesMonotonic ==
  ASSUME NEW a \in Nat, NEW b \in Nat, NEW m \in Nat, a <= b
  PROVE  a * m \in Nat /\ b * m \in Nat /\ a * m <= b * m /\ (a + 1) * m = a * m + m
BY SMT

(* The deliveries that each kind of record stands for. *)
LEMMA DeliveriesOf ==
  /\ Deliveries(Absent) = 0
  /\ \A a : Deliveries(Waiting(a)) = a * MaxDeliveries
  /\ \A a, o, t, e : Deliveries(Leased(a, o, t, e)) =
       a * MaxDeliveries + (IF t > MaxDeliveries THEN MaxDeliveries ELSE t)
  /\ Deliveries(Done) = MaxAttempts * MaxDeliveries
  /\ Deliveries(Dead) = MaxAttempts * MaxDeliveries
BY SMT DEF Deliveries, Absent, Waiting, Leased, Done, Dead

(* Those deliveries, for a well-formed record. *)
LEMMA DeliveriesBounds ==
  ASSUME NEW r, WellFormed(r)
  PROVE  /\ Deliveries(r) \in Nat
         /\ Deliveries(r) <= MaxAttempts * MaxDeliveries
         /\ r.phase = "leased" =>
              /\ r.attempt * MaxDeliveries \in Nat
              /\ Deliveries(r) = r.attempt * MaxDeliveries
                   + (IF r.token > MaxDeliveries THEN MaxDeliveries ELSE r.token)
              /\ Deliveries(r) <= (r.attempt + 1) * MaxDeliveries
         /\ r.phase = "waiting" => Deliveries(r) = r.attempt * MaxDeliveries
<1>0. MaxDeliveries \in Nat \ {0} /\ MaxAttempts \in Nat \ {0}
  BY WorkerAssumption, QueueAssumption
<1>1. MaxAttempts * MaxDeliveries \in Nat
  BY <1>0, TimesMonotonic, SMT
<1>2. CASE r.phase \in {"waiting", "leased"}
  <2>1. r.attempt \in Nat /\ r.attempt + 1 \in Nat /\ r.attempt + 1 <= MaxAttempts
    BY <1>0, <1>2, SMT DEF WellFormed
  <2> DEFINE am == r.attempt * MaxDeliveries
             bm == (r.attempt + 1) * MaxDeliveries
             cm == MaxAttempts * MaxDeliveries
  <2>2. am \in Nat /\ bm \in Nat /\ cm \in Nat /\ bm = am + MaxDeliveries /\ bm <= cm
    <3>1. am \in Nat /\ bm = am + MaxDeliveries
      BY <1>0, <2>1, SMT
    <3>2. bm \in Nat /\ cm \in Nat /\ bm <= cm
      BY <1>0, <2>1, TimesMonotonic
    <3> QED
      BY <3>1, <3>2
  <2>3. r.phase = "waiting" => Deliveries(r) = am
    BY DEF Deliveries
  <2>4. r.phase = "leased" =>
          /\ r.token \in Nat
          /\ Deliveries(r) = am + (IF r.token > MaxDeliveries THEN MaxDeliveries ELSE r.token)
    BY DEF Deliveries, WellFormed
  <2> HIDE DEF am, bm, cm
  <2>5. /\ Deliveries(r) \in Nat /\ Deliveries(r) <= cm
        /\ r.phase = "leased" => Deliveries(r) <= bm
    <3>1. CASE r.phase = "waiting"
      BY <1>0, <2>2, <2>3, <3>1, SMT
    <3>2. CASE r.phase = "leased"
      BY <1>0, <2>2, <2>4, <3>2, SMT
    <3> QED
      BY <1>2, <3>1, <3>2
  <2> QED
    BY <2>2, <2>3, <2>4, <2>5 DEF am, bm, cm
<1>3. CASE r.phase \in {"absent", "done", "dead"}
  BY <1>0, <1>1, <1>3, SMT DEF Deliveries
<1> QED
  BY <1>2, <1>3 DEF WellFormed

(* A record follows itself. *)
LEMMA FollowsItself ==
  ASSUME NEW r, WellFormed(r)
  PROVE  Follows(r, r)
BY DeliveriesBounds, SMT DEF Follows

(* Enqueue. *)
LEMMA FollowsAbsent ==
  ASSUME NEW r, WellFormed(r), r.phase = "absent"
  PROVE  Follows(r, Waiting(0))
<1>1. r # Done
  BY Records
<1>2. \A l \in Lease : ~Issued(l, r)
  BY DEF Issued
<1>3. 0 \in 0 .. MaxAttempts - 1 /\ MaxDeliveries \in Nat
  BY QueueAssumption, WorkerAssumption, SMT
<1>4. Deliveries(r) = 0 /\ Deliveries(Waiting(0)) = 0 * MaxDeliveries
  BY <1>3, DeliveriesOf DEF Deliveries
<1> QED
  BY <1>1, <1>2, <1>3, <1>4, SMT DEF Follows

(* Claim. *)
LEMMA FollowsWaiting ==
  ASSUME NEW r, WellFormed(r), r.phase = "waiting",
         NEW w, NEW t \in Nat \ {0}, NEW e
  PROVE  Follows(r, Leased(r.attempt, w, t, e))
<1> DEFINE s == Leased(r.attempt, w, t, e)
<1>1. r # Done /\ r.attempt \in 0 .. MaxAttempts - 1
  BY Records DEF WellFormed
<1>2. s.phase = "leased" /\ s.attempt = r.attempt
  BY DEF Leased
<1>3. \A l \in Lease : Issued(l, r) => Issued(l, s)
  BY <1>2 DEF Issued
<1>4. /\ MaxDeliveries \in Nat \ {0} /\ r.attempt * MaxDeliveries \in Nat
      /\ Deliveries(r) = r.attempt * MaxDeliveries
      /\ Deliveries(s) = r.attempt * MaxDeliveries
           + (IF t > MaxDeliveries THEN MaxDeliveries ELSE t)
  <2>1. Deliveries(r) = r.attempt * MaxDeliveries /\ Deliveries(r) \in Nat
    BY DeliveriesBounds
  <2>2. Deliveries(s) = r.attempt * MaxDeliveries
          + (IF t > MaxDeliveries THEN MaxDeliveries ELSE t)
    BY DeliveriesOf, SMT
  <2> HIDE DEF s
  <2> QED
    BY <2>1, <2>2, WorkerAssumption
<1> HIDE DEF s
<1>5. Deliveries(r) <= Deliveries(s)
  BY <1>4, SMT
<1> QED
  BY <1>1, <1>3, <1>5 DEF Follows, s

(* Expire, Extend and RecoverExpired. *)
LEMMA FollowsLeased ==
  ASSUME NEW r, WellFormed(r), r.phase = "leased",
         NEW w, NEW t \in Nat, t >= r.token, NEW e
  PROVE  Follows(r, Leased(r.attempt, w, t, e))
<1> DEFINE s == Leased(r.attempt, w, t, e)
<1>1. r # Done /\ r.attempt \in 0 .. MaxAttempts - 1 /\ r.token \in Nat \ {0} /\ t \in Nat \ {0}
  BY Records, SMT DEF WellFormed
<1>2. s.phase = "leased" /\ s.attempt = r.attempt /\ s.token = t
  BY DEF Leased
<1>3. \A l \in Lease : Issued(l, r) => Issued(l, s)
  BY <1>1, <1>2, SMT DEF Issued, Lease
<1>4. /\ MaxDeliveries \in Nat \ {0} /\ r.attempt * MaxDeliveries \in Nat
      /\ Deliveries(r) = r.attempt * MaxDeliveries
           + (IF r.token > MaxDeliveries THEN MaxDeliveries ELSE r.token)
      /\ Deliveries(s) = r.attempt * MaxDeliveries
           + (IF t > MaxDeliveries THEN MaxDeliveries ELSE t)
  BY <1>1, DeliveriesOf, DeliveriesBounds, WorkerAssumption, SMT
<1> HIDE DEF s
<1>5. Deliveries(r) <= Deliveries(s)
  BY <1>1, <1>4, SMT
<1> QED
  BY <1>1, <1>3, <1>5 DEF Follows, s

(* Ack and DeadLetter. *)
LEMMA FollowsSettled ==
  ASSUME NEW r, WellFormed(r), r.phase = "leased"
  PROVE  Follows(r, Done) /\ Follows(r, Dead)
<1>1. r # Done
  BY Records
<1>2. \A l \in Lease : Issued(l, Done) /\ Issued(l, Dead)
  BY DEF Issued, Done, Dead
<1>3. 0 \in 0 .. MaxAttempts - 1 /\ 1 \in Nat \ {0}
  BY QueueAssumption, SMT
<1>4. /\ Deliveries(Done) = MaxAttempts * MaxDeliveries
      /\ Deliveries(Dead) = MaxAttempts * MaxDeliveries
  BY <1>3, DeliveriesOf
<1> QED
  BY <1>1, <1>2, <1>4, DeliveriesBounds DEF Follows

(* Retry. *)
LEMMA FollowsRetry ==
  ASSUME NEW r, WellFormed(r), r.phase = "leased", ~Exhausted(r.attempt)
  PROVE  Follows(r, Waiting(r.attempt + 1))
<1> DEFINE s == Waiting(r.attempt + 1)
<1>1. /\ r # Done /\ r.attempt \in 0 .. MaxAttempts - 1
      /\ r.attempt + 1 \in 0 .. MaxAttempts - 1
  BY Records, QueueAssumption, SMT DEF WellFormed, Exhausted
<1>2. s.phase = "waiting" /\ s.attempt = r.attempt + 1
  BY DEF Waiting
<1>3. \A l \in Lease : Issued(l, r) => Issued(l, s)
  BY <1>1, <1>2, SMT DEF Issued, Lease
<1>4. Deliveries(s) = (r.attempt + 1) * MaxDeliveries
  BY DeliveriesOf
<1>5. Deliveries(r) <= (r.attempt + 1) * MaxDeliveries
  BY DeliveriesBounds
<1> HIDE DEF s
<1>6. Deliveries(r) <= Deliveries(s)
  BY <1>4, <1>5
<1> QED
  BY <1>1, <1>3, <1>6 DEF Follows, s

-----------------------------------------------------------------------------
(* Every call of the queue lets every job's record go on *)

(* Nothing happens to any job. *)
LEMMA UnchangedAdvances ==
  ASSUME QueueTypeOK, UNCHANGED job
  PROVE  Advances
<1>1. QueueTypeOK'
  BY DEF QueueTypeOK
<1>2. \A j \in Jobs : Follows(job[j], job[j])
  BY FollowsItself DEF QueueTypeOK
<1> QED
  BY <1>1, <1>2 DEF Advances

(* Enqueue. *)
LEMMA EnqueueAdvances ==
  ASSUME QueueTypeOK, NEW js, Enqueue(js)
  PROVE  Advances
<1>1. ASSUME NEW j \in Jobs
      PROVE  Follows(job[j], job'[j])
  <2>1. WellFormed(job[j])
    BY DEF QueueTypeOK
  <2>2. CASE j \in js
    <3>1. job[j].phase = "absent" /\ job'[j] = Waiting(0)
      BY <2>2 DEF Enqueue, In
    <3> QED
      BY <2>1, <3>1, FollowsAbsent
  <2>3. CASE j \notin js
    BY <2>1, <2>3, FollowsItself DEF Enqueue
  <2> QED
    BY <2>2, <2>3
<1> QED
  BY <1>1, EnqueueType DEF Advances

(* Claim. *)
LEMMA ClaimAdvances ==
  ASSUME QueueTypeOK, NEW w \in Workers, NEW js, Claim(w, js)
  PROVE  Advances
<1>1. ASSUME NEW j \in Jobs
      PROVE  Follows(job[j], job'[j])
  <2>1. WellFormed(job[j])
    BY DEF QueueTypeOK
  <2>2. CASE j \in js
    <3>1. job[j].phase = "waiting" /\ job'[j] = Leased(job[j].attempt, w, 1, FALSE)
      BY <2>2 DEF Claim, In
    <3>2. 1 \in Nat \ {0}
      BY SMT
    <3> QED
      BY <2>1, <3>1, <3>2, FollowsWaiting
  <2>3. CASE j \notin js
    BY <2>1, <2>3, FollowsItself DEF Claim
  <2> QED
    BY <2>2, <2>3
<1> QED
  BY <1>1, ClaimType DEF Advances

(* Expire. *)
LEMMA ExpireAdvances ==
  ASSUME QueueTypeOK, NEW i \in Jobs, Expire(i)
  PROVE  Advances
<1>1. ASSUME NEW j \in Jobs
      PROVE  Follows(job[j], job'[j])
  <2>1. WellFormed(job[j])
    BY DEF QueueTypeOK
  <2>2. CASE j = i
    <3>1. /\ job[j].phase = "leased"
          /\ job'[j] = Leased(job[j].attempt, job[j].owner, job[j].token, TRUE)
      BY <2>2 DEF Expire, In, QueueTypeOK
    <3>2. job[j].token \in Nat /\ job[j].token >= job[j].token
      BY <2>1, <3>1, SMT DEF WellFormed
    <3> QED
      BY <2>1, <3>1, <3>2, FollowsLeased
  <2>3. CASE j # i
    BY <2>1, <2>3, FollowsItself, SMT DEF Expire, QueueTypeOK
  <2> QED
    BY <2>2, <2>3
<1> QED
  BY <1>1, ExpireType DEF Advances

(* RecoverExpired. *)
LEMMA RecoverAdvances ==
  ASSUME QueueTypeOK, NEW w \in Workers, NEW js, RecoverExpired(w, js)
  PROVE  Advances
<1>1. ASSUME NEW j \in Jobs
      PROVE  Follows(job[j], job'[j])
  <2>1. WellFormed(job[j])
    BY DEF QueueTypeOK
  <2>2. CASE j \in js
    <3>1. /\ job[j].phase = "leased"
          /\ job'[j] = Leased(job[j].attempt, w, job[j].token + 1, FALSE)
      BY <2>2 DEF RecoverExpired, In
    <3>2. job[j].token + 1 \in Nat /\ job[j].token + 1 >= job[j].token
      BY <2>1, <3>1, SMT DEF WellFormed
    <3> QED
      BY <2>1, <3>1, <3>2, FollowsLeased
  <2>3. CASE j \notin js
    BY <2>1, <2>3, FollowsItself DEF RecoverExpired
  <2> QED
    BY <2>2, <2>3
<1> QED
  BY <1>1, RecoverType DEF Advances

(* Extend. *)
LEMMA ExtendAdvances ==
  ASSUME QueueTypeOK, NEW js, Extend(js)
  PROVE  Advances
<1>1. ASSUME NEW j \in Jobs
      PROVE  Follows(job[j], job'[j])
  <2>1. WellFormed(job[j])
    BY DEF QueueTypeOK
  <2>2. CASE j \in js
    <3>1. /\ job[j].phase = "leased"
          /\ job'[j] = Leased(job[j].attempt, job[j].owner, job[j].token, FALSE)
      BY <2>2 DEF Extend, In
    <3>2. job[j].token \in Nat /\ job[j].token >= job[j].token
      BY <2>1, <3>1, SMT DEF WellFormed
    <3> QED
      BY <2>1, <3>1, <3>2, FollowsLeased
  <2>3. CASE j \notin js
    BY <2>1, <2>3, FollowsItself DEF Extend
  <2> QED
    BY <2>2, <2>3
<1> QED
  BY <1>1, ExtendType DEF Advances

(* Ack. *)
LEMMA AckAdvances ==
  ASSUME QueueTypeOK, NEW js, Ack(js)
  PROVE  Advances
<1>1. \A j \in Jobs : WellFormed(job[j])
  BY DEF QueueTypeOK
<1>2. \A j \in Jobs : j \in js => job[j].phase = "leased"
  BY DEF Ack, In
<1>3. \A j \in Jobs : Follows(job[j], job'[j])
  BY <1>1, <1>2, FollowsSettled, FollowsItself DEF Ack
<1> QED
  BY <1>3, AckType DEF Advances

(* Retry. *)
LEMMA RetryAdvances ==
  ASSUME QueueTypeOK, NEW i \in Jobs, Retry(i)
  PROVE  Advances
<1>1. \A j \in Jobs : WellFormed(job[j])
  BY DEF QueueTypeOK
<1>2. job[i].phase = "leased" /\ ~Exhausted(job[i].attempt)
  BY DEF Retry, In
<1>3. Follows(job[i], Waiting(job[i].attempt + 1))
  BY <1>1, <1>2, FollowsRetry
<1>4. \A j \in Jobs : Follows(job[j], job'[j])
  BY <1>1, <1>3, FollowsItself DEF Retry, QueueTypeOK
<1> QED
  BY <1>4, RetryType DEF Advances

(* DeadLetter. *)
LEMMA DeadLetterAdvances ==
  ASSUME QueueTypeOK, NEW i \in Jobs, DeadLetter(i)
  PROVE  Advances
<1>1. \A j \in Jobs : WellFormed(job[j])
  BY DEF QueueTypeOK
<1>2. job[i].phase = "leased"
  BY DEF DeadLetter, In
<1>3. \A j \in Jobs : Follows(job[j], job'[j])
  BY <1>1, <1>2, FollowsSettled, FollowsItself DEF DeadLetter, QueueTypeOK
<1> QED
  BY <1>3, DeadLetterType DEF Advances

-----------------------------------------------------------------------------
(* What the operators on the running map do to it *)

(* Worker w's running map is m now, and nobody else's changes. *)
BecomesMap(w, m) ==
  /\ runs' = [v \in Workers |-> runs'[v]]
  /\ runs'[w] = m
  /\ \A v \in Workers \ {w} : runs'[v] = runs[v]

(* Start. *)
LEMMA StartRuns ==
  ASSUME TypeOK, NEW w \in Workers, NEW ls, Start(w, ls)
  PROVE  /\ runs' = [v \in Workers |-> runs'[v]]
         /\ \A v \in Workers \ {w} : runs'[v] = runs[v]
         /\ Running(w)' = Running(w) \cup ls
         /\ \A l \in ls : runs'[w][l].pc = "new" /\ runs'[w][l] \in Goroutine
         /\ \A l \in ls : runs'[w][l].ctx = "live"
         /\ \A l \in Running(w) \ ls : runs'[w][l] = runs[w][l]
<1> DEFINE g == [pc |-> "new", ctx |-> "live"]
           m == [l \in Running(w) \cup ls |-> IF l \in ls THEN g ELSE runs[w][l]]
<1>1. runs = [v \in Workers |-> runs[v]] /\ runs' = [runs EXCEPT ![w] = m]
  BY DEF TypeOK, Start
<1>2. g.pc = "new" /\ g.ctx = "live" /\ g \in Goroutine
  BY DEF Goroutine
<1> HIDE DEF g
<1>3. /\ DOMAIN m = Running(w) \cup ls
      /\ \A l \in ls : m[l] = g
      /\ \A l \in Running(w) \ ls : m[l] = runs[w][l]
  OBVIOUS
<1> HIDE DEF m
<1>4. BecomesMap(w, m)
  BY <1>1 DEF BecomesMap
<1> QED
  BY <1>2, <1>3, <1>4 DEF BecomesMap, Running

(* End. *)
LEMMA EndRuns ==
  ASSUME TypeOK, NEW w \in Workers, NEW ls, End(w, ls)
  PROVE  /\ runs' = [v \in Workers |-> runs'[v]]
         /\ \A v \in Workers \ {w} : runs'[v] = runs[v]
         /\ Running(w)' = Running(w) \ ls
         /\ \A l \in Running(w) \ ls : runs'[w][l] = runs[w][l]
<1> DEFINE m == Restrict(runs[w], Running(w) \ ls)
<1>1. runs = [v \in Workers |-> runs[v]] /\ runs' = [runs EXCEPT ![w] = m]
  BY DEF TypeOK, End, Without
<1>2. /\ DOMAIN m = Running(w) \ ls
      /\ \A l \in Running(w) \ ls : m[l] = runs[w][l]
  BY DEF Restrict
<1> HIDE DEF m
<1>3. BecomesMap(w, m)
  BY <1>1 DEF BecomesMap
<1> QED
  BY <1>2, <1>3 DEF BecomesMap, Running

(* Goto. *)
LEMMA GotoRuns ==
  ASSUME TypeOK, NEW w \in Workers, NEW l \in Running(w), NEW pc, Goto(w, l, pc),
         pc \in {"new", "running", "acking", "burying", "retrying"}
  PROVE  /\ runs' = [v \in Workers |-> runs'[v]]
         /\ \A v \in Workers \ {w} : runs'[v] = runs[v]
         /\ Running(w)' = Running(w)
         /\ runs'[w][l].pc = pc /\ runs'[w][l] \in Goroutine
         /\ runs'[w][l].ctx = runs[w][l].ctx
         /\ \A k \in Running(w) \ {l} : runs'[w][k] = runs[w][k]
<1> DEFINE g == [runs[w][l] EXCEPT !.pc = pc]
           m == [runs[w] EXCEPT ![l] = g]
<1>1. runs = [v \in Workers |-> runs[v]] /\ runs' = [runs EXCEPT ![w] = m]
  BY DEF TypeOK, Goto
<1>2. runs[w][l] \in Goroutine
  BY DEF TypeOK
<1>3. g.pc = pc /\ g.ctx = runs[w][l].ctx /\ g \in Goroutine
  BY <1>2 DEF Goroutine
<1> HIDE DEF g
<1>4. /\ DOMAIN m = Running(w) /\ m[l] = g
      /\ \A k \in Running(w) \ {l} : m[k] = runs[w][k]
  BY DEF Running
<1> HIDE DEF m
<1>5. BecomesMap(w, m)
  BY <1>1 DEF BecomesMap
<1> QED
  BY <1>3, <1>4, <1>5 DEF BecomesMap, Running

(* Cancelled. *)
LEMMA CancelledRuns ==
  ASSUME TypeOK, NEW w \in Workers, NEW ls, NEW cause \in {"lease lost", "shutdown"},
         runs' = [runs EXCEPT ![w] = Cancelled(w, ls, cause)]
  PROVE  /\ runs' = [v \in Workers |-> runs'[v]]
         /\ \A v \in Workers \ {w} : runs'[v] = runs[v]
         /\ Running(w)' = Running(w)
         /\ \A l \in Running(w) : runs'[w][l] \in Goroutine /\ runs'[w][l].pc = runs[w][l].pc
<1> DEFINE m == Cancelled(w, ls, cause)
<1>1. runs = [v \in Workers |-> runs[v]] /\ runs' = [runs EXCEPT ![w] = m]
  BY DEF TypeOK
<1>2. DOMAIN m = Running(w)
  BY DEF Cancelled
<1>3. ASSUME NEW l \in Running(w)
      PROVE  m[l] \in Goroutine /\ m[l].pc = runs[w][l].pc
  <2> DEFINE g == [runs[w][l] EXCEPT !.ctx = cause]
  <2>1. runs[w][l] \in Goroutine
    BY DEF TypeOK
  <2>2. g \in Goroutine /\ g.pc = runs[w][l].pc
    BY <2>1 DEF Goroutine
  <2>3. m[l] = g \/ m[l] = runs[w][l]
    BY DEF Cancelled
  <2> HIDE DEF g, m
  <2> QED
    BY <2>1, <2>2, <2>3
<1> HIDE DEF m
<1>4. BecomesMap(w, m)
  BY <1>1 DEF BecomesMap
<1> QED
  BY <1>2, <1>3, <1>4 DEF BecomesMap, Running

-----------------------------------------------------------------------------
(* What it takes to keep each part of the invariant *)

(* Nothing is leased in this step: what the workers hold only gets less. *)
HoldsLess ==
  \A v \in Workers : /\ Running(v)' \subseteq Running(v)
                     /\ fetched'[v] \subseteq fetched[v]
                     /\ quota'[v] <= quota[v]
                     /\ quota'[v] = 0 => fetched'[v] = {}

(* A step that leases nothing keeps what is known of the leases held. *)
LEMMA ShrinkStep ==
  ASSUME WorkerIInv, Advances, TypeOK', HoldsLess
  PROVE  LeasesAreIssued' /\ HeldIsFinite' /\ ConcurrencyRespected'
<1> SUFFICES ASSUME NEW v \in Workers
             PROVE  /\ \A l \in Running(v)' \cup fetched'[v] : l.owner = v /\ Issued(l, job'[l.id])
                    /\ fetched'[v] \cap Running(v)' = {}
                    /\ quota'[v] = 0 => fetched'[v] = {}
                    /\ IsFiniteSet(Running(v)') /\ IsFiniteSet(fetched'[v])
                    /\ Cardinality(Running(v)') + Cardinality(fetched'[v]) + quota'[v] <= Concurrency
  BY DEF LeasesAreIssued, HeldIsFinite, ConcurrencyRespected
<1>1. /\ Running(v)' \subseteq Running(v) /\ fetched'[v] \subseteq fetched[v]
      /\ quota'[v] <= quota[v] /\ (quota'[v] = 0 => fetched'[v] = {})
  BY DEF HoldsLess
<1>2. /\ \A l \in Running(v) \cup fetched[v] : l.owner = v /\ Issued(l, job[l.id])
      /\ fetched[v] \cap Running(v) = {}
      /\ IsFiniteSet(Running(v)) /\ IsFiniteSet(fetched[v])
      /\ Cardinality(Running(v)) + Cardinality(fetched[v]) + quota[v] <= Concurrency
  BY DEF WorkerIInv, LeasesAreIssued, HeldIsFinite, ConcurrencyRespected
<1>3. \A l \in Running(v) \cup fetched[v] : l \in Lease /\ l.id \in Jobs
  BY SMT DEF WorkerIInv, TypeOK, Lease
<1>4. \A l \in Running(v) \cup fetched[v] : Issued(l, job'[l.id])
  BY <1>2, <1>3 DEF Advances, Follows
<1>5. /\ IsFiniteSet(Running(v)') /\ Cardinality(Running(v)') <= Cardinality(Running(v))
      /\ IsFiniteSet(fetched'[v]) /\ Cardinality(fetched'[v]) <= Cardinality(fetched[v])
  BY <1>1, <1>2, FS_Subset
<1>6. /\ Cardinality(Running(v)) \in Nat /\ Cardinality(Running(v)') \in Nat
      /\ Cardinality(fetched[v]) \in Nat /\ Cardinality(fetched'[v]) \in Nat
  BY <1>2, <1>5, FS_CardinalityType
<1>7. quota[v] \in Nat /\ quota'[v] \in Nat /\ Concurrency \in Nat
  BY WorkerAssumption, SMT DEF WorkerIInv, TypeOK
<1>8. Cardinality(Running(v)') + Cardinality(fetched'[v]) + quota'[v] <= Concurrency
  BY <1>1, <1>2, <1>5, <1>6, <1>7, SMT
<1> QED
  BY <1>1, <1>2, <1>4, <1>5, <1>8

(* A step that starts nothing, and leases nothing that may start, keeps within
   the deliveries. *)
LEMMA StartsStep ==
  ASSUME WorkerIInv, Advances, UNCHANGED starts,
         \A v \in Workers : Unstarted(v)' \subseteq Unstarted(v)
  PROVE  StartsAreDeliveries'
<1> SUFFICES ASSUME NEW j \in Jobs
             PROVE  /\ IsFiniteSet(MayStart(j)')
                    /\ starts[j] + Cardinality(MayStart(j)') <= Deliveries(job'[j])
  BY DEF StartsAreDeliveries
<1>1. MayStart(j)' \subseteq MayStart(j)
  BY DEF MayStart, TooMany
<1>2. IsFiniteSet(MayStart(j)) /\ starts[j] + Cardinality(MayStart(j)) <= Deliveries(job[j])
  BY DEF WorkerIInv, StartsAreDeliveries
<1>3. IsFiniteSet(MayStart(j)') /\ Cardinality(MayStart(j)') <= Cardinality(MayStart(j))
  BY <1>1, <1>2, FS_Subset
<1>4. Cardinality(MayStart(j)) \in Nat /\ Cardinality(MayStart(j)') \in Nat
  BY <1>2, <1>3, FS_CardinalityType
<1>5. Deliveries(job[j]) <= Deliveries(job'[j])
  BY DEF Advances, Follows
<1>6. Deliveries(job[j]) \in Nat /\ Deliveries(job'[j]) \in Nat
  BY DeliveriesBounds DEF WorkerIInv, TypeOK, QueueTypeOK, Advances
<1>7. starts[j] \in Nat
  BY DEF WorkerIInv, TypeOK
<1> QED
  BY <1>2, <1>3, <1>4, <1>5, <1>6, <1>7, SMT

(* A step that completes nothing leaves the completed jobs done. *)
LEMMA CompletedStep ==
  ASSUME WorkerIInv, Advances, UNCHANGED completed
  PROVE  CompletedOnce'
<1>1. \A l \in completed : l.id \in Jobs
  BY DEF WorkerIInv, TypeOK, Lease
<1> QED
  BY <1>1 DEF WorkerIInv, CompletedOnce, Advances, Follows

(* Most steps lease, start and complete nothing; of the invariant only the
   types and the acks are left to look at. *)
LEMMA QuietStep ==
  ASSUME WorkerIInv, Advances, TypeOK', AckersAreAnswered', HoldsLess,
         UNCHANGED <<starts, completed>>,
         \A v \in Workers : Unstarted(v)' \subseteq Unstarted(v)
  PROVE  WorkerIInv'
BY ShrinkStep, StartsStep, CompletedStep DEF WorkerIInv

(* That is so when only the running maps get smaller. *)
LEMMA RunsLess ==
  ASSUME WorkerIInv, UNCHANGED fetchVars, \A v \in Workers : Running(v)' \subseteq Running(v)
  PROVE  HoldsLess
<1>1. \A v \in Workers : quota[v] \in Nat /\ (quota[v] = 0 => fetched[v] = {})
  BY SMT DEF WorkerIInv, TypeOK, LeasesAreIssued
<1> QED
  BY <1>1, SMT DEF HoldsLess, fetchVars

(* The running map is as it was but for contexts, or a run that leaves it or is
   past its start: no start becomes possible. *)
LEMMA NoNewStarts ==
  ASSUME UNCHANGED fetched,
         \A v \in Workers : \A l \in Running(v)' :
           /\ l \in Running(v)
           /\ runs'[v][l].pc = "new" => runs[v][l].pc = "new"
  PROVE  \A v \in Workers : Unstarted(v)' \subseteq Unstarted(v)
BY DEF Unstarted, Running

-----------------------------------------------------------------------------
(* The actions *)

(* Steps that change nothing of what a worker runs. *)
LEMMA StillStep ==
  ASSUME WorkerIInv, Advances, TypeOK', UNCHANGED <<fetchVars, runs, ackVars, historyVars>>
  PROVE  WorkerIInv'
<1>1. AckersAreAnswered'
  BY DEF WorkerIInv, AckersAreAnswered, Running, ackVars
<1>2. HoldsLess
  BY RunsLess DEF Running
<1>3. \A v \in Workers : Unstarted(v)' \subseteq Unstarted(v)
  BY DEF Unstarted, Running, fetchVars
<1>4. UNCHANGED <<starts, completed>>
  BY DEF historyVars
<1> QED
  BY <1>1, <1>2, <1>3, <1>4, QuietStep

(* One more fault, at most. *)
LEMMA FaultType ==
  ASSUME faults \in 0 .. MaxFaults, Fault \/ UNCHANGED faults
  PROVE  faults' \in 0 .. MaxFaults
BY WorkerAssumption, SMT DEF Fault

(* Submit. *)
LEMMA SubmitKeeps ==
  ASSUME WorkerIInv, NEW j \in Jobs, Submit(j)
  PROVE  WorkerIInv'
<1>1. Advances
  BY EnqueueAdvances DEF WorkerIInv, TypeOK, Submit
<1>2. TypeOK'
  BY <1>1 DEF WorkerIInv, TypeOK, Advances, Submit, Running, fetchVars, ackVars, historyVars
<1> QED
  BY <1>1, <1>2, StillStep DEF Submit

(* LeaseExpires. *)
LEMMA LeaseExpiresKeeps ==
  ASSUME WorkerIInv, NEW j \in Jobs, LeaseExpires(j)
  PROVE  WorkerIInv'
<1>1. Advances
  BY ExpireAdvances DEF WorkerIInv, TypeOK, LeaseExpires
<1>2. faults' \in 0 .. MaxFaults
  BY FaultType DEF WorkerIInv, TypeOK, LeaseExpires
<1>3. TypeOK'
  BY <1>1, <1>2 DEF WorkerIInv, TypeOK, Advances, LeaseExpires, Running, fetchVars, ackVars,
                    historyVars
<1> QED
  BY <1>1, <1>3, StillStep DEF LeaseExpires

(* Tick, Shutdown, Return and Restart. *)
LEMMA StatusKeeps ==
  ASSUME WorkerIInv, NEW w \in Workers, Tick(w) \/ Shutdown(w) \/ Return(w) \/ Restart(w)
  PROVE  WorkerIInv'
<1>1. UNCHANGED <<job, fetchVars, runs, ackVars, faults, historyVars>>
  BY DEF Tick, Shutdown, Return, Restart
<1>2. Advances
  BY <1>1, UnchangedAdvances DEF WorkerIInv, TypeOK
<1>3. /\ status' \in [Workers -> {"up", "draining", "cancelled", "stopped", "crashed"}]
      /\ held' \in [Workers -> SUBSET Lease]
  <2>1. Running(w) \subseteq Lease
    BY DEF WorkerIInv, TypeOK
  <2> QED
    BY <2>1 DEF WorkerIInv, TypeOK, Tick, Shutdown, Return, Restart
<1>4. TypeOK'
  BY <1>1, <1>2, <1>3, SMT DEF WorkerIInv, TypeOK, Advances, Running, fetchVars, ackVars, historyVars
<1> QED
  BY <1>1, <1>2, <1>4, StillStep

(* A goroutine that is not waiting for an ack returns. *)
LEMMA EndKeeps ==
  ASSUME WorkerIInv, Advances, NEW w \in Workers, NEW l \in Running(w),
         runs[w][l].pc # "acking", End(w, {l}), faults' \in 0 .. MaxFaults,
         UNCHANGED <<status, fetchVars, ackVars, held, historyVars>>
  PROVE  WorkerIInv'
<1>0. TypeOK
  BY DEF WorkerIInv
<1>1. /\ runs' = [v \in Workers |-> runs'[v]]
      /\ \A v \in Workers \ {w} : runs'[v] = runs[v]
      /\ Running(w)' = Running(w) \ {l}
      /\ \A k \in Running(w) \ {l} : runs'[w][k] = runs[w][k]
  BY <1>0, EndRuns
<1>2. \A v \in Workers : \A k \in Running(v)' :
        k \in Running(v) /\ runs'[v][k] = runs[v][k]
  BY <1>1 DEF Running
<1>3. TypeOK'
  BY <1>0, <1>1, <1>2 DEF TypeOK, Advances, fetchVars, ackVars, historyVars
<1>4. \A v \in Workers : {k \in Running(v)' : runs'[v][k].pc = "acking"}
                           = {k \in Running(v) : runs[v][k].pc = "acking"}
  BY <1>1, SMT DEF Running
<1>5. AckersAreAnswered'
  BY <1>4 DEF WorkerIInv, AckersAreAnswered, ackVars
<1>6. HoldsLess
  BY <1>2, RunsLess
<1>7. \A v \in Workers : Unstarted(v)' \subseteq Unstarted(v)
  BY <1>2, NoNewStarts DEF fetchVars
<1> QED
  BY <1>3, <1>5, <1>6, <1>7, QuietStep DEF historyVars

(* A goroutine goes on to settle its job, not by an ack. *)
LEMMA GotoKeeps ==
  ASSUME WorkerIInv, NEW w \in Workers, NEW l \in Running(w), runs[w][l].pc # "acking",
         NEW pc \in {"burying", "retrying"}, Goto(w, l, pc),
         UNCHANGED <<job, status, fetchVars, ackVars, held, faults, historyVars>>
  PROVE  WorkerIInv'
<1>0. /\ TypeOK /\ Advances
      /\ pc \in {"new", "running", "acking", "burying", "retrying"}
  BY UnchangedAdvances DEF WorkerIInv, TypeOK
<1>1. /\ runs' = [v \in Workers |-> runs'[v]]
      /\ \A v \in Workers \ {w} : runs'[v] = runs[v]
      /\ Running(w)' = Running(w)
      /\ runs'[w][l].pc = pc /\ runs'[w][l] \in Goroutine
      /\ runs'[w][l].ctx = runs[w][l].ctx
      /\ \A k \in Running(w) \ {l} : runs'[w][k] = runs[w][k]
  BY <1>0, GotoRuns
<1>2. \A v \in Workers : Running(v)' = Running(v)
  BY <1>1 DEF Running
<1>3. \A v \in Workers : \A k \in Running(v) :
        runs'[v][k] = runs[v][k] \/ (v = w /\ k = l)
  BY <1>1 DEF Running
<1>4. TypeOK'
  BY <1>0, <1>1, <1>2, <1>3, SMT DEF TypeOK, Advances, fetchVars, ackVars, historyVars
<1>5. \A v \in Workers : {k \in Running(v)' : runs'[v][k].pc = "acking"}
                           = {k \in Running(v) : runs[v][k].pc = "acking"}
  BY <1>1, <1>2, <1>3
<1>6. AckersAreAnswered'
  BY <1>5 DEF WorkerIInv, AckersAreAnswered, ackVars
<1>7. HoldsLess
  BY <1>2, RunsLess
<1>8. \A v \in Workers : Unstarted(v)' \subseteq Unstarted(v)
  <2>1. \A v \in Workers : \A k \in Running(v)' :
          k \in Running(v) /\ (runs'[v][k].pc = "new" => runs[v][k].pc = "new")
    BY <1>1, <1>2, <1>3
  <2> QED
    BY <2>1, NoNewStarts DEF fetchVars
<1> QED
  BY <1>0, <1>4, <1>6, <1>7, <1>8, QuietStep DEF historyVars

(* The handler is started: one start more, one lease less that may start. *)
LEMMA HandlerStarts ==
  ASSUME WorkerIInv, NEW w \in Workers, NEW l \in Running(w), runs[w][l].pc = "new",
         ~TooMany(l), Goto(w, l, "running"), starts' = [starts EXCEPT ![l.id] = @ + 1],
         UNCHANGED <<job, status, fetchVars, ackVars, held, faults, completed>>
  PROVE  WorkerIInv'
<1>0. TypeOK /\ Advances
  BY UnchangedAdvances DEF WorkerIInv, TypeOK
<1>1. /\ runs' = [v \in Workers |-> runs'[v]]
      /\ \A v \in Workers \ {w} : runs'[v] = runs[v]
      /\ Running(w)' = Running(w)
      /\ runs'[w][l].pc = "running" /\ runs'[w][l] \in Goroutine
      /\ runs'[w][l].ctx = runs[w][l].ctx
      /\ \A k \in Running(w) \ {l} : runs'[w][k] = runs[w][k]
  BY <1>0, GotoRuns
<1>2. \A v \in Workers : Running(v)' = Running(v)
  BY <1>1 DEF Running
<1>3. \A v \in Workers : \A k \in Running(v) :
        runs'[v][k] = runs[v][k] \/ (v = w /\ k = l)
  BY <1>1 DEF Running
<1>4. l.id \in Jobs /\ starts \in [Jobs -> Nat] /\ starts' \in [Jobs -> Nat]
  BY <1>0, SMT DEF TypeOK, Lease
<1>5. TypeOK'
  BY <1>0, <1>1, <1>2, <1>3, <1>4, SMT DEF TypeOK, Advances, fetchVars, ackVars
<1>6. \A v \in Workers : {k \in Running(v)' : runs'[v][k].pc = "acking"}
                           = {k \in Running(v) : runs[v][k].pc = "acking"}
  BY <1>1, <1>2, <1>3, SMT
<1>7. AckersAreAnswered'
  BY <1>6 DEF WorkerIInv, AckersAreAnswered, ackVars
<1>8. HoldsLess
  BY <1>2, RunsLess
<1>9. StartsAreDeliveries'
  <2> SUFFICES ASSUME NEW j \in Jobs
               PROVE  /\ IsFiniteSet(MayStart(j)')
                      /\ starts'[j] + Cardinality(MayStart(j)') <= Deliveries(job[j])
    BY DEF StartsAreDeliveries
  <2>1. /\ IsFiniteSet(MayStart(j)) /\ starts[j] + Cardinality(MayStart(j)) <= Deliveries(job[j])
        /\ starts[j] \in Nat /\ Deliveries(job[j]) \in Nat
    BY DeliveriesBounds DEF WorkerIInv, StartsAreDeliveries, TypeOK, QueueTypeOK
  <2>2. \A v \in Workers : Unstarted(v)' = Unstarted(v) \ {l}
    <3>1. l \notin fetched[w]
      BY DEF WorkerIInv, LeasesAreIssued
    <3>2. \A v \in Workers \ {w} : l \notin Running(v) \cup fetched[v]
      <4>1. l.owner = w
        BY DEF WorkerIInv, LeasesAreIssued
      <4> QED
        BY <4>1 DEF WorkerIInv, LeasesAreIssued
    <3> QED
      BY <1>1, <1>2, <1>3, <3>1, <3>2, SMT DEF Unstarted, fetchVars
  <2>3. MayStart(j)' = MayStart(j) \ {l}
    BY <2>2, SMT DEF MayStart, TooMany
  <2>4. l \in MayStart(l.id)
    BY SMT DEF MayStart, Unstarted
  <2>5. /\ IsFiniteSet(MayStart(j) \ {l})
        /\ Cardinality(MayStart(j) \ {l}) = IF l \in MayStart(j) THEN Cardinality(MayStart(j)) - 1
                                            ELSE Cardinality(MayStart(j))
    BY <2>1, FS_RemoveElement
  <2>6. Cardinality(MayStart(j)) \in Nat
    BY <2>1, FS_CardinalityType
  <2>7. starts'[j] = IF j = l.id THEN starts[j] + 1 ELSE starts[j]
    BY <1>4
  <2>8. CASE j = l.id
    BY <2>1, <2>3, <2>4, <2>5, <2>6, <2>7, <2>8, SMT
  <2>9. CASE j # l.id
    <3>1. Cardinality(MayStart(j) \ {l}) <= Cardinality(MayStart(j))
          /\ Cardinality(MayStart(j) \ {l}) \in Nat
      BY <2>1, <2>5, FS_Subset, FS_CardinalityType
    <3> QED
      BY <2>1, <2>3, <2>5, <2>6, <2>7, <2>9, <3>1, SMT
  <2> QED
    BY <2>8, <2>9
<1> QED
  BY <1>0, <1>5, <1>7, <1>8, <1>9, ShrinkStep, CompletedStep DEF WorkerIInv

(* HandleOne. *)
LEMMA HandleOneKeeps ==
  ASSUME WorkerIInv, NEW w \in Workers, NEW l \in Running(w), HandleOne(w, l)
  PROVE  WorkerIInv'
<1>1. runs[w][l].pc = "new"
  BY DEF HandleOne, At
<1>2. CASE Goto(w, l, "burying") /\ UNCHANGED starts
  BY <1>1, <1>2, GotoKeeps DEF HandleOne, historyVars
<1>3. CASE End(w, {l}) /\ UNCHANGED starts
  <2>1. Advances /\ faults' \in 0 .. MaxFaults
    BY UnchangedAdvances DEF WorkerIInv, TypeOK, HandleOne
  <2> QED
    BY <1>1, <1>3, <2>1, EndKeeps DEF HandleOne, historyVars
<1>4. CASE /\ ~TooMany(l) /\ Goto(w, l, "running")
           /\ starts' = [starts EXCEPT ![l.id] = @ + 1]
  BY <1>1, <1>4, HandlerStarts DEF HandleOne
<1> QED
  BY <1>2, <1>3, <1>4 DEF HandleOne

(* Abandon. *)
LEMMA AbandonKeeps ==
  ASSUME WorkerIInv, NEW w \in Workers, NEW l \in Running(w), Abandon(w, l)
  PROVE  WorkerIInv'
<1>1. Advances /\ faults' \in 0 .. MaxFaults
  BY UnchangedAdvances DEF WorkerIInv, TypeOK, Abandon
<1> QED
  BY <1>1, EndKeeps DEF Abandon, At

(* Fail. *)
LEMMA FailKeeps ==
  ASSUME WorkerIInv, NEW w \in Workers, NEW l \in Running(w), NEW retryable, Fail(w, l, retryable)
  PROVE  WorkerIInv'
<1>1. runs[w][l].pc # "acking" /\ (Goto(w, l, "burying") \/ Goto(w, l, "retrying"))
  BY DEF Fail, Returns, At
<1> QED
  BY <1>1, GotoKeeps DEF Fail

(* Bury and ScheduleRetry. *)
LEMMA SettleKeeps ==
  ASSUME WorkerIInv, NEW w \in Workers, NEW l \in Running(w), Bury(w, l) \/ ScheduleRetry(w, l)
  PROVE  WorkerIInv'
<1>1. /\ runs[w][l].pc # "acking" /\ End(w, {l})
      /\ UNCHANGED <<status, fetchVars, ackVars, held, historyVars>>
  BY DEF Bury, ScheduleRetry, At
<1>2. QueueTypeOK /\ faults \in 0 .. MaxFaults
  BY DEF WorkerIInv, TypeOK
<1>3. \/ Owns(l) /\ (DeadLetter(l.id) \/ Retry(l.id)) /\ UNCHANGED faults
      \/ CallFails(w, l)
  BY DEF Bury, ScheduleRetry
<1>4. Advances /\ faults' \in 0 .. MaxFaults
  <2>1. CASE Owns(l) /\ (DeadLetter(l.id) \/ Retry(l.id)) /\ UNCHANGED faults
    <3>1. l.id \in Jobs
      BY <2>1 DEF Owns, In
    <3> QED
      BY <1>2, <2>1, <3>1, DeadLetterAdvances, RetryAdvances
  <2>2. CASE CallFails(w, l)
    BY <1>2, <2>2, UnchangedAdvances, FaultType DEF CallFails, FaultUnless
  <2> QED
    BY <1>3, <2>1, <2>2
<1> QED
  BY <1>1, <1>4, EndKeeps

(* Succeed. *)
LEMMA SucceedKeeps ==
  ASSUME WorkerIInv, NEW w \in Workers, NEW l \in Running(w), Succeed(w, l)
  PROVE  WorkerIInv'
<1>0. TypeOK /\ Advances /\ runs[w][l].pc = "running"
  BY UnchangedAdvances DEF WorkerIInv, TypeOK, Succeed, Returns, At
<1>1. /\ runs' = [v \in Workers |-> runs'[v]]
      /\ \A v \in Workers \ {w} : runs'[v] = runs[v]
      /\ Running(w)' = Running(w)
      /\ runs'[w][l].pc = "acking" /\ runs'[w][l] \in Goroutine
      /\ runs'[w][l].ctx = runs[w][l].ctx
      /\ \A k \in Running(w) \ {l} : runs'[w][k] = runs[w][k]
  BY <1>0, GotoRuns DEF Succeed
<1>2. \A v \in Workers : Running(v)' = Running(v)
  BY <1>1 DEF Running
<1>3. \A v \in Workers : \A k \in Running(v) :
        runs'[v][k] = runs[v][k] \/ (v = w /\ k = l)
  BY <1>1 DEF Running
<1>4. l \in Lease /\ acks \in [Workers -> SUBSET Lease]
  BY <1>0 DEF TypeOK
<1>5. /\ acks' \in [Workers -> SUBSET Lease]
      /\ acks'[w] = acks[w] \cup {l} /\ \A v \in Workers \ {w} : acks'[v] = acks[v]
      /\ batch' = batch
  BY <1>4 DEF Succeed
<1>6. TypeOK'
  BY <1>0, <1>1, <1>2, <1>3, <1>5, SMT DEF TypeOK, Advances, fetchVars, historyVars, Succeed
<1>7. AckersAreAnswered'
  <2> SUFFICES ASSUME NEW v \in Workers
               PROVE  /\ acks'[v] \cap batch'[v] = {}
                      /\ acks'[v] \cup batch'[v] = {k \in Running(v)' : runs'[v][k].pc = "acking"}
    BY DEF AckersAreAnswered
  <2>1. /\ acks[v] \cap batch[v] = {}
        /\ acks[v] \cup batch[v] = {k \in Running(v) : runs[v][k].pc = "acking"}
    BY DEF WorkerIInv, AckersAreAnswered
  <2>2. CASE v = w
    BY <1>0, <1>1, <1>5, <2>1, <2>2, SMT
  <2>3. CASE v # w
    BY <1>1, <1>2, <1>5, <2>1, <2>3, SMT
  <2> QED
    BY <2>2, <2>3
<1>8. HoldsLess
  BY <1>2, RunsLess DEF Succeed
<1>9. \A v \in Workers : Unstarted(v)' \subseteq Unstarted(v)
  <2>1. \A v \in Workers : \A k \in Running(v)' :
          k \in Running(v) /\ (runs'[v][k].pc = "new" => runs[v][k].pc = "new")
    BY <1>1, <1>2, <1>3
  <2> QED
    BY <2>1, NoNewStarts DEF fetchVars, Succeed
<1> QED
  BY <1>0, <1>6, <1>7, <1>8, <1>9, QuietStep DEF historyVars, Succeed

(* TakeAcks. *)
LEMMA TakeAcksKeeps ==
  ASSUME WorkerIInv, NEW w \in Workers, NEW ls, TakeAcks(w, ls)
  PROVE  WorkerIInv'
<1>0. TypeOK /\ Advances
  BY UnchangedAdvances DEF WorkerIInv, TypeOK, TakeAcks
<1>1. acks \in [Workers -> SUBSET Lease] /\ batch \in [Workers -> SUBSET Lease]
  BY <1>0 DEF TypeOK
<1>2. /\ ls \subseteq acks[w] /\ batch[w] = {}
      /\ acks' \in [Workers -> SUBSET Lease] /\ batch' \in [Workers -> SUBSET Lease]
      /\ acks'[w] = acks[w] \ ls /\ batch'[w] = ls
      /\ \A v \in Workers \ {w} : acks'[v] = acks[v] /\ batch'[v] = batch[v]
  BY <1>1 DEF TakeAcks
<1>3. /\ UNCHANGED <<fetchVars, runs, historyVars>>
      /\ \A v \in Workers : Running(v)' = Running(v)
  BY DEF TakeAcks, Running
<1>4. TypeOK'
  BY <1>0, <1>2, <1>3, SMT DEF TypeOK, Advances, fetchVars, historyVars, TakeAcks
<1>5. AckersAreAnswered'
  <2> SUFFICES ASSUME NEW v \in Workers
               PROVE  /\ acks'[v] \cap batch'[v] = {}
                      /\ acks'[v] \cup batch'[v] = {k \in Running(v)' : runs'[v][k].pc = "acking"}
    BY DEF AckersAreAnswered
  <2>1. /\ acks[v] \cap batch[v] = {}
        /\ acks[v] \cup batch[v] = {k \in Running(v) : runs[v][k].pc = "acking"}
    BY DEF WorkerIInv, AckersAreAnswered
  <2>2. CASE v = w
    <3>1. acks'[v] \cap batch'[v] = {} /\ acks'[v] \cup batch'[v] = acks[v] \cup batch[v]
      BY <1>2, <2>2
    <3> QED
      BY <1>3, <2>1, <3>1
  <2>3. CASE v # w
    BY <1>2, <1>3, <2>1, <2>3, SMT
  <2> QED
    BY <2>2, <2>3
<1>6. HoldsLess
  BY <1>3, RunsLess
<1>7. \A v \in Workers : Unstarted(v)' \subseteq Unstarted(v)
  BY <1>3 DEF Unstarted, fetchVars
<1> QED
  BY <1>0, <1>3, <1>4, <1>5, <1>6, <1>7, QuietStep, SMT DEF historyVars

(* The leases of an ack that landed are reported, once. *)
LEMMA AckCompletes ==
  ASSUME WorkerIInv, NEW ls, Ack(IDs(OwnedOf(ls))), completed' = completed \cup OwnedOf(ls)
  PROVE  CompletedOnce'
<1>1. \A l \in completed : l.id \in Jobs /\ job[l.id] = Done
  BY DEF WorkerIInv, CompletedOnce, TypeOK, Lease
<1>2. \A l \in OwnedOf(ls) : /\ l.id \in Jobs /\ job[l.id].phase = "leased"
                             /\ LeaseOn(l.id) = l /\ l.id \in IDs(OwnedOf(ls))
  BY DEF OwnedOf, Owns, In, IDs
<1>3. \A l \in completed' : job'[l.id] = Done
  BY <1>1, <1>2 DEF Ack
<1>4. \A l, k \in completed' : l.id = k.id => l = k
  <2>1. \A l \in completed, k \in OwnedOf(ls) : l.id # k.id
    BY <1>1, <1>2, Records
  <2>2. \A l, k \in completed : l.id = k.id => l = k
    BY DEF WorkerIInv, CompletedOnce
  <2>3. \A l, k \in OwnedOf(ls) : l.id = k.id => l = k
    BY <1>2
  <2> QED
    BY <2>1, <2>2, <2>3, SMT
<1> QED
  BY <1>3, <1>4 DEF CompletedOnce

(* AckCall. *)
LEMMA AckCallKeeps ==
  ASSUME WorkerIInv, NEW w \in Workers, AckCall(w)
  PROVE  WorkerIInv'
<1>0. TypeOK /\ QueueTypeOK /\ batch \in [Workers -> SUBSET Lease] /\ faults \in 0 .. MaxFaults
  BY DEF WorkerIInv, TypeOK
<1>1. Advances
  BY <1>0, AckAdvances, UnchangedAdvances DEF AckCall
<1>2. /\ runs' = [v \in Workers |-> runs'[v]]
      /\ \A v \in Workers \ {w} : runs'[v] = runs[v]
      /\ Running(w)' = Running(w) \ batch[w]
      /\ \A k \in Running(w) \ batch[w] : runs'[w][k] = runs[w][k]
  BY <1>0, EndRuns DEF AckCall
<1>3. \A v \in Workers : \A k \in Running(v)' :
        k \in Running(v) /\ runs'[v][k] = runs[v][k]
  BY <1>2 DEF Running
<1>4. /\ batch' \in [Workers -> SUBSET Lease] /\ batch'[w] = {}
      /\ \A v \in Workers \ {w} : batch'[v] = batch[v]
      /\ UNCHANGED <<status, fetchVars, acks, held, starts>>
  BY <1>0 DEF AckCall
<1>5. faults' \in 0 .. MaxFaults /\ completed' \subseteq Lease
  <2>1. Fault \/ UNCHANGED faults
    BY DEF AckCall, FaultUnless
  <2>2. completed \subseteq Lease /\ OwnedOf(batch[w]) \subseteq Lease
    BY <1>0 DEF TypeOK, OwnedOf
  <2> QED
    BY <1>0, <2>1, <2>2, FaultType DEF AckCall
<1>6. TypeOK'
  BY <1>0, <1>1, <1>2, <1>3, <1>4, <1>5, SMT DEF TypeOK, Advances, fetchVars
<1>7. AckersAreAnswered'
  <2> SUFFICES ASSUME NEW v \in Workers
               PROVE  /\ acks'[v] \cap batch'[v] = {}
                      /\ acks'[v] \cup batch'[v] = {k \in Running(v)' : runs'[v][k].pc = "acking"}
    BY DEF AckersAreAnswered
  <2>1. /\ acks[v] \cap batch[v] = {}
        /\ acks[v] \cup batch[v] = {k \in Running(v) : runs[v][k].pc = "acking"}
    BY DEF WorkerIInv, AckersAreAnswered
  <2>2. CASE v = w
    BY <1>2, <1>4, <2>1, <2>2, SMT
  <2>3. CASE v # w
    BY <1>2, <1>4, <2>1, <2>3 DEF Running
  <2> QED
    BY <2>2, <2>3
<1>8. CompletedOnce'
  <2>1. CASE UNCHANGED completed
    BY <1>1, <2>1, CompletedStep
  <2>2. CASE Ack(IDs(OwnedOf(batch[w]))) /\ completed' = completed \cup OwnedOf(batch[w])
    BY <2>2, AckCompletes
  <2> QED
    BY <2>1, <2>2 DEF AckCall
<1>9. HoldsLess
  BY <1>3, <1>4, RunsLess
<1>10. \A v \in Workers : Unstarted(v)' \subseteq Unstarted(v)
  BY <1>3, <1>4, NoNewStarts DEF fetchVars
<1> QED
  BY <1>1, <1>4, <1>6, <1>7, <1>8, <1>9, <1>10, ShrinkStep, StartsStep, SMT DEF WorkerIInv

-----------------------------------------------------------------------------
(* The heartbeat, shutdown, crashes, and the head of the Run loop *)

(* Contexts are cancelled. *)
LEMMA CancelKeeps ==
  ASSUME WorkerIInv, Advances, NEW w \in Workers,
         runs' = [v \in Workers |-> runs'[v]],
         \A v \in Workers \ {w} : runs'[v] = runs[v],
         Running(w)' = Running(w),
         \A l \in Running(w) : runs'[w][l] \in Goroutine /\ runs'[w][l].pc = runs[w][l].pc,
         status' \in [Workers -> {"up", "draining", "cancelled", "stopped", "crashed"}],
         held' \in [Workers -> SUBSET Lease], faults' \in 0 .. MaxFaults,
         UNCHANGED <<fetchVars, ackVars, historyVars>>
  PROVE  WorkerIInv'
<1>0. TypeOK
  BY DEF WorkerIInv
<1>2. \A v \in Workers : Running(v)' = Running(v)
  BY DEF Running
<1>3. \A v \in Workers : \A l \in Running(v) :
        runs'[v][l] \in Goroutine /\ runs'[v][l].pc = runs[v][l].pc
  BY <1>0 DEF TypeOK
<1>4. TypeOK'
  BY <1>0, <1>2, <1>3, SMT DEF TypeOK, Advances, fetchVars, ackVars, historyVars
<1>5. \A v \in Workers : {k \in Running(v)' : runs'[v][k].pc = "acking"}
                           = {k \in Running(v) : runs[v][k].pc = "acking"}
  BY <1>2, <1>3, SMT
<1>6. AckersAreAnswered'
  BY <1>5 DEF WorkerIInv, AckersAreAnswered, ackVars
<1>7. HoldsLess
  BY <1>2, RunsLess
<1>8. \A v \in Workers : Unstarted(v)' \subseteq Unstarted(v)
  <2>1. \A v \in Workers : \A k \in Running(v)' :
          k \in Running(v) /\ (runs'[v][k].pc = "new" => runs[v][k].pc = "new")
    BY <1>2, <1>3
  <2> QED
    BY <2>1, NoNewStarts DEF fetchVars
<1> QED
  BY <1>4, <1>6, <1>7, <1>8, QuietStep DEF historyVars

(* Renew. *)
LEMMA RenewKeeps ==
  ASSUME WorkerIInv, NEW w \in Workers, NEW ls, Renew(w, ls)
  PROVE  WorkerIInv'
<1>0. TypeOK /\ QueueTypeOK /\ held \in [Workers -> SUBSET Lease] /\ faults \in 0 .. MaxFaults
  BY DEF WorkerIInv, TypeOK
<1>1. Advances
  BY <1>0, ExtendAdvances, UnchangedAdvances DEF Renew
<1>2. /\ held' \in [Workers -> SUBSET Lease]
      /\ UNCHANGED <<status, fetchVars, ackVars, historyVars>>
  BY <1>0 DEF Renew
<1>3. faults' \in 0 .. MaxFaults
  BY <1>0, FaultType DEF Renew, FaultUnless
<1>4. CASE runs' = [runs EXCEPT ![w] = Cancelled(w, ls \ OwnedOf(ls), "lease lost")]
  <2>1. status' \in [Workers -> {"up", "draining", "cancelled", "stopped", "crashed"}]
    BY <1>0, <1>2 DEF TypeOK
  <2> QED
    BY <1>0, <1>1, <1>2, <1>3, <1>4, <2>1, CancelledRuns, CancelKeeps, ZenonT(60)
<1>5. CASE UNCHANGED runs
  <2>1. TypeOK'
    BY <1>0, <1>1, <1>2, <1>3, <1>5, SMT DEF TypeOK, Advances, Running, fetchVars, ackVars, historyVars
  <2> QED
    BY <1>1, <1>2, <1>5, <2>1, StillStep
<1> QED
  BY <1>4, <1>5 DEF Renew

(* DrainTimeout. *)
LEMMA DrainTimeoutKeeps ==
  ASSUME WorkerIInv, NEW w \in Workers, DrainTimeout(w)
  PROVE  WorkerIInv'
<1>1. Advances
  BY UnchangedAdvances DEF WorkerIInv, TypeOK, DrainTimeout
<1>2. /\ status' \in [Workers -> {"up", "draining", "cancelled", "stopped", "crashed"}]
      /\ held' \in [Workers -> SUBSET Lease] /\ faults' \in 0 .. MaxFaults
  BY DEF WorkerIInv, TypeOK, DrainTimeout
<1> QED
  BY <1>1, <1>2, CancelledRuns, CancelKeeps DEF DrainTimeout, WorkerIInv

(* Crash. *)
LEMMA CrashKeeps ==
  ASSUME WorkerIInv, NEW w \in Workers, Crash(w)
  PROVE  WorkerIInv'
<1>0. TypeOK /\ Advances /\ faults' \in 0 .. MaxFaults
  BY UnchangedAdvances, FaultType DEF WorkerIInv, TypeOK, Crash
<1>1. /\ runs' = [v \in Workers |-> runs'[v]]
      /\ \A v \in Workers \ {w} : runs'[v] = runs[v]
      /\ Running(w)' = {}
  <2>1. runs = [v \in Workers |-> runs[v]] /\ runs' = [runs EXCEPT ![w] = <<>>]
    BY <1>0 DEF TypeOK, Crash
  <2>2. BecomesMap(w, <<>>)
    BY <2>1 DEF BecomesMap
  <2> QED
    BY <2>2, SMT DEF BecomesMap, Running
<1>2. \A v \in Workers : \A k \in Running(v)' : k \in Running(v) /\ runs'[v][k] = runs[v][k]
  BY <1>1 DEF Running
<1>3. /\ fetched \in [Workers -> SUBSET Lease] /\ acks \in [Workers -> SUBSET Lease]
      /\ batch \in [Workers -> SUBSET Lease] /\ held \in [Workers -> SUBSET Lease]
      /\ quota \in [Workers -> 0 .. Concurrency]
  BY <1>0 DEF TypeOK
<1>4. /\ fetched' \in [Workers -> SUBSET Lease] /\ acks' \in [Workers -> SUBSET Lease]
      /\ batch' \in [Workers -> SUBSET Lease] /\ held' \in [Workers -> SUBSET Lease]
      /\ quota' \in [Workers -> 0 .. Concurrency]
      /\ status' \in [Workers -> {"up", "draining", "cancelled", "stopped", "crashed"}]
      /\ UNCHANGED <<starts, completed>>
  BY <1>0, <1>3, WorkerAssumption, SMT DEF TypeOK, Crash, historyVars
<1>5. /\ fetched'[w] = {} /\ acks'[w] = {} /\ batch'[w] = {} /\ quota'[w] = 0
      /\ \A v \in Workers \ {w} : /\ fetched'[v] = fetched[v] /\ acks'[v] = acks[v]
                                  /\ batch'[v] = batch[v] /\ quota'[v] = quota[v]
  BY <1>3 DEF Crash
<1>6. TypeOK'
  BY <1>0, <1>1, <1>2, <1>4 DEF TypeOK, Advances
<1>7. AckersAreAnswered'
  BY <1>1, <1>5, SMT DEF WorkerIInv, AckersAreAnswered, Running
<1>8. HoldsLess
  <2>1. \A v \in Workers : quota[v] \in Nat /\ (quota[v] = 0 => fetched[v] = {})
    BY SMT DEF WorkerIInv, TypeOK, LeasesAreIssued
  <2> QED
    BY <1>2, <1>5, <2>1, SMT DEF HoldsLess
<1>9. \A v \in Workers : Unstarted(v)' \subseteq Unstarted(v)
  BY <1>2, <1>5 DEF Unstarted
<1> QED
  BY <1>0, <1>4, <1>6, <1>7, <1>8, <1>9, QuietStep, SMT

(* Loop. *)
LEMMA LoopKeeps ==
  ASSUME WorkerIInv, NEW w \in Workers, Loop(w)
  PROVE  WorkerIInv'
<1>0. TypeOK /\ Advances
  BY UnchangedAdvances DEF WorkerIInv, TypeOK, Loop
<1>1. /\ UNCHANGED <<job, status, fetched, runs, ackVars, held, faults, historyVars>>
      /\ \A v \in Workers : Running(v)' = Running(v) /\ Unstarted(v)' = Unstarted(v)
  BY DEF Loop, Running, Unstarted
<1>2. /\ Cardinality(Running(w)) \in Nat /\ IsFiniteSet(Running(w))
      /\ fetched[w] = {} /\ Cardinality(fetched[w]) = 0
  BY FS_CardinalityType, FS_EmptySet DEF WorkerIInv, HeldIsFinite, LeasesAreIssued, Loop
<1>3. /\ quota' \in [Workers -> 0 .. Concurrency]
      /\ quota'[w] = Concurrency - Cardinality(Running(w)) /\ quota'[w] # 0
      /\ \A v \in Workers \ {w} : quota'[v] = quota[v]
  BY <1>0, <1>2, WorkerAssumption, SMT DEF TypeOK, Loop
<1>4. TypeOK'
  BY <1>0, <1>1, <1>3 DEF TypeOK, Advances, ackVars, historyVars
<1>5. LeasesAreIssued' /\ HeldIsFinite'
  BY <1>1, <1>2, <1>3, SMT DEF WorkerIInv, LeasesAreIssued, HeldIsFinite
<1>6. ConcurrencyRespected'
  <2>1. Cardinality(Running(w)) + Cardinality(fetched[w]) + quota'[w] <= Concurrency
    BY <1>2, <1>3, WorkerAssumption, SMT
  <2> QED
    BY <1>1, <1>3, <2>1 DEF WorkerIInv, ConcurrencyRespected
<1>7. AckersAreAnswered'
  BY <1>1 DEF WorkerIInv, AckersAreAnswered, ackVars
<1>8. StartsAreDeliveries' /\ CompletedOnce'
  BY <1>0, <1>1, StartsStep, CompletedStep DEF historyVars
<1> QED
  BY <1>4, <1>5, <1>6, <1>7, <1>8 DEF WorkerIInv

-----------------------------------------------------------------------------
(* Leasing *)

(* The leases ls, which w gets for jobs in js, are new, one per job, and each
   that may start is one more delivery. *)
Fresh(w, js, ls) ==
  /\ ls \subseteq Lease
  /\ IsFiniteSet(ls) /\ Cardinality(ls) <= Cardinality(js)
  /\ \A l \in ls : l.owner = w /\ Issued(l, job'[l.id]) /\ ~Issued(l, job[l.id])
  /\ \A l, k \in ls : l.id = k.id => l = k
  /\ \A l \in ls : ~TooMany(l) => Deliveries(job'[l.id]) = Deliveries(job[l.id]) + 1

(* There are no more leases than jobs leased. *)
LEMMA LeasesCounted ==
  ASSUME NEW w, NEW js \in SUBSET Jobs, NEW token
  PROVE  /\ IsFiniteSet(LeasesOf(w, js, token))
         /\ Cardinality(LeasesOf(w, js, token)) <= Cardinality(js)
<1> DEFINE f == [j \in js |-> [id |-> j, attempt |-> job[j].attempt, owner |-> w,
                               token |-> token[j]]]
<1>1. IsFiniteSet(js)
  BY WorkerAssumption, FS_Subset
<1>2. f \in Surjection(js, LeasesOf(w, js, token))
  BY DEF LeasesOf, Surjection
<1> HIDE DEF f
<1> QED
  BY <1>1, <1>2, FS_Surjection

(* Claim's leases. *)
LEMMA ClaimIsFresh ==
  ASSUME QueueTypeOK, NEW w \in Workers, NEW js, Claim(w, js)
  PROVE  Fresh(w, js, LeasesOf(w, js, [j \in js |-> 1]))
<1> DEFINE ls == LeasesOf(w, js, [j \in js |-> 1])
<1>1. js \in SUBSET Jobs
  BY DEF Claim, In
<1>2. IsFiniteSet(ls) /\ Cardinality(ls) <= Cardinality(js)
  BY <1>1, LeasesCounted
<1>3. ASSUME NEW l \in ls
      PROVE  /\ l \in Lease /\ l.owner = w /\ Issued(l, job'[l.id]) /\ ~Issued(l, job[l.id])
             /\ ~TooMany(l) => Deliveries(job'[l.id]) = Deliveries(job[l.id]) + 1
  <2>1. PICK j \in js : l = [id |-> j, attempt |-> job[j].attempt, owner |-> w, token |-> 1]
    BY DEF LeasesOf
  <2> HIDE DEF ls
  <2>2. l.id = j /\ l.attempt = job[j].attempt /\ l.owner = w /\ l.token = 1
    BY <2>1
  <2>3. /\ j \in Jobs /\ WellFormed(job[j]) /\ job[j].phase = "waiting"
        /\ job'[j] = Leased(job[j].attempt, w, 1, FALSE)
    BY <1>1 DEF Claim, In, QueueTypeOK
  <2>10. job[j].attempt \in 0 .. MaxAttempts - 1
    BY <2>3 DEF WellFormed
  <2>11. job[j].attempt \in Nat
    BY <2>10, QueueAssumption, SMT
  <2>4. l \in Lease
    BY <2>1, <2>3, <2>10 DEF Lease
  <2>5. /\ job'[j].phase = "leased" /\ job'[j].attempt = job[j].attempt /\ job'[j].token = 1
        /\ WellFormed(job'[j])
    <3>1. /\ job'[j].phase = "leased" /\ job'[j].attempt = job[j].attempt
          /\ job'[j].token = 1
      BY <2>3, SMT DEF Leased
    <3>2. WellFormed(job'[j])
      BY <2>3, ClaimType DEF QueueTypeOK
    <3> QED
      BY <3>1, <3>2
  <2>6. Issued(l, job'[j]) /\ ~Issued(l, job[j])
    <3>1. Issued(l, job'[j])
      BY <2>2, <2>10, <2>11, <2>5, SMT DEF Issued
    <3>2. ~Issued(l, job[j])
      BY <2>2, <2>3, <2>10, <2>11, SMT DEF Issued
    <3> QED
      BY <3>1, <3>2
  <2>7. /\ Deliveries(job[j]) = job[j].attempt * MaxDeliveries
        /\ job[j].attempt * MaxDeliveries \in Nat
        /\ Deliveries(job'[j]) = job[j].attempt * MaxDeliveries
             + (IF job'[j].token > MaxDeliveries THEN MaxDeliveries ELSE job'[j].token)
    BY <2>3, <2>5, DeliveriesBounds
  <2>8. ~TooMany(l) => Deliveries(job'[j]) = Deliveries(job[j]) + 1
    BY <2>2, <2>5, <2>7, WorkerAssumption DEF TooMany
  <2> QED
    BY <2>2, <2>4, <2>6, <2>8
<1>4. \A l, k \in ls : l.id = k.id => l = k
  BY SMT DEF LeasesOf
<1> HIDE DEF ls
<1>5. Fresh(w, js, ls)
  BY <1>2, <1>3, <1>4 DEF Fresh
<1> QED
  BY <1>5 DEF ls

(* RecoverExpired's leases. *)
LEMMA RecoverIsFresh ==
  ASSUME QueueTypeOK, NEW w \in Workers, NEW js, RecoverExpired(w, js)
  PROVE  Fresh(w, js, LeasesOf(w, js, [j \in js |-> job[j].token + 1]))
<1> DEFINE ls == LeasesOf(w, js, [j \in js |-> job[j].token + 1])
<1>1. js \in SUBSET Jobs
  BY DEF RecoverExpired, In
<1>2. IsFiniteSet(ls) /\ Cardinality(ls) <= Cardinality(js)
  BY <1>1, LeasesCounted
<1>3. ASSUME NEW l \in ls
      PROVE  /\ l \in Lease /\ l.owner = w /\ Issued(l, job'[l.id]) /\ ~Issued(l, job[l.id])
             /\ ~TooMany(l) => Deliveries(job'[l.id]) = Deliveries(job[l.id]) + 1
  <2>1. PICK j \in js : l = [id |-> j, attempt |-> job[j].attempt, owner |-> w,
                             token |-> job[j].token + 1]
    BY DEF LeasesOf
  <2> HIDE DEF ls
  <2>2. l.id = j /\ l.attempt = job[j].attempt /\ l.owner = w /\ l.token = job[j].token + 1
    BY <2>1
  <2>3. /\ j \in Jobs /\ WellFormed(job[j]) /\ job[j].phase = "leased"
        /\ job'[j] = Leased(job[j].attempt, w, job[j].token + 1, FALSE)
    BY <1>1 DEF RecoverExpired, In, QueueTypeOK
  <2>10. job[j].attempt \in 0 .. MaxAttempts - 1 /\ job[j].token \in Nat \ {0}
    BY <2>3 DEF WellFormed
  <2>11. job[j].attempt \in Nat
    BY <2>10, QueueAssumption, SMT
  <2>4. l \in Lease
    BY <2>1, <2>3, <2>10, SMT DEF Lease
  <2>5. /\ job'[j].phase = "leased" /\ job'[j].attempt = job[j].attempt
        /\ job'[j].token = job[j].token + 1
    BY <2>3, SMT DEF Leased
  <2>6. WellFormed(job'[j])
    BY <2>3, RecoverType, ZenonT(60) DEF QueueTypeOK
  <2>7. Issued(l, job'[j]) /\ ~Issued(l, job[j])
    <3>1. Issued(l, job'[j])
      BY <2>2, <2>10, <2>11, <2>5, SMT DEF Issued
    <3>2. ~Issued(l, job[j])
      BY <2>2, <2>3, <2>10, <2>11, SMT DEF Issued
    <3> QED
      BY <3>1, <3>2
  <2>8. /\ job[j].attempt * MaxDeliveries \in Nat
        /\ Deliveries(job[j]) = job[j].attempt * MaxDeliveries
             + (IF job[j].token > MaxDeliveries THEN MaxDeliveries ELSE job[j].token)
        /\ Deliveries(job'[j]) = job[j].attempt * MaxDeliveries
             + (IF job'[j].token > MaxDeliveries THEN MaxDeliveries ELSE job'[j].token)
    BY <2>3, <2>5, <2>6, DeliveriesBounds
  <2>9. ASSUME ~TooMany(l)
        PROVE  Deliveries(job'[j]) = Deliveries(job[j]) + 1
    <3>1. job[j].token + 1 <= MaxDeliveries /\ MaxDeliveries \in Nat
      BY <2>2, <2>9, <2>10, WorkerAssumption, SMT DEF TooMany
    <3>2. /\ Deliveries(job[j]) = job[j].attempt * MaxDeliveries + job[j].token
          /\ Deliveries(job'[j]) = job[j].attempt * MaxDeliveries + (job[j].token + 1)
      BY <2>5, <2>8, <2>10, <3>1, SMT
    <3> QED
      BY <2>8, <2>10, <3>2, SMT
  <2> QED
    BY <2>2, <2>4, <2>7, <2>9
<1>4. \A l, k \in ls : l.id = k.id => l = k
  BY SMT DEF LeasesOf
<1> HIDE DEF ls
<1>5. Fresh(w, js, ls)
  BY <1>2, <1>3, <1>4 DEF Fresh
<1> QED
  BY <1>5 DEF ls

(* Worker w takes some of the fresh leases ls, into the running map as new runs
   or into fetched, and may start what it had fetched. *)
Gains(w, ls) ==
  /\ \A v \in Workers \ {w} : /\ runs'[v] = runs[v]
                              /\ fetched'[v] = fetched[v] /\ quota'[v] = quota[v]
  /\ Running(w) \subseteq Running(w)'
  /\ \A l \in Running(w) : runs'[w][l] = runs[w][l]
  /\ \A l \in Running(w)' \ Running(w) : /\ l \in fetched[w] \cup ls
                                         /\ runs'[w][l].pc = "new" /\ runs'[w][l].ctx = "live"
  /\ fetched'[w] \subseteq ls \cup fetched[w]
  /\ fetched'[w] \cap Running(w)' = {}
  /\ quota'[w] = 0 => fetched'[w] = {}
  /\ quota'[w] + Cardinality(ls) <= quota[w]

(* Gaining fresh leases keeps what is known of the leases held. *)
LEMMA GainIsIssued ==
  ASSUME WorkerIInv, Advances, NEW w \in Workers, NEW js, NEW ls, Fresh(w, js, ls), Gains(w, ls)
  PROVE  LeasesAreIssued'
<1> SUFFICES ASSUME NEW v \in Workers
             PROVE  /\ \A l \in Running(v)' \cup fetched'[v] : l.owner = v /\ Issued(l, job'[l.id])
                    /\ fetched'[v] \cap Running(v)' = {}
                    /\ quota'[v] = 0 => fetched'[v] = {}
  BY DEF LeasesAreIssued
<1>1. /\ \A l \in Running(v) \cup fetched[v] : l \in Lease /\ l.id \in Jobs
      /\ \A l \in Running(v) \cup fetched[v] : l.owner = v /\ Issued(l, job[l.id])
      /\ fetched[v] \cap Running(v) = {} /\ (quota[v] = 0 => fetched[v] = {})
  BY SMT DEF WorkerIInv, TypeOK, Lease, LeasesAreIssued
<1>2. \A l \in Running(v) \cup fetched[v] : l.owner = v /\ Issued(l, job'[l.id])
  BY <1>1 DEF Advances, Follows
<1>3. CASE v # w
  BY <1>1, <1>2, <1>3 DEF Gains, Running
<1>4. CASE v = w
  <2>1. Running(w)' \cup fetched'[w] \subseteq Running(w) \cup fetched[w] \cup ls
    BY DEF Gains
  <2>2. \A l \in ls : l.owner = w /\ Issued(l, job'[l.id])
    BY DEF Fresh
  <2> QED
    BY <1>2, <1>4, <2>1, <2>2 DEF Gains
<1> QED
  BY <1>3, <1>4

(* A worker leases no more than it has quota for. *)
LEMMA GainIsCounted ==
  ASSUME WorkerIInv, TypeOK', NEW w \in Workers, NEW js, NEW ls, Fresh(w, js, ls), Gains(w, ls)
  PROVE  HeldIsFinite' /\ ConcurrencyRespected'
<1> DEFINE had == Running(w) \cup fetched[w]
           has == Running(w)' \cup fetched'[w]
<1>1. /\ IsFiniteSet(Running(w)) /\ IsFiniteSet(fetched[w]) /\ fetched[w] \cap Running(w) = {}
      /\ Cardinality(Running(w)) + Cardinality(fetched[w]) + quota[w] <= Concurrency
  BY DEF WorkerIInv, HeldIsFinite, ConcurrencyRespected, LeasesAreIssued
<1>2. /\ has \subseteq had \cup ls /\ Running(w)' \cap fetched'[w] = {}
      /\ quota'[w] + Cardinality(ls) <= quota[w]
  BY DEF Gains
<1>3. IsFiniteSet(ls)
  BY DEF Fresh
<1>4. /\ IsFiniteSet(had) /\ Cardinality(had) \in Nat
      /\ Cardinality(had) <= Cardinality(Running(w)) + Cardinality(fetched[w])
  <2>1. /\ IsFiniteSet(had)
        /\ Cardinality(had) = Cardinality(Running(w)) + Cardinality(fetched[w])
                                - Cardinality(Running(w) \cap fetched[w])
    BY <1>1, FS_Union
  <2>2. Cardinality(Running(w) \cap fetched[w]) = 0
    BY <1>1, FS_EmptySet
  <2>3. Cardinality(Running(w)) \in Nat /\ Cardinality(fetched[w]) \in Nat
    BY <1>1, FS_CardinalityType
  <2> HIDE DEF had
  <2> QED
    BY <2>1, <2>2, <2>3, SMT
<1> HIDE DEF had, has
<1>5. /\ IsFiniteSet(had \cup ls) /\ Cardinality(had \cup ls) \in Nat
      /\ Cardinality(had \cup ls) <= Cardinality(had) + Cardinality(ls)
  <2>1. /\ IsFiniteSet(had \cup ls)
        /\ Cardinality(had \cup ls) = Cardinality(had) + Cardinality(ls) - Cardinality(had \cap ls)
    BY <1>3, <1>4, FS_Union
  <2>2. IsFiniteSet(had \cap ls)
    BY <1>4, FS_Intersection
  <2>3. Cardinality(had \cap ls) \in Nat /\ Cardinality(ls) \in Nat
        /\ Cardinality(had \cup ls) \in Nat
    BY <1>3, <2>1, <2>2, FS_CardinalityType
  <2> QED
    BY <1>4, <2>1, <2>3, SMT
<1>6. IsFiniteSet(has) /\ Cardinality(has) <= Cardinality(had \cup ls)
  BY <1>2, <1>5, FS_Subset
<1>7. IsFiniteSet(Running(w)') /\ IsFiniteSet(fetched'[w])
  <2>1. Running(w)' \subseteq has /\ fetched'[w] \subseteq has
    BY DEF has
  <2> QED
    BY <1>6, <2>1, FS_Subset
<1>8. /\ Cardinality(has) = Cardinality(Running(w)') + Cardinality(fetched'[w])
      /\ Cardinality(Running(w)') \in Nat /\ Cardinality(fetched'[w]) \in Nat
  <2>1. Cardinality(has) = Cardinality(Running(w)') + Cardinality(fetched'[w])
                             - Cardinality(Running(w)' \cap fetched'[w])
    BY <1>7, FS_Union DEF has
  <2>2. Cardinality(Running(w)' \cap fetched'[w]) = 0
    BY <1>2, FS_EmptySet
  <2>3. Cardinality(Running(w)') \in Nat /\ Cardinality(fetched'[w]) \in Nat
    BY <1>7, FS_CardinalityType
  <2> QED
    BY <2>1, <2>2, <2>3, SMT
<1>9. /\ quota[w] \in Nat /\ quota'[w] \in Nat /\ Concurrency \in Nat /\ Cardinality(ls) \in Nat
      /\ Cardinality(Running(w)) \in Nat /\ Cardinality(fetched[w]) \in Nat
  BY <1>1, <1>3, WorkerAssumption, FS_CardinalityType, SMT DEF WorkerIInv, TypeOK
<1>10. Cardinality(Running(w)') + Cardinality(fetched'[w]) + quota'[w] <= Concurrency
  <2>1. Cardinality(has) <= Cardinality(Running(w)) + Cardinality(fetched[w]) + Cardinality(ls)
    <3>1. Cardinality(has) \in Nat
      BY <1>6, FS_CardinalityType
    <3> QED
      BY <1>4, <1>5, <1>6, <1>9, <3>1, SMT
  <2>2. /\ Cardinality(Running(w)) + Cardinality(fetched[w]) + quota[w] <= Concurrency
        /\ quota'[w] + Cardinality(ls) <= quota[w]
    BY <1>1, <1>2
  <2> QED
    BY <1>8, <1>9, <2>1, <2>2, SMT
<1>11. \A v \in Workers \ {w} : /\ Running(v)' = Running(v) /\ fetched'[v] = fetched[v]
                                /\ quota'[v] = quota[v]
  BY DEF Gains, Running
<1> QED
  BY <1>7, <1>10, <1>11 DEF WorkerIInv, HeldIsFinite, ConcurrencyRespected

(* A lease gained is one start more that may come, and one delivery more. *)
LEMMA GainIsDelivered ==
  ASSUME WorkerIInv, Advances, NEW w \in Workers, NEW js, NEW ls, Fresh(w, js, ls), Gains(w, ls),
         UNCHANGED starts
  PROVE  StartsAreDeliveries'
<1> SUFFICES ASSUME NEW j \in Jobs
             PROVE  /\ IsFiniteSet(MayStart(j)')
                    /\ starts[j] + Cardinality(MayStart(j)') <= Deliveries(job'[j])
  BY DEF StartsAreDeliveries
<1> DEFINE may == MayStart(j)
<1>1. IsFiniteSet(may) /\ starts[j] + Cardinality(may) <= Deliveries(job[j])
  BY DEF WorkerIInv, StartsAreDeliveries
<1>2. /\ starts[j] \in Nat /\ Deliveries(job[j]) \in Nat /\ Deliveries(job'[j]) \in Nat
      /\ Deliveries(job[j]) <= Deliveries(job'[j])
  BY DeliveriesBounds DEF WorkerIInv, TypeOK, QueueTypeOK, Advances, Follows
<1>3. \A v \in Workers : Unstarted(v)' \subseteq Unstarted(v) \cup ls
  <2>1. Unstarted(w)' \subseteq Unstarted(w) \cup ls
    BY DEF Gains, Unstarted
  <2>2. \A v \in Workers \ {w} : Unstarted(v)' = Unstarted(v)
    BY DEF Gains, Unstarted, Running
  <2> QED
    BY <2>1, <2>2
<1>4. MayStart(j)' \subseteq may \cup {l \in ls : l.id = j /\ ~TooMany(l)}
  BY <1>3, SMT DEF MayStart, TooMany
<1> HIDE DEF may
<1>5. Cardinality(may) \in Nat
  BY <1>1, FS_CardinalityType
<1>6. CASE \E l \in ls : l.id = j /\ ~TooMany(l)
  <2>1. PICK l \in ls : l.id = j /\ ~TooMany(l)
    BY <1>6
  <2>2. \A k \in ls : k.id = j => k = l
    BY <2>1 DEF Fresh
  <2>3. MayStart(j)' \subseteq may \cup {l}
    BY <1>4, <2>2
  <2>4. /\ IsFiniteSet(may \cup {l}) /\ Cardinality(may \cup {l}) \in Nat
        /\ Cardinality(may \cup {l}) <= Cardinality(may) + 1
    BY <1>1, <1>5, FS_AddElement, SMTT(30)
  <2>5. IsFiniteSet(MayStart(j)') /\ Cardinality(MayStart(j)') <= Cardinality(may \cup {l})
    BY <2>3, <2>4, FS_Subset
  <2>6. Cardinality(MayStart(j)') \in Nat
    BY <2>5, FS_CardinalityType
  <2>7. Deliveries(job'[j]) = Deliveries(job[j]) + 1
    BY <2>1 DEF Fresh
  <2> QED
    <3>1. Cardinality(MayStart(j)') <= Cardinality(may) + 1
      BY <1>5, <2>4, <2>5, <2>6, SMT
    <3>2. starts'[j] + Cardinality(MayStart(j)') <= Deliveries(job'[j])
      BY <1>1, <1>2, <1>5, <2>6, <2>7, <3>1, SMT
    <3> QED
      BY <2>5, <3>2
<1>7. CASE ~\E l \in ls : l.id = j /\ ~TooMany(l)
  <2>1. MayStart(j)' \subseteq may
    BY <1>4, <1>7
  <2>2. IsFiniteSet(MayStart(j)') /\ Cardinality(MayStart(j)') <= Cardinality(may)
    BY <1>1, <2>1, FS_Subset
  <2>3. Cardinality(MayStart(j)') \in Nat
    BY <2>2, FS_CardinalityType
  <2> QED
    BY <1>1, <1>2, <1>5, <2>2, <2>3, SMT
<1> QED
  BY <1>6, <1>7

(* New runs do not wait for acks. *)
LEMMA GainIsAnswered ==
  ASSUME WorkerIInv, NEW w \in Workers, NEW ls, Gains(w, ls), UNCHANGED ackVars
  PROVE  AckersAreAnswered'
<1>1. {k \in Running(w)' : runs'[w][k].pc = "acking"}
        = {k \in Running(w) : runs[w][k].pc = "acking"}
  BY DEF Gains
<1>2. \A v \in Workers \ {w} : {k \in Running(v)' : runs'[v][k].pc = "acking"}
                                  = {k \in Running(v) : runs[v][k].pc = "acking"}
  BY DEF Gains, Running
<1> QED
  BY <1>1, <1>2, SMT DEF WorkerIInv, AckersAreAnswered, ackVars

(* Fetching keeps the invariant. *)
LEMMA GainKeeps ==
  ASSUME WorkerIInv, Advances, TypeOK', NEW w \in Workers, NEW js, NEW ls,
         Fresh(w, js, ls), Gains(w, ls), UNCHANGED <<ackVars, historyVars>>
  PROVE  WorkerIInv'
<1>1. UNCHANGED starts /\ UNCHANGED completed
  BY DEF historyVars
<1> QED
  BY <1>1, GainIsIssued, GainIsCounted, GainIsDelivered, GainIsAnswered, CompletedStep
  DEF WorkerIInv

(* Fresh leases are none of those the worker holds. *)
LEMMA FreshIsNew ==
  ASSUME WorkerIInv, NEW w \in Workers, NEW js, NEW ls, Fresh(w, js, ls)
  PROVE  ls \cap (Running(w) \cup fetched[w]) = {}
BY DEF WorkerIInv, LeasesAreIssued, Fresh

(* FetchRecover. *)
LEMMA FetchRecoverKeeps ==
  ASSUME WorkerIInv, NEW w \in Workers, NEW js, FetchRecover(w, js)
  PROVE  /\ WorkerIInv'
         /\ Gains(w, LeasesOf(w, js, [j \in js |-> job[j].token + 1]))
<1> DEFINE ls == LeasesOf(w, js, [j \in js |-> job[j].token + 1])
           left == quota[w] - Cardinality(js)
<1>0. /\ TypeOK /\ QueueTypeOK /\ faults \in 0 .. MaxFaults
      /\ quota \in [Workers -> 0 .. Concurrency] /\ quota[w] \in Nat
      /\ fetched \in [Workers -> SUBSET Lease]
  BY SMT DEF WorkerIInv, TypeOK
<1>1. RecoverExpired(w, js) /\ js \in SUBSET Jobs /\ Advances
  BY <1>0, RecoverAdvances DEF FetchRecover, RecoverExpired, In
<1>2. Fresh(w, js, ls)
  BY <1>0, <1>1, RecoverIsFresh
<1>3. /\ quota[w] > 0 /\ fetched[w] = {} /\ Cardinality(js) <= quota[w]
      /\ UNCHANGED <<status, ackVars, held, historyVars>>
      /\ \/ /\ quota' = [quota EXCEPT ![w] = left]
            /\ \/ left = 0 /\ Start(w, ls) /\ UNCHANGED fetched
               \/ left # 0 /\ fetched' = [fetched EXCEPT ![w] = ls] /\ UNCHANGED runs
            /\ UNCHANGED faults
         \/ /\ FaultUnless(status[w] = "draining")
            /\ \E got \in SUBSET ls : Start(w, got)
            /\ quota' = [quota EXCEPT ![w] = 0]
            /\ UNCHANGED fetched
  BY DEF FetchRecover
<1> HIDE DEF ls
<1>4. /\ Cardinality(js) \in Nat /\ left \in 0 .. Concurrency
      /\ Cardinality(ls) \in Nat /\ Cardinality(ls) <= Cardinality(js)
  <2>1. IsFiniteSet(js) /\ IsFiniteSet(ls) /\ Cardinality(ls) <= Cardinality(js)
    BY <1>1, <1>2, WorkerAssumption, FS_Subset DEF Fresh
  <2>2. Cardinality(js) \in Nat /\ Cardinality(ls) \in Nat
    BY <2>1, FS_CardinalityType
  <2> QED
    BY <1>0, <1>3, <2>1, <2>2, WorkerAssumption, SMT
<1> HIDE DEF left
<1>5. faults' \in 0 .. MaxFaults
  BY <1>0, <1>3, FaultType DEF FaultUnless
<1>6. ls \subseteq Lease /\ ls \cap Running(w) = {}
  BY <1>2, FreshIsNew DEF Fresh
<1>7. CASE \E got \in SUBSET ls : /\ Start(w, got) /\ UNCHANGED fetched
                                  /\ quota' = [quota EXCEPT ![w] = 0]
  <2>1. PICK got \in SUBSET ls : /\ Start(w, got) /\ UNCHANGED fetched
                                 /\ quota' = [quota EXCEPT ![w] = 0]
    BY <1>7
  <2>2. /\ runs' = [v \in Workers |-> runs'[v]]
        /\ \A v \in Workers \ {w} : runs'[v] = runs[v]
        /\ Running(w)' = Running(w) \cup got
        /\ \A l \in got : runs'[w][l].pc = "new" /\ runs'[w][l] \in Goroutine
        /\ \A l \in got : runs'[w][l].ctx = "live"
        /\ \A l \in Running(w) \ got : runs'[w][l] = runs[w][l]
    BY <1>0, <2>1, StartRuns
  <2>3. /\ quota' \in [Workers -> 0 .. Concurrency] /\ quota'[w] = 0
        /\ \A v \in Workers \ {w} : quota'[v] = quota[v]
    BY <1>0, <2>1, WorkerAssumption, SMT
  <2>5. Gains(w, ls)
    <3>1. quota'[w] + Cardinality(ls) <= quota[w]
      BY <1>0, <1>3, <1>4, <2>3, SMT
    <3>2. got \cap Running(w) = {} /\ fetched'[w] = fetched[w] /\ fetched[w] = {}
      BY <1>3, <1>6, <2>1
    <3> QED
      BY <2>1, <2>2, <2>3, <3>1, <3>2 DEF Gains
  <2>6. \A v \in Workers : \A l \in Running(v)' : l \in Lease /\ runs'[v][l] \in Goroutine
    BY <1>0, <1>6, <2>2, SMT DEF TypeOK, Running
  <2>7. TypeOK'
    BY <1>0, <1>1, <1>3, <1>5, <2>1, <2>2, <2>3, <2>6 DEF TypeOK, Advances, ackVars, historyVars
  <2> QED
    BY <1>1, <1>2, <1>3, <2>5, <2>7, GainKeeps DEF ls
<1>8. CASE /\ left # 0 /\ fetched' = [fetched EXCEPT ![w] = ls] /\ UNCHANGED runs
           /\ quota' = [quota EXCEPT ![w] = left]
  <2>1. /\ quota' \in [Workers -> 0 .. Concurrency] /\ quota'[w] = left
        /\ \A v \in Workers \ {w} : quota'[v] = quota[v]
    BY <1>0, <1>4, <1>8
  <2>2. /\ fetched' \in [Workers -> SUBSET Lease] /\ fetched'[w] = ls
        /\ \A v \in Workers \ {w} : fetched'[v] = fetched[v]
    BY <1>0, <1>6, <1>8
  <2>3. \A v \in Workers : Running(v)' = Running(v)
    BY <1>8 DEF Running
  <2>4. quota'[w] + Cardinality(ls) <= quota[w]
    BY <1>0, <1>4, <2>1, SMT DEF left
  <2>5. Gains(w, ls)
    BY <1>6, <1>8, <2>1, <2>2, <2>3, <2>4 DEF Gains
  <2>6. TypeOK'
    BY <1>0, <1>1, <1>3, <1>5, <1>8, <2>1, <2>2, <2>3, SMT DEF TypeOK, Advances, ackVars, historyVars
  <2> QED
    BY <1>1, <1>2, <1>3, <2>5, <2>6, GainKeeps DEF ls
<1> QED
  BY <1>3, <1>7, <1>8

(* FetchClaim. *)
LEMMA FetchClaimKeeps ==
  ASSUME WorkerIInv, NEW w \in Workers, NEW js, FetchClaim(w, js)
  PROVE  WorkerIInv' /\ Gains(w, LeasesOf(w, js, [j \in js |-> 1]))
<1> DEFINE ls == LeasesOf(w, js, [j \in js |-> 1])
<1>0. /\ TypeOK /\ QueueTypeOK /\ faults \in 0 .. MaxFaults
      /\ quota \in [Workers -> 0 .. Concurrency] /\ quota[w] \in Nat
      /\ fetched \in [Workers -> SUBSET Lease] /\ fetched[w] \cap Running(w) = {}
  BY SMT DEF WorkerIInv, TypeOK, LeasesAreIssued
<1>1. Claim(w, js) /\ js \in SUBSET Jobs /\ Advances
  BY <1>0, ClaimAdvances DEF FetchClaim, Claim, In
<1>2. Fresh(w, js, ls)
  BY <1>0, <1>1, ClaimIsFresh
<1>3. /\ Cardinality(js) <= quota[w]
      /\ Fault \/ UNCHANGED faults
      /\ \E got \in SUBSET ls : Start(w, fetched[w] \cup got)
      /\ quota' = [quota EXCEPT ![w] = 0]
      /\ fetched' = [fetched EXCEPT ![w] = {}]
      /\ UNCHANGED <<status, ackVars, held, historyVars>>
  BY DEF FetchClaim, FaultUnless
<1> HIDE DEF ls
<1>4. /\ Cardinality(js) \in Nat
      /\ Cardinality(ls) \in Nat /\ Cardinality(ls) <= Cardinality(js)
  <2>1. IsFiniteSet(js) /\ IsFiniteSet(ls) /\ Cardinality(ls) <= Cardinality(js)
    BY <1>1, <1>2, WorkerAssumption, FS_Subset DEF Fresh
  <2> QED
    BY <2>1, FS_CardinalityType
<1>5. faults' \in 0 .. MaxFaults
  BY <1>0, <1>3, FaultType
<1>6. ls \subseteq Lease /\ ls \cap Running(w) = {}
  BY <1>2, FreshIsNew DEF Fresh
<1>7. PICK got \in SUBSET ls : Start(w, fetched[w] \cup got)
  BY <1>3
<1> DEFINE new == fetched[w] \cup got
<1>8. new \subseteq Lease /\ new \cap Running(w) = {} /\ new \subseteq fetched[w] \cup ls
  BY <1>0, <1>6
<1>9. Start(w, new)
  BY <1>7
<1> HIDE DEF new
<1>10. /\ runs' = [v \in Workers |-> runs'[v]]
       /\ \A v \in Workers \ {w} : runs'[v] = runs[v]
       /\ Running(w)' = Running(w) \cup new
       /\ \A l \in new : runs'[w][l].pc = "new" /\ runs'[w][l] \in Goroutine
       /\ \A l \in new : runs'[w][l].ctx = "live"
       /\ \A l \in Running(w) \ new : runs'[w][l] = runs[w][l]
  BY <1>0, <1>9, StartRuns
<1>11. /\ quota' \in [Workers -> 0 .. Concurrency] /\ quota'[w] = 0
       /\ \A v \in Workers \ {w} : quota'[v] = quota[v]
  BY <1>0, <1>3, WorkerAssumption, SMT
<1>12. /\ fetched' \in [Workers -> SUBSET Lease] /\ fetched'[w] = {}
       /\ \A v \in Workers \ {w} : fetched'[v] = fetched[v]
  BY <1>0, <1>3
<1>14. Gains(w, ls)
  <2>1. quota'[w] + Cardinality(ls) <= quota[w]
    BY <1>0, <1>3, <1>4, <1>11, SMT
  <2> QED
    BY <1>8, <1>10, <1>11, <1>12, <2>1 DEF Gains
<1>15. \A v \in Workers : \A l \in Running(v)' : l \in Lease /\ runs'[v][l] \in Goroutine
  <2>1. \A v \in Workers : \A l \in Running(v) : l \in Lease /\ runs[v][l] \in Goroutine
    BY <1>0 DEF TypeOK
  <2>2. \A v \in Workers \ {w} : Running(v)' = Running(v)
    BY <1>10 DEF Running
  <2>3. \A l \in Running(w)' : l \in Lease /\ runs'[w][l] \in Goroutine
    BY <1>8, <1>10, <2>1
  <2> QED
    BY <1>10, <2>1, <2>2, <2>3
<1>16. TypeOK'
  BY <1>0, <1>1, <1>3, <1>5, <1>10, <1>11, <1>12, <1>15, SMT DEF TypeOK, Advances, ackVars, historyVars
<1> QED
  BY <1>1, <1>2, <1>3, <1>14, <1>16, GainKeeps DEF ls

-----------------------------------------------------------------------------
(* The theorems *)

(* The invariant holds when the workers start, before any job is enqueued. *)
LEMMA WorkerInitInv ==
  ASSUME Init
  PROVE  WorkerIInv
<1>1. QueueTypeOK /\ \A j \in Jobs : job[j] = Absent
  BY Records DEF Init, QueueInit, QueueTypeOK
<1>2. \A w \in Workers : Running(w) = {} /\ Unstarted(w) = {}
  <2>1. \A w \in Workers : Running(w) = {}
    BY SMT DEF Init, Running
  <2> QED
    BY <2>1 DEF Init, Unstarted
<1>3. TypeOK
  <2>1. \A f \in {fetched, acks, batch, held} : f \in [Workers -> SUBSET Lease]
    BY DEF Init
  <2>2. runs = [w \in Workers |-> runs[w]]
    BY DEF Init
  <2> QED
    BY <1>1, <1>2, <2>1, <2>2, WorkerAssumption, SMT DEF Init, TypeOK
<1>4. LeasesAreIssued
  BY <1>2 DEF Init, LeasesAreIssued
<1>5. HeldIsFinite /\ ConcurrencyRespected
  <2>1. \A w \in Workers : Running(w) = {} /\ fetched[w] = {} /\ quota[w] = 0
    BY <1>2 DEF Init
  <2>2. IsFiniteSet({}) /\ Cardinality({}) = 0
    BY FS_EmptySet
  <2>3. Cardinality({}) + Cardinality({}) + 0 <= Concurrency
    BY <2>2, WorkerAssumption, SMT
  <2> QED
    BY <2>1, <2>2, <2>3 DEF HeldIsFinite, ConcurrencyRespected
<1>6. AckersAreAnswered
  BY <1>2 DEF Init, AckersAreAnswered
<1>7. CompletedOnce
  BY DEF Init, CompletedOnce
<1>8. StartsAreDeliveries
  <2>1. \A j \in Jobs : MayStart(j) = {}
    BY <1>2 DEF MayStart
  <2> QED
    <3>1. IsFiniteSet({}) /\ Cardinality({}) = 0
      BY FS_EmptySet
    <3>2. \A j \in Jobs : starts[j] = 0 /\ Deliveries(job[j]) = 0
      BY <1>1, DeliveriesOf DEF Init
    <3> QED
      BY <2>1, <3>1, <3>2, SMT DEF StartsAreDeliveries
<1> QED
  BY <1>3, <1>4, <1>5, <1>6, <1>7, <1>8 DEF WorkerIInv

(* The invariant is inductive. *)
LEMMA WorkerStepInv ==
  ASSUME WorkerIInv, [Next]_vars
  PROVE  WorkerIInv'
<1>1. ASSUME NEW w \in Workers, WorkerStep(w)
      PROVE  WorkerIInv'
  <2>1. CASE Fetching(w)
    BY <2>1, LoopKeeps, FetchRecoverKeeps, FetchClaimKeeps DEF Fetching
  <2>2. CASE \E l \in Running(w) : JobStep(w, l)
    BY <2>2, HandleOneKeeps, AbandonKeeps, SucceedKeeps, FailKeeps, SettleKeeps DEF JobStep
  <2>3. CASE Acking(w)
    BY <2>3, TakeAcksKeeps, AckCallKeeps DEF Acking
  <2>4. CASE Heartbeat(w)
    BY <2>4, StatusKeeps, RenewKeeps DEF Heartbeat
  <2>5. CASE Shutdown(w) \/ Stopping(w) \/ Crash(w) \/ Restart(w)
    BY <2>5, StatusKeeps, DrainTimeoutKeeps, CrashKeeps DEF Stopping
  <2> QED
    BY <1>1, <2>1, <2>2, <2>3, <2>4, <2>5 DEF WorkerStep
<1>2. CASE UNCHANGED vars
  <2>1. Advances
    BY <1>2, UnchangedAdvances DEF WorkerIInv, TypeOK, vars
  <2>2. TypeOK'
    BY <1>2, <2>1 DEF WorkerIInv, TypeOK, Advances, Running, vars, fetchVars, ackVars, historyVars
  <2> QED
    BY <1>2, <2>1, <2>2, StillStep DEF vars
<1> QED
  BY <1>1, <1>2, SubmitKeeps, LeaseExpiresKeeps DEF Next

(* Along every execution of the workers, leases held were issued earlier, the
   runs started and still to start are paid for by deliveries, and so on: all
   of WorkerIInv. *)
THEOREM WorkerInductiveInvariant == Spec => []WorkerIInv
BY WorkerInitInv, WorkerStepInv, PTL DEF Spec

(* The worker's variables keep their types. *)
THEOREM WorkerTypeCorrect == Spec => []TypeOK
<1>1. WorkerIInv => TypeOK
  BY DEF WorkerIInv
<1> QED
  BY <1>1, WorkerInductiveInvariant, PTL

(* The slots counted at the head of the Run loop are never overrun, whatever
   the worker's Concurrency and however its calls fail. *)
THEOREM ConcurrencyIsRespected == Spec => []ConcurrencyRespected
<1>1. WorkerIInv => ConcurrencyRespected
  BY DEF WorkerIInv
<1> QED
  BY <1>1, WorkerInductiveInvariant, PTL

(* Goroutines that wait for an ack's answer are exactly those with a request
   queued or in flight, whatever the batch size. *)
THEOREM AckersAreAlwaysAnswered == Spec => []AckersAreAnswered
<1>1. WorkerIInv => AckersAreAnswered
  BY DEF WorkerIInv
<1> QED
  BY <1>1, WorkerInductiveInvariant, PTL

(* At most one run of a job is ever reported completed, and then the job is
   done for good, with any number of workers, crashes and lost calls. *)
THEOREM JobsCompleteOnce == Spec => []CompletedOnce
<1>1. WorkerIInv => CompletedOnce
  BY DEF WorkerIInv
<1> QED
  BY <1>1, WorkerInductiveInvariant, PTL

(* A job's handler is started at most MaxAttempts times MaxDeliveries times,
   whatever crashes, pauses and lost calls there are. *)
THEOREM StartsAreBounded == Spec => []StartsBounded
<1>1. ASSUME WorkerIInv
      PROVE  StartsBounded
  <2> SUFFICES ASSUME NEW j \in Jobs
               PROVE  starts[j] <= MaxAttempts * MaxDeliveries
    BY DEF StartsBounded
  <2>1. /\ IsFiniteSet(MayStart(j)) /\ starts[j] \in Nat
        /\ starts[j] + Cardinality(MayStart(j)) <= Deliveries(job[j])
    BY <1>1 DEF WorkerIInv, StartsAreDeliveries, TypeOK
  <2>2. Cardinality(MayStart(j)) \in Nat
    BY <2>1, FS_CardinalityType
  <2>3. Deliveries(job[j]) \in Nat /\ Deliveries(job[j]) <= MaxAttempts * MaxDeliveries
    BY <1>1, DeliveriesBounds DEF WorkerIInv, TypeOK, QueueTypeOK
  <2>4. MaxAttempts * MaxDeliveries \in Nat
    BY QueueAssumption, WorkerAssumption, SMT
  <2> QED
    BY <2>1, <2>2, <2>3, <2>4, SMT
<1> QED
  BY <1>1, WorkerInductiveInvariant, PTL

-----------------------------------------------------------------------------
(* Executions without faults *)

(* What a current lease says of its job. *)
LEMMA CurrentIs ==
  ASSUME NEW l \in Lease, Current(l)
  PROVE  /\ l.id \in Jobs /\ job[l.id].phase = "leased" /\ job[l.id].expired = FALSE
         /\ job[l.id].attempt = l.attempt /\ job[l.id].owner = l.owner
         /\ job[l.id].token = l.token
         /\ LeaseOn(l.id) = l /\ Owns(l)
<1>1. l.id \in Jobs /\ job[l.id] = Leased(l.attempt, l.owner, l.token, FALSE)
  BY DEF Current
<1>2. /\ job[l.id].phase = "leased" /\ job[l.id].expired = FALSE
      /\ job[l.id].attempt = l.attempt /\ job[l.id].owner = l.owner
      /\ job[l.id].token = l.token
  BY <1>1, SMT DEF Leased
<1>3. LeaseOn(l.id) = l
  BY <1>2, SMT DEF LeaseOn, Lease
<1> QED
  BY <1>1, <1>2, <1>3 DEF Owns, In

(* The attempts that each kind of record stands for. *)
LEMMA AttemptsOf ==
  ASSUME NEW r, WellFormed(r)
  PROVE  /\ AttemptsMade(r) \in 0 .. MaxAttempts
         /\ r.phase = "absent" => AttemptsMade(r) = 0
         /\ r.phase \in {"waiting", "leased"} => AttemptsMade(r) = r.attempt
         /\ r.phase = "leased" => AttemptsMade(r) + 1 <= MaxAttempts
         /\ r.phase \in {"done", "dead"} => AttemptsMade(r) = MaxAttempts
<1>1. MaxAttempts \in Nat \ {0}
  BY QueueAssumption
<1> QED
  BY <1>1, SMT DEF AttemptsMade, WellFormed

(* The records that calls write. *)
LEMMA AttemptsWritten ==
  /\ \A a : AttemptsMade(Waiting(a)) = a
  /\ \A a, o, t, e : Leased(a, o, t, e).phase = "leased" /\ AttemptsMade(Leased(a, o, t, e)) = a
  /\ AttemptsMade(Done) = MaxAttempts /\ AttemptsMade(Dead) = MaxAttempts
BY SMT DEF AttemptsMade, Waiting, Leased, Done, Dead

(* A job whose record goes from r to s has made no fewer attempts, and is leased
   if it was. *)
GoesOn(r, s) ==
  /\ AttemptsMade(r) <= AttemptsMade(s)
  /\ r.phase = "leased" => s.phase = "leased"

(* A job goes on when its record stays as it is, when it is enqueued, and when
   it is leased, anew or again. *)
LEMMA JobsGoOn ==
  ASSUME NEW r, WellFormed(r)
  PROVE  /\ GoesOn(r, r)
         /\ r.phase = "absent" => GoesOn(r, Waiting(0))
         /\ r.phase = "waiting" => \A o, t, e : GoesOn(r, Leased(r.attempt, o, t, e))
         /\ r.phase = "leased" => \A o, t, e : GoesOn(r, Leased(r.attempt, o, t, e))
<1>1. AttemptsMade(r) \in 0 .. MaxAttempts /\ MaxAttempts \in Nat
  BY AttemptsOf, QueueAssumption
<1>2. AttemptsMade(r) <= AttemptsMade(r)
  BY <1>1, SMT
<1>3. GoesOn(r, r)
  BY <1>2 DEF GoesOn
<1>4. ASSUME r.phase = "absent"
      PROVE  GoesOn(r, Waiting(0))
  <2>1. AttemptsMade(r) = 0 /\ AttemptsMade(Waiting(0)) = 0
    BY <1>4, AttemptsOf, AttemptsWritten
  <2> QED
    BY <1>2, <1>4, <2>1 DEF GoesOn
<1>5. ASSUME r.phase \in {"waiting", "leased"}, NEW o, NEW t, NEW e
      PROVE  GoesOn(r, Leased(r.attempt, o, t, e))
  <2> DEFINE s == Leased(r.attempt, o, t, e)
  <2>1. s.phase = "leased" /\ s.attempt = r.attempt
    BY DEF Leased
  <2> HIDE DEF s
  <2>2. AttemptsMade(s) = r.attempt
    BY <2>1, SMT DEF AttemptsMade
  <2>3. AttemptsMade(r) = r.attempt
    BY <1>5, AttemptsOf
  <2>4. GoesOn(r, s)
    BY <1>2, <2>1, <2>2, <2>3 DEF GoesOn
  <2> QED
    BY <2>4 DEF s
<1> QED
  BY <1>3, <1>4, <1>5

(* A call on the queue that ends the attempts of the jobs js, and of the others
   takes away no attempt, no lease that is held, and no job that is leased. *)
Ends(js) ==
  /\ \A v \in Workers : \A l \in Running(v) \cup fetched[v] : l.id \notin js => Current(l)'
  /\ \A j \in Jobs \ js : GoesOn(job[j], job'[j])
  /\ \A j \in js : AttemptsMade(job[j]) + 1 <= AttemptsMade(job'[j])

(* It is enough to look at each job. *)
LEMMA EndsNone ==
  ASSUME WorkerIInv, HeldIsCurrent,
         \A j \in Jobs :
           /\ GoesOn(job[j], job'[j])
           /\ job[j].phase = "leased" /\ job[j].expired = FALSE =>
                \/ job'[j] = job[j]
                \/ job'[j] = Leased(job[j].attempt, job[j].owner, job[j].token, FALSE)
                \/ ~HeldAlive(j)
  PROVE  Ends({})
<1>1. ASSUME NEW v \in Workers, NEW l \in Running(v) \cup fetched[v]
      PROVE  Current(l)'
  <2>1. l \in Lease /\ Current(l)
    BY DEF WorkerIInv, TypeOK, HeldIsCurrent
  <2>2. /\ l.id \in Jobs /\ job[l.id].phase = "leased" /\ job[l.id].expired = FALSE
        /\ job[l.id].attempt = l.attempt /\ job[l.id].owner = l.owner
        /\ job[l.id].token = l.token /\ LeaseOn(l.id) = l
    BY <2>1, CurrentIs
  <2>3. HeldAlive(l.id)
    BY <2>2 DEF HeldAlive
  <2>4. \/ job'[l.id] = job[l.id]
        \/ job'[l.id] = Leased(job[l.id].attempt, job[l.id].owner, job[l.id].token, FALSE)
    BY <2>2, <2>3
  <2> QED
    BY <2>1, <2>2, <2>4 DEF Current
<1> QED
  BY <1>1 DEF Ends

(* A call that changes nothing, Enqueue, Claim, Extend and RecoverExpired end no
   attempt, and neither does the expiry of a lease that nobody holds. *)
LEMMA CallsEndNone ==
  ASSUME WorkerIInv, HeldIsCurrent,
         \/ UNCHANGED job
         \/ \E js : Enqueue(js) \/ Extend(js)
         \/ \E w \in Workers : \E js : Claim(w, js) \/ RecoverExpired(w, js)
         \/ \E j \in Jobs : Expire(j) /\ ~HeldAlive(j)
  PROVE  Ends({})
<1>0. /\ job = [j \in Jobs |-> job[j]]
      /\ \A j \in Jobs : WellFormed(job[j])
  BY DEF WorkerIInv, TypeOK, QueueTypeOK
<1>3. CASE UNCHANGED job
  BY <1>0, <1>3, JobsGoOn, EndsNone
<1>4. ASSUME NEW js, Enqueue(js)
      PROVE  Ends({})
  <2>1. ASSUME NEW j \in Jobs
        PROVE  job'[j] = job[j] \/ (job[j].phase = "absent" /\ job'[j] = Waiting(0))
    BY <1>4 DEF Enqueue, In
  <2>2. \A j \in Jobs : GoesOn(job[j], job'[j])
    BY <1>0, <2>1, JobsGoOn
  <2>3. \A j \in Jobs : job[j].phase = "leased" => job'[j] = job[j]
    BY <2>1
  <2> QED
    BY <2>2, <2>3, EndsNone
<1>5. ASSUME NEW js, Extend(js)
      PROVE  Ends({})
  <2>1. ASSUME NEW j \in Jobs
        PROVE  \/ job'[j] = job[j]
               \/ /\ job[j].phase = "leased"
                  /\ job'[j] = Leased(job[j].attempt, job[j].owner, job[j].token, FALSE)
    BY <1>5 DEF Extend, In
  <2>2. ASSUME NEW j \in Jobs
        PROVE  GoesOn(job[j], job'[j])
    <3>1. WellFormed(job[j])
      BY <1>0
    <3>2. CASE job'[j] = job[j]
      BY <3>1, <3>2, JobsGoOn
    <3>3. CASE job'[j] # job[j]
      BY <2>1, <3>1, <3>3, JobsGoOn
    <3> QED
      BY <3>2, <3>3
  <2> QED
    BY <2>1, <2>2, EndsNone
<1>6. ASSUME NEW w \in Workers, NEW js, Claim(w, js)
      PROVE  Ends({})
  <2>1. ASSUME NEW j \in Jobs
        PROVE  \/ job'[j] = job[j]
               \/ job[j].phase = "waiting" /\ job'[j] = Leased(job[j].attempt, w, 1, FALSE)
    BY <1>6 DEF Claim, In
  <2>2. ASSUME NEW j \in Jobs
        PROVE  GoesOn(job[j], job'[j])
    <3>1. WellFormed(job[j])
      BY <1>0
    <3>2. CASE job'[j] = job[j]
      BY <3>1, <3>2, JobsGoOn
    <3>3. CASE job'[j] # job[j]
      BY <2>1, <3>1, <3>3, JobsGoOn
    <3> QED
      BY <3>2, <3>3
  <2> QED
    BY <2>1, <2>2, EndsNone
<1>7. ASSUME NEW w \in Workers, NEW js, RecoverExpired(w, js)
      PROVE  Ends({})
  <2>1. ASSUME NEW j \in Jobs
        PROVE  \/ job'[j] = job[j]
               \/ /\ job[j].phase = "leased" /\ job[j].expired
                  /\ job'[j] = Leased(job[j].attempt, w, job[j].token + 1, FALSE)
    BY <1>7 DEF RecoverExpired, In
  <2>2. ASSUME NEW j \in Jobs
        PROVE  GoesOn(job[j], job'[j])
    <3>1. WellFormed(job[j])
      BY <1>0
    <3>2. CASE job'[j] = job[j]
      BY <3>1, <3>2, JobsGoOn
    <3>3. CASE job'[j] # job[j]
      BY <2>1, <3>1, <3>3, JobsGoOn
    <3> QED
      BY <3>2, <3>3
  <2> QED
    BY <2>1, <2>2, EndsNone
<1>8. ASSUME NEW j \in Jobs, Expire(j), ~HeldAlive(j)
      PROVE  Ends({})
  <2>1. /\ job[j].phase = "leased"
        /\ job' = [job EXCEPT ![j] = Leased(job[j].attempt, job[j].owner, job[j].token, TRUE)]
    BY <1>8 DEF Expire, In
  <2>2. /\ job'[j] = Leased(job[j].attempt, job[j].owner, job[j].token, TRUE)
        /\ \A i \in Jobs \ {j} : job'[i] = job[i]
    BY <1>0, <2>1
  <2>3. \A i \in Jobs : GoesOn(job[i], job'[i])
    BY <1>0, <2>1, <2>2, JobsGoOn
  <2> QED
    BY <1>8, <2>2, <2>3, EndsNone
<1> QED
  BY <1>3, <1>4, <1>5, <1>6, <1>7, <1>8

(* Ack, Retry and DeadLetter each end an attempt. *)
LEMMA SettlingEnds ==
  ASSUME WorkerIInv, HeldIsCurrent, NEW js,
         \/ Ack(js)
         \/ \E j : js = {j} /\ (Retry(j) \/ DeadLetter(j))
  PROVE  Ends(js)
<1>0. /\ job = [j \in Jobs |-> job[j]]
      /\ \A j \in Jobs : WellFormed(job[j])
      /\ MaxAttempts \in Nat
  BY QueueAssumption DEF WorkerIInv, TypeOK, QueueTypeOK
<1>1. \A j \in Jobs : GoesOn(job[j], job[j])
  BY <1>0, JobsGoOn
<1>2. /\ js \subseteq Jobs
      /\ \A j \in Jobs \ js : job'[j] = job[j]
      /\ \A j \in js : /\ job[j].phase = "leased"
                       /\ \/ job'[j] = Done \/ job'[j] = Dead
                          \/ job'[j] = Waiting(job[j].attempt + 1)
  BY <1>0 DEF Ack, Retry, DeadLetter, In
<1>3. ASSUME NEW j \in js
      PROVE  AttemptsMade(job[j]) + 1 <= AttemptsMade(job'[j])
  <2>1. /\ j \in Jobs /\ WellFormed(job[j]) /\ job[j].phase = "leased"
        /\ \/ job'[j] = Done \/ job'[j] = Dead
           \/ job'[j] = Waiting(job[j].attempt + 1)
    BY <1>0, <1>2
  <2>2. /\ AttemptsMade(job[j]) = job[j].attempt /\ AttemptsMade(job[j]) + 1 <= MaxAttempts
        /\ AttemptsMade(job[j]) \in 0 .. MaxAttempts
    BY <2>1, AttemptsOf
  <2>3. AttemptsMade(job'[j]) = MaxAttempts \/ AttemptsMade(job'[j]) = job[j].attempt + 1
    BY <2>1, AttemptsWritten
  <2> QED
    BY <1>0, <2>2, <2>3, SMT
<1>4. ASSUME NEW v \in Workers, NEW l \in Running(v) \cup fetched[v], l.id \notin js
      PROVE  Current(l)'
  <2>1. l.id \in Jobs /\ job[l.id] = Leased(l.attempt, l.owner, l.token, FALSE)
    BY DEF HeldIsCurrent, Current
  <2> QED
    BY <1>2, <1>4, <2>1 DEF Current
<1> QED
  BY <1>1, <1>2, <1>3, <1>4 DEF Ends

(* A step that starts no handler keeps the starts within the attempts, if runs
   that have begun go on or their attempt ends. *)
LEMMA CalmStep ==
  ASSUME WorkerIInv, WorkerIInv', Calm, NEW js, Ends(js), UNCHANGED starts,
         \A v \in Workers : \A l \in Running(v) :
           l.id \notin js /\ runs[v][l].pc # "new" =>
             l \in Running(v)' /\ runs'[v][l].pc # "new",
         HeldIsCurrent', ContextsAreLive'
  PROVE  Calm'
<1>1. ASSUME NEW j \in Jobs
      PROVE  \/ starts[j] <= AttemptsMade(job'[j])
             \/ /\ job'[j].phase = "leased" /\ Begun(j)'
                /\ starts[j] <= AttemptsMade(job'[j]) + 1
  <2>1. WellFormed(job[j]) /\ WellFormed(job'[j]) /\ starts[j] \in Nat /\ MaxAttempts \in Nat
    BY QueueAssumption DEF WorkerIInv, TypeOK, QueueTypeOK
  <2>2. AttemptsMade(job[j]) \in 0 .. MaxAttempts /\ AttemptsMade(job'[j]) \in 0 .. MaxAttempts
    BY <2>1, AttemptsOf
  <2>3. \/ starts[j] <= AttemptsMade(job[j])
        \/ /\ job[j].phase = "leased" /\ Begun(j)
           /\ starts[j] <= AttemptsMade(job[j]) + 1
    BY DEF Calm, StartsAreAttempts
  <2>4. CASE j \in js
    <3>1. AttemptsMade(job[j]) + 1 <= AttemptsMade(job'[j])
      BY <2>4 DEF Ends
    <3> QED
      BY <2>1, <2>2, <2>3, <3>1, SMT
  <2>5. CASE j \notin js
    <3>1. /\ AttemptsMade(job[j]) <= AttemptsMade(job'[j])
          /\ job[j].phase = "leased" => job'[j].phase = "leased"
      BY <2>5 DEF Ends, GoesOn
    <3>2. Begun(j) => Begun(j)'
      BY <2>5 DEF Begun
    <3> QED
      BY <2>1, <2>2, <2>3, <3>1, <3>2, SMT
  <2> QED
    BY <2>4, <2>5
<1> QED
  BY <1>1 DEF Calm, StartsAreAttempts

(* Leases that are held on to stay current. *)
LEMMA HeldStaysCurrent ==
  ASSUME Ends({}), \A v \in Workers : Running(v)' \cup fetched'[v] \subseteq Running(v) \cup fetched[v]
  PROVE  HeldIsCurrent'
BY DEF Ends, HeldIsCurrent

(* Steps that change nothing of what a worker runs. *)
LEMMA StillCalm ==
  ASSUME WorkerIInv, WorkerIInv', Calm, Ends({}), UNCHANGED <<fetched, runs, starts>>
  PROVE  Calm'
<1>1. \A v \in Workers : Running(v)' = Running(v)
  BY DEF Running
<1>2. HeldIsCurrent'
  BY <1>1, HeldStaysCurrent
<1>3. ContextsAreLive'
  BY <1>1 DEF Calm, ContextsAreLive, ContextDone
<1> QED
  BY <1>1, <1>2, <1>3, CalmStep

(* New runs have not begun, and their leases are current. *)
LEMMA GainIsCalm ==
  ASSUME WorkerIInv, WorkerIInv', Calm, Ends({}), NEW w \in Workers, NEW ls, Gains(w, ls),
         \A l \in ls : Current(l)', UNCHANGED starts
  PROVE  Calm'
<1>1. \A v \in Workers : \A l \in Running(v) : l \in Running(v)' /\ runs'[v][l] = runs[v][l]
  BY DEF Gains, Running
<1>2. HeldIsCurrent'
  <2>1. \A v \in Workers : Running(v)' \cup fetched'[v] \subseteq Running(v) \cup fetched[v] \cup ls
    BY DEF Gains, Running
  <2> QED
    BY <2>1 DEF Ends, HeldIsCurrent
<1>3. ContextsAreLive'
  <2>1. \A v \in Workers : \A l \in Running(v)' :
          l \in Running(v) \/ runs'[v][l].ctx = "live"
    BY DEF Gains, Running
  <2>2. \A v \in Workers : \A l \in Running(v) : runs[v][l].ctx = "live"
    BY DEF Calm, ContextsAreLive, ContextDone
  <2>3. \A v \in Workers : \A l \in Running(v)' : runs'[v][l].ctx = "live"
    BY <1>1, <2>1, <2>2, SMT
  <2> QED
    BY <2>3 DEF ContextsAreLive, ContextDone
<1> QED
  BY <1>1, <1>2, <1>3, CalmStep

(* Two current leases on one job are the same lease. *)
LEMMA CurrentIsUnique ==
  ASSUME WorkerIInv, HeldIsCurrent, NEW v \in Workers, NEW l \in Running(v) \cup fetched[v],
         NEW w \in Workers, NEW k \in Running(w) \cup fetched[w], l.id = k.id
  PROVE  l = k /\ v = w
<1>1. l \in Lease /\ k \in Lease /\ Current(l) /\ Current(k) /\ l.owner = v /\ k.owner = w
  BY DEF WorkerIInv, TypeOK, LeasesAreIssued, HeldIsCurrent
<1>2. LeaseOn(l.id) = l /\ LeaseOn(k.id) = k
  BY <1>1, CurrentIs
<1> QED
  BY <1>1, <1>2

(* Runs that return have not begun, or their jobs' attempts have ended. *)
LEMMA EndIsCalm ==
  ASSUME WorkerIInv, WorkerIInv', Calm, NEW js, Ends(js), NEW w \in Workers,
         NEW ls \in SUBSET Running(w), End(w, ls), UNCHANGED <<fetched, starts>>,
         \/ js = IDs(ls)
         \/ js = {} /\ \A l \in ls : runs[w][l].pc = "new"
  PROVE  Calm'
<1>1. /\ \A v \in Workers \ {w} : runs'[v] = runs[v]
      /\ Running(w)' = Running(w) \ ls
      /\ \A l \in Running(w) \ ls : runs'[w][l] = runs[w][l]
  BY EndRuns DEF WorkerIInv
<1>2. \A v \in Workers : \A l \in Running(v)' : l \in Running(v) /\ runs'[v][l] = runs[v][l]
  BY <1>1 DEF Running
<1>3. ASSUME NEW v \in Workers, NEW l \in Running(v)' \cup fetched'[v]
      PROVE  Current(l)'
  <2>1. l \in Running(v) \cup fetched[v]
    BY <1>2
  <2>2. l.id \notin js
    <3>1. CASE js = {}
      BY <3>1
    <3>2. CASE js = IDs(ls)
      <4> SUFFICES ASSUME NEW k \in ls, k.id = l.id
                   PROVE  FALSE
        BY <3>2 DEF IDs
      <4>1. k \in Running(w) /\ k \notin fetched[w] /\ k \notin Running(w)'
        BY <1>1 DEF WorkerIInv, LeasesAreIssued
      <4>2. l = k /\ v = w
        BY <2>1, <4>1, CurrentIsUnique DEF Calm
      <4> QED
        BY <4>1, <4>2
    <3> QED
      BY <3>1, <3>2
  <2> QED
    BY <2>1, <2>2 DEF Ends
<1>4. HeldIsCurrent'
  BY <1>3 DEF HeldIsCurrent
<1>5. ContextsAreLive'
  <2>1. \A v \in Workers : \A l \in Running(v) : runs[v][l].ctx = "live"
    BY DEF Calm, ContextsAreLive, ContextDone
  <2>2. \A v \in Workers : \A l \in Running(v)' : runs'[v][l].ctx = "live"
    BY <1>2, <2>1, SMT
  <2> QED
    BY <2>2 DEF ContextsAreLive, ContextDone
<1>6. \A v \in Workers : \A l \in Running(v) :
        l.id \notin js /\ runs[v][l].pc # "new" => l \in Running(v)' /\ runs'[v][l].pc # "new"
  <2>1. ASSUME NEW l \in Running(w), l.id \notin js, runs[w][l].pc # "new"
        PROVE  l \notin ls
    BY <2>1 DEF IDs
  <2>2. \A v \in Workers \ {w} : Running(v)' = Running(v) /\ runs'[v] = runs[v]
    BY <1>1 DEF Running
  <2> QED
    BY <1>1, <2>1, <2>2
<1> QED
  BY <1>4, <1>5, <1>6, CalmStep

(* A goroutine that goes on has begun. *)
LEMMA GotoIsCalm ==
  ASSUME WorkerIInv, WorkerIInv', Calm, NEW w \in Workers, NEW l \in Running(w),
         NEW pc \in {"running", "acking", "burying", "retrying"}, Goto(w, l, pc),
         UNCHANGED <<job, fetched>>
  PROVE  /\ HeldIsCurrent' /\ ContextsAreLive' /\ Begun(l.id)'
         /\ Ends({})
         /\ UNCHANGED starts => Calm'
<1>0. Ends({})
  BY CallsEndNone DEF Calm
<1>1. /\ \A v \in Workers \ {w} : runs'[v] = runs[v]
      /\ Running(w)' = Running(w)
      /\ runs'[w][l].pc = pc
      /\ runs'[w][l].ctx = runs[w][l].ctx
      /\ \A k \in Running(w) \ {l} : runs'[w][k] = runs[w][k]
  <2>1. TypeOK /\ pc \in {"new", "running", "acking", "burying", "retrying"}
    BY DEF WorkerIInv
  <2>2. /\ runs' = [v \in Workers |-> runs'[v]]
        /\ \A v \in Workers \ {w} : runs'[v] = runs[v]
        /\ Running(w)' = Running(w)
        /\ runs'[w][l].pc = pc /\ runs'[w][l] \in Goroutine
        /\ runs'[w][l].ctx = runs[w][l].ctx
        /\ \A k \in Running(w) \ {l} : runs'[w][k] = runs[w][k]
    BY <2>1, GotoRuns
  <2> QED
    BY <2>2
<1>2. \A v \in Workers : Running(v)' = Running(v)
  BY <1>1 DEF Running
<1>3. HeldIsCurrent'
  BY <1>0, <1>2, HeldStaysCurrent
<1>4. pc # "new"
  OBVIOUS
<1>5. \A v \in Workers : \A k \in Running(v) :
        /\ runs'[v][k].ctx = runs[v][k].ctx
        /\ runs[v][k].pc # "new" => runs'[v][k].pc # "new"
  <2>1. ASSUME NEW v \in Workers, NEW k \in Running(v)
        PROVE  runs'[v][k] = runs[v][k] \/ (v = w /\ k = l)
    BY <1>1
  <2> QED
    BY <1>1, <1>4, <2>1, SMT
<1>6. ContextsAreLive'
  <2>1. \A v \in Workers : \A k \in Running(v) : runs[v][k].ctx = "live"
    BY DEF Calm, ContextsAreLive, ContextDone
  <2>2. \A v \in Workers : \A k \in Running(v)' : runs'[v][k].ctx = "live"
    BY <1>2, <1>5, <2>1, SMT
  <2> QED
    BY <2>2 DEF ContextsAreLive, ContextDone
<1>7. Begun(l.id)'
  BY <1>1, <1>2, <1>4 DEF Begun
<1>8. ASSUME UNCHANGED starts
      PROVE  Calm'
  BY <1>0, <1>2, <1>3, <1>5, <1>6, <1>8, CalmStep
<1> QED
  BY <1>0, <1>3, <1>6, <1>7, <1>8

(* The handler is started, and this attempt has not begun before. *)
LEMMA StartIsCalm ==
  ASSUME WorkerIInv, WorkerIInv', Calm, NEW w \in Workers, NEW l \in Running(w),
         runs[w][l].pc = "new", Goto(w, l, "running"),
         starts' = [starts EXCEPT ![l.id] = @ + 1], UNCHANGED <<job, fetched>>
  PROVE  Calm'
<1>1. HeldIsCurrent' /\ ContextsAreLive' /\ Begun(l.id)'
  BY GotoIsCalm
<1>2. l \in Lease /\ Current(l)
  BY DEF WorkerIInv, TypeOK, Calm, HeldIsCurrent
<1>3. l.id \in Jobs /\ job[l.id].phase = "leased"
  BY <1>2, CurrentIs
<1>4. ~Begun(l.id)
  <2> SUFFICES ASSUME NEW v \in Workers, NEW k \in Running(v), k.id = l.id,
                      runs[v][k].pc # "new"
               PROVE  FALSE
    BY DEF Begun
  <2>1. k = l /\ v = w
    BY CurrentIsUnique DEF Calm
  <2> QED
    BY <2>1
<1>5. ASSUME NEW j \in Jobs
      PROVE  \/ starts'[j] <= AttemptsMade(job'[j])
             \/ /\ job'[j].phase = "leased" /\ Begun(j)'
                /\ starts'[j] <= AttemptsMade(job'[j]) + 1
  <2>1. /\ WellFormed(job[j]) /\ starts \in [Jobs -> Nat] /\ MaxAttempts \in Nat
        /\ AttemptsMade(job[j]) \in 0 .. MaxAttempts
    BY QueueAssumption, AttemptsOf DEF WorkerIInv, TypeOK, QueueTypeOK
  <2>2. \/ starts[j] <= AttemptsMade(job[j])
        \/ /\ job[j].phase = "leased" /\ Begun(j)
           /\ starts[j] <= AttemptsMade(job[j]) + 1
    BY DEF Calm, StartsAreAttempts
  <2>3. CASE j = l.id
    <3>1. starts[j] <= AttemptsMade(job[j]) /\ starts'[j] = starts[j] + 1
      BY <1>3, <1>4, <2>1, <2>2, <2>3
    <3>2. starts'[j] <= AttemptsMade(job'[j]) + 1
      BY <2>1, <3>1, SMT
    <3> QED
      BY <1>1, <1>3, <2>3, <3>2
  <2>4. CASE j # l.id
    <3>1. starts'[j] = starts[j]
      BY <2>1, <2>4
    <3>2. Begun(j) => Begun(j)'
      <4>1. \A v \in Workers \ {w} : runs'[v] = runs[v]
        BY GotoRuns DEF WorkerIInv
      <4>2. /\ Running(w)' = Running(w)
            /\ \A k \in Running(w) \ {l} : runs'[w][k] = runs[w][k]
        BY GotoRuns DEF WorkerIInv
      <4>3. ASSUME NEW v \in Workers, NEW k \in Running(v), k.id = j
            PROVE  k \in Running(v)' /\ runs'[v][k] = runs[v][k]
        BY <2>4, <4>1, <4>2, <4>3 DEF Running
      <4>4. ASSUME NEW v \in Workers, NEW k \in Running(v), k.id = j, runs[v][k].pc # "new"
            PROVE  Begun(j)'
        <5>1. k \in Running(v)' /\ runs'[v][k].pc # "new"
          BY <4>3, <4>4
        <5> QED
          BY <4>4, <5>1 DEF Begun
      <4> QED
        BY <4>4 DEF Begun
    <3> QED
      BY <2>2, <3>1, <3>2
  <2> QED
    BY <2>3, <2>4
<1> QED
  BY <1>1, <1>5 DEF Calm, StartsAreAttempts

(* Claim and RecoverExpired lease to the worker that calls. *)
LEMMA LeasedIsCurrent ==
  ASSUME NEW w \in Workers, NEW js
  PROVE  /\ Claim(w, js) => \A l \in LeasesOf(w, js, [j \in js |-> 1]) : Current(l)'
         /\ RecoverExpired(w, js) =>
              \A l \in LeasesOf(w, js, [j \in js |-> job[j].token + 1]) : Current(l)'
<1>1. ASSUME Claim(w, js), NEW l \in LeasesOf(w, js, [j \in js |-> 1])
      PROVE  Current(l)'
  <2>1. PICK j \in js : l = [id |-> j, attempt |-> job[j].attempt, owner |-> w, token |-> 1]
    BY <1>1 DEF LeasesOf
  <2>2. l.id = j /\ l.attempt = job[j].attempt /\ l.owner = w /\ l.token = 1
    BY <2>1
  <2>3. j \in Jobs /\ job'[j] = Leased(job[j].attempt, w, 1, FALSE)
    BY <1>1 DEF Claim, In
  <2> QED
    BY <2>2, <2>3 DEF Current
<1>2. ASSUME RecoverExpired(w, js),
             NEW l \in LeasesOf(w, js, [j \in js |-> job[j].token + 1])
      PROVE  Current(l)'
  <2>1. PICK j \in js : l = [id |-> j, attempt |-> job[j].attempt, owner |-> w,
                             token |-> job[j].token + 1]
    BY <1>2 DEF LeasesOf
  <2>2. l.id = j /\ l.attempt = job[j].attempt /\ l.owner = w /\ l.token = job[j].token + 1
    BY <2>1
  <2>3. j \in Jobs /\ job'[j] = Leased(job[j].attempt, w, job[j].token + 1, FALSE)
    BY <1>2 DEF RecoverExpired, In
  <2> QED
    BY <2>2, <2>3 DEF Current
<1> QED
  BY <1>1, <1>2

(* Without a fault no fault happens. *)
LEMMA NoFault ==
  ASSUME WorkerIInv, UNCHANGED faults
  PROVE  ~Fault
<1>1. faults \in 0 .. MaxFaults /\ MaxFaults \in Nat
  BY WorkerAssumption DEF WorkerIInv, TypeOK
<1> QED
  BY <1>1, SMT DEF Fault

(* Loop, FetchRecover and FetchClaim. *)
LEMMA FetchingIsCalm ==
  ASSUME WorkerIInv, WorkerIInv', Calm, NEW w \in Workers, Fetching(w)
  PROVE  Calm'
<1>1. CASE Loop(w)
  <2>1. Ends({})
    BY <1>1, CallsEndNone DEF Calm, Loop
  <2> QED
    BY <1>1, <2>1, StillCalm DEF Loop, historyVars
<1>2. ASSUME NEW js, FetchRecover(w, js)
      PROVE  Calm'
  <2>1. RecoverExpired(w, js) /\ UNCHANGED starts
    BY <1>2 DEF FetchRecover, historyVars
  <2>2. Ends({})
    BY <2>1, CallsEndNone DEF Calm
  <2> DEFINE ls == LeasesOf(w, js, [j \in js |-> job[j].token + 1])
  <2>3. Gains(w, ls)
    BY <1>2, FetchRecoverKeeps
  <2>4. \A l \in ls : Current(l)'
    BY <2>1, LeasedIsCurrent
  <2> HIDE DEF ls
  <2> QED
    BY <2>1, <2>2, <2>3, <2>4, GainIsCalm
<1>3. ASSUME NEW js, FetchClaim(w, js)
      PROVE  Calm'
  <2>1. Claim(w, js) /\ UNCHANGED starts
    BY <1>3 DEF FetchClaim, historyVars
  <2>2. Ends({})
    BY <2>1, CallsEndNone DEF Calm
  <2> DEFINE ls == LeasesOf(w, js, [j \in js |-> 1])
  <2>3. Gains(w, ls)
    BY <1>3, FetchClaimKeeps
  <2>4. \A l \in ls : Current(l)'
    BY <2>1, LeasedIsCurrent
  <2> HIDE DEF ls
  <2> QED
    BY <2>1, <2>2, <2>3, <2>4, GainIsCalm
<1> QED
  BY <1>1, <1>2, <1>3 DEF Fetching

(* The steps of a goroutine.  A context that is live is not done, and a settling
   call with a current lease lands. *)
LEMMA JobStepIsCalm ==
  ASSUME WorkerIInv, WorkerIInv', Calm, UNCHANGED faults,
         NEW w \in Workers, NEW l \in Running(w), JobStep(w, l)
  PROVE  Calm'
<1>1. /\ l \in Lease /\ Current(l) /\ ~ContextDone(w, l) /\ ~Fault
      /\ {l} \in SUBSET Running(w) /\ IDs({l}) = {l.id}
  BY NoFault DEF WorkerIInv, TypeOK, Calm, HeldIsCurrent, ContextsAreLive, IDs
<1>2. Owns(l)
  BY <1>1, CurrentIs
<1>3. CASE HandleOne(w, l)
  <2>1. runs[w][l].pc = "new" /\ UNCHANGED <<job, fetched>>
    BY <1>3 DEF HandleOne, At, fetchVars
  <2>2. CASE Goto(w, l, "burying") /\ UNCHANGED starts
    BY <2>1, <2>2, GotoIsCalm
  <2>3. CASE End(w, {l}) /\ UNCHANGED starts
    <3>1. Ends({})
      BY <2>1, CallsEndNone DEF Calm
    <3>2. \A k \in {l} : runs[w][k].pc = "new"
      BY <2>1
    <3> QED
      BY <1>1, <2>1, <2>3, <3>1, <3>2, EndIsCalm
  <2>4. CASE Goto(w, l, "running") /\ starts' = [starts EXCEPT ![l.id] = @ + 1]
    BY <2>1, <2>4, StartIsCalm
  <2> QED
    BY <1>3, <2>2, <2>3, <2>4 DEF HandleOne
<1>4. ~Abandon(w, l)
  BY <1>1 DEF Abandon
<1>5. CASE Succeed(w, l)
  BY <1>5, GotoIsCalm DEF Succeed, fetchVars, historyVars
<1>6. ASSUME NEW retryable, Fail(w, l, retryable)
      PROVE  Calm'
  BY <1>6, GotoIsCalm DEF Fail, fetchVars, historyVars
<1>7. CASE Bury(w, l) \/ ScheduleRetry(w, l)
  <2>1. /\ DeadLetter(l.id) \/ Retry(l.id)
        /\ End(w, {l}) /\ UNCHANGED <<fetched, starts>>
    BY <1>1, <1>2, <1>7 DEF Bury, ScheduleRetry, CallFails, FaultUnless, fetchVars, historyVars
  <2>2. Ends({l.id})
    BY <2>1, SettlingEnds DEF Calm
  <2> QED
    BY <1>1, <2>1, <2>2, EndIsCalm
<1> QED
  BY <1>3, <1>4, <1>5, <1>6, <1>7 DEF JobStep

(* AckCall: the whole batch is owned, and acked. *)
LEMMA AckCallIsCalm ==
  ASSUME WorkerIInv, WorkerIInv', Calm, Quiet, UNCHANGED faults, NEW w \in Workers, AckCall(w)
  PROVE  Calm'
<1>1. batch[w] \subseteq Running(w) /\ batch[w] \in SUBSET Running(w)
  BY DEF WorkerIInv, AckersAreAnswered
<1>2. OwnedOf(batch[w]) = batch[w]
  <2>1. \A l \in Running(w) : l \in Lease /\ Current(l)
    BY DEF WorkerIInv, TypeOK, Calm, HeldIsCurrent
  <2>2. \A l \in Running(w) : Owns(l)
    BY <2>1, CurrentIs
  <2> QED
    BY <1>1, <2>2 DEF OwnedOf
<1>3. status[w] # "cancelled" /\ ~Fault
  BY NoFault DEF Quiet
<1>4. Ack(IDs(batch[w])) /\ End(w, batch[w]) /\ UNCHANGED <<fetched, starts>>
  BY <1>2, <1>3 DEF AckCall, FaultUnless, fetchVars
<1>5. Ends(IDs(batch[w]))
  BY <1>4, SettlingEnds DEF Calm
<1> QED
  BY <1>1, <1>4, <1>5, EndIsCalm

(* Renew: every lease that is still running is owned, so nothing is cancelled. *)
LEMMA RenewIsCalm ==
  ASSUME WorkerIInv, WorkerIInv', Calm, Quiet, UNCHANGED faults,
         NEW w \in Workers, NEW ls, Renew(w, ls)
  PROVE  Calm'
<1> DEFINE m == Cancelled(w, ls \ OwnedOf(ls), "lease lost")
<1>1. status[w] # "cancelled" /\ ~Fault
  BY NoFault DEF Quiet
<1>2. /\ Extend(IDs(OwnedOf(ls))) /\ runs' = [runs EXCEPT ![w] = m]
      /\ UNCHANGED <<fetched, starts>>
  BY <1>1 DEF Renew, FaultUnless, fetchVars, historyVars
<1>3. \A l \in Running(w) : Owns(l)
  <2>1. \A l \in Running(w) : l \in Lease /\ Current(l)
    BY DEF WorkerIInv, TypeOK, Calm, HeldIsCurrent
  <2> QED
    BY <2>1, CurrentIs
<1>4. DOMAIN m = Running(w) /\ \A l \in Running(w) : m[l] = runs[w][l]
  <2>1. \A l \in Running(w) : l \notin ls \ OwnedOf(ls)
    BY <1>3 DEF OwnedOf
  <2> QED
    BY <2>1 DEF Cancelled
<1> HIDE DEF m
<1>5. BecomesMap(w, m)
  <2>1. runs = [v \in Workers |-> runs[v]]
    BY DEF WorkerIInv, TypeOK
  <2> QED
    BY <1>2, <2>1 DEF BecomesMap
<1>6. /\ \A v \in Workers : Running(v)' = Running(v)
      /\ \A v \in Workers : \A l \in Running(v) : runs'[v][l] = runs[v][l]
  BY <1>4, <1>5 DEF BecomesMap, Running
<1>7. Ends({})
  BY <1>2, CallsEndNone DEF Calm
<1>8. HeldIsCurrent'
  BY <1>2, <1>6, <1>7, HeldStaysCurrent
<1>9. ContextsAreLive'
  <2>1. \A v \in Workers : \A l \in Running(v) : runs[v][l].ctx = "live"
    BY DEF Calm, ContextsAreLive, ContextDone
  <2>2. \A v \in Workers : \A l \in Running(v)' : runs'[v][l].ctx = "live"
    BY <1>6, <2>1, SMT
  <2> QED
    BY <2>2 DEF ContextsAreLive, ContextDone
<1>10. \A v \in Workers : \A l \in Running(v) :
         runs[v][l].pc # "new" => l \in Running(v)' /\ runs'[v][l].pc # "new"
  BY <1>6, SMT
<1> QED
  BY <1>2, <1>7, <1>8, <1>9, <1>10, CalmStep

(* The other steps change nothing of what a worker runs, or are none of an
   execution without faults. *)
LEMMA OthersAreCalm ==
  ASSUME WorkerIInv, WorkerIInv', Calm, Quiet', UNCHANGED faults,
         \/ \E w \in Workers :
              \/ \E ls : TakeAcks(w, ls)
              \/ Tick(w) \/ Shutdown(w) \/ Stopping(w) \/ Crash(w) \/ Restart(w)
         \/ \E j \in Jobs : Submit(j) \/ LeaseExpires(j)
         \/ UNCHANGED vars
  PROVE  Calm'
<1>0. ~Fault
  BY NoFault
<1>1. ASSUME NEW w \in Workers, Crash(w) \/ DrainTimeout(w)
      PROVE  FALSE
  <2>1. ~Crash(w)
    BY <1>0 DEF Crash
  <2>2. status'[w] = "cancelled"
    BY <1>1, <2>1 DEF WorkerIInv, TypeOK, DrainTimeout
  <2> QED
    BY <2>2 DEF Quiet
<1>2. ASSUME NEW j \in Jobs, LeaseExpires(j)
      PROVE  Calm'
  <2>1. Expire(j) /\ ~HeldAlive(j) /\ UNCHANGED <<fetched, runs, starts>>
    BY <1>0, <1>2 DEF LeaseExpires, fetchVars, historyVars
  <2>2. Ends({})
    BY <2>1, CallsEndNone DEF Calm
  <2> QED
    BY <2>1, <2>2, StillCalm
<1>3. ASSUME NEW j \in Jobs, Submit(j)
      PROVE  Calm'
  <2>1. Enqueue({j}) /\ UNCHANGED <<fetched, runs, starts>>
    BY <1>3 DEF Submit, fetchVars, historyVars
  <2>2. Ends({})
    BY <2>1, CallsEndNone DEF Calm
  <2> QED
    BY <2>1, <2>2, StillCalm
<1>4. ASSUME UNCHANGED <<job, fetched, runs, starts>>
      PROVE  Calm'
  <2>1. Ends({})
    BY <1>4, CallsEndNone DEF Calm
  <2> QED
    BY <1>4, <2>1, StillCalm
<1>5. ASSUME NEW w \in Workers,
             \/ \E ls : TakeAcks(w, ls)
             \/ Tick(w) \/ Shutdown(w) \/ Return(w) \/ Restart(w)
      PROVE  UNCHANGED <<job, fetched, runs, starts>>
  BY <1>5 DEF TakeAcks, Tick, Shutdown, Return, Restart, fetchVars, historyVars
<1>6. ASSUME UNCHANGED vars
      PROVE  UNCHANGED <<job, fetched, runs, starts>>
  BY <1>6 DEF vars, fetchVars, historyVars
<1> QED
  BY <1>1, <1>2, <1>3, <1>4, <1>5, <1>6 DEF Stopping

(* Faults are only ever used up, a crash is one, and from where it is a worker's
   Run goes on in few ways. *)
LEMMA StatusSteps ==
  ASSUME WorkerIInv, [Next]_vars
  PROVE  /\ Fault \/ UNCHANGED faults
         /\ \A v \in Workers :
              \/ status'[v] = status[v]
              \/ status[v] = "up" /\ status'[v] = "draining"
              \/ status'[v] = "cancelled" \/ status'[v] = "stopped"
              \/ status'[v] = "crashed" /\ Fault
              \/ status[v] = "crashed" /\ status'[v] = "up"
<1> DEFINE Goes(v) ==
      \/ status'[v] = status[v]
      \/ status[v] = "up" /\ status'[v] = "draining"
      \/ status'[v] = "cancelled" \/ status'[v] = "stopped"
      \/ status'[v] = "crashed" /\ Fault
      \/ status[v] = "crashed" /\ status'[v] = "up"
<1>0. status \in [Workers -> {"up", "draining", "cancelled", "stopped", "crashed"}]
  BY DEF WorkerIInv, TypeOK
<1>1. ASSUME NEW w \in Workers, WorkerStep(w)
      PROVE  (Fault \/ UNCHANGED faults) /\ \A v \in Workers : Goes(v)
  <2>1. CASE Fetching(w)
    <3>1. UNCHANGED status /\ (Fault \/ UNCHANGED faults)
      BY <2>1 DEF Fetching, Loop, FetchRecover, FetchClaim, FaultUnless
    <3> QED
      BY <3>1
  <2>2. ASSUME NEW l \in Running(w), JobStep(w, l)
        PROVE  UNCHANGED status /\ (Fault \/ UNCHANGED faults)
    BY <2>2 DEF JobStep, HandleOne, Abandon, Succeed, Fail, Bury, ScheduleRetry, CallFails,
                FaultUnless
  <2>3. CASE Acking(w)
    <3>1. UNCHANGED status /\ (Fault \/ UNCHANGED faults)
      BY <2>3 DEF Acking, TakeAcks, AckCall, FaultUnless
    <3> QED
      BY <3>1
  <2>4. CASE Heartbeat(w)
    <3>1. UNCHANGED status /\ (Fault \/ UNCHANGED faults)
      BY <2>4 DEF Heartbeat, Tick, Renew, FaultUnless
    <3> QED
      BY <3>1
  <2>5. CASE Shutdown(w) \/ Stopping(w) \/ Crash(w) \/ Restart(w)
    <3>1. PICK s : /\ status' = [status EXCEPT ![w] = s]
                   /\ \/ status[w] = "up" /\ s = "draining"
                      \/ s = "cancelled" \/ s = "stopped"
                      \/ s = "crashed" /\ Fault
                      \/ status[w] = "crashed" /\ s = "up"
      BY <2>5 DEF Shutdown, Stopping, DrainTimeout, Return, Crash, Restart
    <3>2. status'[w] = s /\ \A v \in Workers \ {w} : status'[v] = status[v]
      BY <1>0, <3>1
    <3>3. Goes(w) /\ \A v \in Workers \ {w} : Goes(v)
      BY <3>1, <3>2
    <3>4. Fault \/ UNCHANGED faults
      BY <2>5 DEF Shutdown, Stopping, DrainTimeout, Return, Crash, Restart
    <3> HIDE DEF Goes
    <3> QED
      BY <3>3, <3>4
  <2> QED
    BY <1>1, <2>1, <2>2, <2>3, <2>4, <2>5 DEF WorkerStep
<1>2. ASSUME \/ \E j \in Jobs : Submit(j) \/ LeaseExpires(j)
             \/ UNCHANGED vars
      PROVE  UNCHANGED status /\ (Fault \/ UNCHANGED faults)
  BY <1>2 DEF Submit, LeaseExpires, vars
<1> QED
  BY <1>1, <1>2 DEF Next

(* An execution without faults so far was one before the step. *)
LEMMA QuietBefore ==
  ASSUME WorkerIInv, CrashIsFault, [Next]_vars
  PROVE  CrashIsFault' /\ (Quiet' => Quiet /\ UNCHANGED faults)
<1>1. faults \in 0 .. MaxFaults /\ MaxFaults \in Nat
  BY WorkerAssumption DEF WorkerIInv, TypeOK
<1>2. Fault \/ UNCHANGED faults
  BY StatusSteps
<1>3. /\ Fault => faults' < MaxFaults
      /\ faults < MaxFaults => faults' < MaxFaults
      /\ faults' = MaxFaults => UNCHANGED faults
  BY <1>1, <1>2, SMT DEF Fault
<1>4. ASSUME NEW v \in Workers, status'[v] = "crashed"
      PROVE  faults' < MaxFaults
  <2>1. status[v] = "crashed" \/ Fault
    BY <1>4, StatusSteps
  <2> QED
    BY <1>3, <2>1 DEF CrashIsFault
<1>5. ASSUME Quiet'
      PROVE  Quiet /\ UNCHANGED faults
  <2>1. faults' = MaxFaults /\ UNCHANGED faults /\ faults = MaxFaults
    BY <1>3, <1>5 DEF Quiet
  <2>2. ~(MaxFaults < MaxFaults)
    BY <1>1, SMT
  <2>3. ASSUME NEW v \in Workers
        PROVE  status[v] \in {"up", "draining"}
    <3>1. status'[v] = "up" \/ status'[v] = "draining"
      BY <1>5 DEF Quiet
    <3>2. status[v] # "crashed"
      BY <2>1, <2>2 DEF CrashIsFault
    <3> QED
      BY <3>1, <3>2, StatusSteps
  <2> QED
    BY <2>1, <2>3 DEF Quiet
<1> QED
  BY <1>4, <1>5 DEF CrashIsFault

(* Initially nothing has failed, and nothing has run. *)
LEMMA QuietInit ==
  ASSUME Init
  PROVE  QuietIInv
<1>1. \A w \in Workers : Running(w) = {} /\ fetched[w] = {} /\ status[w] = "up"
  <2>1. DOMAIN <<>> = {}
    BY SMT
  <2> QED
    BY <2>1 DEF Init, Running
<1>2. \A j \in Jobs : starts[j] = 0 /\ job[j] = Absent
  BY DEF Init, QueueInit
<1>3. AttemptsMade(Absent) = 0 /\ 0 <= 0
  BY SMT DEF AttemptsMade, Absent
<1> QED
  BY <1>1, <1>2, <1>3 DEF QuietIInv, CrashIsFault, Calm, HeldIsCurrent, ContextsAreLive,
                          StartsAreAttempts

(* Executions without faults stay calm. *)
LEMMA QuietStepInv ==
  ASSUME WorkerIInv, WorkerIInv', QuietIInv, [Next]_vars
  PROVE  QuietIInv'
<1>1. CrashIsFault' /\ (Quiet' => Quiet /\ UNCHANGED faults)
  BY QuietBefore DEF QuietIInv
<1>2. ASSUME Quiet'
      PROVE  Calm'
  <2>1. Quiet /\ Calm /\ UNCHANGED faults
    BY <1>1, <1>2 DEF QuietIInv
  <2>2. ASSUME NEW w \in Workers, WorkerStep(w)
        PROVE  Calm'
    <3>1. CASE Fetching(w)
      BY <2>1, <3>1, FetchingIsCalm
    <3>2. CASE \E l \in Running(w) : JobStep(w, l)
      BY <2>1, <3>2, JobStepIsCalm
    <3>3. CASE AckCall(w)
      BY <2>1, <3>3, AckCallIsCalm
    <3>4. CASE \E ls : Renew(w, ls)
      BY <2>1, <3>4, RenewIsCalm
    <3>5. CASE \/ \E ls : TakeAcks(w, ls)
               \/ Tick(w) \/ Shutdown(w) \/ Stopping(w) \/ Crash(w) \/ Restart(w)
      BY <1>2, <2>1, <3>5, OthersAreCalm
    <3> QED
      BY <2>2, <3>1, <3>2, <3>3, <3>4, <3>5 DEF WorkerStep, Acking, Heartbeat
  <2>3. CASE \/ \E j \in Jobs : Submit(j) \/ LeaseExpires(j)
             \/ UNCHANGED vars
    BY <1>2, <2>1, <2>3, OthersAreCalm
  <2> QED
    BY <2>2, <2>3 DEF Next
<1> QED
  BY <1>1, <1>2 DEF QuietIInv

(* As long as nothing fails and no drain times out, a job's handler is started
   at most once per attempt, and heartbeats, which work on a snapshot of what is
   running, cancel no run: with any number of workers, jobs and attempts,
   handlers missing from some of the workers, and workers that shut down. *)
THEOREM JobsRunOnceWithoutFaults == Spec => []RunsOnceWithoutFaults
<1>1. ASSUME WorkerIInv, QuietIInv
      PROVE  RunsOnceWithoutFaults
  <2> SUFFICES ASSUME Quiet
               PROVE  /\ \A j \in Jobs : starts[j] <= MaxAttempts
                      /\ \A w \in Workers : \A l \in Running(w) : Owns(l) /\ ~ContextDone(w, l)
    BY DEF RunsOnceWithoutFaults
  <2>1. HeldIsCurrent /\ ContextsAreLive /\ StartsAreAttempts
    BY <1>1 DEF QuietIInv, Calm
  <2>2. ASSUME NEW j \in Jobs
        PROVE  starts[j] <= MaxAttempts
    <3>1. WellFormed(job[j]) /\ starts[j] \in Nat /\ MaxAttempts \in Nat
      BY <1>1, QueueAssumption DEF WorkerIInv, TypeOK, QueueTypeOK
    <3>2. /\ AttemptsMade(job[j]) \in 0 .. MaxAttempts
          /\ job[j].phase = "leased" => AttemptsMade(job[j]) + 1 <= MaxAttempts
      BY <3>1, AttemptsOf
    <3>3. \/ starts[j] <= AttemptsMade(job[j])
          \/ job[j].phase = "leased" /\ starts[j] <= AttemptsMade(job[j]) + 1
      BY <2>1 DEF StartsAreAttempts
    <3> QED
      BY <3>1, <3>2, <3>3, SMT
  <2>3. ASSUME NEW w \in Workers, NEW l \in Running(w)
        PROVE  Owns(l) /\ ~ContextDone(w, l)
    <3>1. l \in Lease /\ Current(l)
      BY <1>1, <2>1 DEF WorkerIInv, TypeOK, HeldIsCurrent
    <3> QED
      BY <2>1, <3>1, CurrentIs DEF ContextsAreLive
  <2> QED
    BY <2>2, <2>3
<1>2. QuietIInv /\ WorkerIInv /\ WorkerIInv' /\ [Next]_vars => QuietIInv'
  BY QuietStepInv
<1> QED
  BY <1>1, <1>2, QuietInit, WorkerInductiveInvariant, PTL DEF Spec
=============================================================================
