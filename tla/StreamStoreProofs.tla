-------------------------- MODULE StreamStoreProofs --------------------------
(* Proofs about StreamStore, for every number of jobs, workers, keys,        *)
(* attempts and deliveries: its invariants, and that it implements the       *)
(* Backend contract.  The invariant makes a job's record unambiguous; each   *)
(* action is then a step of the contract on those records, or leaves all of  *)
(* them alone.                                                               *)
EXTENDS StoreContract, TLAPS

(* Leaves are Zenon's, but for those that name SMT. *)
USE Zenon

-----------------------------------------------------------------------------
(* What the helpers do to the state they update *)

(* XADD of a sequence of entries keeps the old ones and appends the new. *)
LEMMA AddedFacts ==
  ASSUME TypeOK, NEW fs, fs \in Seq(Fields), stream' = Added(fs)
  PROVE  /\ DOMAIN stream' = DOMAIN stream \cup (lastID + 1 .. lastID + Len(fs))
         /\ \A m \in DOMAIN stream : m \in DOMAIN stream' /\ stream'[m] = stream[m]
         /\ \A i \in 1 .. Len(fs) : /\ lastID + i \in DOMAIN stream'
                                    /\ stream'[lastID + i] = fs[i]
         /\ \A m \in DOMAIN stream' \ DOMAIN stream :
              m > lastID /\ m - lastID \in 1 .. Len(fs) /\ stream'[m] = fs[m - lastID]
         /\ DOMAIN stream' \subseteq 1 .. lastID + Len(fs)
         /\ stream' \in [DOMAIN stream' -> Fields]
<1> DEFINE s == Added(fs)
<1>1. DOMAIN s = DOMAIN stream \cup (lastID + 1 .. lastID + Len(fs))
  BY DEF Added
<1>2. \A m \in DOMAIN stream : m \in DOMAIN s /\ s[m] = stream[m] /\ m \in Nat /\ m <= lastID
  BY SMT DEF Added, TypeOK
<1>3. Len(fs) \in Nat /\ \A i \in 1 .. Len(fs) : fs[i] \in Fields
  BY SMT
<1>4. \A i \in 1 .. Len(fs) : lastID + i \in DOMAIN s /\ s[lastID + i] = fs[i]
  BY <1>3, SMT DEF Added, TypeOK
<1>5. \A m \in DOMAIN s \ DOMAIN stream :
        m > lastID /\ m - lastID \in 1 .. Len(fs) /\ s[m] = fs[m - lastID]
  BY <1>1, <1>3, SMT DEF Added, TypeOK
<1>6. DOMAIN s \subseteq 1 .. lastID + Len(fs)
  BY <1>1, <1>2, <1>3, SMT DEF TypeOK
<1>7. s \in [DOMAIN s -> Fields]
  <2>1. \A m \in DOMAIN s : s[m] \in Fields
    BY <1>2, <1>3, <1>5 DEF TypeOK
  <2>2. s = [m \in DOMAIN s |-> s[m]]
    BY <1>1 DEF Added
  <2> HIDE DEF s
  <2>3. QED
    BY <2>1, <2>2
<1>8. QED
  BY <1>1, <1>2, <1>4, <1>5, <1>6, <1>7

(* The fields of promoted jobs are fields of jobs. *)
LEMMA OrderFacts ==
  ASSUME NEW S, NEW n, n \in Nat, NEW f, f \in Orders(S, n)
  PROVE  /\ f \in Seq(S)
         /\ DOMAIN f = 1 .. Len(f)
         /\ Range(f) \subseteq S
         /\ \A i \in 1 .. Len(f) : f[i] \in Range(f)
         /\ \A x \in Range(f) : \E i \in 1 .. Len(f) : f[i] = x
         /\ \A i, j \in 1 .. Len(f) : f[i] = f[j] => i = j
<1>1. PICK k \in 0 .. n : f \in [1 .. k -> S]
  BY DEF Orders
<1>2. f \in Seq(S) /\ Len(f) = k
  BY <1>1, SMT
<1>3. IsInjective(f)
  BY DEF Orders
<1>4. QED
  BY <1>1, <1>2, <1>3, SMT DEF Range, IsInjective

(* Sequences of no job and of one job are orders. *)
LEMMA ShortOrders ==
  ASSUME NEW S, NEW j \in S
  PROVE  /\ <<>> \in Orders(S, 1) /\ Len(<<>>) = 0 /\ Range(<<>>) = {}
         /\ <<j>> \in Orders(S, 1) /\ Len(<<j>>) = 1 /\ Range(<<j>>) = {j}
<1>1. <<>> \in [1 .. 0 -> S] /\ <<j>> \in [1 .. 1 -> S]
  BY SMT
<1>2. IsInjective(<<>>) /\ IsInjective(<<j>>)
  BY SMT DEF IsInjective
<1>3. 0 \in 0 .. 1 /\ 1 \in 0 .. 1
  BY SMT
<1>4. QED
  BY <1>1, <1>2, <1>3, SMT DEF Orders, Range

(* An order of some members is one of a larger set. *)
LEMMA OrdersMonotone ==
  ASSUME NEW T, NEW S \in SUBSET T, NEW n \in Nat, NEW f \in Orders(S, n)
  PROVE  f \in Orders(T, n)
<1>1. PICK k \in 0 .. n : f \in [1 .. k -> S]
  BY DEF Orders
<1>2. f \in [1 .. k -> T]
  BY <1>1
<1>3. QED
  BY <1>2 DEF Orders

-----------------------------------------------------------------------------
(* Every action preserves the inductive invariant *)

(* The enqueues that may be sent again are those of the resendable jobs. *)
LEMMA EnqueuedFacts ==
  ASSUME NEW js, NEW delayed \in BOOLEAN, NEW r \in Enqueued(js, delayed)
  PROVE  /\ r.id \in js /\ r.id \in Resendable
         /\ r \in [id : Jobs, delayed : BOOLEAN]
<1>1. PICK j \in js \cap Resendable : r = [id |-> j, delayed |-> delayed]
  BY DEF Enqueued
<1>2. j \in Jobs
  BY StoreAssumption
<1>3. r.id = j
  BY <1>1, SMT
<1>4. QED
  BY <1>1, <1>2, <1>3

(* Any enqueue that stores fresh jobs in one step. *)
LEMMA StoreJobsInv ==
  ASSUME IInv,
         NEW n \in Nat, NEW now \in Orders(Jobs \ stored, n),
         NEW later \in SUBSET (Jobs \ stored), Range(now) \cap later = {},
         NEW named, DOMAIN named \subseteq Keys, named \in [DOMAIN named -> Jobs],
         StoreJobs(now, later, named)
  PROVE  IInv'
<1> DEFINE fs == [i \in DOMAIN now |-> [id |-> now[i], attempt |-> 0]]
<1>1. /\ now \in Seq(Jobs \ stored)
      /\ DOMAIN now = 1 .. Len(now)
      /\ Range(now) \subseteq Jobs \ stored
      /\ \A i \in 1 .. Len(now) : now[i] \in Range(now)
      /\ \A x \in Range(now) : \E i \in 1 .. Len(now) : now[i] = x
      /\ \A i, j \in 1 .. Len(now) : now[i] = now[j] => i = j
  BY OrderFacts, SMT
<1>2. fs \in Seq(Fields) /\ Len(fs) = Len(now) /\ Len(now) \in Nat
  <2>1. Len(now) \in Nat /\ \A i \in 1 .. Len(now) : fs[i] \in Fields
    BY <1>1, StoreAssumption, SMT DEF Fields
  <2>2. fs \in [1 .. Len(now) -> Fields]
    BY <1>1, <2>1
  <2>3. QED
    BY <2>1, <2>2, SMT
<1>3. \A i \in 1 .. Len(now) : fs[i].id = now[i] /\ fs[i].attempt = 0
  BY <1>1
<1>4. stream' = Added(fs) /\ lastID' = lastID + Len(now)
  BY DEF StoreJobs
<1> HIDE DEF fs
<1>5. /\ DOMAIN stream' = DOMAIN stream \cup (lastID + 1 .. lastID + Len(now))
      /\ \A m \in DOMAIN stream : m \in DOMAIN stream' /\ stream'[m] = stream[m]
      /\ \A i \in 1 .. Len(now) : /\ lastID + i \in DOMAIN stream'
                                  /\ stream'[lastID + i] = fs[i]
      /\ \A m \in DOMAIN stream' \ DOMAIN stream :
           m > lastID /\ m - lastID \in 1 .. Len(now) /\ stream'[m] = fs[m - lastID]
      /\ DOMAIN stream' \subseteq 1 .. lastID + Len(now)
      /\ stream' \in [DOMAIN stream' -> Fields]
  BY <1>2, <1>4, AddedFacts, ZenonT(60) DEF IInv
<1>6. /\ retry' = retry \cup later
      /\ DOMAIN retryData' = DOMAIN retryData \cup later
      /\ \A j \in later : retryData'[j] = [id |-> j, attempt |-> 0]
      /\ \A j \in DOMAIN retryData \ later : retryData'[j] = retryData[j]
      /\ retryData' = [j \in DOMAIN retryData' |-> retryData'[j]]
  BY DEF StoreJobs, Schedule
<1>7. UNCHANGED <<resent, lastDelivered, pel, consumers, dead, issued, acked>>
  BY DEF StoreJobs
<1>8. stored' = stored \cup Range(now) \cup later
  BY DEF StoreJobs
<1>9. \A m \in DOMAIN stream' \ DOMAIN stream :
        /\ m > lastID
        /\ stream'[m].id \in Range(now)
        /\ stream'[m].id = now[m - lastID]
        /\ m - lastID \in 1 .. Len(now)
  BY <1>1, <1>3, <1>5, SMT
<1>10. StreamJobs' = StreamJobs \cup Range(now)
  <2>1. \A j \in Range(now) : j \in StreamJobs'
    <3> TAKE j \in Range(now)
    <3>1. PICK i \in 1 .. Len(now) : now[i] = j
      BY <1>1
    <3>2. lastID + i \in DOMAIN stream' /\ stream'[lastID + i].id = j
      BY <1>3, <1>5, <3>1
    <3>3. QED
      BY <3>2 DEF StreamJobs
  <2>2. \A m \in DOMAIN stream' : stream'[m].id \in StreamJobs \cup Range(now)
    BY <1>5, <1>9 DEF StreamJobs
  <2>3. \A m \in DOMAIN stream : stream[m].id \in StreamJobs'
    BY <1>5 DEF StreamJobs
  <2>4. QED
    BY <2>1, <2>2, <2>3 DEF StreamJobs
<1>11. TypeOK'
  <2>1. retryData' \in [DOMAIN retryData' -> Fields]
    <3>1. \A j \in DOMAIN retryData' : retryData'[j] \in Fields
      BY <1>6, StoreAssumption, SMT DEF IInv, TypeOK, Fields
    <3>2. QED
      BY <1>6, <3>1
  <2>2. DOMAIN dedupe' \subseteq Keys /\ dedupe' \in [DOMAIN dedupe' -> Jobs]
    BY DEF StoreJobs, IInv, TypeOK
  <2>3. lastID' \in Nat /\ lastDelivered' \in 0 .. lastID' /\ DOMAIN pel' \subseteq 1 .. lastID'
    BY <1>2, <1>4, <1>7, SMT DEF IInv, TypeOK
  <2>4. unanswered' \subseteq [id : Jobs, delayed : BOOLEAN]
    <3>1. \A r \in unanswered' : \/ r \in unanswered
                                  \/ r \in Enqueued(Range(now) \ Range(named), FALSE)
                                  \/ r \in Enqueued(later \ Range(named), TRUE)
      BY DEF StoreJobs
    <3>2. \A r \in unanswered' : r \in [id : Jobs, delayed : BOOLEAN]
      BY <1>1, <3>1, EnqueuedFacts DEF IInv, TypeOK
    <3>3. QED
      BY <3>2
  <2>5. QED
    BY <1>1, <1>4, <1>5, <1>6, <1>7, <1>8, <2>1, <2>2, <2>3, <2>4 DEF IInv, TypeOK
<1>12. DeliveredIsPending'
  BY <1>5, <1>7, <1>9, SMT DEF IInv, TypeOK, DeliveredIsPending
<1>13. DeadJobs' = DeadJobs /\ AckedJobs' = AckedJobs
  BY <1>7 DEF DeadJobs, AckedJobs
<1>14. NoJobLost'
  BY <1>6, <1>8, <1>10, <1>13 DEF IInv, NoJobLost
<1>15. NoJobDuplicated'
  <2>1. \A m, k \in DOMAIN stream' :
          stream'[m].id = stream'[k].id => m = k \/ stream'[m].id \in resent'
    <3> TAKE m, k \in DOMAIN stream'
    <3>0. \A x \in DOMAIN stream : stream[x].id \in StreamJobs /\ stream[x].id \in stored
      BY DEF IInv, OnlyStoredJobs, StreamJobs
    <3>1. CASE m \in DOMAIN stream /\ k \in DOMAIN stream
      BY <1>5, <1>7, <3>1 DEF IInv, NoJobDuplicated
    <3>2. CASE m \in DOMAIN stream /\ k \notin DOMAIN stream
      BY <1>1, <1>5, <1>9, <3>0, <3>2
    <3>3. CASE m \notin DOMAIN stream /\ k \in DOMAIN stream
      BY <1>1, <1>5, <1>9, <3>0, <3>3
    <3>4. CASE m \notin DOMAIN stream /\ k \notin DOMAIN stream
      BY <1>1, <1>5, <1>9, <3>4, SMT DEF IInv, TypeOK
    <3>5. QED
      BY <3>1, <3>2, <3>3, <3>4
  <2>2. QED
    BY <1>1, <1>6, <1>7, <1>10, <1>13, <2>1 DEF IInv, NoJobDuplicated, OnlyStoredJobs
<1>16. ScheduleMatchesData'
  BY <1>6, SMT DEF IInv, ScheduleMatchesData
<1>17. OnlyStoredJobs'
  BY <1>6, <1>8, <1>10, <1>13 DEF IInv, OnlyStoredJobs
<1>18. DeliveriesMatchEntries'
  BY <1>5, <1>7, <1>8 DEF IInv, TypeOK, DeliveriesMatchEntries, FieldsOf, DeliveredIsPending
<1>19. AttemptsIncrease'
  <2> SUFFICES ASSUME NEW d \in issued, d.id \notin resent
               PROVE  /\ \A m \in DOMAIN stream' :
                           stream'[m].id = d.id /\ m # d.msg => d.attempt < stream'[m].attempt
                      /\ d.id \in retry' => d.attempt < retryData'[d.id].attempt
    BY <1>7 DEF AttemptsIncrease
  <2>1. d.id \in stored
    BY DEF IInv, DeliveriesMatchEntries
  <2>2. d.id \notin Range(now) /\ d.id \notin later
    BY <1>1, <2>1
  <2>3. QED
    BY <1>5, <1>6, <1>9, <2>2 DEF IInv, AttemptsIncrease, ScheduleMatchesData
<1>20. ResendsAreStored'
  <2>1. \A r \in unanswered' \ unanswered : r.id \in Resendable /\ r.id \in Range(now) \cup later
    <3>1. \A r \in unanswered' \ unanswered :
            \/ r \in Enqueued(Range(now) \ Range(named), FALSE)
            \/ r \in Enqueued(later \ Range(named), TRUE)
      BY DEF StoreJobs
    <3> TAKE r \in unanswered' \ unanswered
    <3>2. CASE r \in Enqueued(Range(now) \ Range(named), FALSE)
      <4>1. r.id \in Range(now) \ Range(named) /\ r.id \in Resendable
        BY <3>2, EnqueuedFacts
      <4>2. QED
        BY <4>1
    <3>3. CASE r \in Enqueued(later \ Range(named), TRUE)
      <4>1. r.id \in later \ Range(named) /\ r.id \in Resendable
        BY <3>3, EnqueuedFacts
      <4>2. QED
        BY <4>1
    <3>4. QED
      BY <3>1, <3>2, <3>3
  <2>2. QED
    BY <1>7, <1>8, <2>1 DEF IInv, ResendsAreStored
<1>21. QED
  BY <1>11, <1>12, <1>14, <1>15, <1>16, <1>17, <1>18, <1>19, <1>20 DEF IInv

(* promote moves the due jobs from the schedule to the stream.  The hash has
   the fields of every member of the zset, so no job is dropped. *)
LEMMA PromoteFacts ==
  ASSUME IInv, NEW order, NEW absent,
         Promote(order, absent), stream' = Added(PromotedFields(order))
  PROVE  /\ lastID' \in Nat /\ lastID <= lastID'
         /\ DOMAIN stream' \subseteq 1 .. lastID'
         /\ stream' \in [DOMAIN stream' -> Fields]
         /\ \A m \in DOMAIN stream : m \in DOMAIN stream' /\ stream'[m] = stream[m]
         /\ \A m \in DOMAIN stream' \ DOMAIN stream :
              /\ m > lastID
              /\ stream'[m].id \in Range(order)
              /\ stream'[m] = retryData[stream'[m].id]
         /\ \A m, n \in DOMAIN stream' \ DOMAIN stream :
              stream'[m].id = stream'[n].id => m = n
         /\ StreamJobs' = StreamJobs \cup Range(order)
         /\ Range(order) \subseteq retry
         /\ retry' = retry \ Range(order)
         /\ DOMAIN retryData' = DOMAIN retryData \ Range(order)
         /\ retryData' \in [DOMAIN retryData' -> Fields]
         /\ \A j \in DOMAIN retryData' : retryData'[j] = retryData[j]
<1> DEFINE fs == PromotedFields(order)
<1>1. /\ order \in Seq(retry \cap DOMAIN retryData)
      /\ DOMAIN order = 1 .. Len(order)
      /\ Range(order) \subseteq retry \cap DOMAIN retryData
      /\ \A i \in 1 .. Len(order) : order[i] \in Range(order)
      /\ \A x \in Range(order) : \E i \in 1 .. Len(order) : order[i] = x
      /\ \A i, j \in 1 .. Len(order) : order[i] = order[j] => i = j
  BY OrderFacts, StoreAssumption, SMT DEF Promote
<1>2. fs \in Seq(Fields) /\ Len(fs) = Len(order) /\ Len(order) \in Nat
  <2>1. Len(order) \in Nat /\ \A i \in 1 .. Len(order) : retryData[order[i]] \in Fields
    BY <1>1, SMT DEF IInv, TypeOK
  <2>2. fs \in [1 .. Len(order) -> Fields]
    BY <1>1, <2>1 DEF PromotedFields
  <2>3. QED
    BY <2>1, <2>2, SMT
<1>3. \A i \in 1 .. Len(order) : fs[i] = retryData[order[i]] /\ fs[i].id = order[i]
  BY <1>1 DEF PromotedFields, IInv, ScheduleMatchesData
<1>4. stream' = Added(fs) /\ lastID' = lastID + Len(order)
  BY DEF Promote
<1> HIDE DEF fs
<1>5. /\ DOMAIN stream' = DOMAIN stream \cup (lastID + 1 .. lastID + Len(order))
      /\ \A m \in DOMAIN stream : m \in DOMAIN stream' /\ stream'[m] = stream[m]
      /\ \A i \in 1 .. Len(order) : /\ lastID + i \in DOMAIN stream'
                                    /\ stream'[lastID + i] = fs[i]
      /\ \A m \in DOMAIN stream' \ DOMAIN stream :
           m > lastID /\ m - lastID \in 1 .. Len(order) /\ stream'[m] = fs[m - lastID]
      /\ DOMAIN stream' \subseteq 1 .. lastID + Len(order)
      /\ stream' \in [DOMAIN stream' -> Fields]
  BY <1>2, <1>4, AddedFacts DEF IInv
<1>6. \A m \in DOMAIN stream' \ DOMAIN stream :
        /\ m > lastID
        /\ m - lastID \in 1 .. Len(order)
        /\ stream'[m].id = order[m - lastID]
        /\ stream'[m].id \in Range(order)
        /\ stream'[m] = retryData[stream'[m].id]
  BY <1>1, <1>3, <1>5, SMT
<1>7. \A m, n \in DOMAIN stream' \ DOMAIN stream :
        stream'[m].id = stream'[n].id => m = n
  BY <1>1, <1>5, <1>6, SMT DEF IInv, TypeOK
<1>8. StreamJobs' = StreamJobs \cup Range(order)
  <2>1. \A j \in Range(order) : j \in StreamJobs'
    <3> TAKE j \in Range(order)
    <3>1. PICK i \in 1 .. Len(order) : order[i] = j
      BY <1>1
    <3>2. lastID + i \in DOMAIN stream' /\ stream'[lastID + i].id = j
      BY <1>3, <1>5, <3>1
    <3>3. QED
      BY <3>2 DEF StreamJobs
  <2>2. \A m \in DOMAIN stream' : stream'[m].id \in StreamJobs \cup Range(order)
    BY <1>5, <1>6, SMT DEF StreamJobs
  <2>3. \A m \in DOMAIN stream : stream[m].id \in StreamJobs'
    BY <1>5 DEF StreamJobs
  <2>4. QED
    BY <2>1, <2>2, <2>3, SMT DEF StreamJobs
<1>9. absent = {} /\ retry' = retry \ Range(order)
  BY DEF Promote, IInv, ScheduleMatchesData
<1>10. /\ DOMAIN retryData' = DOMAIN retryData \ Range(order)
       /\ retryData' \in [DOMAIN retryData' -> Fields]
       /\ \A j \in DOMAIN retryData' : retryData'[j] = retryData[j]
  BY DEF Promote, Restrict, IInv, TypeOK
<1>11. lastID' \in Nat /\ lastID <= lastID'
  BY <1>2, <1>4, SMT DEF IInv, TypeOK
<1>12. QED
  BY <1>1, <1>4, <1>5, <1>6, <1>7, <1>8, <1>9, <1>10, <1>11

(* After promote every job is still in one place, and what is in the stream
   or on the schedule still has a higher attempt than earlier deliveries. *)
LEMMA PromotePlaces ==
  ASSUME IInv, NEW order, NEW absent,
         Promote(order, absent), stream' = Added(PromotedFields(order)),
         UNCHANGED <<dead, acked, unanswered, stored, resent>>
  PROVE  /\ NoJobLost'
         /\ NoJobDuplicated'
         /\ ScheduleMatchesData'
         /\ OnlyStoredJobs'
         /\ ResendsAreStored'
         /\ \A d \in issued : d.id \notin resent' =>
              /\ \A m \in DOMAIN stream' :
                   stream'[m].id = d.id /\ m # d.msg => d.attempt < stream'[m].attempt
              /\ d.id \in retry' => d.attempt < retryData'[d.id].attempt
<1>1. /\ \A m \in DOMAIN stream : m \in DOMAIN stream' /\ stream'[m] = stream[m]
      /\ \A m \in DOMAIN stream' \ DOMAIN stream :
           /\ m > lastID
           /\ stream'[m].id \in Range(order)
           /\ stream'[m] = retryData[stream'[m].id]
      /\ \A m, n \in DOMAIN stream' \ DOMAIN stream :
           stream'[m].id = stream'[n].id => m = n
      /\ StreamJobs' = StreamJobs \cup Range(order)
      /\ Range(order) \subseteq retry
      /\ retry' = retry \ Range(order)
      /\ DOMAIN retryData' = DOMAIN retryData \ Range(order)
      /\ \A j \in DOMAIN retryData' : retryData'[j] = retryData[j]
  BY PromoteFacts
<1>2. DeadJobs' = DeadJobs /\ AckedJobs' = AckedJobs /\ dead' = dead /\ acked' = acked
  BY DEF DeadJobs, AckedJobs
<1>3. NoJobLost'
  BY <1>1, <1>2 DEF IInv, NoJobLost, ScheduleMatchesData
<1>4. NoJobDuplicated'
  <2>1. \A x \in DOMAIN stream : stream[x].id \notin retry \/ stream[x].id \in resent
    BY DEF IInv, NoJobDuplicated, StreamJobs
  <2>2. \A m, n \in DOMAIN stream' :
          stream'[m].id = stream'[n].id => m = n \/ stream'[m].id \in resent
    BY <1>1, <2>1, SMT DEF IInv, NoJobDuplicated
  <2>3. QED
    BY <1>1, <1>2, <2>2, SMT DEF IInv, NoJobDuplicated
<1>5. ScheduleMatchesData'
  BY <1>1, SMT DEF IInv, ScheduleMatchesData
<1>6. OnlyStoredJobs'
  BY <1>1, <1>2, SMT DEF IInv, OnlyStoredJobs
<1>7. ASSUME NEW d \in issued, d.id \notin resent
      PROVE  /\ \A m \in DOMAIN stream' :
                  stream'[m].id = d.id /\ m # d.msg => d.attempt < stream'[m].attempt
             /\ d.id \in retry' => d.attempt < retryData'[d.id].attempt
  <2>1. d.id \in retry => d.attempt < retryData[d.id].attempt
    BY <1>7 DEF IInv, AttemptsIncrease
  <2>2. \A m \in DOMAIN stream :
          stream[m].id = d.id /\ m # d.msg => d.attempt < stream[m].attempt
    BY <1>7 DEF IInv, AttemptsIncrease
  <2>3. QED
    BY <1>1, <2>1, <2>2, SMT DEF IInv, ScheduleMatchesData
<1>8. ResendsAreStored'
  BY DEF IInv, ResendsAreStored
<1>9. QED
  BY <1>3, <1>4, <1>5, <1>6, <1>7, <1>8

(* XREADGROUP on the stream as the rest of the step leaves it. *)
LEMMA ReadGroupInv ==
  ASSUME IInv, NEW w \in Workers, ReadGroup(w, stream'),
         lastID' \in Nat, lastID <= lastID',
         DOMAIN stream' \subseteq 1 .. lastID',
         stream' \in [DOMAIN stream' -> Fields],
         \A m \in DOMAIN stream : m \in DOMAIN stream' /\ stream'[m] = stream[m],
         \A m \in DOMAIN stream' \ DOMAIN stream : m > lastID,
         NoJobDuplicated', OnlyStoredJobs', stored' = stored, resent' = resent,
         \A d \in issued : d.id \notin resent' =>
           /\ \A m \in DOMAIN stream' :
                stream'[m].id = d.id /\ m # d.msg => d.attempt < stream'[m].attempt
           /\ d.id \in retry' => d.attempt < retryData'[d.id].attempt
  PROVE  /\ lastDelivered' \in 0 .. lastID'
         /\ DOMAIN pel' \subseteq 1 .. lastID'
         /\ pel' \in [DOMAIN pel' -> Pending]
         /\ consumers' \subseteq Workers
         /\ issued' \subseteq Delivery
         /\ DeliveredIsPending'
         /\ DeliveriesMatchEntries'
         /\ AttemptsIncrease'
<1>1. consumers' = consumers \cup {w} /\ consumers' \subseteq Workers
  BY DEF ReadGroup, IInv, TypeOK
<1>2. \A m \in DOMAIN stream' : m \in Nat /\ stream'[m] \in Fields
  BY SMT
<1>3. CASE /\ Undelivered(stream') = {}
           /\ UNCHANGED <<pel, lastDelivered, issued>>
  <2>1. DeliveredIsPending'
    BY <1>1, <1>2, <1>3, SMT DEF IInv, TypeOK, DeliveredIsPending, Undelivered
  <2>2. DeliveriesMatchEntries'
    BY <1>2, <1>3 DEF IInv, TypeOK, DeliveriesMatchEntries, DeliveredIsPending, FieldsOf
  <2>3. AttemptsIncrease'
    BY <1>3 DEF AttemptsIncrease
  <2>4. QED
    BY <1>1, <1>3, <2>1, <2>2, <2>3, SMT DEF IInv, TypeOK
<1>4. ASSUME NEW last \in Undelivered(stream'), ReadUpTo(w, stream', last)
      PROVE  /\ lastDelivered' \in 0 .. lastID'
             /\ DOMAIN pel' \subseteq 1 .. lastID'
             /\ pel' \in [DOMAIN pel' -> Pending]
             /\ issued' \subseteq Delivery
             /\ DeliveredIsPending'
             /\ DeliveriesMatchEntries'
             /\ AttemptsIncrease'
  <2> DEFINE read == {m \in Undelivered(stream') : m <= last}
  <2>0. /\ lastDelivered' = last
        /\ pel' = [m \in DOMAIN pel \cup read |->
                     IF m \in read
                     THEN [owner |-> w, count |-> 1, expired |-> FALSE]
                     ELSE pel[m]]
        /\ issued' = issued \cup {Deliver(m, stream'[m], w, 1) : m \in read}
        /\ \A m : m \in read <=> m \in Undelivered(stream') /\ m <= last
    BY <1>4 DEF ReadUpTo
  <2> HIDE DEF read
  <2>1. /\ last \in DOMAIN stream' /\ last > lastDelivered /\ last \in Nat
        /\ \A m \in read : m \in DOMAIN stream' /\ m > lastDelivered /\ m <= last
    BY <1>2, <2>0 DEF Undelivered
  <2>2. lastDelivered' \in 0 .. lastID'
    BY <2>0, <2>1, SMT
  <2>3. DOMAIN pel' = DOMAIN pel \cup read /\ DOMAIN pel' \subseteq 1 .. lastID'
    BY <2>0, <2>1, SMT DEF IInv, TypeOK
  <2>4. /\ \A m \in read : pel'[m] = [owner |-> w, count |-> 1, expired |-> FALSE]
        /\ \A m \in DOMAIN pel \ read : pel'[m] = pel[m]
    BY <2>0
  <2>5. pel' \in [DOMAIN pel' -> Pending]
    <3>1. [owner |-> w, count |-> 1, expired |-> FALSE] \in Pending
      BY <2>0, StoreAssumption, SMT DEF Pending
    <3>2. \A m \in DOMAIN pel' : pel'[m] \in Pending
      BY <2>3, <2>4, <3>1 DEF IInv, TypeOK
    <3>3. QED
      BY <2>0, <2>3, <3>2
  <2>6. \A m \in read : Deliver(m, stream'[m], w, 1) \in Delivery
    BY <1>2, <2>0, <2>1, StoreAssumption, SMT DEF Deliver, Delivery, Fields
  <2>7. issued' \subseteq Delivery
    BY <2>0, <2>6 DEF IInv, TypeOK
  <2>8. DeliveredIsPending'
    <3>1. \A m \in DOMAIN stream' : m <= last =>
             \/ m \in read
             \/ m \in DOMAIN stream /\ m <= lastDelivered
      BY <1>2, <2>0, SMT DEF Undelivered, IInv, TypeOK
    <3>2. DOMAIN pel' = {m \in DOMAIN stream' : m <= last}
      BY <1>2, <2>1, <2>3, <3>1, SMT DEF IInv, TypeOK, DeliveredIsPending
    <3>3. \A m \in DOMAIN pel' : pel'[m].owner \in consumers'
      BY <1>1, <2>3, <2>4, SMT DEF IInv, DeliveredIsPending
    <3>4. QED
      BY <2>0, <3>2, <3>3 DEF DeliveredIsPending
  <2>9. \A m \in read : LET d == Deliver(m, stream'[m], w, 1)
                        IN  /\ d.msg = m /\ d.id = stream'[m].id
                            /\ d.attempt = stream'[m].attempt
                            /\ d.token = 1 /\ d.owner = w
                            /\ stream'[m] = FieldsOf(d)
    BY <1>2, <2>1 DEF Deliver, FieldsOf, Fields
  <2>10. DeliveriesMatchEntries'
    <3> SUFFICES ASSUME NEW d \in issued'
                 PROVE  /\ d.msg <= lastDelivered'
                        /\ d.id \in stored'
                        /\ d.msg \in DOMAIN stream' /\ d.msg \in DOMAIN pel' =>
                             /\ stream'[d.msg] = FieldsOf(d)
                             /\ d.token <= pel'[d.msg].count
                             /\ d.token = pel'[d.msg].count => d.owner = pel'[d.msg].owner
      BY DEF DeliveriesMatchEntries, FieldsOf
    <3>1. CASE d \in issued
      <4>1. d.msg \in Nat /\ d.msg <= lastDelivered /\ d.msg \notin read
        BY <2>1, <3>1, SMT DEF IInv, TypeOK, DeliveriesMatchEntries, Delivery
      <4>2. d.msg \in DOMAIN stream' => d.msg \in DOMAIN stream
        BY <4>1, SMT DEF IInv, TypeOK
      <4>3. QED
        BY <2>0, <2>1, <2>3, <2>4, <3>1, <4>1, <4>2, SMT
           DEF IInv, TypeOK, DeliveriesMatchEntries
    <3>2. CASE d \notin issued
      <4>1. PICK m \in read : d = Deliver(m, stream'[m], w, 1)
        BY <2>0, <3>2
      <4>2. stream'[m].id \in stored'
        BY <2>1 DEF OnlyStoredJobs, StreamJobs
      <4>3. QED
        BY <2>0, <2>1, <2>4, <2>9, <4>1, <4>2, SMT
    <3>3. QED
      BY <3>1, <3>2
  <2>11. AttemptsIncrease'
    <3> SUFFICES ASSUME NEW d \in issued', d.id \notin resent'
                 PROVE  /\ \A m \in DOMAIN stream' :
                             stream'[m].id = d.id /\ m # d.msg => d.attempt < stream'[m].attempt
                        /\ d.id \in retry' => d.attempt < retryData'[d.id].attempt
      BY DEF AttemptsIncrease
    <3>1. CASE d \in issued
      BY <3>1
    <3>2. CASE d \notin issued
      <4>1. PICK n \in read : d = Deliver(n, stream'[n], w, 1)
        BY <2>0, <3>2
      <4>2. d.msg = n /\ d.id = stream'[n].id /\ n \in DOMAIN stream'
        BY <2>1, <2>9, <4>1
      <4>3. d.id \notin retry'
        BY <4>2, SMT DEF NoJobDuplicated, StreamJobs
      <4>4. QED
        BY <4>2, <4>3, SMT DEF NoJobDuplicated
    <3>3. QED
      BY <3>1, <3>2
  <2>12. QED
    BY <2>2, <2>3, <2>5, <2>7, <2>8, <2>10, <2>11
<1>5. QED
  BY <1>1, <1>3, <1>4 DEF ReadGroup

(* A step that moves no job. *)
LEMMA PlacesUnchanged ==
  ASSUME IInv, UNCHANGED <<stream, retry, retryData, dead, acked, unanswered, stored, resent>>
  PROVE  /\ NoJobLost' /\ NoJobDuplicated' /\ ScheduleMatchesData' /\ OnlyStoredJobs'
         /\ ResendsAreStored'
<1>1. StreamJobs' = StreamJobs /\ DeadJobs' = DeadJobs /\ AckedJobs' = AckedJobs
  BY DEF StreamJobs, DeadJobs, AckedJobs
<1>2. NoJobLost'
  BY <1>1 DEF IInv, NoJobLost
<1>3. NoJobDuplicated'
  BY <1>1 DEF IInv, NoJobDuplicated
<1>4. ScheduleMatchesData' /\ OnlyStoredJobs' /\ ResendsAreStored'
  BY <1>1 DEF IInv, ScheduleMatchesData, OnlyStoredJobs, ResendsAreStored
<1>5. QED
  BY <1>2, <1>3, <1>4

(* Promotion moves jobs from the schedule to the stream and keeps the invariant. *)
LEMMA PromoteRetriesInv ==
  ASSUME IInv, NEW order, NEW absent, PromoteRetries(order, absent)
  PROVE  IInv'
<1>1. /\ Promote(order, absent) /\ stream' = Added(PromotedFields(order))
      /\ UNCHANGED <<lastDelivered, pel, consumers, dedupe, dead, unanswered, stored, resent, issued, acked>>
  BY DEF PromoteRetries, historyVars, producerVars
<1>2. /\ lastID' \in Nat /\ lastID <= lastID'
      /\ DOMAIN stream' \subseteq 1 .. lastID'
      /\ stream' \in [DOMAIN stream' -> Fields]
      /\ \A m \in DOMAIN stream : m \in DOMAIN stream' /\ stream'[m] = stream[m]
      /\ \A m \in DOMAIN stream' \ DOMAIN stream : m > lastID
      /\ retry' \subseteq retry /\ DOMAIN retryData' \subseteq DOMAIN retryData
      /\ retryData' \in [DOMAIN retryData' -> Fields]
  BY <1>1, PromoteFacts
<1>3. /\ NoJobLost' /\ NoJobDuplicated' /\ ScheduleMatchesData' /\ OnlyStoredJobs'
      /\ ResendsAreStored'
  BY <1>1, PromotePlaces
<1>4. AttemptsIncrease'
  BY <1>1, PromotePlaces DEF AttemptsIncrease
<1>5. TypeOK'
  BY <1>1, <1>2, SMT DEF IInv, TypeOK
<1>6. DeliveredIsPending'
  BY <1>1, <1>2, SMT DEF IInv, TypeOK, DeliveredIsPending
<1>7. DeliveriesMatchEntries'
  BY <1>1, <1>2 DEF IInv, TypeOK, DeliveriesMatchEntries, DeliveredIsPending, FieldsOf
<1>8. QED
  BY <1>3, <1>4, <1>5, <1>6, <1>7 DEF IInv

(* claimScript, promotion and read in one step, keeps the invariant. *)
LEMMA ClaimReadyInv ==
  ASSUME IInv, NEW w \in Workers, NEW order, NEW absent, ClaimReady(w, order, absent)
  PROVE  IInv'
<1>1. /\ Promote(order, absent) /\ stream' = Added(PromotedFields(order))
      /\ ReadGroup(w, stream')
      /\ UNCHANGED <<dedupe, dead, unanswered, stored, resent, acked>>
  BY DEF ClaimReady, producerVars
<1>2. /\ lastID' \in Nat /\ lastID <= lastID'
      /\ DOMAIN stream' \subseteq 1 .. lastID'
      /\ stream' \in [DOMAIN stream' -> Fields]
      /\ \A m \in DOMAIN stream : m \in DOMAIN stream' /\ stream'[m] = stream[m]
      /\ \A m \in DOMAIN stream' \ DOMAIN stream : m > lastID
      /\ retry' \subseteq retry /\ DOMAIN retryData' \subseteq DOMAIN retryData
      /\ retryData' \in [DOMAIN retryData' -> Fields]
  BY <1>1, PromoteFacts
<1>3. /\ NoJobLost' /\ NoJobDuplicated' /\ ScheduleMatchesData' /\ OnlyStoredJobs'
      /\ ResendsAreStored'
      /\ \A d \in issued : d.id \notin resent' =>
           /\ \A m \in DOMAIN stream' :
                stream'[m].id = d.id /\ m # d.msg => d.attempt < stream'[m].attempt
           /\ d.id \in retry' => d.attempt < retryData'[d.id].attempt
  BY <1>1, PromotePlaces
<1>4. /\ lastDelivered' \in 0 .. lastID'
      /\ DOMAIN pel' \subseteq 1 .. lastID'
      /\ pel' \in [DOMAIN pel' -> Pending]
      /\ consumers' \subseteq Workers
      /\ issued' \subseteq Delivery
      /\ DeliveredIsPending'
      /\ DeliveriesMatchEntries'
      /\ AttemptsIncrease'
  BY <1>1, <1>2, <1>3, ReadGroupInv
<1>5. TypeOK'
  BY <1>1, <1>2, <1>4 DEF IInv, TypeOK
<1>6. QED
  BY <1>3, <1>4, <1>5 DEF IInv

(* A blocked XREADGROUP that is served keeps the invariant. *)
LEMMA ClaimBlockingInv ==
  ASSUME IInv, NEW w \in Workers, ClaimBlocking(w)
  PROVE  IInv'
<1>1. /\ stream' = stream /\ ReadGroup(w, stream')
      /\ UNCHANGED <<lastID, retry, retryData, dedupe, dead, unanswered, stored, resent, acked>>
  BY DEF ClaimBlocking, scheduleVars, producerVars
<1>2. /\ NoJobLost' /\ NoJobDuplicated' /\ ScheduleMatchesData' /\ OnlyStoredJobs'
      /\ ResendsAreStored'
  BY <1>1, PlacesUnchanged
<1>3. \A d \in issued : d.id \notin resent' =>
        /\ \A m \in DOMAIN stream' :
             stream'[m].id = d.id /\ m # d.msg => d.attempt < stream'[m].attempt
        /\ d.id \in retry' => d.attempt < retryData'[d.id].attempt
  BY <1>1 DEF IInv, AttemptsIncrease
<1>4. /\ lastID' \in Nat /\ lastID <= lastID'
      /\ DOMAIN stream' \subseteq 1 .. lastID'
      /\ stream' \in [DOMAIN stream' -> Fields]
  BY <1>1, SMT DEF IInv, TypeOK
<1>5. /\ lastDelivered' \in 0 .. lastID'
      /\ DOMAIN pel' \subseteq 1 .. lastID'
      /\ pel' \in [DOMAIN pel' -> Pending]
      /\ consumers' \subseteq Workers
      /\ issued' \subseteq Delivery
      /\ DeliveredIsPending'
      /\ DeliveriesMatchEntries'
      /\ AttemptsIncrease'
  BY <1>1, <1>2, <1>3, <1>4, ReadGroupInv
<1>6. TypeOK'
  BY <1>1, <1>5 DEF IInv, TypeOK
<1>7. QED
  BY <1>2, <1>5, <1>6 DEF IInv

(* Steps that change nothing but idle times and consumers without
   deliveries: LeaseExpires, Extend, ExtendBatch, Deregister, PruneConsumers. *)
LEMMA IdleTimesInv ==
  ASSUME IInv,
         DOMAIN pel' = DOMAIN pel, pel' \in [DOMAIN pel -> Pending],
         \A m \in DOMAIN pel : /\ pel'[m].owner = pel[m].owner
                               /\ pel'[m].count = pel[m].count,
         consumers' \subseteq consumers,
         \A m \in DOMAIN pel : pel[m].owner \in consumers',
         UNCHANGED <<stream, lastID, lastDelivered, retry, retryData, dedupe,
                     dead, unanswered, stored, resent, issued, acked>>
  PROVE  IInv'
<1>1. TypeOK'
  BY DEF IInv, TypeOK
<1>2. DeliveredIsPending'
  BY DEF IInv, DeliveredIsPending
<1>3. /\ NoJobLost' /\ NoJobDuplicated' /\ ScheduleMatchesData' /\ OnlyStoredJobs'
      /\ ResendsAreStored'
  BY PlacesUnchanged
<1>4. DeliveriesMatchEntries'
  BY ZenonT(60) DEF IInv, DeliveriesMatchEntries, FieldsOf
<1>5. AttemptsIncrease'
  BY DEF IInv, AttemptsIncrease
<1>6. QED
  BY <1>1, <1>2, <1>3, <1>4, <1>5 DEF IInv

(* The idle flag of a delivery matters to no conjunct of the invariant. *)
LEMMA LeaseExpiresInv ==
  ASSUME IInv, NEW m \in DOMAIN pel, LeaseExpires(m)
  PROVE  IInv'
<1>1. /\ pel' = [pel EXCEPT ![m].expired = TRUE]
      /\ UNCHANGED <<stream, lastID, lastDelivered, consumers, retry, retryData,
                     dedupe, dead, unanswered, stored, resent, issued, acked>>
  BY DEF LeaseExpires, scheduleVars, historyVars, producerVars
<1>2. /\ DOMAIN pel' = DOMAIN pel /\ pel' \in [DOMAIN pel -> Pending]
      /\ \A n \in DOMAIN pel : /\ pel'[n].owner = pel[n].owner
                               /\ pel'[n].count = pel[n].count
  BY <1>1 DEF IInv, TypeOK, Pending
<1>3. QED
  BY <1>1, <1>2, IdleTimesInv DEF IInv, DeliveredIsPending

(* Nor does resetting it: Extend and ExtendBatch keep the invariant. *)
LEMMA RenewInv ==
  ASSUME IInv, NEW ms, Renew(ms),
         UNCHANGED <<stream, lastID, lastDelivered, consumers, retry, retryData,
                     dedupe, dead, unanswered, stored, resent, issued, acked>>
  PROVE  IInv'
<1>1. /\ DOMAIN pel' = DOMAIN pel /\ pel' \in [DOMAIN pel -> Pending]
      /\ \A n \in DOMAIN pel : /\ pel'[n].owner = pel[n].owner
                               /\ pel'[n].count = pel[n].count
  BY DEF Renew, IInv, TypeOK, Pending
<1>2. QED
  BY <1>1, IdleTimesInv DEF IInv, DeliveredIsPending

(* Deleting consumers that hold nothing keeps the invariant. *)
LEMMA DelConsumersInv ==
  ASSUME IInv, NEW cs, DelConsumers(cs), \A w \in cs : ~HoldsPending(w),
         UNCHANGED <<stream, lastID, lastDelivered, retry, retryData,
                     dedupe, dead, unanswered, stored, resent, issued, acked>>
  PROVE  IInv'
<1>1. \A m \in DOMAIN pel : pel[m].owner \notin cs
  BY DEF HoldsPending
<1>2. pel' = pel
  BY <1>1 DEF DelConsumers, Restrict, IInv, TypeOK
<1>3. /\ consumers' \subseteq consumers
      /\ \A m \in DOMAIN pel : pel[m].owner \in consumers'
  BY <1>1 DEF DelConsumers, IInv, DeliveredIsPending
<1>4. QED
  BY <1>2, <1>3, IdleTimesInv DEF IInv, TypeOK

(* A takeover hands out deliveries with the next count and keeps the invariant. *)
LEMMA RecoverExpiredInv ==
  ASSUME IInv, NEW w \in Workers, NEW ms \in SUBSET DOMAIN pel, RecoverExpired(w, ms)
  PROVE  IInv'
<1>1. UNCHANGED <<stream, lastID, lastDelivered, retry, retryData, dedupe, dead, unanswered, stored, resent, acked>>
  BY DEF RecoverExpired, TakeOver, scheduleVars, producerVars
<1>2. /\ DOMAIN pel' = DOMAIN pel
      /\ \A m \in ms : /\ m \in DOMAIN pel /\ pel'[m].owner = w
                       /\ pel'[m].count = pel[m].count + 1
                       /\ pel'[m] = [owner |-> w, count |-> pel[m].count + 1, expired |-> FALSE]
                       /\ pel[m].count < MaxToken
      /\ \A m \in DOMAIN pel \ ms : pel'[m] = pel[m]
  BY DEF RecoverExpired, TakeOver
<1>3. /\ consumers' = consumers \cup {w}
      /\ issued' = issued \cup {Deliver(m, stream[m], w, pel[m].count + 1) : m \in ms}
  BY DEF RecoverExpired, TakeOver
<1>4. \A m \in DOMAIN pel : /\ m \in DOMAIN stream /\ m \in Nat /\ m <= lastDelivered
                            /\ pel[m] \in Pending /\ stream[m] \in Fields
  BY SMT DEF IInv, TypeOK, DeliveredIsPending
<1>count. \A m \in ms : pel[m].count + 1 \in 1 .. MaxToken /\ pel[m].count <= pel[m].count + 1
  <2> SUFFICES ASSUME NEW m \in ms
               PROVE  pel[m].count + 1 \in 1 .. MaxToken /\ pel[m].count <= pel[m].count + 1
    OBVIOUS
  <2>1. pel[m].count \in 1 .. MaxToken
    BY <1>4 DEF Pending
  <2>2. pel[m].count < MaxToken
    BY <1>2
  <2>3. QED
    BY <2>1, <2>2, StoreAssumption, SMT
<1>5. \A m \in ms : /\ Deliver(m, stream[m], w, pel[m].count + 1) \in Delivery
                    /\ stream[m] = FieldsOf(Deliver(m, stream[m], w, pel[m].count + 1))
  BY <1>2, <1>4, <1>count DEF Deliver, Delivery, FieldsOf, Fields
<1>pending. \A m \in ms : [owner |-> w, count |-> pel[m].count + 1, expired |-> FALSE] \in Pending
  BY <1>count DEF Pending
<1>6. \A m \in DOMAIN pel : pel'[m] \in Pending /\ pel[m].count <= pel'[m].count
  <2> SUFFICES ASSUME NEW m \in DOMAIN pel
               PROVE  pel'[m] \in Pending /\ pel[m].count <= pel'[m].count
    OBVIOUS
  <2>1. CASE m \in ms
    BY <1>2, <1>count, <1>pending, <2>1
  <2>2. CASE m \notin ms
    BY <1>2, <1>4, <2>2, SMT DEF Pending
  <2>3. QED
    BY <2>1, <2>2
<1>7. TypeOK'
  <2>1. pel' \in [DOMAIN pel' -> Pending]
    <3>1. pel' = [m \in DOMAIN pel |-> pel'[m]]
      BY DEF RecoverExpired, TakeOver
    <3>2. QED
      BY <3>1, <1>2, <1>6
  <2>2. issued' \subseteq Delivery
    BY <1>3, <1>5 DEF IInv, TypeOK
  <2>3. QED
    BY <1>1, <1>2, <1>3, <2>1, <2>2 DEF IInv, TypeOK
<1>8. DeliveredIsPending'
  <2>1. \A m \in DOMAIN pel : pel'[m].owner \in consumers'
    BY <1>2, <1>3 DEF IInv, DeliveredIsPending
  <2>2. QED
    BY <1>1, <1>2, <2>1 DEF IInv, DeliveredIsPending
<1>9. /\ NoJobLost' /\ NoJobDuplicated' /\ ScheduleMatchesData' /\ OnlyStoredJobs'
      /\ ResendsAreStored'
  BY <1>1, PlacesUnchanged
<1>10. DeliveriesMatchEntries'
  <2> SUFFICES ASSUME NEW d \in issued'
               PROVE  /\ d.msg <= lastDelivered
                      /\ d.id \in stored
                      /\ d.msg \in DOMAIN stream /\ d.msg \in DOMAIN pel =>
                           /\ stream[d.msg] = FieldsOf(d)
                           /\ d.token <= pel'[d.msg].count
                           /\ d.token = pel'[d.msg].count => d.owner = pel'[d.msg].owner
    BY <1>1, <1>2 DEF DeliveriesMatchEntries, FieldsOf
  <2>1. CASE d \in issued
    <3>1. /\ d.msg <= lastDelivered /\ d.id \in stored
          /\ d.msg \in DOMAIN stream /\ d.msg \in DOMAIN pel =>
               /\ stream[d.msg] = FieldsOf(d)
               /\ d.token <= pel[d.msg].count
               /\ d.token = pel[d.msg].count => d.owner = pel[d.msg].owner
      BY <2>1 DEF IInv, DeliveriesMatchEntries
    <3>2. d.token \in Nat /\ \A m \in DOMAIN pel : pel[m].count \in Nat
      BY <1>4, <2>1, StoreAssumption, SMT DEF IInv, TypeOK, Delivery, Pending
    <3>3. CASE d.msg \in ms
      <4>1. pel'[d.msg].count = pel[d.msg].count + 1 /\ d.msg \in DOMAIN pel
        BY <1>2, <3>3
      <4>2. QED
        BY <3>1, <3>2, <4>1, SMT
    <3>4. CASE d.msg \in DOMAIN pel \ ms
      BY <1>2, <3>1, <3>4
    <3>5. CASE d.msg \notin DOMAIN pel
      BY <3>1, <3>5
    <3>6. QED
      BY <3>3, <3>4, <3>5
  <2>2. CASE d \notin issued
    <3>1. PICK m \in ms : d = Deliver(m, stream[m], w, pel[m].count + 1)
      BY <1>3, <2>2
    <3>2. stream[m].id \in stored
      BY <1>4 DEF IInv, OnlyStoredJobs, StreamJobs
    <3>3. d.msg = m /\ d.id = stream[m].id /\ d.owner = w /\ d.token = pel[m].count + 1
      BY <3>1 DEF Deliver
    <3>4. d.token <= pel'[m].count /\ d.token = pel'[m].count
      <4>1. pel'[m].count = d.token
        BY <1>2, <3>3
      <4>2. d.token \in Nat
        BY <1>count, <3>3, SMT
      <4>3. QED
        BY <4>1, <4>2, SMT
    <3>5. QED
      BY <1>2, <1>4, <1>5, <3>1, <3>2, <3>3, <3>4
  <2>3. QED
    BY <2>1, <2>2
<1>11. AttemptsIncrease'
  <2> SUFFICES ASSUME NEW d \in issued', d.id \notin resent
               PROVE  /\ \A m \in DOMAIN stream :
                           stream[m].id = d.id /\ m # d.msg => d.attempt < stream[m].attempt
                      /\ d.id \in retry => d.attempt < retryData[d.id].attempt
    BY <1>1 DEF AttemptsIncrease
  <2>1. CASE d \in issued
    BY <2>1 DEF IInv, AttemptsIncrease
  <2>2. CASE d \notin issued
    <3>1. PICK m \in ms : d = Deliver(m, stream[m], w, pel[m].count + 1)
      BY <1>3, <2>2
    <3>2. d.msg = m /\ d.id = stream[m].id /\ m \in DOMAIN stream
      BY <1>2, <1>4, <3>1 DEF Deliver
    <3>3. QED
      BY <3>2 DEF IInv, NoJobDuplicated, StreamJobs
  <2>3. QED
    BY <2>1, <2>2
<1>12. QED
  BY <1>7, <1>8, <1>9, <1>10, <1>11 DEF IInv

(* Settling deliveries that their callers own removes exactly their jobs from
   the stream, and leaves the other entries alone. *)
LEMMA SettleFacts ==
  ASSUME IInv, NEW own \in SUBSET issued, \A d \in own : Owns(d),
         Settle({d.msg : d \in own}),
         UNCHANGED <<lastID, lastDelivered, consumers, dedupe, unanswered, stored, resent, issued>>
  PROVE  /\ \A d \in own : d.msg \in DOMAIN stream /\ stream[d.msg] = FieldsOf(d)
         /\ \A d, e \in own : d.id = e.id => d = e \/ d.id \in resent
         /\ StreamJobs' \subseteq StreamJobs
         /\ StreamJobs' \cap {d.id : d \in own} \subseteq resent
         /\ StreamJobs \subseteq StreamJobs' \cup {d.id : d \in own}
         /\ {d.id : d \in own} \subseteq StreamJobs
         /\ \A m, n \in DOMAIN stream' :
              stream'[m].id = stream'[n].id => m = n \/ stream'[m].id \in resent
         /\ DOMAIN stream' \subseteq 1 .. lastID /\ stream' \in [DOMAIN stream' -> Fields]
         /\ DOMAIN pel' \subseteq 1 .. lastID /\ pel' \in [DOMAIN pel' -> Pending]
         /\ DeliveredIsPending'
         /\ DeliveriesMatchEntries'
         /\ \A d \in issued, m \in DOMAIN stream' :
              d.id \notin resent /\ stream'[m].id = d.id /\ m # d.msg => d.attempt < stream'[m].attempt
<1> DEFINE ms == {d.msg : d \in own}
<1>1. /\ DOMAIN stream' = DOMAIN stream \ ms
      /\ \A m \in DOMAIN stream' : m \in DOMAIN stream /\ stream'[m] = stream[m]
      /\ DOMAIN pel' = DOMAIN pel \ ms
      /\ \A m \in DOMAIN pel' : m \in DOMAIN pel /\ pel'[m] = pel[m]
  BY DEF Settle, Restrict
<1>2. stream' = [m \in DOMAIN stream' |-> stream'[m]] /\ pel' = [m \in DOMAIN pel' |-> pel'[m]]
  BY DEF Settle, Restrict
<1>3. \A d \in own : d.msg \in DOMAIN pel /\ d.msg \in DOMAIN stream
  BY DEF Owns, IInv, DeliveredIsPending
<1>4. \A d \in own : stream[d.msg] = FieldsOf(d)
  BY <1>3 DEF IInv, DeliveriesMatchEntries
<1>5. \A d \in own : stream[d.msg].id = d.id /\ stream[d.msg].attempt = d.attempt
  <2>1. \A d : FieldsOf(d).id = d.id /\ FieldsOf(d).attempt = d.attempt
    BY DEF FieldsOf
  <2>2. QED
    BY <1>4, <2>1
<1>6. \A d, e \in own : d.id = e.id => d = e \/ d.id \in resent
  <2> SUFFICES ASSUME NEW d \in own, NEW e \in own, d.id = e.id, d.id \notin resent
               PROVE  d = e
    OBVIOUS
  <2>1. d.msg = e.msg
    BY <1>3, <1>5, SMT DEF IInv, NoJobDuplicated
  <2>2. d.attempt = e.attempt /\ d.owner = e.owner /\ d.token = e.token
    BY <1>5, <2>1 DEF Owns
  <2>3. d \in Delivery /\ e \in Delivery
    BY DEF IInv, TypeOK
  <2>4. QED
    BY <2>1, <2>2, <2>3, SMT DEF Delivery
<1>7. {d.id : d \in own} \subseteq StreamJobs
  BY <1>3, <1>5, SMT DEF StreamJobs
<1>8. /\ StreamJobs' \subseteq StreamJobs
      /\ StreamJobs' \cap {d.id : d \in own} \subseteq resent
      /\ StreamJobs \subseteq StreamJobs' \cup {d.id : d \in own}
  <2>1. ASSUME NEW j \in StreamJobs'
        PROVE  j \in StreamJobs /\ (j \in {d.id : d \in own} => j \in resent)
    <3>1. PICK m \in DOMAIN stream' : j = stream'[m].id
      BY <2>1 DEF StreamJobs
    <3>2. m \in DOMAIN stream /\ m \notin ms /\ j = stream[m].id
      BY <1>1, <3>1
    <3>3. ASSUME NEW d \in own, d.id = j, j \notin resent PROVE FALSE
      <4>1. d.msg \in DOMAIN stream /\ stream[d.msg].id = stream[m].id
        BY <1>3, <1>5, <3>2, <3>3
      <4>2. d.msg = m
        BY <3>2, <3>3, <4>1 DEF IInv, NoJobDuplicated
      <4>3. QED
        BY <3>2, <4>2
    <3>4. QED
      BY <3>2, <3>3 DEF StreamJobs
  <2>2. ASSUME NEW j \in StreamJobs, j \notin {d.id : d \in own}
        PROVE  j \in StreamJobs'
    <3>1. PICK m \in DOMAIN stream : j = stream[m].id
      BY <2>2 DEF StreamJobs
    <3>2. m \notin ms
      BY <1>5, <2>2, <3>1, SMT
    <3>3. m \in DOMAIN stream' /\ stream'[m].id = j
      BY <1>1, <3>1, <3>2
    <3>4. QED
      BY <3>3 DEF StreamJobs
  <2>3. QED
    BY <2>1, <2>2
<1>9. \A m, n \in DOMAIN stream' :
        stream'[m].id = stream'[n].id => m = n \/ stream'[m].id \in resent
  BY <1>1 DEF IInv, NoJobDuplicated
<1>10. /\ DOMAIN stream' \subseteq 1 .. lastID /\ stream' \in [DOMAIN stream' -> Fields]
       /\ DOMAIN pel' \subseteq 1 .. lastID /\ pel' \in [DOMAIN pel' -> Pending]
  <2>1. /\ \A m \in DOMAIN stream' : stream'[m] \in Fields
        /\ \A m \in DOMAIN pel' : pel'[m] \in Pending
    BY <1>1 DEF IInv, TypeOK
  <2>2. stream' \in [DOMAIN stream' -> Fields] /\ pel' \in [DOMAIN pel' -> Pending]
    BY <1>2, <2>1
  <2>3. QED
    BY <1>1, <2>2 DEF IInv, TypeOK
<1> HIDE DEF ms
<1>11. DeliveredIsPending'
  <2>1. /\ DOMAIN pel = {m \in DOMAIN stream : m <= lastDelivered}
        /\ \A m \in DOMAIN pel : pel[m].owner \in consumers
    BY DEF IInv, DeliveredIsPending
  <2>2. DOMAIN pel' = {m \in DOMAIN stream' : m <= lastDelivered}
    BY <1>1, <2>1
  <2>3. \A m \in DOMAIN pel' : pel'[m].owner \in consumers
    BY <1>1, <2>1
  <2>4. QED
    BY <2>2, <2>3 DEF DeliveredIsPending
<1>12. DeliveriesMatchEntries'
  BY <1>1, ZenonT(60) DEF IInv, DeliveriesMatchEntries, FieldsOf
<1>13. \A d \in issued, m \in DOMAIN stream' :
         d.id \notin resent /\ stream'[m].id = d.id /\ m # d.msg => d.attempt < stream'[m].attempt
  BY <1>1 DEF IInv, AttemptsIncrease
<1>14. QED
  BY <1>3, <1>4, <1>6, <1>7, <1>8, <1>9, <1>10, <1>11, <1>12, <1>13

(* Deliveries that leave the queue for good, acked or dead-lettered. *)
LEMMA FinishInv ==
  ASSUME IInv, NEW own \in SUBSET issued, NEW done, NEW buried,
         \/ done = own /\ buried = {}
         \/ done = {} /\ buried = own,
         \A d \in own : Owns(d),
         Settle({d.msg : d \in own}),
         acked' = acked \cup done, dead' = dead \cup buried,
         UNCHANGED <<lastID, lastDelivered, consumers, retry, retryData, dedupe,
                     unanswered, stored, resent, issued>>
  PROVE  IInv'
<1> DEFINE gone == {d.id : d \in own}
<1>1. /\ \A d, e \in own : d.id = e.id => d = e \/ d.id \in resent
      /\ StreamJobs' \subseteq StreamJobs
      /\ StreamJobs' \cap gone \subseteq resent
      /\ StreamJobs \subseteq StreamJobs' \cup gone
      /\ gone \subseteq StreamJobs
      /\ \A m, n \in DOMAIN stream' :
           stream'[m].id = stream'[n].id => m = n \/ stream'[m].id \in resent
      /\ DOMAIN stream' \subseteq 1 .. lastID /\ stream' \in [DOMAIN stream' -> Fields]
      /\ DOMAIN pel' \subseteq 1 .. lastID /\ pel' \in [DOMAIN pel' -> Pending]
      /\ DeliveredIsPending'
      /\ DeliveriesMatchEntries'
      /\ \A d \in issued, m \in DOMAIN stream' :
           d.id \notin resent /\ stream'[m].id = d.id /\ m # d.msg
             => d.attempt < stream'[m].attempt
  BY SettleFacts
<1>2. /\ AckedJobs' = AckedJobs \cup {d.id : d \in done}
      /\ DeadJobs' = DeadJobs \cup {d.id : d \in buried}
      /\ gone = {d.id : d \in done} \cup {d.id : d \in buried}
      /\ {d.id : d \in done} = {} \/ {d.id : d \in buried} = {}
  BY DEF AckedJobs, DeadJobs
<1>3. TypeOK'
  BY <1>1 DEF IInv, TypeOK
<1>4. /\ \A d, e \in dead' : d.id = e.id => d = e \/ d.id \in resent
      /\ \A d, e \in acked' : d.id = e.id => d = e \/ d.id \in resent
  <2>1. \A d \in own : d.id \in StreamJobs
    BY <1>1
  <2>2. (\A d \in dead : d.id \in DeadJobs) /\ (\A d \in acked : d.id \in AckedJobs)
    BY DEF DeadJobs, AckedJobs
  <2>3. QED
    BY <1>1, <2>1, <2>2, SMT DEF IInv, NoJobDuplicated
<1> HIDE DEF gone
<1>5. /\ StreamJobs' \cap retry' \subseteq resent
      /\ StreamJobs' \cap (DeadJobs' \cup AckedJobs') \subseteq resent
      /\ retry' \cap (DeadJobs' \cup AckedJobs') \subseteq resent
      /\ DeadJobs' \cap AckedJobs' \subseteq resent
  BY <1>1, <1>2 DEF IInv, NoJobDuplicated
<1>6. NoJobDuplicated'
  BY <1>1, <1>4, <1>5 DEF NoJobDuplicated
<1>7. NoJobLost' /\ OnlyStoredJobs'
  BY <1>1, <1>2 DEF IInv, NoJobLost, OnlyStoredJobs
<1>8. ScheduleMatchesData' /\ AttemptsIncrease' /\ ResendsAreStored'
  BY <1>1 DEF IInv, ScheduleMatchesData, AttemptsIncrease, ResendsAreStored
<1>9. QED
  BY <1>1, <1>3, <1>6, <1>7, <1>8 DEF IInv

(* Store.Ack keeps the invariant. *)
LEMMA AckInv ==
  ASSUME IInv, NEW d \in issued, Ack(d)
  PROVE  IInv'
<1> DEFINE own == {d}
<1>1. {e.msg : e \in own} = {d.msg} /\ own \in SUBSET issued
  OBVIOUS
<1>2. /\ \A e \in own : Owns(e)
      /\ Settle({e.msg : e \in own})
      /\ acked' = acked \cup own /\ dead' = dead \cup {}
      /\ UNCHANGED <<lastID, lastDelivered, consumers, retry, retryData, dedupe,
                     unanswered, stored, resent, issued>>
  BY <1>1 DEF Ack, scheduleVars, producerVars
<1> HIDE DEF own
<1>3. QED
  BY <1>1, <1>2, FinishInv

(* Store.AckBatch, which settles what is owned, keeps the invariant. *)
LEMMA AckBatchInv ==
  ASSUME IInv, NEW ds \in SUBSET issued, AckBatch(ds)
  PROVE  IInv'
<1>1. OwnedOf(ds) \in SUBSET issued /\ \A e \in OwnedOf(ds) : Owns(e)
  BY DEF OwnedOf
<1>2. /\ Settle({e.msg : e \in OwnedOf(ds)})
      /\ acked' = acked \cup OwnedOf(ds) /\ dead' = dead \cup {}
      /\ UNCHANGED <<lastID, lastDelivered, consumers, retry, retryData, dedupe,
                     unanswered, stored, resent, issued>>
  BY DEF AckBatch, scheduleVars, producerVars
<1>3. QED
  BY <1>1, <1>2, FinishInv

(* Store.DeadLetter keeps the invariant. *)
LEMMA DeadLetterInv ==
  ASSUME IInv, NEW d \in issued, DeadLetter(d)
  PROVE  IInv'
<1> DEFINE own == {d}
<1>1. {e.msg : e \in own} = {d.msg} /\ own \in SUBSET issued
  OBVIOUS
<1>2. /\ \A e \in own : Owns(e)
      /\ Settle({e.msg : e \in own})
      /\ acked' = acked \cup {} /\ dead' = dead \cup own
      /\ UNCHANGED <<lastID, lastDelivered, consumers, retry, retryData, dedupe,
                     unanswered, stored, resent, issued>>
  BY <1>1 DEF DeadLetter, scheduleVars, historyVars, producerVars
<1> HIDE DEF own
<1>3. QED
  BY <1>1, <1>2, FinishInv

(* Store.Retry moves the job to the schedule, one attempt higher, and keeps the
   invariant. *)
LEMMA RetryInv ==
  ASSUME IInv, NEW d \in issued, Retry(d)
  PROVE  IInv'
<1>1. /\ \A m \in DOMAIN pel : m \in DOMAIN stream
      /\ d.msg \in DOMAIN pel /\ d \in Delivery
  BY DEF IInv, TypeOK, DeliveredIsPending, Retry, Owns
<1>2. /\ d.id \in Jobs /\ d.attempt \in Nat /\ d.attempt + 1 \in 0 .. MaxAttempts - 1
  BY <1>1, StoreAssumption, SMT DEF Retry, Exhausted, Delivery
<1>3. /\ stream[d.msg] = FieldsOf(d)
      /\ StreamJobs' \subseteq StreamJobs
      /\ StreamJobs' \cap {d.id} \subseteq resent
      /\ StreamJobs \subseteq StreamJobs' \cup {d.id}
      /\ d.id \in StreamJobs
      /\ \A m, n \in DOMAIN stream' :
           stream'[m].id = stream'[n].id => m = n \/ stream'[m].id \in resent
      /\ DOMAIN stream' \subseteq 1 .. lastID /\ stream' \in [DOMAIN stream' -> Fields]
      /\ DOMAIN pel' \subseteq 1 .. lastID /\ pel' \in [DOMAIN pel' -> Pending]
      /\ DeliveredIsPending'
      /\ DeliveriesMatchEntries'
      /\ \A e \in issued, m \in DOMAIN stream' :
           e.id \notin resent /\ stream'[m].id = e.id /\ m # e.msg
             => e.attempt < stream'[m].attempt
  <2> DEFINE own == {d}
  <2>1. {e.msg : e \in own} = {d.msg} /\ {e.id : e \in own} = {d.id}
    OBVIOUS
  <2>2. /\ own \in SUBSET issued /\ d \in own
        /\ \A e \in own : Owns(e)
        /\ Settle({e.msg : e \in own})
        /\ UNCHANGED <<lastID, lastDelivered, consumers, dedupe, unanswered, stored, resent, issued>>
    BY <2>1 DEF Retry, historyVars, producerVars
  <2> HIDE DEF own
  <2>3. QED
    BY <2>1, <2>2, SettleFacts
<1>4. /\ retry' = retry \cup {d.id}
      /\ DOMAIN retryData' = DOMAIN retryData \cup {d.id}
      /\ retryData'[d.id] = [id |-> d.id, attempt |-> d.attempt + 1]
      /\ \A j \in DOMAIN retryData \ {d.id} : retryData'[j] = retryData[j]
  BY DEF Retry, Schedule
<1>5. retryData' = [j \in DOMAIN retryData' |-> retryData'[j]]
  BY DEF Retry, Schedule
<1>6. /\ UNCHANGED <<lastID, lastDelivered, consumers, dedupe, dead, unanswered, stored, resent, issued, acked>>
      /\ DeadJobs' = DeadJobs /\ AckedJobs' = AckedJobs
  BY DEF Retry, historyVars, producerVars, DeadJobs, AckedJobs
<1>7. TypeOK'
  <2>1. \A j \in DOMAIN retryData' : retryData'[j] \in Fields
    BY <1>2, <1>4, SMT DEF IInv, TypeOK, Fields
  <2>2. retryData' \in [DOMAIN retryData' -> Fields]
    BY <1>5, <2>1
  <2>3. QED
    BY <1>2, <1>3, <1>4, <1>6, <2>2 DEF IInv, TypeOK
<1>8. NoJobDuplicated'
  <2>1. /\ StreamJobs \cap retry \subseteq resent
        /\ StreamJobs \cap (DeadJobs \cup AckedJobs) \subseteq resent
        /\ retry \cap (DeadJobs \cup AckedJobs) \subseteq resent
    BY DEF IInv, NoJobDuplicated
  <2>2. StreamJobs' \cap retry' \subseteq resent'
    BY <1>3, <1>4, <1>6, <2>1
  <2>3. StreamJobs' \cap (DeadJobs' \cup AckedJobs') \subseteq resent'
    BY <1>3, <1>6, <2>1
  <2>4. retry' \cap (DeadJobs' \cup AckedJobs') \subseteq resent'
    <3> SUFFICES ASSUME NEW j \in retry', j \in DeadJobs \cup AckedJobs
                 PROVE  j \in resent
      BY <1>6
    <3>1. j \in retry \/ j \in StreamJobs
      BY <1>3, <1>4
    <3>2. QED
      BY <2>1, <3>1
  <2>5. QED
    BY <1>3, <1>6, <2>2, <2>3, <2>4 DEF IInv, NoJobDuplicated
<1>9. NoJobLost' /\ OnlyStoredJobs'
  BY <1>3, <1>4, <1>6, SMT DEF IInv, NoJobLost, OnlyStoredJobs
<1>10. ScheduleMatchesData' /\ ResendsAreStored'
  <2>1. ScheduleMatchesData'
    BY <1>4, SMT DEF IInv, ScheduleMatchesData
  <2>2. ResendsAreStored'
    BY <1>6 DEF IInv, ResendsAreStored
  <2>3. QED
    BY <2>1, <2>2
<1>11. AttemptsIncrease'
  <2> SUFFICES ASSUME NEW e \in issued, e.id \notin resent, e.id \in retry'
               PROVE  e.attempt < retryData'[e.id].attempt
    BY <1>3, <1>6 DEF AttemptsIncrease
  <2>1. CASE e.id = d.id
    <3>1. stream[d.msg].id = d.id /\ stream[d.msg].attempt = d.attempt
      BY <1>3, SMT DEF FieldsOf
    <3>2. e.attempt \in Nat
      BY StoreAssumption, SMT DEF IInv, TypeOK, Delivery
    <3>3. e.attempt <= d.attempt
      <4>1. CASE e.msg = d.msg
        <5>1. stream[d.msg] = FieldsOf(e)
          BY <1>1, <4>1 DEF IInv, DeliveriesMatchEntries
        <5>2. QED
          BY <1>2, <3>1, <5>1, SMT DEF FieldsOf
      <4>2. CASE e.msg # d.msg
        <5>1. e.attempt < stream[d.msg].attempt
          BY <1>1, <2>1, <3>1, <4>2 DEF IInv, AttemptsIncrease
        <5>2. QED
          BY <1>2, <3>1, <3>2, <5>1, SMT
      <4>3. QED
        BY <4>1, <4>2
    <3>4. retryData'[e.id].attempt = d.attempt + 1
      BY <1>4, <2>1, SMT
    <3>5. QED
      BY <1>2, <3>2, <3>3, <3>4, SMT
  <2>2. CASE e.id # d.id
    <3>1. e.id \in retry /\ e.id \in DOMAIN retryData
      BY <1>4, <2>2 DEF IInv, ScheduleMatchesData
    <3>2. QED
      BY <1>4, <2>2, <3>1 DEF IInv, AttemptsIncrease
  <2>3. QED
    BY <2>1, <2>2
<1>12. QED
  BY <1>3, <1>7, <1>8, <1>9, <1>10, <1>11 DEF IInv

(* Enqueue, EnqueueOnce and AddMalformed store one job, now or later. *)
LEMMA StoreOneInv ==
  ASSUME IInv, NEW j \in Jobs \ stored,
         NEW named, DOMAIN named \subseteq Keys, named \in [DOMAIN named -> Jobs],
         StoreJobs(<<j>>, {}, named) \/ StoreJobs(<<>>, {j}, named)
  PROVE  IInv'
<1> DEFINE one == <<j>>
           none == <<>>
<1>1. /\ none \in Orders(Jobs \ stored, 1) /\ Range(none) = {}
      /\ one \in Orders(Jobs \ stored, 1)
      /\ {j} \in SUBSET (Jobs \ stored) /\ {} \in SUBSET (Jobs \ stored)
  BY ShortOrders
<1>2. StoreJobs(one, {}, named) \/ StoreJobs(none, {j}, named)
  OBVIOUS
<1>3. Range(one) \cap {} = {} /\ Range(none) \cap {j} = {}
  BY <1>1
<1> HIDE DEF one, none
<1>4. CASE StoreJobs(one, {}, named)
  BY <1>1, <1>3, <1>4, StoreJobsInv
<1>5. CASE StoreJobs(none, {j}, named)
  BY <1>1, <1>3, <1>5, StoreJobsInv
<1>6. QED
  BY <1>2, <1>4, <1>5

(* A single enqueue uses no key, or one. *)
LEMMA Names ==
  ASSUME NEW j \in Jobs, NEW k \in Keys
  PROVE  /\ DOMAIN [x \in {k} |-> j] \subseteq Keys
         /\ [x \in {k} |-> j] \in [DOMAIN [x \in {k} |-> j] -> Jobs]
  OBVIOUS

(* A request without a key sets none. *)
LEMMA NoNames ==
  DOMAIN <<>> \subseteq Keys /\ <<>> \in [DOMAIN <<>> -> Jobs]
  BY SMT

(* Store.EnqueueBatch keeps the invariant. *)
LEMMA EnqueueBatchInv ==
  ASSUME IInv, NEW now \in Orders(Fresh, BatchLimit), NEW later \in SUBSET Fresh,
         NEW keys \in SUBSET Keys, NEW named \in [keys -> Range(now) \cup later],
         EnqueueBatch(now, later, named)
  PROVE  IInv'
<1>1. BatchLimit \in Nat /\ Fresh \in SUBSET (Jobs \ stored)
  BY StoreAssumption DEF Fresh
<1>2. now \in Orders(Jobs \ stored, BatchLimit) /\ Range(now) \subseteq Fresh
  BY <1>1, OrdersMonotone, OrderFacts
<1>3. later \in SUBSET (Jobs \ stored)
  BY <1>1
<1>4. DOMAIN named \subseteq Keys /\ named \in [DOMAIN named -> Jobs]
  BY <1>1, <1>2
<1>5. Range(now) \cap later = {} /\ StoreJobs(now, later, named)
  BY DEF EnqueueBatch
<1>6. QED
  BY <1>1, <1>2, <1>3, <1>4, <1>5, StoreJobsInv

(* A request that is executed again stores another copy of a job that is in
   resent from then on. *)
LEMMA ResendInv ==
  ASSUME IInv, NEW r \in unanswered, Resend(r)
  PROVE  IInv'
<1> DEFINE f == [id |-> r.id, attempt |-> 0]
           fs == IF r.delayed THEN <<>> ELSE <<f>>
<1>1. /\ r.id \in Jobs /\ r.id \in Resendable /\ r.id \in stored
      /\ f \in Fields /\ f.id = r.id
  BY StoreAssumption, SMT DEF IInv, TypeOK, ResendsAreStored, Fields
<1>2. /\ unanswered' = unanswered \ {r} /\ resent' = resent \cup {r.id}
      /\ UNCHANGED <<lastDelivered, pel, consumers, dedupe, dead, stored, issued, acked>>
  BY DEF Resend
<1>3. /\ DOMAIN stream' \subseteq 1 .. lastID' /\ lastID' \in Nat /\ lastID <= lastID'
      /\ stream' \in [DOMAIN stream' -> Fields]
      /\ \A m \in DOMAIN stream : m \in DOMAIN stream' /\ stream'[m] = stream[m]
      /\ \A m \in DOMAIN stream' \ DOMAIN stream : m > lastID /\ stream'[m].id = r.id
  <2>1. CASE r.delayed
    <3>1. UNCHANGED <<stream, lastID>>
      BY <2>1 DEF Resend
    <3>2. QED
      BY <3>1, SMT DEF IInv, TypeOK
  <2>2. CASE ~r.delayed
    <3>1. stream' = Added(<<f>>) /\ lastID' = lastID + 1
      BY <2>2 DEF Resend
    <3> DEFINE one == <<f>>
    <3>2. one \in Seq(Fields) /\ Len(one) = 1 /\ one[1] = f
      BY <1>1, SMT
    <3> HIDE DEF f, one
    <3>3. /\ \A m \in DOMAIN stream : m \in DOMAIN stream' /\ stream'[m] = stream[m]
          /\ \A m \in DOMAIN stream' \ DOMAIN stream :
               m > lastID /\ m - lastID \in 1 .. Len(one) /\ stream'[m] = one[m - lastID]
          /\ DOMAIN stream' \subseteq 1 .. lastID + Len(one)
          /\ stream' \in [DOMAIN stream' -> Fields]
      BY <3>1, <3>2, AddedFacts DEF IInv, one
    <3>4. lastID \in Nat /\ lastID' \in Nat /\ lastID <= lastID'
      BY <3>1, SMT DEF IInv, TypeOK
    <3>5. \A m \in DOMAIN stream' \ DOMAIN stream : stream'[m] = f
      BY <3>2, <3>3, SMT
    <3>6. QED
      BY <1>1, <3>1, <3>2, <3>3, <3>4, <3>5
  <2>3. QED
    BY <2>1, <2>2
<1> HIDE DEF fs
<1>4. /\ retry \subseteq retry' /\ retry' \subseteq retry \cup {r.id}
      /\ DOMAIN retryData \subseteq DOMAIN retryData'
      /\ ScheduleMatchesData'
      /\ \A j \in DOMAIN retryData : j # r.id => retryData'[j] = retryData[j]
      /\ retryData' \in [DOMAIN retryData' -> Fields]
      /\ DOMAIN retryData' \subseteq Jobs
  <2>1. CASE ~r.delayed
    <3>1. UNCHANGED <<retry, retryData>>
      BY <2>1 DEF Resend, scheduleVars
    <3>2. QED
      BY <3>1 DEF IInv, TypeOK, ScheduleMatchesData
  <2>2. CASE r.delayed
    <3>1. Schedule({r.id}, 0)
      BY <2>2 DEF Resend
    <3>2. /\ retry' = retry \cup {r.id}
          /\ DOMAIN retryData' = DOMAIN retryData \cup {r.id}
          /\ retryData'[r.id] = f
          /\ \A j \in DOMAIN retryData : j # r.id => retryData'[j] = retryData[j]
          /\ retryData' = [j \in DOMAIN retryData' |-> retryData'[j]]
      BY <3>1 DEF Schedule
    <3> HIDE DEF f
    <3>3. \A j \in DOMAIN retryData' : retryData'[j] \in Fields
      BY <1>1, <3>2 DEF IInv, TypeOK
    <3>4. ScheduleMatchesData'
      BY <1>1, <3>2 DEF IInv, ScheduleMatchesData
    <3>5. QED
      BY <1>1, <3>2, <3>3, <3>4 DEF IInv, TypeOK
  <2>3. QED
    BY <2>1, <2>2
<1> HIDE DEF f
<1>5. TypeOK'
  <2>1. lastDelivered' \in 0 .. lastID' /\ DOMAIN pel' \subseteq 1 .. lastID'
    BY <1>2, <1>3, SMT DEF IInv, TypeOK
  <2>2. QED
    BY <1>1, <1>2, <1>3, <1>4, <2>1 DEF IInv, TypeOK
<1>6. DeliveredIsPending'
  BY <1>2, <1>3, SMT DEF IInv, TypeOK, DeliveredIsPending
<1>7. /\ StreamJobs \subseteq StreamJobs' /\ StreamJobs' \subseteq StreamJobs \cup {r.id}
      /\ DeadJobs' = DeadJobs /\ AckedJobs' = AckedJobs
  <2>1. \A m \in DOMAIN stream : stream[m].id \in StreamJobs'
    BY <1>3 DEF StreamJobs
  <2>2. \A m \in DOMAIN stream' : stream'[m].id \in StreamJobs \cup {r.id}
    BY <1>3 DEF StreamJobs
  <2>3. QED
    BY <1>2, <2>1, <2>2 DEF StreamJobs, DeadJobs, AckedJobs
<1>8. NoJobLost' /\ OnlyStoredJobs' /\ ResendsAreStored'
  BY <1>1, <1>2, <1>4, <1>7 DEF IInv, NoJobLost, OnlyStoredJobs, ResendsAreStored
<1>9. NoJobDuplicated'
  <2>1. \A m, n \in DOMAIN stream' :
          stream'[m].id = stream'[n].id => m = n \/ stream'[m].id \in resent'
    <3> SUFFICES ASSUME NEW m \in DOMAIN stream', NEW n \in DOMAIN stream',
                        stream'[m].id = stream'[n].id, stream'[m].id # r.id
                 PROVE  m = n \/ stream'[m].id \in resent
      BY <1>2
    <3>1. m \in DOMAIN stream /\ n \in DOMAIN stream
      BY <1>3
    <3>2. QED
      BY <1>3, <3>1 DEF IInv, NoJobDuplicated
  <2>2. QED
    BY <1>2, <1>4, <1>7, <2>1 DEF IInv, NoJobDuplicated
<1>10. DeliveriesMatchEntries'
  BY <1>2, <1>3 DEF IInv, TypeOK, DeliveriesMatchEntries, DeliveredIsPending, FieldsOf
<1>11. AttemptsIncrease'
  <2> SUFFICES ASSUME NEW d \in issued, d.id \notin resent, d.id # r.id
               PROVE  /\ \A m \in DOMAIN stream' :
                           stream'[m].id = d.id /\ m # d.msg => d.attempt < stream'[m].attempt
                      /\ d.id \in retry' => d.attempt < retryData'[d.id].attempt
    BY <1>2 DEF AttemptsIncrease
  <2>1. \A m \in DOMAIN stream' : stream'[m].id = d.id => m \in DOMAIN stream
    BY <1>3
  <2>2. d.id \in retry' => d.id \in retry /\ d.id \in DOMAIN retryData
    BY <1>4 DEF IInv, ScheduleMatchesData
  <2>3. QED
    BY <1>3, <1>4, <2>1, <2>2 DEF IInv, AttemptsIncrease
<1>12. QED
  BY <1>4, <1>5, <1>6, <1>8, <1>9, <1>10, <1>11 DEF IInv

(* Every step of a producer keeps the invariant. *)
LEMMA ProducingInv ==
  ASSUME IInv, Producing
  PROVE  IInv'
<1>1. ASSUME NEW j \in Fresh, Enqueue(j)
      PROVE  IInv'
  BY <1>1, NoNames, StoreOneInv DEF Enqueue, Fresh
<1>2. ASSUME NEW j \in Fresh, NEW k \in Keys, EnqueueOnce(j, k)
      PROVE  IInv'
  <2> DEFINE named == [x \in {k} |-> j]
  <2>1. j \in Jobs \ stored
    BY DEF Fresh
  <2>2. DOMAIN named \subseteq Keys /\ named \in [DOMAIN named -> Jobs]
    BY <2>1, Names
  <2>3. StoreJobs(<<j>>, {}, named) \/ StoreJobs(<<>>, {j}, named)
    BY <1>2 DEF EnqueueOnce
  <2> HIDE DEF named
  <2>4. QED
    BY <2>1, <2>2, <2>3, StoreOneInv
<1>3. ASSUME NEW now \in Orders(Fresh, BatchLimit), NEW later \in SUBSET Fresh,
             NEW keys \in SUBSET Keys, NEW named \in [keys -> Range(now) \cup later],
             EnqueueBatch(now, later, named)
      PROVE  IInv'
  BY <1>3, EnqueueBatchInv
<1>4. ASSUME NEW j \in Malformed, AddMalformed(j)
      PROVE  IInv'
  BY <1>4, NoNames, StoreOneInv, StoreAssumption DEF AddMalformed
<1>5. ASSUME NEW k \in Keys, DedupeExpires(k)
      PROVE  IInv'
  <2>1. /\ dedupe' = Restrict(dedupe, DOMAIN dedupe \ {k})
        /\ UNCHANGED <<stream, lastID, lastDelivered, pel, consumers, retry, retryData,
                       dead, unanswered, stored, resent, issued, acked>>
    BY <1>5 DEF DedupeExpires, streamVars, scheduleVars, historyVars, producerVars
  <2>2. DOMAIN dedupe' \subseteq Keys /\ dedupe' \in [DOMAIN dedupe' -> Jobs]
    BY <2>1 DEF Restrict, IInv, TypeOK
  <2>3. TypeOK'
    BY <2>1, <2>2 DEF IInv, TypeOK
  <2>4. /\ NoJobLost' /\ NoJobDuplicated' /\ ScheduleMatchesData' /\ OnlyStoredJobs'
        /\ ResendsAreStored'
    BY <2>1, PlacesUnchanged
  <2>5. DeliveredIsPending' /\ DeliveriesMatchEntries' /\ AttemptsIncrease'
    BY <2>1 DEF IInv, DeliveredIsPending, DeliveriesMatchEntries, AttemptsIncrease, FieldsOf
  <2>6. QED
    BY <2>3, <2>4, <2>5 DEF IInv
<1>6. ASSUME NEW r \in unanswered, Resend(r)
      PROVE  IInv'
  BY <1>6, ResendInv
<1>7. QED
  BY <1>1, <1>2, <1>3, <1>4, <1>5, <1>6 DEF Producing

(* Every step that delivers jobs keeps the invariant. *)
LEMMA DeliveringInv ==
  ASSUME IInv, Delivering
  PROVE  IInv'
<1>1. ASSUME NEW order \in Orders(retry \cap DOMAIN retryData, PromoteLimit),
             NEW absent \in SUBSET (retry \ DOMAIN retryData),
             \/ PromoteRetries(order, absent)
             \/ \E w \in Workers : ClaimReady(w, order, absent)
      PROVE  IInv'
  BY <1>1, PromoteRetriesInv, ClaimReadyInv
<1>2. ASSUME NEW w \in Workers, ClaimBlocking(w)
      PROVE  IInv'
  BY <1>2, ClaimBlockingInv
<1>3. ASSUME NEW m \in DOMAIN pel, LeaseExpires(m)
      PROVE  IInv'
  BY <1>3, LeaseExpiresInv
<1>4. ASSUME NEW w \in Workers, NEW ms \in SUBSET DOMAIN pel, RecoverExpired(w, ms)
      PROVE  IInv'
  BY <1>4, RecoverExpiredInv
<1>5. QED
  BY <1>1, <1>2, <1>3, <1>4 DEF Delivering

(* Every call made with a delivery keeps the invariant, whoever makes it and
   however late. *)
LEMMA SettlingInv ==
  ASSUME IInv, Settling
  PROVE  IInv'
<1>1. ASSUME NEW d \in issued, Ack(d) \/ Extend(d) \/ Retry(d) \/ DeadLetter(d)
      PROVE  IInv'
  <2>1. CASE Extend(d)
    BY <2>1, RenewInv DEF Extend, scheduleVars, historyVars, producerVars
  <2>2. QED
    BY <1>1, <2>1, AckInv, RetryInv, DeadLetterInv
<1>2. ASSUME NEW ds \in {{d, e} : d, e \in issued}, AckBatch(ds) \/ ExtendBatch(ds)
      PROVE  IInv'
  <2>1. ds \in SUBSET issued
    BY SMT
  <2>2. CASE ExtendBatch(ds)
    BY <2>2, RenewInv, SMT DEF ExtendBatch, scheduleVars, historyVars, producerVars
  <2>3. QED
    BY <1>2, <2>1, <2>2, AckBatchInv, SMT
<1>3. QED
  BY <1>1, <1>2, SMT DEF Settling

(* Deregistering and pruning consumers keeps the invariant. *)
LEMMA LeavingInv ==
  ASSUME IInv, Leaving
  PROVE  IInv'
<1>1. ASSUME NEW w \in consumers, Deregister(w)
      PROVE  IInv'
  <2>1. \A c \in {w} : ~HoldsPending(c)
    BY <1>1 DEF Deregister
  <2>2. QED
    BY <1>1, <2>1, DelConsumersInv DEF Deregister, scheduleVars, historyVars, producerVars
<1>2. ASSUME NEW idle \in SUBSET consumers, PruneConsumers(idle)
      PROVE  IInv'
  <2> DEFINE cs == {w \in idle : ~HoldsPending(w)}
  <2>1. \A c \in cs : ~HoldsPending(c)
    OBVIOUS
  <2>2. DelConsumers(cs)
    BY <1>2 DEF PruneConsumers
  <2>3. UNCHANGED <<stream, lastID, lastDelivered, retry, retryData, dedupe, dead,
                    unanswered, stored, resent, issued, acked>>
    BY <1>2 DEF PruneConsumers, scheduleVars, historyVars, producerVars
  <2> HIDE DEF cs
  <2>4. QED
    BY <2>1, <2>2, <2>3, DelConsumersInv
<1>3. QED
  BY <1>1, <1>2 DEF Leaving

-----------------------------------------------------------------------------
(* The invariant and what follows from it *)

(* The initial states satisfy the invariant. *)
LEMMA InitInv == Init => IInv
<1> SUFFICES ASSUME Init PROVE IInv
  OBVIOUS
<1>1. TypeOK
  BY StoreAssumption, SMT DEF Init, TypeOK
<1>2. StreamJobs = {} /\ DeadJobs = {} /\ AckedJobs = {}
  BY SMT DEF Init, StreamJobs, DeadJobs, AckedJobs
<1>3. NoJobLost /\ NoJobDuplicated /\ OnlyStoredJobs
  BY <1>2, SMT DEF Init, NoJobLost, NoJobDuplicated, OnlyStoredJobs
<1>4. /\ DeliveredIsPending /\ ScheduleMatchesData /\ DeliveriesMatchEntries
      /\ AttemptsIncrease /\ ResendsAreStored
  BY SMT DEF Init, DeliveredIsPending, ScheduleMatchesData, DeliveriesMatchEntries,
             AttemptsIncrease, ResendsAreStored
<1>5. QED
  BY <1>1, <1>3, <1>4 DEF IInv

(* A step that leaves all variables alone keeps the invariant. *)
LEMMA StutterInv ==
  ASSUME IInv, UNCHANGED vars
  PROVE  IInv'
<1>1. UNCHANGED <<stream, lastID, lastDelivered, pel, consumers, retry, retryData,
                  dedupe, dead, unanswered, stored, resent, issued, acked>>
  BY DEF vars, streamVars, scheduleVars, historyVars, producerVars
<1>2. TypeOK'
  BY <1>1 DEF IInv, TypeOK
<1>3. /\ NoJobLost' /\ NoJobDuplicated' /\ ScheduleMatchesData' /\ OnlyStoredJobs'
      /\ ResendsAreStored'
  BY <1>1, PlacesUnchanged
<1>4. DeliveredIsPending' /\ DeliveriesMatchEntries' /\ AttemptsIncrease'
  BY <1>1 DEF IInv, DeliveredIsPending, DeliveriesMatchEntries, AttemptsIncrease, FieldsOf
<1>5. QED
  BY <1>2, <1>3, <1>4 DEF IInv

(* Every step of the specification keeps the invariant. *)
LEMMA NextInv == IInv /\ [Next]_vars => IInv'
  BY ProducingInv, DeliveringInv, SettlingInv, LeavingInv, StutterInv DEF Next

(* The inductive invariant holds in every reachable state. *)
THEOREM InductiveInvariant == Spec => []IInv
  BY InitInv, NextInv, PTL DEF Spec

(* Every variable keeps the type the scripts rely on: deliveries, entries and
   schedule records are well formed, and the group's last delivered ID never
   passes the last one XADD generated. *)
THEOREM TypeCorrect == Spec => []TypeOK
<1>1. IInv => TypeOK
  BY DEF IInv
<1>2. QED
  BY <1>1, InductiveInvariant, PTL

(* No delivered entry is ever stranded outside the PEL. *)
THEOREM NothingStranded == Spec => []DeliveredIsPending
<1>1. IInv => DeliveredIsPending
  BY DEF IInv
<1>2. QED
  BY <1>1, InductiveInvariant, PTL

(* README: "No job is silently lost", for any number of workers and any
   interleaving of the scripts. *)
THEOREM NothingLost == Spec => []NoJobLost
<1>1. IInv => NoJobLost
  BY DEF IInv
<1>2. QED
  BY <1>1, InductiveInvariant, PTL

(* No job whose enqueue was executed once is in two places at once, or settled
   twice, though the enqueues of others are executed again. *)
THEOREM NothingDuplicated == Spec => []NoJobDuplicated
<1>1. IInv => NoJobDuplicated
  BY DEF IInv
<1>2. QED
  BY <1>1, InductiveInvariant, PTL

-----------------------------------------------------------------------------
(* Fencing *)

(* A higher attempt wins over any delivery count, and among equal attempts
   the count decides: Job.FencingToken orders deliveries lexicographically. *)
LEMMA FenceOrder ==
  ASSUME NEW d \in Delivery, NEW e \in Delivery
  PROVE  /\ FencingToken(d) \in Nat
         /\ e.attempt < d.attempt => FencingToken(e) < FencingToken(d)
         /\ e.attempt = d.attempt /\ e.token < d.token => FencingToken(e) < FencingToken(d)
         /\ e.attempt = d.attempt /\ e.token <= d.token => FencingToken(e) <= FencingToken(d)
<1>1. /\ d.attempt \in Nat /\ e.attempt \in Nat /\ d.token \in Nat /\ e.token \in Nat
      /\ e.token < TokenSpan /\ 0 < d.token /\ TokenSpan \in Nat
  BY StoreAssumption, SMT DEF Delivery
<1>2. \A a, b, n \in Nat : a < b => a * n + n <= b * n
  <2> SUFFICES ASSUME NEW a \in Nat, NEW b \in Nat, NEW n \in Nat, a < b
               PROVE  a * n + n <= b * n
    OBVIOUS
  <2>1. PICK c \in Nat : b = a + 1 + c
    <3>1. b - a - 1 \in Nat /\ b = a + 1 + (b - a - 1)
      BY SMT
    <3>2. QED
      BY <3>1
  <2>2. b * n = a * n + n + c * n /\ c * n \in Nat /\ a * n \in Nat
    BY <2>1, SMT
  <2>3. QED
    BY <2>2, SMT
<1>3. d.attempt * TokenSpan \in Nat /\ e.attempt * TokenSpan \in Nat
  BY <1>1, SMT
<1>4. e.attempt < d.attempt => e.attempt * TokenSpan + TokenSpan <= d.attempt * TokenSpan
  BY <1>1, <1>2
<1>5. QED
  BY <1>1, <1>3, <1>4, SMT DEF FencingToken

(* Who owns an entry holds the newest delivery of its job. *)
LEMMA OwnerFacts == IInv => OwnerIsNewest
<1> SUFFICES ASSUME IInv, NEW d \in issued, NEW e \in issued, Owns(d), e.id = d.id,
                    d.id \notin resent
             PROVE  FencingToken(e) <= FencingToken(d)
  BY DEF OwnerIsNewest
<1>1. d \in Delivery /\ e \in Delivery
  BY DEF IInv, TypeOK
<1>2. /\ d.msg \in DOMAIN pel /\ d.msg \in DOMAIN stream /\ pel[d.msg].count = d.token
      /\ stream[d.msg] = FieldsOf(d)
  BY DEF Owns, IInv, DeliveredIsPending, DeliveriesMatchEntries
<1>3. stream[d.msg].id = d.id /\ stream[d.msg].attempt = d.attempt
  BY <1>2, SMT DEF FieldsOf
<1>4. CASE e.msg = d.msg
  <2>1. FieldsOf(e) = FieldsOf(d) /\ e.token <= d.token
    BY <1>2, <1>4 DEF IInv, DeliveriesMatchEntries
  <2>2. e.attempt = d.attempt
    BY <2>1 DEF FieldsOf
  <2>3. QED
    BY <1>1, <2>1, <2>2, FenceOrder
<1>5. CASE e.msg # d.msg
  <2>1. e.attempt < d.attempt
    BY <1>2, <1>3, <1>5 DEF IInv, AttemptsIncrease
  <2>2. FencingToken(e) < FencingToken(d) /\ FencingToken(e) \in Nat /\ FencingToken(d) \in Nat
    BY <1>1, <2>1, FenceOrder
  <2>3. QED
    BY <2>2, SMT
<1>6. QED
  BY <1>4, <1>5

(* Only the newest delivery of a job that was stored once can settle or extend
   it. *)
THEOREM OwnersAreNewest == Spec => []OwnerIsNewest
  BY OwnerFacts, InductiveInvariant, PTL

(* How a step changes the PEL: it adds entries not delivered before, bumps
   the count of entries it takes over, and otherwise keeps owner and count.
   What it hands out are deliveries of the entries it added or bumped. *)
PelStep ==
  \A m \in DOMAIN pel' :
    \/ m > lastDelivered
    \/ m \in DOMAIN pel /\ pel'[m].owner = pel[m].owner /\ pel'[m].count = pel[m].count
    \/ m \in DOMAIN pel /\ pel'[m].count = pel[m].count + 1

HandedOut(d) ==
  /\ d.msg \in DOMAIN stream'
  /\ stream'[d.msg].id = d.id /\ stream'[d.msg].attempt = d.attempt
  /\ \/ d.msg > lastDelivered
     \/ /\ d.msg \in DOMAIN pel
        /\ stream[d.msg] = FieldsOf(d)
        /\ d.token = pel[d.msg].count + 1

(* A read hands out deliveries of entries nobody had before. *)
LEMMA ReadGroupStep ==
  ASSUME IInv, NEW w \in Workers, ReadGroup(w, stream')
  PROVE  PelStep /\ issued \subseteq issued' /\ \A d \in issued' \ issued : HandedOut(d)
<1>1. CASE UNCHANGED <<pel, lastDelivered, issued>>
  BY <1>1 DEF PelStep
<1>2. CASE \E last \in Undelivered(stream') : ReadUpTo(w, stream', last)
  <2>1. PICK last \in Undelivered(stream') : ReadUpTo(w, stream', last)
    BY <1>2
  <2> DEFINE read == {m \in Undelivered(stream') : m <= last}
  <2>2. /\ pel' = [m \in DOMAIN pel \cup read |->
                     IF m \in read THEN [owner |-> w, count |-> 1, expired |-> FALSE]
                     ELSE pel[m]]
        /\ issued' = issued \cup {Deliver(m, stream'[m], w, 1) : m \in read}
    BY <2>1 DEF ReadUpTo
  <2>3. \A m \in read : m \in DOMAIN stream' /\ m > lastDelivered
    BY DEF Undelivered
  <2> HIDE DEF read
  <2>4. PelStep
    BY <2>2, <2>3 DEF PelStep
  <2>5. \A d \in issued' \ issued : HandedOut(d)
    BY <2>2, <2>3, SMT DEF HandedOut, Deliver
  <2>6. QED
    BY <2>2, <2>4, <2>5
<1>3. QED
  BY <1>1, <1>2 DEF ReadGroup

(* What one step may do to deliveries: pending entries change as PelStep says,
   and new deliveries are of entries never delivered before, or of a pending
   one taken over with the next count. *)
LEMMA DeliveryStep ==
  ASSUME IInv, [Next]_vars
  PROVE  PelStep /\ issued \subseteq issued' /\ \A d \in issued' \ issued : HandedOut(d)
<1>1. CASE Producing
  <2>1. UNCHANGED <<pel, issued>>
    BY <1>1, ZenonT(60) DEF Producing, Enqueue, EnqueueOnce, EnqueueBatch, AddMalformed, DedupeExpires,
                Resend, StoreJobs, streamVars, historyVars, producerVars
  <2>2. QED
    BY <2>1 DEF PelStep
<1>2. CASE Delivering
  <2>1. ASSUME NEW order, NEW absent, PromoteRetries(order, absent)
        PROVE  PelStep /\ UNCHANGED issued
    BY <2>1 DEF PromoteRetries, PelStep, historyVars, producerVars
  <2>2. ASSUME NEW w \in Workers, NEW order, NEW absent, ClaimReady(w, order, absent)
        PROVE  ReadGroup(w, stream')
    BY <2>2 DEF ClaimReady, producerVars
  <2>3. ASSUME NEW w \in Workers, ClaimBlocking(w)
        PROVE  ReadGroup(w, stream')
    BY <2>3 DEF ClaimBlocking
  <2>4. ASSUME NEW m \in DOMAIN pel, LeaseExpires(m)
        PROVE  PelStep /\ UNCHANGED issued
    <3>1. \A n \in DOMAIN pel : pel[n] \in Pending
      BY DEF IInv, TypeOK
    <3>2. /\ DOMAIN pel' = DOMAIN pel
          /\ \A n \in DOMAIN pel : pel'[n].owner = pel[n].owner /\ pel'[n].count = pel[n].count
      BY <2>4, <3>1 DEF LeaseExpires, Pending
    <3>3. QED
      BY <2>4, <3>2 DEF LeaseExpires, PelStep, historyVars, producerVars
  <2>5. ASSUME NEW w \in Workers, NEW ms \in SUBSET DOMAIN pel, RecoverExpired(w, ms)
        PROVE  PelStep /\ issued \subseteq issued' /\ \A d \in issued' \ issued : HandedOut(d)
    <3>1. PelStep
      BY <2>5 DEF RecoverExpired, TakeOver, PelStep
    <3>2. /\ issued' = issued \cup {Deliver(m, stream[m], w, pel[m].count + 1) : m \in ms}
          /\ stream' = stream
      BY <2>5 DEF RecoverExpired, TakeOver
    <3>3. \A m \in ms : m \in DOMAIN pel /\ m \in DOMAIN stream /\ stream[m] \in Fields
      BY DEF IInv, TypeOK, DeliveredIsPending
    <3>4. ASSUME NEW d \in issued' \ issued
          PROVE  HandedOut(d)
      <4>1. PICK m \in ms : d = Deliver(m, stream[m], w, pel[m].count + 1)
        BY <3>2
      <4>2. /\ d.msg = m /\ d.id = stream[m].id /\ d.attempt = stream[m].attempt
            /\ d.token = pel[m].count + 1
        BY <4>1 DEF Deliver
      <4>3. stream[m] = FieldsOf(d)
        BY <3>3, <4>2 DEF Fields, FieldsOf
      <4>4. QED
        BY <3>2, <3>3, <4>2, <4>3 DEF HandedOut
    <3>5. QED
      BY <3>1, <3>2, <3>4
  <2>6. QED
    BY <1>2, <2>1, <2>2, <2>3, <2>4, <2>5, ReadGroupStep DEF Delivering
<1>3. CASE Settling
  <2>1. ASSUME NEW ms, Settle(ms) PROVE PelStep
    BY <2>1 DEF Settle, Restrict, PelStep
  <2>2. ASSUME NEW ms, Renew(ms) PROVE PelStep
    <3>1. \A n \in DOMAIN pel : pel[n] \in Pending
      BY DEF IInv, TypeOK
    <3>2. /\ DOMAIN pel' = DOMAIN pel
          /\ \A n \in DOMAIN pel : pel'[n].owner = pel[n].owner /\ pel'[n].count = pel[n].count
      BY <2>2, <3>1 DEF Renew, Pending
    <3>3. QED
      BY <3>2 DEF PelStep
  <2>3. ASSUME NEW d \in issued, Ack(d) \/ Extend(d) \/ Retry(d) \/ DeadLetter(d)
        PROVE  PelStep /\ UNCHANGED issued
    <3>1. UNCHANGED issued /\ (Settle({d.msg}) \/ Renew({d.msg}))
      BY <2>3 DEF Ack, Extend, Retry, DeadLetter, historyVars, producerVars
    <3>2. QED
      BY <2>1, <2>2, <3>1
  <2>4. ASSUME NEW ds, AckBatch(ds) \/ ExtendBatch(ds)
        PROVE  PelStep /\ UNCHANGED issued
    <3> DEFINE ms == {d.msg : d \in OwnedOf(ds)}
    <3>1. UNCHANGED issued /\ (Settle(ms) \/ Renew(ms))
      BY <2>4 DEF AckBatch, ExtendBatch, historyVars, producerVars
    <3> HIDE DEF ms
    <3>2. QED
      BY <2>1, <2>2, <3>1
  <2>5. QED
    BY <1>3, <2>3, <2>4, SMT DEF Settling
<1>4. CASE Leaving
  <2>1. UNCHANGED issued
    BY <1>4 DEF Leaving, Deregister, PruneConsumers, historyVars, producerVars
  <2>2. ASSUME NEW cs, DelConsumers(cs) PROVE PelStep
    BY <2>2 DEF DelConsumers, Restrict, PelStep
  <2>3. QED
    BY <1>4, <2>1, <2>2 DEF Leaving, Deregister, PruneConsumers
<1>5. CASE UNCHANGED vars
  BY <1>5 DEF vars, streamVars, historyVars, producerVars, PelStep
<1>6. QED
  BY <1>1, <1>2, <1>3, <1>4, <1>5 DEF Next

(* A step that hands out deliveries stores no job again. *)
LEMMA IssuingResendsNothing ==
  ASSUME [Next]_vars, issued' # issued
  PROVE  UNCHANGED resent
<1>1. CASE Producing
  <2>1. ASSUME NEW now, NEW later, NEW named, StoreJobs(now, later, named)
        PROVE  UNCHANGED issued
    BY <2>1 DEF StoreJobs
  <2>2. ASSUME NEW r, Resend(r)
        PROVE  UNCHANGED issued
    BY <2>2 DEF Resend
  <2>3. ASSUME NEW k, DedupeExpires(k)
        PROVE  UNCHANGED issued
    BY <2>3 DEF DedupeExpires, historyVars
  <2>4. QED
    BY <1>1, <2>1, <2>2, <2>3 DEF Producing, Enqueue, EnqueueOnce, EnqueueBatch, AddMalformed
<1>2. CASE Delivering
  BY <1>2 DEF Delivering, PromoteRetries, ClaimReady, ClaimBlocking, LeaseExpires,
              RecoverExpired, producerVars, historyVars
<1>3. CASE Settling
  <2>1. ASSUME NEW d, Ack(d) \/ Extend(d) \/ Retry(d) \/ DeadLetter(d)
        PROVE  UNCHANGED resent
    BY <2>1 DEF Ack, Extend, Retry, DeadLetter, producerVars, historyVars
  <2>2. ASSUME NEW ds, AckBatch(ds) \/ ExtendBatch(ds)
        PROVE  UNCHANGED resent
    BY <2>2 DEF AckBatch, ExtendBatch, producerVars, historyVars
  <2>3. QED
    BY <1>3, <2>1, <2>2, SMT DEF Settling
<1>4. CASE Leaving
  BY <1>4 DEF Leaving, Deregister, PruneConsumers, producerVars, historyVars
<1>5. QED
  BY <1>1, <1>2, <1>3, <1>4 DEF Next, vars, historyVars, producerVars

(* Each delivery handed out has a higher token than all earlier ones. *)
LEMMA TokenStep ==
  ASSUME IInv, [Next]_vars, NEW d \in issued' \ issued, NEW e \in issued, d.id = e.id,
         d.id \notin resent
  PROVE  FencingToken(e) < FencingToken(d)
<1>1. IInv'
  BY NextInv
<1>2. HandedOut(d) /\ e \in issued'
  BY DeliveryStep
<1>3. d \in Delivery /\ e \in Delivery
  BY <1>1, <1>2 DEF IInv, TypeOK
<1>4. CASE e.msg # d.msg
  <2>1. d.id \notin resent'
    BY IssuingResendsNothing
  <2>2. e.attempt < d.attempt
    BY <1>1, <1>2, <1>4, <2>1 DEF HandedOut, IInv, AttemptsIncrease
  <2>3. QED
    BY <1>3, <2>2, FenceOrder
<1>5. CASE e.msg = d.msg
  <2>1. e.msg <= lastDelivered /\ e.msg \in Nat /\ lastDelivered \in Nat
    BY <1>3, SMT DEF IInv, TypeOK, DeliveriesMatchEntries, Delivery
  <2>2. ~(d.msg > lastDelivered)
    BY <1>5, <2>1, SMT
  <2>3. /\ d.msg \in DOMAIN pel /\ d.msg \in DOMAIN stream
        /\ stream[d.msg] = FieldsOf(d) /\ d.token = pel[d.msg].count + 1
    BY <1>2, <2>2 DEF HandedOut, IInv, DeliveredIsPending
  <2>4. stream[e.msg] = FieldsOf(e) /\ e.token <= pel[e.msg].count
    BY <1>5, <2>3 DEF IInv, DeliveriesMatchEntries
  <2>5. e.attempt = d.attempt
    BY <1>5, <2>3, <2>4, SMT DEF FieldsOf
  <2>6. pel[d.msg].count \in Nat /\ e.token \in Nat
    BY <1>3, <2>3, StoreAssumption, SMT DEF IInv, TypeOK, Pending, Delivery
  <2>7. e.token < d.token
    BY <1>5, <2>3, <2>4, <2>6, SMT
  <2>8. QED
    BY <1>3, <2>5, <2>7, FenceOrder
<1>6. QED
  BY <1>4, <1>5

(* Job.FencingToken: "it increases with each retry and each redelivery". *)
THEOREM TokensIncrease == Spec => FencingTokenIncreases
<1>1. IInv /\ [Next]_vars =>
        [\A d \in issued' \ issued, e \in issued :
           d.id = e.id /\ d.id \notin resent => FencingToken(e) < FencingToken(d)]_vars
  BY TokenStep
<1>2. QED
  BY <1>1, InductiveInvariant, PTL DEF Spec, FencingTokenIncreases

(* A lease that was lost is not owned again. *)
LEMMA LostStep ==
  ASSUME IInv, [Next]_vars, NEW d \in issued, Owns(d)'
  PROVE  Owns(d)
<1>1. PelStep
  BY DeliveryStep
<1>2. d.msg \in DOMAIN pel' /\ pel'[d.msg].owner = d.owner /\ pel'[d.msg].count = d.token
  BY DEF Owns
<1>3. d.msg <= lastDelivered /\ d.msg \in Nat /\ lastDelivered \in Nat
  BY SMT DEF IInv, TypeOK, DeliveriesMatchEntries, Delivery
<1>4. d.msg \in DOMAIN pel /\ d.msg \in DOMAIN stream
  BY <1>1, <1>2, <1>3, SMT DEF PelStep, IInv, DeliveredIsPending
<1>5. d.token <= pel[d.msg].count
  BY <1>4 DEF IInv, DeliveriesMatchEntries
<1>6. d.token \in Nat /\ pel[d.msg].count \in Nat
  BY <1>4, StoreAssumption, SMT DEF IInv, TypeOK, Delivery, Pending
<1>7. pel'[d.msg].count # pel[d.msg].count + 1
  BY <1>2, <1>5, <1>6, SMT
<1>8. pel'[d.msg].owner = pel[d.msg].owner /\ pel'[d.msg].count = pel[d.msg].count
  BY <1>1, <1>2, <1>3, <1>7, SMT DEF PelStep
<1>9. QED
  BY <1>2, <1>4, <1>8 DEF Owns

(* scripts.go: after a takeover the old holder can't settle or extend the job,
   "even if it later reuses the same consumer name". *)
THEOREM LostLeasesStayLost == Spec => LostStaysLost
<1>1. IInv /\ [Next]_vars => [\A d \in issued : ~Owns(d) => ~Owns(d)']_vars
  BY LostStep
<1>2. QED
  BY <1>1, InductiveInvariant, PTL DEF Spec, LostStaysLost

-----------------------------------------------------------------------------
(* Idempotency keys *)

(* Storing jobs keeps every dedupe key naming a stored job, the new ones too. *)
LEMMA StoreJobsDedupe ==
  ASSUME DedupeNamesStoredJob, NEW now, NEW later, NEW named, StoreJobs(now, later, named),
         \A k \in DOMAIN named : named[k] \in Range(now) \cup later
  PROVE  DedupeNamesStoredJob'
  BY DEF DedupeNamesStoredJob, StoreJobs

(* Every step of a producer keeps each idempotency key naming a stored job. *)
LEMMA ProducingDedupe ==
  ASSUME DedupeNamesStoredJob, Producing
  PROVE  DedupeNamesStoredJob'
<1>1. ASSUME NEW j, Enqueue(j) \/ AddMalformed(j)
      PROVE  DedupeNamesStoredJob'
  <2>1. \A k \in DOMAIN <<>> : FALSE
    BY SMT
  <2>2. StoreJobs(<<j>>, {}, <<>>) \/ StoreJobs(<<>>, {j}, <<>>)
    BY <1>1 DEF Enqueue, AddMalformed
  <2>3. QED
    BY <2>1, <2>2, StoreJobsDedupe
<1>2. ASSUME NEW j, NEW k, EnqueueOnce(j, k)
      PROVE  DedupeNamesStoredJob'
  <2> DEFINE named == [x \in {k} |-> j]
  <2>1. \A x \in DOMAIN named : named[x] = j
    OBVIOUS
  <2>2. j \in Range(<<j>>) \cup {} /\ j \in Range(<<>>) \cup {j}
    BY SMT DEF Range
  <2>3. StoreJobs(<<j>>, {}, named) \/ StoreJobs(<<>>, {j}, named)
    BY <1>2 DEF EnqueueOnce
  <2> HIDE DEF named
  <2>4. QED
    BY <2>1, <2>2, <2>3, StoreJobsDedupe, SMT
<1>3. ASSUME NEW now, NEW later, NEW keys, NEW named \in [keys -> Range(now) \cup later],
             EnqueueBatch(now, later, named)
      PROVE  DedupeNamesStoredJob'
  BY <1>3, StoreJobsDedupe DEF EnqueueBatch
<1>4. ASSUME NEW r, Resend(r)
      PROVE  DedupeNamesStoredJob'
  BY <1>4 DEF Resend, DedupeNamesStoredJob
<1>5. ASSUME NEW k, DedupeExpires(k)
      PROVE  DedupeNamesStoredJob'
  BY <1>5 DEF DedupeExpires, Restrict, DedupeNamesStoredJob, historyVars, producerVars
<1>6. QED
  BY <1>1, <1>2, <1>3, <1>4, <1>5 DEF Producing

(* A key never points to a job that was not stored: the check, the key and the
   job are one step. *)
THEOREM KeysNameStoredJobs == Spec => []DedupeNamesStoredJob
<1>1. Init => DedupeNamesStoredJob
  BY SMT DEF Init, DedupeNamesStoredJob
<1>2. ASSUME Delivering \/ Settling \/ Leaving \/ UNCHANGED vars
      PROVE  UNCHANGED <<dedupe, stored>>
  <2>1. Delivering => UNCHANGED <<dedupe, stored>>
    BY DEF Delivering, PromoteRetries, ClaimReady, ClaimBlocking, LeaseExpires,
           RecoverExpired, historyVars, producerVars
  <2>2. ASSUME NEW d \in issued, Ack(d) \/ Extend(d) \/ Retry(d) \/ DeadLetter(d)
        PROVE  UNCHANGED <<dedupe, stored>>
    BY <2>2 DEF Ack, Extend, Retry, DeadLetter, historyVars, producerVars
  <2>3. ASSUME NEW ds, AckBatch(ds) \/ ExtendBatch(ds)
        PROVE  UNCHANGED <<dedupe, stored>>
    BY <2>3 DEF AckBatch, ExtendBatch, historyVars, producerVars
  <2>4. Leaving => UNCHANGED <<dedupe, stored>>
    BY DEF Leaving, Deregister, PruneConsumers, historyVars, producerVars
  <2>5. UNCHANGED vars => UNCHANGED <<dedupe, stored>>
    BY DEF vars, historyVars, producerVars
  <2>6. Settling => UNCHANGED <<dedupe, stored>>
    BY <2>2, <2>3, SMT DEF Settling
  <2>7. QED
    BY <1>2, <2>1, <2>4, <2>5, <2>6
<1>3. DedupeNamesStoredJob /\ [Next]_vars => DedupeNamesStoredJob'
  <2> SUFFICES ASSUME DedupeNamesStoredJob, [Next]_vars
               PROVE  DedupeNamesStoredJob'
    OBVIOUS
  <2>1. CASE Producing
    BY <2>1, ProducingDedupe
  <2>2. CASE Delivering \/ Settling \/ Leaving \/ UNCHANGED vars
    BY <1>2, <2>2 DEF DedupeNamesStoredJob
  <2>3. QED
    BY <2>1, <2>2 DEF Next
<1>4. QED
  BY <1>1, <1>3, PTL DEF Spec

-----------------------------------------------------------------------------
(* Reading a job's record off the keys *)

(* What the record of a job is, by where the job is. *)
Records ==
  \A j \in Once :
    /\ \A m \in DOMAIN stream : stream[m].id = j => JobRecord(j) = EntryRecord(m)
    /\ j \in retry => JobRecord(j) = Contract!Waiting(retryData[j].attempt)
    /\ j \in DeadJobs => JobRecord(j) = Contract!Dead
    /\ j \in AckedJobs => JobRecord(j) = Contract!Done
    /\ j \notin stored => JobRecord(j) = Contract!Absent

(* A job is in one place, and once, so its record is the one of that place. *)
LEMMA RecordsOfPlaces == IInv => Records
<1> SUFFICES ASSUME IInv, NEW j \in Once
             PROVE  /\ \A m \in DOMAIN stream : stream[m].id = j => JobRecord(j) = EntryRecord(m)
                    /\ j \in retry => JobRecord(j) = Contract!Waiting(retryData[j].attempt)
                    /\ j \in DeadJobs => JobRecord(j) = Contract!Dead
                    /\ j \in AckedJobs => JobRecord(j) = Contract!Done
                    /\ j \notin stored => JobRecord(j) = Contract!Absent
  BY DEF Records
<1>0. j \notin resent
  BY DEF IInv, ResendsAreStored, Once
<1>1. /\ ~(j \in StreamJobs /\ j \in retry)
      /\ ~(j \in StreamJobs /\ j \in DeadJobs \cup AckedJobs)
      /\ ~(j \in retry /\ j \in DeadJobs \cup AckedJobs)
      /\ ~(j \in DeadJobs /\ j \in AckedJobs)
      /\ j \in StreamJobs \cup retry \cup DeadJobs \cup AckedJobs => j \in stored
  BY <1>0 DEF IInv, NoJobDuplicated, OnlyStoredJobs
<1>2. ASSUME NEW m \in DOMAIN stream, stream[m].id = j
      PROVE  JobRecord(j) = EntryRecord(m)
  <2>1. EntryOf(j) \in DOMAIN stream /\ stream[EntryOf(j)].id = j
    BY <1>2 DEF EntryOf
  <2>2. EntryOf(j) = m
    BY <1>0, <1>2, <2>1 DEF IInv, NoJobDuplicated
  <2>3. j \in StreamJobs
    BY <1>2 DEF StreamJobs
  <2>4. QED
    BY <2>2, <2>3 DEF JobRecord
<1>3. j \in retry => JobRecord(j) = Contract!Waiting(retryData[j].attempt)
  BY <1>1 DEF JobRecord, Contract!Waiting
<1>4. j \in DeadJobs => JobRecord(j) = Contract!Dead
  BY <1>1 DEF JobRecord, Contract!Dead
<1>5. j \in AckedJobs => JobRecord(j) = Contract!Done
  BY <1>1 DEF JobRecord, Contract!Done
<1>6. j \notin stored => JobRecord(j) = Contract!Absent
  BY <1>1 DEF JobRecord, Contract!Absent
<1>7. QED
  BY <1>2, <1>3, <1>4, <1>5, <1>6

(* The same in the next state. *)
LEMMA NextRecordsOfPlaces == IInv' => Records'
  BY RecordsOfPlaces, PTL

(* What an entry's record says. *)
LEMMA EntryFacts ==
  ASSUME NEW m
  PROVE  /\ m \in DOMAIN pel =>
              EntryRecord(m) = Contract!Leased(stream[m].attempt, pel[m].owner,
                                               pel[m].count, pel[m].expired)
         /\ m \notin DOMAIN pel => EntryRecord(m) = Contract!Waiting(stream[m].attempt)
         /\ m \in DOMAIN pel' =>
              EntryRecord(m)' = Contract!Leased(stream'[m].attempt, pel'[m].owner,
                                                pel'[m].count, pel'[m].expired)
         /\ m \notin DOMAIN pel' => EntryRecord(m)' = Contract!Waiting(stream'[m].attempt)
  BY DEF EntryRecord, Contract!Leased, Contract!Waiting

(* A job none of whose places changes keeps its record. *)
LEMMA Unmoved ==
  ASSUME IInv, IInv', NEW j \in Once,
         \A m \in DOMAIN stream : stream[m].id = j =>
           /\ m \in DOMAIN stream' /\ stream'[m] = stream[m]
           /\ m \in DOMAIN pel <=> m \in DOMAIN pel'
           /\ m \in DOMAIN pel => pel'[m] = pel[m],
         j \in retry => j \in retry' /\ retryData'[j] = retryData[j],
         dead \subseteq dead', acked \subseteq acked',
         j \in stored' => j \in stored
  PROVE  JobRecord(j)' = JobRecord(j)
<1>1. Records /\ Records'
  BY RecordsOfPlaces, NextRecordsOfPlaces
<1>2. ASSUME NEW m \in DOMAIN stream, stream[m].id = j
      PROVE  JobRecord(j)' = JobRecord(j)
  <2>1. JobRecord(j) = EntryRecord(m) /\ JobRecord(j)' = EntryRecord(m)'
    BY <1>1, <1>2 DEF Records
  <2>2. /\ stream'[m] = stream[m] /\ (m \in DOMAIN pel <=> m \in DOMAIN pel')
        /\ m \in DOMAIN pel => pel'[m] = pel[m]
    BY <1>2
  <2>3. EntryRecord(m)' = EntryRecord(m)
    BY <2>2 DEF EntryRecord
  <2>4. QED
    BY <2>1, <2>3
<1>3. j \in retry => JobRecord(j)' = JobRecord(j)
  BY <1>1 DEF Records
<1>4. j \in DeadJobs => JobRecord(j)' = JobRecord(j)
  BY <1>1 DEF Records, DeadJobs
<1>5. j \in AckedJobs => JobRecord(j)' = JobRecord(j)
  BY <1>1 DEF Records, AckedJobs
<1>6. j \notin stored => JobRecord(j)' = JobRecord(j)
  BY <1>1 DEF Records
<1>7. j \in stored => j \in StreamJobs \cup retry \cup DeadJobs \cup AckedJobs
  BY DEF IInv, NoJobLost
<1>8. j \in StreamJobs => \E m \in DOMAIN stream : stream[m].id = j
  BY DEF StreamJobs
<1>9. QED
  BY <1>2, <1>3, <1>4, <1>5, <1>6, <1>7, <1>8

-----------------------------------------------------------------------------
(* Enqueueing *)

(* A transaction that stores fresh jobs is the contract's Enqueue of them. *)
LEMMA StoreJobsMaps ==
  ASSUME IInv, IInv',
         NEW n \in Nat, NEW now \in Orders(Jobs \ stored, n),
         NEW later \in SUBSET (Jobs \ stored),
         NEW named, StoreJobs(now, later, named)
  PROVE  Contract!QueueNext
<1> DEFINE fs == [i \in DOMAIN now |-> [id |-> now[i], attempt |-> 0]]
           js == (Range(now) \cup later) \cap Once
<1>1. /\ now \in Seq(Jobs \ stored)
      /\ DOMAIN now = 1 .. Len(now)
      /\ Range(now) \subseteq Jobs \ stored
      /\ \A x \in Range(now) : \E i \in 1 .. Len(now) : now[i] = x
  BY OrderFacts, SMT
<1>2. fs \in Seq(Fields) /\ Len(fs) = Len(now) /\ Len(now) \in Nat
  <2>1. Len(now) \in Nat /\ \A i \in 1 .. Len(now) : fs[i] \in Fields
    BY <1>1, StoreAssumption, SMT DEF Fields
  <2>2. fs \in [1 .. Len(now) -> Fields]
    BY <1>1, <2>1
  <2>3. QED
    BY <2>1, <2>2, SMT
<1>3. \A i \in 1 .. Len(now) : fs[i].id = now[i] /\ fs[i].attempt = 0
  BY <1>1
<1>4. /\ stream' = Added(fs) /\ stored' = stored \cup Range(now) \cup later
      /\ UNCHANGED <<pel, dead, acked>>
      /\ retry' = retry \cup later
      /\ \A j \in later : retryData'[j].attempt = 0
      /\ \A j \in DOMAIN retryData \ later : retryData'[j] = retryData[j]
  BY DEF StoreJobs, Schedule
<1> HIDE DEF fs
<1>5. /\ \A m \in DOMAIN stream : m \in DOMAIN stream' /\ stream'[m] = stream[m]
      /\ \A i \in 1 .. Len(now) : /\ lastID + i \in DOMAIN stream'
                                  /\ stream'[lastID + i] = fs[i]
  BY <1>2, <1>4, AddedFacts, ZenonT(60) DEF IInv
<1>6. Records /\ Records'
  BY RecordsOfPlaces, NextRecordsOfPlaces
<1>7. \A j \in js : j \in Once /\ JobRecord(j) = Contract!Absent
  BY <1>1, <1>6 DEF Records
<1>8. ASSUME NEW j \in js
      PROVE  JobRecord(j)' = Contract!Waiting(0)
  <2>1. CASE j \in later
    BY <1>4, <1>6, <1>7, <2>1 DEF Records
  <2>2. CASE j \in Range(now)
    <3>1. PICK i \in 1 .. Len(now) : now[i] = j
      BY <1>1, <2>2
    <3>2. PICK m : m = lastID + i
      OBVIOUS
    <3>3. m \in DOMAIN stream' /\ stream'[m].id = j /\ stream'[m].attempt = 0
      BY <1>3, <1>5, <3>1, <3>2
    <3>4. m \notin DOMAIN pel'
      BY <1>4, <3>2, SMT DEF IInv, TypeOK
    <3>5. JobRecord(j)' = EntryRecord(m)'
      BY <1>6, <1>7, <3>3 DEF Records
    <3>6. QED
      BY <3>3, <3>4, <3>5, EntryFacts
  <2>3. QED
    BY <2>1, <2>2
<1>9. ASSUME NEW j \in Once, j \notin js
      PROVE  JobRecord(j)' = JobRecord(j)
  <2>1. j \in retry => j \in retry' /\ retryData'[j] = retryData[j]
    BY <1>4, <1>9 DEF IInv, ScheduleMatchesData
  <2>2. j \in stored' => j \in stored
    BY <1>4, <1>9
  <2>3. QED
    BY <1>4, <1>5, <2>1, <2>2, Unmoved
<1>10. js \subseteq Contract!In("absent")
  BY <1>7, SMT DEF Contract!In, Contract!Absent
<1>11. Contract!Enqueue(js)
  BY <1>8, <1>9, <1>10 DEF Contract!Enqueue
<1>12. QED
  BY <1>10, <1>11 DEF Contract!QueueNext

-----------------------------------------------------------------------------
(* Delivering *)

(* Moving due jobs from the schedule to the stream changes no record; reading
   entries that were not delivered leases the jobs in them. *)
LEMMA ReadMaps ==
  ASSUME IInv, IInv', NEW w,
         NEW read \in SUBSET DOMAIN stream', read \cap DOMAIN pel = {},
         DOMAIN pel' = DOMAIN pel \cup read,
         \A m \in DOMAIN pel : pel'[m] = pel[m],
         \A m \in read : pel'[m] = [owner |-> w, count |-> 1, expired |-> FALSE],
         \A m \in DOMAIN stream : m \in DOMAIN stream' /\ stream'[m] = stream[m],
         \A m \in DOMAIN stream' \ DOMAIN stream :
           /\ m > lastID
           /\ stream'[m].id \in retry /\ stream'[m] = retryData[stream'[m].id],
         \A j \in retry' : j \in retry /\ retryData'[j] = retryData[j],
         UNCHANGED <<dead, acked, stored>>
  PROVE  LET js == {stream'[m].id : m \in read} \cap Once
         IN  js \in SUBSET Contract!In("waiting") /\ Contract!Claim(w, js)
<1> DEFINE js == {stream'[m].id : m \in read} \cap Once
<1>1. Records /\ Records'
  BY RecordsOfPlaces, NextRecordsOfPlaces
<1>3. ASSUME NEW m \in DOMAIN stream', NEW j \in Once, stream'[m].id = j
      PROVE  JobRecord(j)' = EntryRecord(m)'
  BY <1>1, <1>3 DEF Records
<1>4. ASSUME NEW m \in DOMAIN stream', NEW j \in Once, stream'[m].id = j
      PROVE  /\ m \in DOMAIN pel =>
                  JobRecord(j) = Contract!Leased(stream'[m].attempt, pel[m].owner,
                                                 pel[m].count, pel[m].expired)
             /\ m \notin DOMAIN pel => JobRecord(j) = Contract!Waiting(stream'[m].attempt)
  <2>1. CASE m \in DOMAIN stream
    <3>1. stream'[m] = stream[m]
      BY <2>1
    <3>2. JobRecord(j) = EntryRecord(m)
      BY <1>1, <1>4, <2>1, <3>1 DEF Records
    <3>3. QED
      BY <3>1, <3>2, EntryFacts
  <2>2. CASE m \notin DOMAIN stream
    <3>1. m \notin DOMAIN pel
      BY <2>2 DEF IInv, DeliveredIsPending
    <3>2. j \in retry /\ stream'[m] = retryData[j]
      BY <1>4, <2>2
    <3>3. JobRecord(j) = Contract!Waiting(retryData[j].attempt)
      BY <1>1, <3>2 DEF Records
    <3>4. QED
      BY <3>1, <3>2, <3>3
  <2>3. QED
    BY <2>1, <2>2
<1>5. ASSUME NEW m \in read, NEW j \in Once, stream'[m].id = j
      PROVE  /\ JobRecord(j) = Contract!Waiting(stream'[m].attempt)
             /\ JobRecord(j)' = Contract!Leased(stream'[m].attempt, w, 1, FALSE)
  <2>1. m \in DOMAIN stream' /\ m \notin DOMAIN pel /\ m \in DOMAIN pel'
    OBVIOUS
  <2>2. pel'[m].owner = w /\ pel'[m].count = 1 /\ pel'[m].expired = FALSE
    <3>1. pel'[m] = [owner |-> w, count |-> 1, expired |-> FALSE]
      OBVIOUS
    <3>2. QED
      BY <3>1, SMT
  <2>3. QED
    BY <1>3, <1>4, <1>5, <2>1, <2>2, EntryFacts
<1>6. ASSUME NEW m \in DOMAIN stream', NEW j \in Once, stream'[m].id = j, m \notin read
      PROVE  JobRecord(j)' = JobRecord(j)
  <2>1. m \in DOMAIN pel <=> m \in DOMAIN pel'
    BY <1>6
  <2>2. m \in DOMAIN pel => pel'[m] = pel[m]
    OBVIOUS
  <2>3. JobRecord(j)' = EntryRecord(m)' /\ stream'[m].id = j
    BY <1>3, <1>6
  <2>4. CASE m \in DOMAIN pel
    BY <1>4, <2>1, <2>2, <2>3, <2>4, EntryFacts
  <2>5. CASE m \notin DOMAIN pel
    BY <1>4, <2>1, <2>3, <2>5, EntryFacts
  <2>6. QED
    BY <2>4, <2>5
<1>7. ASSUME NEW j \in Once, j \notin js
      PROVE  JobRecord(j)' = JobRecord(j)
  <2>1. CASE j \in StreamJobs'
    <3>1. PICK m \in DOMAIN stream' : stream'[m].id = j
      BY <2>1 DEF StreamJobs
    <3>2. QED
      BY <1>6, <1>7, <3>1
  <2>2. CASE j \in retry'
    BY <1>1, <2>2 DEF Records
  <2>3. CASE j \in DeadJobs'
    BY <1>1, <2>3 DEF Records, DeadJobs
  <2>4. CASE j \in AckedJobs'
    BY <1>1, <2>4 DEF Records, AckedJobs
  <2>5. CASE j \notin stored'
    BY <1>1, <2>5 DEF Records
  <2>6. QED
    BY <2>1, <2>2, <2>3, <2>4, <2>5 DEF IInv, NoJobLost
<1>8. ASSUME NEW j \in js
      PROVE  /\ j \in Once /\ JobRecord(j).phase = "waiting"
             /\ JobRecord(j)' = Contract!Leased(JobRecord(j).attempt, w, 1, FALSE)
  <2>1. PICK m \in read : stream'[m].id = j
    OBVIOUS
  <2>2. j \in Once
    OBVIOUS
  <2>3. /\ JobRecord(j) = Contract!Waiting(stream'[m].attempt)
        /\ JobRecord(j)' = Contract!Leased(stream'[m].attempt, w, 1, FALSE)
    BY <1>5, <2>1, <2>2
  <2>4. JobRecord(j).phase = "waiting" /\ JobRecord(j).attempt = stream'[m].attempt
    BY <2>3, SMT DEF Contract!Waiting
  <2>5. QED
    BY <2>2, <2>3, <2>4, SMT
<1> HIDE DEF js
<1>9. js \in SUBSET Contract!In("waiting")
  BY <1>8 DEF Contract!In
<1>10. Contract!Claim(w, js)
  BY <1>7, <1>8, <1>9 DEF Contract!Claim
<1>11. QED
  BY <1>9, <1>10 DEF js

(* Store.promoteRetries changes no record. *)
LEMMA PromoteRetriesMaps ==
  ASSUME IInv, IInv', NEW order, NEW absent, PromoteRetries(order, absent)
  PROVE  UNCHANGED [j \in Once |-> JobRecord(j)]
<1> DEFINE js == {stream'[m].id : m \in {}} \cap Once
<1>1. /\ Promote(order, absent) /\ stream' = Added(PromotedFields(order))
      /\ UNCHANGED <<pel, dead, acked, stored>>
  BY DEF PromoteRetries, historyVars, producerVars
<1>2. /\ \A m \in DOMAIN stream : m \in DOMAIN stream' /\ stream'[m] = stream[m]
      /\ \A m \in DOMAIN stream' \ DOMAIN stream :
           /\ m > lastID
           /\ stream'[m].id \in retry /\ stream'[m] = retryData[stream'[m].id]
      /\ \A j \in retry' : j \in retry /\ retryData'[j] = retryData[j]
  <2>1. retry' = DOMAIN retryData'
    BY DEF IInv, ScheduleMatchesData
  <2>2. QED
    BY <1>1, <2>1, PromoteFacts
<1>3. Contract!Claim("nobody", js)
  BY <1>1, <1>2, ReadMaps
<1>4. js = {}
  OBVIOUS
<1>5. QED
  BY <1>3, <1>4 DEF Contract!Claim

(* Whatever it reads, XREADGROUP after a promotion is the contract's Claim. *)
LEMMA ReadGroupMaps ==
  ASSUME IInv, IInv', NEW w \in Workers, ReadGroup(w, stream'),
         \A m \in DOMAIN stream : m \in DOMAIN stream' /\ stream'[m] = stream[m],
         \A m \in DOMAIN stream' \ DOMAIN stream :
           /\ m > lastID
           /\ stream'[m].id \in retry /\ stream'[m] = retryData[stream'[m].id],
         \A j \in retry' : j \in retry /\ retryData'[j] = retryData[j],
         UNCHANGED <<dead, acked, stored>>
  PROVE  Contract!QueueNext
<1>1. \A m \in Undelivered(stream') : m \in DOMAIN stream' /\ m \notin DOMAIN pel
  BY SMT DEF Undelivered, IInv, DeliveredIsPending, TypeOK
<1>2. PICK read \in SUBSET DOMAIN stream' :
        /\ read \cap DOMAIN pel = {}
        /\ DOMAIN pel' = DOMAIN pel \cup read
        /\ \A m \in DOMAIN pel : pel'[m] = pel[m]
        /\ \A m \in read : pel'[m] = [owner |-> w, count |-> 1, expired |-> FALSE]
  <2>1. CASE UNCHANGED pel
    <3> WITNESS {} \in SUBSET DOMAIN stream'
    <3> QED
      BY <2>1
  <2>2. CASE \E last \in Undelivered(stream') : ReadUpTo(w, stream', last)
    <3>1. PICK last \in Undelivered(stream') : ReadUpTo(w, stream', last)
      BY <2>2
    <3> DEFINE read == {m \in Undelivered(stream') : m <= last}
    <3>2. pel' = [m \in DOMAIN pel \cup read |->
                    IF m \in read THEN [owner |-> w, count |-> 1, expired |-> FALSE]
                    ELSE pel[m]]
      BY <3>1 DEF ReadUpTo
    <3>3. read \in SUBSET DOMAIN stream' /\ read \cap DOMAIN pel = {}
      BY <1>1
    <3> HIDE DEF read
    <3>4. /\ DOMAIN pel' = DOMAIN pel \cup read
          /\ \A m \in DOMAIN pel : pel'[m] = pel[m]
          /\ \A m \in read : pel'[m] = [owner |-> w, count |-> 1, expired |-> FALSE]
      BY <3>2, <3>3
    <3>5. QED
      BY <3>3, <3>4
  <2>3. QED
    BY <2>1, <2>2 DEF ReadGroup
<1> DEFINE js == {stream'[m].id : m \in read} \cap Once
<1>3. js \in SUBSET Contract!In("waiting") /\ Contract!Claim(w, js)
  BY <1>2, ReadMaps
<1> HIDE DEF js
<1>4. QED
  BY <1>3 DEF Contract!QueueNext

(* Store.claimReady is the contract's Claim. *)
LEMMA ClaimReadyMaps ==
  ASSUME IInv, IInv', NEW w \in Workers, NEW order, NEW absent, ClaimReady(w, order, absent)
  PROVE  Contract!QueueNext
<1>1. /\ Promote(order, absent) /\ stream' = Added(PromotedFields(order))
      /\ ReadGroup(w, stream')
      /\ UNCHANGED <<dead, acked, stored>>
  BY DEF ClaimReady, producerVars
<1>2. /\ \A m \in DOMAIN stream : m \in DOMAIN stream' /\ stream'[m] = stream[m]
      /\ \A m \in DOMAIN stream' \ DOMAIN stream :
           /\ m > lastID
           /\ stream'[m].id \in retry /\ stream'[m] = retryData[stream'[m].id]
      /\ \A j \in retry' : j \in retry /\ retryData'[j] = retryData[j]
  <2>1. retry' = DOMAIN retryData'
    BY DEF IInv, ScheduleMatchesData
  <2>2. QED
    BY <1>1, <2>1, PromoteFacts
<1>3. QED
  BY <1>1, <1>2, ReadGroupMaps

(* Store.claimBlocking is the contract's Claim. *)
LEMMA ClaimBlockingMaps ==
  ASSUME IInv, IInv', NEW w \in Workers, ClaimBlocking(w)
  PROVE  Contract!QueueNext
<1>1. ReadGroup(w, stream') /\ UNCHANGED <<stream, retry, retryData, dead, acked, stored>>
  BY DEF ClaimBlocking, scheduleVars, producerVars
<1>2. /\ \A m \in DOMAIN stream : m \in DOMAIN stream' /\ stream'[m] = stream[m]
      /\ DOMAIN stream' \ DOMAIN stream = {}
      /\ \A j \in retry' : j \in retry /\ retryData'[j] = retryData[j]
  BY <1>1
<1>3. QED
  BY <1>1, <1>2, ReadGroupMaps

-----------------------------------------------------------------------------
(* Leases *)

(* A step that touches only the pending entries ms changes only the records of
   the jobs in them: those are leased, with the owner, count and idle flag the
   PEL shows before and after. *)
LEMMA PelMaps ==
  ASSUME IInv, IInv', NEW ms \in SUBSET DOMAIN pel,
         DOMAIN pel' = DOMAIN pel, \A m \in DOMAIN pel \ ms : pel'[m] = pel[m],
         UNCHANGED <<stream, retry, retryData, dead, acked, stored>>
  PROVE  /\ \A m \in ms, j \in Once : stream[m].id = j =>
              /\ JobRecord(j) = Contract!Leased(stream[m].attempt, pel[m].owner,
                                                pel[m].count, pel[m].expired)
              /\ JobRecord(j)' = Contract!Leased(stream[m].attempt, pel'[m].owner,
                                                 pel'[m].count, pel'[m].expired)
         /\ \A j \in Once : j \notin {stream[m].id : m \in ms} => JobRecord(j)' = JobRecord(j)
         /\ {stream[m].id : m \in ms} \cap Once \subseteq Contract!In("leased")
<1>1. Records /\ Records' /\ DOMAIN pel \subseteq DOMAIN stream
  BY RecordsOfPlaces, NextRecordsOfPlaces DEF IInv, DeliveredIsPending
<1>2. ASSUME NEW m \in ms, NEW j \in Once, stream[m].id = j
      PROVE  /\ JobRecord(j) = Contract!Leased(stream[m].attempt, pel[m].owner,
                                               pel[m].count, pel[m].expired)
             /\ JobRecord(j)' = Contract!Leased(stream[m].attempt, pel'[m].owner,
                                                pel'[m].count, pel'[m].expired)
  <2>1. m \in DOMAIN pel /\ m \in DOMAIN pel' /\ m \in DOMAIN stream
    BY <1>1
  <2>2. JobRecord(j) = EntryRecord(m) /\ JobRecord(j)' = EntryRecord(m)'
    BY <1>1, <1>2, <2>1 DEF Records
  <2>3. QED
    BY <2>1, <2>2, EntryFacts
<1>3. ASSUME NEW j \in Once, j \notin {stream[m].id : m \in ms}
      PROVE  JobRecord(j)' = JobRecord(j)
  <2>1. \A m \in DOMAIN stream : stream[m].id = j => m \notin ms
    BY <1>3
  <2>2. QED
    BY <2>1, Unmoved
<1>5. {stream[m].id : m \in ms} \cap Once \subseteq Contract!In("leased")
  <2>1. ASSUME NEW m \in ms, NEW j \in Once, stream[m].id = j
        PROVE  JobRecord(j).phase = "leased"
    <3>1. JobRecord(j) = Contract!Leased(stream[m].attempt, pel[m].owner,
                                         pel[m].count, pel[m].expired)
      BY <1>2, <2>1
    <3>2. QED
      BY <3>1, SMT DEF Contract!Leased
  <2>2. QED
    BY <2>1 DEF Contract!In
<1>6. QED
  BY <1>2, <1>3, <1>5

(* A delivery left idle for the visibility timeout is the contract's Expire. *)
LEMMA LeaseExpiresMaps ==
  ASSUME IInv, IInv', NEW m \in DOMAIN pel, LeaseExpires(m)
  PROVE  Contract!QueueNext \/ UNCHANGED [j \in Once |-> JobRecord(j)]
<1>1. /\ ~pel[m].expired
      /\ pel' = [pel EXCEPT ![m].expired = TRUE]
      /\ UNCHANGED <<stream, retry, retryData, dead, acked, stored>>
  BY DEF LeaseExpires, scheduleVars, historyVars, producerVars
<1>2. /\ DOMAIN pel' = DOMAIN pel
      /\ \A n \in DOMAIN pel \ {m} : pel'[n] = pel[n]
      /\ pel'[m] = [pel[m] EXCEPT !.expired = TRUE] /\ pel[m] \in Pending
  BY <1>1 DEF IInv, TypeOK
<1>3. pel'[m].owner = pel[m].owner /\ pel'[m].count = pel[m].count /\ pel'[m].expired = TRUE
  BY <1>2, SMT DEF Pending
<1>4. CASE stream[m].id \notin Once
  <2>1. \A j \in Once : JobRecord(j)' = JobRecord(j)
    <3> TAKE j \in Once
    <3>1. \A n \in DOMAIN stream : stream[n].id = j => n # m
      BY <1>4
    <3>2. QED
      BY <1>1, <1>2, <3>1, Unmoved
  <2>2. QED
    BY <2>1
<1>5. CASE stream[m].id \in Once
  <2>1. PICK j \in Once : stream[m].id = j
    BY <1>5
  <2>2. /\ JobRecord(j) = Contract!Leased(stream[m].attempt, pel[m].owner,
                                          pel[m].count, pel[m].expired)
        /\ JobRecord(j)' = Contract!Leased(stream[m].attempt, pel[m].owner, pel[m].count, TRUE)
        /\ \A i \in Once \ {j} : JobRecord(i)' = JobRecord(i)
    <3> DEFINE ms == {m}
    <3>1. ms \in SUBSET DOMAIN pel /\ {stream[n].id : n \in ms} = {j} /\ m \in ms
      BY <2>1
    <3>2. \A n \in DOMAIN pel \ ms : pel'[n] = pel[n]
      BY <1>2
    <3> HIDE DEF ms
    <3>3. /\ JobRecord(j) = Contract!Leased(stream[m].attempt, pel[m].owner,
                                            pel[m].count, pel[m].expired)
          /\ JobRecord(j)' = Contract!Leased(stream[m].attempt, pel'[m].owner,
                                             pel'[m].count, pel'[m].expired)
          /\ \A i \in Once : i \notin {stream[n].id : n \in ms} => JobRecord(i)' = JobRecord(i)
      BY <1>1, <1>2, <2>1, <3>1, <3>2, PelMaps
    <3>4. QED
      BY <1>3, <3>1, <3>3
  <2>3. /\ JobRecord(j).phase = "leased" /\ JobRecord(j).attempt = stream[m].attempt
        /\ JobRecord(j).owner = pel[m].owner /\ JobRecord(j).token = pel[m].count
        /\ JobRecord(j).expired = pel[m].expired
    BY <2>2, SMT DEF Contract!Leased
  <2>4. JobRecord(j)' =
          Contract!Leased(JobRecord(j).attempt, JobRecord(j).owner, JobRecord(j).token, TRUE)
    BY <2>2, <2>3, SMT
  <2>5. Contract!Expire(j)
    BY <1>1, <2>2, <2>3, <2>4 DEF Contract!Expire, Contract!In
  <2>6. QED
    BY <2>5 DEF Contract!QueueNext
<1>6. QED
  BY <1>4, <1>5

(* Store.RecoverExpired is the contract's RecoverExpired of the jobs in the
   entries it takes over. *)
LEMMA RecoverExpiredMaps ==
  ASSUME IInv, IInv', NEW w \in Workers, NEW ms \in SUBSET DOMAIN pel, RecoverExpired(w, ms)
  PROVE  Contract!QueueNext
<1> DEFINE js == {stream[m].id : m \in ms} \cap Once
<1>1. /\ \A m \in ms : pel[m].expired
      /\ pel' = [m \in DOMAIN pel |->
                   IF m \in ms
                   THEN [owner |-> w, count |-> pel[m].count + 1, expired |-> FALSE]
                   ELSE pel[m]]
      /\ UNCHANGED <<stream, retry, retryData, dead, acked, stored>>
  BY DEF RecoverExpired, TakeOver, scheduleVars, producerVars
<1>2. /\ DOMAIN pel' = DOMAIN pel
      /\ \A m \in DOMAIN pel \ ms : pel'[m] = pel[m]
      /\ \A m \in ms : /\ pel'[m].owner = w /\ pel'[m].count = pel[m].count + 1
                       /\ pel'[m].expired = FALSE
  BY <1>1
<1>3. /\ \A m \in ms, j \in Once : stream[m].id = j =>
           /\ JobRecord(j) = Contract!Leased(stream[m].attempt, pel[m].owner,
                                             pel[m].count, pel[m].expired)
           /\ JobRecord(j)' = Contract!Leased(stream[m].attempt, pel'[m].owner,
                                              pel'[m].count, pel'[m].expired)
      /\ \A j \in Once : j \notin js => JobRecord(j)' = JobRecord(j)
      /\ js \subseteq Contract!In("leased")
  BY <1>1, <1>2, PelMaps
<1>4. ASSUME NEW j \in js
      PROVE  /\ JobRecord(j).expired
             /\ JobRecord(j)' =
                  Contract!Leased(JobRecord(j).attempt, w, JobRecord(j).token + 1, FALSE)
  <2>1. PICK m \in ms : stream[m].id = j
    OBVIOUS
  <2>2. j \in Once
    OBVIOUS
  <2>3. /\ JobRecord(j) = Contract!Leased(stream[m].attempt, pel[m].owner,
                                          pel[m].count, pel[m].expired)
        /\ JobRecord(j)' = Contract!Leased(stream[m].attempt, w, pel[m].count + 1, FALSE)
    BY <1>2, <1>3, <2>1, <2>2
  <2>4. /\ JobRecord(j).attempt = stream[m].attempt /\ JobRecord(j).token = pel[m].count
        /\ JobRecord(j).expired = pel[m].expired
    BY <2>3, SMT DEF Contract!Leased
  <2>5. JobRecord(j).expired
    BY <1>1, <2>4
  <2>6. QED
    BY <2>3, <2>4, <2>5, SMT
<1> HIDE DEF js
<1>5. Contract!RecoverExpired(w, js)
  BY <1>3, <1>4 DEF Contract!RecoverExpired, Contract!In
<1>6. QED
  BY <1>3, <1>5 DEF Contract!QueueNext

(* Store.Extend and Store.ExtendBatch are the contract's Extend of the jobs in
   the entries they renew. *)
LEMMA RenewMaps ==
  ASSUME IInv, IInv', NEW ms \in SUBSET DOMAIN pel, Renew(ms),
         UNCHANGED <<stream, retry, retryData, dead, acked, stored>>
  PROVE  Contract!QueueNext
<1> DEFINE js == {stream[m].id : m \in ms} \cap Once
<1>1. /\ DOMAIN pel' = DOMAIN pel
      /\ \A m \in DOMAIN pel \ ms : pel'[m] = pel[m]
      /\ \A m \in ms : pel'[m] = [pel[m] EXCEPT !.expired = FALSE]
      /\ \A m \in ms : pel[m] \in Pending
  BY DEF Renew, IInv, TypeOK
<1>2. \A m \in ms : /\ pel'[m].owner = pel[m].owner /\ pel'[m].count = pel[m].count
                    /\ pel'[m].expired = FALSE
  <2> TAKE m \in ms
  <2>1. pel'[m] = [pel[m] EXCEPT !.expired = FALSE] /\ pel[m] \in Pending
    BY <1>1
  <2>2. QED
    BY <2>1, SMT DEF Pending
<1>3. /\ \A m \in ms, j \in Once : stream[m].id = j =>
           /\ JobRecord(j) = Contract!Leased(stream[m].attempt, pel[m].owner,
                                             pel[m].count, pel[m].expired)
           /\ JobRecord(j)' = Contract!Leased(stream[m].attempt, pel'[m].owner,
                                              pel'[m].count, pel'[m].expired)
      /\ \A j \in Once : j \notin js => JobRecord(j)' = JobRecord(j)
      /\ js \subseteq Contract!In("leased")
  BY <1>1, PelMaps
<1>4. ASSUME NEW j \in js
      PROVE  JobRecord(j)' = Contract!Leased(JobRecord(j).attempt, JobRecord(j).owner,
                                             JobRecord(j).token, FALSE)
  <2>1. PICK m \in ms : stream[m].id = j
    OBVIOUS
  <2>2. j \in Once
    OBVIOUS
  <2>3. /\ JobRecord(j) = Contract!Leased(stream[m].attempt, pel[m].owner,
                                          pel[m].count, pel[m].expired)
        /\ JobRecord(j)' = Contract!Leased(stream[m].attempt, pel[m].owner,
                                           pel[m].count, FALSE)
    BY <1>2, <1>3, <2>1, <2>2
  <2>4. /\ JobRecord(j).attempt = stream[m].attempt /\ JobRecord(j).owner = pel[m].owner
        /\ JobRecord(j).token = pel[m].count
    BY <2>3, SMT DEF Contract!Leased
  <2>5. QED
    BY <2>3, <2>4, SMT
<1> HIDE DEF js
<1>5. Contract!Extend(js)
  BY <1>3, <1>4 DEF Contract!Extend, Contract!In
<1>6. QED
  BY <1>3, <1>5 DEF Contract!QueueNext

-----------------------------------------------------------------------------
(* Settling *)

(* Settling owned deliveries touches the records of their jobs only, and those
   are leased, at the attempt the delivery shows. *)
LEMMA SettleMaps ==
  ASSUME IInv, IInv', NEW own \in SUBSET issued, \A d \in own : Owns(d),
         Settle({d.msg : d \in own}),
         \A j \in retry \cap Once : j \in retry' /\ retryData'[j] = retryData[j],
         dead \subseteq dead', acked \subseteq acked', UNCHANGED stored
  PROVE  /\ \A d \in own : d.id \in Once => /\ JobRecord(d.id).phase = "leased"
                                             /\ JobRecord(d.id).attempt = d.attempt
         /\ \A j \in Once : j \notin {d.id : d \in own} => JobRecord(j)' = JobRecord(j)
<1> DEFINE ms == {d.msg : d \in own}
<1>1. Records
  BY RecordsOfPlaces
<1>2. /\ DOMAIN stream' = DOMAIN stream \ ms
      /\ \A m \in DOMAIN stream' : stream'[m] = stream[m]
      /\ DOMAIN pel' = DOMAIN pel \ ms
      /\ \A m \in DOMAIN pel' : pel'[m] = pel[m]
  BY DEF Settle, Restrict
<1>3. \A d \in own : /\ d.msg \in DOMAIN pel /\ d.msg \in DOMAIN stream
                     /\ stream[d.msg] = FieldsOf(d)
  BY DEF Owns, IInv, DeliveredIsPending, DeliveriesMatchEntries
<1>4. \A d \in own : stream[d.msg].id = d.id /\ stream[d.msg].attempt = d.attempt
  <2>1. \A d : FieldsOf(d).id = d.id /\ FieldsOf(d).attempt = d.attempt
    BY DEF FieldsOf
  <2>2. QED
    BY <1>3, <2>1
<1>5. ASSUME NEW d \in own, d.id \in Once
      PROVE  JobRecord(d.id).phase = "leased" /\ JobRecord(d.id).attempt = d.attempt
  <2>1. PICK m : m = d.msg
    OBVIOUS
  <2>2. m \in DOMAIN pel /\ m \in DOMAIN stream /\ stream[m].attempt = d.attempt
    BY <1>3, <1>4, <2>1
  <2>3. JobRecord(d.id) = EntryRecord(m)
    BY <1>1, <1>3, <1>4, <1>5, <2>1 DEF Records
  <2>4. JobRecord(d.id) = Contract!Leased(d.attempt, pel[m].owner, pel[m].count,
                                          pel[m].expired)
    BY <2>2, <2>3, EntryFacts
  <2>5. QED
    BY <2>4, SMT DEF Contract!Leased
<1>6. ASSUME NEW j \in Once, j \notin {d.id : d \in own}
      PROVE  JobRecord(j)' = JobRecord(j)
  <2>1. \A m \in DOMAIN stream : stream[m].id = j => m \notin ms
    <3>1. ASSUME NEW d \in own
          PROVE  stream[d.msg].id # j
      <4>1. d.id # j
        BY <1>6
      <4>2. stream[d.msg].id = d.id
        BY <1>4
      <4>3. QED
        BY <4>1, <4>2
    <3>2. QED
      BY <3>1
  <2> HIDE DEF ms
  <2>2. QED
    BY <1>2, <2>1, Unmoved
<1>7. QED
  BY <1>5, <1>6

(* Store.Ack and Store.AckBatch are the contract's Ack of the jobs owned. *)
LEMMA AckMaps ==
  ASSUME IInv, IInv', NEW own \in SUBSET issued, \A d \in own : Owns(d),
         Settle({d.msg : d \in own}), acked' = acked \cup own,
         UNCHANGED <<retry, retryData, dead, stored>>
  PROVE  Contract!QueueNext
<1> DEFINE js == {d.id : d \in own} \cap Once
<1>1. /\ \A d \in own : d.id \in Once => /\ JobRecord(d.id).phase = "leased"
                                          /\ JobRecord(d.id).attempt = d.attempt
      /\ \A j \in Once : j \notin js => JobRecord(j)' = JobRecord(j)
  BY SettleMaps
<1>2. Records'
  BY NextRecordsOfPlaces
<1>3. \A j \in js : j \in Once /\ j \in AckedJobs'
  BY DEF AckedJobs
<1>4. \A j \in js : JobRecord(j)' = Contract!Done
  BY <1>2, <1>3 DEF Records
<1>5. js \subseteq Contract!In("leased")
  BY <1>1 DEF Contract!In
<1> HIDE DEF js
<1>6. Contract!Ack(js)
  BY <1>1, <1>4, <1>5 DEF Contract!Ack
<1>7. QED
  BY <1>5, <1>6 DEF Contract!QueueNext

(* Store.DeadLetter, and the quarantine of an entry that doesn't parse, are
   the contract's DeadLetter. *)
LEMMA DeadLetterMaps ==
  ASSUME IInv, IInv', NEW d \in issued, DeadLetter(d)
  PROVE  Contract!QueueNext \/ UNCHANGED [j \in Once |-> JobRecord(j)]
<1> DEFINE own == {d}
<1>1. own \in SUBSET issued /\ {e.msg : e \in own} = {d.msg} /\ {e.id : e \in own} = {d.id}
  OBVIOUS
<1>2. /\ \A e \in own : Owns(e)
      /\ Settle({e.msg : e \in own})
      /\ dead' = dead \cup own
      /\ UNCHANGED <<retry, retryData, acked, stored>>
  BY <1>1 DEF DeadLetter, scheduleVars, historyVars, producerVars
<1>3. d \in own
  OBVIOUS
<1> HIDE DEF own
<1>4. /\ d.id \in Once => JobRecord(d.id).phase = "leased"
      /\ \A j \in Once : j # d.id => JobRecord(j)' = JobRecord(j)
  BY <1>1, <1>2, <1>3, SettleMaps
<1>5. Records' /\ d.id \in DeadJobs'
  BY <1>2, <1>3, NextRecordsOfPlaces DEF DeadJobs
<1>6. CASE d.id \in Once
  <2>1. JobRecord(d.id)' = Contract!Dead
    BY <1>5, <1>6 DEF Records
  <2>2. Contract!DeadLetter(d.id)
    BY <1>4, <1>6, <2>1 DEF Contract!DeadLetter, Contract!In
  <2>3. QED
    BY <1>6, <2>2 DEF Contract!QueueNext
<1>7. CASE d.id \notin Once
  BY <1>4, <1>7
<1>8. QED
  BY <1>6, <1>7

(* Store.Retry is the contract's Retry: the attempt is counted and the job
   waits. *)
LEMMA RetryMaps ==
  ASSUME IInv, IInv', NEW d \in issued, Retry(d)
  PROVE  Contract!QueueNext \/ UNCHANGED [j \in Once |-> JobRecord(j)]
<1> DEFINE own == {d}
<1>1. own \in SUBSET issued /\ {e.msg : e \in own} = {d.msg} /\ {e.id : e \in own} = {d.id}
  OBVIOUS
<1>2. /\ \A e \in own : Owns(e)
      /\ Settle({e.msg : e \in own})
      /\ retry' = retry \cup {d.id}
      /\ retryData'[d.id].attempt = d.attempt + 1
      /\ \A j \in DOMAIN retryData \ {d.id} : retryData'[j] = retryData[j]
      /\ UNCHANGED <<dead, acked, stored>>
      /\ ~Exhausted(d)
  BY <1>1 DEF Retry, Schedule, historyVars, producerVars
<1>3. d \in own
  OBVIOUS
<1>4. \A j \in retry \cap Once : j \in retry' /\ retryData'[j] = retryData[j]
  <2>1. d.msg \in DOMAIN stream /\ stream[d.msg].id = d.id
    <3>1. d.msg \in DOMAIN stream /\ stream[d.msg] = FieldsOf(d)
      BY <1>2, <1>3 DEF Owns, IInv, DeliveredIsPending, DeliveriesMatchEntries
    <3>2. QED
      BY <3>1, SMT DEF FieldsOf
  <2>2. d.id \notin retry \cap Once
    <3>1. d.id \in StreamJobs
      BY <2>1 DEF StreamJobs
    <3>2. StreamJobs \cap retry \subseteq resent /\ resent \cap Once = {}
      BY DEF IInv, NoJobDuplicated, ResendsAreStored, Once
    <3>3. QED
      BY <3>1, <3>2
  <2>3. QED
    BY <1>2, <2>2 DEF IInv, ScheduleMatchesData
<1> HIDE DEF own
<1>5. /\ d.id \in Once => /\ JobRecord(d.id).phase = "leased"
                          /\ JobRecord(d.id).attempt = d.attempt
      /\ \A j \in Once : j # d.id => JobRecord(j)' = JobRecord(j)
  BY <1>1, <1>2, <1>3, <1>4, SettleMaps
<1>6. Records' /\ d.id \in retry'
  BY <1>2, NextRecordsOfPlaces
<1>7. CASE d.id \in Once
  <2>1. JobRecord(d.id)' = Contract!Waiting(d.attempt + 1)
    BY <1>2, <1>6, <1>7 DEF Records
  <2>2. ~Contract!Exhausted(JobRecord(d.id).attempt)
    BY <1>2, <1>5, <1>7 DEF Exhausted, Contract!Exhausted
  <2>3. Contract!Retry(d.id)
    BY <1>5, <1>7, <2>1, <2>2 DEF Contract!Retry, Contract!In
  <2>4. QED
    BY <1>7, <2>3 DEF Contract!QueueNext
<1>8. CASE d.id \notin Once
  BY <1>5, <1>8
<1>9. QED
  BY <1>7, <1>8

-----------------------------------------------------------------------------
(* The refinement *)

(* An enqueue that is executed again touches the job it stores only, which is
   not one of the contract's. *)
LEMMA ResendMaps ==
  ASSUME IInv, IInv', NEW r \in unanswered, Resend(r)
  PROVE  UNCHANGED [j \in Once |-> JobRecord(j)]
<1>1. r.id \notin Once
  BY DEF IInv, ResendsAreStored, Once
<1>2. UNCHANGED <<pel, dead, acked, stored>>
  BY DEF Resend
<1>3. \A m \in DOMAIN stream : m \in DOMAIN stream' /\ stream'[m] = stream[m]
  <2>1. CASE UNCHANGED stream
    BY <2>1
  <2>2. CASE stream' = Added(<<[id |-> r.id, attempt |-> 0]>>)
    BY <2>2, SMT DEF Added, IInv, TypeOK
  <2>3. QED
    BY <2>1, <2>2 DEF Resend
<1>4. \A j \in retry \cap Once : j \in retry' /\ retryData'[j] = retryData[j]
  <2>1. CASE UNCHANGED scheduleVars
    BY <2>1 DEF scheduleVars
  <2>2. CASE Schedule({r.id}, 0)
    BY <1>1, <2>2 DEF Schedule, IInv, ScheduleMatchesData
  <2>3. QED
    BY <2>1, <2>2 DEF Resend
<1>5. \A j \in Once : JobRecord(j)' = JobRecord(j)
  BY <1>2, <1>3, <1>4, Unmoved
<1>6. QED
  BY <1>5

(* Every step of a producer is a step of the contract or changes no record. *)
LEMMA ProducingMaps ==
  ASSUME IInv, IInv', Producing
  PROVE  Contract!QueueNext \/ UNCHANGED [j \in Once |-> JobRecord(j)]
<1>1. ASSUME NEW j \in Jobs \ stored, NEW named,
             StoreJobs(<<j>>, {}, named) \/ StoreJobs(<<>>, {j}, named)
      PROVE  Contract!QueueNext
  <2> DEFINE one == <<j>>
             none == <<>>
  <2>1. /\ none \in Orders(Jobs \ stored, 1) /\ one \in Orders(Jobs \ stored, 1)
        /\ {j} \in SUBSET (Jobs \ stored) /\ {} \in SUBSET (Jobs \ stored)
    BY ShortOrders
  <2>2. (StoreJobs(one, {}, named) \/ StoreJobs(none, {j}, named)) /\ 1 \in Nat
    BY <1>1, SMT
  <2> HIDE DEF one, none
  <2>3. QED
    BY <2>1, <2>2, StoreJobsMaps
<1>2. ASSUME NEW j \in Fresh, Enqueue(j)
      PROVE  Contract!QueueNext
  BY <1>1, <1>2 DEF Enqueue, Fresh
<1>3. ASSUME NEW j \in Fresh, NEW k \in Keys, EnqueueOnce(j, k)
      PROVE  Contract!QueueNext
  BY <1>1, <1>3 DEF EnqueueOnce, Fresh
<1>4. ASSUME NEW now \in Orders(Fresh, BatchLimit), NEW later \in SUBSET Fresh,
             NEW named, EnqueueBatch(now, later, named)
      PROVE  Contract!QueueNext
  <2>1. BatchLimit \in Nat /\ Fresh \in SUBSET (Jobs \ stored)
    BY StoreAssumption DEF Fresh
  <2>2. now \in Orders(Jobs \ stored, BatchLimit) /\ later \in SUBSET (Jobs \ stored)
    BY <2>1, OrdersMonotone
  <2>3. StoreJobs(now, later, named)
    BY <1>4 DEF EnqueueBatch
  <2>4. QED
    BY <2>1, <2>2, <2>3, StoreJobsMaps
<1>5. ASSUME NEW j \in Malformed, AddMalformed(j)
      PROVE  Contract!QueueNext
  BY <1>1, <1>5, StoreAssumption DEF AddMalformed
<1>6. ASSUME NEW k \in Keys, DedupeExpires(k)
      PROVE  UNCHANGED [j \in Once |-> JobRecord(j)]
  <2>1. UNCHANGED <<stream, pel, retry, retryData, dead, stored, acked>>
    BY <1>6 DEF DedupeExpires, streamVars, scheduleVars, historyVars, producerVars
  <2>2. \A j \in Once : JobRecord(j)' = JobRecord(j)
    BY <2>1, Unmoved
  <2>3. QED
    BY <2>2
<1>7. ASSUME NEW r \in unanswered, Resend(r)
      PROVE  UNCHANGED [j \in Once |-> JobRecord(j)]
  BY <1>7, ResendMaps
<1>8. QED
  BY <1>2, <1>3, <1>4, <1>5, <1>6, <1>7 DEF Producing

(* Every step that delivers jobs is a step of the contract or changes no
   record. *)
LEMMA DeliveringMaps ==
  ASSUME IInv, IInv', Delivering
  PROVE  Contract!QueueNext \/ UNCHANGED [j \in Once |-> JobRecord(j)]
  BY PromoteRetriesMaps, ClaimReadyMaps, ClaimBlockingMaps, LeaseExpiresMaps,
     RecoverExpiredMaps DEF Delivering

(* Every call made with a delivery is a step of the contract or changes no
   record. *)
LEMMA SettlingMaps ==
  ASSUME IInv, IInv', Settling
  PROVE  Contract!QueueNext \/ UNCHANGED [j \in Once |-> JobRecord(j)]
<1>1. ASSUME NEW d \in issued, Ack(d)
      PROVE  Contract!QueueNext
  <2> DEFINE own == {d}
  <2>1. own \in SUBSET issued /\ {e.msg : e \in own} = {d.msg}
    OBVIOUS
  <2>2. /\ \A e \in own : Owns(e)
        /\ Settle({e.msg : e \in own})
        /\ acked' = acked \cup own
        /\ UNCHANGED <<retry, retryData, dead, stored>>
    BY <1>1, <2>1 DEF Ack, scheduleVars, producerVars
  <2> HIDE DEF own
  <2>3. QED
    BY <2>1, <2>2, AckMaps
<1>2. ASSUME NEW d \in issued, Extend(d)
      PROVE  Contract!QueueNext
  <2>1. {d.msg} \in SUBSET DOMAIN pel /\ Renew({d.msg})
    BY <1>2 DEF Extend, Owns
  <2>2. UNCHANGED <<stream, retry, retryData, dead, acked, stored>>
    BY <1>2 DEF Extend, scheduleVars, historyVars, producerVars
  <2>3. QED
    BY <2>1, <2>2, RenewMaps
<1>3. ASSUME NEW ds \in SUBSET issued, AckBatch(ds)
      PROVE  Contract!QueueNext
  <2>1. OwnedOf(ds) \in SUBSET issued /\ \A e \in OwnedOf(ds) : Owns(e)
    BY DEF OwnedOf
  <2>2. /\ Settle({e.msg : e \in OwnedOf(ds)})
        /\ acked' = acked \cup OwnedOf(ds)
        /\ UNCHANGED <<retry, retryData, dead, stored>>
    BY <1>3 DEF AckBatch, scheduleVars, producerVars
  <2>3. QED
    BY <2>1, <2>2, AckMaps
<1>4. ASSUME NEW ds \in SUBSET issued, ExtendBatch(ds)
      PROVE  Contract!QueueNext
  <2> DEFINE ms == {d.msg : d \in OwnedOf(ds)}
  <2>1. ms \in SUBSET DOMAIN pel
    BY DEF OwnedOf, Owns
  <2>2. Renew(ms) /\ UNCHANGED <<stream, retry, retryData, dead, acked, stored>>
    BY <1>4 DEF ExtendBatch, scheduleVars, historyVars, producerVars
  <2> HIDE DEF ms
  <2>3. QED
    BY <2>1, <2>2, RenewMaps
<1>5. \A ds \in {{d, e} : d, e \in issued} : ds \in SUBSET issued
  BY SMT
<1>6. QED
  BY <1>1, <1>2, <1>3, <1>4, <1>5, RetryMaps, DeadLetterMaps, SMT DEF Settling

(* Deleting consumers that hold nothing changes no record. *)
LEMMA LeavingMaps ==
  ASSUME IInv, IInv', Leaving
  PROVE  UNCHANGED [j \in Once |-> JobRecord(j)]
<1>1. ASSUME NEW cs, DelConsumers(cs), \A w \in cs : ~HoldsPending(w),
             UNCHANGED <<stream, retry, retryData, dead, stored, acked>>
      PROVE  UNCHANGED [j \in Once |-> JobRecord(j)]
  <2>1. DOMAIN pel' = DOMAIN pel /\ \A m \in DOMAIN pel : pel'[m] = pel[m]
    BY <1>1 DEF DelConsumers, Restrict, HoldsPending
  <2>2. \A j \in Once : JobRecord(j)' = JobRecord(j)
    BY <1>1, <2>1, Unmoved
  <2>3. QED
    BY <2>2
<1>2. ASSUME NEW w \in consumers, Deregister(w)
      PROVE  UNCHANGED [j \in Once |-> JobRecord(j)]
  BY <1>1, <1>2 DEF Deregister, scheduleVars, historyVars, producerVars
<1>3. ASSUME NEW idle \in SUBSET consumers, PruneConsumers(idle)
      PROVE  UNCHANGED [j \in Once |-> JobRecord(j)]
  <2> DEFINE cs == {w \in idle : ~HoldsPending(w)}
  <2>1. /\ DelConsumers(cs) /\ \A w \in cs : ~HoldsPending(w)
        /\ UNCHANGED <<stream, retry, retryData, dead, stored, acked>>
    BY <1>3 DEF PruneConsumers, scheduleVars, historyVars, producerVars
  <2> HIDE DEF cs
  <2>2. QED
    BY <1>1, <2>1
<1>4. QED
  BY <1>2, <1>3 DEF Leaving

(* Initially no job is stored, which is how the contract begins. *)
LEMMA InitMaps == Init => Contract!QueueInit
<1> SUFFICES ASSUME Init PROVE Contract!QueueInit
  OBVIOUS
<1>1. IInv /\ stored = {}
  BY InitInv DEF Init
<1>2. \A j \in Once : JobRecord(j) = Contract!Absent
  BY <1>1, RecordsOfPlaces DEF Records
<1>3. QED
  BY <1>2 DEF Contract!QueueInit

(* Every step of the store is a step of the contract or changes no record. *)
LEMMA NextMaps ==
  IInv /\ IInv' /\ [Next]_vars =>
    [Contract!QueueNext]_[j \in Once |-> JobRecord(j)]
<1> SUFFICES ASSUME IInv, IInv', [Next]_vars
             PROVE  Contract!QueueNext \/ UNCHANGED [j \in Once |-> JobRecord(j)]
  OBVIOUS
<1>1. CASE UNCHANGED vars
  <2>1. UNCHANGED <<stream, pel, retry, retryData, dead, stored, acked>>
    BY <1>1 DEF vars, streamVars, scheduleVars, historyVars, producerVars
  <2>2. \A j \in Once : JobRecord(j)' = JobRecord(j)
    BY <2>1, Unmoved
  <2>3. QED
    BY <2>2
<1>2. CASE Next
  BY <1>2, ProducingMaps, DeliveringMaps, SettlingMaps, LeavingMaps DEF Next
<1>3. QED
  BY <1>1, <1>2

(* The Redis store implements the Backend contract, for any number of jobs,
   workers, keys, attempts and batches: every script, transaction and command,
   with whatever stale or repeated deliveries its callers use, is a step of
   the contract or invisible to it. *)
THEOREM StoreImplementsBackend == Spec => ImplementsBackend
<1>1. Spec => []IInv
  BY InductiveInvariant
<1>2. QED
  BY <1>1, InitMaps, NextMaps, PTL DEF Spec, ImplementsBackend, Contract!QueueSpec
=============================================================================
