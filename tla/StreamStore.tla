----------------------------- MODULE StreamStore -----------------------------
(***************************************************************************)
(* One queue as redisstream.Store keeps it in Redis: the stream with its   *)
(* consumer group and pending entries list (PEL), the retry/delay schedule *)
(* (a sorted set and a hash), the dead-letter stream and the idempotency   *)
(* keys.  Every script of scripts.go, every MULTI/EXEC and every single    *)
(* command of store.go is one action, since Redis runs each atomically.    *)
(*                                                                         *)
(* The callers are the most general ones: whoever was ever handed a        *)
(* delivery may use it in any call, any number of times, as late as it     *)
(* likes.  That covers workers that crash (the call never comes), pause    *)
(* (it comes after a takeover), repeat a call whose reply was lost, or     *)
(* reuse the name of an earlier worker.  A call made with a lease that was *)
(* lost changes nothing in Redis, so it is a stuttering step.              *)
(*                                                                         *)
(* Abstracted data.  A stream entry ID is a number.  A job's fields are    *)
(* its ID and attempt.  Idle times are one flag per delivery, "idle for at *)
(* least the visibility timeout", which time may raise at any moment and   *)
(* XCLAIM/XAUTOCLAIM reset.  Run-at scores are dropped: since callers pass *)
(* their own clocks, any scheduled job may be the next one due.            *)
(***************************************************************************)
EXTENDS Naturals, Sequences, FiniteSets, Functions

CONSTANTS
  Jobs,         \* job IDs
  Workers,      \* worker IDs, the group's consumer names
  Keys,         \* idempotency keys
  Malformed,    \* jobs whose entry parseJob rejects (written by other programs)
  Resendable,   \* jobs whose enqueue may lose its reply and be sent again
  MaxAttempts,  \* Job.MaxAttempts
  PromoteLimit, \* most schedule entries one promote call moves (100 in claimScript)
  ClaimLimit,   \* most entries one claim or recover call takes
  BatchLimit,   \* most jobs one EnqueueBatch, AckBatch or ExtendBatch carries
  TokenSpan,    \* 2^32, the range FencingToken leaves to the delivery count
  MaxToken,     \* bound of the model: an entry is delivered at most this often
  MaxID,        \* bound of the model: the highest entry ID
  MaxIssued     \* bound of the model: deliveries handed out altogether

ASSUME StoreAssumption ==
  /\ Malformed \subseteq Jobs
  /\ Resendable \subseteq Jobs
  /\ MaxAttempts \in Nat \ {0}
  /\ PromoteLimit \in Nat
  /\ ClaimLimit \in Nat \ {0}
  /\ BatchLimit \in Nat \ {0}
  /\ TokenSpan \in Nat
  /\ MaxToken \in Nat \ {0}
  /\ MaxToken < TokenSpan
  /\ MaxID \in Nat
  /\ MaxIssued \in Nat

VARIABLES
  stream,        \* entry ID -> job fields, for the entries not yet deleted
  lastID,        \* the highest entry ID XADD has generated
  lastDelivered, \* the group's last delivered entry ID
  pel,           \* entry ID -> consumer, delivery count, idle flag
  consumers,     \* the group's consumers
  retry,         \* members of the schedule zset: job IDs
  retryData,     \* job ID -> job fields, the schedule data hash
  dedupe,        \* idempotency key -> job ID, for the keys that are set
  dead,          \* the dead-letter stream: deliveries that were dead-lettered
  unanswered,    \* enqueues without a key that go-redis may send again
  stored,        \* history: the jobs that were ever enqueued
  resent,        \* history: the jobs whose enqueue was executed again
  issued,        \* history: every delivery a Claim or RecoverExpired handed out
  acked          \* history: deliveries whose ack landed

streamVars == <<stream, lastID, lastDelivered, pel, consumers>>
scheduleVars == <<retry, retryData>>
producerVars == <<unanswered, stored, resent>>
historyVars == <<producerVars, issued, acked>>
vars == <<streamVars, scheduleVars, dedupe, dead, historyVars>>

Fields == [id : Jobs, attempt : 0 .. MaxAttempts - 1]

Pending == [owner : Workers, count : 1 .. MaxToken, expired : BOOLEAN]

(* A job as a worker receives it: the stored fields and the Lease. *)
Delivery == [id : Jobs, attempt : 0 .. MaxAttempts - 1,
             msg : Nat, owner : Workers, token : 1 .. MaxToken]

Deliver(m, f, w, t) ==
  [id |-> f.id, attempt |-> f.attempt, msg |-> m, owner |-> w, token |-> t]

FieldsOf(d) == [id |-> d.id, attempt |-> d.attempt]

(* Fault for FencingToken: the attempt is left out. *)
FencingTokenOfCount(d) == d.token

(* Job.FencingToken: the attempt above the delivery count, which stays
   below 2^32, so the code's OR is a sum. *)
FencingToken(d) == d.attempt * TokenSpan + d.token

Init ==
  /\ stream = <<>> /\ lastID = 0 /\ lastDelivered = 0
  /\ pel = <<>> /\ consumers = {}
  /\ retry = {} /\ retryData = <<>>
  /\ dedupe = <<>> /\ dead = {}
  /\ unanswered = {} /\ stored = {} /\ resent = {}
  /\ issued = {} /\ acked = {}

-----------------------------------------------------------------------------
(* The Lua helpers *)

(* Fault for Owns: the delivery count is not compared. *)
OwnsByName(d) ==
  /\ d.msg \in DOMAIN pel
  /\ pel[d.msg].owner = d.owner

(* owns: XPENDING of this one entry shows the caller's name and token. *)
Owns(d) ==
  /\ d.msg \in DOMAIN pel
  /\ pel[d.msg].owner = d.owner
  /\ pel[d.msg].count = d.token

(* settle: XACK and XDEL of the entries ms. *)
Settle(ms) ==
  /\ pel' = Restrict(pel, DOMAIN pel \ ms)
  /\ stream' = Restrict(stream, DOMAIN stream \ ms)

(* renew: XCLAIM ... JUSTID resets the idle time and keeps the count. *)
Renew(ms) ==
  pel' = [m \in DOMAIN pel |->
            IF m \in ms THEN [pel[m] EXCEPT !.expired = FALSE] ELSE pel[m]]

(* The stream once the entries fs are added, in this order. *)
Added(fs) ==
  [m \in DOMAIN stream \cup (lastID + 1 .. lastID + Len(fs)) |->
     IF m > lastID THEN fs[m - lastID] ELSE stream[m]]

(* Fault for Schedule: ZADD without HSET. *)
ScheduleWithoutData(js, attempt) ==
  /\ retry' = retry \cup js
  /\ UNCHANGED retryData

(* HSET and ZADD of the jobs js, each under its ID, with its attempt. *)
Schedule(js, attempt) ==
  /\ retry' = retry \cup js
  /\ retryData' = [j \in DOMAIN retryData \cup js |->
                     IF j \in js THEN [id |-> j, attempt |-> attempt]
                     ELSE retryData[j]]

(* The sequences of at most n members of S, without repetition. *)
Orders(S, n) == {f \in UNION {[1 .. k -> S] : k \in 0 .. n} : IsInjective(f)}

(* promote: the due jobs leave the zset and the hash; those whose fields are
   in the hash are added to the stream, those without are dropped. *)
PromotedFields(order) == [i \in DOMAIN order |-> retryData[order[i]]]

Promote(order, absent) ==
  /\ order \in Orders(retry \cap DOMAIN retryData, PromoteLimit)
  /\ absent \subseteq retry \ DOMAIN retryData
  /\ retry' = (retry \ Range(order)) \ absent
  /\ retryData' = Restrict(retryData, DOMAIN retryData \ Range(order))
  /\ lastID + Len(order) <= MaxID
  /\ lastID' = lastID + Len(order)

(* XREADGROUP ... '>' on the stream s: the oldest entries never delivered to
   the group go to w with delivery count 1.  It creates the consumer. *)
Undelivered(s) == {m \in DOMAIN s : m > lastDelivered}

ReadUpTo(w, s, last) ==
  LET read == {m \in Undelivered(s) : m <= last}
  IN  /\ Cardinality(read) <= ClaimLimit
      /\ Cardinality(issued) + Cardinality(read) <= MaxIssued
      /\ lastDelivered' = last
      /\ pel' = [m \in DOMAIN pel \cup read |->
                   IF m \in read
                   THEN [owner |-> w, count |-> 1, expired |-> FALSE]
                   ELSE pel[m]]
      /\ issued' = issued \cup {Deliver(m, s[m], w, 1) : m \in read}

ReadGroup(w, s) ==
  /\ consumers' = consumers \cup {w}
  /\ \/ Undelivered(s) = {} /\ UNCHANGED <<pel, lastDelivered, issued>>
     \/ \E last \in Undelivered(s) : ReadUpTo(w, s, last)

(* XGROUP DELCONSUMER drops a consumer's pending entries along with it. *)
DelConsumers(cs) ==
  /\ consumers' = consumers \ cs
  /\ pel' = Restrict(pel, {m \in DOMAIN pel : pel[m].owner \notin cs})

HoldsPending(w) == \E m \in DOMAIN pel : pel[m].owner = w

-----------------------------------------------------------------------------
(* Enqueueing.  NewJobID is random, so a new job never gets an ID that was
   stored; only an enqueue that is sent again stores its ID again.  A request
   whose idempotency key is set stores nothing. *)

Fresh == Jobs \ (stored \cup Malformed)

Enqueued(js, delayed) == {[id |-> j, delayed |-> delayed] : j \in js \cap Resendable}

(* One transaction adds the jobs now to the stream, in this order, puts the
   jobs later on the schedule, and sets the idempotency keys in named. *)
StoreJobs(now, later, named) ==
  /\ DOMAIN named \cap DOMAIN dedupe = {}
  /\ lastID + Len(now) <= MaxID
  /\ stream' = Added([i \in DOMAIN now |-> [id |-> now[i], attempt |-> 0]])
  /\ lastID' = lastID + Len(now)
  /\ Schedule(later, 0)
  /\ dedupe' = [k \in DOMAIN dedupe \cup DOMAIN named |->
                  IF k \in DOMAIN named THEN named[k] ELSE dedupe[k]]
  /\ stored' = stored \cup Range(now) \cup later
  /\ unanswered' = unanswered \cup Enqueued(Range(now) \ Range(named), FALSE)
                              \cup Enqueued(later \ Range(named), TRUE)
  /\ UNCHANGED <<resent, lastDelivered, pel, consumers, dead, issued, acked>>

(* Store.Enqueue without a key: XADD, or schedule if the job is delayed. *)
Enqueue(j) ==
  \/ StoreJobs(<<j>>, {}, <<>>)
  \/ StoreJobs(<<>>, {j}, <<>>)

(* Fault for EnqueueOnce: a producer that stops between SET and XADD. *)
EnqueueOnceHalfDone(j, k) ==
  /\ k \notin DOMAIN dedupe
  /\ dedupe' = [x \in DOMAIN dedupe \cup {k} |-> IF x = k THEN j ELSE dedupe[x]]
  /\ UNCHANGED <<streamVars, scheduleVars, dead, historyVars>>

(* Store.enqueueOnce: enqueueOnceScript finds the key unset. *)
EnqueueOnce(j, k) ==
  \/ StoreJobs(<<j>>, {}, [x \in {k} |-> j])
  \/ StoreJobs(<<>>, {j}, [x \in {k} |-> j])

(* Store.EnqueueBatch: one MULTI/EXEC for the whole batch.  Jobs whose key is
   set, or used earlier in the batch, are not among those stored. *)
EnqueueBatch(now, later, named) ==
  /\ now \in Orders(Fresh, BatchLimit)
  /\ Len(now) + Cardinality(later) <= BatchLimit
  /\ Range(now) \cap later = {}
  /\ Range(named) \subseteq Range(now) \cup later
  /\ IsInjective(named)
  /\ StoreJobs(now, later, named)

(* go-redis sends a request again when a read times out or the connection
   drops, though Redis may have executed it: the XADD, or the HSET and ZADD, of
   a job without a key happen again.  With a key the script finds it set.  The
   jobs of a batch are stored again one by one, in any subset, and each once,
   which is a bound of the model (go-redis sends a request up to four times). *)
Resend(r) ==
  /\ unanswered' = unanswered \ {r}
  /\ resent' = resent \cup {r.id}
  /\ \/ /\ ~r.delayed
        /\ stream' = Added(<<[id |-> r.id, attempt |-> 0]>>)
        /\ lastID < MaxID
        /\ lastID' = lastID + 1
        /\ UNCHANGED scheduleVars
     \/ /\ r.delayed
        /\ Schedule({r.id}, 0)
        /\ UNCHANGED <<stream, lastID>>
  /\ UNCHANGED <<lastDelivered, pel, consumers, dedupe, dead, stored, issued, acked>>

(* Another program's XADD of an entry that isn't a job. *)
AddMalformed(j) ==
  /\ j \in Malformed \ stored
  /\ StoreJobs(<<j>>, {}, <<>>)

(* The dedupe window of key k ends (SET ... PX). *)
DedupeExpires(k) ==
  /\ k \in DOMAIN dedupe
  /\ dedupe' = Restrict(dedupe, DOMAIN dedupe \ {k})
  /\ UNCHANGED <<streamVars, scheduleVars, dead, historyVars>>

-----------------------------------------------------------------------------
(* Delivering *)

(* Store.promoteRetries *)
PromoteRetries(order, absent) ==
  /\ Promote(order, absent)
  /\ stream' = Added(PromotedFields(order))
  /\ UNCHANGED <<lastDelivered, pel, consumers, dedupe, dead, historyVars>>

(* Store.claimReady: claimScript promotes what is due, then reads. *)
ClaimReady(w, order, absent) ==
  /\ Promote(order, absent)
  /\ stream' = Added(PromotedFields(order))
  /\ ReadGroup(w, Added(PromotedFields(order)))
  /\ UNCHANGED <<dedupe, dead, producerVars, acked>>

(* Store.claimBlocking: the blocked XREADGROUP is served.  If the client has
   given up on it, nobody uses the deliveries. *)
ClaimBlocking(w) ==
  /\ ReadGroup(w, stream)
  /\ UNCHANGED <<stream, lastID, scheduleVars, dedupe, dead, producerVars, acked>>

(* A delivery has been idle for the visibility timeout. *)
LeaseExpires(m) ==
  /\ m \in DOMAIN pel
  /\ ~pel[m].expired
  /\ pel' = [pel EXCEPT ![m].expired = TRUE]
  /\ UNCHANGED <<stream, lastID, lastDelivered, consumers, scheduleVars,
                 dedupe, dead, historyVars>>

(* Fault for TakeOver: XAUTOCLAIM ... JUSTID, which keeps the count. *)
TakeOverJustID(w, ms) ==
  /\ \A m \in ms : pel[m].expired
  /\ Cardinality(ms) <= ClaimLimit
  /\ Cardinality(issued) + Cardinality(ms) <= MaxIssued
  /\ pel' = [m \in DOMAIN pel |->
               IF m \in ms THEN [pel[m] EXCEPT !.owner = w, !.expired = FALSE] ELSE pel[m]]
  /\ issued' = issued \cup {Deliver(m, stream[m], w, pel[m].count) : m \in ms}
  /\ consumers' = consumers \cup {w}

(* recoverScript takes over expired deliveries ms and bumps their counts.
   Which of them a scan from the cursor meets is left open.  XAUTOCLAIM creates
   the consumer. *)
TakeOver(w, ms) ==
  /\ \A m \in ms : pel[m].expired /\ pel[m].count < MaxToken
  /\ Cardinality(ms) <= ClaimLimit
  /\ Cardinality(issued) + Cardinality(ms) <= MaxIssued
  /\ pel' = [m \in DOMAIN pel |->
               IF m \in ms
               THEN [owner |-> w, count |-> pel[m].count + 1, expired |-> FALSE]
               ELSE pel[m]]
  /\ issued' = issued \cup {Deliver(m, stream[m], w, pel[m].count + 1) : m \in ms}
  /\ consumers' = consumers \cup {w}

(* Store.RecoverExpired.  The pruning it may start with, and the quarantine of
   what doesn't parse, are calls of their own: PruneConsumers, DeadLetter. *)
RecoverExpired(w, ms) ==
  /\ TakeOver(w, ms)
  /\ UNCHANGED <<stream, lastID, lastDelivered, scheduleVars, dedupe, dead,
                 producerVars, acked>>

-----------------------------------------------------------------------------
(* Settling and renewing, for a delivery d or a batch ds of deliveries *)

Parsed(d) == d.id \notin Malformed

(* Store.Ack *)
Ack(d) ==
  /\ Parsed(d)
  /\ Owns(d)
  /\ Settle({d.msg})
  /\ acked' = acked \cup {d}
  /\ UNCHANGED <<lastID, lastDelivered, consumers, scheduleVars, dedupe, dead,
                 producerVars, issued>>

(* each_owned: the deliveries of the batch the caller still owns. *)
OwnedOf(ds) == {d \in ds : Owns(d)}

(* Store.AckBatch *)
AckBatch(ds) ==
  /\ \A d \in ds : Parsed(d)
  /\ Settle({d.msg : d \in OwnedOf(ds)})
  /\ acked' = acked \cup OwnedOf(ds)
  /\ UNCHANGED <<lastID, lastDelivered, consumers, scheduleVars, dedupe, dead,
                 producerVars, issued>>

(* Store.Extend *)
Extend(d) ==
  /\ Parsed(d)
  /\ Owns(d)
  /\ Renew({d.msg})
  /\ UNCHANGED <<stream, lastID, lastDelivered, consumers, scheduleVars,
                 dedupe, dead, historyVars>>

(* Store.ExtendBatch *)
ExtendBatch(ds) ==
  /\ \A d \in ds : Parsed(d)
  /\ Renew({d.msg : d \in OwnedOf(ds)})
  /\ UNCHANGED <<stream, lastID, lastDelivered, consumers, scheduleVars,
                 dedupe, dead, historyVars>>

(* Store.Retry, which counts the attempt.  Worker.handleOne calls it only if
   ShouldDeadLetter, that is Job.Exhausted, is false. *)
Exhausted(d) == d.attempt + 1 >= MaxAttempts

(* Fault for Retry: the job is scheduled, the delivery not settled. *)
RetryUnsettled(d) ==
  /\ Parsed(d)
  /\ ~Exhausted(d)
  /\ Owns(d)
  /\ Schedule({d.id}, d.attempt + 1)
  /\ UNCHANGED <<streamVars, dedupe, dead, historyVars>>

(* Fault for Retry: the attempt is not counted. *)
RetryUncounted(d) ==
  /\ Parsed(d)
  /\ Owns(d)
  /\ Schedule({d.id}, d.attempt)
  /\ Settle({d.msg})
  /\ UNCHANGED <<lastID, lastDelivered, consumers, dedupe, dead, historyVars>>

Retry(d) ==
  /\ Parsed(d)
  /\ ~Exhausted(d)
  /\ Owns(d)
  /\ Schedule({d.id}, d.attempt + 1)
  /\ Settle({d.msg})
  /\ UNCHANGED <<lastID, lastDelivered, consumers, dedupe, dead, historyVars>>

(* Store.DeadLetter, and parseOrQuarantine for entries that don't parse *)
DeadLetter(d) ==
  /\ Owns(d)
  /\ dead' = dead \cup {d}
  /\ Settle({d.msg})
  /\ UNCHANGED <<lastID, lastDelivered, consumers, scheduleVars, dedupe,
                 historyVars>>

-----------------------------------------------------------------------------
(* Consumers *)

(* Fault for Deregister: DELCONSUMER without looking at XPENDING. *)
DeregisterUnchecked(w) ==
  /\ DelConsumers({w})
  /\ UNCHANGED <<stream, lastID, lastDelivered, scheduleVars, dedupe, dead,
                 historyVars>>

(* Store.Deregister: deregisterScript returns early if w holds anything. *)
Deregister(w) ==
  /\ ~HoldsPending(w)
  /\ DelConsumers({w})
  /\ UNCHANGED <<stream, lastID, lastDelivered, scheduleVars, dedupe, dead,
                 historyVars>>

(* Store.pruneConsumers, when the consumers idle have been idle long enough. *)
PruneConsumers(idle) ==
  /\ DelConsumers({w \in idle : ~HoldsPending(w)})
  /\ UNCHANGED <<stream, lastID, lastDelivered, scheduleVars, dedupe, dead,
                 historyVars>>

-----------------------------------------------------------------------------
Producing ==
  \/ \E j \in Fresh : Enqueue(j)
  \/ \E j \in Fresh, k \in Keys : EnqueueOnce(j, k)
  \/ \E now \in Orders(Fresh, BatchLimit), later \in SUBSET Fresh :
       \E keys \in SUBSET Keys : \E named \in [keys -> Range(now) \cup later] :
         EnqueueBatch(now, later, named)
  \/ \E r \in unanswered : Resend(r)
  \/ \E j \in Malformed : AddMalformed(j)
  \/ \E k \in Keys : DedupeExpires(k)

Delivering ==
  \/ \E order \in Orders(retry \cap DOMAIN retryData, PromoteLimit),
        absent \in SUBSET (retry \ DOMAIN retryData) :
       \/ PromoteRetries(order, absent)
       \/ \E w \in Workers : ClaimReady(w, order, absent)
  \/ \E w \in Workers : ClaimBlocking(w)
  \/ \E m \in DOMAIN pel : LeaseExpires(m)
  \/ \E w \in Workers, ms \in SUBSET DOMAIN pel : RecoverExpired(w, ms)

Settling ==
  \/ \E d \in issued : Ack(d) \/ Extend(d) \/ Retry(d) \/ DeadLetter(d)
  \/ \E ds \in {{d, e} : d, e \in issued} : AckBatch(ds) \/ ExtendBatch(ds)

Leaving ==
  \/ \E w \in consumers : Deregister(w)
  \/ \E idle \in SUBSET consumers : PruneConsumers(idle)

Next == Producing \/ Delivering \/ Settling \/ Leaving

Spec == Init /\ [][Next]_vars

-----------------------------------------------------------------------------
(* Properties *)

TypeOK ==
  /\ lastID \in Nat
  /\ lastDelivered \in 0 .. lastID
  /\ DOMAIN stream \subseteq 1 .. lastID
  /\ stream \in [DOMAIN stream -> Fields]
  /\ DOMAIN pel \subseteq 1 .. lastID
  /\ pel \in [DOMAIN pel -> Pending]
  /\ consumers \subseteq Workers
  /\ retry \subseteq Jobs
  /\ DOMAIN retryData \subseteq Jobs
  /\ retryData \in [DOMAIN retryData -> Fields]
  /\ DOMAIN dedupe \subseteq Keys
  /\ dedupe \in [DOMAIN dedupe -> Jobs]
  /\ dead \subseteq Delivery
  /\ unanswered \subseteq [id : Jobs, delayed : BOOLEAN]
  /\ stored \subseteq Jobs
  /\ resent \subseteq Jobs
  /\ issued \subseteq Delivery
  /\ acked \subseteq Delivery

(* An entry that was delivered and not settled is pending for a consumer of
   the group, so RecoverExpired can find it; nothing else is pending.  An entry
   missing from the PEL would be stranded: XREADGROUP never delivers it again
   and XAUTOCLAIM doesn't see it.  Deleting a consumer that still holds
   deliveries, or settling half, would break this. *)
DeliveredIsPending ==
  /\ DOMAIN pel = {m \in DOMAIN stream : m <= lastDelivered}
  /\ \A m \in DOMAIN pel : pel[m].owner \in consumers

StreamJobs == {stream[m].id : m \in DOMAIN stream}
DeadJobs == {d.id : d \in dead}
AckedJobs == {d.id : d \in acked}

(* README: "No job is silently lost".  Whatever workers do, every job that was
   enqueued is in the stream, or on the schedule with its fields, or
   dead-lettered, or a worker's ack of it landed. *)
NoJobLost ==
  stored \subseteq StreamJobs \cup (retry \cap DOMAIN retryData)
                    \cup DeadJobs \cup AckedJobs

(* A job whose enqueue was executed once is in one of those places only, and
   once: no crash, race or late call leaves it both scheduled and pending,
   settles it twice, or brings it back after it was settled.  Only an enqueue
   that go-redis sent again makes a second copy. *)
NoJobDuplicated ==
  /\ \A m, n \in DOMAIN stream :
       stream[m].id = stream[n].id => m = n \/ stream[m].id \in resent
  /\ \A d, e \in dead : d.id = e.id => d = e \/ d.id \in resent
  /\ \A d, e \in acked : d.id = e.id => d = e \/ d.id \in resent
  /\ StreamJobs \cap retry \subseteq resent
  /\ StreamJobs \cap (DeadJobs \cup AckedJobs) \subseteq resent
  /\ retry \cap (DeadJobs \cup AckedJobs) \subseteq resent
  /\ DeadJobs \cap AckedJobs \subseteq resent

(* Only the newest delivery of a job that was stored once can settle or extend
   it: its fencing token is the highest anyone was handed for that job. *)
OwnerIsNewest ==
  \A d, e \in issued :
    Owns(d) /\ e.id = d.id /\ d.id \notin resent => FencingToken(e) <= FencingToken(d)

(* Job.FencingToken: "it increases with each retry and each redelivery".
   Every delivery handed out carries a higher token than all earlier ones of
   the same job, if its enqueue was executed once. *)
FencingTokenIncreases ==
  [][\A d \in issued' \ issued, e \in issued :
       d.id = e.id /\ d.id \notin resent => FencingToken(e) < FencingToken(d)]_vars

(* A worker that lost its lease never owns it again, even if the entry comes
   back to a worker of the same name. *)
LostStaysLost ==
  [][\A d \in issued : ~Owns(d) => ~Owns(d)']_vars

(* The ID a deduplicated enqueue returns names a job that was really stored. *)
DedupeNamesStoredJob ==
  \A k \in DOMAIN dedupe : dedupe[k] \in stored

-----------------------------------------------------------------------------
(* What the proofs need besides: the inductive invariant is the conjunction of
   TypeOK, the invariants above and the following facts. *)

(* The zset and the hash always hold the same jobs, each under its own ID, so
   promote never meets a member without fields and drops nothing. *)
ScheduleMatchesData ==
  /\ retry = DOMAIN retryData
  /\ \A j \in retry : retryData[j].id = j

(* Only jobs that were enqueued are anywhere. *)
OnlyStoredJobs ==
  StreamJobs \cup retry \cup DeadJobs \cup AckedJobs \subseteq stored

(* A delivery handed out shows its entry as it is now, as long as the entry
   exists, and its token is at most the entry's count; an equal token means
   the same owner. *)
DeliveriesMatchEntries ==
  \A d \in issued :
    /\ d.msg <= lastDelivered
    /\ d.id \in stored
    /\ d.msg \in DOMAIN stream /\ d.msg \in DOMAIN pel =>
         /\ stream[d.msg] = FieldsOf(d)
         /\ d.token <= pel[d.msg].count
         /\ d.token = pel[d.msg].count => d.owner = pel[d.msg].owner

(* Where a job waits to be delivered again, its attempt is higher than in any
   delivery made from an earlier entry. *)
AttemptsIncrease ==
  \A d \in issued :
    d.id \notin resent =>
      /\ \A m \in DOMAIN stream :
           stream[m].id = d.id /\ m # d.msg => d.attempt < stream[m].attempt
      /\ d.id \in retry => d.attempt < retryData[d.id].attempt

(* Only resendable jobs that were stored are stored again. *)
ResendsAreStored ==
  /\ resent \subseteq Resendable \cap stored
  /\ \A r \in unanswered : r.id \in Resendable \cap stored

IInv ==
  /\ TypeOK
  /\ DeliveredIsPending
  /\ NoJobLost
  /\ NoJobDuplicated
  /\ ScheduleMatchesData
  /\ OnlyStoredJobs
  /\ DeliveriesMatchEntries
  /\ AttemptsIncrease
  /\ ResendsAreStored
=============================================================================
