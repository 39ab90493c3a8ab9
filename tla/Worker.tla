-------------------------------- MODULE Worker --------------------------------
(***************************************************************************)
(* queue.Worker on top of a Backend: the Run loop that fetches jobs, one   *)
(* goroutine per job (process, handleOne), the ack loop that group-commits *)
(* acks, the heartbeat, and shutdown.  Several workers share the queue;    *)
(* they crash and restart, their calls fail, and they pause long enough to *)
(* lose a lease.                                                           *)
(*                                                                         *)
(* A call to the backend takes effect in one step.  Its reply may be lost, *)
(* or the call may never arrive.  Each such failure, each crash and each   *)
(* lease that expires while its worker is alive uses up one of MaxFaults:  *)
(* that bounds the model, and says that faults do not go on for ever.      *)
(***************************************************************************)
EXTENDS TaskQueue, Functions, FiniteSetsExt

CONSTANTS
  Concurrency,   \* WorkerConfig.Concurrency
  MaxDeliveries, \* WorkerConfig.MaxDeliveries
  MaxBatch,      \* maxBatch
  Old, New,      \* workers Old have no handler for the tasks of jobs New
  Hanging,       \* jobs whose handler returns only once its context is done
  Stubborn,      \* jobs whose handler never returns
  Leaving,       \* workers whose Run context is cancelled at some point
  MaxFaults      \* bound of the model: how many faults happen

ASSUME WorkerAssumption ==
  /\ Concurrency \in Nat \ {0}
  /\ MaxDeliveries \in Nat \ {0}
  /\ MaxBatch \in Nat \ {0}
  /\ MaxFaults \in Nat
  /\ IsFiniteSet(Jobs)

VARIABLES
  status,    \* where each worker's Run is
  quota,     \* how many more jobs the fetch in progress may lease; 0: none is
  fetched,   \* leases fetch got from RecoverExpired, not started yet
  runs,      \* the running map: lease -> its goroutine's place and context
  acks,      \* leases in the acks channel
  batch,     \* leases in the AckBatch call in flight
  held,      \* leases the heartbeat has collected and not renewed yet
  faults,    \* faults still to come
  starts,    \* history: how often each job's handler was started
  completed  \* history: leases reported to Metrics.JobCompleted

fetchVars == <<quota, fetched>>
ackVars == <<acks, batch>>
historyVars == <<starts, completed>>
vars == <<job, status, fetchVars, runs, ackVars, held, faults, historyVars>>

Init ==
  /\ QueueInit
  /\ status = [w \in Workers |-> "up"]
  /\ quota = [w \in Workers |-> 0]
  /\ fetched = [w \in Workers |-> {}]
  /\ runs = [w \in Workers |-> <<>>]
  /\ acks = [w \in Workers |-> {}]
  /\ batch = [w \in Workers |-> {}]
  /\ held = [w \in Workers |-> {}]
  /\ faults = MaxFaults
  /\ starts = [j \in Jobs |-> 0]
  /\ completed = {}

Fault == faults > 0 /\ faults' = faults - 1

(* A fault, unless Go itself fails the call because its context is done. *)
FaultUnless(contextDone) == Fault \/ (contextDone /\ UNCHANGED faults)

(* Some client of the queue enqueues a job. *)
Submit(j) ==
  /\ Enqueue({j})
  /\ UNCHANGED <<status, fetchVars, runs, ackVars, held, faults, historyVars>>

-----------------------------------------------------------------------------
(* The Run loop and fetch *)

Running(w) == DOMAIN runs[w]

(* running.Store, inFlight.Add and the goroutine, for each lease in ls. *)
Start(w, ls) ==
  runs' = [runs EXCEPT ![w] = [l \in Running(w) \cup ls |->
             IF l \in ls THEN [pc |-> "new", ctx |-> "live"] ELSE runs[w][l]]]

(* The goroutine returns: its deferred function. *)
Without(w, ls) == [runs EXCEPT ![w] = Restrict(runs[w], Running(w) \ ls)]
End(w, ls) == runs' = Without(w, ls)

(* Fault for Loop: free slots are not counted. *)
LoopUncounted(w) ==
  /\ status[w] = "up"
  /\ quota[w] = 0
  /\ quota' = [quota EXCEPT ![w] = Concurrency]
  /\ UNCHANGED <<job, status, fetched, runs, ackVars, held, faults, historyVars>>

(* An iteration of the loop that has room for more jobs. *)
Loop(w) ==
  /\ status[w] = "up"
  /\ quota[w] = 0
  /\ Cardinality(Running(w)) < Concurrency
  /\ quota' = [quota EXCEPT ![w] = Concurrency - Cardinality(Running(w))]
  /\ UNCHANGED <<job, status, fetched, runs, ackVars, held, faults, historyVars>>

LeasesOf(w, js, token) ==
  {[id |-> j, attempt |-> job[j].attempt, owner |-> w, token |-> token[j]] : j \in js}

(* fetch calls RecoverExpired.  If that leased all it may, or fails, fetch
   returns; a call that fails may still have leased jobs and say so of some of
   them, when the backend is sharded. *)
FetchRecover(w, js) ==
  /\ quota[w] > 0 /\ fetched[w] = {}
  /\ Cardinality(js) <= quota[w]
  /\ RecoverExpired(w, js)
  /\ LET ls == LeasesOf(w, js, [j \in js |-> job[j].token + 1])
         left == quota[w] - Cardinality(js)
     IN  \/ /\ quota' = [quota EXCEPT ![w] = left]
            /\ IF left = 0 THEN Start(w, ls) /\ UNCHANGED fetched
               ELSE fetched' = [fetched EXCEPT ![w] = ls] /\ UNCHANGED runs
            /\ UNCHANGED faults
         \/ /\ FaultUnless(status[w] = "draining")
            /\ \E got \in SUBSET ls : Start(w, got)
            /\ quota' = [quota EXCEPT ![w] = 0]
            /\ UNCHANGED fetched
  /\ UNCHANGED <<status, ackVars, held, historyVars>>

(* fetch calls Claim and returns; Run starts what was leased, even if the
   claim failed or Run's context is done by now. *)
FetchClaim(w, js) ==
  /\ quota[w] > 0
  /\ Cardinality(js) <= quota[w]
  /\ Claim(w, js)
  /\ LET ls == LeasesOf(w, js, [j \in js |-> 1])
     IN  \/ Start(w, fetched[w] \cup ls) /\ UNCHANGED faults
         \/ /\ FaultUnless(status[w] = "draining")
            /\ \E got \in SUBSET ls : Start(w, fetched[w] \cup got)
  /\ quota' = [quota EXCEPT ![w] = 0]
  /\ fetched' = [fetched EXCEPT ![w] = {}]
  /\ UNCHANGED <<status, ackVars, held, historyVars>>

-----------------------------------------------------------------------------
(* process and handleOne *)

At(w, l, pc) == l \in Running(w) /\ runs[w][l].pc = pc

Goto(w, l, pc) == runs' = [runs EXCEPT ![w][l].pc = pc]

ContextDone(w, l) == runs[w][l].ctx # "live"

(* Up to the handler's call: too many deliveries, no handler, or it starts. *)
TooManyLate(l) == l.token > MaxDeliveries + 1  \* fault for TooMany: one more

TooMany(l) == l.token > MaxDeliveries
NoHandler(w, l) == w \in Old /\ l.id \in New

(* Fault for HandleOne: a run without a handler stays in the running map. *)
HandleOneParked(w, l) ==
  /\ At(w, l, "new")
  /\ \/ TooMany(l) /\ Goto(w, l, "burying") /\ UNCHANGED starts
     \/ ~TooMany(l) /\ NoHandler(w, l) /\ Goto(w, l, "parked") /\ UNCHANGED starts
     \/ /\ ~TooMany(l) /\ ~NoHandler(w, l)
        /\ Goto(w, l, "running")
        /\ starts' = [starts EXCEPT ![l.id] = @ + 1]
  /\ UNCHANGED <<job, status, fetchVars, ackVars, held, faults, completed>>

HandleOne(w, l) ==
  /\ At(w, l, "new")
  /\ \/ /\ TooMany(l) \/ (NoHandler(w, l) /\ l.token >= MaxDeliveries)
        /\ Goto(w, l, "burying")
        /\ UNCHANGED starts
     \/ /\ ~TooMany(l) /\ NoHandler(w, l) /\ l.token < MaxDeliveries
        /\ End(w, {l})
        /\ UNCHANGED starts
     \/ /\ ~TooMany(l) /\ ~NoHandler(w, l)
        /\ Goto(w, l, "running")
        /\ starts' = [starts EXCEPT ![l.id] = @ + 1]
  /\ UNCHANGED <<job, status, fetchVars, ackVars, held, faults, completed>>

(* The handler returns, and its context is done: the run is abandoned. *)
Abandon(w, l) ==
  /\ At(w, l, "running") /\ l.id \notin Stubborn
  /\ ContextDone(w, l)
  /\ End(w, {l})
  /\ UNCHANGED <<job, status, fetchVars, ackVars, held, faults, historyVars>>

Returns(w, l) ==
  /\ At(w, l, "running") /\ l.id \notin Stubborn \cup Hanging
  /\ ~ContextDone(w, l)

(* The handler returns nil: ack queues a request and waits for the answer. *)
Succeed(w, l) ==
  /\ Returns(w, l)
  /\ Goto(w, l, "acking")
  /\ acks' = [acks EXCEPT ![w] = @ \cup {l}]
  /\ UNCHANGED <<job, status, fetchVars, batch, held, faults, historyVars>>

(* The handler returns an error, retryable or not. *)
Fail(w, l, retryable) ==
  /\ Returns(w, l)
  /\ IF ~retryable \/ Exhausted(l.attempt)
     THEN Goto(w, l, "burying")
     ELSE Goto(w, l, "retrying")
  /\ UNCHANGED <<job, status, fetchVars, ackVars, held, faults, historyVars>>

(* A settling call that changes nothing: the lease is lost, the context is
   done, or the call never arrives. *)
CallFails(w, l) ==
  /\ UNCHANGED job
  /\ FaultUnless(~Owns(l) \/ ContextDone(w, l))

(* Worker.deadLetter, and the Retry call.  Whether the reply of a call that
   landed arrives makes no difference but to metrics and logs. *)
Bury(w, l) ==
  /\ At(w, l, "burying")
  /\ \/ Owns(l) /\ DeadLetter(l.id) /\ UNCHANGED faults
     \/ CallFails(w, l)
  /\ End(w, {l})
  /\ UNCHANGED <<status, fetchVars, ackVars, held, historyVars>>

ScheduleRetry(w, l) ==
  /\ At(w, l, "retrying")
  /\ \/ Owns(l) /\ Retry(l.id) /\ UNCHANGED faults
     \/ CallFails(w, l)
  /\ End(w, {l})
  /\ UNCHANGED <<status, fetchVars, ackVars, held, historyVars>>

-----------------------------------------------------------------------------
(* ackLoop *)

OwnedOf(ls) == {l \in ls : Owns(l)}
IDs(ls) == {l.id : l \in ls}

(* Fault for TakeAcks: requests beyond the batch are thrown away. *)
TakeAcksDropping(w, ls) ==
  /\ batch[w] = {}
  /\ ls # {} /\ ls \subseteq acks[w]
  /\ Cardinality(ls) = Min({Cardinality(acks[w]), MaxBatch})
  /\ batch' = [batch EXCEPT ![w] = ls]
  /\ acks' = [acks EXCEPT ![w] = {}]
  /\ UNCHANGED <<job, status, fetchVars, runs, held, faults, historyVars>>

(* The loop takes what the channel holds, at most maxBatch. *)
TakeAcks(w, ls) ==
  /\ batch[w] = {}
  /\ ls # {} /\ ls \subseteq acks[w]
  /\ Cardinality(ls) = Min({Cardinality(acks[w]), MaxBatch})
  /\ batch' = [batch EXCEPT ![w] = ls]
  /\ acks' = [acks EXCEPT ![w] = @ \ ls]
  /\ UNCHANGED <<job, status, fetchVars, runs, held, faults, historyVars>>

(* Fault for AckCall: lost leases are not told apart. *)
AckCallOptimist(w) ==
  /\ batch[w] # {}
  /\ Ack(IDs(OwnedOf(batch[w])))
  /\ completed' = completed \cup batch[w]
  /\ End(w, batch[w])
  /\ batch' = [batch EXCEPT ![w] = {}]
  /\ UNCHANGED <<status, fetchVars, acks, held, faults, starts>>

(* AckBatch answers every request of the batch.  The call fails as a whole if
   it or its reply is lost, or once the jobs' context is cancelled. *)
AckCall(w) ==
  /\ batch[w] # {}
  /\ \/ /\ Ack(IDs(OwnedOf(batch[w])))
        /\ completed' = completed \cup OwnedOf(batch[w])
        /\ UNCHANGED faults
     \/ /\ Ack(IDs(OwnedOf(batch[w]))) \/ UNCHANGED job
        /\ FaultUnless(status[w] = "cancelled")
        /\ UNCHANGED completed
  /\ End(w, batch[w])
  /\ batch' = [batch EXCEPT ![w] = {}]
  /\ UNCHANGED <<status, fetchVars, acks, held, starts>>

-----------------------------------------------------------------------------
(* heartbeat *)

Alive(w) == status[w] \in {"up", "draining", "cancelled"}

(* The ticker fires: the leases in the running map are collected. *)
Tick(w) ==
  /\ Alive(w)
  /\ held[w] = {} /\ Running(w) # {}
  /\ held' = [held EXCEPT ![w] = Running(w)]
  /\ UNCHANGED <<job, status, fetchVars, runs, ackVars, faults, historyVars>>

(* ExtendBatch of a chunk ls renews the leases still owned; the reply cancels
   the context of the runs that lost theirs.  Nothing is cancelled if the call
   fails. *)
Cancelled(w, ls, cause) ==
  [l \in Running(w) |-> IF l \in ls /\ ~ContextDone(w, l)
                        THEN [runs[w][l] EXCEPT !.ctx = cause] ELSE runs[w][l]]

(* Fault for Renew: everything held outside the chunk counts as lost. *)
RenewWrongChunk(w, ls) ==
  /\ ls # {} /\ ls \subseteq held[w]
  /\ Cardinality(ls) = Min({Cardinality(held[w]), MaxBatch})
  /\ Extend(IDs(OwnedOf(ls)))
  /\ runs' = [runs EXCEPT ![w] = Cancelled(w, held[w] \ OwnedOf(ls), "lease lost")]
  /\ held' = [held EXCEPT ![w] = @ \ ls]
  /\ UNCHANGED <<status, fetchVars, ackVars, faults, historyVars>>

(* Fault for Renew: runs that lost their lease are not cancelled. *)
RenewSilent(w, ls) ==
  /\ ls # {} /\ ls \subseteq held[w]
  /\ Cardinality(ls) = Min({Cardinality(held[w]), MaxBatch})
  /\ Extend(IDs(OwnedOf(ls)))
  /\ held' = [held EXCEPT ![w] = @ \ ls]
  /\ UNCHANGED <<status, fetchVars, runs, ackVars, faults, historyVars>>

Renew(w, ls) ==
  /\ ls # {} /\ ls \subseteq held[w]
  /\ Cardinality(ls) = Min({Cardinality(held[w]), MaxBatch})
  /\ \/ /\ Extend(IDs(OwnedOf(ls)))
        /\ runs' = [runs EXCEPT ![w] = Cancelled(w, ls \ OwnedOf(ls), "lease lost")]
        /\ UNCHANGED faults
     \/ /\ Extend(IDs(OwnedOf(ls))) \/ UNCHANGED job
        /\ FaultUnless(status[w] = "cancelled")
        /\ UNCHANGED runs
  /\ held' = [held EXCEPT ![w] = @ \ ls]
  /\ UNCHANGED <<status, fetchVars, ackVars, historyVars>>

(* A lease goes without renewal for the visibility timeout.  With heartbeats
   every third of it, that is a fault while a live worker is running the job,
   and only a matter of time otherwise. *)
HeldAlive(j) ==
  \E w \in Workers : LeaseOn(j) \in Running(w) \cup fetched[w]

LeaseExpires(j) ==
  /\ Expire(j)
  /\ IF HeldAlive(j) THEN Fault ELSE UNCHANGED faults
  /\ UNCHANGED <<status, fetchVars, runs, ackVars, held, historyVars>>

-----------------------------------------------------------------------------
(* Shutdown, crash, restart *)

(* Run's context is cancelled; the loop ends when a fetch in progress has. *)
Shutdown(w) ==
  /\ w \in Leaving /\ status[w] = "up"
  /\ status' = [status EXCEPT ![w] = "draining"]
  /\ UNCHANGED <<job, fetchVars, runs, ackVars, held, faults, historyVars>>

(* Fault for DrainTimeout: the contexts of the jobs are not cancelled. *)
DrainTimeoutSilent(w) ==
  /\ status[w] = "draining" /\ quota[w] = 0 /\ Running(w) # {}
  /\ status' = [status EXCEPT ![w] = "cancelled"]
  /\ UNCHANGED <<job, fetchVars, runs, ackVars, held, faults, historyVars>>

(* ShutdownTimeout has passed: cancelJobs(errShutdown). *)
DrainTimeout(w) ==
  /\ status[w] = "draining" /\ quota[w] = 0 /\ Running(w) # {}
  /\ status' = [status EXCEPT ![w] = "cancelled"]
  /\ runs' = [runs EXCEPT ![w] = Cancelled(w, Running(w), "shutdown")]
  /\ UNCHANGED <<job, fetchVars, ackVars, held, faults, historyVars>>

(* Every goroutine is done, the background loops stop, and Run returns. *)
Return(w) ==
  /\ status[w] \in {"draining", "cancelled"}
  /\ quota[w] = 0 /\ Running(w) = {}
  /\ batch[w] = {} /\ held[w] = {}
  /\ status' = [status EXCEPT ![w] = "stopped"]
  /\ UNCHANGED <<job, fetchVars, runs, ackVars, held, faults, historyVars>>

Crash(w) ==
  /\ Alive(w)
  /\ Fault
  /\ status' = [status EXCEPT ![w] = "crashed"]
  /\ quota' = [quota EXCEPT ![w] = 0]
  /\ fetched' = [fetched EXCEPT ![w] = {}]
  /\ runs' = [runs EXCEPT ![w] = <<>>]
  /\ acks' = [acks EXCEPT ![w] = {}]
  /\ batch' = [batch EXCEPT ![w] = {}]
  /\ held' = [held EXCEPT ![w] = {}]
  /\ UNCHANGED <<job, historyVars>>

Restart(w) ==
  /\ status[w] = "crashed"
  /\ status' = [status EXCEPT ![w] = "up"]
  /\ UNCHANGED <<job, fetchVars, runs, ackVars, held, faults, historyVars>>

-----------------------------------------------------------------------------
Fetching(w) ==
  \/ Loop(w)
  \/ \E js \in SUBSET In("leased") : FetchRecover(w, js)
  \/ \E js \in SUBSET In("waiting") : FetchClaim(w, js)

JobStep(w, l) ==
  \/ HandleOne(w, l) \/ Abandon(w, l) \/ Succeed(w, l)
  \/ \E retryable \in BOOLEAN : Fail(w, l, retryable)
  \/ Bury(w, l) \/ ScheduleRetry(w, l)

Acking(w) == (\E ls \in SUBSET acks[w] : TakeAcks(w, ls)) \/ AckCall(w)

Heartbeat(w) == Tick(w) \/ \E ls \in SUBSET held[w] : Renew(w, ls)

Stopping(w) == DrainTimeout(w) \/ Return(w)

WorkerStep(w) ==
  \/ Fetching(w)
  \/ \E l \in Running(w) : JobStep(w, l)
  \/ Acking(w)
  \/ Heartbeat(w)
  \/ Shutdown(w) \/ Stopping(w) \/ Crash(w) \/ Restart(w)

Next ==
  \/ \E w \in Workers : WorkerStep(w)
  \/ \E j \in Jobs : Submit(j) \/ LeaseExpires(j)

Spec == Init /\ [][Next]_vars

(* What a goroutine does by itself.  A handler is only trusted to return while
   its run is in order; without its lease, or when its worker is shutting
   down, it may go on until its context is cancelled. *)
JobGoesOn(w, l) ==
  \/ HandleOne(w, l) \/ Abandon(w, l) \/ Bury(w, l) \/ ScheduleRetry(w, l)
  \/ /\ Owns(l) /\ status[w] = "up"
     /\ Succeed(w, l) \/ \E retryable \in BOOLEAN : Fail(w, l, retryable)

(* Goroutines, tickers and timers run, a crashed worker is started again, and
   a lease nobody renews expires.  A fetch keeps being repeated, so a job that
   is ready again and again, or expired, is leased some day: the stream is
   read in order, and the recovery scan goes round. *)
Fairness ==
  /\ \A w \in Workers :
       /\ WF_vars(Loop(w))
       /\ WF_vars(\E js \in SUBSET In("waiting") : FetchClaim(w, js))
       /\ WF_vars(\E l \in Running(w) : JobGoesOn(w, l))
       /\ WF_vars(Acking(w))
       /\ WF_vars(Heartbeat(w))
       /\ WF_vars(Stopping(w))
       /\ WF_vars(Restart(w))
  /\ \A j \in Jobs :
       /\ WF_vars(LeaseExpires(j) /\ ~HeldAlive(j))
       /\ SF_vars(\E w \in Workers, js \in SUBSET In("waiting") :
                    j \in js /\ FetchClaim(w, js))
       /\ SF_vars(\E w \in Workers, js \in SUBSET In("leased") :
                    j \in js /\ FetchRecover(w, js))

FairSpec == Spec /\ Fairness

-----------------------------------------------------------------------------
(* Properties *)

Lease == [id : Jobs, attempt : 0 .. MaxAttempts - 1, owner : Workers, token : Nat]
Goroutine == [pc : {"new", "running", "acking", "burying", "retrying"},
              ctx : {"live", "lease lost", "shutdown"}]

TypeOK ==
  /\ QueueTypeOK
  /\ status \in [Workers -> {"up", "draining", "cancelled", "stopped", "crashed"}]
  /\ quota \in [Workers -> 0 .. Concurrency]
  /\ runs = [w \in Workers |-> runs[w]]
  /\ \A w \in Workers : \A l \in Running(w) : l \in Lease /\ runs[w][l] \in Goroutine
  /\ \A f \in {fetched, acks, batch, held} : f \in [Workers -> SUBSET Lease]
  /\ faults \in 0 .. MaxFaults
  /\ starts \in [Jobs -> Nat]
  /\ completed \subseteq Lease

(* What a worker runs, has recovered and may still claim never exceeds its
   Concurrency, though slots are counted at the head of the loop, and two calls
   and any number of finished jobs later they are filled. *)
ConcurrencyRespected ==
  \A w \in Workers :
    Cardinality(Running(w)) + Cardinality(fetched[w]) + quota[w] <= Concurrency

(* Every goroutine that waits for its ack's answer has its request in the
   channel or in the batch in flight, and nothing else is there: nobody waits
   for an answer that never comes, and nobody is answered twice. *)
AckersAreAnswered ==
  \A w \in Workers :
    /\ acks[w] \cap batch[w] = {}
    /\ acks[w] \cup batch[w] = {l \in Running(w) : runs[w][l].pc = "acking"}

(* handleOne: "A job is complete only once the handler succeeds and the ack
   lands".  Whatever runs of a job there were, at most one is reported
   completed, and then the job is done for good. *)
CompletedOnce ==
  /\ \A l \in completed : job[l.id] = Done
  /\ \A l, k \in completed : l.id = k.id => l = k

(* A job that crashes its workers, or that they cannot settle, is not run for
   ever: each of its MaxAttempts attempts is started at most MaxDeliveries
   times. *)
StartsBounded ==
  \A j \in Jobs : starts[j] <= MaxAttempts * MaxDeliveries

(* Nothing has failed so far, and no drain has timed out. *)
Quiet == faults = MaxFaults /\ \A w \in Workers : status[w] \in {"up", "draining"}

(* As long as nothing fails and no drain times out, each attempt is run once
   and no run is told that it lost its lease: heartbeats, which work on a
   snapshot of the running jobs, never cancel a job that is still owned. *)
RunsOnceWithoutFaults ==
  Quiet =>
    /\ \A j \in Jobs : starts[j] <= MaxAttempts
    /\ \A w \in Workers : \A l \in Running(w) : Owns(l) /\ ~ContextDone(w, l)

(* README: "Every job ends up either completed [...] or in the dead-letter
   stream."  Once faults stop, every job that was enqueued is settled, as long
   as one worker is not shut down. *)
JobsAreSettled ==
  \A j \in Jobs : (job[j].phase # "absent") ~> (job[j].phase \in {"done", "dead"})

(* README: a job that "crashes or hangs every worker that runs it" is
   "dead-lettered after MaxDeliveries deliveries".  Here it hangs: its handler
   returns only once its context is done. *)
HungJobsAreBuried ==
  \A j \in Hanging : (starts[j] > 0) ~> (job[j].phase = "dead")

(* ShutdownTimeout "bounds how long Run waits for in-flight jobs after its
   context is cancelled": Run returns then.  In-flight jobs are drained, acks
   still queued are answered, and no goroutine waits for another for ever. *)
ShutdownCompletes ==
  \A w \in Workers : (status[w] = "draining") ~> (status[w] \in {"stopped", "up"})

(* README: when a lease is taken over, the zombie's "handler's context is
   cancelled": a run without its lease ends, even if its handler would only
   ever return when told so. *)
ZombiesStop ==
  \A w \in Workers : ((\E l \in Running(w) : ~Owns(l)) ~> (\A l \in Running(w) : Owns(l)))

-----------------------------------------------------------------------------
(* What the proofs need besides *)

(* The lease l may have been issued for a job whose record is r now. *)
Issued(l, r) ==
  /\ r.phase # "absent"
  /\ r.phase = "waiting" => l.attempt < r.attempt
  /\ r.phase = "leased" => \/ l.attempt < r.attempt
                           \/ l.attempt = r.attempt /\ l.token <= r.token

(* What a worker holds was leased to it earlier, and it starts no lease twice. *)
LeasesAreIssued ==
  \A w \in Workers :
    /\ \A l \in Running(w) \cup fetched[w] : l.owner = w /\ Issued(l, job[l.id])
    /\ fetched[w] \cap Running(w) = {}
    /\ quota[w] = 0 => fetched[w] = {}

HeldIsFinite == \A w \in Workers : IsFiniteSet(Running(w)) /\ IsFiniteSet(fetched[w])

(* Leases that may still lead to a start of j, and the starts of it that the
   deliveries up to its record r allow. *)
Unstarted(w) == {l \in Running(w) : runs[w][l].pc = "new"} \cup fetched[w]
MayStart(j) == {l \in UNION {Unstarted(w) : w \in Workers} : l.id = j /\ ~TooMany(l)}
Deliveries(r) ==
  IF r.phase = "absent" THEN 0
  ELSE IF r.phase = "waiting" THEN r.attempt * MaxDeliveries
  ELSE IF r.phase = "leased"
  THEN r.attempt * MaxDeliveries
         + (IF r.token > MaxDeliveries THEN MaxDeliveries ELSE r.token)
  ELSE MaxAttempts * MaxDeliveries

StartsAreDeliveries ==
  \A j \in Jobs : /\ IsFiniteSet(MayStart(j))
                   /\ starts[j] + Cardinality(MayStart(j)) <= Deliveries(job[j])

WorkerIInv ==
  /\ TypeOK
  /\ LeasesAreIssued
  /\ HeldIsFinite
  /\ ConcurrencyRespected
  /\ AckersAreAnswered
  /\ CompletedOnce
  /\ StartsAreDeliveries

(* A worker that has crashed used up a fault. *)
CrashIsFault == \A w \in Workers : status[w] = "crashed" => faults < MaxFaults

(* The lease l is its job's lease, and has not expired. *)
Current(l) == l.id \in Jobs /\ job[l.id] = Leased(l.attempt, l.owner, l.token, FALSE)

HeldIsCurrent ==
  \A w \in Workers : \A l \in Running(w) \cup fetched[w] : Current(l)

ContextsAreLive == \A w \in Workers : \A l \in Running(w) : ~ContextDone(w, l)

(* The attempts of a job that have come to an end, and whether one is under way. *)
AttemptsMade(r) ==
  IF r.phase = "absent" THEN 0
  ELSE IF r.phase \in {"waiting", "leased"} THEN r.attempt
  ELSE MaxAttempts
Begun(j) ==
  \E w \in Workers : \E l \in Running(w) : l.id = j /\ runs[w][l].pc # "new"

StartsAreAttempts ==
  \A j \in Jobs :
    \/ starts[j] <= AttemptsMade(job[j])
    \/ /\ job[j].phase = "leased" /\ Begun(j)
       /\ starts[j] <= AttemptsMade(job[j]) + 1

Calm == HeldIsCurrent /\ ContextsAreLive /\ StartsAreAttempts

QuietIInv == CrashIsFault /\ (Quiet => Calm)
=============================================================================
