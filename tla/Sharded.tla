------------------------------- MODULE Sharded -------------------------------
(***************************************************************************)
(* redisstream.Sharded of one worker, Me: Claim sweeps the partitions and, *)
(* if all are empty, waits for long polls, one poller goroutine for each   *)
(* partition.  What the polls bring back is buffered.  Heartbeats renew    *)
(* the buffered leases too, and Close stops the polls.  Steps are the      *)
(* critical sections under mu, the channel operations and the calls to     *)
(* Redis.  Other workers take over leases that have expired.               *)
(*                                                                         *)
(* The worker calls Claim from one goroutine, with a limit of at most its  *)
(* free slots.  Which buffered jobs takeBuffered takes first is left open. *)
(***************************************************************************)
EXTENDS TaskQueue, FiniteSetsExt

CONSTANTS
  Me,          \* the worker that uses this Sharded
  Parts,       \* number of partitions
  Concurrency, \* the worker's slots
  MaxToken,    \* bound of the model: deliveries of a job; 1: no lease expires
  Closes       \* bound of the model: whether Close is called

ASSUME ShardedAssumption ==
  /\ Me \in Workers
  /\ Parts \in Nat \ {0} /\ Concurrency \in Nat \ {0} /\ MaxToken \in Nat \ {0}
  /\ Closes \in BOOLEAN
  /\ IsFiniteSet(Jobs)

Partitions == 0 .. Parts - 1

VARIABLES
  part,      \* the partition route chose for each job
  claim,     \* the Claim call: place, limit, partitions swept, jobs so far
  claimNext, \* rotates where claim sweeps start (modulo Parts)
  waiting,   \* Claims waiting on long polls
  poller,    \* place of the poller of each partition; "off": polling is false
  count,     \* pollWith.count
  asked,     \* the count each poller's read asks for
  brought,   \* what each poller's read returned, not buffered yet
  signals,   \* goroutines that have buffered jobs and will signal arrived
  arrived,   \* the channel arrived holds a signal
  buffered,  \* leases claimed by long polls, not yet handed out
  closing,   \* how far Close has come
  running,   \* leases handed to the worker, not settled
  beat,      \* the ExtendBatch call: leases, partitions to go, buffered, lost
  abandoned  \* history: leases whose delivery never reached this process

claimVars == <<claim, claimNext, waiting>>
pollVars == <<poller, count, asked, brought, signals, arrived>>
vars == <<job, part, claimVars, pollVars, buffered, closing, running, beat, abandoned>>

NoCall == [pc |-> "idle", limit |-> 0, swept |-> 0, got |-> {}]
NoBeat == [leases |-> {}, left |-> {}, riding |-> {}, lost |-> {}]

(* route: round-robin over all producers, or by the idempotency key. *)
Init ==
  /\ QueueInit
  /\ part \in [Jobs -> Partitions]
  /\ claim = NoCall /\ claimNext = 0 /\ waiting = 0
  /\ poller = [p \in Partitions |-> "off"]
  /\ count = 0 /\ asked = [p \in Partitions |-> 0]
  /\ brought = [p \in Partitions |-> {}]
  /\ signals = 0 /\ arrived = FALSE
  /\ buffered = {}
  /\ closing = "open"
  /\ running = {} /\ beat = NoBeat
  /\ abandoned = {}

-----------------------------------------------------------------------------
(* The queue around it *)

Ready(p) == {j \in In("waiting") : part[j] = p}

NewLeases(js) ==
  {[id |-> j, attempt |-> job[j].attempt, owner |-> Me, token |-> 1] : j \in js}

(* A partition's store leases up to n ready jobs, as many as there are. *)
Lease(p, n, js) ==
  /\ js \subseteq Ready(p)
  /\ Cardinality(js) = Min({n, Cardinality(Ready(p))})
  /\ Claim(Me, js)

Submit(j) ==
  /\ Enqueue({j})
  /\ UNCHANGED <<part, claimVars, pollVars, buffered, closing, running, beat, abandoned>>

LeaseExpires(j) ==
  /\ Expire(j)
  /\ job[j].token < MaxToken
  /\ UNCHANGED <<part, claimVars, pollVars, buffered, closing, running, beat, abandoned>>

OtherRecovers(w, j) ==
  /\ RecoverExpired(w, {j})
  /\ UNCHANGED <<part, claimVars, pollVars, buffered, closing, running, beat, abandoned>>

(* A run ends: its ack lands, or its lease is lost. *)
Finish(l) ==
  /\ IF Owns(l) THEN Ack({l.id}) ELSE UNCHANGED job
  /\ running' = running \ {l}
  /\ UNCHANGED <<part, claimVars, pollVars, buffered, closing, beat, abandoned>>

-----------------------------------------------------------------------------
(* Claim *)

(* Fault for TakeBuffered: one too few. *)
TakeBufferedShort(limit, ls) ==
  /\ ls \subseteq buffered
  /\ Cardinality(ls) = Min({limit - 1, Cardinality(buffered)})
  /\ buffered' = buffered \ ls

(* takeBuffered hands out ls. *)
TakeBuffered(limit, ls) ==
  /\ ls \subseteq buffered
  /\ Cardinality(ls) = Min({limit, Cardinality(buffered)})
  /\ buffered' = buffered \ ls

(* Fault for ClaimStarts: the buffer is not looked at first. *)
ClaimStartsUnbuffered(limit, ls) ==
  /\ claim.pc = "idle"
  /\ limit <= Concurrency - Cardinality(running)
  /\ claim' = [pc |-> "sweep", limit |-> limit, swept |-> 0, got |-> {}]
  /\ claimNext' = (claimNext + 1) % Parts
  /\ UNCHANGED <<job, part, waiting, pollVars, buffered, closing, running, beat, abandoned>>

ClaimStarts(limit, ls) ==
  /\ claim.pc = "idle"
  /\ limit <= Concurrency - Cardinality(running)
  /\ TakeBuffered(limit, ls)
  /\ claim' = [pc |-> "sweep", limit |-> limit, swept |-> 0, got |-> ls]
  /\ claimNext' = (claimNext + 1) % Parts
  /\ UNCHANGED <<job, part, waiting, pollVars, closing, running, beat, abandoned>>

Sweeping ==
  claim.pc = "sweep" /\ claim.swept < Parts /\ Cardinality(claim.got) < claim.limit

NextPart == (claimNext + claim.swept) % Parts

(* claimReady of the next partition. *)
SweepNext(js) ==
  /\ Sweeping
  /\ Lease(NextPart, claim.limit - Cardinality(claim.got), js)
  /\ claim' = [pc |-> "sweep", limit |-> claim.limit, swept |-> claim.swept + 1,
               got |-> claim.got \cup NewLeases(js)]
  /\ UNCHANGED <<part, claimNext, waiting, pollVars, buffered, closing, running, beat,
                 abandoned>>

(* claimReady fails, and Claim returns what it has.  The jobs are leased all
   the same if only the reply was lost. *)
SweepFails(js) ==
  /\ Sweeping
  /\ IF js = {} THEN UNCHANGED job
     ELSE Lease(NextPart, claim.limit - Cardinality(claim.got), js)
  /\ claim' = NoCall
  /\ running' = running \cup claim.got
  /\ abandoned' = abandoned \cup NewLeases(js)
  /\ UNCHANGED <<part, claimNext, waiting, pollVars, buffered, closing, beat>>

ClaimReturns ==
  /\ claim.pc = "sweep" /\ ~Sweeping
  /\ claim' = NoCall
  /\ running' = running \cup claim.got
  /\ UNCHANGED <<job, part, claimNext, waiting, pollVars, buffered, closing, beat, abandoned>>

(* What each poll asks for: a share of limit. *)
Share(limit) == Max({1, (limit + Parts - 1) \div Parts})

(* Fault for WaitForJobs: closed is not looked at under mu. *)
WaitForJobsUnchecked ==
  /\ claim.pc = "sweep" /\ ~Sweeping /\ claim.got = {}
  /\ waiting' = waiting + 1
  /\ count' = Share(claim.limit)
  /\ poller' = [p \in Partitions |-> IF poller[p] = "off" THEN "loop" ELSE poller[p]]
  /\ claim' = [claim EXCEPT !.pc = "select"]
  /\ UNCHANGED <<job, part, claimNext, asked, brought, signals, arrived, buffered, closing,
                 running, beat, abandoned>>

(* waitForJobs, up to its select.  Closed: Claim returns nothing. *)
WaitForJobs ==
  /\ claim.pc = "sweep" /\ ~Sweeping /\ claim.got = {}
  /\ closing = "open"
  /\ waiting' = waiting + 1
  /\ count' = Share(claim.limit)
  /\ poller' = [p \in Partitions |-> IF poller[p] = "off" THEN "loop" ELSE poller[p]]
  /\ claim' = [claim EXCEPT !.pc = "select"]
  /\ UNCHANGED <<job, part, claimNext, asked, brought, signals, arrived, buffered, closing,
                 running, beat, abandoned>>

(* The select picks arrived, which can be stale: then the loop goes on. *)
WakesUp ==
  /\ claim.pc = "select" /\ arrived
  /\ arrived' = FALSE
  /\ claim' = [claim EXCEPT !.pc = "take"]
  /\ UNCHANGED <<job, part, claimNext, waiting, poller, count, asked, brought, signals, buffered,
                 closing, running, beat, abandoned>>

Takes(ls) ==
  /\ claim.pc = "take"
  /\ TakeBuffered(claim.limit, ls)
  /\ claim' = [pc |-> IF ls = {} THEN "select" ELSE "leave", limit |-> claim.limit,
               swept |-> claim.swept, got |-> ls]
  /\ UNCHANGED <<job, part, claimNext, waiting, pollVars, closing, running, beat, abandoned>>

(* The select picks the timer, the worker's context or closed. *)
GivesUp(ls) ==
  /\ claim.pc = "select"
  /\ TakeBuffered(claim.limit, ls)
  /\ claim' = [pc |-> "leave", limit |-> claim.limit, swept |-> claim.swept, got |-> ls]
  /\ UNCHANGED <<job, part, claimNext, waiting, pollVars, closing, running, beat, abandoned>>

(* The deferred decrement, and Claim returns. *)
Leaves ==
  /\ claim.pc = "leave"
  /\ waiting' = waiting - 1
  /\ running' = running \cup claim.got
  /\ claim' = NoCall
  /\ UNCHANGED <<job, part, claimNext, pollVars, buffered, closing, beat, abandoned>>

-----------------------------------------------------------------------------
(* poll *)

Stopped == closing \in {"stopped", "done"}

PollAgain(p) ==
  /\ poller[p] = "loop"
  /\ poller' = [poller EXCEPT ![p] = IF waiting = 0 \/ Stopped THEN "off" ELSE "reading"]
  /\ asked' = [asked EXCEPT ![p] = count]
  /\ UNCHANGED <<job, part, claimVars, count, brought, signals, arrived, buffered, closing,
                 running, beat, abandoned>>

(* claimBlocking returns jobs. *)
PollReads(p, js) ==
  /\ poller[p] = "reading"
  /\ js # {} /\ Lease(p, asked[p], js)
  /\ poller' = [poller EXCEPT ![p] = "back"]
  /\ brought' = [brought EXCEPT ![p] = NewLeases(js)]
  /\ UNCHANGED <<part, claimVars, count, asked, signals, arrived, buffered, closing, running,
                 beat, abandoned>>

(* Fault for PollReadsNothing: an empty read ends the poller. *)
PollReadsOnce(p, js) ==
  /\ poller[p] = "reading"
  /\ IF js = {} THEN UNCHANGED job ELSE Lease(p, asked[p], js)
  /\ poller' = [poller EXCEPT ![p] = "off"]
  /\ abandoned' = abandoned \cup NewLeases(js)
  /\ UNCHANGED <<part, claimVars, count, asked, brought, signals, arrived, buffered, closing,
                 running, beat>>

(* claimBlocking returns nothing or fails; jobs Redis delivered just then are
   leased, and nobody here knows. *)
PollReadsNothing(p, js) ==
  /\ poller[p] = "reading"
  /\ IF js = {} THEN UNCHANGED job ELSE Lease(p, asked[p], js)
  /\ poller' = [poller EXCEPT ![p] = "loop"]
  /\ abandoned' = abandoned \cup NewLeases(js)
  /\ UNCHANGED <<part, claimVars, count, asked, brought, signals, arrived, buffered, closing,
                 running, beat>>

(* Fault for PollBuffers: with no Claim waiting the jobs are dropped. *)
PollBuffersIfWaiting(p) ==
  /\ poller[p] = "back"
  /\ buffered' = IF waiting = 0 THEN buffered ELSE buffered \cup brought[p]
  /\ brought' = [brought EXCEPT ![p] = {}]
  /\ poller' = [poller EXCEPT ![p] = "off"]
  /\ signals' = signals + 1
  /\ UNCHANGED <<job, part, claimVars, count, asked, arrived, closing, running, beat, abandoned>>

(* Fault for PollBuffers: the poller goes on after it delivers. *)
PollBuffersAndGoesOn(p) ==
  /\ poller[p] = "back"
  /\ buffered' = buffered \cup brought[p]
  /\ brought' = [brought EXCEPT ![p] = {}]
  /\ poller' = [poller EXCEPT ![p] = "loop"]
  /\ signals' = signals + 1
  /\ UNCHANGED <<job, part, claimVars, count, asked, arrived, closing, running, beat, abandoned>>

PollBuffers(p) ==
  /\ poller[p] = "back"
  /\ buffered' = buffered \cup brought[p]
  /\ brought' = [brought EXCEPT ![p] = {}]
  /\ poller' = [poller EXCEPT ![p] = "off"]
  /\ signals' = signals + 1
  /\ UNCHANGED <<job, part, claimVars, count, asked, arrived, closing, running, beat, abandoned>>

(* Fault for PollSignals: the send blocks while the channel is full. *)
PollSignalsBlocking ==
  /\ signals > 0 /\ ~arrived
  /\ signals' = signals - 1
  /\ arrived' = TRUE
  /\ UNCHANGED <<job, part, claimVars, poller, count, asked, brought, buffered, closing, running,
                 beat, abandoned>>

PollSignals ==
  /\ signals > 0
  /\ signals' = signals - 1
  /\ arrived' = TRUE
  /\ UNCHANGED <<job, part, claimVars, poller, count, asked, brought, buffered, closing, running,
                 beat, abandoned>>

-----------------------------------------------------------------------------
(* ExtendBatch, called by the heartbeat while something is running *)

BeatStarts ==
  /\ beat = NoBeat /\ running # {}
  /\ beat' = [leases |-> running \cup buffered, left |-> Partitions,
              riding |-> buffered, lost |-> {}]
  /\ UNCHANGED <<job, part, claimVars, pollVars, buffered, closing, running, abandoned>>

InPart(ls, p) == {l \in ls : part[l.id] = p}
OwnedOf(ls) == {l \in ls : Owns(l)}

(* The call for partition p.  If it fails no lease counts as lost, whether or
   not it renewed them. *)
BeatExtends(p) ==
  LET ls == InPart(beat.leases, p)
      lost == InPart(beat.riding, p) \ OwnedOf(ls)
      renewed == Extend({l.id : l \in OwnedOf(ls)})
  IN  /\ p \in beat.left
      /\ \/ /\ renewed
            /\ beat' = [leases |-> beat.leases, left |-> beat.left \ {p},
                        riding |-> beat.riding, lost |-> beat.lost \cup lost]
         \/ (renewed \/ UNCHANGED job) /\ beat' = [beat EXCEPT !.left = @ \ {p}]
      /\ UNCHANGED <<part, claimVars, pollVars, buffered, closing, running, abandoned>>

BeatEnds ==
  /\ beat # NoBeat /\ beat.left = {}
  /\ buffered' = buffered \ beat.lost
  /\ beat' = NoBeat
  /\ UNCHANGED <<job, part, claimVars, pollVars, closing, running, abandoned>>

-----------------------------------------------------------------------------
(* Close *)

CloseStarts ==
  /\ Closes /\ closing = "open"
  /\ closing' = "closed"
  /\ UNCHANGED <<job, part, claimVars, pollVars, buffered, running, beat, abandoned>>

(* stopPolls, and closeAll, which makes blocked reads fail. *)
StopPolls ==
  /\ closing = "closed"
  /\ closing' = "stopped"
  /\ UNCHANGED <<job, part, claimVars, pollVars, buffered, running, beat, abandoned>>

(* pollers.Wait *)
CloseReturns ==
  /\ closing = "stopped"
  /\ \A p \in Partitions : poller[p] = "off"
  /\ signals = 0
  /\ closing' = "done"
  /\ UNCHANGED <<job, part, claimVars, pollVars, buffered, running, beat, abandoned>>

-----------------------------------------------------------------------------

ClaimStep ==
  \/ \E limit \in 1 .. Concurrency, ls \in SUBSET buffered : ClaimStarts(limit, ls)
  \/ \E js \in SUBSET In("waiting") : SweepNext(js) \/ SweepFails(js)
  \/ ClaimReturns \/ WaitForJobs \/ WakesUp \/ Leaves
  \/ \E ls \in SUBSET buffered : Takes(ls) \/ GivesUp(ls)

PollStep(p) ==
  \/ PollAgain(p) \/ PollBuffers(p)
  \/ \E js \in SUBSET In("waiting") : PollReads(p, js) \/ PollReadsNothing(p, js)

BeatStep ==
  BeatStarts \/ BeatEnds \/ \E p \in Partitions : BeatExtends(p)

Next ==
  \/ \E j \in Jobs : Submit(j) \/ LeaseExpires(j)
  \/ \E w \in Workers \ {Me}, j \in Jobs : OtherRecovers(w, j)
  \/ \E l \in running : Finish(l)
  \/ ClaimStep
  \/ \E p \in Partitions : PollStep(p)
  \/ PollSignals
  \/ BeatStep
  \/ CloseStarts \/ StopPolls \/ CloseReturns

Spec == Init /\ [][Next]_vars

(* The worker keeps claiming while it has a free slot, its runs end, a timer
   ends every wait, reads end by their deadline, and goroutines run. *)
FairSpec ==
  /\ Spec
  /\ WF_vars(ClaimStep)
  /\ WF_vars(\E ls \in SUBSET buffered : GivesUp(ls))
  /\ \A p \in Partitions : WF_vars(PollStep(p))
  /\ WF_vars(PollSignals)
  /\ WF_vars(StopPolls \/ CloseReturns)
  /\ WF_vars(\E l \in running : Finish(l))

-----------------------------------------------------------------------------
Leases == [id : Jobs, attempt : 0 .. MaxAttempts - 1, owner : {Me}, token : Nat \ {0}]

Calls ==
  [pc : {"idle", "sweep", "select", "take", "leave"}, limit : 0 .. Concurrency,
   swept : 0 .. Parts, got : SUBSET Leases]

Beats ==
  [leases : SUBSET Leases, left : SUBSET Partitions, riding : SUBSET Leases,
   lost : SUBSET Leases]

(* Every variable holds what the Go field it stands for can hold; at most one
   Claim waits, since one goroutine calls Claim. *)
TypeOK ==
  /\ QueueTypeOK
  /\ part \in [Jobs -> Partitions]
  /\ claim \in Calls
  /\ Cardinality(claim.got) <= claim.limit
  /\ claimNext \in Partitions
  /\ waiting = (IF claim.pc \in {"select", "take", "leave"} THEN 1 ELSE 0)
  /\ poller \in [Partitions -> {"off", "loop", "reading", "back"}]
  /\ brought \in [Partitions -> SUBSET Leases]
  /\ signals \in Nat /\ arrived \in BOOLEAN
  /\ buffered \subseteq Leases
  /\ closing \in {"open", "closed", "stopped", "done"}
  /\ running \subseteq Leases /\ Cardinality(running) <= Concurrency
  /\ beat \in Beats

(* The leases the process knows of, by where they are. *)
Places ==
  <<claim.got, buffered, UNION {brought[p] : p \in Partitions}, running>>

(* A job a long poll or a sweep has leased is in exactly one place: buffered,
   in a poller's or Claim's hands, or with the worker.  So no buffered job is
   handed out twice, and none is forgotten: the only leases this worker holds
   without knowing are those whose delivery was lost on the way. *)
EveryLeaseHasOnePlace ==
  /\ \A m, n \in 1 .. 4 : m # n => Places[m] \cap Places[n] = {}
  /\ \A j \in In("leased") : job[j].owner = Me =>
       LeaseOn(j) \in abandoned \cup UNION {Places[n] : n \in 1 .. 4}

(* A Claim never sleeps in its select while jobs are buffered and no wake-up
   is on its way: a dropped or stale signal on arrived costs nothing. *)
NoMissedSignal ==
  claim.pc = "select" /\ buffered # {} => arrived \/ signals > 0

(* While a Claim waits, every partition has a poller, or a poller that has
   delivered is about to wake the Claim ("an idle worker always has a read
   blocked on every partition").  A buffered job whose lease was lost is an
   exception: the heartbeat drops it, and its poller has gone. *)
PollersCover ==
  claim.pc = "select" /\ closing = "open" =>
    \A p \in Partitions : poller[p] # "off" \/ arrived \/ signals > 0

(* The buffer never holds more than two shares of every partition: pollers of
   an earlier wait can deliver during a sweep, before new ones are started,
   and no poller starts again before the buffer has been emptied. *)
BufferBounded ==
  Cardinality(buffered) <= 2 * Parts * Share(Concurrency)

(* Once Close has returned, no poller starts, reads or buffers any more. *)
ClosedForGood ==
  [][closing = "done" => poller' = poller /\ signals' = signals /\ buffered' \subseteq buffered]_vars

(* Close returns, whatever the pollers and the waiting Claim are doing. *)
CloseCompletes == closing = "closed" ~> closing = "done"

(* Buffered jobs are handed out (or dropped): the worker that polls keeps
   calling Claim, and Claim takes from the buffer first. *)
BufferDrains == buffered # {} ~> buffered = {}

-----------------------------------------------------------------------------
(* What the proofs need besides *)

(* The job has been handed out, and in this model it does not wait again. *)
Taken(j) == job[j].phase \notin {"absent", "waiting"}

(* The sets of leases are finite. *)
HeldIsFinite ==
  /\ IsFiniteSet(claim.got) /\ IsFiniteSet(buffered) /\ IsFiniteSet(running)
  /\ \A p \in Partitions : IsFiniteSet(brought[p])

(* Claim holds nothing before it starts and while it waits, and what it was
   asked for fits the free slots. *)
ClaimFits ==
  /\ claim.pc \in {"idle", "select", "take"} => claim.got = {}
  /\ claim.pc # "idle" =>
       claim.limit >= 1 /\ Cardinality(running) + claim.limit <= Concurrency

(* The leases held here are on jobs that have been handed out, so a lease that
   is new is held nowhere yet; a poller holds leases of its own partition, and
   only between its read and the buffer. *)
HeldIsTaken ==
  /\ \A l \in claim.got \cup buffered \cup running : Taken(l.id)
  /\ \A p \in Partitions : \A l \in brought[p] : Taken(l.id) /\ part[l.id] = p
  /\ \A p \in Partitions : poller[p] # "back" => brought[p] = {}

(* A buffered lease that a heartbeat found lost stays lost until it is dropped. *)
LostStaysLost ==
  /\ beat.riding \subseteq beat.leases
  /\ \A l \in beat.riding \cup beat.lost : Taken(l.id)
  /\ \A l \in beat.lost : ~Owns(l)

(* A Claim that is going to wait has looked at the buffer, and every job that
   came since has its signal. *)
SignalIsDue ==
  claim.pc = "select" \/ (claim.pc = "sweep" /\ claim.got = {}) =>
    buffered = {} \/ arrived \/ signals > 0

(* pollers.Wait has returned, and no poller can start any more. *)
PollersAreGone ==
  closing = "done" => signals = 0 /\ \A p \in Partitions : poller[p] = "off"

ShardedIInv ==
  /\ TypeOK /\ HeldIsFinite /\ ClaimFits
  /\ EveryLeaseHasOnePlace /\ HeldIsTaken /\ LostStaysLost
  /\ SignalIsDue /\ PollersAreGone

(* No poller asks for more than a share of all slots, or brings more. *)
AskedFits ==
  /\ count \in 0 .. Share(Concurrency)
  /\ asked \in [Partitions -> 0 .. Share(Concurrency)]
  /\ \A p \in Partitions : Cardinality(brought[p]) <= Share(Concurrency)

(* What a partition's poller can still add to the buffer before it is gone. *)
Coming(p) ==
  IF poller[p] \in {"loop", "reading"} THEN Share(Concurrency) ELSE Cardinality(brought[p])

(* The Claim found the buffer empty, and has found no job so far. *)
Empty == claim.pc = "sweep" /\ claim.got = {}

(* Each partition has at most two shares in the buffer or on the way; one, while
   a Claim sweeps that will start its poller again. *)
LoadFits ==
  \A p \in Partitions :
    Cardinality(InPart(buffered, p)) + Coming(p) <=
      IF Empty THEN Share(Concurrency) ELSE 2 * Share(Concurrency)

BufferIInv == AskedFits /\ LoadFits

(* The parts of the next invariant, for leases that never expire: what is buffered
   or on its way is leased to us, a poller that comes back brings jobs, and while
   a Claim waits a poller is gone only if it has delivered. *)
NoneExpired == \A j \in In("leased") : ~job[j].expired

ComingIsOwned ==
  /\ \A l \in buffered : Owns(l)
  /\ \A p \in Partitions : \A l \in brought[p] : Owns(l)

BackHasJobs == \A p \in Partitions : poller[p] = "back" => brought[p] # {}

GoneHasDelivered ==
  claim.pc \in {"select", "take"} /\ closing = "open" =>
    \A p \in Partitions : poller[p] = "off" => buffered # {}

CoverIInv == NoneExpired /\ ComingIsOwned /\ BackHasJobs /\ GoneHasDelivered
=============================================================================
