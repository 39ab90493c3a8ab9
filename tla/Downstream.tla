------------------------------ MODULE Downstream ------------------------------
(***************************************************************************)
(* Exactly-once effects: the chaos test's handler and the downstream it    *)
(* writes to, on top of an at-least-once queue.  Every lease handed out is *)
(* a run of the handler; runs of one job interleave freely, because a      *)
(* paused worker goes on after its lease was taken over.                   *)
(***************************************************************************)
EXTENDS TaskQueue, Functions

CONSTANTS
  MaxDeliveries, \* WorkerConfig.MaxDeliveries
  TokenSpan,     \* 2^32, the range FencingToken leaves to the delivery count
  MaxToken       \* bound of the model: a lease changes hands this often

ASSUME DownstreamAssumption ==
  MaxDeliveries \in Nat /\ TokenSpan \in Nat /\ MaxToken \in Nat \ {0} /\ MaxToken < TokenSpan

VARIABLES
  run,     \* lease -> how far the run with this lease has come
  fence,   \* job ID -> highest fencing token seen, if any
  applied, \* job IDs whose effect was applied (HSETNX)
  effects, \* how many effects each job had
  begun    \* history: the leases whose run downstream.begin let through

downstreamVars == <<fence, applied, effects>>
vars == <<job, run, downstreamVars, begun>>

FencingToken(l) == l.attempt * TokenSpan + l.token

Init ==
  /\ QueueInit
  /\ run = <<>>
  /\ fence = <<>>
  /\ applied = {}
  /\ effects = [j \in Jobs |-> 0]
  /\ begun = {}

Submit(j) == Enqueue({j}) /\ UNCHANGED <<run, downstreamVars, begun>>

LeaseExpires(j) == Expire(j) /\ UNCHANGED <<run, downstreamVars, begun>>

(* A worker leases j, for the first time or by recovery, and starts a run. *)
Begins(l) ==
  run' = [k \in DOMAIN run \cup {l} |-> IF k = l THEN "new" ELSE run[k]]

StartRun(w, j) ==
  /\ \/ /\ Claim(w, {j})
        /\ Begins([id |-> j, attempt |-> job[j].attempt, owner |-> w, token |-> 1])
     \/ /\ RecoverExpired(w, {j})
        /\ job[j].token < MaxToken
        /\ Begins([id |-> j, attempt |-> job[j].attempt, owner |-> w,
                   token |-> job[j].token + 1])
  /\ UNCHANGED <<downstreamVars, begun>>

At(l, pc) == l \in DOMAIN run /\ run[l] = pc
Goto(l, pc) == run' = [run EXCEPT ![l] = pc]

(* The handler returns a retryable error. *)
Fails(l) == Goto(l, IF Exhausted(l.attempt) THEN "burying" ELSE "retrying")

(* fence: a token lower than the highest seen is rejected. *)
Fenced(l) == l.id \in DOMAIN fence /\ FencingToken(l) < fence[l.id]

RaiseFence(l) ==
  fence' = [j \in DOMAIN fence \cup {l.id} |->
              IF j = l.id THEN FencingToken(l) ELSE fence[j]]

(* handleOne's check. *)
TooMany(l) ==
  /\ At(l, "new")
  /\ l.token > MaxDeliveries
  /\ Goto(l, "burying")
  /\ UNCHANGED <<job, downstreamVars, begun>>

(* Fault for Begin: the token is compared, not remembered. *)
BeginUnfenced(l) ==
  /\ At(l, "new")
  /\ l.token <= MaxDeliveries /\ ~Fenced(l)
  /\ begun' = begun \cup {l}
  /\ Goto(l, "working")
  /\ UNCHANGED <<job, downstreamVars>>

(* downstream.begin.  The run fails if it is fenced, or if the call does not
   arrive or its reply is lost. *)
Begin(l) ==
  /\ At(l, "new")
  /\ l.token <= MaxDeliveries
  /\ \/ Fails(l) /\ UNCHANGED <<fence, begun>>
     \/ /\ ~Fenced(l)
        /\ RaiseFence(l)
        /\ begun' = begun \cup {l}
        /\ Goto(l, "working") \/ Fails(l)
  /\ UNCHANGED <<job, applied, effects>>

(* The work takes its time and fails, for good or not, or gets as far as the
   effect. *)
Work(l) ==
  /\ At(l, "working")
  /\ Goto(l, "applying") \/ Goto(l, "burying") \/ Fails(l)
  /\ UNCHANGED <<job, downstreamVars, begun>>

(* Fault for Apply: the fence alone is trusted to stop duplicates. *)
ApplyAgain(l) ==
  /\ At(l, "applying")
  /\ ~Fenced(l)
  /\ RaiseFence(l)
  /\ applied' = applied \cup {l.id}
  /\ effects' = [effects EXCEPT ![l.id] = @ + 1]
  /\ Goto(l, "acking") \/ Fails(l)
  /\ UNCHANGED <<job, begun>>

(* downstream.apply: the effect is applied unless it is fenced or was applied
   before.  The run fails if it is fenced, or if the call does not arrive or
   its reply is lost. *)
Apply(l) ==
  /\ At(l, "applying")
  /\ \/ Fails(l) /\ UNCHANGED downstreamVars
     \/ /\ ~Fenced(l)
        /\ RaiseFence(l)
        /\ applied' = applied \cup {l.id}
        /\ effects' = IF l.id \in applied THEN effects
                      ELSE [effects EXCEPT ![l.id] = @ + 1]
        /\ Goto(l, "acking") \/ Fails(l)
  /\ UNCHANGED <<job, begun>>

(* The settling call.  With a lost lease it changes nothing; it may also fail,
   and then the job is recovered later. *)
Settle(l) ==
  /\ \/ At(l, "acking") /\ Owns(l) /\ Ack({l.id})
     \/ At(l, "retrying") /\ Owns(l) /\ Retry(l.id)
     \/ At(l, "burying") /\ Owns(l) /\ DeadLetter(l.id)
     \/ run[l] \in {"acking", "retrying", "burying"} /\ UNCHANGED job
  /\ Goto(l, "over")
  /\ UNCHANGED <<downstreamVars, begun>>

(* The worker crashes, or the handler stops because its context is done. *)
Vanish(l) ==
  /\ run[l] # "over"
  /\ Goto(l, "over")
  /\ UNCHANGED <<job, downstreamVars, begun>>

Next ==
  \/ \E j \in Jobs : Submit(j) \/ LeaseExpires(j) \/ \E w \in Workers : StartRun(w, j)
  \/ \E l \in DOMAIN run :
       TooMany(l) \/ Begin(l) \/ Work(l) \/ Apply(l) \/ Settle(l) \/ Vanish(l)

Spec == Init /\ [][Next]_vars

-----------------------------------------------------------------------------
(* Properties *)

TypeOK ==
  /\ QueueTypeOK
  /\ \A l \in DOMAIN run : l.id \in Jobs /\ l.attempt \in Nat /\ l.token \in 1 .. MaxToken
  /\ DOMAIN fence \subseteq Jobs
  /\ \A j \in DOMAIN fence : fence[j] \in Nat
  /\ applied \subseteq Jobs
  /\ DOMAIN effects = Jobs
  /\ begun \subseteq DOMAIN run

(* chaos report: "Every job that wasn't dead-lettered must have had its effect
   applied exactly once; a dead-lettered one at most once."  However often the
   handler ran, crashed after its effect, or ran twice at a time. *)
EffectOnce ==
  \A j \in Jobs : effects[j] <= 1 /\ (job[j] = Done => effects[j] = 1)

(* This step is the one in which the run with lease l has its effect. *)
HasEffect(l) ==
  run[l] = "applying" /\ run'[l] # run[l] /\ effects'[l.id] > effects[l.id]

(* downstream.begin: a run that was superseded "is rejected even if it's the
   first to write".  Once a later run of the job has begun, an earlier one
   never produces the effect, though it may be the same worker's. *)
SupersededHasNoEffect ==
  [][\A l \in DOMAIN run, k \in begun :
       HasEffect(l) /\ k.id = l.id => FencingToken(k) <= FencingToken(l)]_vars

-----------------------------------------------------------------------------
(* What the proofs need besides *)

(* A job's effect was counted if and only if HSETNX recorded it, and it was
   before any run acks the job. *)
EffectIsRecorded ==
  /\ \A j \in Jobs : effects[j] = IF j \in applied THEN 1 ELSE 0
  /\ \A l \in DOMAIN run : run[l] = "acking" => l.id \in applied
  /\ \A j \in Jobs : job[j].phase = "done" => j \in applied

(* The fence is at least as high as the token of every run that has begun. *)
FenceIsHighest ==
  \A k \in begun : k.id \in DOMAIN fence /\ FencingToken(k) <= fence[k.id]

IInv == TypeOK /\ EffectIsRecorded /\ FenceIsHighest
=============================================================================
