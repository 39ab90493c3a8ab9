--------------------------- MODULE DownstreamProofs ---------------------------
(***************************************************************************)
(* Proofs that effects are exactly-once and that superseded runs have      *)
(* none, for every number of jobs, workers, attempts and deliveries; that  *)
(* the chaos test is a behaviour of Downstream, and that its report never  *)
(* blames a settled job, whatever it kills, pauses and crashes.            *)
(***************************************************************************)
EXTENDS Chaos, TaskQueueProofs

(* Leaves are Zenon's, but for those that name SMT. *)
USE Zenon

(* A fencing token is a natural number. *)
LEMMA FencingTokenType ==
  ASSUME NEW l, l.attempt \in Nat, l.token \in Nat
  PROVE  FencingToken(l) \in Nat
BY DownstreamAssumption, SMT DEF FencingToken

(* A step that leaves all variables alone preserves the invariant. *)
LEMMA StutterInv == IInv /\ UNCHANGED vars => IInv'
BY DEF IInv, TypeOK, QueueTypeOK, EffectIsRecorded, FenceIsHighest, FencingToken,
       vars, downstreamVars

(* Moving one run on to a place other than "acking" keeps what the invariant
   says of runs. *)
LEMMA GotoKeeps ==
  ASSUME IInv, NEW l \in DOMAIN run, NEW pc, Goto(l, pc)
  PROVE  /\ DOMAIN run' = DOMAIN run
         /\ \A k \in DOMAIN run' :
              k.id \in Jobs /\ k.attempt \in Nat /\ k.token \in 1 .. MaxToken
         /\ run'[l] = pc
         /\ \A k \in DOMAIN run' : k # l => run'[k] = run[k]
BY DEF Goto, IInv, TypeOK

(* The invariant holds of the empty queue and downstream. *)
LEMMA InitInv == Init => IInv
<1> SUFFICES ASSUME Init  PROVE IInv
  OBVIOUS
<1>1. QueueTypeOK /\ \A j \in Jobs : job[j].phase = "absent"
  BY Records DEF Init, QueueInit, QueueTypeOK
<1>2. DOMAIN run = {} /\ DOMAIN fence = {}
  BY SMT DEF Init
<1> QED
  BY <1>1, <1>2 DEF Init, IInv, TypeOK, EffectIsRecorded, FenceIsHighest

(* What happens only in the queue, and makes no job done, keeps the rest. *)
LEMMA QueueStep ==
  ASSUME IInv, QueueTypeOK', UNCHANGED <<run, downstreamVars, begun>>,
         \A j \in Jobs : job'[j].phase = "done" => job[j].phase = "done"
  PROVE  IInv'
BY DEF IInv, TypeOK, EffectIsRecorded, FenceIsHighest, FencingToken, downstreamVars

(* A new run changes nothing else. *)
LEMMA BeginsInv ==
  ASSUME IInv, QueueTypeOK', UNCHANGED <<downstreamVars, begun>>,
         \A j \in Jobs : job'[j].phase = "done" => job[j].phase = "done",
         NEW l, Begins(l),
         l.id \in Jobs, l.attempt \in Nat, l.token \in 1 .. MaxToken
  PROVE  IInv'
<1>1. /\ DOMAIN run' = DOMAIN run \cup {l}
      /\ run'[l] = "new"
      /\ \A k \in DOMAIN run : k # l => run'[k] = run[k]
  BY DEF Begins
<1> QED
  BY <1>1 DEF IInv, TypeOK, EffectIsRecorded, FenceIsHighest, FencingToken, downstreamVars

(* Leasing a job, by claim or by recovery, and starting a run keeps the
   invariant. *)
LEMMA StartRunInv ==
  ASSUME IInv, NEW w \in Workers, NEW j \in Jobs, StartRun(w, j)
  PROVE  IInv'
<1>0. QueueTypeOK /\ UNCHANGED <<downstreamVars, begun>>
  BY DEF IInv, TypeOK, StartRun
<1>1. CASE /\ Claim(w, {j})
           /\ Begins([id |-> j, attempt |-> job[j].attempt, owner |-> w, token |-> 1])
  <2> DEFINE l == [id |-> j, attempt |-> job[j].attempt, owner |-> w, token |-> 1]
  <2>1. j \in In("waiting")
    BY <1>1 DEF Claim
  <2>2. job[j].attempt \in Nat /\ 1 \in 1 .. MaxToken
    BY <1>0, <2>1, FieldTypes, DownstreamAssumption, QueueAssumption, SMT
  <2>3. l.id \in Jobs /\ l.attempt \in Nat /\ l.token \in 1 .. MaxToken
    BY <2>2
  <2>4. QueueTypeOK' /\ \A i \in Jobs : job'[i].phase = "done" => job[i].phase = "done"
    BY <1>0, <1>1, ClaimType
  <2>5. Begins(l)
    BY <1>1
  <2> HIDE DEF l
  <2> QED
    BY <1>0, <2>3, <2>4, <2>5, BeginsInv
<1>2. CASE /\ RecoverExpired(w, {j})
           /\ job[j].token < MaxToken
           /\ Begins([id |-> j, attempt |-> job[j].attempt, owner |-> w,
                      token |-> job[j].token + 1])
  <2> DEFINE l == [id |-> j, attempt |-> job[j].attempt, owner |-> w,
                   token |-> job[j].token + 1]
  <2>1. j \in In("leased")
    BY <1>2 DEF RecoverExpired
  <2>2. job[j].attempt \in Nat /\ job[j].token + 1 \in 1 .. MaxToken
    BY <1>0, <1>2, <2>1, FieldTypes, DownstreamAssumption, QueueAssumption, SMT
  <2>3. l.id \in Jobs /\ l.attempt \in Nat /\ l.token \in 1 .. MaxToken
    BY <2>2
  <2>4. QueueTypeOK' /\ \A i \in Jobs : job'[i].phase = "done" => job[i].phase = "done"
    BY <1>0, <1>2, RecoverType
  <2>5. Begins(l)
    BY <1>2
  <2> HIDE DEF l
  <2> QED
    BY <1>0, <2>3, <2>4, <2>5, BeginsInv
<1> QED
  BY <1>1, <1>2 DEF StartRun

(* A step that only moves a run on, to some place but "acking". *)
LEMMA GotoInv ==
  ASSUME IInv, NEW l \in DOMAIN run, NEW pc, pc # "acking", Goto(l, pc),
         UNCHANGED <<job, downstreamVars, begun>>
  PROVE  IInv'
BY GotoKeeps, SMT DEF IInv, TypeOK, QueueTypeOK, EffectIsRecorded, FenceIsHighest,
                 FencingToken, downstreamVars

(* Where a failed run goes is not "acking". *)
LEMMA FailsGoes ==
  ASSUME NEW l, Fails(l)
  PROVE  \E pc : pc # "acking" /\ Goto(l, pc)
BY DEF Fails

(* Raising the fence to the token of a run that is not fenced keeps it the
   highest, also if that run begins now. *)
LEMMA RaiseFenceKeeps ==
  ASSUME IInv, NEW l \in DOMAIN run, ~Fenced(l), RaiseFence(l)
  PROVE  /\ DOMAIN fence' \subseteq Jobs
         /\ \A j \in DOMAIN fence' : fence'[j] \in Nat
         /\ \A k \in begun \cup {l} :
              k.id \in DOMAIN fence' /\ FencingToken(k) <= fence'[k.id]
<1>1. l.id \in Jobs /\ FencingToken(l) \in Nat
  BY FencingTokenType, SMT DEF IInv, TypeOK
<1>2. /\ DOMAIN fence' = DOMAIN fence \cup {l.id}
      /\ fence'[l.id] = FencingToken(l)
      /\ \A j \in DOMAIN fence : j # l.id => fence'[j] = fence[j]
  BY DEF RaiseFence
<1>3. ASSUME NEW k \in begun
      PROVE  k.id \in DOMAIN fence' /\ FencingToken(k) <= fence'[k.id]
  <2>1. /\ k \in DOMAIN run /\ k.id \in DOMAIN fence
        /\ FencingToken(k) <= fence[k.id] /\ fence[k.id] \in Nat
    BY DEF IInv, TypeOK, FenceIsHighest
  <2>2. FencingToken(k) \in Nat
    BY <2>1, FencingTokenType, SMT DEF IInv, TypeOK
  <2> QED
    BY <1>1, <1>2, <2>1, <2>2, SMT DEF Fenced
<1> QED
  BY <1>1, <1>2, <1>3, SMT DEF IInv, TypeOK

(* downstream.begin keeps the invariant. *)
LEMMA BeginInv ==
  ASSUME IInv, NEW l \in DOMAIN run, Begin(l)
  PROVE  IInv'
<1>1. CASE Fails(l) /\ UNCHANGED <<fence, begun>>
  BY <1>1, FailsGoes, GotoInv DEF Begin, downstreamVars
<1>2. CASE /\ ~Fenced(l) /\ RaiseFence(l) /\ begun' = begun \cup {l}
           /\ Goto(l, "working") \/ Fails(l)
  <2>1. PICK pc : pc # "acking" /\ Goto(l, pc)
    BY <1>2, FailsGoes
  <2>2. UNCHANGED <<job, applied, effects>>
    BY DEF Begin
  <2>3. QueueTypeOK'
    BY <2>2 DEF IInv, TypeOK, QueueTypeOK
  <2>4. TypeOK'
    BY <1>2, <2>1, <2>2, <2>3, GotoKeeps, RaiseFenceKeeps DEF IInv, TypeOK
  <2>5. EffectIsRecorded'
    BY <2>1, <2>2, GotoKeeps, SMT DEF IInv, EffectIsRecorded
  <2>6. FenceIsHighest'
    BY <1>2, RaiseFenceKeeps DEF FenceIsHighest, FencingToken
  <2> QED
    BY <2>4, <2>5, <2>6 DEF IInv
<1> QED
  BY <1>1, <1>2 DEF Begin

(* downstream.apply keeps the invariant: HSETNX and the count go together. *)
LEMMA ApplyInv ==
  ASSUME IInv, NEW l \in DOMAIN run, Apply(l)
  PROVE  IInv'
<1>1. CASE Fails(l) /\ UNCHANGED downstreamVars
  BY <1>1, FailsGoes, GotoInv DEF Apply
<1>2. CASE /\ ~Fenced(l) /\ RaiseFence(l)
           /\ applied' = applied \cup {l.id}
           /\ effects' = IF l.id \in applied THEN effects
                         ELSE [effects EXCEPT ![l.id] = @ + 1]
           /\ Goto(l, "acking") \/ Fails(l)
  <2>1. PICK pc : Goto(l, pc)
    BY <1>2, FailsGoes
  <2>2. UNCHANGED <<job, begun>>
    BY DEF Apply
  <2>3. QueueTypeOK' /\ l.id \in Jobs
    BY <2>2 DEF IInv, TypeOK, QueueTypeOK
  <2>4. TypeOK'
    <3>1. DOMAIN effects' = Jobs
      BY <1>2 DEF IInv, TypeOK
    <3> QED
      BY <1>2, <2>1, <2>2, <2>3, <3>1, GotoKeeps, RaiseFenceKeeps DEF IInv, TypeOK
  <2>5. EffectIsRecorded'
    <3>1. \A j \in Jobs : effects'[j] = IF j \in applied' THEN 1 ELSE 0
      BY <1>2, <2>3, SMT DEF IInv, TypeOK, EffectIsRecorded
    <3> QED
      BY <1>2, <2>1, <2>2, <3>1, GotoKeeps DEF IInv, EffectIsRecorded
  <2>6. FenceIsHighest'
    BY <1>2, <2>2, RaiseFenceKeeps DEF FenceIsHighest, FencingToken
  <2> QED
    BY <2>4, <2>5, <2>6 DEF IInv
<1> QED
  BY <1>1, <1>2 DEF Apply

(* Only a run that has had its effect, or found it applied, acks its job. *)
LEMMA SettleInv ==
  ASSUME IInv, NEW l \in DOMAIN run, Settle(l)
  PROVE  IInv'
<1>1. /\ QueueTypeOK /\ l.id \in Jobs
      /\ Goto(l, "over") /\ UNCHANGED <<downstreamVars, begun>>
  BY DEF IInv, TypeOK, Settle
<1>2. /\ QueueTypeOK'
      /\ \A j \in Jobs : job'[j].phase = "done" => job[j].phase = "done" \/ j \in applied
  <2>1. CASE At(l, "acking") /\ Ack({l.id})
    BY <1>1, <2>1, AckType DEF At, IInv, EffectIsRecorded
  <2>2. CASE Retry(l.id)
    BY <1>1, <2>2, RetryType
  <2>3. CASE DeadLetter(l.id)
    BY <1>1, <2>3, DeadLetterType
  <2>4. CASE UNCHANGED job
    BY <1>1, <2>4 DEF QueueTypeOK
  <2> QED
    BY <2>1, <2>2, <2>3, <2>4 DEF Settle
<1>3. TypeOK'
  BY <1>1, <1>2, GotoKeeps DEF IInv, TypeOK, downstreamVars
<1>4. EffectIsRecorded'
  BY <1>1, <1>2, GotoKeeps, SMT DEF IInv, EffectIsRecorded, downstreamVars
<1>5. FenceIsHighest'
  BY <1>1 DEF IInv, FenceIsHighest, FencingToken, downstreamVars
<1> QED
  BY <1>3, <1>4, <1>5 DEF IInv

(* Every step of the specification preserves the invariant. *)
LEMMA NextInv == IInv /\ [Next]_vars => IInv'
<1> SUFFICES ASSUME IInv, [Next]_vars  PROVE IInv'
  OBVIOUS
<1>0. QueueTypeOK
  BY DEF IInv, TypeOK
<1>1. ASSUME NEW j \in Jobs, Submit(j)  PROVE IInv'
  BY <1>0, <1>1, EnqueueType, QueueStep DEF Submit
<1>2. ASSUME NEW j \in Jobs, LeaseExpires(j)  PROVE IInv'
  BY <1>0, <1>2, ExpireType, QueueStep DEF LeaseExpires
<1>3. ASSUME NEW j \in Jobs, NEW w \in Workers, StartRun(w, j)  PROVE IInv'
  BY <1>3, StartRunInv
<1>4. ASSUME NEW l \in DOMAIN run, TooMany(l)  PROVE IInv'
  BY <1>4, GotoInv DEF TooMany
<1>5. ASSUME NEW l \in DOMAIN run, Begin(l)  PROVE IInv'
  BY <1>5, BeginInv
<1>6. ASSUME NEW l \in DOMAIN run, Work(l)  PROVE IInv'
  <2>1. PICK pc : pc # "acking" /\ Goto(l, pc)
    BY <1>6, FailsGoes DEF Work
  <2> QED
    BY <1>6, <2>1, GotoInv DEF Work
<1>7. ASSUME NEW l \in DOMAIN run, Apply(l)  PROVE IInv'
  BY <1>7, ApplyInv
<1>8. ASSUME NEW l \in DOMAIN run, Settle(l)  PROVE IInv'
  BY <1>8, SettleInv
<1>9. ASSUME NEW l \in DOMAIN run, Vanish(l)  PROVE IInv'
  BY <1>9, GotoInv DEF Vanish
<1>10. CASE UNCHANGED vars
  BY <1>10, StutterInv
<1> QED
  BY <1>1, <1>2, <1>3, <1>4, <1>5, <1>6, <1>7, <1>8, <1>9, <1>10 DEF Next

(* The inductive invariant holds in every reachable state. *)
THEOREM InductiveInvariant == Spec => []IInv
BY InitInv, NextInv, PTL DEF Spec

(* The records of jobs, runs and the downstream keep their types. *)
THEOREM TypeCorrect == Spec => []TypeOK
<1>1. IInv => TypeOK
  BY DEF IInv
<1> QED
  BY <1>1, InductiveInvariant, PTL

(* A completed job's effect was applied exactly once, any other's at most
   once, however many runs the handler had and wherever they stopped. *)
THEOREM EffectsAreExactlyOnce == Spec => []EffectOnce
<1>1. IInv => EffectOnce
  <2> SUFFICES ASSUME IInv, NEW j \in Jobs
               PROVE  effects[j] <= 1 /\ (job[j] = Done => effects[j] = 1)
    BY DEF EffectOnce
  <2>1. effects[j] = IF j \in applied THEN 1 ELSE 0
    BY DEF IInv, EffectIsRecorded
  <2>2. job[j] = Done => j \in applied
    BY Records DEF IInv, EffectIsRecorded
  <2> QED
    BY <2>1, <2>2, SMT
<1> QED
  BY <1>1, InductiveInvariant, PTL

(* A step in which the run with lease l has its effect is its call of
   downstream.apply, and the fence lets it pass. *)
LEMMA EffectPassesFence ==
  ASSUME IInv, Next, NEW l \in DOMAIN run, HasEffect(l)
  PROVE  ~Fenced(l)
<1>1. l.id \in Jobs /\ effects[l.id] \in Nat
  BY SMT DEF IInv, TypeOK, EffectIsRecorded
<1>2. ~UNCHANGED effects
  BY <1>1, SMT DEF HasEffect
<1>3. PICK k \in DOMAIN run : Apply(k)
  <2>1. ASSUME NEW j \in Jobs, Submit(j)  PROVE FALSE
    BY <1>2, <2>1 DEF Submit, downstreamVars
  <2>2. ASSUME NEW j \in Jobs, LeaseExpires(j)  PROVE FALSE
    BY <1>2, <2>2 DEF LeaseExpires, downstreamVars
  <2>3. ASSUME NEW j \in Jobs, NEW w \in Workers, StartRun(w, j)  PROVE FALSE
    BY <1>2, <2>3 DEF StartRun, downstreamVars
  <2>4. ASSUME NEW k \in DOMAIN run, TooMany(k) \/ Work(k) \/ Settle(k) \/ Vanish(k)
        PROVE  FALSE
    BY <1>2, <2>4 DEF TooMany, Work, Settle, Vanish, downstreamVars
  <2>5. ASSUME NEW k \in DOMAIN run, Begin(k)  PROVE FALSE
    BY <1>2, <2>5 DEF Begin
  <2> QED
    BY <2>1, <2>2, <2>3, <2>4, <2>5 DEF Next
<1>4. PICK pc : Goto(k, pc)
  BY <1>3, FailsGoes DEF Apply
<1>5. k = l
  BY <1>4, GotoKeeps DEF HasEffect
<1> QED
  BY <1>2, <1>3, <1>5 DEF Apply, downstreamVars

(* Once a later run of a job has begun at the downstream, an earlier run never
   has the effect. *)
THEOREM SupersededRunsHaveNoEffect == Spec => SupersededHasNoEffect
<1>1. ASSUME IInv, [Next]_vars,
             NEW l \in DOMAIN run, NEW k \in begun, HasEffect(l), k.id = l.id
      PROVE  FencingToken(k) <= FencingToken(l)
  <2>1. CASE Next
    <3>1. ~Fenced(l)
      BY <1>1, <2>1, EffectPassesFence
    <3>2. k \in DOMAIN run /\ k.id \in DOMAIN fence /\ FencingToken(k) <= fence[k.id]
      BY <1>1 DEF IInv, TypeOK, FenceIsHighest
    <3>3. FencingToken(k) \in Nat /\ FencingToken(l) \in Nat /\ fence[k.id] \in Nat
      BY <1>1, <3>2, FencingTokenType, SMT DEF IInv, TypeOK
    <3> QED
      BY <1>1, <3>1, <3>2, <3>3, SMT DEF Fenced
  <2>2. CASE UNCHANGED vars
    BY <1>1, <2>2 DEF HasEffect, vars
  <2> QED
    BY <1>1, <2>1, <2>2
<1>2. IInv /\ [Next]_vars =>
        [\A l \in DOMAIN run, k \in begun :
           HasEffect(l) /\ k.id = l.id => FencingToken(k) <= FencingToken(l)]_vars
  BY <1>1
<1> QED
  BY <1>2, InductiveInvariant, PTL DEF Spec, SupersededHasNoEffect

-----------------------------------------------------------------------------
(* The chaos test *)

(* The handler of the chaos test is one that may fail, bury or have its effect. *)
LEMMA HandleWorks ==
  ASSUME NEW l \in DOMAIN run, Handle(l)
  PROVE  Work(l)
BY DEF Handle, Work

(* A step of a run is a step of Downstream. *)
LEMMA RunStepRefines ==
  ASSUME NEW l \in DOMAIN run, RunStep(l)
  PROVE  Next
BY HandleWorks DEF RunStep, Next

(* Every step of the test is a step of Downstream or leaves its state alone. *)
LEMMA ChaosRefinesNext == [ChaosNext]_allVars => [Next]_vars
<1> SUFFICES ASSUME [ChaosNext]_allVars  PROVE [Next]_vars
  OBVIOUS
<1>1. ASSUME NEW j \in Jobs, EnqueueJob(j)  PROVE Next
  BY <1>1 DEF EnqueueJob, Next
<1>2. ASSUME NEW ws, SpawnFleet(ws)  PROVE UNCHANGED vars
  BY <1>2 DEF SpawnFleet
<1>3. CASE FaultsStop \/ StopAll
  BY <1>3 DEF FaultsStop, StopAll
<1>4. ASSUME NEW seen, Report(seen)  PROVE UNCHANGED vars
  BY <1>4 DEF Report
<1>5. ASSUME NEW w, NEW v, Kill(w, v)  PROVE UNCHANGED vars
  BY <1>5 DEF Kill
<1>6. ASSUME NEW w, Pause(w) \/ Resume(w) \/ WorkerExits(w) \/ WorkerCrashes(w)
      PROVE  UNCHANGED vars
  BY <1>6 DEF Pause, Resume, WorkerExits, WorkerCrashes
<1>7. ASSUME NEW w \in Workers, NEW j \in Jobs, TakeJob(w, j)  PROVE Next
  BY <1>7 DEF TakeJob, Next
<1>8. ASSUME NEW w, WorkerStep(w)  PROVE Next
  BY <1>8, RunStepRefines DEF WorkerStep, Runs
<1>9. ASSUME NEW j \in Jobs, LeaseExpires(j)  PROVE Next
  BY <1>9 DEF Next
<1>10. CASE UNCHANGED allVars
  BY <1>10 DEF allVars
<1> QED
  BY <1>1, <1>2, <1>3, <1>4, <1>5, <1>6, <1>7, <1>8, <1>9, <1>10 DEF ChaosNext, Controller

(* Whatever the controller kills, freezes and resumes, the workers and the
   downstream behave as Downstream allows. *)
THEOREM ChaosImplementsDownstream == ChaosSpec => ImplementsDownstream
<1>1. ChaosInit => Init
  BY DEF ChaosInit
<1> QED
  BY <1>1, ChaosRefinesNext, PTL DEF ChaosSpec, Spec, ImplementsDownstream

(* So the chaos test's effects are exactly-once. *)
THEOREM ChaosEffectsAreExactlyOnce == ChaosSpec => []EffectOnce
BY ChaosImplementsDownstream, EffectsAreExactlyOnce, PTL DEF ImplementsDownstream

(* And a superseded run of its handler has none. *)
THEOREM ChaosSupersededRunsHaveNoEffect == ChaosSpec => SupersededHasNoEffect
BY ChaosImplementsDownstream, SupersededRunsHaveNoEffect DEF ImplementsDownstream

-----------------------------------------------------------------------------
(* The report *)

(* Every check of report passes on a job that is settled. *)
LEMMA SettledPasses ==
  ASSUME ChaosIInv, NEW j \in Jobs, job[j] \in {Done, Dead}
  PROVE  Passes(j)
<1>1. effects[j] = IF j \in applied THEN 1 ELSE 0
  BY DEF ChaosIInv, IInv, EffectIsRecorded
<1>2. CASE job[j] = Done
  <2>1. j \in applied /\ j \in ledger /\ j \notin permanent
    BY <1>2, Records DEF ChaosIInv, IInv, EffectIsRecorded, LedgerIsRight
  <2> QED
    BY <1>1, <2>1, SMT DEF Passes, Lost, Misrouted, DuplicateEffect, MissingEffect
<1>3. CASE job[j] = Dead
  <2>1. ~(j \in permanent /\ j \in ledger)
    BY DEF ChaosIInv, LedgerIsRight
  <2> QED
    BY <1>1, <1>3, <2>1, SMT DEF Passes, Lost, Misrouted, DuplicateEffect, MissingEffect
<1> QED
  BY <1>2, <1>3

(* The ledger is right before the first run. *)
LEMMA ChaosInitInv == ChaosInit => ChaosIInv
<1> SUFFICES ASSUME ChaosInit  PROVE ChaosIInv
  OBVIOUS
<1>1. IInv
  BY InitInv DEF ChaosInit
<1>2. ChaosTypeOK
  BY <1>1, ChaosAssumption, SMT DEF ChaosInit, ChaosTypeOK, IInv
<1>3. LedgerIsRight
  <2>1. \A j \in Jobs : job[j].phase # "done"
    BY Records DEF ChaosInit, Init, QueueInit
  <2>2. DOMAIN run = {}
    BY SMT DEF ChaosInit, Init
  <2> QED
    BY <2>1, <2>2 DEF ChaosInit, LedgerIsRight
<1>4. VerdictIsLast
  BY DEF ChaosInit, VerdictIsLast
<1> QED
  BY <1>1, <1>2, <1>3, <1>4 DEF ChaosIInv

(* Moving a run on keeps the ledger right, if the run is in the ledger or does
   not come nearer to its effect. *)
LEMMA GotoKeepsLedger ==
  ASSUME IInv, LedgerIsRight, NEW l \in DOMAIN run, NEW pc, Goto(l, pc),
         pc \in {"applying", "acking"} => l.id \in ledger,
         UNCHANGED <<permanent, ledger>>,
         \A j \in Jobs : job'[j].phase = "done" => job[j].phase = "done" \/ j \in ledger
  PROVE  LedgerIsRight'
BY GotoKeeps DEF LedgerIsRight

(* Where a failed run goes is neither of the places before and after its effect. *)
LEMMA FailsAway ==
  ASSUME NEW l, Fails(l)
  PROVE  \E pc : pc \notin {"applying", "acking"} /\ Goto(l, pc)
BY DEF Fails

(* A step of a run keeps the ledger right: only a run that logged its job comes
   to its effect and acks. *)
LEMMA RunStepKeepsLedger ==
  ASSUME ChaosIInv, NEW l \in DOMAIN run, RunStep(l)
  PROVE  LedgerIsRight'
<1>0. /\ IInv /\ LedgerIsRight /\ QueueTypeOK /\ l.id \in Jobs
      /\ UNCHANGED job => \A j \in Jobs : job'[j].phase = "done" => job[j].phase = "done"
  BY DEF ChaosIInv, IInv, TypeOK
<1>1. CASE TooMany(l) /\ UNCHANGED chaosVars
  BY <1>0, <1>1, GotoKeepsLedger DEF TooMany, chaosVars
<1>2. CASE Begin(l) /\ UNCHANGED chaosVars
  <2>1. PICK pc : pc \notin {"applying", "acking"} /\ Goto(l, pc)
    BY <1>2, FailsAway DEF Begin
  <2> QED
    BY <1>0, <1>2, <2>1, GotoKeepsLedger DEF Begin, chaosVars
<1>3. CASE Apply(l) /\ UNCHANGED chaosVars
  <2>1. PICK pc : Goto(l, pc)
    BY <1>3, FailsAway DEF Apply
  <2>2. l.id \in ledger
    BY <1>0, <1>3 DEF Apply, At, LedgerIsRight
  <2> QED
    BY <1>0, <1>3, <2>1, <2>2, GotoKeepsLedger DEF Apply, chaosVars
<1>4. CASE Settle(l) /\ UNCHANGED chaosVars
  <2>1. \A j \in Jobs : job'[j].phase = "done" => job[j].phase = "done" \/ j \in ledger
    <3>1. CASE At(l, "acking") /\ Ack({l.id})
      BY <1>0, <3>1, AckType DEF At, LedgerIsRight
    <3>2. CASE Retry(l.id)
      BY <1>0, <3>2, RetryType
    <3>3. CASE DeadLetter(l.id)
      BY <1>0, <3>3, DeadLetterType
    <3>4. CASE UNCHANGED job
      BY <1>0, <3>4
    <3> QED
      BY <1>4, <3>1, <3>2, <3>3, <3>4 DEF Settle
  <2> QED
    BY <1>0, <1>4, <2>1, GotoKeepsLedger DEF Settle, chaosVars
<1>5. CASE Vanish(l) /\ UNCHANGED chaosVars
  BY <1>0, <1>5, GotoKeepsLedger DEF Vanish, chaosVars
<1>6. CASE Handle(l)
  <2>1. UNCHANGED <<job, permanent>>
    BY <1>6 DEF Handle
  <2>2. PICK pc : /\ Goto(l, pc)
                  /\ pc \in {"applying", "acking"} => l.id \in ledger'
    BY <1>6, FailsAway, SMT DEF Handle
  <2>3. ledger \subseteq ledger' /\ ledger' \cap permanent = {}
    BY <1>0, <1>6 DEF Handle, LedgerIsRight
  <2> QED
    BY <1>0, <2>1, <2>2, <2>3, GotoKeeps DEF LedgerIsRight
<1> QED
  BY <1>1, <1>2, <1>3, <1>4, <1>5, <1>6 DEF RunStep

(* Leasing a job and starting a run keeps the ledger right. *)
LEMMA TakeJobKeepsLedger ==
  ASSUME ChaosIInv, NEW w \in Workers, NEW j \in Jobs, TakeJob(w, j)
  PROVE  LedgerIsRight'
<1>1. QueueTypeOK /\ LedgerIsRight /\ UNCHANGED <<permanent, ledger>>
  BY DEF ChaosIInv, IInv, TypeOK, TakeJob, chaosVars
<1>2. \A i \in Jobs : job'[i].phase = "done" => job[i].phase = "done"
  BY <1>1, ClaimType, RecoverType DEF TakeJob, StartRun
<1>3. PICK l : Begins(l)
  BY DEF TakeJob, StartRun
<1>4. \A k \in DOMAIN run' : run'[k] = "new" \/ (k \in DOMAIN run /\ run'[k] = run[k])
  BY <1>3 DEF Begins
<1> QED
  BY <1>1, <1>2, <1>4 DEF LedgerIsRight

(* A job that only expires stays unsettled. *)
LEMMA ExpireKeepsLeftover ==
  ASSUME QueueTypeOK, NEW j \in Jobs, Expire(j), Leftover # {}
  PROVE  Leftover' # {}
<1> DEFINE r == Leased(job[j].attempt, job[j].owner, job[j].token, TRUE)
<1>1. job' = [job EXCEPT ![j] = r]
  BY DEF Expire
<1>2. r # Done /\ r # Dead
  BY DEF Leased, Done, Dead
<1> HIDE DEF r
<1>3. job'[j] = r
  BY <1>1 DEF QueueTypeOK
<1> QED
  BY <1>2, <1>3 DEF Leftover

(* Every step keeps the ledger right. *)
LEMMA LedgerStep ==
  ASSUME ChaosIInv, [ChaosNext]_allVars
  PROVE  LedgerIsRight'
<1>0. QueueTypeOK /\ LedgerIsRight
  BY DEF ChaosIInv, IInv, TypeOK
<1>1. ASSUME UNCHANGED <<run, permanent, ledger>>,
             \A i \in Jobs : job'[i].phase = "done" => job[i].phase = "done"
      PROVE  LedgerIsRight'
  BY <1>0, <1>1 DEF LedgerIsRight
<1>2. ASSUME UNCHANGED <<vars, permanent, ledger>>  PROVE LedgerIsRight'
  BY <1>0, <1>2 DEF LedgerIsRight, vars
<1>3. ASSUME NEW j \in Jobs, EnqueueJob(j)  PROVE LedgerIsRight'
  BY <1>0, <1>1, <1>3, EnqueueType DEF EnqueueJob, Submit, chaosVars
<1>4. ASSUME NEW j \in Jobs, LeaseExpires(j), UNCHANGED chaosVars  PROVE LedgerIsRight'
  BY <1>0, <1>1, <1>4, ExpireType DEF LeaseExpires, chaosVars
<1>5. ASSUME NEW ws, SpawnFleet(ws)  PROVE LedgerIsRight'
  BY <1>2, <1>5 DEF SpawnFleet
<1>6. CASE FaultsStop \/ StopAll
  BY <1>2, <1>6 DEF FaultsStop, StopAll
<1>7. ASSUME NEW seen, Report(seen)  PROVE LedgerIsRight'
  BY <1>2, <1>7 DEF Report
<1>8. ASSUME NEW w, NEW v, Kill(w, v)  PROVE LedgerIsRight'
  BY <1>2, <1>8 DEF Kill
<1>9. ASSUME NEW w, Pause(w) \/ Resume(w) \/ WorkerExits(w) \/ WorkerCrashes(w)
      PROVE  LedgerIsRight'
  BY <1>2, <1>9 DEF Pause, Resume, WorkerExits, WorkerCrashes
<1>10. ASSUME NEW w \in Workers, NEW j \in Jobs, TakeJob(w, j)  PROVE LedgerIsRight'
  BY <1>10, TakeJobKeepsLedger
<1>11. ASSUME NEW w, WorkerStep(w)  PROVE LedgerIsRight'
  BY <1>11, RunStepKeepsLedger DEF WorkerStep, Runs
<1>12. CASE UNCHANGED allVars
  BY <1>2, <1>12 DEF allVars, chaosVars
<1> QED
  BY <1>3, <1>4, <1>5, <1>6, <1>7, <1>8, <1>9, <1>10, <1>11, <1>12 DEF ChaosNext, Controller

(* Steps of the queue and of runs leave the controller's state alone. *)
LEMMA RunStepFrame ==
  ASSUME ChaosIInv, NEW l \in DOMAIN run, RunStep(l)
  PROVE  UNCHANGED <<permanent, controllerVars>> /\ ledger' \subseteq Jobs
<1>1. l.id \in Jobs /\ ledger \subseteq Jobs
  BY DEF ChaosIInv, ChaosTypeOK, TypeOK
<1>2. CASE Handle(l)
  BY <1>1, <1>2 DEF Handle
<1>3. CASE UNCHANGED chaosVars
  BY <1>1, <1>3 DEF chaosVars
<1> QED
  BY <1>2, <1>3 DEF RunStep

(* Every step keeps the controller's records well-formed, and the verdict is
   given when no worker is left. *)
LEMMA ControllerStep ==
  ASSUME ChaosIInv, TypeOK', [ChaosNext]_allVars
  PROVE  ChaosTypeOK' /\ VerdictIsLast'
<1>0. /\ TypeOK' /\ ChaosTypeOK /\ VerdictIsLast
      /\ MaxCrashes \in Nat /\ MaxPauses \in Nat
      /\ QueueTypeOK
  BY ChaosAssumption DEF ChaosIInv, ChaosTypeOK, TypeOK
<1>2. ASSUME NEW j \in Jobs, EnqueueJob(j)  PROVE ChaosTypeOK' /\ VerdictIsLast'
  BY <1>0, <1>2 DEF EnqueueJob, ChaosTypeOK, VerdictIsLast, chaosVars, controllerVars
<1>3. ASSUME NEW j \in Jobs, LeaseExpires(j), UNCHANGED chaosVars
      PROVE  ChaosTypeOK' /\ VerdictIsLast'
  <2>1. Leftover # {} => Leftover' # {}
    BY <1>0, <1>3, ExpireKeepsLeftover DEF LeaseExpires
  <2> QED
    BY <1>0, <1>3, <2>1 DEF ChaosTypeOK, VerdictIsLast, chaosVars, controllerVars
<1>4. ASSUME NEW ws, SpawnFleet(ws)  PROVE ChaosTypeOK' /\ VerdictIsLast'
  BY <1>0, <1>4 DEF SpawnFleet, ChaosTypeOK, VerdictIsLast
<1>5. CASE FaultsStop \/ StopAll
  BY <1>0, <1>5 DEF FaultsStop, ResumeAll, StopAll, ChaosTypeOK, VerdictIsLast
<1>6. ASSUME NEW seen, Report(seen)  PROVE ChaosTypeOK' /\ VerdictIsLast'
  <2>1. Leftover' = Leftover /\ crashed' = crashed /\ crashed \in Nat
    BY <1>0, <1>6, SMT DEF Report, Leftover, vars, ChaosTypeOK
  <2>2. phase' = "FAIL" => Leftover # {} \/ crashed > 0
    <3>1. Leftover = {} => \A j \in Jobs : Passes(j)
      BY SettledPasses DEF Leftover
    <3> QED
      BY <1>6, <2>1, <3>1, SMT DEF Report
  <2> QED
    BY <1>0, <1>6, <2>1, <2>2 DEF Report, ChaosTypeOK, VerdictIsLast
<1>7. ASSUME NEW w \in Workers, NEW v \in Workers, Kill(w, v)
      PROVE  ChaosTypeOK' /\ VerdictIsLast'
  BY <1>0, <1>7 DEF Kill, Picked, ChaosTypeOK, VerdictIsLast
<1>8. ASSUME NEW w \in Workers, Pause(w)  PROVE ChaosTypeOK' /\ VerdictIsLast'
  BY <1>0, <1>8, SMT DEF Pause, Picked, ChaosTypeOK, VerdictIsLast
<1>9. ASSUME NEW w \in Workers, Resume(w) \/ WorkerExits(w)
      PROVE  ChaosTypeOK' /\ VerdictIsLast'
  BY <1>0, <1>9 DEF Resume, WorkerExits, ChaosTypeOK, VerdictIsLast
<1>10. ASSUME NEW w \in Workers, WorkerCrashes(w)  PROVE ChaosTypeOK' /\ VerdictIsLast'
  BY <1>0, <1>10, SMT DEF WorkerCrashes, Live, ChaosTypeOK, VerdictIsLast
<1>11. ASSUME NEW w \in Workers, NEW j \in Jobs, TakeJob(w, j)
       PROVE  ChaosTypeOK' /\ VerdictIsLast'
  BY <1>0, <1>11 DEF TakeJob, Live, ChaosTypeOK, VerdictIsLast, chaosVars, controllerVars
<1>12. ASSUME NEW w \in Workers, WorkerStep(w)  PROVE ChaosTypeOK' /\ VerdictIsLast'
  <2>1. UNCHANGED <<permanent, controllerVars>> /\ ledger' \subseteq Jobs
    BY <1>12, RunStepFrame DEF WorkerStep, Runs
  <2> QED
    BY <1>0, <1>12, <2>1 DEF WorkerStep, Live, ChaosTypeOK, VerdictIsLast, controllerVars
<1>13. CASE UNCHANGED allVars
  BY <1>0, <1>13 DEF allVars, vars, chaosVars, controllerVars, ChaosTypeOK, VerdictIsLast, Leftover
<1> QED
  BY <1>2, <1>3, <1>4, <1>5, <1>6, <1>7, <1>8, <1>9, <1>10, <1>11, <1>12, <1>13
     DEF ChaosNext, Controller

(* The inductive invariant of the chaos test. *)
THEOREM ChaosInductiveInvariant == ChaosSpec => []ChaosIInv
<1>1. ASSUME ChaosIInv, [ChaosNext]_allVars  PROVE ChaosIInv'
  <2>1. IInv'
    BY <1>1, ChaosRefinesNext, NextInv DEF ChaosIInv
  <2>2. TypeOK'
    BY <2>1 DEF IInv
  <2> QED
    BY <1>1, <2>1, <2>2, LedgerStep, ControllerStep DEF ChaosIInv
<1> QED
  BY <1>1, ChaosInitInv, PTL DEF ChaosSpec

(* As soon as a job is settled every check of report on it passes, and the test
   fails only because of a job that was not settled or a worker that exited by
   itself. *)
THEOREM ReportIsRight == ChaosSpec => []SettledIsRight
<1>1. ChaosIInv => SettledIsRight
  BY SettledPasses DEF ChaosIInv, VerdictIsLast, SettledIsRight
<1> QED
  BY <1>1, ChaosInductiveInvariant, PTL

(* The controller's and the ledger's records keep their types. *)
THEOREM ChaosTypeCorrect == ChaosSpec => []ChaosTypeOK
<1>1. ChaosIInv => ChaosTypeOK
  BY DEF ChaosIInv
<1> QED
  BY <1>1, ChaosInductiveInvariant, PTL
=============================================================================
