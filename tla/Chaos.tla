-------------------------------- MODULE Chaos --------------------------------
(***************************************************************************)
(* The chaos test: a controller that enqueues jobs, keeps a fleet of       *)
(* worker processes running while it kills and freezes them, lets the      *)
(* queue drain, stops the workers and reports; and the workers, which run  *)
(* the handler of Downstream and log each run in a ledger.                 *)
(*                                                                         *)
(* A killed process takes no more steps, a frozen one takes none until it  *)
(* is resumed.  log.Fatal ends the test without a report; it is left out.  *)
(***************************************************************************)
EXTENDS Downstream

CONSTANTS
  Fleet,     \* options.workers
  MaxPauses, \* bound of the model: how often a worker is frozen
  MaxCrashes \* bound of the model: workers that exit by themselves

ASSUME ChaosAssumption == {Fleet, MaxPauses, MaxCrashes} \subseteq Nat

VARIABLES
  permanent, \* jobs whose payload makes the handler fail for good
  ledger,    \* jobs with an entry in the ledger
  proc,      \* worker -> its process
  phase,     \* how far runController has come, and its verdict
  crashed,   \* number of workers that exited without being killed
  pauses     \* number of SIGSTOPs

controllerVars == <<proc, phase, crashed, pauses>>
chaosVars == <<permanent, ledger, controllerVars>>
allVars == <<vars, chaosVars>>

ChaosInit ==
  /\ Init
  /\ permanent \in SUBSET Jobs
  /\ ledger = {}
  /\ proc = [w \in Workers |-> "unborn"]
  /\ phase = "enqueue"
  /\ crashed = 0 /\ pauses = 0

-----------------------------------------------------------------------------
(* runController *)

(* Some enqueues are sent twice; the key makes the second one change nothing. *)
EnqueueJob(j) ==
  /\ phase = "enqueue"
  /\ Submit(j)
  /\ UNCHANGED chaosVars

SpawnFleet(ws) ==
  /\ phase = "enqueue" /\ In("absent") = {}
  /\ Cardinality(ws) = Fleet
  /\ proc' = [w \in Workers |-> IF w \in ws THEN "up" ELSE proc[w]]
  /\ phase' = "faults"
  /\ UNCHANGED <<vars, permanent, ledger, crashed, pauses>>

Picked(w) == proc[w] = "up"

(* Fault for Kill: the worker's leases end with it. *)
KillReleasing(w, v) ==
  /\ phase = "faults"
  /\ Picked(w) /\ proc[v] = "unborn"
  /\ proc' = [proc EXCEPT ![w] = "gone", ![v] = "up"]
  /\ job' = [j \in Jobs |-> IF j \in In("leased") /\ job[j].owner = w
                            THEN Waiting(job[j].attempt) ELSE job[j]]
  /\ UNCHANGED <<run, downstreamVars, begun, permanent, ledger, phase, crashed, pauses>>

(* injectFaults: SIGKILL, and a new worker takes the place. *)
Kill(w, v) ==
  /\ phase = "faults"
  /\ Picked(w) /\ proc[v] = "unborn"
  /\ proc' = [proc EXCEPT ![w] = "gone", ![v] = "up"]
  /\ UNCHANGED <<vars, permanent, ledger, phase, crashed, pauses>>

(* injectFaults: SIGSTOP *)
Pause(w) ==
  /\ phase = "faults"
  /\ Picked(w)
  /\ pauses < MaxPauses /\ pauses' = pauses + 1
  /\ proc' = [proc EXCEPT ![w] = "paused"]
  /\ UNCHANGED <<vars, permanent, ledger, phase, crashed>>

(* The timer set by the pause. *)
Resume(w) ==
  /\ proc[w] = "paused"
  /\ proc' = [proc EXCEPT ![w] = "up"]
  /\ UNCHANGED <<vars, permanent, ledger, phase, crashed, pauses>>

ResumeAll == proc' = [w \in Workers |-> IF proc[w] = "paused" THEN "up" ELSE proc[w]]

(* injectFaults returns, and resumeAll.  It may at any time: when the duration is
   over, or when the gauges of Stats, read one after the other, are all zero,
   which does not mean that the queue is empty. *)
FaultsStop ==
  /\ phase = "faults"
  /\ phase' = "drain"
  /\ ResumeAll
  /\ UNCHANGED <<vars, permanent, ledger, crashed, pauses>>

(* Fault for StopAll: the controller waits for the queue to drain, without a
   deadline. *)
StopAllDrained ==
  /\ phase = "drain"
  /\ \A j \in Jobs : job[j] \in {Done, Dead}
  /\ phase' = "stop"
  /\ proc' = [w \in Workers |-> IF proc[w] = "up" THEN "stopping" ELSE proc[w]]
  /\ UNCHANGED <<vars, permanent, ledger, crashed, pauses>>

(* The queue seems drained, or the deadline has come: stopAll sends SIGTERM. *)
StopAll ==
  /\ phase = "drain"
  /\ phase' = "stop"
  /\ proc' = [w \in Workers |-> IF proc[w] = "up" THEN "stopping" ELSE proc[w]]
  /\ UNCHANGED <<vars, permanent, ledger, crashed, pauses>>

(* The checks of report on one job. *)
Lost(j) == j \notin permanent /\ j \notin ledger /\ job[j] # Dead
Misrouted(j) == j \in permanent /\ (job[j] # Dead \/ j \in ledger)
DuplicateEffect(j) == effects[j] > 1
MissingEffect(j) == effects[j] = 0 /\ job[j] # Dead
Passes(j) == ~(Lost(j) \/ Misrouted(j) \/ DuplicateEffect(j) \/ MissingEffect(j))

Leftover == {j \in Jobs : job[j] \notin {Done, Dead}}

(* report, once every worker has exited.  Stats may fail, and then nothing seems
   left over. *)
Report(seen) ==
  /\ phase = "stop"
  /\ \A w \in Workers : proc[w] \in {"unborn", "gone"}
  /\ seen \in {Leftover, {}}
  /\ phase' = IF (\A j \in Jobs : Passes(j)) /\ seen = {} /\ crashed = 0 THEN "PASS" ELSE "FAIL"
  /\ UNCHANGED <<vars, permanent, ledger, proc, crashed, pauses>>

-----------------------------------------------------------------------------
(* runWorker *)

Live(w) == proc[w] \in {"up", "stopping"}

Runs(w) == {l \in DOMAIN run : l.owner = w}

TakeJob(w, j) == Live(w) /\ StartRun(w, j) /\ UNCHANGED chaosVars

(* Fault for Handle: the run is logged before the payload is looked at. *)
HandleLogging(l) ==
  /\ At(l, "working")
  /\ ledger' = ledger \cup {l.id}
  /\ IF l.id \in permanent THEN Goto(l, "burying") ELSE Goto(l, "applying") \/ Fails(l)
  /\ UNCHANGED <<job, downstreamVars, begun, permanent, controllerVars>>

(* The handler between begin and apply: a permanent failure, a failure by chance,
   or an entry in the ledger, which may be made though the call fails. *)
Handle(l) ==
  /\ At(l, "working")
  /\ IF l.id \in permanent
     THEN Goto(l, "burying") /\ UNCHANGED ledger
     ELSE \/ Fails(l) /\ ledger' \in {ledger, ledger \cup {l.id}}
          \/ Goto(l, "applying") /\ ledger' = ledger \cup {l.id}
  /\ UNCHANGED <<job, downstreamVars, begun, permanent, controllerVars>>

RunStep(l) ==
  \/ (TooMany(l) \/ Begin(l) \/ Apply(l) \/ Settle(l) \/ Vanish(l)) /\ UNCHANGED chaosVars
  \/ Handle(l)

WorkerStep(w) == Live(w) /\ \E l \in Runs(w) : RunStep(l)

(* Run returns when the last job is done with. *)
WorkerExits(w) ==
  /\ proc[w] = "stopping"
  /\ \A l \in Runs(w) : run[l] = "over"
  /\ proc' = [proc EXCEPT ![w] = "gone"]
  /\ UNCHANGED <<vars, permanent, ledger, phase, crashed, pauses>>

(* Run returns an error. *)
WorkerCrashes(w) ==
  /\ Live(w)
  /\ crashed < MaxCrashes /\ crashed' = crashed + 1
  /\ proc' = [proc EXCEPT ![w] = "gone"]
  /\ UNCHANGED <<vars, permanent, ledger, phase, pauses>>

-----------------------------------------------------------------------------

Controller ==
  \/ \E j \in Jobs : EnqueueJob(j)
  \/ \E ws \in SUBSET Workers : SpawnFleet(ws)
  \/ FaultsStop
  \/ StopAll
  \/ \E seen \in {Leftover, {}} : Report(seen)

ChaosNext ==
  \/ Controller
  \/ \E w, v \in Workers : Kill(w, v)
  \/ \E w \in Workers : \/ Pause(w) \/ Resume(w)
                        \/ \E j \in Jobs : TakeJob(w, j)
                        \/ WorkerStep(w) \/ WorkerExits(w) \/ WorkerCrashes(w)
  \/ \E j \in Jobs : LeaseExpires(j) /\ UNCHANGED chaosVars

ChaosSpec == ChaosInit /\ [][ChaosNext]_allVars

(* The controller's timers fire, and a live worker's runs and its shutdown go
   on.  A killed worker and a frozen one owe nothing. *)
ChaosFairSpec ==
  /\ ChaosSpec
  /\ WF_allVars(Controller)
  /\ \A w \in Workers : WF_allVars(WorkerStep(w) \/ WorkerExits(w)) /\ WF_allVars(Resume(w))

-----------------------------------------------------------------------------
(* Properties *)

ChaosTypeOK ==
  /\ TypeOK
  /\ permanent \subseteq Jobs /\ ledger \subseteq Jobs
  /\ proc \in [Workers -> {"unborn", "up", "paused", "stopping", "gone"}]
  /\ phase \in {"enqueue", "faults", "drain", "stop", "PASS", "FAIL"}
  /\ crashed \in 0 .. MaxCrashes /\ pauses \in 0 .. MaxPauses

(* Whatever the controller kills and freezes, the handler and the downstream do
   what Downstream says, so its properties hold in the chaos test. *)
ImplementsDownstream == Spec

(* report: as soon as a job is settled, every check on it passes, whatever its
   zombies still do.  A test that fails has found a job that was not settled in
   time, or a worker that exited by itself. *)
SettledIsRight ==
  /\ \A j \in Jobs : job[j] \in {Done, Dead} => Passes(j)
  /\ phase = "FAIL" => Leftover # {} \/ crashed > 0

(* runController returns: no worker that was frozen, killed or crashed, and no
   job that never settles, keeps it from reporting. *)
Reports == <>(phase \in {"PASS", "FAIL"})

-----------------------------------------------------------------------------
(* What the proofs need besides *)

(* A run that gets to its effect is in the ledger, and no permanent job is. *)
LedgerIsRight ==
  /\ ledger \cap permanent = {}
  /\ \A l \in DOMAIN run : run[l] \in {"applying", "acking"} => l.id \in ledger
  /\ \A j \in Jobs : job[j].phase = "done" => j \in ledger

(* Nobody is left to settle a job once the verdict is given. *)
VerdictIsLast ==
  /\ phase \in {"PASS", "FAIL"} => \A w \in Workers : proc[w] \in {"unborn", "gone"}
  /\ phase = "FAIL" => Leftover # {} \/ crashed > 0

ChaosIInv == IInv /\ ChaosTypeOK /\ LedgerIsRight /\ VerdictIsLast
=============================================================================
