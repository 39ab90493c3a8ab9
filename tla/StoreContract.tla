---------------------------- MODULE StoreContract ----------------------------
(***************************************************************************)
(* StreamStore implements the Backend contract TaskQueue.  A job's record  *)
(* is read off the Redis keys: where the job is, and if it is pending, the *)
(* PEL's owner, count and idle flag.                                       *)
(***************************************************************************)
EXTENDS StreamStore

EntryOf(j) == CHOOSE m \in DOMAIN stream : stream[m].id = j

EntryRecord(m) ==
  IF m \in DOMAIN pel
  THEN [phase |-> "leased", attempt |-> stream[m].attempt,
        owner |-> pel[m].owner, token |-> pel[m].count,
        expired |-> pel[m].expired]
  ELSE [phase |-> "waiting", attempt |-> stream[m].attempt]

JobRecord(j) ==
  IF j \in StreamJobs THEN EntryRecord(EntryOf(j))
  ELSE IF j \in retry THEN [phase |-> "waiting", attempt |-> retryData[j].attempt]
  ELSE IF j \in DeadJobs THEN [phase |-> "dead"]
  ELSE IF j \in AckedJobs THEN [phase |-> "done"]
  ELSE [phase |-> "absent"]

(* The contract speaks of jobs that are stored once.  The others are there as
   well, in the same stream, schedule and dead-letter stream. *)
Once == Jobs \ Resendable

Contract == INSTANCE TaskQueue WITH Jobs <- Once, job <- [j \in Once |-> JobRecord(j)]

(* Whatever scripts run in whatever order, with stale, repeated or missing
   calls, each step is a step of the Backend contract or changes no job: a
   promotion, a deregistration or a call with a lost lease is invisible, only
   an expired lease changes hands, a retry counts the attempt, and a job that
   is done or dead stays so. *)
ImplementsBackend == Contract!QueueSpec
=============================================================================
