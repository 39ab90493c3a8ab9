------------------------------- MODULE Recovery -------------------------------
(***************************************************************************)
(* How expired leases are found.  Sharded.RecoverExpired sweeps the        *)
(* partitions, and each partition's Store scans its pending entries list a *)
(* bounded piece at a time from a cursor it remembers.  The Workers of one *)
(* process share the Sharded; the entries they do not lease are in the     *)
(* hands of other processes, which settle them or crash.                   *)
(*                                                                         *)
(* The leases of jobs that run here are renewed and do not expire: what    *)
(* happens when they do is in Worker.                                      *)
(***************************************************************************)
EXTENDS Naturals, FiniteSets, FiniteSetsExt

CONSTANTS
  Workers,     \* the Workers of this process
  Parts,       \* how many partitions there are
  Depth,       \* bound of the model: entries in a partition
  Thin,        \* partitions that have one entry only
  Concurrency, \* WorkerConfig.Concurrency
  Rounds,      \* how often recoverScript calls XAUTOCLAIM: 10
  Window,      \* how many entries XAUTOCLAIM examines for each it may claim: 10
  Busy,        \* partitions that get new jobs whenever theirs are settled
  MaxFaults    \* bound of the model: calls that fail, runs that do not settle

ASSUME RecoveryAssumption ==
  /\ {Parts, Depth, Concurrency, Rounds, Window} \subseteq Nat \ {0}
  /\ MaxFaults \in Nat

Partitions == 0 .. Parts - 1
IDs == 1 .. Depth
Entries == Partitions \X IDs

VARIABLES
  entry,     \* partition -> stream ID -> whose it is
  cursor,    \* partition -> recoverCursor, with 0 for "0-0"
  claimNext, \* where a sweep starts, modulo Parts
  due,       \* workers whose last complete recovery is a PollInterval ago
  fetch,     \* worker -> its fetch in progress
  running,   \* worker -> the entries whose jobs it runs
  faults     \* faults still to come

vars == <<entry, cursor, claimNext, due, fetch, running, faults>>

NoFetch == [pc |-> "none", limit |-> 0, start |-> 0, i |-> 0, from |-> 0, got |-> {}, last |-> {}]

Stored(p) == IF p \in Thin THEN {1} ELSE IDs

(* "new" is in the stream and not delivered, "ours" and "theirs" are leased,
   by this process and by others, "gone" is settled. *)
Init ==
  /\ entry = [p \in Partitions |-> [n \in IDs |-> IF n \in Stored(p) THEN "new" ELSE "gone"]]
  /\ cursor = [p \in Partitions |-> 0]
  /\ claimNext = 0
  /\ due = Workers
  /\ fetch = [w \in Workers |-> NoFetch]
  /\ running = [w \in Workers |-> {}]
  /\ faults = MaxFaults

Fault == faults > 0 /\ faults' = faults - 1

(* The entries es, pairs of a partition and an ID, become whose. *)
Become(es, whose) ==
  entry' = [p \in Partitions |-> [n \in IDs |->
              IF <<p, n>> \in es THEN whose ELSE entry[p][n]]]

Are(whose) == {e \in Entries : entry[e[1]][e[2]] = whose}

-----------------------------------------------------------------------------
(* The other processes *)

(* XREADGROUP delivers the stream in order. *)
FirstNew(es) ==
  \A e \in es, n \in IDs : n < e[2] /\ entry[e[1]][n] = "new" => <<e[1], n>> \in es

OtherClaims(e) ==
  /\ e \in Are("new") /\ FirstNew({e})
  /\ Become({e}, "theirs")
  /\ UNCHANGED <<cursor, claimNext, due, fetch, running, faults>>

OtherSettles(e) ==
  /\ e \in Are("theirs")
  /\ Become({e}, "gone")
  /\ UNCHANGED <<cursor, claimNext, due, fetch, running, faults>>

LeaseExpires(e) ==
  /\ e \in Are("theirs")
  /\ Become({e}, "expired")
  /\ UNCHANGED <<cursor, claimNext, due, fetch, running, faults>>

(* New jobs for a partition that has none left.  Their IDs are higher than all
   before; counting from 1 again moves the cursor to the front of them. *)
Refill(p) ==
  /\ p \in Busy
  /\ \A n \in IDs : entry[p][n] = "gone"
  /\ Become({p} \X Stored(p), "new")
  /\ cursor' = [cursor EXCEPT ![p] = 0]
  /\ UNCHANGED <<claimNext, due, fetch, running, faults>>

-----------------------------------------------------------------------------
(* recoverScript *)

Pending(p) == {n \in IDs : entry[p][n] \in {"ours", "theirs", "expired"}}
Expired(p) == {n \in IDs : entry[p][n] = "expired"}

(* XAUTOCLAIM from an ID: it examines entries in order until it has claimed
   count of them or has examined Window for each. *)
Examined(p, from, count) ==
  {n \in Pending(p) :
     /\ n >= from
     /\ Cardinality(Pending(p) \cap (from .. n)) <= Window * count
     /\ Cardinality(Expired(p) \cap (from .. n - 1)) < count}

(* The ID it stopped at: the first entry that was not examined, or "0-0". *)
StoppedAt(p, from, seen) ==
  LET rest == {n \in Pending(p) : n >= from} \ seen
  IN  IF rest = {} THEN 0 ELSE Min(rest)

(* The script's i-th call of it, from where the last one stopped, unless it has
   what it wants or is through with the list. *)
Round(p, want, i, s) ==
  LET seen == Examined(p, s.at, want - Cardinality(s.out))
  IN  IF i > 1 /\ (Cardinality(s.out) >= want \/ s.at = 0) THEN s
      ELSE [at |-> StoppedAt(p, s.at, seen), out |-> s.out \cup (seen \cap Expired(p))]

Scan(p, from, want) ==
  LET after[i \in 0 .. Rounds] ==
        IF i = 0 THEN [at |-> from, out |-> {}] ELSE Round(p, want, i, after[i - 1])
  IN  after[Rounds]

-----------------------------------------------------------------------------
(* Worker.fetch, Sharded.RecoverExpired and Store.RecoverExpired *)

Free(w) == Concurrency - Cardinality(running[w])

(* A fetch begins, with recovery if it is due and with Claim otherwise. *)
FetchStarts(w) ==
  /\ fetch[w] = NoFetch
  /\ Free(w) > 0
  /\ fetch' = [fetch EXCEPT ![w] = [NoFetch EXCEPT
                 !.pc = IF w \in due THEN "sweep" ELSE "claim",
                 !.limit = Free(w), !.start = claimNext]]
  /\ UNCHANGED <<entry, cursor, claimNext, due, running, faults>>

Part(f) == (f.start + f.i) % Parts
Wanted(f) == f.limit - Cardinality(f.got)

Sweeps(f) == f.pc = "sweep" /\ f.i < Parts /\ Wanted(f) > 0

(* The next partition's Store reads its cursor under its lock. *)
ReadCursor(w) ==
  /\ Sweeps(fetch[w])
  /\ fetch' = [fetch EXCEPT ![w].pc = "scan", ![w].from = cursor[Part(fetch[w])]]
  /\ UNCHANGED <<entry, cursor, claimNext, due, running, faults>>

(* Run starts what was leased, even if part of the fetch failed. *)
StartJobs(w, es) ==
  /\ running' = [running EXCEPT ![w] = @ \cup es]
  /\ fetch' = [fetch EXCEPT ![w] = NoFetch]

(* Fault for ScanFails: what the sweep leased before is thrown away. *)
ScanFailsDropping(w) ==
  /\ fetch[w].pc = "scan"
  /\ Fault
  /\ UNCHANGED entry
  /\ StartJobs(w, {})
  /\ UNCHANGED <<cursor, claimNext, due>>

(* Fault for RunScript: every partition may fill the whole limit. *)
RunScriptGreedy(w) ==
  /\ fetch[w].pc = "scan"
  /\ LET p == Part(fetch[w])
         s == Scan(p, fetch[w].from, fetch[w].limit)
     IN  /\ Become({p} \X s.out, "ours")
         /\ fetch' = [fetch EXCEPT ![w].pc = "write", ![w].from = s.at, ![w].last = {p} \X s.out]
  /\ UNCHANGED <<cursor, claimNext, due, running, faults>>

(* The script leases what it found, in one step. *)
RunScript(w) ==
  /\ fetch[w].pc = "scan"
  /\ LET p == Part(fetch[w])
         s == Scan(p, fetch[w].from, Wanted(fetch[w]))
     IN  /\ Become({p} \X s.out, "ours")
         /\ fetch' = [fetch EXCEPT ![w].pc = "write", ![w].from = s.at, ![w].last = {p} \X s.out]
  /\ UNCHANGED <<cursor, claimNext, due, running, faults>>

(* The script does not arrive, or its reply is lost; then nobody knows of what
   it leased, and the cursor stays.  The sweep and the fetch end. *)
ScanFails(w) ==
  /\ fetch[w].pc = "scan"
  /\ Fault
  /\ LET p == Part(fetch[w])
     IN  \/ UNCHANGED entry
         \/ Become({p} \X Scan(p, fetch[w].from, Wanted(fetch[w])).out, "theirs")
  /\ StartJobs(w, fetch[w].got)
  /\ UNCHANGED <<cursor, claimNext, due>>

(* Fault for WriteCursor: every scan starts from the front. *)
WriteCursorSkips(w) ==
  /\ fetch[w].pc = "write"
  /\ fetch' = [fetch EXCEPT ![w].pc = "sweep", ![w].i = @ + 1,
                            ![w].got = @ \cup fetch[w].last, ![w].last = {}]
  /\ UNCHANGED <<entry, cursor, claimNext, due, running, faults>>

(* The Store keeps the cursor for its next scan. *)
WriteCursor(w) ==
  /\ fetch[w].pc = "write"
  /\ cursor' = [cursor EXCEPT ![Part(fetch[w])] = fetch[w].from]
  /\ fetch' = [fetch EXCEPT ![w].pc = "sweep", ![w].i = @ + 1,
                            ![w].got = @ \cup fetch[w].last, ![w].last = {}]
  /\ UNCHANGED <<entry, claimNext, due, running, faults>>

(* A sweep that leased all it may ends the fetch, and recovery stays due; after
   any other one the fetch goes on to Claim. *)
SweepEnds(w) ==
  /\ fetch[w].pc = "sweep" /\ ~Sweeps(fetch[w])
  /\ IF Wanted(fetch[w]) = 0
     THEN StartJobs(w, fetch[w].got) /\ UNCHANGED due
     ELSE /\ fetch' = [fetch EXCEPT ![w].pc = "claim"]
          /\ due' = due \ {w}
          /\ UNCHANGED running
  /\ UNCHANGED <<entry, cursor, claimNext, faults>>

(* Sharded.Claim leases new jobs; only it moves the start of the sweeps. *)
ClaimJobs(w, es) ==
  /\ fetch[w].pc = "claim"
  /\ es \subseteq Are("new") /\ FirstNew(es) /\ Cardinality(es) <= Wanted(fetch[w])
  /\ Become(es, "ours")
  /\ StartJobs(w, fetch[w].got \cup es)
  /\ claimNext' = (claimNext + 1) % Parts
  /\ UNCHANGED <<cursor, due, faults>>

PollIntervalPasses(w) ==
  /\ w \notin due
  /\ due' = due \cup {w}
  /\ UNCHANGED <<entry, cursor, claimNext, fetch, running, faults>>

-----------------------------------------------------------------------------
(* A run ends, and the job is settled or the lease is left to expire. *)
RunEnds(w, e) ==
  /\ e \in running[w]
  /\ \/ Become({e}, "gone") /\ UNCHANGED faults
     \/ Become({e}, "theirs") /\ Fault
  /\ running' = [running EXCEPT ![w] = @ \ {e}]
  /\ UNCHANGED <<cursor, claimNext, due, fetch>>

Recovering(w) ==
  ReadCursor(w) \/ RunScript(w) \/ ScanFails(w) \/ WriteCursor(w) \/ SweepEnds(w)

Fetching(w) ==
  \/ FetchStarts(w)
  \/ Recovering(w)
  \/ \E es \in SUBSET Are("new") : ClaimJobs(w, es)

Next ==
  \/ \E e \in Entries : OtherClaims(e) \/ OtherSettles(e) \/ LeaseExpires(e)
  \/ \E p \in Partitions : Refill(p)
  \/ \E w \in Workers : \/ Fetching(w) \/ PollIntervalPasses(w)
                        \/ \E e \in running[w] : RunEnds(w, e)

Spec == Init /\ [][Next]_vars

(* The fetch loops go on, time passes, and runs end.  Nothing is assumed
   of which expired lease a sweep finds. *)
Fairness ==
  \A w \in Workers :
    /\ WF_vars(Fetching(w))
    /\ WF_vars(PollIntervalPasses(w))
    /\ WF_vars(\E e \in running[w] : RunEnds(w, e))

FairSpec == Spec /\ Fairness

-----------------------------------------------------------------------------
(* Properties *)

Fetches ==
  [pc : {"none", "sweep", "scan", "write", "claim"}, limit : 0 .. Concurrency,
   start : Partitions, i : 0 .. Parts, from : 0 .. Depth,
   got : SUBSET Entries, last : SUBSET Entries]

TypeOK ==
  /\ entry \in [Partitions -> [IDs -> {"new", "ours", "theirs", "expired", "gone"}]]
  /\ cursor \in [Partitions -> 0 .. Depth]
  /\ claimNext \in Partitions
  /\ due \subseteq Workers
  /\ fetch \in [Workers -> Fetches]
  /\ running \in [Workers -> SUBSET Entries]
  /\ faults \in 0 .. MaxFaults

InHand(w) == running[w] \cup fetch[w].got \cup fetch[w].last

(* fetch: what a sharded backend leased before one of its partitions failed is
   "ours now and must still run".  Every entry leased by this process is being
   run or on its way to be, by one worker only, whatever partition failed and
   whoever moved the cursor meanwhile. *)
RecoveredIsRun ==
  /\ Are("ours") = UNION {InHand(w) : w \in Workers}
  /\ \A v, w \in Workers : v # w => InHand(v) \cap InHand(w) = {}

(* A sweep over many partitions leases no more than the slots that were free
   when it started. *)
SweepKeepsLimit ==
  \A w \in Workers : Cardinality(InHand(w)) <= Concurrency

(* RecoverExpired sweeps "starting where the last sweep left off so no partition
   is starved": an expired lease is recovered some day. *)
ExpiredIsRecovered ==
  \A p \in Partitions : \A n \in Stored(p) :
    (entry[p][n] = "expired") ~> (entry[p][n] # "expired")

(* fetch, RecoverExpired, recoverScript: a worker that gets through to Claim again
   and again recovers every expired lease, though a scan sees a part of the list
   only, another worker's scan sets the cursor back, calls fail, a partition
   never runs dry, and entries come and go on both sides of the cursor. *)
RecoveredWhileClaiming ==
  (\E w \in Workers : []<>(fetch[w].pc = "claim")) => ExpiredIsRecovered

-----------------------------------------------------------------------------
(* What the proofs need besides *)

(* A fetch f of a worker that runs r has been asked for no more than the free
   slots, and has got no more than it was asked for; what it got does not run yet. *)
Fits(f, r) ==
  /\ f.pc = "none" => f = NoFetch
  /\ f.pc # "write" => f.last = {}
  /\ f.pc \in {"scan", "write"} => f.i < Parts
  /\ Cardinality(f.got \cup f.last) <= f.limit
  /\ Cardinality(r) + f.limit <= Concurrency
  /\ r \cap (f.got \cup f.last) = {}

FetchFits == \A w \in Workers : Fits(fetch[w], running[w])

RecoveryIInv == TypeOK /\ RecoveredIsRun /\ FetchFits
==============================================================================
