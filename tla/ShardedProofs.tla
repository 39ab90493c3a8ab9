---------------------------- MODULE ShardedProofs ----------------------------
(***************************************************************************)
(* Proofs about Sharded, for any number of jobs, workers, partitions and   *)
(* slots: no job a long poll or a sweep has leased is lost or handed out   *)
(* twice inside the process, a waiting Claim misses no signal, the worker  *)
(* is never given more jobs than it has slots, the buffer is bounded, a    *)
(* waiting Claim has its pollers, and a closed Sharded polls no more.      *)
(***************************************************************************)
EXTENDS Sharded, TaskQueueProofs, FiniteSetTheorems, WellFoundedInduction

(* Leaves are Zenon's, but for those that name SMT. *)
USE Zenon

-----------------------------------------------------------------------------
(* Sets of leases *)

(* Min of two numbers. *)
LEMMA MinOfTwo ==
  ASSUME NEW m \in Int, NEW n \in Int
  PROVE  /\ Min({m, n}) \in {m, n}
         /\ Min({m, n}) <= m /\ Min({m, n}) <= n
<1>1. \E x \in {m, n} : \A y \in {m, n} : x <= y
  BY SMT
<1> QED
  BY <1>1 DEF Min

(* The new leases of some jobs: one each, all well-formed. *)
LEMMA NewLeasesFacts ==
  ASSUME QueueTypeOK, NEW js, js \subseteq In("waiting")
  PROVE  /\ NewLeases(js) \subseteq Leases
         /\ \A l \in NewLeases(js) : l.id \in js
         /\ IsFiniteSet(js) /\ IsFiniteSet(NewLeases(js))
         /\ Cardinality(NewLeases(js)) <= Cardinality(js)
<1> DEFINE Of(j) == [id |-> j, attempt |-> job[j].attempt, owner |-> Me, token |-> 1]
           f == [j \in js |-> Of(j)]
<1>1. js \subseteq Jobs /\ IsFiniteSet(js)
  BY ShardedAssumption, FS_Subset DEF In
<1>2. \A j \in js : Of(j) \in Leases
  BY <1>1, FieldTypes, SMT DEF Leases
<1>3. NewLeases(js) = {Of(j) : j \in js}
  BY DEF NewLeases
<1>4. f \in Surjection(js, NewLeases(js))
  BY <1>3 DEF Surjection
<1>5. IsFiniteSet(NewLeases(js)) /\ Cardinality(NewLeases(js)) <= Cardinality(js)
  BY <1>1, <1>4, FS_Surjection
<1> QED
  BY <1>1, <1>2, <1>3, <1>5, SMT

(* A union of two finite sets. *)
LEMMA UnionIsFinite ==
  ASSUME NEW S, NEW T, IsFiniteSet(S), IsFiniteSet(T)
  PROVE  /\ IsFiniteSet(S \cup T)
         /\ Cardinality(S) \in Nat /\ Cardinality(T) \in Nat /\ Cardinality(S \cup T) \in Nat
         /\ Cardinality(S \cup T) <= Cardinality(S) + Cardinality(T)
<1>1. /\ IsFiniteSet(S \cup T)
      /\ Cardinality(S \cup T) = Cardinality(S) + Cardinality(T) - Cardinality(S \cap T)
  BY FS_Union
<1>2. IsFiniteSet(S \cap T)
  BY FS_Intersection
<1>3. /\ Cardinality(S) \in Nat /\ Cardinality(T) \in Nat /\ Cardinality(S \cup T) \in Nat
      /\ Cardinality(S \cap T) \in Nat
  BY <1>1, <1>2, FS_CardinalityType
<1> QED
  BY <1>1, <1>3, SMT

(* takeBuffered takes at most limit leases, and all there are if that is fewer:
   it comes back with nothing only from an empty buffer. *)
LEMMA TakeBufferedFacts ==
  ASSUME NEW limit \in Nat \ {0}, NEW ls, TakeBuffered(limit, ls), IsFiniteSet(buffered)
  PROVE  /\ ls \subseteq buffered /\ buffered' = buffered \ ls
         /\ IsFiniteSet(ls) /\ IsFiniteSet(buffered')
         /\ Cardinality(ls) \in Nat /\ Cardinality(ls) <= limit
         /\ ls = {} => buffered = {}
<1>1. ls \subseteq buffered /\ buffered' = buffered \ ls
  BY DEF TakeBuffered
<1>2. IsFiniteSet(ls) /\ IsFiniteSet(buffered')
  BY <1>1, FS_Subset
<1>3. Cardinality(ls) \in Nat /\ Cardinality(buffered) \in Nat
  BY <1>2, FS_CardinalityType
<1>4. Cardinality(ls) = Min({limit, Cardinality(buffered)})
  BY DEF TakeBuffered
<1>5. Cardinality(ls) \in {limit, Cardinality(buffered)} /\ Cardinality(ls) <= limit
  BY <1>3, <1>4, MinOfTwo, SMT
<1>6. ls = {} => Cardinality(ls) = 0
  BY FS_EmptySet
<1>7. Cardinality(buffered) = 0 => buffered = {}
  BY FS_EmptySet
<1> QED
  BY <1>1, <1>2, <1>3, <1>5, <1>6, <1>7

-----------------------------------------------------------------------------
(* What the queue's calls do to the leases of this worker *)

(* The job is leased to this worker. *)
Mine(j) == j \in In("leased") /\ job[j].owner = Me

(* The jobs of js are leased to this worker; no other lease becomes its own,
   and a lease that it keeps stays as it is. *)
Moves(js) ==
  /\ QueueTypeOK'
  /\ \A j \in Jobs : Taken(j) => Taken(j)'
  /\ \A j \in js : j \in Jobs /\ ~Taken(j) /\ Taken(j)'
  /\ \A j \in Jobs : Mine(j)' =>
       \/ Mine(j) /\ LeaseOn(j)' = LeaseOn(j)
       \/ j \in js /\ LeaseOn(j)' \in NewLeases(js)

(* Enqueue leases nothing. *)
LEMMA EnqueueMoves ==
  ASSUME QueueTypeOK, NEW js, Enqueue(js)
  PROVE  Moves({})
<1>1. QueueTypeOK'
  BY EnqueueType
<1> QED
  BY <1>1 DEF Moves, Mine, Taken, Enqueue, In, LeaseOn, Waiting

(* A claim leases the jobs it names. *)
LEMMA ClaimMoves ==
  ASSUME QueueTypeOK, NEW js, Claim(Me, js)
  PROVE  Moves(js)
<1>1. QueueTypeOK'
  BY ClaimType, ShardedAssumption
<1> QED
  BY <1>1 DEF Moves, Mine, Taken, Claim, In, LeaseOn, Leased, NewLeases

(* A lease that expires is still the lease it was. *)
LEMMA ExpireMoves ==
  ASSUME QueueTypeOK, NEW j \in Jobs, Expire(j)
  PROVE  Moves({})
<1>1. QueueTypeOK'
  BY ExpireType
<1> QED
  BY <1>1 DEF Moves, Mine, Taken, Expire, In, LeaseOn, Leased, QueueTypeOK

(* Recovery by another worker takes leases away. *)
LEMMA RecoverMoves ==
  ASSUME QueueTypeOK, NEW w \in Workers \ {Me}, NEW js, RecoverExpired(w, js)
  PROVE  Moves({})
<1>1. QueueTypeOK'
  BY RecoverType
<1> QED
  BY <1>1 DEF Moves, Mine, Taken, RecoverExpired, In, LeaseOn, Leased

(* A renewal leaves the lease the lease it was. *)
LEMMA ExtendMoves ==
  ASSUME QueueTypeOK, NEW js, Extend(js)
  PROVE  Moves({})
<1>1. QueueTypeOK'
  BY ExtendType
<1> QED
  BY <1>1 DEF Moves, Mine, Taken, Extend, In, LeaseOn, Leased

(* An ack ends the leases of its jobs. *)
LEMMA AckMoves ==
  ASSUME QueueTypeOK, NEW js, Ack(js)
  PROVE  Moves({}) /\ \A j \in js : ~Mine(j)'
<1>1. QueueTypeOK'
  BY AckType
<1> QED
  BY <1>1 DEF Moves, Mine, Taken, Ack, In, LeaseOn, Done

(* Nothing happens to the queue. *)
LEMMA NothingMoves ==
  ASSUME QueueTypeOK, UNCHANGED job
  PROVE  Moves({})
BY DEF Moves, Mine, Taken, In, LeaseOn, QueueTypeOK

-----------------------------------------------------------------------------
(* The invariant in the form the proofs use *)

(* The places a lease can be in are apart. *)
Apart ==
  /\ claim.got \cap buffered = {} /\ claim.got \cap running = {} /\ buffered \cap running = {}
  /\ \A p \in Partitions : brought[p] \cap (claim.got \cup buffered \cup running) = {}

(* This worker knows where each of its leases is. *)
Known ==
  \A j \in Jobs : Mine(j) =>
    \/ LeaseOn(j) \in abandoned \cup claim.got \cup buffered \cup running
    \/ \E p \in Partitions : LeaseOn(j) \in brought[p]

(* Four sets in a sequence. *)
LEMMA FourSets ==
  ASSUME NEW g, NEW b, NEW u, NEW r, NEW P, P = <<g, b, u, r>>
  PROVE  /\ (\A m, n \in 1 .. 4 : m # n => P[m] \cap P[n] = {}) <=>
              /\ g \cap b = {} /\ g \cap r = {} /\ b \cap r = {}
              /\ u \cap (g \cup b \cup r) = {}
         /\ \A l : (\E n \in 1 .. 4 : l \in P[n]) <=> l \in g \cup b \cup u \cup r
<1>1. P[1] = g /\ P[2] = b /\ P[3] = u /\ P[4] = r
  OBVIOUS
<1>2. \A n \in 1 .. 4 : n = 1 \/ n = 2 \/ n = 3 \/ n = 4
  BY SMT
<1>3. ASSUME \A m, n \in 1 .. 4 : m # n => P[m] \cap P[n] = {}
      PROVE  /\ g \cap b = {} /\ g \cap r = {} /\ b \cap r = {}
             /\ u \cap (g \cup b \cup r) = {}
  <2>1. /\ P[1] \cap P[2] = {} /\ P[1] \cap P[4] = {} /\ P[2] \cap P[4] = {}
        /\ P[3] \cap P[1] = {} /\ P[3] \cap P[2] = {} /\ P[3] \cap P[4] = {}
    BY <1>3, SMT
  <2> QED
    BY <1>1, <2>1
<1>4. ASSUME g \cap b = {}, g \cap r = {}, b \cap r = {}, u \cap (g \cup b \cup r) = {}
      PROVE  \A m, n \in 1 .. 4 : m # n => P[m] \cap P[n] = {}
  BY <1>1, <1>2, <1>4
<1>5. \A l : (\E n \in 1 .. 4 : l \in P[n]) <=> l \in g \cup b \cup u \cup r
  BY <1>1, <1>2, SMT
<1> QED
  BY <1>3, <1>4, <1>5

(* EveryLeaseHasOnePlace, place by place. *)
LEMMA PlacesOneByOne ==
  /\ EveryLeaseHasOnePlace <=> Apart /\ Known
  /\ EveryLeaseHasOnePlace' <=> Apart' /\ Known'
<1>1. EveryLeaseHasOnePlace <=> Apart /\ Known
  <2> DEFINE u == UNION {brought[p] : p \in Partitions}
  <2>1. \A l : l \in u <=> \E p \in Partitions : l \in brought[p]
    OBVIOUS
  <2>2. Places = <<claim.got, buffered, u, running>>
    BY DEF Places
  <2> HIDE DEF u
  <2>3. /\ (\A m, n \in 1 .. 4 : m # n => Places[m] \cap Places[n] = {}) <=>
             /\ claim.got \cap buffered = {} /\ claim.got \cap running = {}
             /\ buffered \cap running = {}
             /\ u \cap (claim.got \cup buffered \cup running) = {}
        /\ \A l : (\E n \in 1 .. 4 : l \in Places[n]) <=>
                   l \in claim.got \cup buffered \cup u \cup running
    BY <2>2, FourSets, SMT
  <2>4. (\A m, n \in 1 .. 4 : m # n => Places[m] \cap Places[n] = {}) <=> Apart
    BY <2>1, <2>3 DEF Apart
  <2>5. \A l : l \in abandoned \cup UNION {Places[n] : n \in 1 .. 4} <=>
               \/ l \in abandoned \cup claim.got \cup buffered \cup running
               \/ \E p \in Partitions : l \in brought[p]
    BY <2>1, <2>3, SMT
  <2>6. \A j : Mine(j) <=> j \in Jobs /\ j \in In("leased") /\ job[j].owner = Me
    BY DEF Mine, In
  <2>7. \A j \in In("leased") : j \in Jobs
    BY DEF In
  <2>8. Known <=>
          \A j \in In("leased") : job[j].owner = Me =>
            LeaseOn(j) \in abandoned \cup UNION {Places[n] : n \in 1 .. 4}
    BY <2>5, <2>6, <2>7 DEF Known
  <2> QED
    BY <2>4, <2>8 DEF EveryLeaseHasOnePlace
<1>2. EveryLeaseHasOnePlace' <=> Apart' /\ Known'
  <2> DEFINE u == UNION {brought'[p] : p \in Partitions}
  <2>1. \A l : l \in u <=> \E p \in Partitions : l \in brought'[p]
    OBVIOUS
  <2>2. Places' = <<claim'.got, buffered', u, running'>>
    BY DEF Places
  <2> HIDE DEF u
  <2>3. /\ (\A m, n \in 1 .. 4 : m # n => Places'[m] \cap Places'[n] = {}) <=>
             /\ claim'.got \cap buffered' = {} /\ claim'.got \cap running' = {}
             /\ buffered' \cap running' = {}
             /\ u \cap (claim'.got \cup buffered' \cup running') = {}
        /\ \A l : (\E n \in 1 .. 4 : l \in Places'[n]) <=>
                   l \in claim'.got \cup buffered' \cup u \cup running'
    BY <2>2, FourSets, SMT
  <2>4. (\A m, n \in 1 .. 4 : m # n => Places'[m] \cap Places'[n] = {}) <=> Apart'
    BY <2>1, <2>3 DEF Apart
  <2>5. \A l : l \in abandoned' \cup UNION {Places'[n] : n \in 1 .. 4} <=>
               \/ l \in abandoned' \cup claim'.got \cup buffered' \cup running'
               \/ \E p \in Partitions : l \in brought'[p]
    BY <2>1, <2>3, SMT
  <2>6. \A j : Mine(j)' <=> j \in Jobs /\ j \in In("leased")' /\ job'[j].owner = Me
    BY DEF Mine, In
  <2>7. \A j \in In("leased")' : j \in Jobs
    BY DEF In
  <2>8. Known' <=>
          \A j \in In("leased")' : job'[j].owner = Me =>
            LeaseOn(j)' \in abandoned' \cup UNION {Places'[n] : n \in 1 .. 4}
    BY <2>5, <2>6, <2>7 DEF Known
  <2> QED
    BY <2>4, <2>8 DEF EveryLeaseHasOnePlace
<1> QED
  BY <1>1, <1>2

(* ShardedIInv with EveryLeaseHasOnePlace taken apart. *)
ShardedParts ==
  /\ TypeOK /\ HeldIsFinite /\ ClaimFits
  /\ Apart /\ Known /\ HeldIsTaken /\ LostStaysLost
  /\ SignalIsDue /\ PollersAreGone

(* The invariant, part by part. *)
LEMMA InvariantParts ==
  (ShardedIInv <=> ShardedParts) /\ (ShardedIInv' <=> ShardedParts')
BY PlacesOneByOne DEF ShardedIInv, ShardedParts

(* A lease on a job that has been handed out: the job stays so, and a lease
   that is lost stays lost. *)
LEMMA OldLeases ==
  ASSUME NEW js, Moves(js), NEW l \in Leases, Taken(l.id)
  PROVE  Taken(l.id)' /\ (~Owns(l) => ~Owns(l)')
<1>1. l.id \in Jobs /\ l.owner = Me
  BY DEF Leases
<1>2. Owns(l)' => Mine(l.id)' /\ LeaseOn(l.id)' = l
  BY <1>1, SMT DEF Owns, Mine, LeaseOn
<1>3. Mine(l.id) /\ LeaseOn(l.id) = l => Owns(l)
  BY DEF Owns, Mine
<1> QED
  BY <1>1, <1>2, <1>3 DEF Moves

(* The heartbeat's view stays right as long as the heartbeat takes no step. *)
LEMMA BeatUnmoved ==
  ASSUME ShardedParts, NEW js, Moves(js), UNCHANGED beat
  PROVE  LostStaysLost'
<1>1. beat.riding \subseteq Leases /\ beat.lost \subseteq Leases
  BY DEF ShardedParts, TypeOK, Beats
<1> QED
  BY <1>1, OldLeases DEF ShardedParts, LostStaysLost

(* What is held stays taken. *)
LEMMA HeldStaysTaken ==
  ASSUME ShardedParts, NEW js, Moves(js), UNCHANGED part
  PROVE  /\ \A l \in claim.got \cup buffered \cup running : Taken(l.id)'
         /\ \A p \in Partitions : \A l \in brought[p] : Taken(l.id)' /\ part'[l.id] = p
<1>1. claim.got \subseteq Leases /\ buffered \subseteq Leases /\ running \subseteq Leases
  BY DEF ShardedParts, TypeOK, Calls
<1>2. \A p \in Partitions : brought[p] \subseteq Leases
  BY DEF ShardedParts, TypeOK
<1> QED
  BY <1>1, <1>2, OldLeases DEF ShardedParts, HeldIsTaken

(* No lease is forgotten as long as none leaves the places that are not the
   pollers', and a new one comes to them. *)
LEMMA KnownStays ==
  ASSUME ShardedParts, NEW js, Moves(js), UNCHANGED brought,
         \A l : l \in abandoned \/ l \in claim.got \/ l \in buffered \/ l \in running
                  \/ l \in NewLeases(js)
                => l \in abandoned' \/ l \in claim'.got \/ l \in buffered' \/ l \in running'
  PROVE  Known'
<1>1. \A j \in Jobs : Mine(j)' =>
        (Mine(j) /\ LeaseOn(j)' = LeaseOn(j)) \/ LeaseOn(j)' \in NewLeases(js)
  BY DEF Moves
<1> DEFINE old == abandoned \cup claim.got \cup buffered \cup running
           new == abandoned' \cup claim'.got \cup buffered' \cup running'
<1>2. (\A l \in old : l \in new) /\ (\A l \in NewLeases(js) : l \in new)
  OBVIOUS
<1>3. \A j \in Jobs : Mine(j) =>
        LeaseOn(j) \in old \/ \E p \in Partitions : LeaseOn(j) \in brought[p]
  BY DEF ShardedParts, Known
<1>4. Known' <=> \A j \in Jobs : Mine(j)' =>
        LeaseOn(j)' \in new \/ \E p \in Partitions : LeaseOn(j)' \in brought'[p]
  BY DEF Known
<1> HIDE DEF old, new
<1> QED
  BY <1>1, <1>2, <1>3, <1>4

(* A step of the queue alone. *)
LEMMA QueueStepKeeps ==
  ASSUME ShardedIInv, Moves({}),
         UNCHANGED <<part, claimVars, pollVars, buffered, closing, running, beat, abandoned>>
  PROVE  ShardedIInv'
<1>0. ShardedParts
  BY InvariantParts
<1>1. /\ UNCHANGED <<part, claim, claimNext, waiting, poller, count, asked, brought>>
      /\ UNCHANGED <<signals, arrived, buffered, closing, running, beat, abandoned>>
  BY DEF claimVars, pollVars
<1>2. TypeOK'
  <2>1. QueueTypeOK'
    BY DEF Moves
  <2> QED
    BY <1>0, <1>1, <2>1 DEF ShardedParts, TypeOK
<1>3. HeldIsFinite' /\ ClaimFits' /\ Apart' /\ SignalIsDue' /\ PollersAreGone'
  BY <1>0, <1>1
     DEF ShardedParts, HeldIsFinite, ClaimFits, Apart, SignalIsDue, PollersAreGone
<1>4. Known'
  BY <1>0, <1>1 DEF ShardedParts, Known, Moves
<1>5. HeldIsTaken'
  BY <1>0, <1>1, HeldStaysTaken DEF ShardedParts, HeldIsTaken
<1>6. LostStaysLost'
  BY <1>0, <1>1, BeatUnmoved
<1> QED
  BY <1>2, <1>3, <1>4, <1>5, <1>6, InvariantParts DEF ShardedParts

(* The end of a run. *)
LEMMA FinishKeeps ==
  ASSUME ShardedIInv, NEW l \in running, Finish(l)
  PROVE  ShardedIInv'
<1>0. ShardedParts
  BY InvariantParts
<1>1. /\ UNCHANGED <<part, claim, claimNext, waiting, poller, count, asked, brought>>
      /\ UNCHANGED <<signals, arrived, buffered, closing, beat, abandoned>>
      /\ running' = running \ {l}
  BY DEF Finish, claimVars, pollVars
<1>2. l \in Leases /\ l.id \in Jobs /\ QueueTypeOK
  BY <1>0 DEF ShardedParts, TypeOK, Leases
<1>3. Moves({}) /\ ~Owns(l)'
  <2>1. CASE Owns(l)
    <3>1. Ack({l.id})
      BY <2>1 DEF Finish
    <3>2. Moves({}) /\ ~Mine(l.id)'
      BY <1>2, <3>1, AckMoves
    <3>3. l.owner = Me
      BY <1>2 DEF Leases
    <3> QED
      BY <3>2, <3>3, SMT DEF Owns, Mine, LeaseOn
  <2>2. CASE ~Owns(l)
    <3>1. UNCHANGED job
      BY <2>2 DEF Finish
    <3>2. Moves({})
      BY <1>2, <3>1, NothingMoves
    <3> QED
      BY <2>2, <3>1, <3>2 DEF Owns, LeaseOn, In
  <2> QED
    BY <2>1, <2>2
<1>4. /\ IsFiniteSet(running) /\ IsFiniteSet(running')
      /\ Cardinality(running) \in Nat /\ Cardinality(running') \in Nat
      /\ Cardinality(running') <= Cardinality(running)
  BY <1>0, <1>1, FS_Subset, FS_CardinalityType DEF ShardedParts, HeldIsFinite
<1>5. TypeOK'
  <2>1. QueueTypeOK'
    BY <1>3 DEF Moves
  <2> QED
    BY <1>0, <1>1, <1>3, <1>4, ShardedAssumption, <2>1, SMT DEF ShardedParts, TypeOK
<1>6. HeldIsFinite'
  BY <1>0, <1>1, <1>4 DEF ShardedParts, HeldIsFinite
<1>7. ClaimFits'
  BY <1>0, <1>1, <1>4, ShardedAssumption, SMT DEF ShardedParts, ClaimFits, TypeOK, Calls
<1>8. Apart' /\ SignalIsDue' /\ PollersAreGone'
  BY <1>0, <1>1 DEF ShardedParts, Apart, SignalIsDue, PollersAreGone
<1>9. Known'
  <2>1. \A j \in Jobs : Mine(j)' => LeaseOn(j)' # l
    BY <1>3, SMT DEF Mine, Owns, LeaseOn
  <2> QED
    BY <1>0, <1>1, <1>3, <2>1 DEF ShardedParts, Known, Moves
<1>10. HeldIsTaken'
  BY <1>0, <1>1, <1>3, HeldStaysTaken DEF ShardedParts, HeldIsTaken
<1>11. LostStaysLost'
  BY <1>0, <1>1, <1>3, BeatUnmoved
<1> QED
  BY <1>5, <1>6, <1>7, <1>8, <1>9, <1>10, <1>11, InvariantParts DEF ShardedParts

-----------------------------------------------------------------------------
(* The steps of Claim *)

(* Claim starts with what is buffered. *)
LEMMA ClaimStartsKeeps ==
  ASSUME ShardedIInv, NEW limit \in 1 .. Concurrency, NEW ls, ClaimStarts(limit, ls)
  PROVE  ShardedIInv'
<1>0. ShardedParts
  BY InvariantParts
<1>1. /\ UNCHANGED <<job, part, waiting, poller, count, asked, brought>>
      /\ UNCHANGED <<signals, arrived, closing, running, beat, abandoned>>
      /\ claimNext' = (claimNext + 1) % Parts
      /\ claim.pc = "idle" /\ limit <= Concurrency - Cardinality(running)
      /\ claim'.pc = "sweep" /\ claim'.limit = limit /\ claim'.got = ls
  BY DEF ClaimStarts, pollVars
<1>1a. claim' = [pc |-> "sweep", limit |-> limit, swept |-> 0, got |-> ls]
  BY DEF ClaimStarts
<1>2. limit \in Nat \ {0} /\ Parts \in Nat \ {0} /\ Concurrency \in Nat
  BY ShardedAssumption, SMT
<1>3. /\ ls \subseteq buffered /\ buffered' = buffered \ ls
      /\ IsFiniteSet(ls) /\ IsFiniteSet(buffered')
      /\ Cardinality(ls) <= limit
      /\ ls = {} => buffered = {}
  BY <1>0, <1>2, TakeBufferedFacts DEF ClaimStarts, ShardedParts, HeldIsFinite
<1>4. Moves({})
  BY <1>0, <1>1, NothingMoves DEF ShardedParts, TypeOK
<1>5. claimNext' \in Partitions
  BY <1>0, <1>1, <1>2, SMT DEF ShardedParts, TypeOK, Partitions
<1>6. claim' \in Calls
  BY <1>0, <1>1a, <1>2, <1>3, SMT DEF ShardedParts, TypeOK, Calls
<1>7. TypeOK'
  <2>1. QueueTypeOK'
    BY <1>4 DEF Moves
  <2> QED
    BY <1>0, <1>1, <1>3, <1>5, <1>6, <2>1 DEF ShardedParts, TypeOK
<1>8. HeldIsFinite'
  BY <1>0, <1>1, <1>3 DEF ShardedParts, HeldIsFinite
<1>9. ClaimFits'
  <2>1. Cardinality(running) \in Nat
    BY <1>0, FS_CardinalityType DEF ShardedParts, HeldIsFinite
  <2> QED
    BY <1>0, <1>1, <1>2, <2>1, SMT DEF ShardedParts, ClaimFits
<1>10. Apart'
  BY <1>0, <1>1, <1>3 DEF ShardedParts, Apart
<1>11. Known'
  <2>1. claim.got = {} /\ claim'.got = ls /\ NewLeases({}) = {}
    BY <1>0, <1>1 DEF ShardedParts, ClaimFits, NewLeases
  <2>2. \A l : l \in abandoned \/ l \in claim.got \/ l \in buffered \/ l \in running
                 \/ l \in NewLeases({})
               => l \in abandoned' \/ l \in claim'.got \/ l \in buffered' \/ l \in running'
    BY <1>1, <1>3, <2>1
  <2> QED
    BY <1>0, <1>1, <1>4, <2>2, KnownStays
<1>12. HeldIsTaken'
  BY <1>0, <1>1, <1>3, <1>4, HeldStaysTaken DEF ShardedParts, HeldIsTaken
<1>13. LostStaysLost'
  BY <1>0, <1>1, <1>4, BeatUnmoved
<1>14. SignalIsDue' /\ PollersAreGone'
  BY <1>0, <1>1, <1>3 DEF ShardedParts, SignalIsDue, PollersAreGone
<1> QED
  BY <1>7, <1>8, <1>9, <1>10, <1>11, <1>12, <1>13, <1>14, InvariantParts DEF ShardedParts

(* What a partition's store leases. *)
LEMMA LeaseFacts ==
  ASSUME ShardedParts, NEW p, NEW n, NEW js, Lease(p, n, js)
  PROVE  /\ Moves(js) /\ js \subseteq In("waiting")
         /\ \A j \in js : part[j] = p
         /\ NewLeases(js) \subseteq Leases /\ IsFiniteSet(NewLeases(js))
         /\ n \in Int => Cardinality(NewLeases(js)) <= n
         /\ \A l \in NewLeases(js) : /\ Taken(l.id)' /\ part[l.id] = p
                                     /\ l \notin claim.got \cup buffered \cup running
                                     /\ \A q \in Partitions : l \notin brought[q]
<1>1. QueueTypeOK /\ Claim(Me, js) /\ js \subseteq In("waiting") /\ \A j \in js : part[j] = p
  BY DEF ShardedParts, TypeOK, Lease, Ready
<1>2. Moves(js)
  BY <1>1, ClaimMoves
<1>3. /\ NewLeases(js) \subseteq Leases
      /\ \A l \in NewLeases(js) : l.id \in js
      /\ IsFiniteSet(js) /\ IsFiniteSet(NewLeases(js))
      /\ Cardinality(NewLeases(js)) <= Cardinality(js)
  BY <1>1, NewLeasesFacts
<1>4. Cardinality(js) \in Nat /\ Cardinality(NewLeases(js)) \in Nat
  BY <1>3, FS_CardinalityType
<1>5. Cardinality(Ready(p)) \in Nat
  <2>1. Ready(p) \subseteq Jobs
    BY DEF Ready, In
  <2>2. IsFiniteSet(Ready(p))
    BY <2>1, ShardedAssumption, FS_Subset
  <2> QED
    BY <2>2, FS_CardinalityType
<1>6. n \in Int => Cardinality(js) <= n
  BY <1>5, MinOfTwo, SMT DEF Lease
<1>7. n \in Int => Cardinality(NewLeases(js)) <= n
  BY <1>3, <1>4, <1>6, SMT
<1>8. \A l \in NewLeases(js) : ~Taken(l.id) /\ Taken(l.id)' /\ part[l.id] = p
  BY <1>1, <1>2, <1>3 DEF Moves
<1>9. \A l \in NewLeases(js) : /\ l \notin claim.got \cup buffered \cup running
                              /\ \A q \in Partitions : l \notin brought[q]
  BY <1>8 DEF ShardedParts, HeldIsTaken
<1> QED
  BY <1>1, <1>2, <1>3, <1>7, <1>8, <1>9

(* The sweep claims from the next partition. *)
LEMMA SweepNextKeeps ==
  ASSUME ShardedIInv, NEW js, SweepNext(js)
  PROVE  ShardedIInv'
<1>0. ShardedParts
  BY InvariantParts
<1> DEFINE new == NewLeases(js)
           n == claim.limit - Cardinality(claim.got)
<1>1. /\ UNCHANGED <<part, claimNext, waiting, poller, count, asked, brought>>
      /\ UNCHANGED <<signals, arrived, buffered, closing, running, beat, abandoned>>
      /\ claim.pc = "sweep" /\ claim.swept < Parts
      /\ Lease(NextPart, n, js)
  BY DEF SweepNext, Sweeping, pollVars
<1>1a. claim' = [pc |-> "sweep", limit |-> claim.limit, swept |-> claim.swept + 1,
                 got |-> claim.got \cup new]
  BY DEF SweepNext
<1>2. /\ claim.limit \in 0 .. Concurrency /\ claim.swept \in 0 .. Parts
      /\ claim.got \subseteq Leases /\ Cardinality(claim.got) <= claim.limit
      /\ IsFiniteSet(claim.got) /\ Cardinality(claim.got) \in Nat
      /\ Parts \in Nat \ {0} /\ Concurrency \in Nat
  BY <1>0, ShardedAssumption, FS_CardinalityType DEF ShardedParts, TypeOK, HeldIsFinite, Calls
<1>3. n \in Int
  BY <1>2, SMT
<1>4. /\ Moves(js)
      /\ new \subseteq Leases /\ IsFiniteSet(new) /\ Cardinality(new) <= n
      /\ \A l \in new : /\ Taken(l.id)'
                        /\ l \notin claim.got \cup buffered \cup running
                        /\ \A q \in Partitions : l \notin brought[q]
  <2>1. PICK m \in Int : m = n
    BY <1>3
  <2>2. Lease(NextPart, m, js)
    BY <1>1, <2>1
  <2> HIDE DEF n
  <2> QED
    BY <1>0, <2>1, <2>2, LeaseFacts
<1> HIDE DEF new
<1>5. /\ claim'.pc = "sweep" /\ claim'.limit = claim.limit
      /\ claim'.got = claim.got \cup new
  BY <1>1a
<1>5a. claim' \in Calls
  BY <1>1, <1>1a, <1>2, <1>4, SMT DEF Calls
<1>6. IsFiniteSet(claim'.got) /\ Cardinality(claim'.got) <= claim'.limit
  <2>1. /\ IsFiniteSet(claim.got \cup new) /\ Cardinality(new) \in Nat
        /\ Cardinality(claim.got \cup new) \in Nat
        /\ Cardinality(claim.got \cup new) <= Cardinality(claim.got) + Cardinality(new)
    BY <1>2, <1>4, UnionIsFinite
  <2> QED
    BY <1>2, <1>4, <1>5, <2>1, SMT
<1>7. TypeOK'
  <2>1. QueueTypeOK'
    BY <1>4 DEF Moves
  <2> QED
    BY <1>0, <1>1, <1>4, <1>5, <1>5a, <1>6, <2>1 DEF ShardedParts, TypeOK
<1>8. HeldIsFinite' /\ ClaimFits'
  BY <1>0, <1>1, <1>5, <1>6 DEF ShardedParts, HeldIsFinite, ClaimFits
<1>9. Apart'
  BY <1>0, <1>1, <1>4, <1>5 DEF ShardedParts, Apart
<1>10. Known'
  <2>1. \A l : l \in abandoned \/ l \in claim.got \/ l \in buffered \/ l \in running
                 \/ l \in NewLeases(js)
               => l \in abandoned' \/ l \in claim'.got \/ l \in buffered' \/ l \in running'
    BY <1>1, <1>5 DEF new
  <2> QED
    BY <1>0, <1>1, <1>4, <2>1, KnownStays
<1>11. HeldIsTaken'
  BY <1>0, <1>1, <1>4, <1>5, HeldStaysTaken DEF ShardedParts, HeldIsTaken
<1>12. LostStaysLost'
  BY <1>0, <1>1, <1>4, BeatUnmoved
<1>13. SignalIsDue' /\ PollersAreGone'
  BY <1>0, <1>1, <1>5 DEF ShardedParts, SignalIsDue, PollersAreGone
<1> QED
  BY <1>7, <1>8, <1>9, <1>10, <1>11, <1>12, <1>13, InvariantParts DEF ShardedParts

(* Claim returns: what it has got is running. *)
LEMMA ReturnKeeps ==
  ASSUME ShardedIInv, NEW js, Moves(js), claim.pc # "idle",
         claim' = NoCall, running' = running \cup claim.got,
         abandoned' = abandoned \cup NewLeases(js),
         waiting' = 0,
         UNCHANGED <<part, claimNext, pollVars, buffered, closing, beat>>
  PROVE  ShardedIInv'
<1>0. ShardedParts
  BY InvariantParts
<1>1. UNCHANGED <<poller, count, asked, brought, signals, arrived>>
  BY DEF pollVars
<1>2. claim'.pc = "idle" /\ claim'.limit = 0 /\ claim'.got = {}
  BY DEF NoCall
<1>3. claim' \in Calls
  BY ShardedAssumption, SMT DEF NoCall, Calls
<1>4. IsFiniteSet(running') /\ Cardinality(running') <= Concurrency
  <2>1. /\ IsFiniteSet(running \cup claim.got)
        /\ Cardinality(running) \in Nat /\ Cardinality(claim.got) \in Nat
        /\ Cardinality(running \cup claim.got) \in Nat
        /\ Cardinality(running \cup claim.got) <= Cardinality(running) + Cardinality(claim.got)
    BY <1>0, UnionIsFinite DEF ShardedParts, HeldIsFinite
  <2>2. /\ Cardinality(claim.got) <= claim.limit /\ claim.limit \in 0 .. Concurrency
        /\ Cardinality(running) + claim.limit <= Concurrency
    BY <1>0 DEF ShardedParts, TypeOK, ClaimFits, Calls
  <2> QED
    BY <2>1, <2>2, ShardedAssumption, SMT
<1>5. IsFiniteSet(claim'.got) /\ Cardinality(claim'.got) = 0
  BY <1>2, FS_EmptySet
<1>6. TypeOK'
  <2>1. QueueTypeOK'
    BY DEF Moves
  <2> QED
    BY <1>0, <1>1, <1>2, <1>3, <1>4, <1>5, <2>1, SMT DEF ShardedParts, TypeOK, Calls
<1>7. HeldIsFinite' /\ ClaimFits'
  BY <1>0, <1>1, <1>2, <1>4, <1>5 DEF ShardedParts, HeldIsFinite, ClaimFits
<1>8. Apart'
  BY <1>0, <1>1, <1>2 DEF ShardedParts, Apart
<1>9. Known'
  <2>1. \A l : l \in abandoned \/ l \in claim.got \/ l \in buffered \/ l \in running
                 \/ l \in NewLeases(js)
               => l \in abandoned' \/ l \in claim'.got \/ l \in buffered' \/ l \in running'
    BY <1>2
  <2> QED
    BY <1>0, <1>1, <2>1, KnownStays
<1>10. HeldIsTaken'
  BY <1>0, <1>1, <1>2, HeldStaysTaken DEF ShardedParts, HeldIsTaken
<1>11. LostStaysLost'
  BY <1>0, BeatUnmoved
<1>12. SignalIsDue' /\ PollersAreGone'
  BY <1>0, <1>1, <1>2 DEF ShardedParts, SignalIsDue, PollersAreGone
<1> QED
  BY <1>6, <1>7, <1>8, <1>9, <1>10, <1>11, <1>12, InvariantParts DEF ShardedParts

(* The sweep ends early or is complete, or the wait is over. *)
LEMMA ReturnsKeep ==
  ASSUME ShardedIInv, (\E js : SweepFails(js)) \/ ClaimReturns \/ Leaves
  PROVE  ShardedIInv'
<1>0. ShardedParts /\ QueueTypeOK
  BY InvariantParts DEF ShardedParts, TypeOK
<1>1. NewLeases({}) = {} /\ (UNCHANGED job => Moves({}))
  BY <1>0, NothingMoves DEF NewLeases
<1>2. claim.pc = "sweep" => waiting = 0
  BY <1>0 DEF ShardedParts, TypeOK
<1>3. claim.pc = "leave" => waiting = 1
  BY <1>0 DEF ShardedParts, TypeOK
<1>4. ASSUME NEW js, SweepFails(js)
      PROVE  ShardedIInv'
  <2> DEFINE n == claim.limit - Cardinality(claim.got)
  <2>1. /\ claim.pc = "sweep"
        /\ IF js = {} THEN UNCHANGED job ELSE Lease(NextPart, n, js)
    BY <1>4 DEF SweepFails, Sweeping
  <2>2. n \in Int
    BY <1>0, FS_CardinalityType, ShardedAssumption, SMT DEF ShardedParts, TypeOK, HeldIsFinite, Calls
  <2> HIDE DEF n
  <2>3. Moves(js)
    <3>1. CASE js = {}
      BY <1>1, <2>1, <3>1
    <3>2. CASE js # {}
      BY <1>0, <2>1, <2>2, <3>2, LeaseFacts
    <3> QED
      BY <3>1, <3>2
  <2>4. /\ claim' = NoCall /\ running' = running \cup claim.got
        /\ abandoned' = abandoned \cup NewLeases(js)
        /\ waiting' = 0
        /\ UNCHANGED <<part, claimNext, pollVars, buffered, closing, beat>>
    BY <1>2, <1>4, <2>1 DEF SweepFails
  <2> QED
    BY <2>1, <2>3, <2>4, ReturnKeeps
<1>5. ASSUME ClaimReturns \/ Leaves
      PROVE  ShardedIInv'
  <2>1. /\ claim.pc \in {"sweep", "leave"} /\ UNCHANGED job
        /\ claim' = NoCall /\ running' = running \cup claim.got
        /\ UNCHANGED <<part, claimNext, pollVars, buffered, closing, beat, abandoned>>
    BY <1>5 DEF ClaimReturns, Leaves
  <2>2. waiting' = 0
    BY <1>2, <1>3, <1>5, SMT DEF ClaimReturns, Leaves
  <2>3. Moves({}) /\ abandoned' = abandoned \cup NewLeases({})
    BY <1>1, <2>1
  <2> QED
    BY <2>1, <2>2, <2>3, ReturnKeeps
<1> QED
  BY <1>4, <1>5

(* The sweep found nothing, and Claim starts the pollers and waits. *)
LEMMA WaitForJobsKeeps ==
  ASSUME ShardedIInv, WaitForJobs
  PROVE  ShardedIInv'
<1>0. ShardedParts
  BY InvariantParts
<1>1. /\ UNCHANGED <<job, part, claimNext, asked, brought, signals, arrived, buffered>>
      /\ UNCHANGED <<closing, running, beat, abandoned>>
      /\ claim.pc = "sweep" /\ claim.got = {} /\ closing = "open"
      /\ waiting' = waiting + 1
      /\ poller' = [p \in Partitions |-> IF poller[p] = "off" THEN "loop" ELSE poller[p]]
  BY DEF WaitForJobs
<1>1a. claim' = [claim EXCEPT !.pc = "select"]
  BY DEF WaitForJobs
<1>2. Moves({})
  BY <1>0, <1>1, NothingMoves DEF ShardedParts, TypeOK
<1>3. /\ claim'.pc = "select" /\ claim'.limit = claim.limit /\ claim'.got = {}
  BY <1>0, <1>1, <1>1a, SMT DEF ShardedParts, TypeOK
<1>3a. claim' \in Calls
  BY <1>0, <1>1, <1>1a DEF ShardedParts, TypeOK, Calls
<1>4. poller' \in [Partitions -> {"off", "loop", "reading", "back"}]
  BY <1>0, <1>1 DEF ShardedParts, TypeOK
<1>5. waiting' = 1
  BY <1>0, <1>1, SMT DEF ShardedParts, TypeOK
<1>6. TypeOK'
  <2>1. QueueTypeOK'
    BY <1>2 DEF Moves
  <2> QED
    BY <1>0, <1>1, <1>3, <1>3a, <1>4, <1>5, <2>1 DEF ShardedParts, TypeOK
<1>7. HeldIsFinite' /\ ClaimFits'
  BY <1>0, <1>1, <1>3 DEF ShardedParts, HeldIsFinite, ClaimFits
<1>8. Apart'
  BY <1>0, <1>1, <1>3 DEF ShardedParts, Apart
<1>9. Known'
  <2>1. \A l : l \in abandoned \/ l \in claim.got \/ l \in buffered \/ l \in running
                 \/ l \in NewLeases({})
               => l \in abandoned' \/ l \in claim'.got \/ l \in buffered' \/ l \in running'
    BY <1>1, <1>3 DEF NewLeases
  <2> QED
    BY <1>0, <1>1, <1>2, <2>1, KnownStays
<1>10. HeldIsTaken'
  <2>1. \A p \in Partitions : poller'[p] # "back" => poller[p] # "back"
    BY <1>1
  <2> QED
    BY <1>0, <1>1, <1>2, <1>3, <2>1, HeldStaysTaken DEF ShardedParts, HeldIsTaken
<1>11. LostStaysLost'
  BY <1>0, <1>1, <1>2, BeatUnmoved
<1>12. SignalIsDue' /\ PollersAreGone'
  BY <1>0, <1>1, <1>3 DEF ShardedParts, SignalIsDue, PollersAreGone
<1> QED
  BY <1>6, <1>7, <1>8, <1>9, <1>10, <1>11, <1>12, InvariantParts DEF ShardedParts


-----------------------------------------------------------------------------
(* The steps of a waiting Claim *)

(* The select receives a signal. *)
LEMMA WakesUpKeeps ==
  ASSUME ShardedIInv, WakesUp
  PROVE  ShardedIInv'
<1>0. ShardedParts
  BY InvariantParts
<1>1. /\ UNCHANGED <<job, part, claimNext, waiting, poller, asked, brought, signals, buffered>>
      /\ UNCHANGED <<closing, running, beat, abandoned>>
      /\ claim.pc = "select" /\ arrived' = FALSE
  BY DEF WakesUp
<1>1a. claim' = [claim EXCEPT !.pc = "take"]
  BY DEF WakesUp
<1>2. Moves({})
  BY <1>0, <1>1, NothingMoves DEF ShardedParts, TypeOK
<1>3. /\ claim'.pc = "take" /\ claim'.limit = claim.limit /\ claim'.got = claim.got
  BY <1>0, <1>1, <1>1a, SMT DEF ShardedParts, TypeOK
<1>3a. claim' \in Calls
  BY <1>0, <1>1, <1>1a DEF ShardedParts, TypeOK, Calls
<1>4. TypeOK'
  <2>1. QueueTypeOK'
    BY <1>2 DEF Moves
  <2> QED
    BY <1>0, <1>1, <1>3, <1>3a, <2>1 DEF ShardedParts, TypeOK
<1>5. HeldIsFinite' /\ ClaimFits'
  BY <1>0, <1>1, <1>3 DEF ShardedParts, HeldIsFinite, ClaimFits
<1>6. Apart' /\ SignalIsDue' /\ PollersAreGone'
  BY <1>0, <1>1, <1>3 DEF ShardedParts, Apart, SignalIsDue, PollersAreGone
<1>7. Known'
  <2>1. \A l : l \in abandoned \/ l \in claim.got \/ l \in buffered \/ l \in running
                 \/ l \in NewLeases({})
               => l \in abandoned' \/ l \in claim'.got \/ l \in buffered' \/ l \in running'
    BY <1>1, <1>3 DEF NewLeases
  <2> QED
    BY <1>0, <1>1, <1>2, <2>1, KnownStays
<1>8. HeldIsTaken'
  BY <1>0, <1>1, <1>2, <1>3, HeldStaysTaken DEF ShardedParts, HeldIsTaken
<1>9. LostStaysLost'
  BY <1>0, <1>1, <1>2, BeatUnmoved
<1> QED
  BY <1>4, <1>5, <1>6, <1>7, <1>8, <1>9, InvariantParts DEF ShardedParts

(* A woken or timed-out Claim takes from the buffer. *)
LEMMA TakesKeeps ==
  ASSUME ShardedIInv, NEW ls, Takes(ls) \/ GivesUp(ls)
  PROVE  ShardedIInv'
<1>0. ShardedParts
  BY InvariantParts
<1> DEFINE pc == claim'.pc
<1>1. /\ UNCHANGED <<job, part, claimNext, waiting, poller, asked, brought, signals, arrived>>
      /\ UNCHANGED <<closing, running, beat, abandoned>>
      /\ claim.pc \in {"select", "take"}
      /\ TakeBuffered(claim.limit, ls)
      /\ pc = "leave" \/ (pc = "select" /\ ls = {})
  BY SMT DEF Takes, GivesUp, pollVars
<1>1a. claim' = [pc |-> pc, limit |-> claim.limit, swept |-> claim.swept, got |-> ls]
  BY SMT DEF Takes, GivesUp
<1> HIDE DEF pc
<1>2. Moves({})
  BY <1>0, <1>1, NothingMoves DEF ShardedParts, TypeOK
<1>3. claim.limit \in Nat \ {0} /\ claim.got = {} /\ IsFiniteSet(buffered)
  BY <1>0, <1>1, ShardedAssumption, SMT DEF ShardedParts, ClaimFits, TypeOK, HeldIsFinite, Calls
<1>4. /\ ls \subseteq buffered /\ buffered' = buffered \ ls
      /\ IsFiniteSet(ls) /\ IsFiniteSet(buffered')
      /\ Cardinality(ls) <= claim.limit
      /\ ls = {} => buffered = {}
  BY <1>1, <1>3, TakeBufferedFacts
<1>5. /\ claim'.pc = pc /\ claim'.limit = claim.limit /\ claim'.got = ls
  BY <1>1a
<1>5a. claim' \in Calls
  BY <1>0, <1>1, <1>1a, <1>4 DEF ShardedParts, TypeOK, Calls
<1>6. TypeOK'
  <2>1. QueueTypeOK'
    BY <1>2 DEF Moves
  <2> QED
    BY <1>0, <1>1, <1>4, <1>5, <1>5a, <2>1 DEF ShardedParts, TypeOK
<1>7. HeldIsFinite' /\ ClaimFits'
  BY <1>0, <1>1, <1>4, <1>5 DEF ShardedParts, HeldIsFinite, ClaimFits
<1>8. Apart' /\ SignalIsDue' /\ PollersAreGone'
  BY <1>0, <1>1, <1>4, <1>5 DEF ShardedParts, Apart, SignalIsDue, PollersAreGone
<1>9. Known'
  <2>1. NewLeases({}) = {}
    BY DEF NewLeases
  <2>2. \A l : l \in abandoned \/ l \in claim.got \/ l \in buffered \/ l \in running
                 \/ l \in NewLeases({})
               => l \in abandoned' \/ l \in claim'.got \/ l \in buffered' \/ l \in running'
    BY <1>1, <1>3, <1>4, <1>5, <2>1
  <2> QED
    BY <1>0, <1>1, <1>2, <2>2, KnownStays
<1>10. HeldIsTaken'
  BY <1>0, <1>1, <1>2, <1>4, <1>5, HeldStaysTaken DEF ShardedParts, HeldIsTaken
<1>11. LostStaysLost'
  BY <1>0, <1>1, <1>2, BeatUnmoved
<1> QED
  BY <1>6, <1>7, <1>8, <1>9, <1>10, <1>11, InvariantParts DEF ShardedParts

-----------------------------------------------------------------------------
(* The steps of the pollers *)

(* A poller goes round, or stops because nobody waits. *)
LEMMA PollAgainKeeps ==
  ASSUME ShardedIInv, NEW p \in Partitions, PollAgain(p)
  PROVE  ShardedIInv'
<1>0. ShardedParts
  BY InvariantParts
<1>1. /\ UNCHANGED <<job, part, claim, claimNext, waiting, brought, signals, arrived, buffered>>
      /\ UNCHANGED <<closing, running, beat, abandoned>>
      /\ poller[p] = "loop"
      /\ poller' = [poller EXCEPT ![p] = IF waiting = 0 \/ Stopped THEN "off" ELSE "reading"]
  BY DEF PollAgain, claimVars
<1>2. Moves({})
  BY <1>0, <1>1, NothingMoves DEF ShardedParts, TypeOK
<1>3. /\ poller' \in [Partitions -> {"off", "loop", "reading", "back"}]
      /\ \A q \in Partitions : poller'[q] # poller[q] => q = p
      /\ \A q \in Partitions : poller'[q] # "back" => poller[q] # "back"
  BY <1>0, <1>1 DEF ShardedParts, TypeOK
<1>4. TypeOK'
  <2>1. QueueTypeOK'
    BY <1>2 DEF Moves
  <2> QED
    BY <1>0, <1>1, <1>3, <2>1 DEF ShardedParts, TypeOK
<1>5. HeldIsFinite' /\ ClaimFits' /\ Apart' /\ SignalIsDue'
  BY <1>0, <1>1 DEF ShardedParts, HeldIsFinite, ClaimFits, Apart, SignalIsDue
<1>6. PollersAreGone'
  BY <1>0, <1>1 DEF ShardedParts, PollersAreGone
<1>7. Known'
  BY <1>0, <1>1, <1>2 DEF ShardedParts, Known, Moves
<1>8. HeldIsTaken'
  BY <1>0, <1>1, <1>2, <1>3, HeldStaysTaken DEF ShardedParts, HeldIsTaken
<1>9. LostStaysLost'
  BY <1>0, <1>1, <1>2, BeatUnmoved
<1> QED
  BY <1>4, <1>5, <1>6, <1>7, <1>8, <1>9, InvariantParts DEF ShardedParts

(* A long poll comes back with jobs. *)
LEMMA PollReadsKeeps ==
  ASSUME ShardedIInv, NEW p \in Partitions, NEW js, PollReads(p, js)
  PROVE  ShardedIInv'
<1>0. ShardedParts
  BY InvariantParts
<1> DEFINE new == NewLeases(js)
<1>1. /\ UNCHANGED <<part, claim, claimNext, waiting, signals, arrived, buffered>>
      /\ UNCHANGED <<closing, running, beat, abandoned>>
      /\ poller[p] = "reading"
      /\ poller' = [poller EXCEPT ![p] = "back"]
      /\ brought' = [brought EXCEPT ![p] = new]
      /\ Lease(p, asked[p], js)
  BY DEF PollReads, claimVars
<1>2. /\ Moves(js)
      /\ new \subseteq Leases /\ IsFiniteSet(new)
      /\ \A l \in new : /\ Taken(l.id)' /\ part[l.id] = p
                        /\ l \notin claim.got \cup buffered \cup running
                        /\ \A q \in Partitions : l \notin brought[q]
  BY <1>0, <1>1, LeaseFacts
<1>3. \A j \in Jobs : Mine(j)' =>
        \/ Mine(j) /\ LeaseOn(j)' = LeaseOn(j)
        \/ LeaseOn(j)' \in new
  BY <1>2 DEF Moves
<1> HIDE DEF new
<1>4. /\ poller' \in [Partitions -> {"off", "loop", "reading", "back"}]
      /\ poller'[p] = "back" /\ \A q \in Partitions \ {p} : poller'[q] = poller[q]
  BY <1>0, <1>1 DEF ShardedParts, TypeOK
<1>5. /\ brought' \in [Partitions -> SUBSET Leases]
      /\ brought'[p] = new /\ \A q \in Partitions \ {p} : brought'[q] = brought[q]
      /\ brought[p] = {}
  BY <1>0, <1>1, <1>2 DEF ShardedParts, TypeOK, HeldIsTaken
<1>6. TypeOK'
  <2>1. QueueTypeOK'
    BY <1>2 DEF Moves
  <2> QED
    BY <1>0, <1>1, <1>2, <1>4, <1>5, <2>1 DEF ShardedParts, TypeOK
<1>7. HeldIsFinite' /\ ClaimFits' /\ SignalIsDue'
  BY <1>0, <1>1, <1>2, <1>5 DEF ShardedParts, HeldIsFinite, ClaimFits, SignalIsDue
<1>8. PollersAreGone'
  BY <1>0, <1>1 DEF ShardedParts, PollersAreGone
<1>9. Apart'
  BY <1>0, <1>1, <1>2, <1>5 DEF ShardedParts, Apart
<1>10. Known'
  BY <1>0, <1>1, <1>3, <1>5 DEF ShardedParts, Known
<1>11. HeldIsTaken'
  <2>1. /\ \A l \in claim.got \cup buffered \cup running : Taken(l.id)'
        /\ \A q \in Partitions : \A l \in brought[q] : Taken(l.id)' /\ part'[l.id] = q
    BY <1>0, <1>1, <1>2, HeldStaysTaken
  <2> QED
    BY <1>0, <1>1, <1>2, <1>4, <1>5, <2>1 DEF ShardedParts, HeldIsTaken
<1>12. LostStaysLost'
  BY <1>0, <1>1, <1>2, BeatUnmoved
<1> QED
  BY <1>6, <1>7, <1>8, <1>9, <1>10, <1>11, <1>12, InvariantParts DEF ShardedParts

(* A long poll comes back empty, or its reply is lost. *)
LEMMA PollReadsNothingKeeps ==
  ASSUME ShardedIInv, NEW p \in Partitions, NEW js, PollReadsNothing(p, js)
  PROVE  ShardedIInv'
<1>0. ShardedParts /\ QueueTypeOK
  BY InvariantParts DEF ShardedParts, TypeOK
<1>1. /\ UNCHANGED <<part, claim, claimNext, waiting, brought, signals, arrived, buffered>>
      /\ UNCHANGED <<closing, running, beat>>
      /\ poller[p] = "reading"
      /\ poller' = [poller EXCEPT ![p] = "loop"]
      /\ abandoned' = abandoned \cup NewLeases(js)
      /\ IF js = {} THEN UNCHANGED job ELSE Lease(p, asked[p], js)
  BY DEF PollReadsNothing, claimVars
<1>2. Moves(js)
  <2>1. CASE js = {}
    BY <1>0, <1>1, <2>1, NothingMoves
  <2>2. CASE js # {}
    BY <1>0, <1>1, <2>2, LeaseFacts
  <2> QED
    BY <2>1, <2>2
<1>3. /\ poller' \in [Partitions -> {"off", "loop", "reading", "back"}]
      /\ \A q \in Partitions : poller'[q] # "back" => poller[q] # "back"
  BY <1>0, <1>1 DEF ShardedParts, TypeOK
<1>4. TypeOK'
  <2>1. QueueTypeOK'
    BY <1>2 DEF Moves
  <2> QED
    BY <1>0, <1>1, <1>3, <2>1 DEF ShardedParts, TypeOK
<1>5. HeldIsFinite' /\ ClaimFits' /\ Apart' /\ SignalIsDue'
  BY <1>0, <1>1 DEF ShardedParts, HeldIsFinite, ClaimFits, Apart, SignalIsDue
<1>6. PollersAreGone'
  BY <1>0, <1>1 DEF ShardedParts, PollersAreGone
<1>7. Known'
  BY <1>0, <1>1, <1>2 DEF ShardedParts, Known, Moves
<1>8. HeldIsTaken'
  BY <1>0, <1>1, <1>2, <1>3, HeldStaysTaken DEF ShardedParts, HeldIsTaken
<1>9. LostStaysLost'
  BY <1>0, <1>1, <1>2, BeatUnmoved
<1> QED
  BY <1>4, <1>5, <1>6, <1>7, <1>8, <1>9, InvariantParts DEF ShardedParts

(* A poller buffers what it brought and is gone, but for its signal. *)
LEMMA PollBuffersKeeps ==
  ASSUME ShardedIInv, NEW p \in Partitions, PollBuffers(p)
  PROVE  ShardedIInv'
<1>0. ShardedParts
  BY InvariantParts
<1>1. /\ UNCHANGED <<job, part, claim, claimNext, waiting, arrived, closing, running, beat>>
      /\ UNCHANGED abandoned
      /\ poller[p] = "back"
      /\ buffered' = buffered \cup brought[p]
      /\ brought' = [brought EXCEPT ![p] = {}]
      /\ poller' = [poller EXCEPT ![p] = "off"]
      /\ signals' = signals + 1
  BY DEF PollBuffers, claimVars
<1>2. Moves({})
  BY <1>0, <1>1, NothingMoves DEF ShardedParts, TypeOK
<1>3. /\ poller' \in [Partitions -> {"off", "loop", "reading", "back"}]
      /\ \A q \in Partitions \ {p} : poller'[q] = poller[q]
  BY <1>0, <1>1 DEF ShardedParts, TypeOK
<1>4. /\ brought' \in [Partitions -> SUBSET Leases]
      /\ brought'[p] = {} /\ \A q \in Partitions \ {p} : brought'[q] = brought[q]
      /\ brought[p] \subseteq Leases /\ IsFiniteSet(brought[p]) /\ IsFiniteSet({})
  BY <1>0, <1>1, FS_EmptySet DEF ShardedParts, TypeOK, HeldIsFinite
<1>5. IsFiniteSet(buffered')
  BY <1>0, <1>1, <1>4, UnionIsFinite DEF ShardedParts, HeldIsFinite
<1>6. signals' \in Nat /\ signals' > 0
  BY <1>0, <1>1, SMT DEF ShardedParts, TypeOK
<1>7. TypeOK'
  <2>1. QueueTypeOK'
    BY <1>2 DEF Moves
  <2> QED
    BY <1>0, <1>1, <1>3, <1>4, <1>6, <2>1 DEF ShardedParts, TypeOK
<1>8. HeldIsFinite'
  BY <1>0, <1>1, <1>4, <1>5 DEF ShardedParts, HeldIsFinite
<1>9. ClaimFits' /\ SignalIsDue'
  BY <1>0, <1>1, <1>6 DEF ShardedParts, ClaimFits, SignalIsDue
<1>10. PollersAreGone'
  BY <1>0, <1>1 DEF ShardedParts, PollersAreGone
<1>11. Apart'
  <2>1. \A q \in Partitions \ {p} : brought[q] \cap brought[p] = {}
    BY <1>0, SMT DEF ShardedParts, HeldIsTaken
  <2> QED
    BY <1>0, <1>1, <1>4, <2>1 DEF ShardedParts, Apart
<1>12. Known'
  BY <1>0, <1>1, <1>2, <1>4 DEF ShardedParts, Known, Moves
<1>13. HeldIsTaken'
  <2>1. /\ \A l \in claim.got \cup buffered \cup running : Taken(l.id)'
        /\ \A q \in Partitions : \A l \in brought[q] : Taken(l.id)' /\ part'[l.id] = q
    BY <1>0, <1>1, <1>2, HeldStaysTaken
  <2> QED
    BY <1>0, <1>1, <1>3, <1>4, <2>1 DEF ShardedParts, HeldIsTaken
<1>14. LostStaysLost'
  BY <1>0, <1>1, <1>2, BeatUnmoved
<1> QED
  BY <1>7, <1>8, <1>9, <1>10, <1>11, <1>12, <1>13, <1>14, InvariantParts DEF ShardedParts

(* A poller signals arrived; a signal already there is enough. *)
LEMMA PollSignalsKeeps ==
  ASSUME ShardedIInv, PollSignals
  PROVE  ShardedIInv'
<1>0. ShardedParts
  BY InvariantParts
<1>1. /\ UNCHANGED <<job, part, claim, claimNext, waiting, poller, brought, buffered, closing>>
      /\ UNCHANGED <<running, beat, abandoned>>
      /\ signals > 0 /\ signals' = signals - 1 /\ arrived' = TRUE
  BY DEF PollSignals, claimVars
<1>2. Moves({})
  BY <1>0, <1>1, NothingMoves DEF ShardedParts, TypeOK
<1>3. TypeOK'
  <2>1. QueueTypeOK'
    BY <1>2 DEF Moves
  <2> QED
    BY <1>0, <1>1, <2>1, SMT DEF ShardedParts, TypeOK
<1>4. HeldIsFinite' /\ ClaimFits' /\ Apart' /\ SignalIsDue'
  BY <1>0, <1>1 DEF ShardedParts, HeldIsFinite, ClaimFits, Apart, SignalIsDue
<1>5. PollersAreGone'
  BY <1>0, <1>1, SMT DEF ShardedParts, PollersAreGone, TypeOK
<1>6. Known'
  BY <1>0, <1>1, <1>2 DEF ShardedParts, Known, Moves
<1>7. HeldIsTaken'
  BY <1>0, <1>1, <1>2, HeldStaysTaken DEF ShardedParts, HeldIsTaken
<1>8. LostStaysLost'
  BY <1>0, <1>1, <1>2, BeatUnmoved
<1> QED
  BY <1>3, <1>4, <1>5, <1>6, <1>7, <1>8, InvariantParts DEF ShardedParts

-----------------------------------------------------------------------------
(* The steps of the heartbeat and of Close *)

(* A step that only changes the heartbeat's view, and renews leases. *)
LEMMA BeatKeeps ==
  ASSUME ShardedIInv, Moves({}),
         beat' \in Beats,
         LostStaysLost',
         UNCHANGED <<part, claimVars, pollVars, buffered, closing, running, abandoned>>
  PROVE  ShardedIInv'
<1>0. ShardedParts
  BY InvariantParts
<1>1. /\ UNCHANGED <<part, claim, claimNext, waiting, poller, count, asked, brought>>
      /\ UNCHANGED <<signals, arrived, buffered, closing, running, abandoned>>
  BY DEF claimVars, pollVars
<1>2. TypeOK'
  <2>1. QueueTypeOK'
    BY DEF Moves
  <2> QED
    BY <1>0, <1>1, <2>1 DEF ShardedParts, TypeOK
<1>3. HeldIsFinite' /\ ClaimFits' /\ Apart' /\ SignalIsDue' /\ PollersAreGone'
  BY <1>0, <1>1
     DEF ShardedParts, HeldIsFinite, ClaimFits, Apart, SignalIsDue, PollersAreGone
<1>4. Known'
  BY <1>0, <1>1 DEF ShardedParts, Known, Moves
<1>5. HeldIsTaken'
  BY <1>0, <1>1, HeldStaysTaken DEF ShardedParts, HeldIsTaken
<1> QED
  BY <1>2, <1>3, <1>4, <1>5, InvariantParts DEF ShardedParts

(* ExtendBatch collects the leases to renew. *)
LEMMA BeatStartsKeeps ==
  ASSUME ShardedIInv, BeatStarts
  PROVE  ShardedIInv'
<1>0. ShardedParts
  BY InvariantParts
<1>1. /\ UNCHANGED <<part, claimVars, pollVars, buffered, closing, running, abandoned>>
      /\ UNCHANGED job
      /\ beat' = [leases |-> running \cup buffered, left |-> Partitions,
                  riding |-> buffered, lost |-> {}]
  BY DEF BeatStarts
<1>2. Moves({})
  BY <1>0, <1>1, NothingMoves DEF ShardedParts, TypeOK
<1>3. beat' \in Beats
  BY <1>0, <1>1 DEF ShardedParts, TypeOK, Beats
<1>4. LostStaysLost'
  <2>1. \A l \in buffered : Taken(l.id)'
    BY <1>0, <1>1, <1>2, HeldStaysTaken
  <2> QED
    BY <1>1, <2>1 DEF LostStaysLost
<1> QED
  BY <1>1, <1>2, <1>3, <1>4, BeatKeeps

(* ExtendBatch renews the leases of a partition. *)
LEMMA BeatExtendsKeeps ==
  ASSUME ShardedIInv, NEW p \in Partitions, BeatExtends(p)
  PROVE  ShardedIInv'
<1>0. ShardedParts /\ QueueTypeOK
  BY InvariantParts DEF ShardedParts, TypeOK
<1> DEFINE ls == InPart(beat.leases, p)
           lost == InPart(beat.riding, p) \ OwnedOf(ls)
<1>1. UNCHANGED <<part, claimVars, pollVars, buffered, closing, running, abandoned>>
  BY DEF BeatExtends
<1>2. Moves({})
  <2>1. Extend({l.id : l \in OwnedOf(ls)}) \/ UNCHANGED job
    BY DEF BeatExtends
  <2>2. CASE Extend({l.id : l \in OwnedOf(ls)})
    BY <1>0, <2>2, ExtendMoves
  <2>3. CASE UNCHANGED job
    BY <1>0, <2>3, NothingMoves
  <2> QED
    BY <2>1, <2>2, <2>3
<1>3. \/ beat' = [leases |-> beat.leases, left |-> beat.left \ {p},
                  riding |-> beat.riding, lost |-> beat.lost \cup lost]
      \/ beat' = [beat EXCEPT !.left = @ \ {p}]
  BY DEF BeatExtends
<1>4. \A l \in lost : l \in beat.riding /\ ~Owns(l)
  BY <1>0 DEF ShardedParts, LostStaysLost, InPart, OwnedOf
<1> HIDE DEF lost
<1>5. beat \in Beats
  BY <1>0 DEF ShardedParts, TypeOK
<1>6. /\ beat'.leases = beat.leases /\ beat'.riding = beat.riding
      /\ beat'.lost \subseteq beat.lost \cup lost
      /\ beat' \in Beats
  BY <1>3, <1>4, <1>5, SMT DEF Beats
<1>7. LostStaysLost'
  <2>1. /\ beat.riding \subseteq beat.leases
        /\ \A l \in beat.riding \cup beat.lost : l \in Leases /\ Taken(l.id)
        /\ \A l \in beat.lost : ~Owns(l)
    BY <1>0, <1>5 DEF ShardedParts, LostStaysLost, Beats
  <2>2. \A l \in beat.riding \cup beat.lost : Taken(l.id)' /\ (~Owns(l) => ~Owns(l)')
    BY <1>2, <2>1, OldLeases
  <2> QED
    BY <1>4, <1>6, <2>1, <2>2 DEF LostStaysLost
<1> QED
  BY <1>1, <1>2, <1>6, <1>7, BeatKeeps

(* ExtendBatch drops the buffered leases that are lost. *)
LEMMA BeatEndsKeeps ==
  ASSUME ShardedIInv, BeatEnds
  PROVE  ShardedIInv'
<1>0. ShardedParts
  BY InvariantParts
<1>1. /\ UNCHANGED <<job, part, claim, claimNext, waiting, poller, brought, signals, arrived>>
      /\ UNCHANGED <<closing, running, abandoned>>
      /\ buffered' = buffered \ beat.lost
      /\ beat' = NoBeat
  BY DEF BeatEnds, claimVars, pollVars
<1>2. Moves({})
  BY <1>0, <1>1, NothingMoves DEF ShardedParts, TypeOK
<1>3. beat' \in Beats
  BY <1>1 DEF NoBeat, Beats
<1>4. LostStaysLost'
  BY <1>1 DEF LostStaysLost, NoBeat
<1>5. TypeOK'
  <2>1. QueueTypeOK'
    BY <1>2 DEF Moves
  <2> QED
    BY <1>0, <1>1, <1>3, <2>1 DEF ShardedParts, TypeOK
<1>6. HeldIsFinite'
  BY <1>0, <1>1, FS_Subset DEF ShardedParts, HeldIsFinite
<1>7. ClaimFits' /\ Apart' /\ SignalIsDue' /\ PollersAreGone'
  BY <1>0, <1>1 DEF ShardedParts, ClaimFits, Apart, SignalIsDue, PollersAreGone
<1>8. Known'
  <2>1. \A j \in Jobs : Mine(j) => LeaseOn(j) \notin beat.lost
    <3>1. \A j \in Jobs : Mine(j) => Owns(LeaseOn(j))
      BY DEF Mine, Owns, LeaseOn
    <3> QED
      BY <1>0, <3>1 DEF ShardedParts, LostStaysLost
  <2> QED
    BY <1>0, <1>1, <1>2, <2>1 DEF ShardedParts, Known, Moves
<1>9. HeldIsTaken'
  BY <1>0, <1>1, <1>2, HeldStaysTaken DEF ShardedParts, HeldIsTaken
<1> QED
  BY <1>4, <1>5, <1>6, <1>7, <1>8, <1>9, InvariantParts DEF ShardedParts

(* Close. *)
LEMMA CloseKeeps ==
  ASSUME ShardedIInv, CloseStarts \/ StopPolls \/ CloseReturns
  PROVE  ShardedIInv'
<1>0. ShardedParts
  BY InvariantParts
<1>1. /\ UNCHANGED <<job, part, claim, claimNext, waiting, poller, brought, signals, arrived>>
      /\ UNCHANGED <<buffered, running, beat, abandoned>>
      /\ closing' \in {"closed", "stopped", "done"}
      /\ closing' = "done" => signals = 0 /\ \A p \in Partitions : poller[p] = "off"
  BY DEF CloseStarts, StopPolls, CloseReturns, claimVars, pollVars
<1>2. Moves({})
  BY <1>0, <1>1, NothingMoves DEF ShardedParts, TypeOK
<1>3. TypeOK'
  <2>1. QueueTypeOK'
    BY <1>2 DEF Moves
  <2> QED
    BY <1>0, <1>1, <2>1 DEF ShardedParts, TypeOK
<1>4. HeldIsFinite' /\ ClaimFits' /\ Apart' /\ SignalIsDue' /\ PollersAreGone'
  BY <1>0, <1>1
     DEF ShardedParts, HeldIsFinite, ClaimFits, Apart, SignalIsDue, PollersAreGone
<1>5. Known'
  BY <1>0, <1>1, <1>2 DEF ShardedParts, Known, Moves
<1>6. HeldIsTaken'
  BY <1>0, <1>1, <1>2, HeldStaysTaken DEF ShardedParts, HeldIsTaken
<1>7. LostStaysLost'
  BY <1>0, <1>1, <1>2, BeatUnmoved
<1> QED
  BY <1>3, <1>4, <1>5, <1>6, <1>7, InvariantParts DEF ShardedParts

-----------------------------------------------------------------------------
(* The theorems *)

(* The initial states satisfy the invariant. *)
LEMMA InitIsRight ==
  ASSUME Init
  PROVE  ShardedIInv
<1>1. QueueTypeOK /\ \A j \in Jobs : job[j].phase = "absent"
  BY Records DEF Init, QueueInit, QueueTypeOK
<1>2. IsFiniteSet({}) /\ Cardinality({}) = 0
  BY FS_EmptySet
<1>3. /\ claim.pc = "idle" /\ claim.limit = 0 /\ claim.got = {}
      /\ claim \in Calls
  BY ShardedAssumption, SMT DEF Init, NoCall, Calls
<1>4. beat \in Beats
  BY DEF Init, NoBeat, Beats
<1>5. claimNext \in Partitions /\ Concurrency \in Nat
  BY ShardedAssumption, SMT DEF Init, Partitions
<1>6. TypeOK
  <2>1. Cardinality(claim.got) <= claim.limit /\ Cardinality(running) <= Concurrency
    BY <1>2, <1>3, <1>5, SMT DEF Init
  <2>2. /\ poller \in [Partitions -> {"off", "loop", "reading", "back"}]
        /\ brought \in [Partitions -> SUBSET Leases]
        /\ signals \in Nat /\ arrived \in BOOLEAN
        /\ buffered \subseteq Leases /\ running \subseteq Leases
    BY DEF Init
  <2>3. waiting = (IF claim.pc \in {"select", "take", "leave"} THEN 1 ELSE 0)
    BY <1>3 DEF Init
  <2>4. closing \in {"open", "closed", "stopped", "done"}
    BY DEF Init
  <2>5. part \in [Jobs -> Partitions]
    BY DEF Init
  <2> QED
    BY <1>1, <1>3, <1>4, <1>5, <2>1, <2>2, <2>3, <2>4, <2>5 DEF TypeOK
<1>7. HeldIsFinite /\ ClaimFits
  BY <1>2, <1>3 DEF Init, HeldIsFinite, ClaimFits
<1>8. Apart /\ HeldIsTaken /\ SignalIsDue /\ PollersAreGone
  BY <1>3 DEF Init, Apart, HeldIsTaken, SignalIsDue, PollersAreGone
<1>9. Known
  BY <1>1 DEF Known, Mine, In
<1>10. LostStaysLost
  BY DEF Init, NoBeat, LostStaysLost
<1> QED
  BY <1>6, <1>7, <1>8, <1>9, <1>10, InvariantParts DEF ShardedParts

(* Every step keeps it. *)
LEMMA StepKeeps ==
  ASSUME ShardedIInv, [Next]_vars
  PROVE  ShardedIInv'
<1>0. QueueTypeOK
  BY DEF ShardedIInv, TypeOK
<1>1. ASSUME NEW j \in Jobs, Submit(j) PROVE ShardedIInv'
  <2>1. Moves({})
    BY <1>0, <1>1, EnqueueMoves DEF Submit
  <2> QED
    BY <1>1, <2>1, QueueStepKeeps DEF Submit
<1>2. ASSUME NEW j \in Jobs, LeaseExpires(j) PROVE ShardedIInv'
  <2>1. Moves({})
    BY <1>0, <1>2, ExpireMoves DEF LeaseExpires
  <2> QED
    BY <1>2, <2>1, QueueStepKeeps DEF LeaseExpires
<1>3. ASSUME NEW w \in Workers \ {Me}, NEW j \in Jobs, OtherRecovers(w, j) PROVE ShardedIInv'
  <2>1. Moves({})
    BY <1>0, <1>3, RecoverMoves DEF OtherRecovers
  <2> QED
    BY <1>3, <2>1, QueueStepKeeps DEF OtherRecovers
<1>4. ASSUME NEW l \in running, Finish(l) PROVE ShardedIInv'
  BY <1>4, FinishKeeps
<1>5. ASSUME ClaimStep PROVE ShardedIInv'
  <2>1. ASSUME NEW limit \in 1 .. Concurrency, NEW ls, ClaimStarts(limit, ls) PROVE ShardedIInv'
    BY <2>1, ClaimStartsKeeps
  <2>2. ASSUME NEW js, SweepNext(js) PROVE ShardedIInv'
    BY <2>2, SweepNextKeeps
  <2>3. ASSUME (\E js : SweepFails(js)) \/ ClaimReturns \/ Leaves PROVE ShardedIInv'
    BY <2>3, ReturnsKeep
  <2>4. ASSUME NEW ls, Takes(ls) \/ GivesUp(ls) PROVE ShardedIInv'
    BY <2>4, TakesKeeps
  <2> QED
    BY <1>5, <2>1, <2>2, <2>3, <2>4, WaitForJobsKeeps, WakesUpKeeps DEF ClaimStep
<1>6. ASSUME NEW p \in Partitions, PollStep(p) PROVE ShardedIInv'
  BY <1>6, PollAgainKeeps, PollBuffersKeeps, PollReadsKeeps, PollReadsNothingKeeps DEF PollStep
<1>7. ASSUME BeatStep PROVE ShardedIInv'
  BY <1>7, BeatStartsKeeps, BeatEndsKeeps, BeatExtendsKeeps DEF BeatStep
<1>8. ASSUME UNCHANGED vars PROVE ShardedIInv'
  <2>1. Moves({})
    BY <1>0, <1>8, NothingMoves DEF vars
  <2> QED
    BY <1>8, <2>1, QueueStepKeeps DEF vars
<1> QED
  BY <1>1, <1>2, <1>3, <1>4, <1>5, <1>6, <1>7, <1>8, PollSignalsKeeps, CloseKeeps DEF Next

(* The inductive invariant of Sharded holds in every reachable state. *)
THEOREM ShardedInductiveInvariant == Spec => []ShardedIInv
<1>1. Init => ShardedIInv
  BY InitIsRight
<1>2. ShardedIInv /\ [Next]_vars => ShardedIInv'
  BY StepKeeps
<1> QED
  BY <1>1, <1>2, PTL DEF Spec

(* The fields of Sharded hold what they should: a Claim returns at most limit
   jobs, and the worker never has more than Concurrency jobs in hand. *)
THEOREM ShardedTypeCorrect == Spec => []TypeOK
<1>1. ShardedIInv => TypeOK
  BY DEF ShardedIInv
<1> QED
  BY <1>1, ShardedInductiveInvariant, PTL

(* A job that Sharded has leased is in exactly one place of the process, from
   the poll or sweep that leased it to the worker that runs it: takeBuffered,
   poll and ExtendBatch never duplicate a job and never drop a live one. *)
THEOREM LeasesHaveOnePlace == Spec => []EveryLeaseHasOnePlace
<1>1. ShardedIInv => EveryLeaseHasOnePlace
  BY DEF ShardedIInv
<1> QED
  BY <1>1, ShardedInductiveInvariant, PTL

(* A Claim waiting in waitForJobs never sleeps beside a buffered job without a
   signal in the channel arrived or on its way to it. *)
THEOREM SignalsAreNotMissed == Spec => []NoMissedSignal
<1>1. ShardedIInv => NoMissedSignal
  BY DEF ShardedIInv, SignalIsDue, NoMissedSignal
<1> QED
  BY <1>1, ShardedInductiveInvariant, PTL

(* After Close has returned no poller of this Sharded starts, reads or buffers:
   waitForJobs looks at closed under the lock under which it starts pollers. *)
THEOREM CloseIsForGood == Spec => ClosedForGood
<1>1. ASSUME ShardedIInv, [Next]_vars, closing = "done"
      PROVE  poller' = poller /\ signals' = signals /\ buffered' \subseteq buffered
  <2>1. signals = 0 /\ \A p \in Partitions : poller[p] = "off"
    BY <1>1 DEF ShardedIInv, PollersAreGone
  <2>2. ASSUME NEW p \in Partitions, PollStep(p) PROVE FALSE
    BY <2>1, <2>2 DEF PollStep, PollAgain, PollBuffers, PollReads, PollReadsNothing
  <2>3. ~PollSignals /\ ~WaitForJobs
    BY <1>1, <2>1, SMT DEF PollSignals, WaitForJobs
  <2>4. ASSUME ClaimStep
        PROVE  UNCHANGED <<poller, signals>> /\ buffered' \subseteq buffered
    BY <2>3, <2>4 DEF ClaimStep, ClaimStarts, SweepNext, SweepFails, ClaimReturns, WakesUp,
                      Leaves, Takes, GivesUp, TakeBuffered, pollVars
  <2>5. ASSUME BeatStep
        PROVE  UNCHANGED <<poller, signals>> /\ buffered' \subseteq buffered
    BY <2>5 DEF BeatStep, BeatStarts, BeatEnds, BeatExtends, pollVars
  <2>6. ASSUME \/ \E j \in Jobs : Submit(j) \/ LeaseExpires(j)
               \/ \E w \in Workers \ {Me}, j \in Jobs : OtherRecovers(w, j)
               \/ \E l \in running : Finish(l)
               \/ CloseStarts \/ StopPolls \/ CloseReturns
               \/ UNCHANGED vars
        PROVE  UNCHANGED <<poller, signals, buffered>>
    BY <2>6 DEF Submit, LeaseExpires, OtherRecovers, Finish, CloseStarts, StopPolls,
                CloseReturns, vars, pollVars
  <2> QED
    BY <1>1, <2>2, <2>3, <2>4, <2>5, <2>6 DEF Next
<1>2. ShardedIInv /\ [Next]_vars =>
        [closing = "done" =>
           poller' = poller /\ signals' = signals /\ buffered' \subseteq buffered]_vars
  BY <1>1
<1> QED
  BY <1>2, ShardedInductiveInvariant, PTL DEF Spec, ClosedForGood

-----------------------------------------------------------------------------
(* The buffer is bounded *)

(* A greater limit has the greater share. *)
LEMMA ShareGrows ==
  ASSUME NEW limit \in 1 .. Concurrency
  PROVE  /\ Share(limit) \in Nat /\ Share(Concurrency) \in Nat
         /\ Share(limit) <= Share(Concurrency)
<1>1. Parts \in Nat /\ Parts >= 1 /\ Concurrency \in Nat /\ limit \in Nat
  BY ShardedAssumption, SMT
<1> DEFINE m == (limit + Parts - 1) \div Parts
           n == (Concurrency + Parts - 1) \div Parts
<1>2. m \in Nat /\ n \in Nat /\ m <= n
  BY <1>1, SMT
<1>3. Share(limit) = Max({1, m}) /\ Share(Concurrency) = Max({1, n})
  BY DEF Share
<1> HIDE DEF m, n
<1>4. \A k \in Nat : \E x \in {1, k} : \A y \in {1, k} : x >= y
  BY SMT
<1>5. ASSUME NEW k \in Nat
      PROVE  Max({1, k}) \in {1, k} /\ Max({1, k}) >= 1 /\ Max({1, k}) >= k
  BY <1>4 DEF Max
<1>6. QED
  BY <1>2, <1>3, <1>5, SMT

(* A share is a natural number. *)
LEMMA ShareIsNat == Share(Concurrency) \in Nat
<1>1. Concurrency \in 1 .. Concurrency
  BY ShardedAssumption, SMT
<1>2. QED
  BY <1>1, ShareGrows

(* What is in the buffer and what is coming are finite. *)
LEMMA LoadIsFinite ==
  ASSUME ShardedIInv, NEW p \in Partitions
  PROVE  /\ IsFiniteSet(InPart(buffered, p)) /\ Cardinality(InPart(buffered, p)) \in Nat
         /\ Cardinality(brought[p]) \in Nat
         /\ Coming(p) \in Nat
<1>1. IsFiniteSet(buffered) /\ IsFiniteSet(brought[p])
  BY DEF ShardedIInv, HeldIsFinite
<1>2. InPart(buffered, p) \subseteq buffered
  BY DEF InPart
<1>3. IsFiniteSet(InPart(buffered, p))
  BY <1>1, <1>2, FS_Subset
<1>4. QED
  BY <1>1, <1>3, ShareIsNat, FS_CardinalityType DEF Coming

(* The same in the next state. *)
LEMMA LoadIsFiniteAfter ==
  ASSUME ShardedIInv', NEW p \in Partitions
  PROVE  /\ IsFiniteSet(InPart(buffered, p)') /\ Cardinality(InPart(buffered, p)') \in Nat
         /\ Cardinality(brought'[p]) \in Nat
         /\ Coming(p)' \in Nat
<1>1. IsFiniteSet(buffered') /\ IsFiniteSet(brought'[p])
  BY DEF ShardedIInv, HeldIsFinite
<1>2. InPart(buffered, p)' \subseteq buffered'
  BY DEF InPart
<1>3. IsFiniteSet(InPart(buffered, p)')
  BY <1>1, <1>2, FS_Subset
<1>4. QED
  BY <1>1, <1>3, ShareIsNat, FS_CardinalityType DEF Coming

(* Nothing comes to the buffer, and no more is coming than before. *)
LEMMA LoadShrinks ==
  ASSUME ShardedIInv, ShardedIInv', LoadFits, UNCHANGED part, buffered' \subseteq buffered,
         \A p \in Partitions : Coming(p)' <= Coming(p),
         Empty' => Empty
  PROVE  LoadFits'
<1> SUFFICES ASSUME NEW p \in Partitions
             PROVE  Cardinality(InPart(buffered, p)') + Coming(p)' <=
                      IF Empty' THEN Share(Concurrency) ELSE 2 * Share(Concurrency)
  BY DEF LoadFits
<1> DEFINE b == InPart(buffered, p)
           c == InPart(buffered, p)'
<1>1. c \subseteq b
  BY DEF InPart
<1>2. IsFiniteSet(b) /\ Cardinality(b) \in Nat /\ Coming(p) \in Nat
  BY LoadIsFinite
<1>3. Cardinality(c) \in Nat /\ Coming(p)' \in Nat
  BY LoadIsFiniteAfter
<1>4. Cardinality(b) + Coming(p) <= IF Empty THEN Share(Concurrency) ELSE 2 * Share(Concurrency)
  BY DEF LoadFits
<1>5. Coming(p)' <= Coming(p)
  OBVIOUS
<1> HIDE DEF b, c
<1>6. Cardinality(c) <= Cardinality(b)
  BY <1>1, <1>2, FS_Subset
<1>7. CASE Empty'
  <2>1. Cardinality(b) + Coming(p) <= Share(Concurrency)
    BY <1>4, <1>7
  <2>2. Cardinality(c) + Coming(p)' <= Share(Concurrency)
    BY <1>2, <1>3, <1>5, <1>6, <2>1, ShareIsNat, SMT
  <2>3. QED
    BY <1>7, <2>2 DEF c
<1>8. CASE ~Empty'
  <2>1. \/ Cardinality(b) + Coming(p) <= Share(Concurrency)
        \/ Cardinality(b) + Coming(p) <= 2 * Share(Concurrency)
    BY <1>4
  <2>2. Cardinality(c) + Coming(p)' <= 2 * Share(Concurrency)
    BY <1>2, <1>3, <1>5, <1>6, <2>1, ShareIsNat, SMT
  <2>3. QED
    BY <1>8, <2>2 DEF c
<1>9. QED
  BY <1>7, <1>8

(* The pollers do not move. *)
LEMMA PollersRest ==
  ASSUME ShardedIInv, ShardedIInv', BufferIInv, UNCHANGED <<part, poller, count, asked, brought>>,
         buffered' \subseteq buffered, Empty' => Empty
  PROVE  BufferIInv'
<1>1. \A p \in Partitions : Coming(p)' = Coming(p)
  BY DEF Coming
<1>2. \A p \in Partitions : Coming(p)' <= Coming(p)
  <2>1. \A p \in Partitions : Coming(p) \in Nat
    BY LoadIsFinite
  <2>2. QED
    BY <1>1, <2>1, SMT
<1>3. LoadFits'
  BY <1>2, LoadShrinks DEF BufferIInv
<1>4. AskedFits'
  BY DEF BufferIInv, AskedFits
<1>5. QED
  BY <1>3, <1>4 DEF BufferIInv

(* A Claim starts: it sweeps with nothing in hand only if the buffer is empty. *)
LEMMA ClaimStartsBounded ==
  ASSUME ShardedIInv, ShardedIInv', BufferIInv, NEW limit \in 1 .. Concurrency, NEW ls,
         ClaimStarts(limit, ls)
  PROVE  BufferIInv'
<1>1. /\ UNCHANGED <<part, poller, count, asked, brought>>
      /\ TakeBuffered(limit, ls)
      /\ claim' = [pc |-> "sweep", limit |-> limit, swept |-> 0, got |-> ls]
  BY DEF ClaimStarts, pollVars
<1>2. limit \in Nat \ {0}
  BY ShardedAssumption, SMT
<1>3. IsFiniteSet(buffered)
  BY DEF ShardedIInv, HeldIsFinite
<1>4. buffered' \subseteq buffered /\ (ls = {} => buffered' = {})
  BY <1>1, <1>2, <1>3, TakeBufferedFacts
<1>5. CASE ls # {}
  BY <1>1, <1>4, <1>5, PollersRest DEF Empty
<1>6. CASE ls = {}
  <2>1. AskedFits'
    BY <1>1 DEF BufferIInv, AskedFits
  <2>2. ASSUME NEW p \in Partitions
        PROVE  Cardinality(InPart(buffered, p)') + Coming(p)' <= Share(Concurrency)
    <3>1. InPart(buffered, p)' = {}
      BY <1>4, <1>6 DEF InPart
    <3>2. Cardinality(InPart(buffered, p)') = 0
      BY <3>1, FS_EmptySet
    <3>3. Coming(p)' = Share(Concurrency) \/ Coming(p)' = Cardinality(brought[p])
      BY <1>1 DEF Coming
    <3>4. Cardinality(brought[p]) <= Share(Concurrency) /\ Cardinality(brought[p]) \in Nat
      BY LoadIsFinite DEF BufferIInv, AskedFits
    <3>5. QED
      BY <3>2, <3>3, <3>4, ShareIsNat, SMT
  <2>3. Empty'
    BY <1>1, <1>6 DEF Empty
  <2>4. LoadFits'
    BY <2>2, <2>3 DEF LoadFits
  <2>5. QED
    BY <2>1, <2>4 DEF BufferIInv
<1>7. QED
  BY <1>5, <1>6

(* A Claim starts the pollers that are gone: one share of theirs is buffered at
   most. *)
LEMMA WaitForJobsBounded ==
  ASSUME ShardedIInv, ShardedIInv', BufferIInv, WaitForJobs
  PROVE  BufferIInv'
<1>1. /\ UNCHANGED <<part, asked, brought, buffered>>
      /\ count' = Share(claim.limit)
      /\ \A p \in Partitions : poller'[p] = IF poller[p] = "off" THEN "loop" ELSE poller[p]
      /\ claim' = [claim EXCEPT !.pc = "select"]
      /\ Empty
  BY DEF WaitForJobs, Empty
<1>2. claim.limit \in 1 .. Concurrency
  <2>1. claim \in Calls /\ claim.pc # "idle"
    BY <1>1 DEF ShardedIInv, TypeOK, Empty
  <2>2. claim.limit \in 0 .. Concurrency /\ claim.limit >= 1
    BY <2>1 DEF ShardedIInv, ClaimFits, Calls
  <2>3. QED
    BY <2>2, ShardedAssumption, SMT
<1>3. count' \in 0 .. Share(Concurrency)
  BY <1>1, <1>2, ShareGrows, SMT
<1>4. AskedFits'
  BY <1>1, <1>3 DEF BufferIInv, AskedFits
<1>5. ~Empty'
  <2>1. claim'.pc = "select"
    BY <1>1 DEF ShardedIInv, TypeOK, Calls
  <2>2. QED
    BY <2>1 DEF Empty
<1>6. ASSUME NEW p \in Partitions
      PROVE  Cardinality(InPart(buffered, p)') + Coming(p)' <= 2 * Share(Concurrency)
  <2>1. InPart(buffered, p)' = InPart(buffered, p)
    BY <1>1 DEF InPart
  <2>2. Cardinality(InPart(buffered, p)) + Coming(p) <= Share(Concurrency)
    BY <1>1 DEF BufferIInv, LoadFits
  <2>3. Coming(p)' = Share(Concurrency) \/ Coming(p)' = Coming(p)
    BY <1>1 DEF Coming
  <2>4. Cardinality(InPart(buffered, p)) \in Nat /\ Coming(p) \in Nat
    BY LoadIsFinite
  <2>5. Cardinality(InPart(buffered, p)) + Coming(p)' <= 2 * Share(Concurrency)
    BY <2>2, <2>3, <2>4, ShareIsNat, SMT
  <2>6. QED
    BY <2>1, <2>5
<1>7. LoadFits'
  BY <1>5, <1>6 DEF LoadFits
<1>8. QED
  BY <1>4, <1>7 DEF BufferIInv

(* One poller takes a step that brings nothing to the buffer: what can still come
   of it is a share if it goes on, and what it brought otherwise. *)
LEMMA PollerSteps ==
  ASSUME ShardedIInv, ShardedIInv', BufferIInv, NEW p \in Partitions,
         UNCHANGED <<part, claim, count, buffered>>,
         poller[p] \in {"loop", "reading"}, poller'[p] \in {"loop", "reading", "back", "off"},
         \A q \in Partitions \ {p} : poller'[q] = poller[q] /\ brought'[q] = brought[q],
         Cardinality(brought'[p]) <= Share(Concurrency),
         asked' \in [Partitions -> 0 .. Share(Concurrency)]
  PROVE  BufferIInv'
<1>1. AskedFits'
  BY DEF BufferIInv, AskedFits
<1>2. ASSUME NEW q \in Partitions
      PROVE  Coming(q)' <= Coming(q)
  <2>1. CASE q = p
    <3>1. Coming(q) = Share(Concurrency)
      BY <2>1 DEF Coming
    <3>2. Coming(q)' = Share(Concurrency) \/ Coming(q)' = Cardinality(brought'[p])
      BY <2>1 DEF Coming
    <3>3. Cardinality(brought'[p]) \in Nat
      BY LoadIsFiniteAfter
    <3>4. QED
      BY <3>1, <3>2, <3>3, ShareIsNat, SMT
  <2>2. CASE q # p
    <3>1. Coming(q)' = Coming(q)
      BY <2>2 DEF Coming
    <3>2. Coming(q) \in Nat
      BY LoadIsFinite
    <3>3. QED
      BY <3>1, <3>2, SMT
  <2>3. QED
    BY <2>1, <2>2
<1>3. Empty' => Empty
  BY DEF Empty
<1>4. LoadFits'
  BY <1>2, <1>3, LoadShrinks DEF BufferIInv
<1>5. QED
  BY <1>1, <1>4 DEF BufferIInv

(* The steps of a poller before it buffers. *)
LEMMA PollBounded ==
  ASSUME ShardedIInv, ShardedIInv', BufferIInv, NEW p \in Partitions, NEW js,
         PollAgain(p) \/ PollReads(p, js) \/ PollReadsNothing(p, js)
  PROVE  BufferIInv'
<1>1. /\ poller \in [Partitions -> {"off", "loop", "reading", "back"}]
      /\ brought \in [Partitions -> SUBSET Leases]
      /\ count \in 0 .. Share(Concurrency)
      /\ asked \in [Partitions -> 0 .. Share(Concurrency)]
      /\ Cardinality(brought[p]) <= Share(Concurrency)
  BY DEF ShardedIInv, TypeOK, BufferIInv, AskedFits
<1>2. CASE PollAgain(p)
  <2>1. /\ UNCHANGED <<part, claim, count, buffered, brought>>
        /\ poller[p] = "loop"
        /\ poller' = [poller EXCEPT ![p] = IF waiting = 0 \/ Stopped THEN "off" ELSE "reading"]
        /\ asked' = [asked EXCEPT ![p] = count]
    BY <1>2 DEF PollAgain, claimVars
  <2>2. /\ poller'[p] \in {"off", "reading"}
        /\ \A q \in Partitions \ {p} : poller'[q] = poller[q]
    BY <1>1, <2>1
  <2>3. asked' \in [Partitions -> 0 .. Share(Concurrency)]
    BY <1>1, <2>1
  <2>4. QED
    BY <1>1, <2>1, <2>2, <2>3, PollerSteps
<1>3. CASE PollReads(p, js)
  <2>1. /\ UNCHANGED <<part, claim, count, buffered, asked>>
        /\ poller[p] = "reading"
        /\ poller' = [poller EXCEPT ![p] = "back"]
        /\ brought' = [brought EXCEPT ![p] = NewLeases(js)]
        /\ Lease(p, asked[p], js)
    BY <1>3 DEF PollReads, claimVars
  <2>2. asked[p] \in 0 .. Share(Concurrency)
    BY <1>1
  <2>3. asked[p] \in Int /\ asked[p] <= Share(Concurrency)
    BY <2>2, ShareIsNat, SMT
  <2>4. Cardinality(NewLeases(js)) <= asked[p] /\ IsFiniteSet(NewLeases(js))
    BY <2>1, <2>3, InvariantParts, LeaseFacts
  <2>5. Cardinality(NewLeases(js)) \in Nat
    BY <2>4, FS_CardinalityType
  <2>6. Cardinality(NewLeases(js)) <= Share(Concurrency)
    BY <2>3, <2>4, <2>5, ShareIsNat, SMT
  <2>7. /\ poller'[p] = "back" /\ brought'[p] = NewLeases(js)
        /\ \A q \in Partitions \ {p} : poller'[q] = poller[q] /\ brought'[q] = brought[q]
    BY <1>1, <2>1
  <2>8. QED
    BY <1>1, <2>1, <2>6, <2>7, PollerSteps
<1>4. CASE PollReadsNothing(p, js)
  <2>1. /\ UNCHANGED <<part, claim, count, buffered, asked, brought>>
        /\ poller[p] = "reading"
        /\ poller' = [poller EXCEPT ![p] = "loop"]
    BY <1>4 DEF PollReadsNothing, claimVars
  <2>2. poller'[p] = "loop" /\ \A q \in Partitions \ {p} : poller'[q] = poller[q]
    BY <1>1, <2>1
  <2>3. QED
    BY <1>1, <2>1, <2>2, PollerSteps
<1>5. QED
  BY <1>2, <1>3, <1>4

(* What was coming is in the buffer. *)
LEMMA PollBuffersBounded ==
  ASSUME ShardedIInv, ShardedIInv', BufferIInv, NEW p \in Partitions, PollBuffers(p)
  PROVE  BufferIInv'
<1>1. /\ UNCHANGED <<part, claim, count, asked>>
      /\ poller[p] = "back"
      /\ buffered' = buffered \cup brought[p]
      /\ brought' = [brought EXCEPT ![p] = {}]
      /\ poller' = [poller EXCEPT ![p] = "off"]
  BY DEF PollBuffers, claimVars
<1>2. /\ poller'[p] = "off" /\ brought'[p] = {}
      /\ \A q \in Partitions \ {p} : poller'[q] = poller[q] /\ brought'[q] = brought[q]
  <2>1. /\ poller \in [Partitions -> {"off", "loop", "reading", "back"}]
        /\ brought \in [Partitions -> SUBSET Leases]
    BY DEF ShardedIInv, TypeOK
  <2>2. QED
    BY <1>1, <2>1
<1>3. Cardinality(brought'[p]) = 0
  BY <1>2, FS_EmptySet
<1>4. AskedFits'
  <2>1. Cardinality(brought'[p]) <= Share(Concurrency)
    BY <1>3, ShareIsNat, SMT
  <2>2. QED
    BY <1>1, <1>2, <2>1 DEF BufferIInv, AskedFits
<1>5. Empty' <=> Empty
  BY <1>1 DEF Empty
<1>6. ASSUME NEW q \in Partitions
      PROVE  Cardinality(InPart(buffered, q)') + Coming(q)' <=
               Cardinality(InPart(buffered, q)) + Coming(q)
  <2>1. \A l \in brought[p] : part[l.id] = p
    BY DEF ShardedIInv, HeldIsTaken
  <2>2. CASE q = p
    <3>1. InPart(buffered, p)' = InPart(buffered, p) \cup brought[p]
      BY <1>1, <2>1 DEF InPart
    <3>2. IsFiniteSet(InPart(buffered, p)) /\ IsFiniteSet(brought[p])
      BY LoadIsFinite DEF ShardedIInv, HeldIsFinite
    <3>3. /\ Cardinality(InPart(buffered, p)) \in Nat /\ Cardinality(brought[p]) \in Nat
          /\ Cardinality(InPart(buffered, p)') \in Nat
          /\ Cardinality(InPart(buffered, p)') <=
               Cardinality(InPart(buffered, p)) + Cardinality(brought[p])
      BY <3>1, <3>2, UnionIsFinite
    <3>4. Coming(p) = Cardinality(brought[p]) /\ Coming(p)' = 0
      BY <1>1, <1>2, <1>3 DEF Coming
    <3>5. QED
      BY <2>2, <3>3, <3>4, SMT
  <2>3. CASE q # p
    <3>1. InPart(buffered, q)' = InPart(buffered, q)
      BY <1>1, <2>1, <2>3 DEF InPart
    <3>2. Coming(q)' = Coming(q)
      BY <1>2, <2>3 DEF Coming
    <3>3. Cardinality(InPart(buffered, q)) \in Nat /\ Coming(q) \in Nat
      BY LoadIsFinite
    <3>4. QED
      BY <3>1, <3>2, <3>3, SMT
  <2>4. QED
    BY <2>2, <2>3
<1>7. LoadFits'
  <2> SUFFICES ASSUME NEW q \in Partitions
               PROVE  Cardinality(InPart(buffered, q)') + Coming(q)' <=
                        IF Empty' THEN Share(Concurrency) ELSE 2 * Share(Concurrency)
    BY DEF LoadFits
  <2> DEFINE old == Cardinality(InPart(buffered, q)) + Coming(q)
             new == Cardinality(InPart(buffered, q)') + Coming(q)'
             top == IF Empty THEN Share(Concurrency) ELSE 2 * Share(Concurrency)
  <2>1. new <= old /\ old <= top
    BY <1>6 DEF BufferIInv, LoadFits
  <2>2. old \in Nat /\ new \in Nat
    <3>1. /\ Cardinality(InPart(buffered, q)) \in Nat /\ Coming(q) \in Nat
          /\ Cardinality(InPart(buffered, q)') \in Nat /\ Coming(q)' \in Nat
      BY LoadIsFinite, LoadIsFiniteAfter
    <3>2. QED
      BY <3>1, SMT
  <2>3. top \in Nat
    <3>1. 2 * Share(Concurrency) \in Nat
      BY ShareIsNat, SMT
    <3>2. QED
      BY <3>1, ShareIsNat
  <2> HIDE DEF old, new, top
  <2>4. new <= top
    BY <2>1, <2>2, <2>3, SMT
  <2>5. QED
    BY <1>5, <2>4 DEF new, top
<1>8. QED
  BY <1>4, <1>7 DEF BufferIInv

(* What the other steps leave alone. *)
Rests ==
  UNCHANGED <<part, poller, count, asked, brought>> /\ buffered' \subseteq buffered /\ (Empty' => Empty)

(* A Claim that goes on. *)
LEMMA ClaimRests ==
  ASSUME ShardedIInv,
         \/ \E js : SweepNext(js) \/ SweepFails(js)
         \/ ClaimReturns \/ WakesUp \/ Leaves
         \/ \E ls : Takes(ls) \/ GivesUp(ls)
  PROVE  Rests
<1>1. CASE \E js : SweepNext(js)
  <2>1. PICK js : SweepNext(js)
    BY <1>1
  <2>2. UNCHANGED <<part, poller, count, asked, brought, buffered>>
    BY <2>1 DEF SweepNext, pollVars
  <2>3. claim.pc = "sweep" /\ claim'.got = claim.got \cup NewLeases(js)
    BY <2>1 DEF SweepNext, Sweeping
  <2>4. QED
    BY <2>2, <2>3 DEF Rests, Empty
<1>2. CASE (\E js : SweepFails(js)) \/ ClaimReturns \/ Leaves
  <2>1. claim' = NoCall /\ UNCHANGED <<part, poller, count, asked, brought, buffered>>
    BY <1>2 DEF SweepFails, ClaimReturns, Leaves, pollVars
  <2>2. ~Empty'
    BY <2>1 DEF Empty, NoCall
  <2>3. QED
    BY <2>1, <2>2 DEF Rests
<1>3. CASE WakesUp
  <2>1. claim'.pc = "take"
    BY <1>3 DEF WakesUp, ShardedIInv, TypeOK, Calls
  <2>2. QED
    BY <1>3, <2>1 DEF WakesUp, Rests, Empty
<1>4. CASE \E ls : Takes(ls) \/ GivesUp(ls)
  <2>1. PICK ls : Takes(ls) \/ GivesUp(ls)
    BY <1>4
  <2>2. buffered' \subseteq buffered
    BY <2>1 DEF Takes, GivesUp, TakeBuffered
  <2>3. claim'.pc = (IF ls = {} THEN "select" ELSE "leave") \/ claim'.pc = "leave"
    BY <2>1, SMT DEF Takes, GivesUp
  <2>4. UNCHANGED <<part, poller, count, asked, brought>>
    BY <2>1 DEF Takes, GivesUp, pollVars
  <2>5. claim'.pc # "sweep"
    BY <2>3
  <2>6. QED
    BY <2>2, <2>4, <2>5 DEF Rests, Empty
<1>5. QED
  BY <1>1, <1>2, <1>3, <1>4

(* The queue, the signals, the heartbeat and Close. *)
LEMMA OthersRest ==
  ASSUME \/ \E j : Submit(j) \/ LeaseExpires(j)
         \/ \E w, j : OtherRecovers(w, j)
         \/ \E l : Finish(l)
         \/ PollSignals \/ BeatStep
         \/ CloseStarts \/ StopPolls \/ CloseReturns
         \/ UNCHANGED vars
  PROVE  Rests
<1>1. UNCHANGED <<part, claim, poller, count, asked, brought>> /\ buffered' \subseteq buffered
  BY DEF Submit, LeaseExpires, OtherRecovers, Finish, PollSignals, BeatStep, BeatStarts,
         BeatEnds, BeatExtends, CloseStarts, StopPolls, CloseReturns, vars, claimVars, pollVars
<1>2. QED
  BY <1>1 DEF Rests, Empty

(* Every step keeps the buffer in its bounds. *)
LEMMA StepBounded ==
  ASSUME ShardedIInv, ShardedIInv', BufferIInv, [Next]_vars
  PROVE  BufferIInv'
<1>1. ASSUME Rests PROVE BufferIInv'
  BY <1>1, PollersRest DEF Rests
<1>2. ASSUME ClaimStep PROVE BufferIInv'
  BY <1>1, <1>2, ClaimRests, ClaimStartsBounded, WaitForJobsBounded DEF ClaimStep
<1>3. ASSUME NEW p \in Partitions, PollStep(p) PROVE BufferIInv'
  BY <1>3, PollBounded, PollBuffersBounded DEF PollStep
<1>4. QED
  BY <1>1, <1>2, <1>3, OthersRest DEF Next

(* Nothing is buffered at first. *)
LEMMA InitBounded == Init => BufferIInv
<1> SUFFICES ASSUME Init PROVE BufferIInv
  OBVIOUS
<1>1. Cardinality({}) = 0
  BY FS_EmptySet
<1>2. 0 \in 0 .. Share(Concurrency) /\ 0 <= Share(Concurrency) /\ 0 + 0 <= 2 * Share(Concurrency)
  BY ShareIsNat, SMT
<1>3. AskedFits
  BY <1>1, <1>2 DEF Init, AskedFits
<1>4. ASSUME NEW p \in Partitions
      PROVE  Cardinality(InPart(buffered, p)) = 0 /\ Coming(p) = 0
  <2>1. InPart(buffered, p) = {}
    BY DEF Init, InPart
  <2>2. QED
    BY <1>1, <2>1 DEF Init, Coming
<1>5. ~Empty
  BY DEF Init, NoCall, Empty
<1>6. LoadFits
  BY <1>2, <1>4, <1>5 DEF LoadFits
<1>7. QED
  BY <1>3, <1>6 DEF BufferIInv

(* A set of naturals that is not empty has a least element. *)
LEMMA LeastNat ==
  ASSUME NEW S, S \subseteq Nat, S # {}
  PROVE  \E m \in S : \A n \in S : m <= n
<1>1. PICK m \in S : \A n \in S : ~(<<n, m>> \in OpToRel(<, Nat))
  BY NatLessThanWellFounded, WFMin
<1>2. ASSUME NEW n \in S
      PROVE  m <= n
  <2>1. m \in Nat /\ n \in Nat
    OBVIOUS
  <2>2. n < m => <<n, m>> \in OpToRel(<, Nat)
    BY <2>1, SMT DEF OpToRel
  <2>3. ~(n < m)
    BY <1>1, <2>2
  <2>4. QED
    BY <2>1, <2>3, SMT
<1>3. QED
  BY <1>2

(* A set whose parts, one for each partition, have at most k elements each. *)
LEMMA PartsAddUp ==
  ASSUME NEW k \in Nat, IsFiniteSet(buffered),
         \A l \in buffered : part[l.id] \in Partitions,
         \A p \in Partitions : Cardinality(InPart(buffered, p)) <= k
  PROVE  Cardinality(buffered) <= Parts * k
<1> DEFINE Below(n) == {l \in buffered : part[l.id] < n}
           bad == {n \in 0 .. Parts : ~(Cardinality(Below(n)) <= n * k)}
<1>1. Parts \in Nat
  BY ShardedAssumption
<1>2. \A n : IsFiniteSet(Below(n)) /\ Cardinality(Below(n)) \in Nat
  <2>1. \A n : Below(n) \subseteq buffered
    OBVIOUS
  <2>2. QED
    BY <2>1, FS_Subset, FS_CardinalityType
<1>3. bad = {}
  <2> SUFFICES ASSUME bad # {} PROVE FALSE
    OBVIOUS
  <2>1. PICK n \in bad : \A m \in bad : n <= m
    <3>1. bad \subseteq Nat
      BY <1>1, SMT
    <3>2. QED
      BY <3>1, LeastNat
  <2>2. n \in 0 .. Parts /\ ~(Cardinality(Below(n)) <= n * k)
    BY <2>1
  <2>3. n # 0
    <3>1. \A l \in buffered : ~(part[l.id] < 0)
      BY <1>1, SMT DEF Partitions
    <3>2. Below(0) = {}
      BY <3>1
    <3>3. Cardinality(Below(0)) = 0
      BY <3>2, FS_EmptySet
    <3>4. Cardinality(Below(0)) <= 0 * k
      BY <3>3, SMT
    <3>5. QED
      BY <2>2, <3>4
  <2> DEFINE m == n - 1
  <2>4. m \in 0 .. Parts /\ m \in Partitions /\ m + 1 = n /\ ~(n <= m) /\ m \in Nat
    BY <1>1, <2>2, <2>3, SMT DEF Partitions
  <2> HIDE DEF m
  <2>5. Cardinality(Below(m)) <= m * k
    BY <2>1, <2>4
  <2>6. Below(n) = Below(m) \cup InPart(buffered, m)
    <3>1. \A l \in buffered : part[l.id] < n <=> part[l.id] < m \/ part[l.id] = m
      BY <1>1, <2>4, SMT DEF Partitions
    <3>2. QED
      BY <3>1 DEF InPart
  <2>7. IsFiniteSet(InPart(buffered, m))
    <3>1. InPart(buffered, m) \subseteq buffered
      BY DEF InPart
    <3>2. QED
      BY <3>1, FS_Subset
  <2>8. /\ Cardinality(Below(n)) <= Cardinality(Below(m)) + Cardinality(InPart(buffered, m))
        /\ Cardinality(InPart(buffered, m)) \in Nat
    BY <1>2, <2>6, <2>7, UnionIsFinite
  <2>9. Cardinality(InPart(buffered, m)) <= k
    BY <2>4
  <2>10. n * k = m * k + k /\ m * k \in Nat /\ n * k \in Nat
    BY <2>4, SMT
  <2>11. Cardinality(Below(n)) \in Nat /\ Cardinality(Below(m)) \in Nat
    BY <1>2
  <2> HIDE DEF Below
  <2>12. Cardinality(Below(n)) <= n * k
    BY <2>5, <2>8, <2>9, <2>10, <2>11, SMT
  <2>13. QED
    BY <2>2, <2>12 DEF Below
<1>4. Parts \in 0 .. Parts
  BY <1>1, SMT
<1>5. Cardinality(Below(Parts)) <= Parts * k
  BY <1>3, <1>4
<1>6. \A l \in buffered : part[l.id] < Parts
  BY <1>1, SMT DEF Partitions
<1>7. Below(Parts) = buffered
  BY <1>6
<1>8. QED
  BY <1>5, <1>7

(* The buffer's bounds hold in every reachable state. *)
LEMMA BufferInductive == Spec => []BufferIInv
<1>1. ShardedIInv /\ ShardedIInv' /\ BufferIInv /\ [Next]_vars => BufferIInv'
  BY StepBounded
<1>2. QED
  BY <1>1, InitBounded, ShardedInductiveInvariant, PTL DEF Spec

(* The buffer never holds more than two shares of every partition, for any number
   of partitions and slots: pollers of an earlier wait deliver once during a
   sweep, and those started after it once more. *)
THEOREM BufferIsBounded == Spec => []BufferBounded
<1>1. ShardedIInv /\ BufferIInv => BufferBounded
  <2> SUFFICES ASSUME ShardedIInv, BufferIInv PROVE BufferBounded
    OBVIOUS
  <2> DEFINE k == 2 * Share(Concurrency)
  <2>1. k \in Nat
    BY ShareIsNat, SMT
  <2>2. ASSUME NEW p \in Partitions
        PROVE  Cardinality(InPart(buffered, p)) <= k
    <3>1. \/ Cardinality(InPart(buffered, p)) + Coming(p) <= Share(Concurrency)
          \/ Cardinality(InPart(buffered, p)) + Coming(p) <= 2 * Share(Concurrency)
      BY DEF BufferIInv, LoadFits
    <3>2. Cardinality(InPart(buffered, p)) \in Nat /\ Coming(p) \in Nat
      BY LoadIsFinite
    <3>3. QED
      BY <3>1, <3>2, ShareIsNat, SMT
  <2>3. IsFiniteSet(buffered)
    BY DEF ShardedIInv, HeldIsFinite
  <2>4. \A l \in buffered : part[l.id] \in Partitions
    BY DEF ShardedIInv, TypeOK, Leases
  <2> HIDE DEF k
  <2>5. Cardinality(buffered) <= Parts * k
    BY <2>1, <2>2, <2>3, <2>4, PartsAddUp
  <2>6. Parts * k = 2 * Parts * Share(Concurrency)
    BY ShareIsNat, ShardedAssumption, SMT DEF k
  <2>7. QED
    BY <2>5, <2>6 DEF BufferBounded
<1>2. QED
  BY <1>1, BufferInductive, ShardedInductiveInvariant, PTL

-----------------------------------------------------------------------------
(* Pollers cover the partitions while no lease expires *)

(* No lease expires, and every lease but that on a job of js stays. *)
Calm(js) == NoneExpired' /\ \A l \in Leases : Owns(l) /\ l.id \notin js => Owns(l)'

(* What the queue's calls do to leases. *)
LEMMA CallsAreCalm ==
  ASSUME QueueTypeOK, NoneExpired
  PROVE  /\ \A js : Enqueue(js) \/ Extend(js) \/ Claim(Me, js) => Calm({})
         /\ \A js : Ack(js) => Calm(js)
         /\ UNCHANGED job => Calm({})
<1>1. ASSUME NEW js, Enqueue(js) PROVE Calm({})
  <2>1. \A j \in In("leased") : j \in Jobs /\ job'[j] = job[j]
    BY <1>1 DEF Enqueue, In
  <2>2. \A j \in In("leased")' : job'[j] = job[j] /\ j \in In("leased")
    BY <1>1 DEF Enqueue, In, Waiting
  <2>3. QED
    BY <2>1, <2>2 DEF Calm, NoneExpired, Owns, LeaseOn, In
<1>2. ASSUME NEW js, Claim(Me, js) PROVE Calm({})
  <2>1. \A j \in In("leased") : j \in Jobs /\ job'[j] = job[j]
    BY <1>2 DEF Claim, In
  <2>2. ASSUME NEW j \in In("leased")' PROVE ~job'[j].expired
    <3>1. CASE j \in js
      <4>1. job'[j] = Leased(job[j].attempt, Me, 1, FALSE)
        BY <1>2, <2>2, <3>1 DEF Claim, In
      <4>2. QED
        BY <4>1, SMT DEF Leased
    <3>2. CASE j \notin js
      BY <1>2, <2>2, <3>2 DEF Claim, In, NoneExpired
    <3>3. QED
      BY <3>1, <3>2
  <2>3. QED
    BY <2>1, <2>2 DEF Calm, NoneExpired, Owns, LeaseOn, In
<1>3. ASSUME NEW js, Extend(js) PROVE Calm({})
  <2>1. ASSUME NEW j \in In("leased")
        PROVE  j \in In("leased")' /\ LeaseOn(j)' = LeaseOn(j)
    <3>1. \/ job'[j] = job[j]
          \/ job'[j] = Leased(job[j].attempt, job[j].owner, job[j].token, FALSE)
      BY <1>3, <2>1 DEF Extend, In
    <3>2. job'[j].phase = "leased" /\ j \in Jobs
      BY <2>1, <3>1, SMT DEF Leased, In
    <3>3. /\ job'[j].attempt = job[j].attempt /\ job'[j].owner = job[j].owner
          /\ job'[j].token = job[j].token
      BY <3>1, SMT DEF Leased
    <3>4. QED
      BY <3>2, <3>3 DEF In, LeaseOn
  <2>2. ASSUME NEW j \in In("leased")' PROVE ~job'[j].expired
    <3>1. CASE j \in js
      <4>1. job'[j] = Leased(job[j].attempt, job[j].owner, job[j].token, FALSE)
        BY <1>3, <2>2, <3>1 DEF Extend, In
      <4>2. QED
        BY <4>1, SMT DEF Leased
    <3>2. CASE j \notin js
      BY <1>3, <2>2, <3>2 DEF Extend, In, NoneExpired
    <3>3. QED
      BY <3>1, <3>2
  <2>3. QED
    BY <2>1, <2>2 DEF Calm, NoneExpired, Owns
<1>4. ASSUME NEW js, Ack(js) PROVE Calm(js)
  <2>1. \A j \in In("leased") \ js : j \in Jobs /\ job'[j] = job[j]
    BY <1>4 DEF Ack, In
  <2>2. \A j \in In("leased")' : job'[j] = job[j] /\ j \in In("leased")
    BY <1>4 DEF Ack, In, Done
  <2>3. QED
    BY <2>1, <2>2 DEF Calm, NoneExpired, Owns, LeaseOn, In
<1>5. ASSUME UNCHANGED job PROVE Calm({})
  BY <1>5 DEF Calm, NoneExpired, Owns, LeaseOn, In
<1>6. QED
  BY <1>1, <1>2, <1>3, <1>4, <1>5

(* What is held stays owned. *)
LEMMA HeldStaysOwned ==
  ASSUME ShardedIInv, ComingIsOwned, Calm({})
  PROVE  /\ \A l \in buffered : Owns(l)'
         /\ \A p \in Partitions : \A l \in brought[p] : Owns(l)'
<1>1. /\ \A l \in buffered : l \in Leases
      /\ \A p \in Partitions : \A l \in brought[p] : l \in Leases
  BY DEF ShardedIInv, TypeOK
<1>2. QED
  BY <1>1 DEF ComingIsOwned, Calm

(* The steps of the queue, of the heartbeat and of Claim that leave the pollers
   and, but for what is handed out, the buffer alone. *)
LEMMA CoverRests ==
  ASSUME ShardedIInv, CoverIInv, Calm({}), UNCHANGED <<poller, brought>>,
         buffered' \subseteq buffered, GoneHasDelivered'
  PROVE  CoverIInv'
<1>1. NoneExpired'
  BY DEF Calm
<1>2. ComingIsOwned'
  <2>1. /\ \A l \in buffered : Owns(l)'
        /\ \A p \in Partitions : \A l \in brought[p] : Owns(l)'
    BY HeldStaysOwned DEF CoverIInv
  <2>2. QED
    BY <2>1 DEF ComingIsOwned
<1>3. BackHasJobs'
  BY DEF CoverIInv, BackHasJobs
<1>4. QED
  BY <1>1, <1>2, <1>3 DEF CoverIInv

(* The queue: without expired leases there is nothing another worker could take,
   and a run that ends has a lease that is nowhere else. *)
LEMMA QueueCovers ==
  ASSUME MaxToken = 1, ShardedIInv, CoverIInv,
         \/ \E j \in Jobs : Submit(j) \/ LeaseExpires(j)
         \/ \E w, j : OtherRecovers(w, j)
         \/ \E l \in running : Finish(l)
  PROVE  CoverIInv'
<1>0. QueueTypeOK /\ NoneExpired
  BY DEF ShardedIInv, TypeOK, CoverIInv
<1>1. UNCHANGED <<poller, brought, buffered, claim, closing>>
  BY DEF Submit, LeaseExpires, OtherRecovers, Finish, pollVars, claimVars
<1>2. GoneHasDelivered'
  BY <1>1 DEF CoverIInv, GoneHasDelivered
<1>3. CASE \E j \in Jobs : Submit(j)
  BY <1>0, <1>1, <1>2, <1>3, CallsAreCalm, CoverRests DEF Submit
<1>4. ASSUME NEW j \in Jobs, LeaseExpires(j) PROVE FALSE
  <2>1. j \in In("leased") /\ job[j].token < MaxToken
    BY <1>4 DEF LeaseExpires, Expire
  <2>2. job[j].token \in Nat \ {0}
    BY <1>0, <2>1 DEF QueueTypeOK, WellFormed, In
  <2>3. QED
    BY <2>1, <2>2, SMT
<1>5. ASSUME NEW w, NEW j, OtherRecovers(w, j) PROVE FALSE
  BY <1>0, <1>5 DEF OtherRecovers, RecoverExpired, NoneExpired
<1>6. ASSUME NEW l \in running, Finish(l) PROVE CoverIInv'
  <2>1. CASE ~Owns(l)
    BY <1>0, <1>1, <1>2, <1>6, <2>1, CallsAreCalm, CoverRests DEF Finish
  <2>2. CASE Owns(l)
    <3>1. Ack({l.id})
      BY <1>6, <2>2 DEF Finish
    <3>2. Calm({l.id})
      BY <1>0, <3>1, CallsAreCalm
    <3>3. \A k : Owns(k) /\ k.id = l.id => k = l
      BY <2>2 DEF Owns
    <3>4. l \notin buffered /\ \A p \in Partitions : l \notin brought[p]
      BY InvariantParts DEF ShardedParts, Apart
    <3>5. /\ \A k \in buffered : k \in Leases
          /\ \A p \in Partitions : \A k \in brought[p] : k \in Leases
      BY DEF ShardedIInv, TypeOK
    <3>6. ComingIsOwned'
      BY <1>1, <3>2, <3>3, <3>4, <3>5 DEF CoverIInv, ComingIsOwned, Calm
    <3>7. BackHasJobs'
      BY <1>1 DEF CoverIInv, BackHasJobs
    <3>8. QED
      BY <1>2, <3>2, <3>6, <3>7 DEF CoverIInv, Calm
  <2>3. QED
    BY <2>1, <2>2
<1>7. QED
  BY <1>3, <1>4, <1>5, <1>6

(* Claim: it waits only after it has started every poller that is gone. *)
LEMMA ClaimCovers ==
  ASSUME ShardedIInv, CoverIInv, ClaimStep
  PROVE  CoverIInv'
<1>0. QueueTypeOK /\ NoneExpired /\ claim \in Calls
  BY DEF ShardedIInv, TypeOK, CoverIInv
<1>1. CASE WaitForJobs
  <2>1. /\ UNCHANGED <<job, brought, buffered>>
        /\ \A p \in Partitions : poller'[p] = IF poller[p] = "off" THEN "loop" ELSE poller[p]
    BY <1>1 DEF WaitForJobs
  <2>2. Calm({})
    BY <1>0, <2>1, CallsAreCalm
  <2>3. ComingIsOwned'
    BY <2>1, <2>2, HeldStaysOwned DEF CoverIInv, ComingIsOwned
  <2>4. BackHasJobs'
    BY <2>1 DEF CoverIInv, BackHasJobs
  <2>5. GoneHasDelivered'
    BY <2>1 DEF GoneHasDelivered
  <2>6. QED
    BY <2>2, <2>3, <2>4, <2>5 DEF CoverIInv, Calm
<1>2. CASE WakesUp
  <2>1. UNCHANGED <<job, poller, brought, buffered, closing>> /\ claim.pc = "select"
    BY <1>2 DEF WakesUp
  <2>2. GoneHasDelivered'
    BY <2>1 DEF CoverIInv, GoneHasDelivered
  <2>3. QED
    BY <1>0, <2>1, <2>2, CallsAreCalm, CoverRests
<1>3. ASSUME NEW ls, Takes(ls) PROVE CoverIInv'
  <2>1. /\ UNCHANGED <<job, poller, brought, closing>>
        /\ claim.pc = "take" /\ TakeBuffered(claim.limit, ls)
        /\ claim'.pc = IF ls = {} THEN "select" ELSE "leave"
    BY <1>3, SMT DEF Takes, pollVars
  <2>2. claim.limit \in Nat \ {0}
    <3>1. claim.limit \in 0 .. Concurrency /\ claim.limit >= 1
      BY <1>0, <2>1 DEF ShardedIInv, ClaimFits, Calls
    <3>2. QED
      BY <3>1, ShardedAssumption, SMT
  <2>3. IsFiniteSet(buffered)
    BY DEF ShardedIInv, HeldIsFinite
  <2>4. buffered' \subseteq buffered /\ (ls = {} => buffered = {})
    BY <2>1, <2>2, <2>3, TakeBufferedFacts
  <2>5. GoneHasDelivered'
    BY <2>1, <2>4 DEF CoverIInv, GoneHasDelivered
  <2>6. QED
    BY <1>0, <2>1, <2>4, <2>5, CallsAreCalm, CoverRests
<1>4. ASSUME NEW limit, NEW ls, ClaimStarts(limit, ls) PROVE CoverIInv'
  <2>1. UNCHANGED <<job, poller, brought>> /\ buffered' \subseteq buffered /\ claim'.pc = "sweep"
    BY <1>4 DEF ClaimStarts, TakeBuffered, pollVars
  <2>2. GoneHasDelivered'
    BY <2>1 DEF GoneHasDelivered
  <2>3. QED
    BY <1>0, <2>1, <2>2, CallsAreCalm, CoverRests
<1>5. ASSUME NEW ls, GivesUp(ls) PROVE CoverIInv'
  <2>1. UNCHANGED <<job, poller, brought>> /\ buffered' \subseteq buffered /\ claim'.pc = "leave"
    BY <1>5 DEF GivesUp, TakeBuffered, pollVars
  <2>2. GoneHasDelivered'
    BY <2>1 DEF GoneHasDelivered
  <2>3. QED
    BY <1>0, <2>1, <2>2, CallsAreCalm, CoverRests
<1>6. ASSUME NEW js, SweepNext(js) \/ SweepFails(js) \/ ClaimReturns \/ Leaves PROVE CoverIInv'
  <2>1. UNCHANGED <<poller, brought, buffered>> /\ claim'.pc \in {"sweep", "idle"}
    <3>1. UNCHANGED <<poller, brought, buffered>>
      BY <1>6 DEF SweepNext, SweepFails, ClaimReturns, Leaves, pollVars
    <3>2. SweepNext(js) => claim'.pc = "sweep"
      BY SMT DEF SweepNext
    <3>3. SweepFails(js) \/ ClaimReturns \/ Leaves => claim' = NoCall
      BY DEF SweepFails, ClaimReturns, Leaves
    <3>4. NoCall.pc = "idle"
      BY DEF NoCall
    <3>5. QED
      BY <1>6, <3>1, <3>2, <3>3, <3>4
  <2>2. UNCHANGED job \/ Claim(Me, js)
    BY <1>6 DEF SweepNext, SweepFails, ClaimReturns, Leaves, Lease
  <2>3. GoneHasDelivered'
    BY <2>1 DEF GoneHasDelivered
  <2>4. QED
    BY <1>0, <2>1, <2>2, <2>3, CallsAreCalm, CoverRests
<1>7. QED
  BY <1>1, <1>2, <1>3, <1>4, <1>5, <1>6 DEF ClaimStep

(* The pollers: one stops only when no Claim waits, when Close stops it, or when
   it has delivered. *)
LEMMA PollCovers ==
  ASSUME ShardedIInv, CoverIInv, NEW p \in Partitions, PollStep(p)
  PROVE  CoverIInv'
<1>0. /\ QueueTypeOK /\ NoneExpired /\ ComingIsOwned
      /\ poller \in [Partitions -> {"off", "loop", "reading", "back"}]
      /\ brought \in [Partitions -> SUBSET Leases]
  BY DEF ShardedIInv, TypeOK, CoverIInv
<1>1. CASE PollAgain(p)
  <2>1. /\ UNCHANGED <<job, brought, buffered, claim, closing>>
        /\ poller[p] = "loop"
        /\ poller' = [poller EXCEPT ![p] = IF waiting = 0 \/ Stopped THEN "off" ELSE "reading"]
    BY <1>1 DEF PollAgain, claimVars
  <2>2. Calm({})
    BY <1>0, <2>1, CallsAreCalm
  <2>3. ComingIsOwned'
    BY <1>0, <2>1, <2>2, HeldStaysOwned DEF ComingIsOwned
  <2>4. BackHasJobs'
    BY <1>0, <2>1 DEF CoverIInv, BackHasJobs
  <2>5. claim.pc \in {"select", "take"} => waiting = 1
    BY DEF ShardedIInv, TypeOK
  <2>6. claim.pc \in {"select", "take"} => waiting # 0
    BY <2>5, SMT
  <2>7. closing = "open" => ~Stopped
    BY DEF Stopped
  <2>8. GoneHasDelivered'
    BY <1>0, <2>1, <2>6, <2>7 DEF CoverIInv, GoneHasDelivered
  <2>9. QED
    BY <2>2, <2>3, <2>4, <2>8 DEF CoverIInv, Calm
<1>2. ASSUME NEW js, PollReads(p, js) PROVE CoverIInv'
  <2>1. /\ UNCHANGED <<buffered, claim, closing>>
        /\ js # {} /\ Claim(Me, js)
        /\ poller' = [poller EXCEPT ![p] = "back"]
        /\ brought' = [brought EXCEPT ![p] = NewLeases(js)]
    BY <1>2 DEF PollReads, Lease, claimVars
  <2>2. Calm({})
    BY <1>0, <2>1, CallsAreCalm
  <2>3. \A l \in NewLeases(js) : Owns(l)'
    <3>1. ASSUME NEW j \in js
          PROVE  /\ j \in In("leased")'
                 /\ LeaseOn(j)' = [id |-> j, attempt |-> job[j].attempt, owner |-> Me, token |-> 1]
      <4>1. j \in Jobs /\ job'[j] = Leased(job[j].attempt, Me, 1, FALSE)
        BY <2>1 DEF Claim, In
      <4>2. QED
        BY <4>1, SMT DEF In, LeaseOn, Leased
    <3>2. ASSUME NEW l \in NewLeases(js) PROVE Owns(l)'
      <4>1. PICK j \in js : l = [id |-> j, attempt |-> job[j].attempt, owner |-> Me, token |-> 1]
        BY DEF NewLeases
      <4>2. l.id = j
        BY <4>1
      <4>3. QED
        BY <3>1, <4>1, <4>2 DEF Owns
    <3>3. QED
      BY <3>2
  <2>4. /\ brought'[p] = NewLeases(js)
        /\ \A q \in Partitions \ {p} : brought'[q] = brought[q]
        /\ poller'[p] = "back"
        /\ \A q \in Partitions \ {p} : poller'[q] = poller[q]
    BY <1>0, <2>1
  <2>5. ComingIsOwned'
    BY <1>0, <2>1, <2>2, <2>3, <2>4, HeldStaysOwned DEF ComingIsOwned
  <2>6. BackHasJobs'
    <3>1. NewLeases(js) # {}
      BY <2>1 DEF NewLeases
    <3>2. QED
      BY <2>4, <3>1 DEF CoverIInv, BackHasJobs
  <2>7. GoneHasDelivered'
    BY <2>1, <2>4 DEF CoverIInv, GoneHasDelivered
  <2>8. QED
    BY <2>2, <2>5, <2>6, <2>7 DEF CoverIInv, Calm
<1>3. ASSUME NEW js, PollReadsNothing(p, js) PROVE CoverIInv'
  <2>1. /\ UNCHANGED <<buffered, brought, claim, closing>>
        /\ UNCHANGED job \/ Claim(Me, js)
        /\ poller' = [poller EXCEPT ![p] = "loop"]
    BY <1>3 DEF PollReadsNothing, Lease, claimVars
  <2>2. Calm({})
    BY <1>0, <2>1, CallsAreCalm
  <2>3. ComingIsOwned'
    BY <1>0, <2>1, <2>2, HeldStaysOwned DEF ComingIsOwned
  <2>4. BackHasJobs' /\ GoneHasDelivered'
    BY <1>0, <2>1 DEF CoverIInv, BackHasJobs, GoneHasDelivered
  <2>5. QED
    BY <2>2, <2>3, <2>4 DEF CoverIInv, Calm
<1>4. CASE PollBuffers(p)
  <2>1. /\ UNCHANGED <<job, claim, closing>>
        /\ poller[p] = "back"
        /\ buffered' = buffered \cup brought[p]
        /\ brought' = [brought EXCEPT ![p] = {}]
        /\ poller' = [poller EXCEPT ![p] = "off"]
    BY <1>4 DEF PollBuffers, claimVars
  <2>2. Calm({})
    BY <1>0, <2>1, CallsAreCalm
  <2>3. ComingIsOwned'
    BY <1>0, <2>1, <2>2, HeldStaysOwned DEF ComingIsOwned
  <2>4. BackHasJobs'
    BY <1>0, <2>1 DEF CoverIInv, BackHasJobs
  <2>5. GoneHasDelivered'
    BY <2>1 DEF CoverIInv, BackHasJobs, GoneHasDelivered
  <2>6. QED
    BY <2>2, <2>3, <2>4, <2>5 DEF CoverIInv, Calm
<1>5. QED
  BY <1>1, <1>2, <1>3, <1>4 DEF PollStep

(* Signals, Close and the heartbeat, which finds no buffered lease lost. *)
LEMMA OthersCover ==
  ASSUME ShardedIInv, CoverIInv,
         PollSignals \/ BeatStep \/ CloseStarts \/ StopPolls \/ CloseReturns \/ UNCHANGED vars
  PROVE  CoverIInv'
<1>0. QueueTypeOK /\ NoneExpired
  BY DEF ShardedIInv, TypeOK, CoverIInv
<1>1. UNCHANGED <<poller, brought, claim>> /\ (closing' = "open" => closing = "open")
  BY DEF PollSignals, BeatStep, BeatStarts, BeatEnds, BeatExtends, CloseStarts, StopPolls,
         CloseReturns, vars, claimVars, pollVars
<1>2. buffered' = buffered
  <2>1. CASE BeatEnds
    <3>1. \A l \in buffered : l \notin beat.lost
      BY DEF ShardedIInv, LostStaysLost, CoverIInv, ComingIsOwned
    <3>2. buffered' = buffered \ beat.lost
      BY <2>1 DEF BeatEnds
    <3>3. QED
      BY <3>1, <3>2
  <2>2. CASE ~BeatEnds
    BY <2>2 DEF PollSignals, BeatStep, BeatStarts, BeatExtends, CloseStarts, StopPolls,
                CloseReturns, vars
  <2>3. QED
    BY <2>1, <2>2
<1>3. UNCHANGED job \/ \E js : Extend(js)
  BY DEF PollSignals, BeatStep, BeatStarts, BeatEnds, BeatExtends, CloseStarts, StopPolls,
         CloseReturns, vars
<1>4. Calm({})
  BY <1>0, <1>3, CallsAreCalm
<1>5. GoneHasDelivered'
  BY <1>1, <1>2 DEF CoverIInv, GoneHasDelivered
<1>6. QED
  BY <1>1, <1>2, <1>4, <1>5, CoverRests

(* Nobody waits at first. *)
LEMMA InitCovers == Init => CoverIInv
<1> SUFFICES ASSUME Init PROVE CoverIInv
  OBVIOUS
<1>1. NoneExpired
  BY DEF Init, QueueInit, NoneExpired, In, Absent
<1>2. ComingIsOwned /\ BackHasJobs
  BY DEF Init, ComingIsOwned, BackHasJobs
<1>3. GoneHasDelivered
  BY DEF Init, NoCall, GoneHasDelivered
<1>4. QED
  BY <1>1, <1>2, <1>3 DEF CoverIInv

(* While a Claim waits and no lease expires, every partition has a poller, or one
   that has delivered is about to wake the Claim, for any number of partitions. *)
THEOREM PollersCoverPartitions ==
  ASSUME MaxToken = 1
  PROVE  Spec => []PollersCover
<1>1. ShardedIInv /\ CoverIInv /\ [Next]_vars => CoverIInv'
  BY QueueCovers, ClaimCovers, PollCovers, OthersCover DEF Next
<1>2. ShardedIInv /\ CoverIInv => PollersCover
  BY DEF ShardedIInv, CoverIInv, SignalIsDue, GoneHasDelivered, PollersCover
<1>3. QED
  BY <1>1, <1>2, InitCovers, ShardedInductiveInvariant, PTL DEF Spec
=============================================================================
