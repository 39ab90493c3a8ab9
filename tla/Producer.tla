------------------------------- MODULE Producer -------------------------------
(***************************************************************************)
(* Queue.Enqueue and Queue.EnqueueBatch on a sharded backend, up to the    *)
(* moment a job is stored.  A batch is one transaction per partition, sent *)
(* in parallel; each may be executed late, executed again because the      *)
(* client sent it again, or fail with or without having been executed.     *)
(* Enqueue is a batch of one, and a single Redis is one partition.         *)
(*                                                                         *)
(* A batch with a request that newJob refuses returns before it sends      *)
(* anything, and is left out.                                              *)
(***************************************************************************)
EXTENDS Naturals, FiniteSets

CONSTANTS
  Producers,   \* processes that enqueue
  Requests,    \* what they ask for
  Keyed,       \* requests with an idempotency key of their own
  Delayed,     \* requests with a Delay
  Hash,        \* keyed request -> hash of its key
  IDs,         \* bound of the model: the IDs NewJobID draws
  Before,      \* how many partitions there are at first
  After,       \* and after the queue has grown
  MaxFaults,   \* bound of the model: transactions sent again or failing
  MaxExpiries  \* bound of the model: dedupe keys that expire

ASSUME ProducerAssumption ==
  /\ Keyed \subseteq Requests /\ Delayed \subseteq Requests
  /\ Hash \in [Keyed -> Nat]
  /\ Before \in Nat \ {0} /\ After \in Nat /\ Before <= After
  /\ IsFiniteSet(IDs)
  /\ MaxFaults \in Nat /\ MaxExpiries \in Nat

Partitions == 0 .. After - 1
NoID == "no ID"
NoRequest == "no request"

ASSUME NamesAreNew == NoID \notin IDs /\ NoRequest \notin Requests

VARIABLES
  made,     \* ID -> the request of the job it was drawn for
  copies,   \* ID -> how often that job is in a stream or schedule
  dedupe,   \* partition -> keyed request -> ID under its dedupe key
  wire,     \* transactions on their way to Redis
  answers,  \* answers on their way back
  call,     \* producer -> its call in progress
  told,     \* pairs: the ID of a job, and the one its caller was given
  counted,  \* ID -> how often JobEnqueued was called
  parts,    \* producer -> how many partitions it knows of
  lost,     \* ID -> how often the transaction it is in failed or was sent again
  faults,   \* faults still to come
  expiries  \* dedupe keys that have expired

vars == <<made, copies, dedupe, wire, answers, call, told, counted, parts, lost, faults, expiries>>

NoCall == [ids |-> {}, open |-> {}, got |-> {}]

Init ==
  /\ made = [i \in IDs |-> NoRequest]
  /\ copies = [i \in IDs |-> 0]
  /\ dedupe = [q \in Partitions |-> [r \in Keyed |-> NoID]]
  /\ wire = {} /\ answers = {}
  /\ call = [p \in Producers |-> NoCall]
  /\ told = {}
  /\ counted = [i \in IDs |-> 0]
  /\ parts = [p \in Producers |-> Before]
  /\ lost = [i \in IDs |-> 0]
  /\ faults = MaxFaults /\ expiries = 0

IDsOf(r) == {i \in IDs : made[i] = r}

-----------------------------------------------------------------------------
(* The producer *)

(* What EnqueueBatch's comment lets a caller ask for: again and again if there is
   a key, and otherwise until there is an ID. *)
MayAsk(r) ==
  \/ r \in Keyed
  \/ \A i \in IDsOf(r) : <<i, NoID>> \in told

(* route: a key's partition is its hash's, other jobs go round. *)
Routes(p, req) ==
  {to \in [DOMAIN req -> 0 .. parts[p] - 1] :
     \A i \in DOMAIN req : req[i] \in Keyed => to[i] = Hash[req[i]] % parts[p]}

(* One transaction per partition that gets any of the jobs. *)
Groups(to) ==
  {[part |-> q, ids |-> {i \in DOMAIN to : to[i] = q}, send |-> 0] : q \in {to[i] : i \in DOMAIN to}}

(* newJob draws an ID for each request. *)
NewJobs(ids, req) == [i \in IDs |-> IF i \in ids THEN req[i] ELSE made[i]]

(* The jobs are made, and the transactions are sent. *)
Call(p, ids, req, to) ==
  /\ call[p] = NoCall
  /\ ids # {}
  /\ \A i \in ids : made[i] = NoRequest /\ MayAsk(req[i])
  /\ \A i, j \in ids : req[i] = req[j] => i = j
  /\ made' = NewJobs(ids, req)
  /\ wire' = wire \cup Groups(to)
  /\ call' = [call EXCEPT ![p] = [ids |-> ids, open |-> Groups(to), got |-> {}]]
  /\ UNCHANGED <<copies, dedupe, answers, told, counted, parts, lost, faults, expiries>>

(* The goroutine of transaction tx writes its jobs' IDs and is done. *)
Finish(p, tx, pairs) ==
  call' = [call EXCEPT ![p] = [ids |-> @.ids, open |-> @.open \ {tx}, got |-> @.got \cup pairs]]

(* A partition's answer has arrived, with an ID for each of its jobs. *)
Answered(p, a) ==
  /\ a \in answers /\ a.tx \in call[p].open
  /\ answers' = answers \ {a}
  /\ Finish(p, a.tx, {<<i, a.ids[i]>> : i \in a.tx.ids})
  /\ UNCHANGED <<made, copies, dedupe, wire, told, counted, parts, lost, faults, expiries>>

Loses(tx) ==
  /\ faults > 0 /\ faults' = faults - 1
  /\ lost' = [i \in IDs |-> IF i \in tx.ids THEN lost[i] + 1 ELSE lost[i]]

(* Fault for Fails: the jobs keep the IDs that newJob gave them. *)
FailsHopeful(p, tx) ==
  /\ tx \in call[p].open
  /\ Loses(tx)
  /\ Finish(p, tx, {<<i, i>> : i \in tx.ids})
  /\ answers' = {a \in answers : a.tx # tx}
  /\ UNCHANGED <<made, copies, dedupe, wire, told, counted, parts, expiries>>

(* A transaction fails for the producer, wherever it is, and its jobs get
   no IDs. *)
Fails(p, tx) ==
  /\ tx \in call[p].open
  /\ Loses(tx)
  /\ Finish(p, tx, {<<i, NoID>> : i \in tx.ids})
  /\ answers' = {a \in answers : a.tx # tx}
  /\ UNCHANGED <<made, copies, dedupe, wire, told, counted, parts, expiries>>

(* The client waits no longer and sends it again; the first may still be on
   its way. *)
Resend(p, tx) ==
  /\ tx \in call[p].open
  /\ Loses(tx)
  /\ LET again == [tx EXCEPT !.send = @ + 1]
     IN  /\ wire' = wire \cup {again}
         /\ call' = [call EXCEPT ![p].open = (@ \ {tx}) \cup {again}]
  /\ answers' = {a \in answers : a.tx # tx}
  /\ UNCHANGED <<made, copies, dedupe, told, counted, parts, expiries>>

JobEnqueued(ids) == counted' = [i \in IDs |-> counted[i] + IF i \in ids THEN 1 ELSE 0]

(* Fault for Return: after an error, no job has an ID. *)
ReturnNone(p) ==
  /\ call[p] # NoCall /\ call[p].open = {}
  /\ told' = told \cup IF \E i \in IDs : <<i, NoID>> \in call[p].got
                       THEN {<<i, NoID>> : i \in call[p].ids}
                       ELSE call[p].got
  /\ JobEnqueued({i \in IDs : <<i, i>> \in call[p].got})
  /\ call' = [call EXCEPT ![p] = NoCall]
  /\ UNCHANGED <<made, copies, dedupe, wire, answers, parts, lost, faults, expiries>>

(* Fault for Return: the metric counts whatever got an ID. *)
ReturnCounting(p) ==
  /\ call[p] # NoCall /\ call[p].open = {}
  /\ told' = told \cup call[p].got
  /\ JobEnqueued({i \in call[p].ids : <<i, NoID>> \notin call[p].got})
  /\ call' = [call EXCEPT ![p] = NoCall]
  /\ UNCHANGED <<made, copies, dedupe, wire, answers, parts, lost, faults, expiries>>

(* wg.Wait is over: the jobs that are stored under their own IDs are counted,
   and the IDs are returned. *)
Return(p) ==
  /\ call[p] # NoCall /\ call[p].open = {}
  /\ told' = told \cup call[p].got
  /\ JobEnqueued({i \in IDs : <<i, i>> \in call[p].got})
  /\ call' = [call EXCEPT ![p] = NoCall]
  /\ UNCHANGED <<made, copies, dedupe, wire, answers, parts, lost, faults, expiries>>

(* The process is started anew with more partitions. *)
Grow(p) ==
  /\ call[p] = NoCall
  /\ parts[p] < After
  /\ parts' = [parts EXCEPT ![p] = After]
  /\ UNCHANGED <<made, copies, dedupe, wire, answers, call, told, counted, lost, faults, expiries>>

-----------------------------------------------------------------------------
(* Redis *)

Awaited == UNION {call[p].open : p \in Producers}

Holder(q, i) == dedupe[q][made[i]]

(* Fault for Stores: the dedupe key is looked up outside the transaction. *)
StoresAnyway(q, i) == TRUE

(* enqueueOnceScript stores a job unless its key is held. *)
Stores(q, i) == made[i] \in Keyed => Holder(q, i) = NoID

(* MULTI/EXEC.  A delayed job is filed under its ID, so a second time changes
   nothing; a stream takes a second entry. *)
Execute(tx) ==
  /\ tx \in wire
  /\ wire' = wire \ {tx}
  /\ LET new == {i \in tx.ids : Stores(tx.part, i)}
         held == [i \in tx.ids |-> IF i \in new THEN i ELSE Holder(tx.part, i)]
     IN  /\ copies' = [i \in IDs |-> IF i \notin new THEN copies[i]
                                     ELSE IF made[i] \in Delayed THEN 1 ELSE copies[i] + 1]
         /\ dedupe' = [dedupe EXCEPT ![tx.part] = [r \in Keyed |->
                         IF \E i \in new : made[i] = r
                         THEN CHOOSE i \in new : made[i] = r ELSE @[r]]]
         /\ answers' = answers \cup {[tx |-> x, ids |-> held] : x \in {tx} \cap Awaited}
  /\ UNCHANGED <<made, call, told, counted, parts, lost, faults, expiries>>

(* DedupeWindow is over. *)
KeyExpires(q, r) ==
  /\ dedupe[q][r] # NoID
  /\ expiries < MaxExpiries /\ expiries' = expiries + 1
  /\ dedupe' = [dedupe EXCEPT ![q][r] = NoID]
  /\ UNCHANGED <<made, copies, wire, answers, call, told, counted, parts, lost, faults>>

-----------------------------------------------------------------------------

Produce(p) ==
  \/ \E ids \in SUBSET {i \in IDs : made[i] = NoRequest} : \E req \in [ids -> Requests] :
       \E to \in Routes(p, req) : Call(p, ids, req, to)
  \/ \E a \in answers : Answered(p, a)
  \/ \E tx \in call[p].open : Fails(p, tx) \/ Resend(p, tx)
  \/ Return(p)
  \/ Grow(p)

Next ==
  \/ \E p \in Producers : Produce(p)
  \/ \E tx \in wire : Execute(tx)
  \/ \E q \in Partitions, r \in Keyed : KeyExpires(q, r)

Spec == Init /\ [][Next]_vars

-----------------------------------------------------------------------------
(* Properties *)

Transactions == [part : Partitions, ids : (SUBSET IDs) \ {{}}, send : 0 .. MaxFaults]

TypeOK ==
  /\ made \in [IDs -> Requests \cup {NoRequest}]
  /\ copies \in [IDs -> Nat] /\ counted \in [IDs -> Nat] /\ lost \in [IDs -> Nat]
  /\ dedupe \in [Partitions -> [Keyed -> IDs \cup {NoID}]]
  /\ wire \subseteq Transactions
  /\ \A tx \in wire, i \in IDs : i \in tx.ids => made[i] \in Requests
  /\ \A a \in answers : a.tx \in Transactions /\ a.ids \in [a.tx.ids -> IDs]
  /\ \A p \in Producers :
       /\ call[p].ids \subseteq IDs /\ call[p].open \subseteq Transactions
       /\ call[p].got \subseteq IDs \X (IDs \cup {NoID})
  /\ told \subseteq IDs \X (IDs \cup {NoID})
  /\ parts \in [Producers -> {Before, After}]
  /\ faults \in 0 .. MaxFaults /\ expiries \in 0 .. MaxExpiries

(* What count counts of ids, each one as a pair of its own, and how many these
   are together. *)
Each(count, ids) == UNION {{i} \X (1 .. count[i]) : i \in ids}
Total(count, ids) == Cardinality(Each(count, ids))

(* EnqueueBatch: "the IDs still say which jobs were stored".  An ID that a caller
   is given is that of a job stored for that very request, though other
   partitions failed, transactions were executed late or twice, and another
   producer stored the job first. *)
IDsAreStored ==
  \A t \in told \cup UNION {call[p].got : p \in Producers} :
    t[2] # NoID => copies[t[2]] > 0 /\ made[t[2]] = made[t[1]]

(* enqueueOnceScript: however often producers send a request with a key, in
   however many calls at a time and through whatever failures, it is stored
   once; once more after a dedupe window, and once more if the queue grows and
   the key moves to another partition. *)
KeyedOnce ==
  LET grown == IF \E p \in Producers : parts[p] # Before THEN 1 ELSE 0
  IN  \A r \in Keyed : Total(copies, IDsOf(r)) <= 1 + expiries + grown

(* EnqueueBatch: "an empty ID means that request wasn't, so retry only those".  A
   caller who does that with requests that have no key stores one more copy, at
   most, for each time the request's own transaction failed or was sent again;
   never because another partition's did. *)
UnkeyedOnce ==
  \A r \in Requests \ Keyed : Total(copies, IDsOf(r)) <= 1 + Total(lost, IDsOf(r))

(* JobEnqueued is called at most once for an ID, for stored jobs only, and if
   nothing was lost on the way, for every stored job whose call has returned. *)
CountedIsStored ==
  \A i \in IDs :
    /\ counted[i] <= 1
    /\ counted[i] = 1 => copies[i] > 0
    /\ copies[i] > 0 /\ lost[i] = 0 => counted[i] = 1 \/ \E p \in Producers : i \in call[p].ids

(* EnqueueBatch: "an empty ID means that request wasn't" stored. *)
EmptyMeansNotStored ==
  \A i \in IDs : <<i, NoID>> \in told => copies[i] = 0

-----------------------------------------------------------------------------
(* What the proofs need besides *)

Sent == [part : Partitions, ids : SUBSET IDs, send : Nat]
Pairs == IDs \X (IDs \cup {NoID})
Given == told \cup UNION {call[p].got : p \in Producers}

StoredAs(i, k) == k \in IDs /\ copies[k] > 0 /\ made[k] = made[i]

Shapes ==
  /\ made \in [IDs -> Requests \cup {NoRequest}]
  /\ copies \in [IDs -> Nat]
  /\ dedupe \in [Partitions -> [Keyed -> IDs \cup {NoID}]]
  /\ parts \in [Producers -> {Before, After}]
  /\ call \in [Producers -> [ids : SUBSET IDs, open : SUBSET Sent, got : SUBSET Pairs]]
  /\ wire \subseteq Sent /\ told \subseteq Pairs
  /\ \A a \in answers : a.tx \in Sent

(* What is sent, kept under a key, answered or returned is about jobs that were
   made, and what is kept, answered or returned about jobs that are stored. *)
SentIsMade == \A tx \in wire \cup Awaited : \A i \in tx.ids : made[i] \in Requests
KeptIsStored ==
  \A q \in Partitions, r \in Keyed :
    dedupe[q][r] # NoID => copies[dedupe[q][r]] > 0 /\ made[dedupe[q][r]] = r
AnsweredIsStored ==
  \A a \in answers : \A i \in a.tx.ids : made[i] \in Requests /\ StoredAs(i, a.ids[i])
GivenIsStored ==
  \A t \in Given : made[t[1]] \in Requests /\ (t[2] # NoID => StoredAs(t[1], t[2]))

ProducerIInv == Shapes /\ SentIsMade /\ KeptIsStored /\ AnsweredIsStored /\ GivenIsStored

(* For KeyedOnce: a transaction has one job for a request at most, a key is sent
   to and held by the partitions it was ever routed to, and a copy of its job
   takes a partition that does not hold the key yet, or an expiry. *)
Homes(r) == {Hash[r] % Before} \cup {Hash[r] % parts[p] : p \in Producers}
Holders(r) == {q \in Partitions : dedupe[q][r] # NoID}

RequestsDiffer == \A tx \in wire \cup Awaited : \A i, j \in tx.ids : made[i] = made[j] => i = j
SentHome == \A tx \in wire \cup Awaited : \A i \in tx.ids : made[i] \in Keyed => tx.part \in Homes(made[i])
KeptHome == \A r \in Keyed : Holders(r) \subseteq Homes(r)
StoredIsMade == \A i \in IDs : copies[i] > 0 => made[i] \in Requests
CopiesHaveHolders == \A r \in Keyed : Total(copies, IDsOf(r)) <= expiries + Cardinality(Holders(r))

KeyIInv == RequestsDiffer /\ SentHome /\ KeptHome /\ StoredIsMade /\ CopiesHaveHolders

(* For UnkeyedOnce: a job's copies, with the transactions that may still add one,
   are no more than what was lost of it, and one if its caller has not been told
   that it failed; and only one job of a request is without such an answer. *)
OnTheWay(i) == {tx \in wire : i \in tx.ids}

CopiesAreLost ==
  \A i \in IDs : copies[i] + Cardinality(OnTheWay(i)) <= lost[i] + IF <<i, NoID>> \in Given THEN 0 ELSE 1
AskedAgain ==
  \A i, j \in IDs : made[i] = made[j] /\ made[i] \in Requests \ Keyed /\ i # j =>
    <<i, NoID>> \in told \/ <<j, NoID>> \in told

LossIInv == lost \in [IDs -> Nat] /\ IsFiniteSet(wire) /\ CopiesAreLost /\ AskedAgain

(* For CountedIsStored: calls and their transactions have no job in common, what
   is answered is awaited, and a stored job of which nothing was lost is counted,
   or its own ID is on its way to the caller. *)
CallsApart ==
  /\ \A p, q \in Producers : p # q => call[p].ids \cap call[q].ids = {}
  /\ \A p \in Producers :
       /\ \A i \in call[p].ids : made[i] \in Requests
       /\ \A t \in call[p].got : t[1] \in call[p].ids
       /\ \A tx \in call[p].open : tx.ids \subseteq call[p].ids
       /\ \A tx, ty \in call[p].open : tx # ty => tx.ids \cap ty.ids = {}
SendsAreBounded ==
  \A tx \in wire \cup Awaited : tx.ids # {} /\ tx.send + faults <= MaxFaults
AnswersAreAwaited ==
  \A a \in answers :
    /\ a.tx \in Awaited \ wire /\ a.ids \in [a.tx.ids -> IDs]
    /\ \A b \in answers : a.tx = b.tx => a = b
UnlostIsAwaited == \A tx \in wire : \A i \in tx.ids : lost[i] = 0 => tx \in Awaited
CountedOnce ==
  \A i \in IDs : counted[i] # 0 =>
    /\ counted[i] = 1 /\ copies[i] > 0 /\ made[i] \in Requests
    /\ \A p \in Producers : i \notin call[p].ids
StoredIsTraced ==
  \A i \in IDs : copies[i] > 0 /\ lost[i] = 0 =>
    \/ counted[i] = 1
    \/ \E p \in Producers : <<i, i>> \in call[p].got
    \/ \E a \in answers : i \in a.tx.ids /\ a.ids[i] = i

CallIInv ==
  /\ counted \in [IDs -> Nat] /\ faults \in 0 .. MaxFaults /\ expiries \in 0 .. MaxExpiries
  /\ CallsApart /\ SendsAreBounded /\ AnswersAreAwaited /\ UnlostIsAwaited
  /\ CountedOnce /\ StoredIsTraced
=============================================================================
