--------------------------- MODULE ProducerProofs ---------------------------
(***************************************************************************)
(* Proofs about Producer, for any number of producers, requests, IDs and   *)
(* partitions, and any number of failures and expiries: the IDs that       *)
(* callers are given are those of jobs stored for their requests; a        *)
(* request is stored once, but for what expiries and failures of its own   *)
(* allow; and stored jobs are counted.                                     *)
(***************************************************************************)
EXTENDS Producer, FiniteSetTheorems, TLAPS

(* Leaves are Zenon's, but for those that name SMT. *)
USE Zenon

(* No step forgets what a job was made for, or loses its last copy. *)
Remembers ==
  /\ \A i \in IDs : made[i] \in Requests => made'[i] = made[i]
  /\ \A i \in IDs : copies[i] > 0 => copies'[i] > 0

(* What was stored for a job still is. *)
LEMMA StoredStays ==
  ASSUME Remembers, NEW i \in IDs, made[i] \in Requests, NEW k, StoredAs(i, k)
  PROVE  StoredAs(i, k)' /\ made'[i] \in Requests
BY DEF Remembers, StoredAs

(* The conclusions of IDsAreStored follow from the invariant. *)
LEMMA IInvImpliesStored ==
  ASSUME ProducerIInv
  PROVE  IDsAreStored
BY DEF ProducerIInv, GivenIsStored, Given, StoredAs, IDsAreStored

(* Pairs are made of IDs. *)
LEMMA GivenArePairs ==
  ASSUME Shapes
  PROVE  Given \subseteq Pairs
BY SMT DEF Shapes, Given

(* If the caches of Redis and the answers on their way are the same or fewer,
   they are about stored jobs still. *)
LEMMA KeptStays ==
  ASSUME ProducerIInv, Remembers,
         \A q \in Partitions, r \in Keyed : dedupe'[q][r] \in {dedupe[q][r], NoID}
  PROVE  KeptIsStored'
<1> SUFFICES ASSUME NEW q \in Partitions, NEW r \in Keyed, dedupe'[q][r] # NoID
             PROVE  copies'[dedupe'[q][r]] > 0 /\ made'[dedupe'[q][r]] = r
  BY DEF KeptIsStored
<1> DEFINE k == dedupe[q][r]
<1>1. dedupe'[q][r] = k /\ k # NoID
  OBVIOUS
<1>2. k \in IDs
  BY <1>1, SMT DEF ProducerIInv, Shapes
<1>3. copies[k] > 0 /\ made[k] = r /\ r \in Requests
  BY <1>1, ProducerAssumption DEF ProducerIInv, KeptIsStored
<1> HIDE DEF k
<1> QED
  BY <1>1, <1>2, <1>3 DEF Remembers

(* Answers. *)
LEMMA AnswersStay ==
  ASSUME ProducerIInv, Remembers, answers' \subseteq answers
  PROVE  AnsweredIsStored'
<1> SUFFICES ASSUME NEW a \in answers, NEW i \in a.tx.ids
             PROVE  made'[i] \in Requests /\ StoredAs(i, a.ids[i])'
  BY DEF AnsweredIsStored
<1>1. i \in IDs
  BY DEF ProducerIInv, Shapes, Sent
<1>2. made[i] \in Requests /\ StoredAs(i, a.ids[i])
  BY DEF ProducerIInv, AnsweredIsStored
<1> QED
  BY <1>1, <1>2 DEF Remembers, StoredAs

(* What callers were given. *)
LEMMA GivenStays ==
  ASSUME ProducerIInv, Remembers, Shapes',
         \A t \in Given' : t \in Given \/ (made'[t[1]] \in Requests
                                            /\ (t[2] # NoID => StoredAs(t[1], t[2])'))
  PROVE  GivenIsStored'
<1> SUFFICES ASSUME NEW t \in Given, t \in Given'
             PROVE  made'[t[1]] \in Requests /\ (t[2] # NoID => StoredAs(t[1], t[2])')
  BY DEF GivenIsStored
<1>1. t[1] \in IDs
  BY GivenArePairs DEF ProducerIInv, Pairs
<1>2. made[t[1]] \in Requests /\ (t[2] # NoID => StoredAs(t[1], t[2]))
  BY DEF ProducerIInv, GivenIsStored
<1> QED
  BY <1>1, <1>2 DEF Remembers, StoredAs

(* What a change of one producer's call does. *)
LEMMA CallChange ==
  ASSUME Shapes, NEW p \in Producers, NEW ids \in SUBSET IDs, NEW open \in SUBSET Sent,
         NEW got \in SUBSET Pairs, call' = [call EXCEPT ![p] = [ids |-> ids, open |-> open, got |-> got]]
  PROVE  /\ call' \in [Producers -> [ids : SUBSET IDs, open : SUBSET Sent, got : SUBSET Pairs]]
         /\ Awaited' \subseteq Awaited \cup open
         /\ told' = told => Given' \subseteq Given \cup got
<1> DEFINE c == [ids |-> ids, open |-> open, got |-> got]
<1>1. /\ c \in [ids : SUBSET IDs, open : SUBSET Sent, got : SUBSET Pairs]
      /\ c.open = open /\ c.got = got
  OBVIOUS
<1>2. call \in [Producers -> [ids : SUBSET IDs, open : SUBSET Sent, got : SUBSET Pairs]]
  BY DEF Shapes
<1>3. call' = [call EXCEPT ![p] = c]
  OBVIOUS
<1> HIDE DEF c
<1>4. call' \in [Producers -> [ids : SUBSET IDs, open : SUBSET Sent, got : SUBSET Pairs]]
  BY <1>1, <1>2, <1>3
<1>5. \A r \in Producers : call'[r] = IF r = p THEN c ELSE call[r]
  BY <1>2, <1>3
<1> QED
  BY <1>1, <1>4, <1>5, SMT DEF Awaited, Given

(* A call's record has its fields' types. *)
LEMMA CallFields ==
  ASSUME Shapes, NEW p \in Producers
  PROVE  call[p].ids \in SUBSET IDs /\ call[p].open \in SUBSET Sent /\ call[p].got \in SUBSET Pairs
BY DEF Shapes

(* An answer has arrived. *)
LEMMA AnsweredKeeps ==
  ASSUME ProducerIInv, NEW p \in Producers, NEW a, Answered(p, a)
  PROVE  ProducerIInv'
<1> DEFINE more == {<<i, a.ids[i]>> : i \in a.tx.ids}
           open == call[p].open \ {a.tx}
           got == call[p].got \cup more
<1>0. Shapes /\ Remembers
  BY DEF ProducerIInv, Remembers, Answered
<1>1. a \in answers /\ a.tx \in Sent /\ a.tx.ids \subseteq IDs
  BY <1>0 DEF Answered, Shapes, Sent
<1>2. \A i \in a.tx.ids : made[i] \in Requests /\ StoredAs(i, a.ids[i])
  BY <1>1 DEF ProducerIInv, AnsweredIsStored
<1>3. more \subseteq Pairs
  BY <1>1, <1>2, SMT DEF Pairs, StoredAs
<1>4. call' = [call EXCEPT ![p] = [ids |-> call[p].ids, open |-> open, got |-> got]]
  BY <1>0 DEF Answered, Finish, Shapes
<1> HIDE DEF more
<1>5. /\ call[p].ids \in SUBSET IDs /\ open \in SUBSET Sent /\ got \in SUBSET Pairs
      /\ call' = [call EXCEPT ![p] = [ids |-> call[p].ids, open |-> open, got |-> got]]
      /\ open \subseteq Awaited /\ call[p].got \subseteq Given
  <2>1. call[p].ids \in SUBSET IDs /\ call[p].open \in SUBSET Sent /\ call[p].got \in SUBSET Pairs
    BY <1>0, CallFields
  <2> QED
    BY <1>3, <1>4, <2>1 DEF Awaited, Given
<1>6. UNCHANGED <<made, copies, dedupe, wire, told, parts>> /\ answers' \subseteq answers
  BY DEF Answered
<1> HIDE DEF open, got
<1>7. /\ call' \in [Producers -> [ids : SUBSET IDs, open : SUBSET Sent, got : SUBSET Pairs]]
      /\ Awaited' \subseteq Awaited \cup open /\ Given' \subseteq Given \cup got
  BY <1>0, <1>5, <1>6, CallChange
<1>8. Shapes'
  BY <1>0, <1>6, <1>7 DEF Shapes
<1>9. SentIsMade'
  BY <1>5, <1>6, <1>7 DEF ProducerIInv, SentIsMade
<1>10. KeptIsStored' /\ AnsweredIsStored'
  BY <1>0, <1>6, KeptStays, AnswersStay
<1>11. \A t \in more : made'[t[1]] \in Requests /\ StoredAs(t[1], t[2])'
  BY <1>2, <1>6, SMT DEF more, StoredAs
<1>12. GivenIsStored'
  <2>1. \A t \in Given' : t \in Given \/ t \in more
    BY <1>5, <1>7 DEF got
  <2> QED
    BY <1>0, <1>8, <1>11, <2>1, GivenStays
<1> QED
  BY <1>8, <1>9, <1>10, <1>12 DEF ProducerIInv

(* A transaction fails for its caller. *)
LEMMA FailsKeeps ==
  ASSUME ProducerIInv, NEW p \in Producers, NEW tx, Fails(p, tx)
  PROVE  ProducerIInv'
<1> DEFINE more == {<<i, NoID>> : i \in tx.ids}
           open == call[p].open \ {tx}
           got == call[p].got \cup more
<1>0. Shapes /\ Remembers
  BY DEF ProducerIInv, Remembers, Fails
<1>1. /\ call[p].ids \in SUBSET IDs /\ call[p].open \in SUBSET Sent /\ call[p].got \in SUBSET Pairs
      /\ tx \in call[p].open
  BY <1>0, CallFields DEF Fails
<1>2. tx.ids \subseteq IDs /\ \A i \in tx.ids : made[i] \in Requests
  BY <1>1 DEF ProducerIInv, SentIsMade, Awaited, Sent
<1>3. more \subseteq Pairs
  BY <1>2, SMT DEF Pairs
<1>4. call' = [call EXCEPT ![p] = [ids |-> call[p].ids, open |-> open, got |-> got]]
  BY <1>0 DEF Fails, Finish, Shapes
<1> HIDE DEF more
<1>5. /\ open \in SUBSET Sent /\ got \in SUBSET Pairs
      /\ call' = [call EXCEPT ![p] = [ids |-> call[p].ids, open |-> open, got |-> got]]
      /\ open \subseteq Awaited /\ call[p].got \subseteq Given
  BY <1>1, <1>3, <1>4 DEF Awaited, Given
<1>6. UNCHANGED <<made, copies, dedupe, wire, told, parts>> /\ answers' \subseteq answers
  BY DEF Fails
<1> HIDE DEF open, got
<1>7. /\ call' \in [Producers -> [ids : SUBSET IDs, open : SUBSET Sent, got : SUBSET Pairs]]
      /\ Awaited' \subseteq Awaited \cup open /\ Given' \subseteq Given \cup got
  BY <1>0, <1>1, <1>5, <1>6, CallChange
<1>8. Shapes'
  BY <1>0, <1>6, <1>7 DEF Shapes
<1>9. SentIsMade'
  BY <1>5, <1>6, <1>7 DEF ProducerIInv, SentIsMade
<1>10. KeptIsStored' /\ AnsweredIsStored'
  BY <1>0, <1>6, KeptStays, AnswersStay
<1>11. \A t \in more : made'[t[1]] \in Requests /\ t[2] = NoID
  BY <1>2, <1>6, SMT DEF more
<1>12. GivenIsStored'
  <2>1. \A t \in Given' : t \in Given \/ t \in more
    BY <1>5, <1>7 DEF got
  <2> QED
    BY <1>0, <1>8, <1>11, <2>1, GivenStays
<1> QED
  BY <1>8, <1>9, <1>10, <1>12 DEF ProducerIInv

(* A transaction is sent again. *)
LEMMA ResendKeeps ==
  ASSUME ProducerIInv, NEW p \in Producers, NEW tx, Resend(p, tx)
  PROVE  ProducerIInv'
<1> DEFINE again == [tx EXCEPT !.send = @ + 1]
           open == (call[p].open \ {tx}) \cup {again}
           ids == call[p].ids
           got == call[p].got
<1>0. Shapes /\ Remembers
  BY DEF ProducerIInv, Remembers, Resend
<1>1. /\ call[p].ids \in SUBSET IDs /\ call[p].open \in SUBSET Sent /\ call[p].got \in SUBSET Pairs
      /\ tx \in call[p].open /\ tx \in Sent /\ tx \in Awaited
  BY <1>0, CallFields DEF Resend, Awaited
<1>2. again \in Sent /\ again.ids = tx.ids
  BY <1>1, SMT DEF Sent
<1>3. call' = [call EXCEPT ![p].open = open] /\ wire' = wire \cup {again}
  BY <1>0 DEF Resend, Shapes
<1> HIDE DEF again
<1>4. /\ open \in SUBSET Sent /\ open \subseteq Awaited \cup {again} /\ call[p].got \subseteq Given
  BY <1>1, <1>2 DEF Awaited, Given
<1> HIDE DEF open
<1>5. call' = [call EXCEPT ![p] = [ids |-> ids, open |-> open, got |-> got]]
  <2>1. PICK c : c = call[p]
    OBVIOUS
  <2>2. c \in [ids : SUBSET IDs, open : SUBSET Sent, got : SUBSET Pairs]
    BY <1>0, <2>1 DEF Shapes
  <2>3. PICK i, o, g : i = c.ids /\ o = c.open /\ g = c.got
    OBVIOUS
  <2>4. c = [ids |-> i, open |-> o, got |-> g]
    BY <2>2, <2>3
  <2>5. [c EXCEPT !.open = open] = [ids |-> i, open |-> open, got |-> g]
    BY <2>4, SMT
  <2>6. call' = [call EXCEPT ![p] = [call[p] EXCEPT !.open = open]]
    BY <1>3
  <2> QED
    BY <2>1, <2>3, <2>5, <2>6
<1>6. UNCHANGED <<made, copies, dedupe, told, parts>> /\ answers' \subseteq answers
  BY DEF Resend
<1>12. ids \in SUBSET IDs /\ got \in SUBSET Pairs /\ got \subseteq Given
  BY <1>1, <1>4
<1> HIDE DEF ids, got
<1>7. /\ call' \in [Producers -> [ids : SUBSET IDs, open : SUBSET Sent, got : SUBSET Pairs]]
      /\ Awaited' \subseteq Awaited \cup open /\ Given' \subseteq Given \cup got
  BY <1>0, <1>4, <1>5, <1>6, <1>12, CallChange
<1>8. Shapes'
  BY <1>0, <1>2, <1>3, <1>6, <1>7 DEF Shapes
<1>9. SentIsMade'
  <2>1. \A i \in again.ids : made[i] \in Requests
    BY <1>1, <1>2 DEF ProducerIInv, SentIsMade
  <2> QED
    BY <1>3, <1>4, <1>6, <1>7, <2>1 DEF ProducerIInv, SentIsMade
<1>10. KeptIsStored' /\ AnsweredIsStored'
  BY <1>0, <1>6, KeptStays, AnswersStay
<1>11. GivenIsStored'
  BY <1>0, <1>7, <1>8, <1>12, GivenStays
<1> QED
  BY <1>8, <1>9, <1>10, <1>11 DEF ProducerIInv

(* A call returns. *)
LEMMA ReturnKeeps ==
  ASSUME ProducerIInv, NEW p \in Producers, Return(p)
  PROVE  ProducerIInv'
<1>0. Shapes /\ Remembers
  BY DEF ProducerIInv, Remembers, Return
<1>1. call[p].got \in SUBSET Pairs /\ call[p].got \subseteq Given
  BY <1>0, CallFields DEF Given
<1>2. /\ UNCHANGED <<made, copies, dedupe, wire, answers, parts>>
      /\ told' = told \cup call[p].got
      /\ call' = [call EXCEPT ![p] = NoCall]
  BY DEF Return
<1>3. NoCall \in [ids : SUBSET IDs, open : SUBSET Sent, got : SUBSET Pairs]
      /\ NoCall.open = {} /\ NoCall.got = {}
  BY DEF NoCall
<1>4. /\ call' \in [Producers -> [ids : SUBSET IDs, open : SUBSET Sent, got : SUBSET Pairs]]
      /\ \A r \in Producers : call'[r] = IF r = p THEN NoCall ELSE call[r]
  BY <1>0, <1>2, <1>3 DEF Shapes
<1>5. Awaited' \subseteq Awaited /\ Given' \subseteq Given
  BY <1>1, <1>2, <1>3, <1>4, SMT DEF Awaited, Given
<1>6. Shapes'
  BY <1>0, <1>1, <1>2, <1>4 DEF Shapes
<1>7. SentIsMade'
  BY <1>2, <1>5 DEF ProducerIInv, SentIsMade
<1>8. KeptIsStored' /\ AnsweredIsStored' /\ GivenIsStored'
  BY <1>0, <1>2, <1>5, <1>6, KeptStays, AnswersStay, GivenStays
<1> QED
  BY <1>6, <1>7, <1>8 DEF ProducerIInv

(* A producer learns of more partitions. *)
LEMMA GrowKeeps ==
  ASSUME ProducerIInv, NEW p \in Producers, Grow(p)
  PROVE  ProducerIInv'
<1>1. UNCHANGED <<made, copies, dedupe, wire, answers, call, told>>
  BY DEF Grow
<1>2. Awaited' = Awaited /\ Given' = Given
  BY <1>1 DEF Awaited, Given
<1>3. parts' \in [Producers -> {Before, After}]
  BY DEF ProducerIInv, Shapes, Grow
<1>4. Shapes'
  BY <1>1, <1>3 DEF ProducerIInv, Shapes
<1> QED
  BY <1>1, <1>2, <1>4
  DEF ProducerIInv, SentIsMade, KeptIsStored, AnsweredIsStored, GivenIsStored, StoredAs

(* A dedupe key expires. *)
LEMMA KeyExpiresKeeps ==
  ASSUME ProducerIInv, NEW q \in Partitions, NEW r \in Keyed, KeyExpires(q, r)
  PROVE  ProducerIInv'
<1>0. Shapes /\ Remembers
  BY DEF ProducerIInv, Remembers, KeyExpires
<1>1. UNCHANGED <<made, copies, wire, answers, call, told, parts>>
  BY DEF KeyExpires
<1>2. Awaited' = Awaited /\ Given' = Given
  BY <1>1 DEF Awaited, Given
<1>3. /\ dedupe' \in [Partitions -> [Keyed -> IDs \cup {NoID}]]
      /\ \A x \in Partitions, y \in Keyed : dedupe'[x][y] \in {dedupe[x][y], NoID}
  BY <1>0 DEF Shapes, KeyExpires
<1>4. Shapes'
  BY <1>0, <1>1, <1>3 DEF Shapes
<1>5. SentIsMade'
  BY <1>1, <1>2 DEF ProducerIInv, SentIsMade
<1>6. KeptIsStored' /\ AnsweredIsStored' /\ GivenIsStored'
  BY <1>0, <1>1, <1>2, <1>3, <1>4, KeptStays, AnswersStay, GivenStays
<1> QED
  BY <1>4, <1>5, <1>6 DEF ProducerIInv

(* Transactions as a call forms them. *)
LEMMA GroupsAreSent ==
  ASSUME Shapes, NEW p \in Producers, NEW ids \in SUBSET IDs, NEW req \in [ids -> Requests],
         NEW to \in Routes(p, req)
  PROVE  Groups(to) \subseteq Sent /\ \A tx \in Groups(to) : tx.ids \subseteq ids
<1>1. parts[p] \in Nat /\ parts[p] <= After /\ After \in Nat
  BY ProducerAssumption, SMT DEF Shapes
<1>2. 0 .. parts[p] - 1 \subseteq Partitions
  BY <1>1, SMT DEF Partitions
<1>3. to \in [ids -> Partitions]
  BY <1>2 DEF Routes
<1> SUFFICES ASSUME NEW tx \in Groups(to)
             PROVE  tx \in Sent /\ tx.ids \subseteq ids
  OBVIOUS
<1>4. PICK q \in Partitions : tx = [part |-> q, ids |-> {i \in ids : to[i] = q}, send |-> 0]
  BY <1>3 DEF Groups
<1> QED
  BY <1>4 DEF Sent

(* A call is made. *)
LEMMA CallKeeps ==
  ASSUME ProducerIInv, NEW p \in Producers, NEW ids \in SUBSET IDs, NEW req \in [ids -> Requests],
         NEW to \in Routes(p, req), Call(p, ids, req, to)
  PROVE  ProducerIInv'
<1> DEFINE open == Groups(to)
<1>0. Shapes
  BY DEF ProducerIInv
<1>1. /\ \A i \in ids : made[i] = NoRequest
      /\ made' = NewJobs(ids, req)
      /\ wire' = wire \cup open
      /\ call' = [call EXCEPT ![p] = [ids |-> ids, open |-> open, got |-> {}]]
      /\ UNCHANGED <<copies, dedupe, answers, told, parts>>
  BY DEF Call
<1>2. open \in SUBSET Sent /\ \A tx \in open : tx.ids \subseteq ids
  BY <1>0, GroupsAreSent
<1>3. /\ made' \in [IDs -> Requests \cup {NoRequest}]
      /\ \A i \in ids : made'[i] \in Requests
      /\ \A i \in IDs \ ids : made'[i] = made[i]
  BY <1>0, <1>1 DEF NewJobs, Shapes
<1> HIDE DEF open
<1>4. Remembers
  BY <1>1, <1>3, NamesAreNew DEF Remembers
<1>5. /\ call' \in [Producers -> [ids : SUBSET IDs, open : SUBSET Sent, got : SUBSET Pairs]]
      /\ Awaited' \subseteq Awaited \cup open /\ Given' \subseteq Given \cup {}
  <2>1. {} \in SUBSET Pairs
    OBVIOUS
  <2> QED
    BY <1>0, <1>1, <1>2, <2>1, CallChange
<1>6. Shapes'
  BY <1>0, <1>1, <1>2, <1>3, <1>5 DEF Shapes
<1>7. SentIsMade'
  <2>1. \A tx \in wire \cup Awaited : \A i \in tx.ids : i \in IDs /\ made[i] \in Requests
    <3>1. \A tx \in wire \cup Awaited : tx.ids \subseteq IDs
      BY <1>0, CallFields, SMT DEF Shapes, Sent, Awaited
    <3> QED
      BY <3>1 DEF ProducerIInv, SentIsMade
  <2>2. \A tx \in wire \cup Awaited : \A i \in tx.ids : made'[i] \in Requests
    BY <1>4, <2>1 DEF Remembers
  <2>3. \A tx \in open : \A i \in tx.ids : made'[i] \in Requests
    BY <1>2, <1>3
  <2> QED
    BY <1>1, <1>5, <2>2, <2>3 DEF SentIsMade
<1>8. KeptIsStored' /\ AnsweredIsStored' /\ GivenIsStored'
  BY <1>1, <1>4, <1>5, <1>6, KeptStays, AnswersStay, GivenStays
<1> QED
  BY <1>6, <1>7, <1>8 DEF ProducerIInv

(* Redis executes a transaction, for the first time or again. *)
LEMMA ExecuteKeeps ==
  ASSUME ProducerIInv, NEW tx \in wire, Execute(tx)
  PROVE  ProducerIInv'
<1> DEFINE new == {i \in tx.ids : Stores(tx.part, i)}
           held == [i \in tx.ids |-> IF i \in new THEN i ELSE Holder(tx.part, i)]
           kept == [r \in Keyed |-> IF \E i \in new : made[i] = r
                                    THEN CHOOSE i \in new : made[i] = r ELSE dedupe[tx.part][r]]
<1>0. Shapes /\ tx \in Sent /\ tx.ids \subseteq IDs /\ tx.part \in Partitions
  BY DEF ProducerIInv, Shapes, Sent
<1>1. \A i \in tx.ids : made[i] \in Requests
  BY DEF ProducerIInv, SentIsMade
<1>2. /\ UNCHANGED <<made, call, told, parts>> /\ wire' \subseteq wire
      /\ copies' = [i \in IDs |-> IF i \notin new THEN copies[i]
                                  ELSE IF made[i] \in Delayed THEN 1 ELSE copies[i] + 1]
      /\ dedupe' = [dedupe EXCEPT ![tx.part] = kept]
      /\ answers' \subseteq answers \cup {[tx |-> tx, ids |-> held]}
  BY <1>0 DEF Execute, Shapes
<1>3. new \subseteq IDs
  BY <1>0
<1>4. \A i \in tx.ids \ new : made[i] \in Keyed /\ Holder(tx.part, i) # NoID
  BY DEF Stores
<1>5. \A r \in Keyed : (\E i \in new : made[i] = r) => kept[r] \in new /\ made[kept[r]] = r
  OBVIOUS
<1>6. \A r \in Keyed : ~(\E i \in new : made[i] = r) => kept[r] = dedupe[tx.part][r]
  OBVIOUS
<1>7. kept \in [Keyed -> IDs \cup {NoID}]
  BY <1>0, <1>3, <1>5, <1>6, SMT DEF Shapes
<1>8. \A i \in tx.ids : held[i] = IF i \in new THEN i ELSE Holder(tx.part, i)
  OBVIOUS
<1> HIDE DEF new, held, kept
<1>9. copies' \in [IDs -> Nat] /\ \A i \in new : copies'[i] > 0
  BY <1>0, <1>2, <1>3, SMT DEF Shapes
<1>10. Remembers
  BY <1>0, <1>2, <1>3, <1>9 DEF Remembers, Shapes
<1>11. dedupe' \in [Partitions -> [Keyed -> IDs \cup {NoID}]]
  BY <1>0, <1>2, <1>7 DEF Shapes
<1>12. Awaited' = Awaited /\ Given' = Given
  BY <1>2 DEF Awaited, Given
<1>13. Shapes'
  <2>1. \A a \in answers' : a.tx \in Sent
    BY <1>0, <1>2, SMT DEF Shapes
  <2> QED
    BY <1>0, <1>2, <1>9, <1>11, <2>1 DEF Shapes
<1>14. SentIsMade'
  BY <1>2, <1>12 DEF ProducerIInv, SentIsMade
<1>15. KeptIsStored'
  <2> SUFFICES ASSUME NEW q \in Partitions, NEW r \in Keyed, dedupe'[q][r] # NoID
               PROVE  copies'[dedupe'[q][r]] > 0 /\ made'[dedupe'[q][r]] = r
    BY DEF KeptIsStored
  <2>1. CASE q = tx.part /\ \E i \in new : made[i] = r
    <3>1. dedupe'[q][r] = kept[r]
      BY <1>0, <1>2, <2>1 DEF Shapes
    <3> QED
      BY <1>2, <1>5, <1>9, <2>1, <3>1
  <2>2. CASE ~(q = tx.part /\ \E i \in new : made[i] = r)
    <3>1. dedupe'[q][r] = dedupe[q][r]
      BY <1>0, <1>2, <1>6, <2>2 DEF Shapes
    <3>2. dedupe[q][r] \in IDs
      BY <1>0, <3>1, SMT DEF Shapes
    <3>3. copies[dedupe[q][r]] > 0 /\ made[dedupe[q][r]] = r /\ r \in Requests
      BY <3>1, ProducerAssumption DEF ProducerIInv, KeptIsStored
    <3> QED
      BY <1>10, <3>1, <3>2, <3>3 DEF Remembers
  <2> QED
    BY <2>1, <2>2
<1>16. PICK h : h = held
  OBVIOUS
<1>17. \A i \in tx.ids : made'[i] \in Requests /\ StoredAs(i, h[i])'
  <2> SUFFICES ASSUME NEW i \in tx.ids
               PROVE  made[i] \in Requests /\ h[i] \in IDs /\ copies'[h[i]] > 0
                      /\ made[h[i]] = made[i]
    BY <1>2 DEF StoredAs
  <2>1. CASE i \in new
    BY <1>1, <1>3, <1>8, <1>9, <1>16, <2>1
  <2>2. CASE i \notin new
    <3>1. /\ h[i] = dedupe[tx.part][made[i]] /\ made[i] \in Keyed
          /\ dedupe[tx.part][made[i]] # NoID
      BY <1>4, <1>8, <1>16, <2>2 DEF Holder
    <3>2. dedupe[tx.part][made[i]] \in IDs
      BY <1>0, <3>1, SMT DEF Shapes
    <3>3. copies[h[i]] > 0 /\ made[h[i]] = made[i]
      BY <1>0, <3>1 DEF ProducerIInv, KeptIsStored
    <3> QED
      BY <1>1, <1>10, <3>1, <3>2, <3>3 DEF Remembers
  <2> QED
    BY <2>1, <2>2
<1>18. AnsweredIsStored'
  <2>1. \A a \in answers : \A i \in a.tx.ids : made'[i] \in Requests /\ StoredAs(i, a.ids[i])'
    <3> SUFFICES ASSUME NEW a \in answers, NEW i \in a.tx.ids
                 PROVE  made'[i] \in Requests /\ StoredAs(i, a.ids[i])'
      OBVIOUS
    <3>1. i \in IDs /\ made[i] \in Requests /\ StoredAs(i, a.ids[i])
      BY <1>0 DEF ProducerIInv, Shapes, Sent, AnsweredIsStored
    <3> QED
      BY <1>10, <3>1 DEF Remembers, StoredAs
  <2> SUFFICES ASSUME NEW a \in answers'
               PROVE  \A i \in a.tx.ids : made'[i] \in Requests /\ StoredAs(i, a.ids[i])'
    BY DEF AnsweredIsStored
  <2>2. CASE a = [tx |-> tx, ids |-> h]
    <3>1. a.tx = tx /\ a.ids = h
      BY <2>2
    <3> QED
      BY <1>17, <3>1
  <2> QED
    BY <1>2, <1>16, <2>1, <2>2
<1>19. GivenIsStored'
  BY <1>10, <1>12, <1>13, GivenStays
<1> QED
  BY <1>13, <1>14, <1>15, <1>18, <1>19 DEF ProducerIInv

-----------------------------------------------------------------------------
(* The first and every step *)

(* The invariant holds before anything is enqueued. *)
LEMMA ProducerInitInv ==
  ASSUME Init
  PROVE  ProducerIInv
<1>1. NoCall \in [ids : SUBSET IDs, open : SUBSET Sent, got : SUBSET Pairs]
      /\ NoCall.open = {} /\ NoCall.got = {}
  BY DEF NoCall
<1>2. Shapes
  BY <1>1 DEF Init, Shapes
<1>3. Awaited = {} /\ Given = {} /\ wire = {} /\ answers = {}
  BY <1>1 DEF Init, Awaited, Given
<1>4. SentIsMade /\ AnsweredIsStored /\ GivenIsStored
  BY <1>3 DEF SentIsMade, AnsweredIsStored, GivenIsStored
<1>5. KeptIsStored
  BY DEF Init, KeptIsStored
<1> QED
  BY <1>2, <1>4, <1>5 DEF ProducerIInv

(* The invariant is inductive. *)
LEMMA ProducerStepInv ==
  ASSUME ProducerIInv, [Next]_vars
  PROVE  ProducerIInv'
<1>1. ASSUME NEW p \in Producers, Produce(p)
      PROVE  ProducerIInv'
  <2>1. ASSUME NEW ids \in SUBSET {i \in IDs : made[i] = NoRequest}, NEW req \in [ids -> Requests],
               NEW to \in Routes(p, req), Call(p, ids, req, to)
        PROVE  ProducerIInv'
    <3>1. ids \in SUBSET IDs
      OBVIOUS
    <3> QED
      BY <2>1, <3>1, CallKeeps
  <2> QED
    BY <1>1, <2>1, AnsweredKeeps, FailsKeeps, ResendKeeps, ReturnKeeps, GrowKeeps DEF Produce
<1>2. CASE UNCHANGED vars
  <2>1. Awaited' = Awaited /\ Given' = Given
    BY <1>2 DEF Awaited, Given, vars
  <2> QED
    BY <1>2, <2>1 DEF ProducerIInv, Shapes, SentIsMade, KeptIsStored, AnsweredIsStored,
                      GivenIsStored, StoredAs, vars
<1> QED
  BY <1>1, <1>2, ExecuteKeeps, KeyExpiresKeeps DEF Next

-----------------------------------------------------------------------------
(* Counting *)

(* What Each is made of. *)
LEMMA EachMembers ==
  ASSUME NEW count, NEW ids, NEW x
  PROVE  x \in Each(count, ids) <=> \E i \in ids : \E n \in 1 .. count[i] : x = <<i, n>>
BY SMT DEF Each

(* There are finitely many of a finite number each. *)
LEMMA EachIsFinite ==
  ASSUME NEW count \in [IDs -> Nat], NEW ids \in SUBSET IDs
  PROVE  IsFiniteSet(Each(count, ids)) /\ Total(count, ids) \in Nat
<1> DEFINE one == [i \in ids |-> {i} \X (1 .. count[i])]
           all == {{i} \X (1 .. count[i]) : i \in ids}
<1>1. IsFiniteSet(ids)
  BY ProducerAssumption, FS_Subset
<1>2. one \in Surjection(ids, all)
  BY DEF Surjection
<1>3. ASSUME NEW i \in ids
      PROVE  IsFiniteSet({i} \X (1 .. count[i]))
  <2>1. PICK n \in Int : n = count[i]
    BY SMT
  <2>2. IsFiniteSet({i})
    BY FS_Singleton
  <2>3. 1 \in Int
    BY SMT
  <2>4. IsFiniteSet(1 .. n)
    BY <2>3, FS_Interval
  <2> QED
    BY <2>1, <2>2, <2>4, FS_Product
<1>4. \A T \in all : IsFiniteSet(T)
  BY <1>3
<1> HIDE DEF one, all
<1>5. IsFiniteSet(all)
  BY <1>1, <1>2, FS_Surjection
<1>6. IsFiniteSet(UNION all)
  BY <1>4, <1>5, FS_UNION
<1> QED
  BY <1>6, FS_CardinalityType DEF Each, Total, all

(* Nothing is counted that was not counted before. *)
LEMMA NoMore ==
  ASSUME NEW c \in [IDs -> Nat], NEW d \in [IDs -> Nat], NEW ids \in SUBSET IDs, NEW jds \in SUBSET IDs,
         \A i \in jds : d[i] = 0 \/ (i \in ids /\ d[i] <= c[i])
  PROVE  Total(d, jds) <= Total(c, ids)
<1>1. Each(d, jds) \subseteq Each(c, ids)
  <2> SUFFICES ASSUME NEW i \in jds, NEW n \in 1 .. d[i]
               PROVE  <<i, n>> \in Each(c, ids)
    BY EachMembers, SMT
  <2>1. i \in ids /\ n \in 1 .. c[i]
    BY SMT
  <2> QED
    BY <2>1, EachMembers
<1> QED
  BY <1>1, EachIsFinite, FS_Subset DEF Total

(* One job is counted once more than before. *)
LEMMA OneMore ==
  ASSUME NEW c \in [IDs -> Nat], NEW d \in [IDs -> Nat], NEW ids \in SUBSET IDs, NEW k \in ids,
         \A i \in ids : d[i] <= c[i] \/ (i = k /\ d[i] <= c[i] + 1)
  PROVE  Total(d, ids) <= Total(c, ids) + 1
<1> DEFINE more == <<k, c[k] + 1>>
<1>1. Each(d, ids) \subseteq Each(c, ids) \cup {more}
  <2> SUFFICES ASSUME NEW i \in ids, NEW n \in 1 .. d[i], <<i, n>> # more
               PROVE  <<i, n>> \in Each(c, ids)
    BY EachMembers, SMT
  <2>1. n \in 1 .. c[i]
    BY SMT
  <2> QED
    BY <2>1, EachMembers
<1> HIDE DEF more
<1>2. IsFiniteSet(Each(c, ids) \cup {more}) /\ Cardinality(Each(c, ids) \cup {more}) <= Total(c, ids) + 1
  BY EachIsFinite, FS_AddElement, SMT DEF Total
<1>3. Cardinality(Each(d, ids)) <= Cardinality(Each(c, ids) \cup {more})
  BY <1>1, <1>2, FS_Subset
<1>4. IsFiniteSet(Each(d, ids)) /\ Total(d, ids) \in Nat /\ Total(c, ids) \in Nat
  BY EachIsFinite
<1>5. Cardinality(Each(c, ids) \cup {more}) \in Nat
  BY <1>2, FS_CardinalityType
<1> QED
  BY <1>2, <1>3, <1>4, <1>5, SMT DEF Total

-----------------------------------------------------------------------------
(* What the steps of a call do to it *)

(* The goroutine of a transaction writes its pairs and is done. *)
LEMMA FinishFields ==
  ASSUME Shapes, NEW p \in Producers, NEW tx, NEW pairs, Finish(p, tx, pairs)
  PROVE  \A r \in Producers :
           /\ call'[r].ids = call[r].ids
           /\ call'[r].open = IF r = p THEN call[r].open \ {tx} ELSE call[r].open
           /\ call'[r].got = IF r = p THEN call[r].got \cup pairs ELSE call[r].got
<1> DEFINE ids == call[p].ids
           open == call[p].open \ {tx}
           got == call[p].got \cup pairs
<1>1. call' = [call EXCEPT ![p] = [ids |-> ids, open |-> open, got |-> got]]
  BY DEF Finish, Shapes
<1> HIDE DEF ids, open, got
<1>2. \A r \in Producers :
        /\ call'[r].ids = IF r = p THEN ids ELSE call[r].ids
        /\ call'[r].open = IF r = p THEN open ELSE call[r].open
        /\ call'[r].got = IF r = p THEN got ELSE call[r].got
  BY <1>1 DEF Shapes
<1> QED
  BY <1>2 DEF ids, open, got

(* A transaction is replaced by its repetition. *)
LEMMA ResendFields ==
  ASSUME Shapes, NEW p \in Producers, NEW tx, Resend(p, tx)
  PROVE  \E again \in Sent :
           /\ again.ids = tx.ids /\ again.part = tx.part /\ again.send = tx.send + 1
           /\ wire' = wire \cup {again}
           /\ \A r \in Producers :
                /\ call'[r].ids = call[r].ids /\ call'[r].got = call[r].got
                /\ call'[r].open = IF r = p THEN (call[r].open \ {tx}) \cup {again} ELSE call[r].open
<1> DEFINE again == [tx EXCEPT !.send = @ + 1]
           open == (call[p].open \ {tx}) \cup {again}
<1>1. tx \in Sent
  BY CallFields DEF Resend
<1>2. again \in Sent /\ again.ids = tx.ids /\ again.part = tx.part /\ again.send = tx.send + 1
  BY <1>1, SMT DEF Sent
<1>3. call' = [call EXCEPT ![p].open = open] /\ wire' = wire \cup {again}
  BY DEF Resend, Shapes
<1> HIDE DEF again
<1>4. \A r \in Producers :
        /\ call'[r].ids = call[r].ids /\ call'[r].got = call[r].got
        /\ call'[r].open = IF r = p THEN open ELSE call[r].open
  <2> HIDE DEF open
  <2> QED
    BY <1>3 DEF Shapes
<1> QED
  BY <1>2, <1>3, <1>4

(* A call that returns is over. *)
LEMMA ReturnFields ==
  ASSUME Shapes, NEW p \in Producers, Return(p)
  PROVE  \A r \in Producers :
           /\ call'[r].ids = IF r = p THEN {} ELSE call[r].ids
           /\ call'[r].open = IF r = p THEN {} ELSE call[r].open
           /\ call'[r].got = IF r = p THEN {} ELSE call[r].got
BY DEF Return, NoCall, Shapes

(* Everything that is sent, or awaited, has the jobs and the partition of
   something that was before. *)
SameSends ==
  \A x \in wire' \cup Awaited' : \E y \in wire \cup Awaited : y.ids = x.ids /\ y.part = x.part

(* All steps of a producer but the call itself leave the store alone and send
   nothing new. *)
LaterStep(p) ==
  \/ \E a \in answers : Answered(p, a)
  \/ \E tx \in call[p].open : Fails(p, tx) \/ Resend(p, tx)
  \/ Return(p)
  \/ Grow(p)

(* So what is sent, stored and kept under keys is as it was, and no partition is
   forgotten. *)
LEMMA LaterSteps ==
  ASSUME Shapes, NEW p \in Producers, LaterStep(p)
  PROVE  /\ SameSends /\ UNCHANGED <<made, copies, dedupe, expiries>>
         /\ \A r \in Keyed : Homes(r) \subseteq Homes(r)'
<1>1. ASSUME NEW a \in answers, Answered(p, a)
      PROVE  SameSends /\ UNCHANGED <<made, copies, dedupe, expiries, parts>>
  <2>1. wire' = wire /\ UNCHANGED <<made, copies, dedupe, expiries, parts>>
    BY <1>1 DEF Answered
  <2>2. Awaited' \subseteq Awaited
    <3>1. PICK tx, pairs : Finish(p, tx, pairs)
      BY <1>1 DEF Answered
    <3>2. \A r \in Producers : call'[r].open \subseteq call[r].open
      BY <3>1, FinishFields
    <3> QED
      BY <3>2 DEF Awaited
  <2> QED
    BY <2>1, <2>2 DEF SameSends
<1>2. ASSUME NEW tx \in call[p].open, Fails(p, tx)
      PROVE  SameSends /\ UNCHANGED <<made, copies, dedupe, expiries, parts>>
  <2>1. wire' = wire /\ UNCHANGED <<made, copies, dedupe, expiries, parts>>
    BY <1>2 DEF Fails
  <2>2. Awaited' \subseteq Awaited
    <3>1. PICK pairs : Finish(p, tx, pairs)
      BY <1>2 DEF Fails
    <3>2. \A r \in Producers : call'[r].open \subseteq call[r].open
      BY <3>1, FinishFields
    <3> QED
      BY <3>2 DEF Awaited
  <2> QED
    BY <2>1, <2>2 DEF SameSends
<1>3. ASSUME NEW tx \in call[p].open, Resend(p, tx)
      PROVE  SameSends /\ UNCHANGED <<made, copies, dedupe, expiries, parts>>
  <2>1. UNCHANGED <<made, copies, dedupe, expiries, parts>>
    BY <1>3 DEF Resend
  <2>2. PICK again \in Sent :
          /\ again.ids = tx.ids /\ again.part = tx.part
          /\ wire' = wire \cup {again}
          /\ \A r \in Producers :
               call'[r].open = IF r = p THEN (call[r].open \ {tx}) \cup {again} ELSE call[r].open
    BY <1>3, ResendFields, ZenonT(60)
  <2>3. Awaited' \subseteq Awaited \cup {again} /\ tx \in Awaited
    BY <2>2 DEF Awaited
  <2> QED
    BY <2>1, <2>2, <2>3 DEF SameSends
<1>4. ASSUME Return(p)
      PROVE  SameSends /\ UNCHANGED <<made, copies, dedupe, expiries, parts>>
  <2>1. wire' = wire /\ UNCHANGED <<made, copies, dedupe, expiries, parts>>
    BY <1>4 DEF Return
  <2>2. Awaited' \subseteq Awaited
    BY <1>4, ReturnFields DEF Awaited
  <2> QED
    BY <2>1, <2>2 DEF SameSends
<1>5. CASE Grow(p)
  <2>1. UNCHANGED <<made, copies, dedupe, expiries, wire, call>>
    BY <1>5 DEF Grow
  <2>2. \A r \in Producers : parts'[r] = parts[r] \/ (r = p /\ parts[r] = Before)
    BY <1>5, ProducerAssumption DEF Grow, Shapes
  <2>3. \A r \in Keyed : Homes(r) \subseteq Homes(r)'
    BY <2>2 DEF Homes
  <2> QED
    BY <2>1, <2>3 DEF SameSends, Awaited
<1>6. CASE UNCHANGED parts
  <2>1. \A r \in Keyed : Homes(r) \subseteq Homes(r)'
    BY <1>6 DEF Homes
  <2> QED
    BY <1>1, <1>2, <1>3, <1>4, <1>5, <2>1 DEF LaterStep
<1> QED
  BY <1>1, <1>2, <1>3, <1>4, <1>5, <1>6 DEF LaterStep

-----------------------------------------------------------------------------
(* Requests with a key *)

(* As long as nothing new is sent, and the store does not change, all is as it
   was. *)
LEMMA KeySendsStay ==
  ASSUME Shapes, KeyIInv, SameSends, UNCHANGED made,
         \A r \in Keyed : Homes(r) \subseteq Homes(r)'
  PROVE  RequestsDiffer' /\ SentHome'
BY DEF KeyIInv, SameSends, RequestsDiffer, SentHome

(* Then keys are as they were, too. *)
LEMMA LaterStepKeepsKeys ==
  ASSUME Shapes, KeyIInv, NEW p \in Producers, LaterStep(p)
  PROVE  KeyIInv'
<1>1. /\ SameSends /\ UNCHANGED <<made, copies, dedupe, expiries>>
      /\ \A r \in Keyed : Homes(r) \subseteq Homes(r)'
  BY LaterSteps
<1>2. \A r \in Keyed : Holders(r)' = Holders(r) /\ IDsOf(r)' = IDsOf(r)
  BY <1>1 DEF Holders, IDsOf
<1>3. KeptHome' /\ StoredIsMade' /\ CopiesHaveHolders'
  BY <1>1, <1>2 DEF KeyIInv, KeptHome, StoredIsMade, CopiesHaveHolders
<1> QED
  BY <1>1, <1>3, KeySendsStay DEF KeyIInv

(* The partitions are finitely many. *)
LEMMA HoldersAreFinite ==
  ASSUME NEW r
  PROVE  IsFiniteSet(Holders(r)) /\ Cardinality(Holders(r)) \in Nat
<1>1. IsFiniteSet(Partitions)
  <2>1. 0 \in Int /\ After - 1 \in Int
    BY ProducerAssumption, SMT
  <2> QED
    BY <2>1, FS_Interval DEF Partitions
<1> QED
  BY <1>1, FS_Subset, FS_CardinalityType DEF Holders

(* A key that expires makes room for a copy. *)
LEMMA KeyExpiresKeepsKeys ==
  ASSUME Shapes, CallIInv, KeyIInv, NEW q \in Partitions, NEW r \in Keyed, KeyExpires(q, r)
  PROVE  KeyIInv'
<1>1. UNCHANGED <<made, copies, wire, call, parts>> /\ expiries' = expiries + 1
  BY DEF KeyExpires
<1>2. SameSends /\ \A k \in Keyed : Homes(k)' = Homes(k) /\ IDsOf(k)' = IDsOf(k)
  BY <1>1 DEF SameSends, Awaited, Homes, IDsOf
<1>3. \A k \in Keyed : Holders(k)' = IF k = r THEN Holders(k) \ {q} ELSE Holders(k)
  BY DEF KeyExpires, Holders, Shapes
<1>4. KeptHome' /\ StoredIsMade'
  BY <1>1, <1>2, <1>3 DEF KeyIInv, KeptHome, StoredIsMade
<1>5. CopiesHaveHolders'
  <2> SUFFICES ASSUME NEW k \in Keyed
               PROVE  Total(copies, IDsOf(k)) <= expiries + 1 + Cardinality(Holders(k)')
    BY <1>1, <1>2 DEF CopiesHaveHolders
  <2>1. Total(copies, IDsOf(k)) <= expiries + Cardinality(Holders(k)) /\ Total(copies, IDsOf(k)) \in Nat
    BY EachIsFinite DEF KeyIInv, CopiesHaveHolders, Shapes, IDsOf
  <2>2. IsFiniteSet(Holders(k)) /\ Cardinality(Holders(k)) \in Nat
    BY HoldersAreFinite
  <2>3. Cardinality(Holders(k)') >= Cardinality(Holders(k)) - 1 /\ Cardinality(Holders(k)') \in Int
    BY <1>3, <2>2, FS_RemoveElement, SMT
  <2>4. expiries \in Nat
    BY SMT DEF CallIInv
  <2> QED
    BY <2>1, <2>2, <2>3, <2>4, SMT
<1> QED
  BY <1>1, <1>2, <1>4, <1>5, KeySendsStay DEF KeyIInv

(* What a transaction stores. *)
New(tx) == {i \in tx.ids : Stores(tx.part, i)}

(* What a transaction that is executed stores, and the keys it takes. *)
LEMMA ExecuteStores ==
  ASSUME Shapes, NEW tx \in wire, Execute(tx)
  PROVE  /\ New(tx) \subseteq tx.ids /\ tx.ids \subseteq IDs /\ tx.part \in Partitions
         /\ \A i \in IDs : copies'[i] = IF i \notin New(tx) THEN copies[i]
                                        ELSE IF made[i] \in Delayed THEN 1 ELSE copies[i] + 1
         /\ \A q \in Partitions, r \in Keyed :
              \/ dedupe'[q][r] = dedupe[q][r] /\ (q = tx.part => \A i \in New(tx) : made[i] # r)
              \/ q = tx.part /\ dedupe'[q][r] \in New(tx) /\ made[dedupe'[q][r]] = r
<1> DEFINE new == New(tx)
           kept == [r \in Keyed |-> IF \E i \in new : made[i] = r
                                    THEN CHOOSE i \in new : made[i] = r ELSE dedupe[tx.part][r]]
<1>1. new \subseteq tx.ids /\ tx.ids \subseteq IDs /\ tx.part \in Partitions
  BY DEF Shapes, Sent, New
<1>2. /\ copies' = [i \in IDs |-> IF i \notin new THEN copies[i]
                                  ELSE IF made[i] \in Delayed THEN 1 ELSE copies[i] + 1]
      /\ dedupe' = [dedupe EXCEPT ![tx.part] = kept]
  BY <1>1 DEF Execute, Shapes, New
<1>3. \A r \in Keyed : (\E i \in new : made[i] = r) => kept[r] \in new /\ made[kept[r]] = r
  OBVIOUS
<1>4. \A r \in Keyed : ~(\E i \in new : made[i] = r) => kept[r] = dedupe[tx.part][r]
  OBVIOUS
<1> HIDE DEF new, kept
<1>5. \A q \in Partitions : dedupe'[q] = IF q = tx.part THEN kept ELSE dedupe[q]
  BY <1>1, <1>2 DEF Shapes
<1>6. \A q \in Partitions, r \in Keyed :
        \/ dedupe'[q][r] = dedupe[q][r] /\ (q = tx.part => \A i \in new : made[i] # r)
        \/ q = tx.part /\ dedupe'[q][r] \in new /\ made[dedupe'[q][r]] = r
  BY <1>3, <1>4, <1>5
<1> QED
  BY <1>1, <1>2, <1>6 DEF new

(* Redis stores a job under a key only where the key is not held, and then it
   is. *)
LEMMA ExecuteKeepsKeys ==
  ASSUME ProducerIInv, ProducerIInv', CallIInv, KeyIInv, NEW tx \in wire, Execute(tx)
  PROVE  KeyIInv'
<1>0. Shapes /\ Shapes'
  BY DEF ProducerIInv
<1>1. UNCHANGED <<made, call, parts, expiries>> /\ wire' \subseteq wire
  BY DEF Execute
<1>2. SameSends /\ \A k \in Keyed : Homes(k)' = Homes(k) /\ IDsOf(k)' = IDsOf(k)
  BY <1>1 DEF SameSends, Awaited, Homes, IDsOf
<1>3. /\ New(tx) \subseteq tx.ids /\ tx.ids \subseteq IDs /\ tx.part \in Partitions
      /\ \A i \in IDs : copies'[i] = IF i \notin New(tx) THEN copies[i]
                                     ELSE IF made[i] \in Delayed THEN 1 ELSE copies[i] + 1
      /\ \A q \in Partitions, r \in Keyed :
           \/ dedupe'[q][r] = dedupe[q][r] /\ (q = tx.part => \A i \in New(tx) : made[i] # r)
           \/ q = tx.part /\ dedupe'[q][r] \in New(tx) /\ made[dedupe'[q][r]] = r
  BY <1>0, ExecuteStores
<1>4. StoredIsMade'
  BY <1>1, <1>3 DEF ProducerIInv, SentIsMade, KeyIInv, StoredIsMade
<1>5. KeptHome'
  BY <1>2, <1>3, SMT DEF KeyIInv, KeptHome, SentHome, Holders
<1>6. CopiesHaveHolders'
  <2> SUFFICES ASSUME NEW r \in Keyed
               PROVE  Total(copies', IDsOf(r)) <= expiries + Cardinality(Holders(r)')
    BY <1>1, <1>2 DEF CopiesHaveHolders
  <2>0. /\ copies \in [IDs -> Nat] /\ copies' \in [IDs -> Nat] /\ IDsOf(r) \in SUBSET IDs
        /\ expiries \in Nat
    BY <1>0, SMT DEF Shapes, IDsOf, CallIInv
  <2>1. Total(copies, IDsOf(r)) <= expiries + Cardinality(Holders(r)) /\ Total(copies, IDsOf(r)) \in Nat
    BY <2>0, EachIsFinite DEF KeyIInv, CopiesHaveHolders
  <2>2. IsFiniteSet(Holders(r)) /\ Cardinality(Holders(r)) \in Nat
    BY HoldersAreFinite
  <2>3. CASE \A i \in New(tx) : made[i] # r
    <3>1. Holders(r)' = Holders(r)
      BY <1>3, <2>3, SMT DEF Holders
    <3>2. Total(copies', IDsOf(r)) <= Total(copies, IDsOf(r)) /\ Total(copies', IDsOf(r)) \in Nat
      <4>1. \A i \in IDsOf(r) : copies'[i] <= copies[i]
        BY <1>3, <2>0, <2>3, SMT DEF IDsOf
      <4> QED
        BY <2>0, <4>1, NoMore, EachIsFinite
    <3> QED
      BY <2>0, <2>1, <2>2, <3>1, <3>2, SMT
  <2>4. ASSUME NEW i \in New(tx), made[i] = r
        PROVE  Total(copies', IDsOf(r)) <= expiries + Cardinality(Holders(r)')
    <3>1. dedupe[tx.part][r] = NoID
      BY <2>4 DEF New, Stores, Holder
    <3>2. dedupe'[tx.part][r] # NoID
      BY <1>3, <2>4, NamesAreNew, SMT
    <3>3. Holders(r)' = Holders(r) \cup {tx.part} /\ tx.part \notin Holders(r)
      BY <1>3, <3>1, <3>2, SMT DEF Holders
    <3>4. Cardinality(Holders(r)') = Cardinality(Holders(r)) + 1
      BY <2>2, <3>3, FS_AddElement
    <3>5. \A k \in IDsOf(r) : copies'[k] <= copies[k] \/ (k = i /\ copies'[k] <= copies[k] + 1)
      <4>1. \A k \in IDsOf(r) : k \in New(tx) => k = i
        BY <1>3, <2>4 DEF KeyIInv, RequestsDiffer, IDsOf
      <4> QED
        BY <1>3, <2>0, <4>1, SMT
    <3>6. i \in IDsOf(r)
      BY <1>3, <2>4 DEF IDsOf
    <3>7. Total(copies', IDsOf(r)) <= Total(copies, IDsOf(r)) + 1 /\ Total(copies', IDsOf(r)) \in Nat
      BY <2>0, <3>5, <3>6, OneMore, EachIsFinite
    <3> QED
      BY <2>0, <2>1, <2>2, <3>4, <3>7, SMT
  <2> QED
    BY <2>3, <2>4
<1> QED
  BY <1>0, <1>1, <1>2, <1>4, <1>5, <1>6, KeySendsStay DEF KeyIInv

(* The transactions of a call: each has some of its jobs, in the partition they
   are routed to, and no two have the same. *)
GroupsFit(ids, to) ==
  /\ \A tx \in Groups(to) : /\ tx \in Sent /\ tx.ids # {} /\ tx.ids \subseteq ids /\ tx.send = 0
                            /\ \A i \in tx.ids : to[i] = tx.part
  /\ \A tx, ty \in Groups(to) : tx # ty => tx.ids \cap ty.ids = {}

(* Groups has every job of the call in one transaction, for the partition of the
   job. *)
LEMMA GroupsFacts ==
  ASSUME Shapes, NEW p \in Producers, NEW ids \in SUBSET IDs, NEW req \in [ids -> Requests],
         NEW to \in Routes(p, req)
  PROVE  GroupsFit(ids, to)
<1>1. \A tx \in Groups(to) : tx \in Sent
  BY GroupsAreSent
<1>2. DOMAIN to = ids
  BY DEF Routes
<1>3. ASSUME NEW tx \in Groups(to)
      PROVE  \E q \in {to[i] : i \in ids} : tx = [part |-> q, ids |-> {i \in ids : to[i] = q}, send |-> 0]
  BY <1>2 DEF Groups
<1>4. \A tx \in Groups(to) :
        /\ tx.ids = {i \in ids : to[i] = tx.part} /\ tx.send = 0
        /\ tx.part \in {to[i] : i \in ids}
        /\ tx = [part |-> tx.part, ids |-> {i \in ids : to[i] = tx.part}, send |-> 0]
  BY <1>3, SMT
<1>5. ASSUME NEW tx \in Groups(to), NEW ty \in Groups(to), tx # ty
      PROVE  tx.ids \cap ty.ids = {}
  <2>1. PICK q : tx = [part |-> q, ids |-> {i \in ids : to[i] = q}, send |-> 0]
    BY <1>3
  <2>2. PICK k : ty = [part |-> k, ids |-> {i \in ids : to[i] = k}, send |-> 0]
    BY <1>3
  <2>3. q # k
    BY <1>5, <2>1, <2>2
  <2> QED
    BY <2>1, <2>2, <2>3
<1>6. \A tx \in Groups(to) : tx.ids # {} /\ tx.ids \subseteq ids /\ \A i \in tx.ids : to[i] = tx.part
  BY <1>4
<1> QED
  BY <1>1, <1>4, <1>5, <1>6 DEF GroupsFit

(* What a call does, and what was there before stays as it was. *)
CallMakes(p, ids, req, to) ==
  /\ \A i \in ids : made[i] = NoRequest /\ made'[i] = req[i]
  /\ \A i \in IDs \ ids : made'[i] = made[i]
  /\ \A tx \in wire \cup Awaited : \A i \in tx.ids : i \in IDs \ ids
  /\ \A t \in Given : t[1] \in IDs \ ids
  /\ \A r \in Producers :
       /\ call'[r].ids = IF r = p THEN ids ELSE call[r].ids
       /\ call'[r].open = IF r = p THEN Groups(to) ELSE call[r].open
       /\ call'[r].got = IF r = p THEN {} ELSE call[r].got
  /\ call[p].ids = {} /\ call[p].open = {} /\ call[p].got = {}
  /\ wire' = wire \cup Groups(to) /\ Awaited' = Awaited \cup Groups(to) /\ Given' = Given

(* What a call makes, sends and awaits. *)
LEMMA CallFacts ==
  ASSUME ProducerIInv, NEW p \in Producers, NEW ids \in SUBSET IDs, NEW req \in [ids -> Requests],
         NEW to \in Routes(p, req), Call(p, ids, req, to)
  PROVE  CallMakes(p, ids, req, to)
<1> DEFINE open == Groups(to)
<1>0. Shapes
  BY DEF ProducerIInv
<1>1. /\ \A i \in ids : made[i] = NoRequest
      /\ made' = NewJobs(ids, req) /\ wire' = wire \cup open /\ told' = told
      /\ call' = [call EXCEPT ![p] = [ids |-> ids, open |-> open, got |-> {}]]
      /\ call[p] = NoCall
  BY DEF Call
<1> HIDE DEF open
<1>2. \A r \in Producers :
        /\ call'[r].ids = IF r = p THEN ids ELSE call[r].ids
        /\ call'[r].open = IF r = p THEN open ELSE call[r].open
        /\ call'[r].got = IF r = p THEN {} ELSE call[r].got
  BY <1>0, <1>1 DEF Shapes
<1>3. call[p].ids = {} /\ call[p].open = {} /\ call[p].got = {}
  BY <1>1, SMT DEF NoCall
<1>4. Awaited' = Awaited \cup open /\ Given' = Given
  BY <1>1, <1>2, <1>3, SMT DEF Awaited, Given
<1>5. /\ \A i \in ids : made[i] = NoRequest /\ made'[i] = req[i]
      /\ \A i \in IDs \ ids : made'[i] = made[i]
  BY <1>1 DEF NewJobs
<1>6. \A tx \in wire \cup Awaited : \A i \in tx.ids : i \in IDs \ ids
  <2>1. \A tx \in wire \cup Awaited : tx.ids \subseteq IDs
    BY <1>0, CallFields, SMT DEF Shapes, Sent, Awaited
  <2> QED
    BY <1>5, <2>1, NamesAreNew, SMT DEF ProducerIInv, SentIsMade
<1>7. \A t \in Given : t[1] \in IDs \ ids
  <2>1. \A t \in Given : t[1] \in IDs
    BY <1>0, GivenArePairs DEF Pairs
  <2> QED
    BY <1>5, <2>1, NamesAreNew DEF ProducerIInv, GivenIsStored
<1> QED
  BY <1>1, <1>2, <1>3, <1>4, <1>5, <1>6, <1>7 DEF open, CallMakes

(* A call sends a key to its partition, and asks for it once. *)
LEMMA CallKeepsKeys ==
  ASSUME ProducerIInv, CallIInv, KeyIInv, NEW p \in Producers, NEW ids \in SUBSET IDs,
         NEW req \in [ids -> Requests], NEW to \in Routes(p, req), Call(p, ids, req, to)
  PROVE  KeyIInv'
<1>0. Shapes /\ CallMakes(p, ids, req, to)
  BY CallFacts DEF ProducerIInv
<1>1. /\ \A i \in ids : made[i] = NoRequest /\ made'[i] = req[i]
      /\ \A i \in IDs \ ids : made'[i] = made[i]
      /\ \A tx \in wire \cup Awaited : \A i \in tx.ids : i \in IDs \ ids
      /\ wire' = wire \cup Groups(to) /\ Awaited' = Awaited \cup Groups(to)
  BY <1>0 DEF CallMakes
<1>2. /\ \A tx \in Groups(to) : tx.ids \subseteq ids /\ \A i \in tx.ids : to[i] = tx.part
      /\ \A i \in ids : req[i] \in Keyed => to[i] = Hash[req[i]] % parts[p]
  <2>1. GroupsFit(ids, to)
    BY <1>0, GroupsFacts
  <2> QED
    BY <2>1 DEF GroupsFit, Routes
<1>3. /\ UNCHANGED <<copies, dedupe, parts, expiries>>
      /\ \A i, j \in ids : req[i] = req[j] => i = j
  BY DEF Call
<1>4. \A r \in Keyed : Homes(r)' = Homes(r) /\ Holders(r)' = Holders(r)
  BY <1>3 DEF Homes, Holders
<1>5. RequestsDiffer'
  <2> SUFFICES ASSUME NEW tx \in wire' \cup Awaited', NEW i \in tx.ids, NEW j \in tx.ids, made'[i] = made'[j]
               PROVE  i = j
    BY DEF RequestsDiffer
  <2>1. CASE tx \in Groups(to)
    BY <1>1, <1>2, <1>3, <2>1
  <2>2. CASE tx \in wire \cup Awaited
    BY <1>1, <2>2 DEF KeyIInv, RequestsDiffer
  <2> QED
    BY <1>1, <2>1, <2>2
<1>6. SentHome'
  <2> SUFFICES ASSUME NEW tx \in wire' \cup Awaited', NEW i \in tx.ids, made'[i] \in Keyed
               PROVE  tx.part \in Homes(made'[i])
    BY <1>4 DEF SentHome
  <2>1. CASE tx \in Groups(to)
    BY <1>1, <1>2, <2>1, SMT DEF Homes
  <2>2. CASE tx \in wire \cup Awaited
    BY <1>1, <2>2 DEF KeyIInv, SentHome
  <2> QED
    BY <1>1, <2>1, <2>2
<1>7. KeptHome' /\ StoredIsMade'
  BY <1>1, <1>3, <1>4, SMT DEF KeyIInv, KeptHome, StoredIsMade
<1>8. CopiesHaveHolders'
  <2> SUFFICES ASSUME NEW r \in Keyed
               PROVE  Total(copies, IDsOf(r)') <= expiries + Cardinality(Holders(r))
    BY <1>3, <1>4 DEF CopiesHaveHolders
  <2>1. copies \in [IDs -> Nat] /\ IDsOf(r) \in SUBSET IDs /\ IDsOf(r)' \in SUBSET IDs
    BY <1>0 DEF Shapes, IDsOf
  <2>2. \A i \in IDsOf(r)' : copies[i] = 0 \/ i \in IDsOf(r)
    BY <1>1, <2>1, NamesAreNew, SMT DEF KeyIInv, StoredIsMade, IDsOf
  <2>3. \A i \in IDsOf(r)' : copies[i] = 0 \/ (i \in IDsOf(r) /\ copies[i] <= copies[i])
    BY <2>1, <2>2, SMT
  <2>4. Total(copies, IDsOf(r)') <= Total(copies, IDsOf(r))
    BY <2>1, <2>3, NoMore
  <2>5. Total(copies, IDsOf(r)') \in Nat /\ Total(copies, IDsOf(r)) \in Nat
    BY <2>1, EachIsFinite
  <2>6. Total(copies, IDsOf(r)) <= expiries + Cardinality(Holders(r))
    BY DEF KeyIInv, CopiesHaveHolders
  <2>7. Cardinality(Holders(r)) \in Nat /\ expiries \in Nat
    BY HoldersAreFinite, SMT DEF CallIInv
  <2> QED
    BY <2>4, <2>5, <2>6, <2>7, SMT
<1> QED
  BY <1>5, <1>6, <1>7, <1>8 DEF KeyIInv

-----------------------------------------------------------------------------
(* Requests without a key *)

(* A job's transactions on their way are finitely many. *)
LEMMA OnTheWayIsFinite ==
  ASSUME LossIInv, NEW i
  PROVE  IsFiniteSet(OnTheWay(i)) /\ Cardinality(OnTheWay(i)) \in Nat
BY FS_Subset, FS_CardinalityType DEF LossIInv, OnTheWay

(* As long as nothing is sent, stored or lost, and nobody is told of a failure
   that was not known, all is as it was. *)
LEMMA LossStays ==
  ASSUME Shapes, LossIInv, UNCHANGED <<made, copies, wire, lost>>, told \subseteq told',
         \A i \in IDs : <<i, NoID>> \in Given' => <<i, NoID>> \in Given
  PROVE  LossIInv'
<1>1. \A i \in IDs : OnTheWay(i)' = OnTheWay(i)
  BY DEF OnTheWay
<1>2. CopiesAreLost'
  <2> SUFFICES ASSUME NEW i \in IDs
               PROVE  copies[i] + Cardinality(OnTheWay(i)) <= lost[i] + IF <<i, NoID>> \in Given' THEN 0 ELSE 1
    BY <1>1 DEF CopiesAreLost
  <2>1. copies[i] + Cardinality(OnTheWay(i)) <= lost[i] + IF <<i, NoID>> \in Given THEN 0 ELSE 1
    BY DEF LossIInv, CopiesAreLost
  <2>2. copies[i] \in Nat /\ Cardinality(OnTheWay(i)) \in Nat /\ lost[i] \in Nat
    BY OnTheWayIsFinite DEF Shapes, LossIInv
  <2> QED
    BY <2>1, <2>2, SMT
<1>3. AskedAgain'
  BY DEF LossIInv, AskedAgain
<1> QED
  BY <1>2, <1>3 DEF LossIInv

(* An answer has IDs for all of its jobs: nobody is told of a failure. *)
LEMMA AnsweredKeepsLoss ==
  ASSUME ProducerIInv, LossIInv, NEW p \in Producers, NEW a \in answers, Answered(p, a)
  PROVE  LossIInv'
<1>1. UNCHANGED <<made, copies, wire, lost, told>>
  BY DEF Answered
<1>2. PICK pairs : Finish(p, a.tx, pairs) /\ pairs = {<<i, a.ids[i]>> : i \in a.tx.ids}
  BY DEF Answered
<1>3. \A t \in pairs : t[2] # NoID
  BY <1>2, NamesAreNew, SMT DEF ProducerIInv, AnsweredIsStored, StoredAs
<1>4. Shapes /\ \E tx : Finish(p, tx, pairs)
  BY <1>2 DEF ProducerIInv
<1>5. \A r \in Producers : call'[r].got = IF r = p THEN call[r].got \cup pairs ELSE call[r].got
  BY <1>4, FinishFields, ZenonT(60)
<1>6. \A i \in IDs : <<i, NoID>> \in Given' => <<i, NoID>> \in Given
  <2>1. \A r \in Producers : \A t \in call'[r].got : t \in call[r].got \/ t \in pairs
    BY <1>5
  <2>2. told' = told
    BY <1>1
  <2>3. \A t \in Given' : t \in Given \/ t \in pairs
    BY <2>1, <2>2 DEF Given
  <2> QED
    BY <1>3, <2>3
<1> QED
  BY <1>1, <1>4, <1>6, LossStays

(* The caller is told what the call was given. *)
LEMMA ReturnKeepsLoss ==
  ASSUME Shapes, LossIInv, NEW p \in Producers, Return(p)
  PROVE  LossIInv'
<1>1. UNCHANGED <<made, copies, wire, lost>> /\ told' = told \cup call[p].got
  BY DEF Return
<1>2. \A r \in Producers : call'[r].got \subseteq call[r].got
  BY ReturnFields
<1>3. Given' \subseteq Given
  BY <1>1, <1>2 DEF Given
<1> QED
  BY <1>1, <1>3, LossStays

(* Of a transaction that failed or is sent again, something was lost. *)
LEMMA LosesFacts ==
  ASSUME LossIInv, NEW tx, Loses(tx)
  PROVE  /\ lost' \in [IDs -> Nat]
         /\ \A i \in IDs : lost'[i] = lost[i] + IF i \in tx.ids THEN 1 ELSE 0
BY SMT DEF LossIInv, Loses

(* A failure adds to what is lost of the jobs before their caller is told. *)
LEMMA FailsKeepsLoss ==
  ASSUME Shapes, LossIInv, NEW p \in Producers, NEW tx \in call[p].open, Fails(p, tx)
  PROVE  LossIInv'
<1>1. UNCHANGED <<made, copies, wire, told>>
  BY DEF Fails
<1>2. PICK pairs : Finish(p, tx, pairs) /\ pairs = {<<i, NoID>> : i \in tx.ids}
  BY DEF Fails
<1>3. \A r \in Producers : call'[r].got = IF r = p THEN call[r].got \cup pairs ELSE call[r].got
  <2>1. Finish(p, tx, pairs)
    BY <1>2
  <2> QED
    BY <2>1, FinishFields, ZenonT(60)
<1>4. \A i \in IDs : <<i, NoID>> \in Given' => <<i, NoID>> \in Given \/ i \in tx.ids
  <2>1. \A r \in Producers : \A t \in call'[r].got : t \in call[r].got \/ t \in pairs
    BY <1>3
  <2>2. told' = told
    BY <1>1
  <2>3. \A t \in Given' : t \in Given \/ t \in pairs
    BY <2>1, <2>2 DEF Given
  <2> QED
    BY <1>2, <2>3
<1>5. /\ lost' \in [IDs -> Nat]
      /\ \A i \in IDs : lost'[i] = lost[i] + IF i \in tx.ids THEN 1 ELSE 0
  BY LosesFacts DEF Fails
<1>6. \A i \in IDs : OnTheWay(i)' = OnTheWay(i)
  BY <1>1 DEF OnTheWay
<1>7. CopiesAreLost'
  <2> SUFFICES ASSUME NEW i \in IDs
               PROVE  copies[i] + Cardinality(OnTheWay(i)) <= lost'[i] + IF <<i, NoID>> \in Given' THEN 0 ELSE 1
    BY <1>1, <1>6 DEF CopiesAreLost
  <2>1. copies[i] + Cardinality(OnTheWay(i)) <= lost[i] + IF <<i, NoID>> \in Given THEN 0 ELSE 1
    BY DEF LossIInv, CopiesAreLost
  <2>2. copies[i] \in Nat /\ Cardinality(OnTheWay(i)) \in Nat /\ lost[i] \in Nat
    BY OnTheWayIsFinite DEF Shapes, LossIInv
  <2> QED
    BY <1>4, <1>5, <2>1, <2>2, SMT
<1>8. AskedAgain'
  BY <1>1 DEF LossIInv, AskedAgain
<1> QED
  BY <1>1, <1>5, <1>7, <1>8 DEF LossIInv

(* Sending again adds to what is lost as much as to what is on its way. *)
LEMMA ResendKeepsLoss ==
  ASSUME Shapes, LossIInv, NEW p \in Producers, NEW tx \in call[p].open, Resend(p, tx)
  PROVE  LossIInv'
<1>1. UNCHANGED <<made, copies, told>>
  BY DEF Resend
<1>2. PICK again \in Sent :
        /\ again.ids = tx.ids /\ wire' = wire \cup {again}
        /\ \A r \in Producers : call'[r].got = call[r].got
  BY ResendFields
<1>3. Given' = Given
  BY <1>1, <1>2 DEF Given
<1>4. /\ lost' \in [IDs -> Nat]
      /\ \A i \in IDs : lost'[i] = lost[i] + IF i \in tx.ids THEN 1 ELSE 0
  BY LosesFacts DEF Resend
<1>5. \A i \in IDs : OnTheWay(i)' = IF i \in tx.ids THEN OnTheWay(i) \cup {again} ELSE OnTheWay(i)
  BY <1>2 DEF OnTheWay
<1>6. CopiesAreLost'
  <2> SUFFICES ASSUME NEW i \in IDs
               PROVE  copies[i] + Cardinality(OnTheWay(i)') <= lost'[i] + IF <<i, NoID>> \in Given THEN 0 ELSE 1
    BY <1>1, <1>3 DEF CopiesAreLost
  <2>1. copies[i] + Cardinality(OnTheWay(i)) <= lost[i] + IF <<i, NoID>> \in Given THEN 0 ELSE 1
    BY DEF LossIInv, CopiesAreLost
  <2>2. copies[i] \in Nat /\ IsFiniteSet(OnTheWay(i)) /\ Cardinality(OnTheWay(i)) \in Nat /\ lost[i] \in Nat
    BY OnTheWayIsFinite DEF Shapes, LossIInv
  <2>3. Cardinality(OnTheWay(i) \cup {again}) =
          IF again \in OnTheWay(i) THEN Cardinality(OnTheWay(i)) ELSE Cardinality(OnTheWay(i)) + 1
    BY <2>2, FS_AddElement
  <2>4. /\ i \in tx.ids => Cardinality(OnTheWay(i)') = Cardinality(OnTheWay(i) \cup {again})
        /\ i \notin tx.ids => Cardinality(OnTheWay(i)') = Cardinality(OnTheWay(i))
    BY <1>5
  <2> QED
    BY <1>4, <2>1, <2>2, <2>3, <2>4, SMT
<1>7. AskedAgain'
  BY <1>1 DEF LossIInv, AskedAgain
<1>8. IsFiniteSet(wire')
  BY <1>2, FS_AddElement DEF LossIInv
<1> QED
  BY <1>4, <1>6, <1>7, <1>8 DEF LossIInv

(* A transaction stores each of its jobs once at most, and is on its way no
   longer. *)
LEMMA ExecuteKeepsLoss ==
  ASSUME Shapes, LossIInv, NEW tx \in wire, Execute(tx)
  PROVE  LossIInv'
<1>1. UNCHANGED <<made, told, call, lost>> /\ wire' = wire \ {tx}
  BY DEF Execute
<1>2. Given' = Given
  BY <1>1 DEF Given
<1>3. /\ New(tx) \subseteq tx.ids
      /\ \A i \in IDs : copies'[i] = IF i \notin New(tx) THEN copies[i]
                                     ELSE IF made[i] \in Delayed THEN 1 ELSE copies[i] + 1
  BY ExecuteStores
<1>4. \A i \in IDs : OnTheWay(i)' = OnTheWay(i) \ {tx}
  BY <1>1 DEF OnTheWay
<1>5. CopiesAreLost'
  <2> SUFFICES ASSUME NEW i \in IDs
               PROVE  copies'[i] + Cardinality(OnTheWay(i) \ {tx}) <= lost[i] + IF <<i, NoID>> \in Given THEN 0 ELSE 1
    BY <1>1, <1>2, <1>4 DEF CopiesAreLost
  <2>1. copies[i] + Cardinality(OnTheWay(i)) <= lost[i] + IF <<i, NoID>> \in Given THEN 0 ELSE 1
    BY DEF LossIInv, CopiesAreLost
  <2>2. copies[i] \in Nat /\ IsFiniteSet(OnTheWay(i)) /\ Cardinality(OnTheWay(i)) \in Nat /\ lost[i] \in Nat
    BY OnTheWayIsFinite DEF Shapes, LossIInv
  <2>3. Cardinality(OnTheWay(i) \ {tx}) =
          IF tx \in OnTheWay(i) THEN Cardinality(OnTheWay(i)) - 1 ELSE Cardinality(OnTheWay(i))
    BY <2>2, FS_RemoveElement
  <2>4. i \in New(tx) => tx \in OnTheWay(i)
    BY <1>3 DEF OnTheWay
  <2> QED
    BY <1>3, <2>1, <2>2, <2>3, <2>4, SMT
<1>6. AskedAgain'
  BY <1>1 DEF LossIInv, AskedAgain
<1>7. IsFiniteSet(wire')
  BY <1>1, FS_RemoveElement DEF LossIInv
<1> QED
  BY <1>1, <1>5, <1>6, <1>7 DEF LossIInv

(* A call sends finitely many transactions. *)
LEMMA GroupsAreFinite ==
  ASSUME NEW p, NEW ids \in SUBSET IDs, NEW req \in [ids -> Requests], NEW to \in Routes(p, req)
  PROVE  IsFiniteSet(Groups(to))
<1> DEFINE group == [i \in ids |-> [part |-> to[i], ids |-> {k \in ids : to[k] = to[i]}, send |-> 0]]
<1>1. IsFiniteSet(ids)
  BY ProducerAssumption, FS_Subset
<1>2. DOMAIN to = ids
  BY DEF Routes
<1>3. group \in Surjection(ids, Groups(to))
  <2>1. Groups(to) = {[part |-> q, ids |-> {i \in ids : to[i] = q}, send |-> 0] : q \in {to[i] : i \in ids}}
    BY <1>2 DEF Groups
  <2>2. \A i \in ids : group[i] \in Groups(to)
    BY <2>1
  <2>3. \A g \in Groups(to) : \E i \in ids : group[i] = g
    BY <2>1
  <2>4. group = [i \in ids |-> group[i]]
    OBVIOUS
  <2> HIDE DEF group
  <2> QED
    BY <2>2, <2>3, <2>4 DEF Surjection
<1> HIDE DEF group
<1> QED
  BY <1>1, <1>3, FS_Surjection

(* A request without a key is asked for again only after it failed. *)
LEMMA CallKeepsLoss ==
  ASSUME ProducerIInv, KeyIInv, LossIInv, NEW p \in Producers, NEW ids \in SUBSET IDs,
         NEW req \in [ids -> Requests], NEW to \in Routes(p, req), Call(p, ids, req, to)
  PROVE  LossIInv'
<1>0. Shapes /\ CallMakes(p, ids, req, to)
  BY CallFacts DEF ProducerIInv
<1>1. /\ \A i \in ids : made[i] = NoRequest /\ made'[i] = req[i]
      /\ \A i \in IDs \ ids : made'[i] = made[i]
      /\ \A tx \in wire \cup Awaited : \A i \in tx.ids : i \in IDs \ ids
      /\ wire' = wire \cup Groups(to) /\ Given' = Given
  BY <1>0 DEF CallMakes
<1>2. \A t \in Given : t[1] \in IDs \ ids
  BY <1>0 DEF CallMakes
<1>3. /\ UNCHANGED <<copies, told, lost>>
      /\ \A i, j \in ids : req[i] = req[j] => i = j
      /\ \A i \in ids : MayAsk(req[i])
  BY DEF Call
<1>4. /\ \A tx \in Groups(to) : tx.ids \subseteq ids
      /\ \A tx, ty \in Groups(to) : tx # ty => tx.ids \cap ty.ids = {}
  <2>1. GroupsFit(ids, to)
    BY <1>0, GroupsFacts
  <2> QED
    BY <2>1 DEF GroupsFit
<1>5. CopiesAreLost'
  <2> SUFFICES ASSUME NEW i \in IDs
               PROVE  copies[i] + Cardinality(OnTheWay(i)') <= lost[i] + IF <<i, NoID>> \in Given THEN 0 ELSE 1
    BY <1>1, <1>3 DEF CopiesAreLost
  <2>1. copies[i] + Cardinality(OnTheWay(i)) <= lost[i] + IF <<i, NoID>> \in Given THEN 0 ELSE 1
    BY DEF LossIInv, CopiesAreLost
  <2>2. copies[i] \in Nat /\ lost[i] \in Nat
    BY <1>0 DEF Shapes, LossIInv
  <2>3. CASE i \notin ids
    <3>1. OnTheWay(i)' = OnTheWay(i)
      BY <1>1, <1>4, <2>3 DEF OnTheWay
    <3> QED
      BY <2>1, <3>1
  <2>4. CASE i \in ids
    <3>1. copies[i] = 0 /\ <<i, NoID>> \notin Given
      BY <1>1, <1>2, <2>2, <2>4, NamesAreNew, SMT DEF KeyIInv, StoredIsMade
    <3>2. OnTheWay(i)' \subseteq Groups(to) /\ \A tx, ty \in OnTheWay(i)' : tx = ty
      BY <1>1, <1>4, <2>4, SMT DEF OnTheWay
    <3>3. OnTheWay(i)' = {} \/ \E tx : OnTheWay(i)' = {tx}
      BY <3>2
    <3>4. Cardinality(OnTheWay(i)') \in {0, 1}
      <4>1. Cardinality({}) = 0 /\ \A tx : Cardinality({tx}) = 1
        BY FS_EmptySet, FS_Singleton
      <4> QED
        BY <3>3, <4>1
    <3> QED
      BY <2>2, <3>1, <3>4, SMT
  <2> QED
    BY <2>3, <2>4
<1>6. AskedAgain'
  <2> SUFFICES ASSUME NEW i \in IDs, NEW j \in IDs, made'[i] = made'[j],
                      made'[i] \in Requests \ Keyed, i # j
               PROVE  <<i, NoID>> \in told \/ <<j, NoID>> \in told
    BY <1>3 DEF AskedAgain
  <2>1. ASSUME NEW m \in ids, NEW n \in IDs \ ids, made'[m] = made'[n], made'[m] \notin Keyed
        PROVE  <<n, NoID>> \in told
    BY <1>1, <1>3, <2>1 DEF MayAsk, IDsOf
  <2>2. CASE i \in ids /\ j \in ids
    BY <1>1, <1>3, <2>2
  <2>3. CASE i \notin ids /\ j \notin ids
    BY <1>1, <2>3 DEF LossIInv, AskedAgain
  <2> QED
    BY <2>1, <2>2, <2>3
<1>7. IsFiniteSet(wire')
  <2>1. IsFiniteSet(Groups(to))
    BY <1>0, GroupsAreFinite
  <2> QED
    BY <1>1, <2>1, FS_Union DEF LossIInv
<1> QED
  BY <1>3, <1>5, <1>6, <1>7 DEF LossIInv

-----------------------------------------------------------------------------
(* Calls and what is counted *)

(* What is awaited is open in some call. *)
LEMMA AwaitedMembers ==
  /\ \A x : x \in Awaited <=> \E r \in Producers : x \in call[r].open
  /\ \A x : x \in Awaited' <=> \E r \in Producers : x \in call'[r].open
BY DEF Awaited

(* Two transactions that are awaited, by one call or by two, have no job in
   common. *)
LEMMA AwaitedApart ==
  ASSUME CallsApart, NEW tx \in Awaited, NEW ty \in Awaited, tx # ty
  PROVE  tx.ids \cap ty.ids = {}
BY SMT DEF CallsApart, Awaited

(* As long as a call's transactions become fewer and its IDs are its own, calls
   have nothing in common. *)
LEMMA CallsStayApart ==
  ASSUME CallsApart, UNCHANGED made,
         \A r \in Producers : call'[r].ids = call[r].ids /\ call'[r].open \subseteq call[r].open,
         \A r \in Producers : \A t \in call'[r].got : t \in call[r].got \/ t[1] \in call[r].ids
  PROVE  CallsApart'
<1>1. \A p, q \in Producers : p # q => call'[p].ids \cap call'[q].ids = {}
  BY DEF CallsApart
<1> SUFFICES ASSUME NEW p \in Producers
             PROVE  /\ \A i \in call'[p].ids : made'[i] \in Requests
                    /\ \A t \in call'[p].got : t[1] \in call'[p].ids
                    /\ \A tx \in call'[p].open : tx.ids \subseteq call'[p].ids
                    /\ \A tx, ty \in call'[p].open : tx # ty => tx.ids \cap ty.ids = {}
  BY <1>1 DEF CallsApart
<1> QED
  BY DEF CallsApart

(* An answer that arrives becomes what its call was given. *)
LEMMA AnsweredKeepsCalls ==
  ASSUME ProducerIInv, CallIInv, NEW p \in Producers, NEW a \in answers, Answered(p, a)
  PROVE  CallIInv'
<1>1. /\ UNCHANGED <<made, copies, wire, counted, lost, faults, expiries>>
      /\ a.tx \in call[p].open /\ answers' = answers \ {a}
  BY DEF Answered
<1>2. PICK tx, pairs : Finish(p, tx, pairs) /\ tx = a.tx /\ pairs = {<<i, a.ids[i]>> : i \in a.tx.ids}
  BY DEF Answered
<1>3. \A r \in Producers :
        /\ call'[r].ids = call[r].ids
        /\ call'[r].open = IF r = p THEN call[r].open \ {tx} ELSE call[r].open
        /\ call'[r].got = IF r = p THEN call[r].got \cup pairs ELSE call[r].got
  <2>1. Shapes /\ Finish(p, tx, pairs)
    BY <1>2 DEF ProducerIInv
  <2> QED
    BY <2>1, FinishFields, SMT
<1>4. Awaited' \subseteq Awaited /\ Awaited \ {tx} \subseteq Awaited'
  BY <1>3, AwaitedMembers
<1>5. CallsApart'
  <2>1. \A t \in pairs : t[1] \in call[p].ids
    BY <1>1, <1>2, SMT DEF CallIInv, CallsApart
  <2>2. \A r \in Producers : call'[r].ids = call[r].ids /\ call'[r].open \subseteq call[r].open
    BY <1>3
  <2>3. \A r \in Producers : \A t \in call'[r].got : t \in call[r].got \/ t[1] \in call[r].ids
    BY <1>3, <2>1
  <2> QED
    BY <1>1, <2>2, <2>3, CallsStayApart DEF CallIInv
<1>6. SendsAreBounded'
  BY <1>1, <1>4 DEF CallIInv, SendsAreBounded
<1>7. AnswersAreAwaited'
  BY <1>1, <1>2, <1>4 DEF CallIInv, AnswersAreAwaited
<1>8. UnlostIsAwaited'
  <2>1. tx \notin wire
    BY <1>2 DEF CallIInv, AnswersAreAwaited
  <2> QED
    BY <1>1, <1>4, <2>1 DEF CallIInv, UnlostIsAwaited
<1>9. CountedOnce'
  BY <1>1, <1>3 DEF CallIInv, CountedOnce
<1>10. StoredIsTraced'
  <2> SUFFICES ASSUME NEW i \in IDs, copies[i] > 0, lost[i] = 0, counted[i] # 1
               PROVE  \/ \E r \in Producers : <<i, i>> \in call'[r].got
                      \/ \E b \in answers \ {a} : i \in b.tx.ids /\ b.ids[i] = i
    BY <1>1 DEF StoredIsTraced
  <2>1. \/ \E r \in Producers : <<i, i>> \in call[r].got
        \/ \E b \in answers : i \in b.tx.ids /\ b.ids[i] = i
    BY DEF CallIInv, StoredIsTraced
  <2>2. CASE i \in a.tx.ids /\ a.ids[i] = i
    <3>1. <<i, i>> \in pairs
      BY <1>2, <2>2
    <3> QED
      BY <1>3, <3>1
  <2> QED
    BY <1>3, <2>1, <2>2
<1> QED
  BY <1>1, <1>5, <1>6, <1>7, <1>8, <1>9, <1>10 DEF CallIInv

(* What fails is forgotten, with its answer. *)
LEMMA FailsKeepsCalls ==
  ASSUME Shapes, LossIInv, CallIInv, NEW p \in Producers, NEW tx \in call[p].open, Fails(p, tx)
  PROVE  CallIInv'
<1>1. /\ UNCHANGED <<made, copies, wire, counted, expiries>> /\ answers' = {a \in answers : a.tx # tx}
      /\ faults > 0 /\ faults' = faults - 1
  BY DEF Fails, Loses
<1>2. PICK pairs : Finish(p, tx, pairs) /\ pairs = {<<i, NoID>> : i \in tx.ids}
  BY DEF Fails
<1>3. \A r \in Producers :
        /\ call'[r].ids = call[r].ids
        /\ call'[r].open = IF r = p THEN call[r].open \ {tx} ELSE call[r].open
        /\ call'[r].got = IF r = p THEN call[r].got \cup pairs ELSE call[r].got
  <2>1. Finish(p, tx, pairs)
    BY <1>2
  <2> QED
    BY <2>1, FinishFields, ZenonT(60)
<1>4. Awaited' \subseteq Awaited /\ Awaited \ {tx} \subseteq Awaited'
  BY <1>3, AwaitedMembers
<1>5. \A i \in IDs : lost'[i] = 0 => lost[i] = 0 /\ i \notin tx.ids
  <2>1. \A i \in IDs : lost'[i] = lost[i] + IF i \in tx.ids THEN 1 ELSE 0
    BY LosesFacts DEF Fails
  <2> QED
    BY <2>1, SMT DEF LossIInv
<1>6. CallsApart'
  <2>1. \A t \in pairs : t[1] \in call[p].ids
    BY <1>2, SMT DEF CallIInv, CallsApart
  <2>2. \A r \in Producers : call'[r].ids = call[r].ids /\ call'[r].open \subseteq call[r].open
    BY <1>3
  <2>3. \A r \in Producers : \A t \in call'[r].got : t \in call[r].got \/ t[1] \in call[r].ids
    BY <1>3, <2>1
  <2> QED
    BY <1>1, <2>2, <2>3, CallsStayApart DEF CallIInv
<1>7. SendsAreBounded' /\ faults' \in 0 .. MaxFaults
  <2>1. \A x \in wire \cup Awaited : x.send \in Nat
    BY CallFields, SMT DEF Shapes, Sent, Awaited
  <2> QED
    BY <1>1, <1>4, <2>1, ProducerAssumption, SMT DEF CallIInv, SendsAreBounded
<1>8. AnswersAreAwaited'
  BY <1>1, <1>4 DEF CallIInv, AnswersAreAwaited
<1>9. UnlostIsAwaited'
  <2>1. \A x \in wire : x.ids \subseteq IDs
    BY DEF Shapes, Sent
  <2> QED
    BY <1>1, <1>4, <1>5, <2>1 DEF CallIInv, UnlostIsAwaited
<1>10. CountedOnce'
  BY <1>1, <1>3 DEF CallIInv, CountedOnce
<1>11. StoredIsTraced'
  <2> SUFFICES ASSUME NEW i \in IDs, copies[i] > 0, lost'[i] = 0, counted[i] # 1
               PROVE  \/ \E r \in Producers : <<i, i>> \in call'[r].got
                      \/ \E b \in answers' : i \in b.tx.ids /\ b.ids[i] = i
    BY <1>1 DEF StoredIsTraced
  <2>1. \/ \E r \in Producers : <<i, i>> \in call[r].got
        \/ \E b \in answers : i \in b.tx.ids /\ b.ids[i] = i
    BY <1>5 DEF CallIInv, StoredIsTraced
  <2> QED
    BY <1>1, <1>3, <1>5, <2>1
<1> QED
  BY <1>1, <1>6, <1>7, <1>8, <1>9, <1>10, <1>11 DEF CallIInv

(* A transaction that is sent again takes the place of the first. *)
LEMMA ResendKeepsCalls ==
  ASSUME Shapes, LossIInv, CallIInv, NEW p \in Producers, NEW tx \in call[p].open, Resend(p, tx)
  PROVE  CallIInv'
<1>1. /\ UNCHANGED <<made, copies, counted, expiries>> /\ answers' = {a \in answers : a.tx # tx}
      /\ faults > 0 /\ faults' = faults - 1
  BY DEF Resend, Loses
<1>2. PICK again \in Sent :
        /\ again.ids = tx.ids /\ again.send = tx.send + 1
        /\ wire' = wire \cup {again}
        /\ \A r \in Producers :
             /\ call'[r].ids = call[r].ids /\ call'[r].got = call[r].got
             /\ call'[r].open = IF r = p THEN (call[r].open \ {tx}) \cup {again} ELSE call[r].open
  BY ResendFields
<1>3. /\ Awaited' \subseteq Awaited \cup {again} /\ Awaited \ {tx} \subseteq Awaited' /\ again \in Awaited'
      /\ tx \in Awaited
  BY <1>2, AwaitedMembers
<1>4. \A i \in IDs : lost'[i] = 0 => lost[i] = 0 /\ i \notin tx.ids
  <2>1. \A i \in IDs : lost'[i] = lost[i] + IF i \in tx.ids THEN 1 ELSE 0
    BY LosesFacts DEF Resend
  <2> QED
    BY <2>1, SMT DEF LossIInv
<1>5. CallsApart'
  <2>1. \A r, q \in Producers : r # q => call'[r].ids \cap call'[q].ids = {}
    BY <1>2 DEF CallIInv, CallsApart
  <2>2. ASSUME NEW r \in Producers
        PROVE  /\ \A i \in call'[r].ids : made'[i] \in Requests
               /\ \A t \in call'[r].got : t[1] \in call'[r].ids
               /\ \A x \in call'[r].open : x.ids \subseteq call'[r].ids
    <3>1. \A i \in call'[r].ids : made'[i] \in Requests
      BY <1>1, <1>2 DEF CallIInv, CallsApart
    <3>2. \A t \in call'[r].got : t[1] \in call'[r].ids
      BY <1>2 DEF CallIInv, CallsApart
    <3>3. \A x \in call'[r].open : \E y \in call[r].open : y.ids = x.ids
      BY <1>2
    <3> QED
      BY <1>2, <3>1, <3>2, <3>3 DEF CallIInv, CallsApart
  <2>3. ASSUME NEW r \in Producers, NEW x \in call'[r].open, NEW y \in call'[r].open, x # y
        PROVE  x.ids \cap y.ids = {}
    <3>1. PICK v \in call[r].open : v.ids = x.ids /\ (v = x \/ (r = p /\ v = tx /\ x = again))
      BY <1>2
    <3>2. PICK w \in call[r].open : w.ids = y.ids /\ (w = y \/ (r = p /\ w = tx /\ y = again))
      BY <1>2
    <3>3. r = p => (x = again \/ x # tx) /\ (y = again \/ y # tx)
      BY <1>2
    <3>4. v # w
      BY <2>3, <3>1, <3>2, <3>3, SMT
    <3> QED
      BY <3>1, <3>2, <3>4, SMT DEF CallIInv, CallsApart
  <2> QED
    BY <2>1, <2>2, <2>3 DEF CallsApart
<1>6. SendsAreBounded' /\ faults' \in 0 .. MaxFaults
  <2>1. \A x \in wire \cup Awaited : x.send \in Nat
    BY CallFields, SMT DEF Shapes, Sent, Awaited
  <2>2. \A x \in wire' \cup Awaited' : x \in wire \cup Awaited \/ x = again
    BY <1>2, <1>3
  <2>3. tx.ids # {} /\ tx.send + faults <= MaxFaults
    BY <1>3 DEF CallIInv, SendsAreBounded
  <2> QED
    BY <1>1, <1>2, <1>3, <2>1, <2>2, <2>3, ProducerAssumption, SMT DEF CallIInv, SendsAreBounded
<1>7. AnswersAreAwaited'
  <2>1. ASSUME NEW a \in answers'
        PROVE  a.tx \in Awaited' \ wire'
    <3>1. a \in answers /\ a.tx # tx /\ a.tx \in Awaited \ wire
      BY <1>1 DEF CallIInv, AnswersAreAwaited
    <3>2. a.tx # again
      <4>1. PICK x : x = a.tx
        OBVIOUS
      <4>2. x \in Awaited /\ x # tx
        BY <3>1, <4>1
      <4>3. x.ids \cap tx.ids = {}
        BY <1>3, <4>2, AwaitedApart DEF CallIInv
      <4>4. tx.ids # {}
        BY <1>3 DEF CallIInv, SendsAreBounded
      <4> QED
        BY <1>2, <4>1, <4>3, <4>4
    <3> QED
      BY <1>2, <1>3, <3>1, <3>2
  <2> QED
    BY <1>1, <2>1 DEF CallIInv, AnswersAreAwaited
<1>8. UnlostIsAwaited'
  <2>1. \A x \in wire' : x.ids \subseteq IDs /\ (x = again \/ x \in wire)
    BY <1>2 DEF Shapes, Sent
  <2> QED
    BY <1>2, <1>3, <1>4, <2>1 DEF CallIInv, UnlostIsAwaited
<1>9. CountedOnce'
  BY <1>1, <1>2 DEF CallIInv, CountedOnce
<1>10. StoredIsTraced'
  <2> SUFFICES ASSUME NEW i \in IDs, copies[i] > 0, lost'[i] = 0, counted[i] # 1
               PROVE  \/ \E r \in Producers : <<i, i>> \in call'[r].got
                      \/ \E b \in answers' : i \in b.tx.ids /\ b.ids[i] = i
    BY <1>1 DEF StoredIsTraced
  <2>1. \/ \E r \in Producers : <<i, i>> \in call[r].got
        \/ \E b \in answers : i \in b.tx.ids /\ b.ids[i] = i
    BY <1>4 DEF CallIInv, StoredIsTraced
  <2> QED
    BY <1>1, <1>2, <1>4, <2>1
<1> QED
  BY <1>1, <1>5, <1>6, <1>7, <1>8, <1>9, <1>10 DEF CallIInv

(* A call that returns counts its jobs, which were not counted before. *)
LEMMA ReturnKeepsCalls ==
  ASSUME ProducerIInv, CallIInv, NEW p \in Producers, Return(p)
  PROVE  CallIInv'
<1>0. Shapes
  BY DEF ProducerIInv
<1>1. /\ UNCHANGED <<made, copies, wire, answers, lost, faults, expiries>> /\ call[p].open = {}
      /\ counted' = [i \in IDs |-> counted[i] + IF i \in {k \in IDs : <<k, k>> \in call[p].got} THEN 1 ELSE 0]
  BY DEF Return, JobEnqueued
<1>2. \A i \in IDs : counted'[i] = counted[i] + IF <<i, i>> \in call[p].got THEN 1 ELSE 0
  BY <1>1
<1>3. \A r \in Producers :
        /\ call'[r].ids = IF r = p THEN {} ELSE call[r].ids
        /\ call'[r].open = IF r = p THEN {} ELSE call[r].open
        /\ call'[r].got = IF r = p THEN {} ELSE call[r].got
  BY <1>0, ReturnFields
<1>4. Awaited' = Awaited
  BY <1>1, <1>3, SMT DEF Awaited
<1>5. counted' \in [IDs -> Nat]
  BY <1>1, SMT DEF CallIInv
<1>6. CallsApart'
  BY <1>1, <1>3, SMT DEF CallIInv, CallsApart
<1>7. SendsAreBounded' /\ AnswersAreAwaited' /\ UnlostIsAwaited'
  BY <1>1, <1>4 DEF CallIInv, SendsAreBounded, AnswersAreAwaited, UnlostIsAwaited
<1>8. ASSUME NEW i \in IDs, <<i, i>> \in call[p].got
      PROVE  counted[i] = 0 /\ copies[i] > 0 /\ made[i] \in Requests /\ i \in call[p].ids
  <2>1. PICK t : t = <<i, i>>
    OBVIOUS
  <2>2. t \in call[p].got /\ t[1] = i /\ t[2] = i
    BY <1>8, <2>1
  <2>3. i \in call[p].ids
    BY <2>2, SMT DEF CallIInv, CallsApart
  <2>4. counted[i] = 0
    BY <2>3 DEF CallIInv, CountedOnce
  <2>5. made[t[1]] \in Requests /\ (t[2] # NoID => StoredAs(t[1], t[2]))
    BY <2>2 DEF ProducerIInv, GivenIsStored, Given
  <2> QED
    BY <2>2, <2>3, <2>4, <2>5, NamesAreNew DEF StoredAs
<1>9. CountedOnce'
  <2> SUFFICES ASSUME NEW i \in IDs, counted'[i] # 0
               PROVE  /\ counted'[i] = 1 /\ copies[i] > 0 /\ made[i] \in Requests
                      /\ \A r \in Producers : i \notin call'[r].ids
    BY <1>1 DEF CountedOnce
  <2>1. CASE <<i, i>> \in call[p].got
    <3>1. counted[i] = 0 /\ copies[i] > 0 /\ made[i] \in Requests /\ i \in call[p].ids
      BY <1>8, <2>1
    <3>2. \A r \in Producers : i \notin call'[r].ids
      BY <1>3, <3>1 DEF CallIInv, CallsApart
    <3> QED
      BY <1>2, <2>1, <3>1, <3>2, SMT
  <2>2. CASE <<i, i>> \notin call[p].got
    <3>1. counted'[i] = counted[i]
      BY <1>2, <2>2, SMT DEF CallIInv
    <3> QED
      BY <1>3, <3>1 DEF CallIInv, CountedOnce
  <2> QED
    BY <2>1, <2>2
<1>10. StoredIsTraced'
  <2> SUFFICES ASSUME NEW i \in IDs, copies[i] > 0, lost[i] = 0, counted'[i] # 1
               PROVE  \/ \E r \in Producers : <<i, i>> \in call'[r].got
                      \/ \E b \in answers : i \in b.tx.ids /\ b.ids[i] = i
    BY <1>1 DEF StoredIsTraced
  <2>1. <<i, i>> \notin call[p].got /\ counted[i] # 1
    BY <1>2, <1>8, SMT DEF CallIInv
  <2>2. \/ \E r \in Producers : <<i, i>> \in call[r].got
        \/ \E b \in answers : i \in b.tx.ids /\ b.ids[i] = i
    BY <2>1 DEF CallIInv, StoredIsTraced
  <2> QED
    BY <1>3, <2>1, <2>2
<1> QED
  BY <1>1, <1>5, <1>6, <1>7, <1>9, <1>10 DEF CallIInv

(* If calls, transactions and counts stay, only what is stored may grow. *)
LEMMA CallsStay ==
  ASSUME CallIInv, UNCHANGED <<made, copies, wire, answers, call, counted, lost, faults>>,
         expiries' \in 0 .. MaxExpiries
  PROVE  CallIInv'
<1>1. Awaited' = Awaited
  BY DEF Awaited
<1> QED
  BY <1>1, SMT DEF CallIInv, CallsApart, SendsAreBounded, AnswersAreAwaited, UnlostIsAwaited,
              CountedOnce, StoredIsTraced

(* What is executed is answered, if it is awaited. *)
LEMMA ExecuteKeepsCalls ==
  ASSUME ProducerIInv, ProducerIInv', CallIInv, NEW tx \in wire, Execute(tx)
  PROVE  CallIInv'
<1> DEFINE held == [i \in tx.ids |-> IF i \in New(tx) THEN i ELSE Holder(tx.part, i)]
           answer == [tx |-> tx, ids |-> held]
<1>0. Shapes
  BY DEF ProducerIInv
<1>1. /\ UNCHANGED <<made, call, counted, lost, faults, expiries>> /\ wire' = wire \ {tx}
      /\ answers' = answers \cup {[tx |-> x, ids |-> held] : x \in {tx} \cap Awaited}
  BY DEF Execute, New
<1>2. /\ tx \in Awaited => answers' = answers \cup {answer}
      /\ tx \notin Awaited => answers' = answers
  BY <1>1
<1>3. Awaited' = Awaited
  BY <1>1 DEF Awaited
<1>4. /\ New(tx) \subseteq tx.ids /\ tx.ids \subseteq IDs
      /\ \A i \in IDs : copies'[i] = IF i \notin New(tx) THEN copies[i]
                                     ELSE IF made[i] \in Delayed THEN 1 ELSE copies[i] + 1
  BY <1>0, ExecuteStores
<1>5. answer.tx = tx /\ answer.ids = held /\ DOMAIN held = tx.ids /\ \A i \in New(tx) : held[i] = i
  BY <1>4
<1>6. tx \in Awaited => held \in [tx.ids -> IDs]
  <2>1. tx \in Awaited => \A i \in answer.tx.ids : answer.ids[i] \in IDs
    <3> HIDE DEF answer
    <3> QED
      BY <1>2 DEF ProducerIInv, AnsweredIsStored, StoredAs
  <2> QED
    BY <1>5, <2>1
<1> HIDE DEF held, answer
<1>7. CallsApart' /\ SendsAreBounded' /\ UnlostIsAwaited'
  BY <1>1, <1>3 DEF CallIInv, CallsApart, SendsAreBounded, UnlostIsAwaited
<1>8. AnswersAreAwaited'
  <2>1. \A a \in answers : a.tx # tx
    BY DEF CallIInv, AnswersAreAwaited
  <2>2. \A a \in answers' : a.tx \in Awaited' \ wire' /\ a.ids \in [a.tx.ids -> IDs]
    BY <1>1, <1>2, <1>3, <1>5, <1>6 DEF CallIInv, AnswersAreAwaited
  <2>3. \A a, b \in answers' : a.tx = b.tx => a = b
    BY <1>2, <1>5, <2>1 DEF CallIInv, AnswersAreAwaited
  <2> QED
    BY <2>2, <2>3 DEF AnswersAreAwaited
<1>9. CountedOnce'
  BY <1>0, <1>1, <1>4, SMT DEF CallIInv, CountedOnce, Shapes
<1>10. StoredIsTraced'
  <2> SUFFICES ASSUME NEW i \in IDs, copies'[i] > 0, lost[i] = 0, counted[i] # 1
               PROVE  \/ \E r \in Producers : <<i, i>> \in call[r].got
                      \/ \E b \in answers' : i \in b.tx.ids /\ b.ids[i] = i
    BY <1>1 DEF StoredIsTraced
  <2>1. CASE i \in New(tx)
    <3>1. tx \in Awaited
      BY <1>4, <2>1 DEF CallIInv, UnlostIsAwaited
    <3> QED
      BY <1>2, <1>4, <1>5, <2>1, <3>1
  <2>2. CASE i \notin New(tx)
    BY <1>2, <1>4, <2>2 DEF CallIInv, StoredIsTraced
  <2> QED
    BY <2>1, <2>2
<1> QED
  BY <1>1, <1>7, <1>8, <1>9, <1>10 DEF CallIInv

(* A call makes new jobs and awaits the transactions they are in. *)
LEMMA CallKeepsCalls ==
  ASSUME ProducerIInv, KeyIInv, CallIInv, NEW p \in Producers, NEW ids \in SUBSET IDs,
         NEW req \in [ids -> Requests], NEW to \in Routes(p, req), Call(p, ids, req, to)
  PROVE  CallIInv'
<1> DEFINE open == Groups(to)
<1>0. Shapes /\ CallMakes(p, ids, req, to)
  BY CallFacts DEF ProducerIInv
<1>1. /\ \A i \in ids : made[i] = NoRequest /\ made'[i] \in Requests
      /\ \A i \in IDs \ ids : made'[i] = made[i]
      /\ \A tx \in wire \cup Awaited : \A i \in tx.ids : i \in IDs \ ids
      /\ wire' = wire \cup open /\ Awaited' = Awaited \cup open
  BY <1>0 DEF CallMakes
<1>2. /\ \A r \in Producers :
           /\ call'[r].ids = IF r = p THEN ids ELSE call[r].ids
           /\ call'[r].open = IF r = p THEN open ELSE call[r].open
           /\ call'[r].got = IF r = p THEN {} ELSE call[r].got
      /\ call[p].got = {}
  BY <1>0 DEF CallMakes
<1>3. UNCHANGED <<copies, answers, counted, lost, faults, expiries>>
  BY DEF Call
<1>4. /\ \A tx \in open : tx.ids # {} /\ tx.ids \subseteq ids /\ tx.send = 0
      /\ \A tx, ty \in open : tx # ty => tx.ids \cap ty.ids = {}
  <2>1. GroupsFit(ids, to)
    BY <1>0, GroupsFacts
  <2> QED
    BY <2>1 DEF GroupsFit
<1> HIDE DEF open
<1>5. CallsApart'
  <2>1. \A r \in Producers : r # p => call[r].ids \subseteq IDs \ ids
    BY <1>0, <1>1, CallFields, NamesAreNew, SMT DEF CallIInv, CallsApart
  <2>2. \A r, q \in Producers : r # q => call'[r].ids \cap call'[q].ids = {}
    BY <1>2, <2>1, SMT DEF CallIInv, CallsApart
  <2>3. ASSUME NEW r \in Producers
        PROVE  /\ \A i \in call'[r].ids : made'[i] \in Requests
               /\ \A t \in call'[r].got : t[1] \in call'[r].ids
               /\ \A tx \in call'[r].open : tx.ids \subseteq call'[r].ids
               /\ \A tx, ty \in call'[r].open : tx # ty => tx.ids \cap ty.ids = {}
    <3>1. CASE r = p
      BY <1>1, <1>2, <1>4, <3>1, SMT
    <3>2. CASE r # p
      BY <1>1, <1>2, <2>1, <3>2 DEF CallIInv, CallsApart
    <3> QED
      BY <3>1, <3>2
  <2> QED
    BY <2>2, <2>3 DEF CallsApart
<1>6. SendsAreBounded'
  BY <1>1, <1>3, <1>4, ProducerAssumption, SMT DEF CallIInv, SendsAreBounded
<1>7. AnswersAreAwaited'
  <2>1. \A a \in answers : a.tx \in Awaited /\ a.tx.ids # {} /\ a.tx \notin open
    <3> SUFFICES ASSUME NEW a \in answers
                 PROVE  a.tx \in Awaited /\ a.tx.ids # {} /\ a.tx \notin open
      OBVIOUS
    <3>1. a.tx \in Awaited
      BY DEF CallIInv, AnswersAreAwaited
    <3>2. a.tx.ids # {} /\ \A i \in a.tx.ids : i \notin ids
      BY <1>1, <3>1 DEF CallIInv, SendsAreBounded
    <3> QED
      BY <1>4, <3>1, <3>2
  <2> QED
    BY <1>1, <1>3, <2>1 DEF CallIInv, AnswersAreAwaited
<1>8. UnlostIsAwaited'
  BY <1>1, <1>3 DEF CallIInv, UnlostIsAwaited
<1>9. CountedOnce'
  BY <1>1, <1>2, <1>3, NamesAreNew, SMT DEF CallIInv, CountedOnce
<1>10. StoredIsTraced'
  BY <1>2, <1>3 DEF CallIInv, StoredIsTraced
<1> QED
  BY <1>3, <1>5, <1>6, <1>7, <1>8, <1>9, <1>10 DEF CallIInv

-----------------------------------------------------------------------------
(* All of it together *)

AllIInv == ProducerIInv /\ KeyIInv /\ LossIInv /\ CallIInv

(* At first nothing is made, sent or stored. *)
LEMMA InitAll ==
  ASSUME Init
  PROVE  AllIInv
<1>1. NoCall.ids = {} /\ NoCall.open = {} /\ NoCall.got = {}
  BY DEF NoCall
<1>2. /\ wire = {} /\ answers = {} /\ told = {} /\ Awaited = {} /\ Given = {}
      /\ \A p \in Producers : call[p].ids = {} /\ call[p].open = {} /\ call[p].got = {}
  BY <1>1 DEF Init, Awaited, Given
<1>3. \A i \in IDs : made[i] = NoRequest /\ copies[i] = 0 /\ counted[i] = 0 /\ lost[i] = 0
  BY DEF Init
<1>4. KeyIInv
  <2>1. \A r \in Keyed : Holders(r) = {}
    BY DEF Init, Holders
  <2>2. \A r \in Keyed : IDsOf(r) = {}
    BY <1>3, NamesAreNew, ProducerAssumption DEF IDsOf
  <2>3. Total(copies, {}) = 0 /\ Cardinality({}) = 0
    BY FS_EmptySet DEF Total, Each
  <2>4. CopiesHaveHolders
    BY <2>1, <2>2, <2>3, SMT DEF CopiesHaveHolders, Init
  <2>5. RequestsDiffer /\ SentHome /\ StoredIsMade /\ KeptHome
    BY <1>2, <1>3, <2>1, SMT DEF RequestsDiffer, SentHome, StoredIsMade, KeptHome
  <2> QED
    BY <2>4, <2>5 DEF KeyIInv
<1>5. LossIInv
  <2>1. \A i \in IDs : OnTheWay(i) = {}
    BY <1>2 DEF OnTheWay
  <2>2. CopiesAreLost
    BY <1>2, <1>3, <2>1, FS_EmptySet, SMT DEF CopiesAreLost
  <2>3. AskedAgain
    BY <1>3, NamesAreNew DEF AskedAgain
  <2>4. lost \in [IDs -> Nat] /\ IsFiniteSet(wire)
    BY <1>2, FS_EmptySet DEF Init
  <2> QED
    BY <2>2, <2>3, <2>4 DEF LossIInv
<1>6. CallIInv
  <2>1. CallsApart /\ SendsAreBounded /\ AnswersAreAwaited /\ UnlostIsAwaited
    BY <1>2 DEF CallsApart, SendsAreBounded, AnswersAreAwaited, UnlostIsAwaited
  <2>2. CountedOnce /\ StoredIsTraced
    BY <1>3, SMT DEF CountedOnce, StoredIsTraced
  <2>3. counted \in [IDs -> Nat] /\ faults \in 0 .. MaxFaults /\ expiries \in 0 .. MaxExpiries
    BY ProducerAssumption, SMT DEF Init
  <2> QED
    BY <2>1, <2>2, <2>3 DEF CallIInv
<1> QED
  BY <1>4, <1>5, <1>6, ProducerInitInv DEF AllIInv

(* Nor do a producer's restart, the end of a dedupe window, or a step of something
   else change what is lost or counted. *)
LEMMA OthersKeep ==
  ASSUME AllIInv, UNCHANGED <<made, copies, wire, answers, call, told, counted, lost, faults>>,
         expiries' \in 0 .. MaxExpiries
  PROVE  LossIInv' /\ CallIInv'
<1>1. Given' = Given
  BY DEF Given
<1>2. Shapes /\ LossIInv /\ CallIInv
  BY DEF AllIInv, ProducerIInv
<1> QED
  BY <1>1, <1>2, LossStays, CallsStay

(* A step of a producer keeps the invariant. *)
LEMMA ProduceKeepsAll ==
  ASSUME AllIInv, NEW p \in Producers, Produce(p)
  PROVE  KeyIInv' /\ LossIInv' /\ CallIInv'
<1>0. ProducerIInv /\ Shapes /\ KeyIInv /\ LossIInv /\ CallIInv
  BY DEF AllIInv, ProducerIInv
<1>1. ASSUME NEW ids \in SUBSET {i \in IDs : made[i] = NoRequest}, NEW req \in [ids -> Requests],
             NEW to \in Routes(p, req), Call(p, ids, req, to)
      PROVE  KeyIInv' /\ LossIInv' /\ CallIInv'
  <2>1. ids \in SUBSET IDs
    OBVIOUS
  <2>2. KeyIInv'
    BY <1>0, <1>1, <2>1, CallKeepsKeys
  <2>3. LossIInv'
    BY <1>0, <1>1, <2>1, CallKeepsLoss
  <2>4. CallIInv'
    BY <1>0, <1>1, <2>1, CallKeepsCalls
  <2> QED
    BY <2>2, <2>3, <2>4
<1>2. ASSUME LaterStep(p)
      PROVE  KeyIInv'
  BY <1>0, <1>2, LaterStepKeepsKeys
<1>3. ASSUME NEW a \in answers, Answered(p, a)
      PROVE  LossIInv' /\ CallIInv'
  BY <1>0, <1>3, AnsweredKeepsLoss, AnsweredKeepsCalls
<1>4. ASSUME NEW tx \in call[p].open, Fails(p, tx)
      PROVE  LossIInv' /\ CallIInv'
  BY <1>0, <1>4, FailsKeepsLoss, FailsKeepsCalls
<1>5. ASSUME NEW tx \in call[p].open, Resend(p, tx)
      PROVE  LossIInv' /\ CallIInv'
  BY <1>0, <1>5, ResendKeepsLoss, ResendKeepsCalls
<1>6. ASSUME Return(p)
      PROVE  LossIInv' /\ CallIInv'
  BY <1>0, <1>6, ReturnKeepsLoss, ReturnKeepsCalls
<1>7. ASSUME Grow(p)
      PROVE  LossIInv' /\ CallIInv'
  <2>1. UNCHANGED <<made, copies, wire, answers, call, told, counted, lost, faults, expiries>>
    BY <1>7 DEF Grow
  <2>2. expiries' \in 0 .. MaxExpiries
    BY <1>0, <2>1 DEF CallIInv
  <2> QED
    BY <2>1, <2>2, OthersKeep
<1>8. LaterStep(p) \/ (\E ids \in SUBSET {i \in IDs : made[i] = NoRequest} :
        \E req \in [ids -> Requests] : \E to \in Routes(p, req) : Call(p, ids, req, to))
  BY DEF Produce, LaterStep
<1>9. LaterStep(p) => LossIInv' /\ CallIInv'
  BY <1>3, <1>4, <1>5, <1>6, <1>7 DEF LaterStep
<1> QED
  BY <1>1, <1>2, <1>8, <1>9

(* Every step keeps the invariant. *)
LEMMA StepAll ==
  ASSUME AllIInv, [Next]_vars
  PROVE  AllIInv'
<1>0. ProducerIInv /\ Shapes /\ KeyIInv /\ LossIInv /\ CallIInv
  BY DEF AllIInv, ProducerIInv
<1>1. ProducerIInv'
  BY <1>0, ProducerStepInv
<1>2. ASSUME NEW tx \in wire, Execute(tx)
      PROVE  KeyIInv' /\ LossIInv' /\ CallIInv'
  BY <1>0, <1>1, <1>2, ExecuteKeepsKeys, ExecuteKeepsLoss, ExecuteKeepsCalls
<1>3. ASSUME NEW q \in Partitions, NEW r \in Keyed, KeyExpires(q, r)
      PROVE  KeyIInv' /\ LossIInv' /\ CallIInv'
  <2>1. UNCHANGED <<made, copies, wire, answers, call, told, counted, lost, faults>>
    BY <1>3 DEF KeyExpires
  <2>2. expiries' \in 0 .. MaxExpiries
    BY <1>0, <1>3, ProducerAssumption, SMT DEF CallIInv, KeyExpires
  <2> QED
    BY <1>0, <1>3, <2>1, <2>2, OthersKeep, KeyExpiresKeepsKeys
<1>4. ASSUME UNCHANGED vars
      PROVE  KeyIInv' /\ LossIInv' /\ CallIInv'
  <2>1. /\ UNCHANGED <<made, copies, wire, answers, call, told, counted, lost, faults>>
        /\ UNCHANGED <<dedupe, parts, expiries>>
    BY <1>4 DEF vars
  <2>2. expiries' \in 0 .. MaxExpiries
    BY <1>0, <2>1 DEF CallIInv
  <2>3. Awaited' = Awaited /\ \A r : IDsOf(r)' = IDsOf(r) /\ Holders(r)' = Holders(r) /\ Homes(r)' = Homes(r)
    BY <2>1 DEF Awaited, IDsOf, Holders, Homes
  <2>4. KeyIInv'
    BY <1>0, <2>1, <2>3 DEF KeyIInv, RequestsDiffer, SentHome, KeptHome, StoredIsMade, CopiesHaveHolders
  <2> QED
    BY <2>1, <2>2, <2>4, OthersKeep
<1> QED
  BY <1>1, <1>2, <1>3, <1>4, ProduceKeepsAll DEF Next, AllIInv

(* Along every execution of the producers, what is sent is about jobs that were
   made, and what is kept, answered or returned about jobs that are stored. *)
THEOREM ProducerInductiveInvariant == Spec => []ProducerIInv
BY ProducerInitInv, ProducerStepInv, PTL DEF Spec

(* EnqueueBatch's IDs say which jobs were stored: an ID that a caller is given
   is that of a job in the queue, for the very request it is returned for, with
   any number of producers, partitions, and transactions that fail, arrive late
   or are executed twice. *)
THEOREM ReturnedIDsAreStored == Spec => []IDsAreStored
BY IInvImpliesStored, ProducerInductiveInvariant, PTL

(* Keys are kept where they were sent and copies of keyed jobs take a partition
   or an expiry; copies of other jobs are paid for by a loss; and jobs of calls
   in progress, and what is answered and counted, are kept apart. *)
THEOREM ProducersKeepCount == Spec => []AllIInv
BY InitAll, StepAll, PTL DEF Spec

-----------------------------------------------------------------------------

(* The partitions of a key are one, or two if some producer knows of more. *)
LEMMA KeyHasFewHolders ==
  ASSUME AllIInv, NEW r \in Keyed, NEW grown, grown = IF \E p \in Producers : parts[p] # Before THEN 1 ELSE 0
  PROVE  Cardinality(Holders(r)) <= 1 + grown
<1> DEFINE b == Hash[r] % Before
           a == Hash[r] % After
<1>1. Holders(r) \subseteq Homes(r) /\ parts \in [Producers -> {Before, After}]
  BY DEF AllIInv, KeyIInv, KeptHome, ProducerIInv, Shapes
<1>2. IsFiniteSet({b}) /\ Cardinality({b}) = 1
  BY FS_Singleton
<1>3. IsFiniteSet({b} \cup {a}) /\ Cardinality({b} \cup {a}) \in {1, 2}
  <2>1. IsFiniteSet({b} \cup {a}) /\ Cardinality({b} \cup {a}) = IF a \in {b} THEN Cardinality({b}) ELSE Cardinality({b}) + 1
    BY <1>2, FS_AddElement
  <2> QED
    BY <1>2, <2>1, SMT
<1>4. CASE grown = 0
  <2>1. Holders(r) \subseteq {b}
    BY <1>1, <1>4, SMT DEF Homes
  <2>2. Cardinality(Holders(r)) <= Cardinality({b})
    BY <1>2, <2>1, FS_Subset
  <2> QED
    BY <1>2, <1>4, <2>2, SMT
<1>5. CASE grown = 1
  <2>1. Holders(r) \subseteq {b} \cup {a}
    BY <1>1, SMT DEF Homes
  <2>2. Cardinality(Holders(r)) <= Cardinality({b} \cup {a})
    BY <1>3, <2>1, FS_Subset
  <2>3. Cardinality(Holders(r)) \in Nat
    BY HoldersAreFinite
  <2> QED
    BY <1>3, <1>5, <2>2, <2>3, SMT
<1> QED
  BY <1>4, <1>5

(* A key's copies are as many as its partitions and expiries at most. *)
LEMMA AllImpliesKeyedOnce ==
  ASSUME AllIInv
  PROVE  KeyedOnce
<1> DEFINE grown == IF \E p \in Producers : parts[p] # Before THEN 1 ELSE 0
<1> SUFFICES ASSUME NEW r \in Keyed
             PROVE  Total(copies, IDsOf(r)) <= 1 + expiries + grown
  BY DEF KeyedOnce
<1>1. grown \in {0, 1} /\ Cardinality(Holders(r)) <= 1 + grown
  <2>1. PICK g : g = grown
    OBVIOUS
  <2>2. Cardinality(Holders(r)) <= 1 + g
    BY <2>1, KeyHasFewHolders
  <2> QED
    BY <2>1, <2>2
<1>2. Total(copies, IDsOf(r)) <= expiries + Cardinality(Holders(r))
  BY DEF AllIInv, KeyIInv, CopiesHaveHolders
<1>3. Cardinality(Holders(r)) \in Nat /\ Total(copies, IDsOf(r)) \in Nat /\ expiries \in Nat
  BY HoldersAreFinite, EachIsFinite, ProducerAssumption, SMT DEF AllIInv, ProducerIInv, Shapes, CallIInv, IDsOf
<1> HIDE DEF grown
<1> QED
  BY <1>1, <1>2, <1>3, SMT

(* All jobs but one of a request without a key are paid for. *)
LEMMA AllImpliesUnkeyedOnce ==
  ASSUME AllIInv
  PROVE  UnkeyedOnce
<1> SUFFICES ASSUME NEW r \in Requests \ Keyed
             PROVE  Total(copies, IDsOf(r)) <= 1 + Total(lost, IDsOf(r))
  BY DEF UnkeyedOnce
<1>1. IDsOf(r) \in SUBSET IDs /\ copies \in [IDs -> Nat] /\ lost \in [IDs -> Nat]
  BY DEF AllIInv, ProducerIInv, Shapes, LossIInv, IDsOf
<1>2. Total(copies, IDsOf(r)) \in Nat /\ Total(lost, IDsOf(r)) \in Nat
  BY <1>1, EachIsFinite
<1>3. \A i \in IDs : copies[i] <= lost[i] + IF <<i, NoID>> \in Given THEN 0 ELSE 1
  <2> SUFFICES ASSUME NEW i \in IDs
               PROVE  copies[i] <= lost[i] + IF <<i, NoID>> \in Given THEN 0 ELSE 1
    OBVIOUS
  <2>1. copies[i] + Cardinality(OnTheWay(i)) <= lost[i] + IF <<i, NoID>> \in Given THEN 0 ELSE 1
    BY DEF AllIInv, LossIInv, CopiesAreLost
  <2>2. Cardinality(OnTheWay(i)) \in Nat /\ copies[i] \in Nat /\ lost[i] \in Nat
    BY <1>1, OnTheWayIsFinite DEF AllIInv
  <2> QED
    BY <2>1, <2>2, SMT
<1>31. \A i \in IDsOf(r) : /\ copies[i] \in Nat /\ lost[i] \in Nat
                           /\ <<i, NoID>> \in told => copies[i] <= lost[i]
                           /\ copies[i] <= lost[i] + 1
  <2> SUFFICES ASSUME NEW i \in IDsOf(r)
               PROVE  /\ copies[i] \in Nat /\ lost[i] \in Nat
                      /\ <<i, NoID>> \in told => copies[i] <= lost[i]
                      /\ copies[i] <= lost[i] + 1
    OBVIOUS
  <2>1. i \in IDs /\ copies[i] \in Nat /\ lost[i] \in Nat
    BY <1>1
  <2>2. <<i, NoID>> \in told => <<i, NoID>> \in Given
    BY DEF Given
  <2>3. copies[i] <= lost[i] + IF <<i, NoID>> \in Given THEN 0 ELSE 1
    BY <1>3, <2>1
  <2> QED
    BY <2>1, <2>2, <2>3, SMT
<1>4. CASE \A i \in IDsOf(r) : <<i, NoID>> \in told
  <2>1. ASSUME NEW i \in IDsOf(r)
        PROVE  copies[i] <= lost[i]
    BY <1>31, <1>4
  <2>2. Total(copies, IDsOf(r)) <= Total(lost, IDsOf(r))
    BY <1>1, <2>1, NoMore
  <2> QED
    BY <1>2, <2>2, SMT
<1>5. CASE ~ \A i \in IDsOf(r) : <<i, NoID>> \in told
  <2>1. PICK k \in IDsOf(r) : <<k, NoID>> \notin told
    BY <1>5
  <2>2. \A i \in IDsOf(r) : i # k => <<i, NoID>> \in told
    BY <2>1 DEF AllIInv, LossIInv, AskedAgain, IDsOf
  <2>3. ASSUME NEW i \in IDsOf(r)
        PROVE  copies[i] <= lost[i] \/ (i = k /\ copies[i] <= lost[i] + 1)
    BY <1>31, <2>2
  <2>4. Total(copies, IDsOf(r)) <= Total(lost, IDsOf(r)) + 1
    BY <1>1, <2>3, OneMore
  <2> QED
    BY <1>2, <2>4, SMT
<1> QED
  BY <1>4, <1>5

(* What is counted, and what is not yet. *)
LEMMA AllImpliesCounted ==
  ASSUME AllIInv
  PROVE  CountedIsStored
<1> SUFFICES ASSUME NEW i \in IDs
             PROVE  /\ counted[i] <= 1
                    /\ counted[i] = 1 => copies[i] > 0
                    /\ copies[i] > 0 /\ lost[i] = 0 =>
                         counted[i] = 1 \/ \E p \in Producers : i \in call[p].ids
  BY DEF CountedIsStored
<1>1. counted[i] <= 1 /\ (counted[i] = 1 => copies[i] > 0)
  BY SMT DEF AllIInv, CallIInv, CountedOnce
<1>2. ASSUME NEW p \in Producers, <<i, i>> \in call[p].got
      PROVE  i \in call[p].ids
  BY <1>2, SMT DEF AllIInv, CallIInv, CallsApart
<1>3. ASSUME NEW a \in answers, i \in a.tx.ids
      PROVE  \E p \in Producers : i \in call[p].ids
  <2>1. a.tx \in Awaited
    BY DEF AllIInv, CallIInv, AnswersAreAwaited
  <2>2. PICK p \in Producers : a.tx \in call[p].open
    BY <2>1 DEF Awaited
  <2> QED
    BY <1>3, <2>2 DEF AllIInv, CallIInv, CallsApart
<1> QED
  BY <1>1, <1>2, <1>3 DEF AllIInv, CallIInv, StoredIsTraced

(* Every variable has its type. *)
LEMMA AllImpliesTypes ==
  ASSUME AllIInv
  PROVE  TypeOK
<1>0. Shapes /\ LossIInv /\ CallIInv /\ SentIsMade
  BY DEF AllIInv, ProducerIInv
<1>1. ASSUME NEW tx \in wire \cup Awaited, tx \in Sent
      PROVE  tx \in Transactions
  <2>1. tx.ids # {} /\ tx.send + faults <= MaxFaults /\ faults \in 0 .. MaxFaults
    BY <1>0 DEF CallIInv, SendsAreBounded
  <2>2. tx.send \in 0 .. MaxFaults
    BY <1>1, <2>1, ProducerAssumption, SMT DEF Sent
  <2>3. tx = [part |-> tx.part, ids |-> tx.ids, send |-> tx.send] /\ tx.part \in Partitions
        /\ tx.ids \in (SUBSET IDs) \ {{}}
    BY <1>1, <2>1 DEF Sent
  <2> QED
    BY <2>2, <2>3 DEF Transactions
<1>2. /\ made \in [IDs -> Requests \cup {NoRequest}]
      /\ copies \in [IDs -> Nat] /\ counted \in [IDs -> Nat] /\ lost \in [IDs -> Nat]
      /\ dedupe \in [Partitions -> [Keyed -> IDs \cup {NoID}]]
      /\ told \subseteq IDs \X (IDs \cup {NoID})
      /\ parts \in [Producers -> {Before, After}]
      /\ faults \in 0 .. MaxFaults /\ expiries \in 0 .. MaxExpiries
  BY <1>0 DEF Shapes, LossIInv, CallIInv, Pairs
<1>3. wire \subseteq Transactions /\ \A tx \in wire, i \in IDs : i \in tx.ids => made[i] \in Requests
  BY <1>0, <1>1 DEF Shapes, SentIsMade
<1>4. \A a \in answers : a.tx \in Transactions /\ a.ids \in [a.tx.ids -> IDs]
  BY <1>0, <1>1 DEF Shapes, CallIInv, AnswersAreAwaited
<1>5. ASSUME NEW p \in Producers
      PROVE  /\ call[p].ids \subseteq IDs /\ call[p].open \subseteq Transactions
             /\ call[p].got \subseteq IDs \X (IDs \cup {NoID})
  <2>1. call[p].ids \in SUBSET IDs /\ call[p].open \in SUBSET Sent /\ call[p].got \in SUBSET Pairs
    BY <1>0, CallFields
  <2>2. call[p].open \subseteq Awaited
    BY DEF Awaited
  <2> QED
    BY <1>1, <2>1, <2>2 DEF Pairs
<1> QED
  BY <1>2, <1>3, <1>4, <1>5 DEF TypeOK

(* Whatever is sent late or twice, fails or is retried, a request with an
   idempotency key is stored once for each dedupe window, and once more if the
   queue grew: for any number of producers, partitions, keys and faults. *)
THEOREM KeyedAreStoredOnce == Spec => []KeyedOnce
BY AllImpliesKeyedOnce, ProducersKeepCount, PTL

(* Who retries only the requests that came back without an ID, stores one copy
   more at most for each loss of the request's own transaction. *)
THEOREM UnkeyedAreStoredOnce == Spec => []UnkeyedOnce
BY AllImpliesUnkeyedOnce, ProducersKeepCount, PTL

(* JobEnqueued counts a job once, counts stored jobs only, and misses none whose
   call returned, unless something of it was lost. *)
THEOREM StoredAreCounted == Spec => []CountedIsStored
BY AllImpliesCounted, ProducersKeepCount, PTL

(* The variables keep their types; a transaction is sent no more often than there
   were faults. *)
THEOREM ProducerTypeCorrect == Spec => []TypeOK
BY AllImpliesTypes, ProducersKeepCount, PTL
=============================================================================
