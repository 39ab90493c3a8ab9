--------------------------- MODULE RecoveryProofs ---------------------------
(***************************************************************************)
(* Proofs about Recovery, for any number of workers, partitions, entries,  *)
(* rounds of the script and faults: what a sweep leases is run, by one     *)
(* worker only, and no sweep leases more than the worker has slots for.    *)
(***************************************************************************)
EXTENDS Recovery, FiniteSetTheorems, WellFoundedInduction, TLAPS

(* Leaves are Zenon's, but for those that name SMT. *)
USE Zenon

-----------------------------------------------------------------------------
(* What the script finds *)

(* A set of naturals that is not empty has a least element. *)
LEMMA LeastNat ==
  ASSUME NEW S, S \subseteq Nat, S # {}
  PROVE  \E m \in S : \A n \in S : m <= n
<1>1. PICK m \in S : \A n \in S : ~(<<n, m>> \in OpToRel(<, Nat))
  BY NatLessThanWellFounded, WFMin
<1>2. ASSUME NEW n \in S
      PROVE  m <= n
  <2>1. m \in Nat /\ n \in Nat
    OBVIOUS
  <2>2. n < m => <<n, m>> \in OpToRel(<, Nat)
    BY <2>1, SMT DEF OpToRel
  <2>3. ~(n < m)
    BY <1>1, <2>2
  <2>4. QED
    BY <2>1, <2>3, SMT
<1>3. QED
  BY <1>2

(* A set of IDs that is not empty has a greatest element. *)
LEMMA GreatestID ==
  ASSUME NEW S, S \subseteq IDs, S # {}
  PROVE  \E m \in S : \A n \in S : n <= m
<1> DEFINE B == {b \in Nat : \A n \in S : n <= b}
<1>1. Depth \in B
  BY RecoveryAssumption, SMT DEF IDs
<1>2. PICK m \in B : \A b \in B : m <= b
  <2>1. B \subseteq Nat /\ B # {}
    BY <1>1
  <2>2. QED
    BY <2>1, LeastNat
<1>3. PICK x \in S : TRUE
  OBVIOUS
<1>4. m \in Nat /\ m >= 1 /\ \A n \in S : n \in Nat /\ n <= m
  BY <1>3, RecoveryAssumption, SMT DEF IDs
<1>5. m \in S
  <2> SUFFICES ASSUME m \notin S PROVE FALSE
    OBVIOUS
  <2>1. m - 1 \in Nat /\ \A n \in S : n <= m - 1
    BY <1>4, SMT
  <2>2. m - 1 \in B
    BY <2>1
  <2>3. m <= m - 1
    BY <1>2, <2>2
  <2>4. QED
    BY <1>4, <2>3, SMT
<1>6. QED
  BY <1>4, <1>5

(* Sets of IDs are finite. *)
LEMMA IDsAreFinite ==
  ASSUME NEW S, S \subseteq IDs
  PROVE  IsFiniteSet(S) /\ Cardinality(S) \in Nat
<1>1. 1 \in Int /\ Depth \in Int
  BY RecoveryAssumption, SMT
<1>2. IsFiniteSet(IDs)
  BY <1>1, FS_Interval DEF IDs
<1>3. QED
  BY <1>2, FS_Subset, FS_CardinalityType

(* One XAUTOCLAIM claims no more than it may, and stops in the list or at "0-0". *)
LEMMA OneCall ==
  ASSUME NEW p, NEW from \in Nat, NEW count \in Nat
  PROVE  LET seen == Examined(p, from, count)
         IN  /\ StoppedAt(p, from, seen) \in 0 .. Depth
             /\ Cardinality(seen \cap Expired(p)) <= count
<1> DEFINE seen == Examined(p, from, count)
           E == seen \cap Expired(p)
           rest == {n \in Pending(p) : n >= from} \ seen
<1>1. StoppedAt(p, from, seen) \in 0 .. Depth
  <2>1. CASE rest = {}
    <3>1. StoppedAt(p, from, seen) = 0
      BY <2>1 DEF StoppedAt
    <3>2. 0 \in 0 .. Depth
      BY RecoveryAssumption, SMT
    <3>3. QED
      BY <3>1, <3>2
  <2>2. CASE rest # {}
    <3>1. rest \subseteq IDs
      BY DEF Pending
    <3>2. rest \subseteq Nat
      BY <3>1, RecoveryAssumption, SMT DEF IDs
    <3>3. \E m \in rest : \A n \in rest : m <= n
      BY <2>2, <3>2, LeastNat
    <3>4. Min(rest) \in rest
      BY <3>3 DEF Min
    <3>5. StoppedAt(p, from, seen) = Min(rest)
      BY <2>2 DEF StoppedAt
    <3>6. IDs \subseteq 0 .. Depth
      BY RecoveryAssumption, SMT DEF IDs
    <3>7. QED
      BY <3>1, <3>4, <3>5, <3>6
  <2>3. QED
    BY <2>1, <2>2
<1>2. Cardinality(E) <= count
  <2>1. E \subseteq IDs /\ IsFiniteSet(E) /\ Cardinality(E) \in Nat
    BY IDsAreFinite DEF Expired
  <2>2. CASE E = {}
    BY <2>2, FS_EmptySet, SMT
  <2>3. CASE E # {}
    <3>1. PICK m \in E : \A n \in E : n <= m
      BY <2>1, <2>3, GreatestID
    <3> DEFINE F == Expired(p) \cap (from .. m - 1)
    <3>2. Cardinality(F) < count
      BY <3>1 DEF Examined
    <3>3. E \ {m} \subseteq F
      <4>1. \A n \in E : n \in IDs /\ n >= from /\ n \in Expired(p)
        BY <2>1 DEF Examined
      <4>2. \A n \in E \ {m} : n \in from .. m - 1
        BY <3>1, <4>1, RecoveryAssumption, SMT DEF IDs
      <4>3. QED
        BY <4>1, <4>2
    <3>4. IsFiniteSet(F) /\ Cardinality(F) \in Nat
      BY IDsAreFinite DEF Expired
    <3>5. Cardinality(E \ {m}) = Cardinality(E) - 1
      BY <2>1, FS_RemoveElement
    <3>6. Cardinality(E \ {m}) <= Cardinality(F)
      BY <3>3, <3>4, FS_Subset
    <3>7. QED
      BY <2>1, <3>2, <3>4, <3>5, <3>6, SMT
  <2>4. QED
    BY <2>2, <2>3
<1>3. QED
  BY <1>1, <1>2

(* What a scan that wants so many may have come to. *)
Found(p, want, s) ==
  s.at \in 0 .. Depth /\ s.out \subseteq Expired(p) /\ Cardinality(s.out) <= want

(* One round of the script keeps to that. *)
LEMMA OneRound ==
  ASSUME NEW p, NEW want \in Nat, NEW i, NEW s, Found(p, want, s)
  PROVE  Found(p, want, Round(p, want, i, s))
<1> DEFINE count == want - Cardinality(s.out)
           seen == Examined(p, s.at, count)
           E == seen \cap Expired(p)
<1>1. IsFiniteSet(s.out) /\ Cardinality(s.out) \in Nat
  BY IDsAreFinite DEF Found, Expired
<1>2. count \in Nat /\ s.at \in Nat
  BY <1>1, RecoveryAssumption, SMT DEF Found
<1> HIDE DEF count
<1>3. StoppedAt(p, s.at, seen) \in 0 .. Depth /\ Cardinality(E) <= count
  BY <1>2, OneCall
<1>4. IsFiniteSet(E) /\ Cardinality(E) \in Nat
  BY IDsAreFinite DEF Expired
<1>5. Cardinality(s.out \cup E) <= want
  <2>1. Cardinality(s.out \cup E) = Cardinality(s.out) + Cardinality(E) - Cardinality(s.out \cap E)
    BY <1>1, <1>4, FS_Union
  <2>2. Cardinality(s.out \cap E) \in Nat
    BY IDsAreFinite DEF Expired
  <2>3. Cardinality(s.out) + count = want
    BY <1>1, SMT DEF count
  <2>4. QED
    BY <1>1, <1>2, <1>3, <1>4, <2>1, <2>2, <2>3, SMT
<1> DEFINE t == [at |-> StoppedAt(p, s.at, seen), out |-> s.out \cup E]
<1>6. Found(p, want, t)
  <2>1. t.at = StoppedAt(p, s.at, seen) /\ t.out = s.out \cup E
    OBVIOUS
  <2>2. s.out \cup E \subseteq Expired(p)
    BY DEF Found
  <2>3. QED
    BY <1>3, <1>5, <2>1, <2>2 DEF Found
<1>7. Round(p, want, i, s) = s \/ Round(p, want, i, s) = t
  BY DEF Round, count
<1>8. QED
  BY <1>6, <1>7

(* The first n rounds of a scan. *)
IsScan(p, from, want, n, f) ==
  f = [i \in 0 .. n |-> IF i = 0 THEN [at |-> from, out |-> {}]
                        ELSE Round(p, want, i, f[i - 1])]

(* There is a function that goes from each round to the next: the recursion of
   Scan has a solution. *)
LEMMA ScanExists ==
  ASSUME NEW p, NEW from, NEW want, NEW r \in Nat
  PROVE  \E f : IsScan(p, from, want, r, f)
<1> DEFINE Bad == {n \in Nat : ~(\E f : IsScan(p, from, want, n, f))}
           first == [at |-> from, out |-> {}]
<1> SUFFICES ASSUME Bad # {} PROVE FALSE
  OBVIOUS
<1>1. PICK n \in Bad : \A m \in Bad : n <= m
  <2>1. Bad \subseteq Nat
    OBVIOUS
  <2>2. QED
    BY <2>1, LeastNat
<1>2. CASE n = 0
  <2> DEFINE f == [i \in 0 .. 0 |-> first]
  <2>1. f = [i \in 0 .. 0 |-> IF i = 0 THEN first ELSE Round(p, want, i, f[i - 1])]
    BY SMT
  <2>2. IsScan(p, from, want, n, f)
    BY <1>2, <2>1 DEF IsScan
  <2>3. QED
    BY <2>2
<1>3. CASE n # 0
  <2>1. n \in Nat /\ n - 1 \in Nat /\ ~(n <= n - 1)
    BY <1>3, SMT
  <2>2. n - 1 \notin Bad
    BY <1>1, <2>1
  <2>3. PICK f : IsScan(p, from, want, n - 1, f)
    BY <2>1, <2>2
  <2> DEFINE g == [i \in 0 .. n |-> IF i = n THEN Round(p, want, n, f[n - 1]) ELSE f[i]]
  <2>4. ASSUME NEW i \in 0 .. n
        PROVE  g[i] = IF i = 0 THEN first ELSE Round(p, want, i, g[i - 1])
    <3>1. CASE i = n
      <4>1. g[n] = Round(p, want, n, f[n - 1]) /\ g[n - 1] = f[n - 1]
        BY <1>3, <2>1, SMT
      <4>2. QED
        BY <1>3, <3>1, <4>1
    <3>2. CASE i # n
      <4>1. i \in 0 .. n - 1 /\ g[i] = f[i]
        BY <2>1, <3>2, SMT
      <4>2. f[i] = IF i = 0 THEN first ELSE Round(p, want, i, f[i - 1])
        BY <2>3, <4>1 DEF IsScan
      <4>3. i # 0 => g[i - 1] = f[i - 1]
        BY <2>1, <4>1, SMT
      <4>4. QED
        BY <4>1, <4>2, <4>3
    <3>3. QED
      BY <3>1, <3>2
  <2>5. g = [i \in 0 .. n |-> g[i]]
    OBVIOUS
  <2> HIDE DEF g
  <2>6. g = [i \in 0 .. n |-> IF i = 0 THEN first ELSE Round(p, want, i, g[i - 1])]
    BY <2>4, <2>5
  <2>7. IsScan(p, from, want, n, g)
    BY <2>6 DEF IsScan
  <2>8. QED
    BY <2>7
<1>4. QED
  BY <1>2, <1>3

(* Every round of a scan, and so the last, finds expired entries only and no
   more than are wanted. *)
LEMMA ScanFinds ==
  ASSUME NEW p, NEW from \in 0 .. Depth, NEW want \in Nat
  PROVE  Found(p, want, Scan(p, from, want))
<1> DEFINE f == CHOOSE after : IsScan(p, from, want, Rounds, after)
<1>1. Scan(p, from, want) = f[Rounds]
  BY DEF Scan, IsScan
<1>2. Rounds \in Nat /\ 0 \in Nat /\ 0 <= want
  BY RecoveryAssumption, SMT
<1>3. IsScan(p, from, want, Rounds, f)
  BY <1>2, ScanExists
<1> HIDE DEF f
<1> DEFINE Bad == {n \in 0 .. Rounds : ~Found(p, want, f[n])}
<1>4. Bad = {}
  <2> SUFFICES ASSUME Bad # {} PROVE FALSE
    OBVIOUS
  <2>1. PICK n \in Bad : \A m \in Bad : n <= m
    <3>1. Bad \subseteq Nat
      BY <1>2, SMT
    <3>2. QED
      BY <3>1, LeastNat
  <2>2. n \in 0 .. Rounds /\ ~Found(p, want, f[n])
    OBVIOUS
  <2>3. CASE n = 0
    <3>1. f[n] = [at |-> from, out |-> {}]
      BY <1>3, <2>2, <2>3 DEF IsScan
    <3>2. f[n].at = from /\ f[n].out = {}
      BY <3>1, SMT
    <3>3. Found(p, want, f[n])
      BY <1>2, <3>2, FS_EmptySet DEF Found
    <3>4. QED
      BY <2>2, <3>3
  <2>4. CASE n # 0
    <3>1. n - 1 \in 0 .. Rounds /\ ~(n <= n - 1)
      BY <1>2, <2>2, <2>4, SMT
    <3>2. Found(p, want, f[n - 1])
      BY <2>1, <3>1
    <3>3. f[n] = Round(p, want, n, f[n - 1])
      BY <1>3, <2>2, <2>4 DEF IsScan
    <3>4. QED
      BY <2>2, <3>2, <3>3, OneRound
  <2>5. QED
    BY <2>3, <2>4
<1>5. Rounds \in 0 .. Rounds
  BY <1>2, SMT
<1>6. QED
  BY <1>1, <1>4, <1>5

-----------------------------------------------------------------------------
(* Who has which entry *)

Whose == {"new", "ours", "theirs", "expired", "gone"}

(* Sets of entries are finite. *)
LEMMA EntriesAreFinite ==
  ASSUME NEW S, S \subseteq Entries
  PROVE  IsFiniteSet(S) /\ Cardinality(S) \in Nat
<1>1. 0 \in Int /\ Parts - 1 \in Int
  BY RecoveryAssumption, SMT
<1>2. IsFiniteSet(Partitions) /\ IsFiniteSet(IDs)
  BY <1>1, FS_Interval, IDsAreFinite DEF Partitions
<1>3. IsFiniteSet(Entries)
  BY <1>2, FS_Product DEF Entries
<1>4. QED
  BY <1>3, FS_Subset, FS_CardinalityType

(* Entries change hands. *)
LEMMA BecomeFacts ==
  ASSUME TypeOK, NEW es, es \subseteq Entries, NEW whose \in Whose, Become(es, whose)
  PROVE  /\ entry' \in [Partitions -> [IDs -> Whose]]
         /\ whose = "ours" => Are("ours")' = Are("ours") \cup es
         /\ whose # "ours" => Are("ours")' = Are("ours") \ es
<1>1. entry \in [Partitions -> [IDs -> Whose]]
  BY DEF TypeOK, Whose
<1>2. entry' = [p \in Partitions |-> [n \in IDs |-> IF <<p, n>> \in es THEN whose ELSE entry[p][n]]]
  BY DEF Become
<1>3. entry' \in [Partitions -> [IDs -> Whose]]
  BY <1>1, <1>2
<1>4. ASSUME NEW e \in Entries
      PROVE  entry'[e[1]][e[2]] = IF e \in es THEN whose ELSE entry[e[1]][e[2]]
  <2>1. e[1] \in Partitions /\ e[2] \in IDs /\ <<e[1], e[2]>> = e
    BY SMT DEF Entries
  <2>2. QED
    BY <1>2, <2>1
<1>5. /\ Are("ours") = {e \in Entries : entry[e[1]][e[2]] = "ours"}
      /\ Are("ours")' = {e \in Entries : entry'[e[1]][e[2]] = "ours"}
  BY DEF Are
<1>6. whose = "ours" => Are("ours")' = Are("ours") \cup es
  BY <1>4, <1>5
<1>7. whose # "ours" => Are("ours")' = Are("ours") \ es
  BY <1>4, <1>5
<1>8. QED
  BY <1>3, <1>6, <1>7

(* An entry is in one state at a time. *)
LEMMA NotOurs ==
  ASSUME NEW whose, whose # "ours"
  PROVE  Are(whose) \cap Are("ours") = {} /\ Are(whose) \subseteq Entries
  BY DEF Are

(* What a scan finds of a partition. *)
LEMMA ScannedEntries ==
  ASSUME NEW p \in Partitions, NEW from \in 0 .. Depth, NEW want \in Nat
  PROVE  LET s == Scan(p, from, want)
             es == {p} \X s.out
         IN  /\ s.at \in 0 .. Depth
             /\ es \subseteq Entries /\ es \cap Are("ours") = {}
             /\ Cardinality(es) <= want
<1> DEFINE s == Scan(p, from, want)
           es == {p} \X s.out
<1>1. s.at \in 0 .. Depth /\ s.out \subseteq Expired(p) /\ Cardinality(s.out) <= want
  BY ScanFinds DEF Found
<1> HIDE DEF s
<1>2. s.out \subseteq IDs
  BY <1>1 DEF Expired
<1>3. es \subseteq Entries
  BY <1>2, SMT DEF Entries
<1>4. es \cap Are("ours") = {}
  <2> SUFFICES ASSUME NEW e \in es, e \in Are("ours") PROVE FALSE
    OBVIOUS
  <2>1. e[1] = p /\ e[2] \in s.out
    BY SMT
  <2>2. entry[p][e[2]] = "expired" /\ entry[e[1]][e[2]] = "ours"
    BY <1>1, <2>1 DEF Expired, Are
  <2>3. QED
    BY <2>1, <2>2
<1>5. Cardinality(es) = Cardinality(s.out)
  <2>1. /\ IsFiniteSet({p}) /\ Cardinality({p}) = 1
        /\ IsFiniteSet(s.out) /\ Cardinality(s.out) \in Nat
    BY <1>2, IDsAreFinite, FS_Singleton
  <2>2. Cardinality(es) = Cardinality({p}) * Cardinality(s.out)
    BY <2>1, FS_Product
  <2>3. QED
    BY <2>1, <2>2, SMT
<1>6. QED
  BY <1>1, <1>3, <1>4, <1>5 DEF s

(* RecoveredIsRun, entry by entry. *)
EachIsRun ==
  /\ \A e : e \in Are("ours") <=> \E w \in Workers : e \in InHand(w)
  /\ \A e : \A v, w \in Workers : e \in InHand(v) /\ e \in InHand(w) => v = w

LEMMA OneByOne == RecoveredIsRun <=> EachIsRun
<1>1. Are("ours") = UNION {InHand(w) : w \in Workers} <=>
        \A e : e \in Are("ours") <=> \E w \in Workers : e \in InHand(w)
  <2>1. \A e : e \in UNION {InHand(w) : w \in Workers} <=> \E w \in Workers : e \in InHand(w)
    OBVIOUS
  <2>2. QED
    BY <2>1
<1>2. (\A v, w \in Workers : v # w => InHand(v) \cap InHand(w) = {}) <=>
        \A e : \A v, w \in Workers : e \in InHand(v) /\ e \in InHand(w) => v = w
  OBVIOUS
<1>3. QED
  BY <1>1, <1>2 DEF RecoveredIsRun, EachIsRun

(* One worker gets entries that nobody here had. *)
LEMMA HandsGain ==
  ASSUME RecoveredIsRun, NEW w \in Workers, NEW es, es \cap Are("ours") = {},
         Are("ours")' = Are("ours") \cup es, InHand(w)' = InHand(w) \cup es,
         \A v \in Workers : v # w => InHand(v)' = InHand(v)
  PROVE  RecoveredIsRun'
<1>1. /\ \A e : e \in Are("ours") <=> \E v \in Workers : e \in InHand(v)
      /\ \A e : \A u, v \in Workers : e \in InHand(u) /\ e \in InHand(v) => u = v
  BY OneByOne DEF EachIsRun
<1>2. ASSUME NEW e, NEW v \in Workers
      PROVE  e \in InHand(v)' <=> IF e \in es THEN v = w ELSE e \in InHand(v)
  <2>1. e \in es => e \notin InHand(v)
    BY <1>1
  <2>2. QED
    BY <2>1
<1>3. \A e : e \in Are("ours")' <=> \E v \in Workers : e \in InHand(v)'
  BY <1>1, <1>2
<1>4. ASSUME NEW e, NEW u \in Workers, NEW v \in Workers, e \in InHand(u)', e \in InHand(v)'
      PROVE  u = v
  <2>1. /\ e \in InHand(u)' <=> IF e \in es THEN u = w ELSE e \in InHand(u)
        /\ e \in InHand(v)' <=> IF e \in es THEN v = w ELSE e \in InHand(v)
    BY <1>2
  <2>2. CASE e \in es
    BY <1>4, <2>1, <2>2
  <2>3. CASE e \notin es
    BY <1>1, <1>4, <2>1, <2>3
  <2>4. QED
    BY <2>2, <2>3
<1>5. EachIsRun'
  BY <1>3, <1>4 DEF EachIsRun
<1>6. QED
  BY <1>5, OneByOne, PTL

(* One worker gives up entries that it had. *)
LEMMA HandsLose ==
  ASSUME RecoveredIsRun, NEW w \in Workers, NEW es, es \subseteq InHand(w),
         Are("ours")' = Are("ours") \ es, InHand(w)' = InHand(w) \ es,
         \A v \in Workers : v # w => InHand(v)' = InHand(v)
  PROVE  RecoveredIsRun'
<1>1. /\ \A e : e \in Are("ours") <=> \E v \in Workers : e \in InHand(v)
      /\ \A e : \A u, v \in Workers : e \in InHand(u) /\ e \in InHand(v) => u = v
  BY OneByOne DEF EachIsRun
<1>2. ASSUME NEW e, NEW v \in Workers
      PROVE  e \in InHand(v)' <=> e \in InHand(v) /\ e \notin es
  <2>1. e \in es /\ v # w => e \notin InHand(v)
    BY <1>1
  <2>2. QED
    BY <2>1
<1>3. \A e : e \in Are("ours")' <=> \E v \in Workers : e \in InHand(v)'
  BY <1>1, <1>2
<1>4. \A e : \A u, v \in Workers : e \in InHand(u)' /\ e \in InHand(v)' => u = v
  BY <1>1, <1>2
<1>5. EachIsRun'
  BY <1>3, <1>4 DEF EachIsRun
<1>6. QED
  BY <1>5, OneByOne, PTL

(* No worker's hands change. *)
LEMMA HandsStay ==
  ASSUME RecoveredIsRun, Are("ours")' = Are("ours"),
         \A v \in Workers : InHand(v)' = InHand(v)
  PROVE  RecoveredIsRun'
  BY DEF RecoveredIsRun

-----------------------------------------------------------------------------
(* What the steps preserve *)

(* Only one worker's fetch and runs change, and they fit. *)
LEMMA OneWorkerMoves ==
  ASSUME RecoveryIInv, NEW w \in Workers, fetch' \in [Workers -> Fetches],
         \A v \in Workers : v # w => fetch'[v] = fetch[v] /\ running'[v] = running[v],
         Fits(fetch'[w], running'[w])
  PROVE  FetchFits' /\ \A v \in Workers : v # w => InHand(v)' = InHand(v)
  BY DEF RecoveryIInv, FetchFits, InHand

(* The facts about a worker's fetch and runs that its steps use. *)
LEMMA WorkerFacts ==
  ASSUME RecoveryIInv, NEW w \in Workers
  PROVE  LET f == fetch[w]
         IN  /\ f \in Fetches /\ Fits(f, running[w])
             /\ f.got \subseteq Entries /\ f.last \subseteq Entries /\ running[w] \subseteq Entries
             /\ running[w] \subseteq Are("ours") /\ f.got \subseteq Are("ours")
             /\ f.last \subseteq Are("ours")
             /\ Cardinality(running[w]) \in Nat /\ Cardinality(f.got) \in Nat
             /\ Cardinality(f.got) <= f.limit /\ f.limit \in Nat /\ Wanted(f) \in Nat
<1>1. fetch[w] \in Fetches /\ Fits(fetch[w], running[w]) /\ running[w] \subseteq Entries
  BY DEF RecoveryIInv, TypeOK, FetchFits
<1>2. fetch[w].got \subseteq Entries /\ fetch[w].last \subseteq Entries
  BY <1>1, SMT DEF Fetches
<1>3. InHand(w) \subseteq Are("ours")
  BY DEF RecoveryIInv, RecoveredIsRun
<1>4. /\ Cardinality(running[w]) \in Nat /\ Cardinality(fetch[w].got) \in Nat
      /\ IsFiniteSet(fetch[w].got \cup fetch[w].last)
      /\ Cardinality(fetch[w].got \cup fetch[w].last) \in Nat
  BY <1>1, <1>2, EntriesAreFinite
<1>5. Cardinality(fetch[w].got) <= Cardinality(fetch[w].got \cup fetch[w].last)
  BY <1>4, FS_Subset
<1>6. fetch[w].limit \in Nat
  BY <1>1, RecoveryAssumption, SMT DEF Fetches
<1>7. Cardinality(fetch[w].got) <= fetch[w].limit /\ Wanted(fetch[w]) \in Nat
  <2>1. Cardinality(fetch[w].got \cup fetch[w].last) <= fetch[w].limit
    BY <1>1 DEF Fits
  <2>2. Cardinality(fetch[w].got) <= fetch[w].limit
    BY <1>4, <1>5, <1>6, <2>1, SMT
  <2>3. QED
    BY <1>4, <1>6, <2>2, SMT DEF Wanted
<1>8. QED
  BY <1>1, <1>2, <1>3, <1>4, <1>6, <1>7 DEF InHand

(* The partition whose turn it is. *)
LEMMA PartIsOne ==
  ASSUME NEW f \in Fetches
  PROVE  Part(f) \in Partitions
<1>1. f.start \in Nat /\ f.i \in Nat /\ Parts \in Nat \ {0}
  BY RecoveryAssumption, SMT DEF Fetches, Partitions
<1>2. QED
  BY <1>1, SMT DEF Part, Partitions

(* Two sets of entries that are not too many are not too many together. *)
LEMMA Together ==
  ASSUME NEW S, NEW T, S \subseteq Entries, T \subseteq Entries, NEW m \in Nat, NEW n \in Nat,
         Cardinality(S) <= m, Cardinality(T) <= n
  PROVE  Cardinality(S \cup T) <= m + n /\ Cardinality(S \cup T) \in Nat
<1>1. /\ IsFiniteSet(S) /\ IsFiniteSet(T) /\ Cardinality(S) \in Nat /\ Cardinality(T) \in Nat
      /\ Cardinality(S \cap T) \in Nat /\ Cardinality(S \cup T) \in Nat
  BY EntriesAreFinite
<1>2. Cardinality(S \cup T) = Cardinality(S) + Cardinality(T) - Cardinality(S \cap T)
  BY <1>1, FS_Union
<1>3. QED
  BY <1>1, <1>2, SMT

(* Entries that are not ours change hands elsewhere. *)
LEMMA ElsewhereInv ==
  ASSUME RecoveryIInv, NEW es, es \subseteq Entries, es \cap Are("ours") = {},
         NEW whose \in Whose, whose # "ours", Become(es, whose),
         cursor' \in [Partitions -> 0 .. Depth],
         UNCHANGED <<claimNext, due, fetch, running, faults>>
  PROVE  RecoveryIInv'
<1>1. TypeOK /\ RecoveredIsRun /\ FetchFits
  BY DEF RecoveryIInv
<1>2. entry' \in [Partitions -> [IDs -> Whose]] /\ Are("ours")' = Are("ours") \ es
  BY <1>1, BecomeFacts
<1>3. Are("ours")' = Are("ours") /\ \A v \in Workers : InHand(v)' = InHand(v)
  BY <1>2 DEF InHand
<1>4. RecoveredIsRun'
  BY <1>1, <1>3, HandsStay
<1>5. QED
  BY <1>1, <1>2, <1>4 DEF RecoveryIInv, TypeOK, FetchFits, Whose

(* The other processes, and new jobs. *)
LEMMA OthersInv ==
  ASSUME RecoveryIInv,
         \/ \E e \in Entries : OtherClaims(e) \/ OtherSettles(e) \/ LeaseExpires(e)
         \/ \E p \in Partitions : Refill(p)
  PROVE  RecoveryIInv'
<1>1. cursor \in [Partitions -> 0 .. Depth]
  BY DEF RecoveryIInv, TypeOK
<1>2. ASSUME NEW e \in Entries, OtherClaims(e) \/ OtherSettles(e) \/ LeaseExpires(e)
      PROVE  RecoveryIInv'
  <2>1. e \in Are("new") \/ e \in Are("theirs")
    BY <1>2 DEF OtherClaims, OtherSettles, LeaseExpires
  <2>2. {e} \subseteq Entries /\ {e} \cap Are("ours") = {}
    BY <2>1, NotOurs
  <2>3. PICK whose \in {"theirs", "gone", "expired"} : Become({e}, whose)
    BY <1>2 DEF OtherClaims, OtherSettles, LeaseExpires
  <2>4. UNCHANGED <<cursor, claimNext, due, fetch, running, faults>>
    BY <1>2 DEF OtherClaims, OtherSettles, LeaseExpires
  <2>5. whose \in Whose /\ whose # "ours"
    BY <2>3 DEF Whose
  <2>6. QED
    BY <1>1, <2>2, <2>3, <2>4, <2>5, ElsewhereInv
<1>3. ASSUME NEW p \in Partitions, Refill(p)
      PROVE  RecoveryIInv'
  <2> DEFINE es == {p} \X Stored(p)
  <2>1. Stored(p) \subseteq IDs
    <3>1. 1 \in IDs
      BY RecoveryAssumption, SMT DEF IDs
    <3>2. QED
      BY <3>1 DEF Stored
  <2>2. es \subseteq Entries
    BY <2>1, SMT DEF Entries
  <2>3. \A e \in es : e \notin Are("ours")
    <3>1. \A e \in es : e[1] = p /\ e[2] \in IDs
      BY <2>1, SMT
    <3>2. QED
      BY <1>3, <3>1 DEF Refill, Are
  <2>4. /\ Become(es, "new") /\ cursor' = [cursor EXCEPT ![p] = 0]
        /\ UNCHANGED <<claimNext, due, fetch, running, faults>>
    BY <1>3 DEF Refill
  <2>5. 0 \in 0 .. Depth
    BY RecoveryAssumption, SMT
  <2>6. cursor' \in [Partitions -> 0 .. Depth]
    BY <1>1, <2>4, <2>5
  <2>7. "new" \in Whose /\ es \cap Are("ours") = {}
    BY <2>3 DEF Whose
  <2> HIDE DEF es
  <2>8. QED
    BY <2>2, <2>4, <2>6, <2>7, ElsewhereInv
<1>4. QED
  BY <1>2, <1>3

(* A step of one worker that changes no entry and no hands. *)
LEMMA OwnStepInv ==
  ASSUME RecoveryIInv, NEW w \in Workers, NEW f \in Fetches,
         fetch' = [fetch EXCEPT ![w] = f], Fits(f, running[w]),
         f.got \cup f.last = fetch[w].got \cup fetch[w].last,
         cursor' \in [Partitions -> 0 .. Depth], due' \subseteq Workers,
         UNCHANGED <<entry, claimNext, running, faults>>
  PROVE  RecoveryIInv'
<1>1. TypeOK /\ RecoveredIsRun
  BY DEF RecoveryIInv
<1>2. /\ fetch' \in [Workers -> Fetches] /\ fetch'[w] = f
      /\ \A v \in Workers : v # w => fetch'[v] = fetch[v]
  BY <1>1 DEF TypeOK
<1>3. FetchFits' /\ \A v \in Workers : v # w => InHand(v)' = InHand(v)
  BY <1>2, OneWorkerMoves
<1>4. InHand(w)' = InHand(w)
  BY <1>2 DEF InHand
<1>5. Are("ours")' = Are("ours")
  BY DEF Are
<1>6. RecoveredIsRun'
  BY <1>1, <1>3, <1>4, <1>5, HandsStay
<1>7. QED
  BY <1>1, <1>2, <1>3, <1>6 DEF RecoveryIInv, TypeOK

(* NoFetch is a fetch that fits if the runs do. *)
LEMMA NoFetchFits ==
  /\ NoFetch \in Fetches /\ NoFetch.got = {} /\ NoFetch.last = {}
  /\ \A r : Cardinality(r) \in Nat /\ Cardinality(r) <= Concurrency => Fits(NoFetch, r)
<1>1. /\ NoFetch.pc = "none" /\ NoFetch.got = {} /\ NoFetch.last = {}
      /\ NoFetch.limit = 0 /\ NoFetch.i = 0
  BY SMT DEF NoFetch
<1>2. NoFetch \in Fetches
  <2>1. 0 \in 0 .. Concurrency /\ 0 \in Partitions /\ 0 \in 0 .. Parts /\ 0 \in 0 .. Depth
    BY RecoveryAssumption, SMT DEF Partitions
  <2>2. QED
    BY <2>1 DEF Fetches, NoFetch
<1>3. ASSUME NEW r, Cardinality(r) \in Nat, Cardinality(r) <= Concurrency
      PROVE  Fits(NoFetch, r)
  <2>1. Cardinality(r) + 0 <= Concurrency /\ 0 <= 0
    BY <1>3, RecoveryAssumption, SMT
  <2>2. QED
    BY <1>1, <2>1, FS_EmptySet DEF Fits
<1>4. QED
  BY <1>1, <1>2, <1>3

(* A fetch begins. *)
LEMMA FetchStartsInv ==
  ASSUME RecoveryIInv, NEW w \in Workers, FetchStarts(w)
  PROVE  RecoveryIInv'
<1> DEFINE f == [NoFetch EXCEPT !.pc = IF w \in due THEN "sweep" ELSE "claim",
                                !.limit = Free(w), !.start = claimNext]
<1>1. TypeOK /\ Cardinality(running[w]) \in Nat
  BY WorkerFacts DEF RecoveryIInv
<1>2. fetch[w] = NoFetch /\ Free(w) > 0 /\ fetch' = [fetch EXCEPT ![w] = f]
  BY DEF FetchStarts
<1>3. Free(w) \in 0 .. Concurrency /\ Cardinality(running[w]) + Free(w) <= Concurrency
  BY <1>1, <1>2, RecoveryAssumption, SMT DEF Free
<1>4. /\ f.pc \in {"sweep", "claim"} /\ f.limit = Free(w) /\ f.start = claimNext
      /\ f.i = 0 /\ f.from = 0 /\ f.got = {} /\ f.last = {}
  BY SMT DEF NoFetch
<1>5. f \in Fetches
  <2>1. claimNext \in Partitions /\ 0 \in 0 .. Parts /\ 0 \in 0 .. Depth
    BY <1>1, RecoveryAssumption, SMT DEF TypeOK
  <2>2. QED
    BY <1>3, <2>1, NoFetchFits DEF Fetches
<1> HIDE DEF f
<1>6. Fits(f, running[w])
  <2>1. f.pc # "none" /\ f.pc \notin {"scan", "write"}
    BY <1>4
  <2>2. Cardinality(f.got \cup f.last) = 0 /\ running[w] \cap (f.got \cup f.last) = {}
    BY <1>4, FS_EmptySet
  <2>3. 0 <= f.limit
    BY <1>3, <1>4, RecoveryAssumption, SMT
  <2>4. QED
    BY <1>3, <1>4, <2>1, <2>2, <2>3 DEF Fits
<1>7. f.got \cup f.last = fetch[w].got \cup fetch[w].last
  BY <1>2, <1>4, NoFetchFits
<1>8. UNCHANGED <<entry, cursor, claimNext, due, running, faults>>
  BY DEF FetchStarts
<1>9. QED
  BY <1>1, <1>2, <1>5, <1>6, <1>7, <1>8, OwnStepInv DEF TypeOK

(* The next partition's cursor is read. *)
LEMMA ReadCursorInv ==
  ASSUME RecoveryIInv, NEW w \in Workers, ReadCursor(w)
  PROVE  RecoveryIInv'
<1> DEFINE f == [fetch[w] EXCEPT !.pc = "scan", !.from = cursor[Part(fetch[w])]]
<1>1. TypeOK /\ fetch[w] \in Fetches /\ Fits(fetch[w], running[w])
  BY WorkerFacts DEF RecoveryIInv
<1>2. cursor[Part(fetch[w])] \in 0 .. Depth
  BY <1>1, PartIsOne DEF TypeOK
<1>3. fetch' = [fetch EXCEPT ![w] = f] /\ fetch[w].pc = "sweep" /\ fetch[w].i < Parts
  BY DEF ReadCursor, Sweeps
<1>4. /\ f \in Fetches
      /\ f.pc = "scan" /\ f.limit = fetch[w].limit /\ f.i = fetch[w].i
      /\ f.got = fetch[w].got /\ f.last = fetch[w].last
  <2>1. f \in Fetches
    BY <1>1, <1>2 DEF Fetches
  <2>2. QED
    BY <1>1, <2>1, SMT DEF Fetches
<1> HIDE DEF f
<1>5. Fits(f, running[w])
  BY <1>1, <1>3, <1>4 DEF Fits
<1>6. UNCHANGED <<entry, cursor, claimNext, due, running, faults>>
  BY DEF ReadCursor
<1>7. QED
  BY <1>1, <1>3, <1>4, <1>5, <1>6, OwnStepInv DEF TypeOK

(* The cursor is written. *)
LEMMA WriteCursorInv ==
  ASSUME RecoveryIInv, NEW w \in Workers, WriteCursor(w)
  PROVE  RecoveryIInv'
<1> DEFINE f == [fetch[w] EXCEPT !.pc = "sweep", !.i = fetch[w].i + 1,
                                 !.got = fetch[w].got \cup fetch[w].last, !.last = {}]
<1>1. TypeOK /\ fetch[w] \in Fetches /\ Fits(fetch[w], running[w])
  BY WorkerFacts DEF RecoveryIInv
<1>2. fetch' = [fetch EXCEPT ![w] = f] /\ fetch[w].pc = "write"
  BY DEF WriteCursor
<1>3. fetch[w].i + 1 \in 0 .. Parts
  <2>1. fetch[w].i < Parts
    BY <1>1, <1>2 DEF Fits
  <2>2. fetch[w].i \in Nat
    BY <1>1, RecoveryAssumption, SMT DEF Fetches
  <2>3. QED
    BY <2>1, <2>2, RecoveryAssumption, SMT
<1>4. /\ f \in Fetches /\ f.pc = "sweep" /\ f.limit = fetch[w].limit
      /\ f.got = fetch[w].got \cup fetch[w].last /\ f.last = {}
  <2>1. fetch[w].got \cup fetch[w].last \in SUBSET Entries /\ {} \in SUBSET Entries
    BY WorkerFacts
  <2>2. f \in Fetches
    BY <1>1, <1>3, <2>1 DEF Fetches
  <2>3. QED
    BY <1>1, <2>2, SMT DEF Fetches
<1> HIDE DEF f
<1>5. f.got \cup f.last = fetch[w].got \cup fetch[w].last
  BY <1>4
<1>6. Fits(f, running[w])
  BY <1>1, <1>4, <1>5 DEF Fits
<1>7. cursor' \in [Partitions -> 0 .. Depth]
  <2>1. fetch[w].from \in 0 .. Depth
    BY <1>1, SMT DEF Fetches
  <2>2. QED
    BY <1>1, <2>1 DEF TypeOK, WriteCursor
<1>8. UNCHANGED <<entry, claimNext, due, running, faults>>
  BY DEF WriteCursor
<1>9. QED
  BY <1>1, <1>2, <1>4, <1>5, <1>6, <1>7, <1>8, OwnStepInv DEF TypeOK

(* What was got starts to run, with more that fits. *)
LEMMA StartJobsFacts ==
  ASSUME RecoveryIInv, NEW w \in Workers, NEW es, es \subseteq Entries,
         fetch[w].last = {}, Cardinality(es) <= Wanted(fetch[w]),
         StartJobs(w, fetch[w].got \cup es)
  PROVE  /\ fetch' \in [Workers -> Fetches]
         /\ running' \in [Workers -> SUBSET Entries]
         /\ FetchFits'
         /\ InHand(w)' = InHand(w) \cup es
         /\ \A v \in Workers : v # w => InHand(v)' = InHand(v)
<1> DEFINE r == running[w] \cup (fetch[w].got \cup es)
           f == fetch[w]
<1>1. /\ fetch \in [Workers -> Fetches] /\ running \in [Workers -> SUBSET Entries]
  BY DEF RecoveryIInv, TypeOK
<1>2. /\ Fits(f, running[w]) /\ f.got \subseteq Entries /\ running[w] \subseteq Entries
      /\ Cardinality(running[w]) \in Nat /\ Cardinality(f.got) \in Nat
      /\ f.limit \in Nat /\ Wanted(f) \in Nat
  BY WorkerFacts
<1>3. Cardinality(r) <= Concurrency /\ Cardinality(r) \in Nat
  <2>1. Cardinality(f.got) <= Cardinality(f.got) /\ Cardinality(running[w]) <= Cardinality(running[w])
    BY <1>2, SMT
  <2>2. Cardinality(f.got \cup es) <= Cardinality(f.got) + Wanted(f)
    BY <1>2, <2>1, Together
  <2>3. Cardinality(f.got) + Wanted(f) = f.limit
    BY <1>2, SMT DEF Wanted
  <2>4. Cardinality(f.got \cup es) <= f.limit /\ f.got \cup es \subseteq Entries
    BY <1>2, <2>2, <2>3
  <2>5. Cardinality(r) <= Cardinality(running[w]) + f.limit /\ Cardinality(r) \in Nat
    BY <1>2, <2>1, <2>4, Together
  <2>6. Cardinality(running[w]) + f.limit <= Concurrency
    BY <1>2 DEF Fits
  <2>7. QED
    BY <1>2, <2>5, <2>6, RecoveryAssumption, SMT
<1>4. running' = [running EXCEPT ![w] = r] /\ fetch' = [fetch EXCEPT ![w] = NoFetch]
  BY DEF StartJobs
<1>5. r \subseteq Entries
  BY <1>2
<1> HIDE DEF r
<1>6. /\ fetch' \in [Workers -> Fetches] /\ running' \in [Workers -> SUBSET Entries]
      /\ fetch'[w] = NoFetch /\ running'[w] = r
      /\ \A v \in Workers : v # w => fetch'[v] = fetch[v] /\ running'[v] = running[v]
  BY <1>1, <1>4, <1>5, NoFetchFits
<1>7. Fits(fetch'[w], running'[w])
  BY <1>3, <1>6, NoFetchFits
<1>8. FetchFits' /\ \A v \in Workers : v # w => InHand(v)' = InHand(v)
  BY <1>6, <1>7, OneWorkerMoves
<1>9. InHand(w)' = InHand(w) \cup es
  BY <1>6, NoFetchFits DEF InHand, r
<1>10. QED
  BY <1>6, <1>8, <1>9

(* The script leases what it found. *)
LEMMA RunScriptInv ==
  ASSUME RecoveryIInv, NEW w \in Workers, RunScript(w)
  PROVE  RecoveryIInv'
<1> DEFINE p == Part(fetch[w])
           s == Scan(p, fetch[w].from, Wanted(fetch[w]))
           es == {p} \X s.out
           f == [fetch[w] EXCEPT !.pc = "write", !.from = s.at, !.last = es]
<1>1. /\ TypeOK /\ RecoveredIsRun /\ fetch[w] \in Fetches /\ Fits(fetch[w], running[w])
      /\ fetch[w].got \subseteq Entries /\ running[w] \subseteq Are("ours")
      /\ Cardinality(fetch[w].got) \in Nat /\ fetch[w].limit \in Nat /\ Wanted(fetch[w]) \in Nat
  BY WorkerFacts DEF RecoveryIInv
<1>2. p \in Partitions /\ fetch[w].from \in 0 .. Depth
  <2>1. fetch[w].from \in 0 .. Depth
    BY <1>1, SMT DEF Fetches
  <2>2. QED
    BY <1>1, <2>1, PartIsOne
<1>3. /\ s.at \in 0 .. Depth /\ es \subseteq Entries /\ es \cap Are("ours") = {}
      /\ Cardinality(es) <= Wanted(fetch[w])
  BY <1>1, <1>2, ScannedEntries
<1>4. /\ fetch[w].pc = "scan" /\ Become(es, "ours") /\ fetch' = [fetch EXCEPT ![w] = f]
      /\ UNCHANGED <<cursor, claimNext, due, running, faults>>
  BY DEF RunScript
<1> HIDE DEF p, s, es
<1>5. /\ f \in Fetches /\ f.pc = "write" /\ f.limit = fetch[w].limit /\ f.i = fetch[w].i
      /\ f.got = fetch[w].got /\ f.last = es
  <2>1. f \in Fetches
    BY <1>1, <1>3 DEF Fetches
  <2>2. QED
    BY <1>1, <2>1, SMT DEF Fetches
<1> HIDE DEF f
<1>6. Fits(f, running[w])
  <2>1. Cardinality(fetch[w].got) <= Cardinality(fetch[w].got)
    BY <1>1, SMT
  <2>2. Cardinality(fetch[w].got \cup es) <= Cardinality(fetch[w].got) + Wanted(fetch[w])
    BY <1>1, <1>3, <2>1, Together
  <2>3. Cardinality(fetch[w].got) + Wanted(fetch[w]) = fetch[w].limit
    BY <1>1, SMT DEF Wanted
  <2>4. running[w] \cap es = {}
    BY <1>1, <1>3
  <2>5. QED
    BY <1>1, <1>4, <1>5, <2>2, <2>3, <2>4 DEF Fits
<1>7. /\ fetch' \in [Workers -> Fetches] /\ fetch'[w] = f /\ running' = running
      /\ \A v \in Workers : v # w => fetch'[v] = fetch[v] /\ running'[v] = running[v]
  BY <1>1, <1>4, <1>5 DEF TypeOK
<1>8. FetchFits' /\ \A v \in Workers : v # w => InHand(v)' = InHand(v)
  BY <1>6, <1>7, OneWorkerMoves
<1>9. "ours" \in Whose
  BY DEF Whose
<1>10. entry' \in [Partitions -> [IDs -> Whose]] /\ Are("ours")' = Are("ours") \cup es
  BY <1>1, <1>3, <1>4, <1>9, BecomeFacts
<1>11. InHand(w)' = InHand(w) \cup es
  <2>1. fetch[w].last = {}
    BY <1>1, <1>4 DEF Fits
  <2>2. QED
    BY <1>5, <1>7, <2>1 DEF InHand
<1>12. RecoveredIsRun'
  BY <1>1, <1>3, <1>8, <1>10, <1>11, HandsGain
<1>13. QED
  BY <1>1, <1>4, <1>7, <1>8, <1>10, <1>12 DEF RecoveryIInv, TypeOK, Whose

(* A failure uses up one of those allowed. *)
LEMMA FaultFacts ==
  ASSUME TypeOK, Fault
  PROVE  faults' \in 0 .. MaxFaults
  BY RecoveryAssumption, SMT DEF Fault, TypeOK

(* The script or its reply is lost, and what was got before is run. *)
LEMMA ScanFailsInv ==
  ASSUME RecoveryIInv, NEW w \in Workers, ScanFails(w)
  PROVE  RecoveryIInv'
<1> DEFINE p == Part(fetch[w])
           es == {p} \X Scan(p, fetch[w].from, Wanted(fetch[w])).out
<1>1. /\ TypeOK /\ RecoveredIsRun /\ fetch[w] \in Fetches /\ Fits(fetch[w], running[w])
      /\ Wanted(fetch[w]) \in Nat
  BY WorkerFacts DEF RecoveryIInv
<1>2. p \in Partitions /\ fetch[w].from \in 0 .. Depth
  <2>1. fetch[w].from \in 0 .. Depth
    BY <1>1, SMT DEF Fetches
  <2>2. QED
    BY <1>1, <2>1, PartIsOne
<1>3. es \subseteq Entries /\ es \cap Are("ours") = {}
  BY <1>1, <1>2, ScannedEntries
<1>4. /\ fetch[w].pc = "scan"
      /\ UNCHANGED entry \/ Become(es, "theirs")
      /\ StartJobs(w, fetch[w].got) /\ UNCHANGED <<cursor, claimNext, due>>
  BY DEF ScanFails
<1> HIDE DEF p, es
<1>5. fetch[w].last = {} /\ Cardinality({}) <= Wanted(fetch[w])
  <2>1. fetch[w].last = {}
    BY <1>1, <1>4 DEF Fits
  <2>2. 0 <= Wanted(fetch[w])
    BY <1>1, SMT
  <2>3. QED
    BY <2>1, <2>2, FS_EmptySet
<1>6. /\ fetch' \in [Workers -> Fetches] /\ running' \in [Workers -> SUBSET Entries]
      /\ FetchFits' /\ \A v \in Workers : InHand(v)' = InHand(v)
  <2>1. StartJobs(w, fetch[w].got \cup {}) /\ {} \subseteq Entries
    BY <1>4
  <2>2. QED
    BY <1>5, <2>1, StartJobsFacts
<1>7. entry' \in [Partitions -> [IDs -> Whose]] /\ Are("ours")' = Are("ours")
  <2>1. CASE UNCHANGED entry
    BY <1>1, <2>1 DEF TypeOK, Whose, Are
  <2>2. CASE Become(es, "theirs")
    <3>1. "theirs" \in Whose
      BY DEF Whose
    <3>2. entry' \in [Partitions -> [IDs -> Whose]] /\ Are("ours")' = Are("ours") \ es
      BY <1>1, <1>3, <2>2, <3>1, BecomeFacts
    <3>3. QED
      BY <1>3, <3>2
  <2>3. QED
    BY <1>4, <2>1, <2>2
<1>8. RecoveredIsRun'
  BY <1>1, <1>6, <1>7, HandsStay
<1>9. faults' \in 0 .. MaxFaults
  BY <1>1, FaultFacts DEF ScanFails
<1>10. QED
  BY <1>1, <1>4, <1>6, <1>7, <1>8, <1>9 DEF RecoveryIInv, TypeOK, Whose

(* A sweep ends, and with it the fetch if it got all it may. *)
LEMMA SweepEndsInv ==
  ASSUME RecoveryIInv, NEW w \in Workers, SweepEnds(w)
  PROVE  RecoveryIInv'
<1>1. /\ TypeOK /\ RecoveredIsRun /\ fetch[w] \in Fetches /\ Fits(fetch[w], running[w])
      /\ Wanted(fetch[w]) \in Nat
  BY WorkerFacts DEF RecoveryIInv
<1>2. fetch[w].pc = "sweep" /\ UNCHANGED <<entry, cursor, claimNext, faults>>
  BY DEF SweepEnds
<1>3. CASE StartJobs(w, fetch[w].got) /\ UNCHANGED due
  <2>1. fetch[w].last = {} /\ Cardinality({}) <= Wanted(fetch[w])
    <3>1. fetch[w].last = {}
      BY <1>1, <1>2 DEF Fits
    <3>2. 0 <= Wanted(fetch[w])
      BY <1>1, SMT
    <3>3. QED
      BY <3>1, <3>2, FS_EmptySet
  <2>2. StartJobs(w, fetch[w].got \cup {}) /\ {} \subseteq Entries
    BY <1>3
  <2>3. /\ fetch' \in [Workers -> Fetches] /\ running' \in [Workers -> SUBSET Entries]
        /\ FetchFits' /\ \A v \in Workers : InHand(v)' = InHand(v)
    BY <2>1, <2>2, StartJobsFacts
  <2>4. Are("ours")' = Are("ours")
    BY <1>2 DEF Are
  <2>5. RecoveredIsRun'
    BY <1>1, <2>3, <2>4, HandsStay
  <2>6. QED
    BY <1>1, <1>2, <1>3, <2>3, <2>5 DEF RecoveryIInv, TypeOK
<1>4. CASE fetch' = [fetch EXCEPT ![w].pc = "claim"] /\ due' = due \ {w} /\ UNCHANGED running
  <2> DEFINE f == [fetch[w] EXCEPT !.pc = "claim"]
  <2>1. f \in Fetches
    BY <1>1 DEF Fetches
  <2>2. /\ f.pc = "claim" /\ f.limit = fetch[w].limit
        /\ f.got = fetch[w].got /\ f.last = fetch[w].last
    BY <1>1, SMT DEF Fetches
  <2>3. fetch' = [fetch EXCEPT ![w] = f]
    BY <1>4
  <2> HIDE DEF f
  <2>4. Fits(f, running[w])
    BY <1>1, <1>2, <2>2 DEF Fits
  <2>5. due' \subseteq Workers /\ cursor' \in [Partitions -> 0 .. Depth]
    BY <1>1, <1>2, <1>4 DEF TypeOK
  <2>6. QED
    BY <1>2, <1>4, <2>1, <2>2, <2>3, <2>4, <2>5, OwnStepInv
<1>5. QED
  BY <1>3, <1>4 DEF SweepEnds

(* New jobs are leased. *)
LEMMA ClaimJobsInv ==
  ASSUME RecoveryIInv, NEW w \in Workers, NEW es, ClaimJobs(w, es)
  PROVE  RecoveryIInv'
<1>1. TypeOK /\ RecoveredIsRun /\ Fits(fetch[w], running[w])
  BY WorkerFacts DEF RecoveryIInv
<1>2. /\ fetch[w].pc = "claim" /\ es \subseteq Are("new") /\ Become(es, "ours")
      /\ Cardinality(es) <= Wanted(fetch[w]) /\ StartJobs(w, fetch[w].got \cup es)
      /\ claimNext' = (claimNext + 1) % Parts /\ UNCHANGED <<cursor, due, faults>>
  BY DEF ClaimJobs
<1>3. es \subseteq Entries /\ es \cap Are("ours") = {}
  <2>1. Are("new") \cap Are("ours") = {} /\ Are("new") \subseteq Entries
    BY NotOurs
  <2>2. QED
    BY <1>2, <2>1
<1>4. fetch[w].last = {}
  BY <1>1, <1>2 DEF Fits
<1>5. /\ fetch' \in [Workers -> Fetches] /\ running' \in [Workers -> SUBSET Entries]
      /\ FetchFits' /\ InHand(w)' = InHand(w) \cup es
      /\ \A v \in Workers : v # w => InHand(v)' = InHand(v)
  BY <1>2, <1>3, <1>4, StartJobsFacts
<1>6. entry' \in [Partitions -> [IDs -> Whose]] /\ Are("ours")' = Are("ours") \cup es
  <2>1. "ours" \in Whose
    BY DEF Whose
  <2>2. QED
    BY <1>1, <1>2, <1>3, <2>1, BecomeFacts
<1>7. RecoveredIsRun'
  BY <1>1, <1>3, <1>5, <1>6, HandsGain
<1>8. claimNext' \in Partitions
  <2>1. claimNext \in Partitions
    BY <1>1 DEF TypeOK
  <2>2. QED
    BY <1>2, <2>1, RecoveryAssumption, SMT DEF Partitions
<1>9. QED
  BY <1>1, <1>2, <1>5, <1>6, <1>7, <1>8 DEF RecoveryIInv, TypeOK, Whose

(* A run ends. *)
LEMMA RunEndsInv ==
  ASSUME RecoveryIInv, NEW w \in Workers, NEW e \in running[w], RunEnds(w, e)
  PROVE  RecoveryIInv'
<1>1. /\ TypeOK /\ RecoveredIsRun /\ Fits(fetch[w], running[w]) /\ running[w] \subseteq Entries
      /\ fetch[w].limit \in Nat
  BY WorkerFacts DEF RecoveryIInv
<1>2. running' = [running EXCEPT ![w] = running[w] \ {e}] /\ UNCHANGED <<cursor, claimNext, due, fetch>>
  BY DEF RunEnds
<1>3. \/ Become({e}, "gone") /\ UNCHANGED faults
      \/ Become({e}, "theirs") /\ Fault
  BY DEF RunEnds
<1>4. {e} \subseteq Entries
  BY <1>1
<1>5. entry' \in [Partitions -> [IDs -> Whose]] /\ Are("ours")' = Are("ours") \ {e}
  <2>1. "gone" \in Whose /\ "theirs" \in Whose
    BY DEF Whose
  <2>2. QED
    BY <1>1, <1>3, <1>4, <2>1, BecomeFacts
<1>6. faults' \in 0 .. MaxFaults
  BY <1>1, <1>3, FaultFacts DEF TypeOK
<1>7. /\ running' \in [Workers -> SUBSET Entries] /\ running'[w] = running[w] \ {e}
      /\ \A v \in Workers : v # w => fetch'[v] = fetch[v] /\ running'[v] = running[v]
      /\ fetch' \in [Workers -> Fetches] /\ fetch'[w] = fetch[w]
  <2>1. running \in [Workers -> SUBSET Entries] /\ running[w] \ {e} \in SUBSET Entries
    BY <1>1 DEF TypeOK
  <2>2. QED
    BY <1>1, <1>2, <2>1 DEF TypeOK
<1>8. Fits(fetch'[w], running'[w])
  <2>1. IsFiniteSet(running[w]) /\ Cardinality(running[w]) \in Nat
    BY <1>1, EntriesAreFinite
  <2>2. Cardinality(running[w] \ {e}) \in Nat /\ Cardinality(running[w] \ {e}) <= Cardinality(running[w])
    BY <2>1, FS_Subset, FS_CardinalityType
  <2>3. Cardinality(running[w]) + fetch[w].limit <= Concurrency
    BY <1>1 DEF Fits
  <2>4. Cardinality(running[w] \ {e}) + fetch[w].limit <= Concurrency
    BY <1>1, <2>1, <2>2, <2>3, RecoveryAssumption, SMT
  <2>5. QED
    BY <1>1, <1>7, <2>4 DEF Fits
<1>9. FetchFits' /\ \A v \in Workers : v # w => InHand(v)' = InHand(v)
  BY <1>7, <1>8, OneWorkerMoves
<1>10. {e} \subseteq InHand(w) /\ InHand(w)' = InHand(w) \ {e}
  <2>1. e \notin fetch[w].got \cup fetch[w].last
    BY <1>1 DEF Fits
  <2>2. QED
    BY <1>7, <2>1 DEF InHand
<1>11. RecoveredIsRun'
  BY <1>1, <1>5, <1>9, <1>10, HandsLose
<1>12. QED
  BY <1>1, <1>2, <1>5, <1>6, <1>7, <1>9, <1>11 DEF RecoveryIInv, TypeOK, Whose

-----------------------------------------------------------------------------
(* The theorems *)

(* The invariant holds in the beginning. *)
LEMMA InitInv == Init => RecoveryIInv
<1> SUFFICES ASSUME Init PROVE RecoveryIInv
  OBVIOUS
<1>1. /\ 0 \in 0 .. Depth /\ 0 \in Partitions /\ MaxFaults \in 0 .. MaxFaults
      /\ 0 \in Nat /\ 0 <= Concurrency
  BY RecoveryAssumption, SMT DEF Partitions
<1>2. TypeOK
  BY <1>1, NoFetchFits DEF TypeOK, Init
<1>3. FetchFits
  BY <1>1, NoFetchFits, FS_EmptySet DEF FetchFits, Init
<1>4. \A w \in Workers : InHand(w) = {}
  BY NoFetchFits DEF InHand, Init
<1>5. Are("ours") = {}
  <2>1. \A e \in Entries : e[1] \in Partitions /\ e[2] \in IDs
    BY SMT DEF Entries
  <2>2. \A p \in Partitions, n \in IDs : entry[p][n] # "ours"
    BY DEF Init
  <2>3. QED
    BY <2>1, <2>2 DEF Are
<1>6. EachIsRun
  BY <1>4, <1>5 DEF EachIsRun
<1>7. QED
  BY <1>2, <1>3, <1>6, OneByOne DEF RecoveryIInv

(* Every step preserves the invariant. *)
LEMMA NextInv == RecoveryIInv /\ [Next]_vars => RecoveryIInv'
<1> SUFFICES ASSUME RecoveryIInv, [Next]_vars PROVE RecoveryIInv'
  OBVIOUS
<1>1. ASSUME NEW w \in Workers, Fetching(w)
      PROVE  RecoveryIInv'
  BY <1>1, FetchStartsInv, ReadCursorInv, RunScriptInv, ScanFailsInv, WriteCursorInv,
     SweepEndsInv, ClaimJobsInv DEF Fetching, Recovering
<1>2. ASSUME UNCHANGED <<entry, cursor, claimNext, fetch, running, faults>>, due' \subseteq Workers
      PROVE  RecoveryIInv'
  <2>1. Are("ours")' = Are("ours") /\ \A v \in Workers : InHand(v)' = InHand(v)
    BY <1>2 DEF Are, InHand
  <2>2. RecoveredIsRun'
    BY <2>1, HandsStay DEF RecoveryIInv
  <2>3. QED
    BY <1>2, <2>2 DEF RecoveryIInv, TypeOK, FetchFits
<1>3. ASSUME NEW w \in Workers, PollIntervalPasses(w)
      PROVE  RecoveryIInv'
  BY <1>2, <1>3 DEF PollIntervalPasses, RecoveryIInv, TypeOK
<1>4. CASE UNCHANGED vars
  BY <1>2, <1>4 DEF vars, RecoveryIInv, TypeOK
<1>5. QED
  BY <1>1, <1>3, <1>4, OthersInv, RunEndsInv DEF Next

(* The strengthened invariant is inductive. *)
THEOREM RecoveryInductiveInvariant == Spec => []RecoveryIInv
  BY InitInv, NextInv, PTL DEF Spec

(* Every entry leased by this process is being run or on its way to be, by one
   worker only, whatever partition failed in a sweep and whoever moved the
   cursor meanwhile. *)
THEOREM WhatIsRecoveredIsRun == Spec => []RecoveredIsRun
<1>1. RecoveryIInv => RecoveredIsRun
  BY DEF RecoveryIInv
<1>2. QED
  BY <1>1, RecoveryInductiveInvariant, PTL

(* Sweeps lease no more than the worker has slots for, over all partitions and
   all rounds of the script. *)
THEOREM SweepsKeepTheLimit == Spec => []SweepKeepsLimit
<1>1. RecoveryIInv => SweepKeepsLimit
  <2> SUFFICES ASSUME RecoveryIInv, NEW w \in Workers
               PROVE  Cardinality(InHand(w)) <= Concurrency
    BY DEF SweepKeepsLimit
  <2> DEFINE g == fetch[w].got \cup fetch[w].last
  <2>1. /\ Fits(fetch[w], running[w]) /\ g \subseteq Entries /\ running[w] \subseteq Entries
        /\ Cardinality(running[w]) \in Nat /\ fetch[w].limit \in Nat
    BY WorkerFacts
  <2>2. InHand(w) = running[w] \cup g
    BY DEF InHand
  <2>3. Cardinality(g) <= fetch[w].limit /\ Cardinality(running[w]) + fetch[w].limit <= Concurrency
    BY <2>1 DEF Fits
  <2> HIDE DEF g
  <2>4. Cardinality(running[w]) <= Cardinality(running[w])
    BY <2>1, SMT
  <2>5. Cardinality(InHand(w)) <= Cardinality(running[w]) + fetch[w].limit /\ Cardinality(InHand(w)) \in Nat
    BY <2>1, <2>2, <2>3, <2>4, Together
  <2>6. QED
    BY <2>1, <2>3, <2>5, RecoveryAssumption, SMT
<1>2. QED
  BY <1>1, RecoveryInductiveInvariant, PTL

(* The variables keep their types: cursors stay in the list, and fetches in
   their bounds. *)
THEOREM RecoveryTypeCorrect == Spec => []TypeOK
<1>1. RecoveryIInv => TypeOK
  BY DEF RecoveryIInv
<1>2. QED
  BY <1>1, RecoveryInductiveInvariant, PTL
=============================================================================
