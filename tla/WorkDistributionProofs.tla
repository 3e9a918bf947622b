----------------------- MODULE WorkDistributionProofs -----------------------
(***************************************************************************)
(* Proofs about WorkDistribution: types and 32-bit ranges, and that every  *)
(* distribution partitions the work, for any number of slots, any active   *)
(* set, any pool job ids and any ticks; and that shares of recent packets  *)
(* resolve to their own job.                                               *)
(***************************************************************************)
EXTENDS WorkDistribution, RingLemmas, FiniteSetTheorems

USE DistributionAssumption, JobMapAssumption

\* The number of active slots.
Count == Cardinality(Active)

LEMMA ActiveFacts == /\ IsFiniteSet(Active)
                     /\ Count \in 0 .. MAX_SLAVES
<1>1. IsFiniteSet(Slots) /\ Cardinality(Slots) = MAX_SLAVES
  BY FS_Interval DEF Slots
<1>2. Active \subseteq Slots
  BY DEF Active
<1>3. IsFiniteSet(Active) /\ Cardinality(Active) <= MAX_SLAVES
  BY <1>1, <1>2, FS_Subset
<1>4. Cardinality(Active) \in Nat
  BY <1>3, FS_CardinalityType
<1> QED
  BY <1>3, <1>4 DEF Count

\* The slots up to i that are active; WorkerIndex counts them.
UpTo(i) == {j \in Active : j <= i}

LEMMA UpToFacts ==
  ASSUME NEW i \in Slots
  PROVE  /\ IsFiniteSet(UpTo(i))
         /\ WorkerIndex(i) = Cardinality(UpTo(i))
         /\ WorkerIndex(i) \in 0 .. Count
<1>1. UpTo(i) \subseteq Active
  BY DEF UpTo
<1>2. IsFiniteSet(UpTo(i)) /\ Cardinality(UpTo(i)) <= Count
  BY <1>1, ActiveFacts, FS_Subset DEF Count
<1>3. Cardinality(UpTo(i)) \in Nat
  BY <1>2, FS_CardinalityType
<1> QED
  BY <1>2, <1>3, ActiveFacts DEF WorkerIndex, UpTo

\* Worker indices start at 1, end at the number of active slots, and the
\* next active slot has the next index.
LEMMA IndexFacts ==
  ASSUME NEW i \in Active
  PROVE  /\ WorkerIndex(i) \in 1 .. Count
         /\ (\A k \in Active : k >= i) => WorkerIndex(i) = 1
         /\ (\A k \in Active : k <= i) => WorkerIndex(i) = Count
         /\ \A k \in Active : Successor(i, k) => WorkerIndex(k) = WorkerIndex(i) + 1
         /\ \A k \in Active : i < k => WorkerIndex(i) < WorkerIndex(k)
<1>0. i \in Slots /\ i \in Int /\ \A l \in Active : l \in Slots /\ l \in Int
  BY DEF Slots, Active
<1>1. WorkerIndex(i) >= 1
  <2>1. {i} \subseteq UpTo(i)
    BY <1>0 DEF UpTo
  <2>2. Cardinality({i}) <= Cardinality(UpTo(i))
    BY <1>0, <2>1, UpToFacts, FS_Subset
  <2>3. Cardinality({i}) = 1
    BY FS_Singleton
  <2> QED
    BY <1>0, <2>2, <2>3, UpToFacts
<1>2. ASSUME \A k \in Active : k >= i PROVE WorkerIndex(i) = 1
  <2>1. \A l \in Active : l <= i <=> l = i
    BY <1>0, <1>2
  <2>2. UpTo(i) = {i}
    BY <2>1, Zenon DEF UpTo
  <2> QED
    BY <1>0, <2>2, UpToFacts, FS_Singleton
<1>3. ASSUME \A k \in Active : k <= i PROVE WorkerIndex(i) = Count
  <2>1. UpTo(i) = Active
    BY <1>3 DEF UpTo
  <2> QED
    BY <1>0, <2>1, UpToFacts DEF Count
<1>4. ASSUME NEW k \in Active, Successor(i, k) PROVE WorkerIndex(k) = WorkerIndex(i) + 1
  <2>1. k \in Slots /\ k \in Int
    BY <1>0
  <2>2. UpTo(k) = UpTo(i) \cup {k} /\ k \notin UpTo(i)
    <3>1. ~(k <= i) /\ \A l \in Active : l <= k <=> l <= i \/ l = k
      BY <1>0, <1>4, <2>1 DEF Successor
    <3> QED
      BY <3>1, Zenon DEF UpTo
  <2>3. Cardinality(UpTo(i) \cup {k}) = Cardinality(UpTo(i)) + 1
    BY <1>0, <2>2, UpToFacts, FS_AddElement
  <2> QED
    BY <1>0, <2>1, <2>2, <2>3, UpToFacts
<1>5. ASSUME NEW k \in Active, i < k PROVE WorkerIndex(i) < WorkerIndex(k)
  <2>1. k \in Slots /\ k \in Int
    BY <1>0
  <2>2. UpTo(i) \cup {k} \subseteq UpTo(k) /\ k \notin UpTo(i)
    <3>1. ~(k <= i) /\ k <= k /\ \A l \in Active : l <= i => l <= k
      BY <1>0, <1>5, <2>1
    <3> QED
      BY <3>1, Zenon DEF UpTo
  <2>3. Cardinality(UpTo(i) \cup {k}) = Cardinality(UpTo(i)) + 1
    BY <1>0, <2>2, UpToFacts, FS_AddElement
  <2>4. Cardinality(UpTo(i) \cup {k}) <= Cardinality(UpTo(k))
    BY <2>1, <2>2, UpToFacts, FS_Subset
  <2>5. Cardinality(UpTo(i)) \in Nat /\ Cardinality(UpTo(k)) \in Nat
    BY <1>0, <2>1, UpToFacts, ActiveFacts
  <2> QED
    BY <1>0, <2>1, <2>3, <2>4, <2>5, UpToFacts
<1> QED
  BY <1>0, <1>1, <1>2, <1>3, <1>4, <1>5, UpToFacts, ActiveFacts

-----------------------------------------------------------------------------
(* Nonce ranges.                                                           *)

\* The ranges of total workers lie in 32 bits, are not empty, follow each
\* other, and the last one ends with the last nonce.
LEMMA NonceFacts ==
  ASSUME NEW total \in 1 .. ULONG_MAX, NEW k \in 0 .. (total - 1)
  PROVE  /\ NonceStart(k, total) \in 0 .. ULONG_MAX
         /\ k >= 1 => NonceStart(k, total) >= 1
         /\ NonceEnd(k, total) \in NonceStart(k, total) .. ULONG_MAX
         /\ k < total - 1 => NonceStart(k + 1, total) = NonceEnd(k, total) + 1
         /\ k = total - 1 => NonceEnd(k, total) = ULONG_MAX
<1> DEFINE R == ULONG_MAX \div total
<1>0. total \in Nat \ {0}
  OBVIOUS
<1>1. R \in Nat /\ ULONG_MAX = total * R + (ULONG_MAX % total) /\ ULONG_MAX % total \in 0 .. (total - 1)
  BY <1>0, DivisionFacts
<1>2. NonceStart(k, total) = R * k /\ NonceStart(k + 1, total) = R * (k + 1)
      /\ NonceEnd(k, total) = IF k < total - 1 THEN R * (k + 1) - 1 ELSE ULONG_MAX
  BY DEF NonceStart, NonceEnd
<1> HIDE DEF R
<1>3. R >= 1
  BY <1>1
<1>4. R * (k + 1) = R * k + R /\ R * k \in Nat
  BY <1>1
<1>5. R * (k + 1) <= total * R
  <2>1. total - (k + 1) >= 0 /\ R * (total - (k + 1)) >= 0
    BY <1>1
  <2>2. R * (total - (k + 1)) = total * R - R * (k + 1)
    BY <1>1
  <2> QED
    BY <1>1, <2>1, <2>2
<1>6. total * R <= ULONG_MAX
  BY <1>1
<1>7. k >= 1 => R * k >= 1
  BY <1>1, <1>3, MultipleAtLeast
<1> QED
  BY <1>1, <1>2, <1>3, <1>4, <1>5, <1>6, <1>7

-----------------------------------------------------------------------------
(* Job ids and packets.                                                    *)

LEMMA WorkerCount == 1 + Count \in 1 .. ULONG_MAX
  BY ActiveFacts

LEMMA UInt32Type ==
  ASSUME NEW a \in Nat PROVE UInt32(a) \in 0 .. ULONG_MAX
<1>1. ULONG_MAX + 1 \in Nat \ {0}
  OBVIOUS
<1>2. a % (ULONG_MAX + 1) \in 0 .. ((ULONG_MAX + 1) - 1)
  BY <1>1, DivisionFacts
<1> QED
  BY <1>2 DEF UInt32

\* A cluster job id is a 32-bit number.
LEMMA JobIdType ==
  ASSUME NEW p \in Pools, NEW j \in 1 .. Len(HexId[p]), NEW tick \in Nat,
         NEW i \in Active, fallback \in 0 .. ULONG_MAX
  PROVE  /\ BaseJobId(p, j, i) \in 0 .. ULONG_MAX
         /\ ClusterJobId(p, j, tick, i) \in 0 .. ULONG_MAX
<1>1. HexId[p][j] \in Nat
  OBVIOUS
<1>2. WorkerIndex(i) \in 1 .. Count /\ Count \in Nat
  BY IndexFacts, ActiveFacts
<1>3. UInt32(fallback + WorkerIndex(i) - 1) \in 0 .. ULONG_MAX
  <2>1. fallback + WorkerIndex(i) - 1 \in Nat
    BY <1>2
  <2> QED
    BY <2>1, UInt32Type
<1>4. BaseJobId(p, j, i) \in 0 .. ULONG_MAX
  BY <1>1, <1>3 DEF BaseJobId, StrToUl
<1>5. BaseJobId(p, j, i) + WorkerIndex(i) + tick * MAX_SLAVES \in Nat
  <2>1. tick * MAX_SLAVES \in Nat
    OBVIOUS
  <2> QED
    BY <1>2, <1>4, <2>1
<1>6. UInt32(BaseJobId(p, j, i) + WorkerIndex(i) + tick * MAX_SLAVES) \in 0 .. ULONG_MAX
  BY <1>5, UInt32Type
<1> QED
  BY <1>4, <1>6 DEF ClusterJobId

\* Two slots get different ids in one distribution, also when the ids come
\* from the fallback counter, which advances between them.
LEMMA JobIdsDiffer ==
  ASSUME NEW p \in Pools, NEW j \in 1 .. Len(HexId[p]), NEW tick \in Nat,
         NEW i \in Active, NEW k \in Active, i < k, fallback \in 0 .. ULONG_MAX
  PROVE  ClusterJobId(p, j, tick, i) # ClusterJobId(p, j, tick, k)
<1> DEFINE M == ULONG_MAX + 1
           a == WorkerIndex(i)
           b == WorkerIndex(k)
           t == tick * MAX_SLAVES
           base == StrToUl(HexId[p][j])
<1>1. M \in Nat \ {0} /\ base \in Nat /\ t \in Nat
  <2>1. HexId[p][j] \in Nat
    OBVIOUS
  <2> QED
    BY <2>1 DEF StrToUl
<1>2. a \in Nat /\ b \in Nat /\ 1 <= a /\ a < b /\ b <= MAX_SLAVES
  BY IndexFacts, ActiveFacts
<1>3. ClusterJobId(p, j, tick, i) =
        ((IF base = 0 THEN (fallback + a - 1) % M ELSE base) + a + t) % M
  BY DEF ClusterJobId, BaseJobId, UInt32
<1>4. ClusterJobId(p, j, tick, k) =
        ((IF base = 0 THEN (fallback + b - 1) % M ELSE base) + b + t) % M
  BY DEF ClusterJobId, BaseJobId, UInt32
<1>5. b - a \in 1 .. (M - 1) /\ 2 * (b - a) \in 1 .. (M - 1)
  BY <1>2
<1> HIDE DEF M, a, b, t, base
<1>6. CASE base # 0
  <2> DEFINE x == base + a + t
  <2>1. x \in Nat /\ base + b + t = x + (b - a)
    BY <1>1, <1>2
  <2> HIDE DEF x
  <2>2. (x + (b - a)) % M # x % M
    BY <1>1, <1>5, <2>1, RemaindersDiffer
  <2> QED
    BY <1>3, <1>4, <1>6, <2>1, <2>2 DEF x
<1>7. CASE base = 0
  <2> DEFINE f == fallback + a - 1
             g == fallback + b - 1
             x == f + (a + t)
  <2>1. f \in Nat /\ g \in Nat /\ a + t \in Nat /\ b + t \in Nat /\ x \in Nat
    BY <1>1, <1>2
  <2>2. f % M \in Nat /\ g % M \in Nat
    <3> HIDE DEF f, g, x
    <3>1. f % M \in 0 .. (M - 1) /\ g % M \in 0 .. (M - 1)
      BY <1>1, <2>1, DivisionFacts
    <3> QED
      BY <1>1, <3>1
  <2>3. ((f % M) + (a + t)) % M = x % M
    BY <1>1, <2>1, RemainderOfSum
  <2>4. ((g % M) + (b + t)) % M = (g + (b + t)) % M
    BY <1>1, <2>1, RemainderOfSum
  <2>5. g + (b + t) = x + 2 * (b - a)
    BY <1>1, <1>2
  <2>6. (f % M) + a + t = (f % M) + (a + t) /\ (g % M) + b + t = (g % M) + (b + t)
    BY <1>1, <1>2, <2>2
  <2> HIDE DEF f, g, x
  <2>7. (x + 2 * (b - a)) % M # x % M
    BY <1>1, <1>5, <2>1, RemaindersDiffer
  <2> QED
    BY <1>3, <1>4, <1>7, <2>3, <2>4, <2>5, <2>6, <2>7 DEF f, g
<1> QED
  BY <1>6, <1>7

\* Every packet is well formed.
LEMMA PacketType ==
  ASSUME NEW p \in Pools, NEW j \in 1 .. Len(HexId[p]), NEW tick \in Nat,
         NEW i \in Active, fallback \in 0 .. ULONG_MAX
  PROVE  PacketOK(Packet(p, j, tick, i))
<1>1. WorkerIndex(i) \in 1 .. Count /\ Count \in Nat
  BY IndexFacts, ActiveFacts
<1>2. 1 + Count \in 1 .. ULONG_MAX /\ WorkerIndex(i) \in 0 .. ((1 + Count) - 1)
  BY <1>1, WorkerCount
<1>3. /\ NonceStart(WorkerIndex(i), 1 + Count) \in 1 .. ULONG_MAX
      /\ NonceEnd(WorkerIndex(i), 1 + Count) \in NonceStart(WorkerIndex(i), 1 + Count) .. ULONG_MAX
  <2> DEFINE k == WorkerIndex(i)
             T == 1 + Count
  <2>1. T \in 1 .. ULONG_MAX /\ k \in 0 .. (T - 1) /\ k >= 1
    BY <1>1, <1>2
  <2> HIDE DEF k, T
  <2>2. /\ NonceStart(k, T) \in 0 .. ULONG_MAX
        /\ NonceStart(k, T) >= 1
        /\ NonceEnd(k, T) \in NonceStart(k, T) .. ULONG_MAX
    BY <2>1, NonceFacts
  <2> QED
    BY <2>2 DEF k, T
<1> QED
  BY <1>3, JobIdType DEF PacketOK, Packet, Count

\* What the types say is enough for one distribution to partition the work,
\* provided that an extranonce2 holds a 32-bit number.
LEMMA TypesPartition ==
  ASSUME LeaseType, JobType, TickType, MapType, EN2_LIMIT > ULONG_MAX
  PROVE  RoundPartitions
<1> SUFFICES ASSUME NEW p \in Pools, job[p] # 0,
                    NEW tick \in {0, en2Tick, reTick}, NEW i \in Active
             PROVE  LET w == Packet(p, job[p], tick, i)
      IN /\ w.from <= w.to
         /\ \A k \in Active \ {i} :
              LET v == Packet(p, job[p], tick, k)
              IN v.id # w.id /\ v.en2 # w.en2
         /\ \A k \in Active :
              Successor(i, k) => Packet(p, job[p], tick, k).from = w.to + 1
         /\ (\A k \in Active : k >= i) =>
              w.from = NonceEnd(0, 1 + Cardinality(Active)) + 1
         /\ (\A k \in Active : k <= i) => w.to = ULONG_MAX
  BY DEF RoundPartitions
<1> DEFINE j == job[p]
           T == 1 + Count
           W(k) == Packet(p, j, tick, k)
<1>1. j \in 1 .. Len(HexId[p]) /\ tick \in Nat /\ fallback \in 0 .. ULONG_MAX
  <2>1. HexId[p] \in Seq(Nat) /\ Len(HexId[p]) \in Nat
    OBVIOUS
  <2>2. job[p] \in Nat /\ notified[p] \in Nat /\ job[p] <= notified[p] /\ notified[p] <= Len(HexId[p])
    BY DEF JobType
  <2>3. tick \in Nat /\ fallback \in 0 .. ULONG_MAX
    BY DEF TickType, MapType
  <2> QED
    BY <2>1, <2>2, <2>3
<1>2. \A k \in Active : k \in Int
  BY DEF Active, Slots
<1>3. ASSUME NEW k \in Active
      PROVE  /\ W(k).id = ClusterJobId(p, j, tick, k)
             /\ W(k).en2 = W(k).id
             /\ W(k).from = NonceStart(WorkerIndex(k), T)
             /\ W(k).to = NonceEnd(WorkerIndex(k), T)
             /\ WorkerIndex(k) \in 1 .. Count
             /\ WorkerIndex(k) \in 0 .. (T - 1)
             /\ W(k).from <= W(k).to
  <2>1. ClusterJobId(p, j, tick, k) < EN2_LIMIT
    <3> HIDE DEF j
    <3>1. ClusterJobId(p, j, tick, k) \in 0 .. ULONG_MAX
      BY <1>1, <1>3, JobIdType
    <3> QED
      BY <3>1
  <2>2. WorkerIndex(k) \in 1 .. Count /\ Count \in Nat
    BY IndexFacts, ActiveFacts
  <2>3. PacketOK(W(k))
    BY <1>1, <1>3, PacketType
  <2> QED
    BY <2>1, <2>2, <2>3 DEF Packet, Extranonce2, Count, PacketOK
<1>4. T \in 1 .. ULONG_MAX /\ Count \in Nat
  BY WorkerCount, ActiveFacts
<1> HIDE DEF j, W, T
<1>5. ASSUME NEW k \in Active \ {i} PROVE W(k).id # W(i).id /\ W(k).en2 # W(i).en2
  <2>1. CASE k < i
    BY <1>1, <1>3, <2>1, JobIdsDiffer
  <2>2. CASE i < k
    BY <1>1, <1>3, <2>2, JobIdsDiffer
  <2> QED
    BY <1>2, <2>1, <2>2
<1>6. ASSUME NEW k \in Active, Successor(i, k) PROVE W(k).from = W(i).to + 1
  <2>1. WorkerIndex(k) = WorkerIndex(i) + 1 /\ WorkerIndex(k) \in 1 .. Count
    BY <1>3, <1>6, IndexFacts
  <2>2. WorkerIndex(i) < T - 1 /\ WorkerIndex(i) \in 0 .. (T - 1)
    BY <1>3, <1>4, <2>1 DEF T
  <2>3. NonceStart(WorkerIndex(i) + 1, T) = NonceEnd(WorkerIndex(i), T) + 1
    BY <1>4, <2>2, NonceFacts
  <2> QED
    BY <1>3, <2>1, <2>3
<1>7. ASSUME \A k \in Active : k >= i PROVE W(i).from = NonceEnd(0, T) + 1
  <2>1. WorkerIndex(i) = 1 /\ 1 \in 1 .. Count
    BY <1>3, <1>7, IndexFacts
  <2>2. 0 \in 0 .. (T - 1) /\ 0 < T - 1
    BY <1>4, <2>1 DEF T
  <2>3. NonceStart(0 + 1, T) = NonceEnd(0, T) + 1
    BY <1>4, <2>2, NonceFacts
  <2> QED
    BY <1>3, <2>1, <2>3
<1>8. ASSUME \A k \in Active : k <= i PROVE W(i).to = ULONG_MAX
  <2>1. WorkerIndex(i) = Count
    BY <1>8, IndexFacts
  <2>2. Count \in 0 .. (T - 1) /\ Count = T - 1
    BY <1>4 DEF T
  <2>3. NonceEnd(Count, T) = ULONG_MAX
    BY <1>4, <2>2, NonceFacts
  <2> QED
    BY <1>3, <2>1, <2>3
<1> QED
  BY <1>3, <1>5, <1>6, <1>7, <1>8 DEF W, j, T, Count

-----------------------------------------------------------------------------
(* Types.                                                                  *)

\* distribute_work keeps the job map, the counters and the packets in
\* slaves' hands within their types.
LEMMA DistributeType ==
  ASSUME MapType, HeldType, NEW p \in Pools, NEW j \in 1 .. Len(HexId[p]),
         NEW tick \in Nat, NEW built, NEW got, Distribute(p, j, tick, built, got)
  PROVE  MapType' /\ HeldType'
<1> DEFINE Nth(i) == mapIndex + Cardinality({k \in built : k < i})
<1>1. built \subseteq Active /\ got \subseteq built
  BY DEF Distribute
<1>2. \A i \in Active : PacketOK(Packet(p, j, tick, i))
  BY PacketType DEF MapType
<1>3. \A c \in MapCells : jobMap'[c].id \in 0 .. ULONG_MAX \cup {NoId}
  <2> SUFFICES ASSUME NEW c \in MapCells
               PROVE  jobMap'[c].id \in 0 .. ULONG_MAX \cup {NoId}
    OBVIOUS
  <2> DEFINE i == CHOOSE i \in built : CellOf(Nth(i)) = c
  <2>1. jobMap'[c] = IF \E n \in built : CellOf(Nth(n)) = c
                     THEN MapEntry(Packet(p, j, tick, i)) ELSE jobMap[c]
    BY DEF Distribute
  <2>2. CASE \E n \in built : CellOf(Nth(n)) = c
    <3>1. i \in built
      BY <2>2
    <3> HIDE DEF i
    <3>2. jobMap'[c].id = Packet(p, j, tick, i).id
      <4>1. jobMap'[c] = MapEntry(Packet(p, j, tick, i))
        BY <2>1, <2>2
      <4>2. MapEntry(Packet(p, j, tick, i)).id = Packet(p, j, tick, i).id
        BY DEF MapEntry
      <4> QED
        BY <4>1, <4>2
    <3> QED
      BY <1>1, <1>2, <3>1, <3>2 DEF PacketOK
  <2>3. CASE ~ \E n \in built : CellOf(Nth(n)) = c
    <3> HIDE DEF i
    <3> QED
      BY <2>1, <2>3 DEF MapType
  <2> QED
    BY <2>2, <2>3
<1>4. mapIndex' \in Nat
  <2>1. IsFiniteSet(built)
    BY <1>1, ActiveFacts, FS_Subset
  <2>2. Cardinality(built) \in Nat
    BY <2>1, FS_CardinalityType
  <2> QED
    BY <2>2 DEF Distribute, MapType
<1>5. fallback' \in 0 .. ULONG_MAX
  <2>1. fallback + Count \in Nat
    BY ActiveFacts DEF MapType
  <2>2. UInt32(fallback + Cardinality(Active)) \in 0 .. ULONG_MAX
    BY <2>1, UInt32Type DEF Count
  <2> QED
    BY <2>2 DEF Distribute, MapType
<1>6. HeldType'
  <2> SUFFICES ASSUME NEW d \in Devices, held'[d] # NoWork
               PROVE  PacketOK(held'[d].packet)
    BY DEF HeldType, PacketOK
  <2> DEFINE i == CHOOSE i \in got : lease[i] = d
  <2>1. held'[d] = IF \E n \in got : lease[n] = d
                   THEN [packet |-> Packet(p, j, tick, i), stored |-> Nth(i)]
                   ELSE held[d]
    BY DEF Distribute
  <2>2. CASE \E n \in got : lease[n] = d
    <3>1. i \in got
      BY <2>2
    <3> HIDE DEF i
    <3>2. held'[d].packet = Packet(p, j, tick, i)
      BY <2>1, <2>2
    <3> QED
      BY <1>1, <1>2, <3>1, <3>2
  <2>3. CASE ~ \E n \in got : lease[n] = d
    <3> HIDE DEF i
    <3> QED
      BY <2>1, <2>3 DEF HeldType
  <2> QED
    BY <2>2, <2>3
<1> QED
  BY <1>3, <1>4, <1>5, <1>6 DEF MapType

\* A pool's current job is one of the announced ones.
LEMMA CurrentJob ==
  ASSUME JobType, NEW p \in Pools, job[p] # 0
  PROVE  job[p] \in 1 .. Len(HexId[p])
<1>1. HexId[p] \in Seq(Nat) /\ Len(HexId[p]) \in Nat
  OBVIOUS
<1>2. job[p] \in Nat /\ notified[p] \in Nat /\ job[p] <= notified[p] /\ notified[p] <= Len(HexId[p])
  BY DEF JobType
<1> QED
  BY <1>1, <1>2

LEMMA DistributeCurrentType ==
  ASSUME MapType, HeldType, JobType, NEW p \in Pools, NEW tick \in Nat,
         NEW built, NEW got, DistributeCurrent(p, tick, built, got)
  PROVE  MapType' /\ HeldType'
<1>1. CASE job[p] # 0
  <2>1. job[p] \in 1 .. Len(HexId[p]) /\ Distribute(p, job[p], tick, built, got)
    BY <1>1, CurrentJob DEF DistributeCurrent
  <2> QED
    BY <2>1, DistributeType
<1>2. CASE job[p] = 0
  BY <1>2 DEF DistributeCurrent, MapType, HeldType, mapVars, PacketOK
<1> QED
  BY <1>1, <1>2

LEMMA MapFrame ==
  ASSUME MapType, HeldType, UNCHANGED <<mapVars, held>>
  PROVE  MapType' /\ HeldType'
  BY DEF MapType, HeldType, mapVars, PacketOK

LEMMA DistributionInit == Init => TypeOK
<1> SUFFICES ASSUME Init PROVE TypeOK
  OBVIOUS
<1>1. LeaseType
  BY DEF Init, LeaseType, Registry!LeaseInit, Registry!LeaseSlots, Slots
<1>2. JobType
  <2>1. \A p \in Pools : Len(HexId[p]) \in Nat
    OBVIOUS
  <2> QED
    BY <2>1 DEF Init, JobType
<1>3. TickType
  BY DEF Init, TickType, Idle
<1>4. MapType
  BY DEF Init, MapType
<1>5. HeldType
  BY DEF Init, HeldType
<1> QED
  BY <1>1, <1>2, <1>3, <1>4, <1>5 DEF TypeOK

LEMMA DistributionStep == TypeOK /\ [Next]_vars => TypeOK'
<1> SUFFICES ASSUME TypeOK, [Next]_vars PROVE TypeOK'
  OBVIOUS
<1> USE DEF TypeOK
<1>1. CASE UNCHANGED vars
  <2>1. MapType' /\ HeldType'
    BY <1>1, MapFrame DEF vars
  <2> QED
    BY <1>1, <2>1 DEF vars, masterVars, LeaseType, JobType, TickType
<1>2. CASE Membership
  <2>1. LeaseType'
    <3>1. ASSUME NEW i \in Slots, NEW d \in Devices, Registry!Grant(i, d) PROVE LeaseType'
      BY <3>1 DEF Registry!Grant, LeaseType
    <3>2. ASSUME NEW S, Registry!Revoke(S) PROVE LeaseType'
      BY <3>2 DEF Registry!Revoke, Registry!LeaseSlots, LeaseType, Slots
    <3> QED
      BY <1>2, <3>1, <3>2 DEF Membership, Registry!LeaseNext, Registry!LeaseSlots, Slots
  <2>2. MapType' /\ HeldType'
    BY <1>2, MapFrame DEF Membership
  <2> QED
    BY <1>2, <2>1, <2>2 DEF Membership, masterVars, JobType, TickType
<1>3. ASSUME NEW p \in Pools, Invalidate(p) PROVE TypeOK'
  <2>1. MapType' /\ HeldType'
    BY <1>3, MapFrame DEF Invalidate
  <2>2. JobType'
    BY <1>3 DEF Invalidate, JobType
  <2> QED
    BY <1>3, <2>1, <2>2 DEF Invalidate, LeaseType, TickType
<1>4. ASSUME NEW p \in Pools, CreateJob(p) PROVE TypeOK'
  <2>1. MapType' /\ HeldType'
    BY <1>4, MapFrame DEF CreateJob
  <2> QED
    BY <1>4, <2>1 DEF CreateJob, LeaseType, JobType, TickType
<1>5. ASSUME NEW t \in Tasks, RetriggerReadTick(t) PROVE TypeOK'
  <2>1. MapType' /\ HeldType'
    BY <1>5, MapFrame DEF RetriggerReadTick
  <2>2. TickType'
    BY <1>5 DEF RetriggerReadTick, TickType
  <2> QED
    BY <1>5, <2>1, <2>2 DEF RetriggerReadTick, LeaseType, JobType
<1>6. ASSUME NEW t \in Tasks, RetriggerWriteTick(t) PROVE TypeOK'
  <2>1. MapType' /\ HeldType'
    BY <1>6, MapFrame DEF RetriggerWriteTick
  <2>2. TickType'
    BY <1>6 DEF RetriggerWriteTick, TickType
  <2> QED
    BY <1>6, <2>1, <2>2 DEF RetriggerWriteTick, LeaseType, JobType
<1>7. ASSUME NEW p \in Pools, NEW built, NEW got, MiningNotify(p, built, got) PROVE TypeOK'
  <2>1. HexId[p] \in Seq(Nat) /\ Len(HexId[p]) \in Nat /\ notified[p] \in Nat
    BY DEF JobType
  <2>2. notified'[p] = notified[p] + 1 /\ notified'[p] \in 1 .. Len(HexId[p])
    BY <1>7, <2>1 DEF MiningNotify, JobType
  <2>3. MapType' /\ HeldType'
    BY <1>7, <2>2, DistributeType DEF MiningNotify
  <2>4. JobType'
    BY <1>7, <2>1, <2>2 DEF MiningNotify, JobType
  <2> QED
    BY <1>7, <2>3, <2>4 DEF MiningNotify, LeaseType, TickType
<1>8. ASSUME NEW built, NEW got, CreateDistribute(built, got) PROVE TypeOK'
  <2>1. creating \in Pools /\ en2Tick \in Nat
    BY <1>8 DEF CreateDistribute, TickType
  <2>2. MapType' /\ HeldType'
    BY <1>8, <2>1, DistributeCurrentType DEF CreateDistribute
  <2>3. TickType'
    BY <1>8 DEF CreateDistribute, TickType
  <2> QED
    BY <1>8, <2>2, <2>3 DEF CreateDistribute, LeaseType, JobType
<1>9. ASSUME NEW t \in Tasks, NEW p \in {0, 1}, NEW built, NEW got,
             RetriggerPool(t, p, built, got)
      PROVE  TypeOK'
  <2>1. retrig[t].tick \in Nat
    BY DEF TickType
  <2>2. MapType' /\ HeldType'
    <3>1. CASE p \in Pools
      BY <1>9, <2>1, <3>1, DistributeCurrentType DEF RetriggerPool
    <3>2. CASE p \notin Pools
      BY <1>9, <3>2, MapFrame DEF RetriggerPool
    <3> QED
      BY <3>1, <3>2
  <2>3. TickType'
    BY <1>9 DEF RetriggerPool, TickType, Idle
  <2> QED
    BY <1>9, <2>2, <2>3 DEF RetriggerPool, LeaseType, JobType
<1> QED
  BY <1>1, <1>2, <1>3, <1>4, <1>5, <1>6, <1>7, <1>8, <1>9 DEF Next

\* Job ids and nonce ranges in slaves' hands stay in 32 bits and all state
\* keeps its type, for every value of the constants.
THEOREM DistributionTypes == Spec => []TypeOK
  BY DistributionInit, DistributionStep, PTL DEF Spec

\* Every distribution partitions the work among the active slaves, whatever
\* the pool's job ids are, provided that the pool's extranonce2 has room for
\* a 32-bit number (four bytes).
THEOREM EveryRoundPartitions ==
  ASSUME EN2_LIMIT > ULONG_MAX
  PROVE  Spec => []RoundPartitions
<1>1. TypeOK => RoundPartitions
  BY TypesPartition DEF TypeOK
<1> QED
  BY <1>1, DistributionTypes, PTL

-----------------------------------------------------------------------------
(* The job map: shares of slaves that hash a recent packet are submitted   *)
(* for the job they were found for.                                        *)

\* The slots below i in a set of slots; Distribute counts them to number
\* the packets of a round in the order of the slots.
Below(built, i) == {k \in built : k < i}

LEMMA BelowFacts ==
  ASSUME NEW built \in SUBSET Active, NEW i \in built
  PROVE  /\ IsFiniteSet(built)
         /\ Cardinality(built) \in 1 .. MAX_SLAVES
         /\ Cardinality(Below(built, i)) \in 0 .. (Cardinality(built) - 1)
         /\ \A k \in built : i < k => Cardinality(Below(built, i)) < Cardinality(Below(built, k))
<1>1. \A k \in built : k \in Int
  BY DEF Active, Slots
<1>2. IsFiniteSet(built) /\ Cardinality(built) <= Count /\ Cardinality(built) \in Nat
  BY ActiveFacts, FS_Subset, FS_CardinalityType DEF Count
<1>3. ASSUME NEW k \in built
      PROVE  /\ Cardinality(Below(built, k)) \in Nat
             /\ IsFiniteSet(Below(built, k))
             /\ Cardinality(Below(built, k) \cup {k}) = Cardinality(Below(built, k)) + 1
             /\ Below(built, k) \cup {k} \subseteq built
  <2>1. Below(built, k) \subseteq built /\ k \notin Below(built, k)
    BY <1>1, <1>3 DEF Below
  <2>2. IsFiniteSet(Below(built, k))
    BY <1>2, <2>1, FS_Subset
  <2> QED
    BY <1>3, <2>1, <2>2, FS_CardinalityType, FS_AddElement
<1>4. Cardinality(Below(built, i)) + 1 <= Cardinality(built)
  <2>1. Cardinality(Below(built, i) \cup {i}) <= Cardinality(built)
    BY <1>2, <1>3, FS_Subset
  <2> QED
    BY <1>3, <2>1
<1>5. ASSUME NEW k \in built, i < k
      PROVE  Cardinality(Below(built, i)) < Cardinality(Below(built, k))
  <2>1. \A l \in built : l < i \/ l = i => l < k
    BY <1>1, <1>5
  <2>2. Below(built, i) \cup {i} \subseteq Below(built, k)
    BY <2>1 DEF Below
  <2>3. Cardinality(Below(built, i) \cup {i}) <= Cardinality(Below(built, k))
    BY <1>3, <1>5, <2>2, FS_Subset
  <2>4. /\ Cardinality(Below(built, i)) \in Nat /\ Cardinality(Below(built, k)) \in Nat
        /\ Cardinality(Below(built, i) \cup {i}) = Cardinality(Below(built, i)) + 1
    BY <1>3, <1>5
  <2> QED
    BY <2>3, <2>4
<1>6. Count \in 0 .. MAX_SLAVES /\ Cardinality(Below(built, i)) \in Nat
  BY <1>3, ActiveFacts
<1>7. Cardinality(built) \in 1 .. MAX_SLAVES
  BY <1>2, <1>4, <1>6
<1>8. Cardinality(Below(built, i)) \in 0 .. (Cardinality(built) - 1)
  BY <1>4, <1>6, <1>7
<1> QED
  BY <1>2, <1>5, <1>7, <1>8

\* The numbers of two entries less than JOB_MAP_SIZE apart name different
\* cells.
LEMMA CellsDiffer ==
  ASSUME NEW a \in Nat, NEW b \in Nat, a < b, b - a < JOB_MAP_SIZE
  PROVE  CellOf(a) # CellOf(b)
<1>1. b - a \in 1 .. (JOB_MAP_SIZE - 1) /\ b = a + (b - a)
  OBVIOUS
<1> QED
  BY <1>1, RemaindersDiffer DEF CellOf

LEMMA CellType == ASSUME NEW n \in Nat PROVE CellOf(n) \in MapCells
  BY DivisionFacts DEF CellOf, MapCells

\* A packet in a slave's hands has a number, and while it is among the last
\* JOB_MAP_SIZE its entry has not been overwritten.
HeldRing ==
  \A d \in Devices : held[d] # NoWork =>
    /\ held[d].stored \in 0 .. (mapIndex - 1)
    /\ mapIndex - held[d].stored <= JOB_MAP_SIZE =>
         jobMap[CellOf(held[d].stored)] = MapEntry(held[d].packet)

\* What one distribution writes: the packet of every slot whose packet is
\* built, in a cell of its own, and nothing over the last entries.
LEMMA DistributeWrites ==
  ASSUME mapIndex \in Nat, NEW p, NEW j, NEW tick, NEW built, NEW got,
         Distribute(p, j, tick, built, got)
  PROVE  /\ mapIndex' \in Nat /\ mapIndex <= mapIndex'
         /\ \A i \in built :
              LET n == mapIndex + Cardinality(Below(built, i))
              IN /\ n \in 0 .. (mapIndex' - 1)
                 /\ jobMap'[CellOf(n)] = MapEntry(Packet(p, j, tick, i))
         /\ \A n \in 0 .. (mapIndex - 1) :
              mapIndex' - n <= JOB_MAP_SIZE => jobMap'[CellOf(n)] = jobMap[CellOf(n)]
<1> DEFINE Nth(i) == mapIndex + Cardinality(Below(built, i))
<1>1. built \in SUBSET Active
  BY DEF Distribute
<1>2. Cardinality(built) \in Nat /\ mapIndex' = mapIndex + Cardinality(built)
  <2>1. IsFiniteSet(built)
    BY <1>1, ActiveFacts, FS_Subset
  <2> QED
    BY <2>1, FS_CardinalityType DEF Distribute
<1>3. ASSUME NEW c \in MapCells
      PROVE  jobMap'[c] = IF \E i \in built : CellOf(Nth(i)) = c
               THEN MapEntry(Packet(p, j, tick, CHOOSE i \in built : CellOf(Nth(i)) = c))
               ELSE jobMap[c]
  BY <1>3 DEF Distribute, Below
<1>4. \A i \in built : Nth(i) \in mapIndex .. (mapIndex' - 1) /\ mapIndex' - mapIndex <= JOB_MAP_SIZE
  BY <1>1, <1>2, BelowFacts
<1>5. ASSUME NEW i \in built, NEW k \in built, i < k PROVE Nth(i) < Nth(k)
  <2>1. /\ Cardinality(Below(built, i)) < Cardinality(Below(built, k))
        /\ Cardinality(Below(built, i)) \in Int /\ Cardinality(Below(built, k)) \in Int
    BY <1>1, <1>5, BelowFacts
  <2> QED
    BY <2>1
<1>6. \A i \in built : i \in Int
  BY <1>1 DEF Active, Slots
<1> HIDE DEF Nth
<1>7. ASSUME NEW i \in built, NEW k \in built, CellOf(Nth(i)) = CellOf(Nth(k))
      PROVE  i = k
  <2>1. ASSUME NEW a \in built, NEW b \in built, a < b PROVE CellOf(Nth(a)) # CellOf(Nth(b))
    <3>1. Nth(a) \in Nat /\ Nth(b) \in Nat /\ Nth(a) < Nth(b) /\ Nth(b) - Nth(a) < JOB_MAP_SIZE
      BY <1>2, <1>4, <1>5, <2>1
    <3> QED
      BY <3>1, CellsDiffer
  <2> QED
    BY <1>6, <1>7, <2>1
<1>8. ASSUME NEW i \in built PROVE jobMap'[CellOf(Nth(i))] = MapEntry(Packet(p, j, tick, i))
  <2>1. CellOf(Nth(i)) \in MapCells
    BY <1>2, <1>4, <1>8, CellType
  <2>2. (CHOOSE k \in built : CellOf(Nth(k)) = CellOf(Nth(i))) = i
    BY <1>7, <1>8
  <2> QED
    BY <1>3, <1>8, <2>1, <2>2
<1>9. ASSUME NEW n \in 0 .. (mapIndex - 1), mapIndex' - n <= JOB_MAP_SIZE
      PROVE  jobMap'[CellOf(n)] = jobMap[CellOf(n)]
  <2>1. CellOf(n) \in MapCells
    BY <1>9, CellType
  <2>2. ASSUME NEW i \in built PROVE CellOf(Nth(i)) # CellOf(n)
    <3>1. n \in Nat /\ Nth(i) \in Nat /\ n < Nth(i) /\ Nth(i) - n < JOB_MAP_SIZE
      BY <1>2, <1>4, <1>9, <2>2
    <3> QED
      BY <3>1, CellsDiffer
  <2> QED
    BY <1>3, <2>1, <2>2
<1> QED
  BY <1>2, <1>4, <1>8, <1>9 DEF Nth

LEMMA DistributeRing ==
  ASSUME mapIndex \in Nat, HeldRing, NEW p, NEW j, NEW tick, NEW built, NEW got,
         Distribute(p, j, tick, built, got)
  PROVE  HeldRing'
<1> SUFFICES ASSUME NEW d \in Devices, held'[d] # NoWork
             PROVE  /\ held'[d].stored \in 0 .. (mapIndex' - 1)
                    /\ mapIndex' - held'[d].stored <= JOB_MAP_SIZE =>
                         jobMap'[CellOf(held'[d].stored)] = MapEntry(held'[d].packet)
  BY DEF HeldRing, MapEntry, CellOf
<1>1. CASE \E n \in got : lease[n] = d
  <2> DEFINE i == CHOOSE i \in got : lease[i] = d
             n == mapIndex + Cardinality(Below(built, i))
  <2>1. i \in got
    BY <1>1
  <2>2. held'[d] = [packet |-> Packet(p, j, tick, i), stored |-> n]
    BY <1>1 DEF Distribute, Below
  <2>3. i \in built
    BY <2>1 DEF Distribute
  <2> HIDE DEF i
  <2>4. n \in 0 .. (mapIndex' - 1) /\ jobMap'[CellOf(n)] = MapEntry(Packet(p, j, tick, i))
    BY <2>3, DistributeWrites
  <2> HIDE DEF n
  <2> QED
    BY <2>2, <2>4
<1>2. CASE ~ \E n \in got : lease[n] = d
  <2>1. held'[d] = held[d]
    BY <1>2 DEF Distribute
  <2>2. /\ held[d].stored \in 0 .. (mapIndex - 1)
        /\ mapIndex - held[d].stored <= JOB_MAP_SIZE =>
             jobMap[CellOf(held[d].stored)] = MapEntry(held[d].packet)
    BY <2>1 DEF HeldRing
  <2>3. mapIndex' \in Nat /\ mapIndex <= mapIndex'
        /\ (mapIndex' - held[d].stored <= JOB_MAP_SIZE =>
              jobMap'[CellOf(held[d].stored)] = jobMap[CellOf(held[d].stored)])
    BY <2>2, DistributeWrites
  <2> QED
    BY <2>1, <2>2, <2>3
<1> QED
  BY <1>1, <1>2

\* The steps that touch the map are those that distribute: for one of the
\* announced jobs, with one of the ticks.
Ticks == 0 .. MaxLoops \cup 0 .. MaxRetriggers

LEMMA MapSteps ==
  ASSUME TypeOK, [Next]_vars
  PROVE  \/ UNCHANGED <<mapVars, held>>
         \/ \E p \in Pools : \E j \in 1 .. Len(HexId[p]) : \E tick \in Ticks :
              \E built, got : Distribute(p, j, tick, built, got)
<1> USE DEF TypeOK
<1>0. ASSUME NEW p \in Pools, NEW tick \in Ticks, NEW built, NEW got,
             DistributeCurrent(p, tick, built, got)
      PROVE  \/ UNCHANGED <<mapVars, held>>
             \/ \E j \in 1 .. Len(HexId[p]) : Distribute(p, j, tick, built, got)
  BY <1>0, CurrentJob DEF DistributeCurrent
<1>1. ASSUME NEW p \in Pools, NEW built, NEW got, MiningNotify(p, built, got)
      PROVE  \E j \in 1 .. Len(HexId[p]) : \E tick \in Ticks : Distribute(p, j, tick, built, got)
  <2>1. HexId[p] \in Seq(Nat) /\ Len(HexId[p]) \in Nat /\ notified[p] \in Nat
    BY DEF JobType
  <2>2. notified'[p] \in 1 .. Len(HexId[p]) /\ Distribute(p, notified'[p], 0, built, got)
    BY <1>1, <2>1 DEF MiningNotify, JobType
  <2>3. 0 \in Ticks
    BY DEF Ticks
  <2> QED
    BY <2>2, <2>3
<1>2. ASSUME NEW built, NEW got, CreateDistribute(built, got)
      PROVE  creating \in Pools /\ en2Tick \in Ticks
             /\ DistributeCurrent(creating, en2Tick, built, got)
  BY <1>2 DEF CreateDistribute, TickType, Ticks
<1>3. ASSUME NEW t \in Tasks, NEW p \in {0, 1}, NEW built, NEW got,
             RetriggerPool(t, p, built, got)
      PROVE  /\ retrig[t].tick \in Ticks
             /\ \/ UNCHANGED <<mapVars, held>>
                \/ p \in Pools /\ DistributeCurrent(p, retrig[t].tick, built, got)
  BY <1>3 DEF RetriggerPool, TickType, Ticks
<1>4. CASE \/ Membership \/ UNCHANGED vars
           \/ \E p \in Pools : Invalidate(p) \/ CreateJob(p)
           \/ \E t \in Tasks : RetriggerReadTick(t) \/ RetriggerWriteTick(t)
  BY <1>4 DEF Membership, Invalidate, CreateJob, RetriggerReadTick, RetriggerWriteTick, vars
<1>5. CASE \E p \in Pools : \E built, got : MiningNotify(p, built, got)
  BY <1>1, <1>5
<1>6. CASE \E built, got : CreateDistribute(built, got)
  BY <1>0, <1>2, <1>6
<1>7. CASE \E t \in Tasks, p \in {0, 1} : \E built, got : RetriggerPool(t, p, built, got)
  BY <1>0, <1>3, <1>7
<1> QED
  BY <1>4, <1>5, <1>6, <1>7 DEF Next

LEMMA AlwaysHeldRing == Spec => []HeldRing
<1>1. Init => HeldRing
  BY DEF Init, HeldRing
<1>2. TypeOK /\ HeldRing /\ [Next]_vars => HeldRing'
  <2> SUFFICES ASSUME TypeOK, HeldRing, [Next]_vars PROVE HeldRing'
    OBVIOUS
  <2>1. CASE UNCHANGED <<mapVars, held>>
    BY <2>1 DEF HeldRing, mapVars, CellOf, MapEntry
  <2>2. mapIndex \in Nat
    BY DEF TypeOK, MapType
  <2> QED
    BY <2>1, <2>2, MapSteps, DistributeRing
<1> QED
  BY <1>1, <1>2, DistributionTypes, PTL DEF Spec

\* No two jobs in the map share an id.
IdsUnambiguous ==
  \A c, e \in MapCells :
    jobMap[c].id # NoId /\ jobMap[c].id = jobMap[e].id => jobMap[c] = jobMap[e]

\* Then the entry lookup_job_mapping answers with is the one that was
\* stored for the packet.
LEMMA LookupFinds ==
  ASSUME TypeOK, HeldRing, IdsUnambiguous
  PROVE  MapResolves
<1> SUFFICES ASSUME NEW d \in Devices, held[d] # NoWork,
                    mapIndex - held[d].stored <= JOB_MAP_SIZE
             PROVE  /\ Matches(jobMap, held[d].packet.id) # {}
                    /\ jobMap[LookupMapping(jobMap, held[d].packet.id)] = MapEntry(held[d].packet)
  BY DEF MapResolves
<1> DEFINE c == CellOf(held[d].stored)
           id == held[d].packet.id
           k == LookupMapping(jobMap, id)
<1>1. id \in 0 .. ULONG_MAX
  BY DEF TypeOK, HeldType, PacketOK
<1>2. mapIndex \in Nat /\ held[d].stored \in 0 .. (mapIndex - 1) /\ jobMap[c] = MapEntry(held[d].packet)
  BY DEF HeldRing, TypeOK, MapType
<1>3. c \in MapCells /\ jobMap[c].id = id
  BY <1>2, CellType DEF MapEntry
<1> HIDE DEF c, id
<1>4. c \in Matches(jobMap, id) /\ Matches(jobMap, id) \in SUBSET Nat
  BY <1>3 DEF Matches, MapCells
<1>5. \E n \in Matches(jobMap, id) : \A l \in Matches(jobMap, id) : n <= l
  BY <1>4, LeastNumber
<1>6. k \in Matches(jobMap, id)
  BY <1>5 DEF LookupMapping
<1> HIDE DEF k
<1>7. k \in MapCells /\ jobMap[k].id = id
  BY <1>6 DEF Matches
<1>8. jobMap[k] = jobMap[c]
  BY <1>1, <1>3, <1>7 DEF IdsUnambiguous, NoId
<1> QED
  BY <1>2, <1>4, <1>8 DEF k, id

\* Whatever the pools' job ids are, a share of a recent packet resolves to
\* that packet's job in every state in which no two jobs in the map share an
\* id: nothing but an id that is used twice can mix shares up.
THEOREM UnambiguousResolve == Spec => [](IdsUnambiguous => MapResolves)
<1>1. TypeOK /\ HeldRing => (IdsUnambiguous => MapResolves)
  BY LookupFinds
<1> QED
  BY <1>1, DistributionTypes, AlwaysHeldRing, PTL

\* The entries that the announced jobs can have, under all their ids.
JobEntries ==
  UNION {UNION {{[id |-> n, pool |-> p, job |-> j, en2 |-> Extranonce2(n)] :
                   n \in JobIds(p, j)} : j \in 1 .. Len(HexId[p])} : p \in Pools}

LEMMA IdNamesEntry ==
  ASSUME JobsFarApart, NEW e \in JobEntries, NEW f \in JobEntries, e.id = f.id
  PROVE  e = f
<1> DEFINE Names(x, p, j) ==
      \E n \in JobIds(p, j) : x = [id |-> n, pool |-> p, job |-> j, en2 |-> Extranonce2(n)]
<1>1. PICK p \in Pools : \E j \in 1 .. Len(HexId[p]) : Names(e, p, j)
  BY DEF JobEntries
<1>2. PICK q \in Pools : \E l \in 1 .. Len(HexId[q]) : Names(f, q, l)
  BY DEF JobEntries
<1>3. PICK j \in 1 .. Len(HexId[p]) : Names(e, p, j)
  BY <1>1
<1>4. PICK l \in 1 .. Len(HexId[q]) : Names(f, q, l)
  BY <1>2
<1>5. PICK n \in JobIds(p, j) :
        e = [id |-> n, pool |-> p, job |-> j, en2 |-> Extranonce2(n)]
  BY <1>3
<1>6. PICK m \in JobIds(q, l) :
        f = [id |-> m, pool |-> q, job |-> l, en2 |-> Extranonce2(m)]
  BY <1>4
<1>7. n = m
  BY <1>5, <1>6
<1>8. p = q /\ j = l
  BY <1>7 DEF JobsFarApart
<1> QED
  BY <1>5, <1>6, <1>7, <1>8

LEMMA EntryOfPacket ==
  ASSUME JobsFarApart, NEW p \in Pools, NEW j \in 1 .. Len(HexId[p]), NEW tick \in Ticks,
         NEW i \in Active
  PROVE  MapEntry(Packet(p, j, tick, i)) \in JobEntries
<1> DEFINE n == ClusterJobId(p, j, tick, i)
<1>1. StrToUl(HexId[p][j]) # 0
  BY DEF JobsFarApart
<1>2. n = UInt32(StrToUl(HexId[p][j]) + WorkerIndex(i) + tick * MAX_SLAVES)
  BY <1>1 DEF ClusterJobId, BaseJobId
<1>3. WorkerIndex(i) \in Slots
  BY IndexFacts, ActiveFacts DEF Slots
<1>4. n \in JobIds(p, j)
  BY <1>2, <1>3 DEF JobIds, Ticks
<1>5. MapEntry(Packet(p, j, tick, i)) = [id |-> n, pool |-> p, job |-> j, en2 |-> Extranonce2(n)]
  BY DEF MapEntry, Packet
<1> HIDE DEF n
<1> QED
  BY <1>4, <1>5 DEF JobEntries

\* The valid entries of the map are in S.
EntriesIn(S) == \A c \in MapCells : jobMap[c].id # NoId => jobMap[c] \in S

LEMMA DistributeEntries ==
  ASSUME NEW CONSTANT S, EntriesIn(S), NEW p, NEW j, NEW tick, NEW built, NEW got,
         \A i \in Active : MapEntry(Packet(p, j, tick, i)) \in S,
         Distribute(p, j, tick, built, got)
  PROVE  EntriesIn(S)'
<1> SUFFICES ASSUME NEW c \in MapCells, jobMap'[c].id # NoId
             PROVE  jobMap'[c] \in S
  BY DEF EntriesIn, MapCells, NoId
<1> DEFINE In(i) == CellOf(mapIndex + Cardinality({k \in built : k < i})) = c
<1>1. jobMap'[c] = IF \E i \in built : In(i)
                   THEN MapEntry(Packet(p, j, tick, CHOOSE i \in built : In(i))) ELSE jobMap[c]
  BY DEF Distribute
<1>2. built \subseteq Active
  BY DEF Distribute
<1> HIDE DEF In
<1>3. (\E i \in built : In(i)) => (CHOOSE i \in built : In(i)) \in Active
  BY <1>2
<1> QED
  BY <1>1, <1>3 DEF EntriesIn

LEMMA AlwaysJobEntries ==
  ASSUME JobsFarApart, NEW CONSTANT S, S = JobEntries
  PROVE  Spec => []EntriesIn(S)
<1>1. Init => EntriesIn(S)
  BY DEF Init, EntriesIn
<1>2. TypeOK /\ EntriesIn(S) /\ [Next]_vars => EntriesIn(S)'
  <2> SUFFICES ASSUME TypeOK, EntriesIn(S), [Next]_vars PROVE EntriesIn(S)'
    OBVIOUS
  <2>1. CASE UNCHANGED <<mapVars, held>>
    BY <2>1 DEF EntriesIn, mapVars, MapCells, NoId
  <2>2. ASSUME NEW p \in Pools, NEW j \in 1 .. Len(HexId[p]), NEW tick \in Ticks,
               NEW built, NEW got, Distribute(p, j, tick, built, got)
        PROVE  EntriesIn(S)'
    <3>1. \A i \in Active : MapEntry(Packet(p, j, tick, i)) \in S
      BY <2>2, EntryOfPacket
    <3> QED
      BY <2>2, <3>1, DistributeEntries
  <2> QED
    BY <2>1, <2>2, MapSteps
<1> QED
  BY <1>1, <1>2, DistributionTypes, PTL DEF Spec

\* While the ids of different jobs cannot be mixed up, a share that a slave
\* finds for the packet it hashes resolves to that packet's pool, job and
\* extranonce2 as long as the packet is among the last JOB_MAP_SIZE stored,
\* whatever registrations, invalidations and retriggers come between.
THEOREM SharesResolve ==
  ASSUME JobsFarApart
  PROVE  Spec => []MapResolves
<1> SUFFICES ASSUME NEW CONSTANT S, S = JobEntries
             PROVE  Spec => []MapResolves
  OBVIOUS
<1>1. EntriesIn(S) => IdsUnambiguous
  BY IdNamesEntry DEF EntriesIn, IdsUnambiguous
<1>2. TypeOK /\ HeldRing /\ IdsUnambiguous => MapResolves
  BY LookupFinds
<1> QED
  BY <1>1, <1>2, DistributionTypes, AlwaysHeldRing, AlwaysJobEntries, PTL
=============================================================================
