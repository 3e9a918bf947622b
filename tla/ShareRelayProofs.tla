-------------------------- MODULE ShareRelayProofs --------------------------
(***************************************************************************)
(* Proofs about ShareRelay: types, and the guarantee of the ring of recent *)
(* shares for every ring size, any number of slaves and any interleaving.  *)
(***************************************************************************)
EXTENDS ShareRelay, RingLemmas, FiniteSetTheorems, FunctionTheorems

USE RelayAssumption, NoShareAssumption, JobMapAssumption

WorkType ==
  /\ jobMap \in [MapCells -> [id : {NoId}] \cup [id : 1 .. MaxJobs, job : 1 .. MaxJobs]]
  /\ mapIndex \in 0 .. MaxJobs
  /\ hashing \in [Slaves -> 0 .. MaxJobs]
SlaveSideType ==
  /\ found \in SUBSET Shares
  /\ sending \in [Slaves -> [share : Shares \cup {NoShare}, left : 0 .. COPIES]]
  /\ \A s \in Slaves : sending[s].left > 0 => sending[s].share \in Shares
RxType == rx \in Seq(Shares)

\* The ring holds the last RECENT_SHARES recorded shares, each in the cell
\* given by its position in the history.
RingHoldsRecent ==
  /\ recorded \in Seq(Shares)
  /\ recent \in [Cells -> Shares \cup {NoShare}]
  /\ recentIdx = Len(recorded) % RECENT_SHARES
  /\ \A k \in 1 .. Len(recorded) :
       Len(recorded) - k < RECENT_SHARES => recent[(k - 1) % RECENT_SHARES] = recorded[k]

\* The inductive invariant of the dedup theorem.
DedupInv == WorkType /\ SlaveSideType /\ RxType /\ RingHoldsRecent /\ DedupWindow

LEMMA DedupInit == Init => DedupInv
<1> SUFFICES ASSUME Init PROVE DedupInv
  OBVIOUS
<1>1. WorkType
  BY DEF Init, WorkType, MapCells, NoId
<1>2. SlaveSideType
  BY DEF Init, SlaveSideType, NotSending
<1>3. RxType
  BY DEF Init, RxType
<1>4. RingHoldsRecent
  <2>1. 0 % RECENT_SHARES = 0
    OBVIOUS
  <2> QED
    BY <2>1 DEF Init, RingHoldsRecent, Cells
<1>5. DedupWindow
  BY DEF Init, DedupWindow
<1> QED
  BY <1>1, <1>2, <1>3, <1>4, <1>5 DEF DedupInv

\* record_share keeps the ring a window on the history.
LEMMA RingStep ==
  ASSUME RingHoldsRecent, NEW x \in Shares,
         RecordShare(x), recorded' = Append(recorded, x)
  PROVE  RingHoldsRecent'
<1> DEFINE n == Len(recorded)
<1>1. n \in Nat /\ Len(recorded') = n + 1 /\ recorded' \in Seq(Shares)
  BY DEF RingHoldsRecent
<1>2. recentIdx \in Cells /\ recentIdx = n % RECENT_SHARES
  BY <1>1, DivisionFacts DEF RingHoldsRecent, Cells
<1>3. recent' \in [Cells -> Shares \cup {NoShare}]
  BY <1>2 DEF RingHoldsRecent, RecordShare
<1>4. recentIdx' = (n + 1) % RECENT_SHARES
  BY <1>1, <1>2, RemainderOfSum DEF RecordShare
<1>5. ASSUME NEW k \in 1 .. (n + 1), (n + 1) - k < RECENT_SHARES
      PROVE  recent'[(k - 1) % RECENT_SHARES] = recorded'[k]
  <2>1. CASE k = n + 1
    BY <1>1, <1>2, <2>1 DEF RingHoldsRecent, RecordShare
  <2>2. CASE k # n + 1
    <3>1. k \in 1 .. n /\ n - k < RECENT_SHARES
      BY <1>1, <1>5, <2>2
    <3>2. recent[(k - 1) % RECENT_SHARES] = recorded[k] /\ recorded'[k] = recorded[k]
      BY <1>1, <3>1 DEF RingHoldsRecent
    <3>3. n % RECENT_SHARES # (k - 1) % RECENT_SHARES
      <4>1. k - 1 \in Nat /\ n - (k - 1) \in 1 .. (RECENT_SHARES - 1)
        BY <1>1, <1>5, <3>1
      <4>2. ((k - 1) + (n - (k - 1))) % RECENT_SHARES # (k - 1) % RECENT_SHARES
        BY <4>1, RemaindersDiffer
      <4>3. (k - 1) + (n - (k - 1)) = n
        BY <1>1, <3>1
      <4> QED
        BY <4>2, <4>3
    <3>4. (k - 1) % RECENT_SHARES \in Cells
      <4>1. k - 1 \in Nat
        BY <1>1, <3>1
      <4> QED
        BY <4>1, DivisionFacts DEF Cells
    <3> QED
      BY <1>2, <3>2, <3>3, <3>4 DEF RecordShare, RingHoldsRecent
  <2> QED
    BY <2>1, <2>2
<1> QED
  BY <1>1, <1>3, <1>4, <1>5 DEF RingHoldsRecent

\* A share that is not in the ring is not among the last RECENT_SHARES
\* recorded ones.
LEMMA WindowStep ==
  ASSUME RingHoldsRecent, DedupWindow, NEW x \in Shares, ~IsDuplicate(x),
         recorded' = Append(recorded, x)
  PROVE  DedupWindow'
<1> DEFINE n == Len(recorded)
<1>1. n \in Nat /\ Len(recorded') = n + 1
  BY DEF RingHoldsRecent
<1> SUFFICES ASSUME NEW i \in 1 .. (n + 1), NEW j \in 1 .. (n + 1),
                    i < j, recorded'[i] = recorded'[j]
             PROVE  j - i > RECENT_SHARES
  BY <1>1 DEF DedupWindow
<1>2. CASE j <= n
  BY <1>1, <1>2 DEF RingHoldsRecent, DedupWindow
<1>3. CASE j = n + 1
  <2>1. i \in 1 .. n /\ recorded[i] = x
    BY <1>1, <1>3 DEF RingHoldsRecent
  <2>2. SUFFICES ASSUME n - i < RECENT_SHARES PROVE FALSE
    BY <1>1, <1>3, <2>1
  <2>3. recent[(i - 1) % RECENT_SHARES] = x
    BY <2>1, <2>2 DEF RingHoldsRecent
  <2>4. (i - 1) % RECENT_SHARES \in Cells
    <3>1. i - 1 \in Nat
      BY <1>1, <2>1
    <3> QED
      BY <3>1, DivisionFacts DEF Cells
  <2> QED
    BY <2>3, <2>4 DEF IsDuplicate
<1> QED
  BY <1>1, <1>2, <1>3

LEMMA RelayStutter == DedupInv /\ UNCHANGED vars => DedupInv'
  BY DEF DedupInv, vars, workVars, slaveVars, dedupVars, WorkType, SlaveSideType,
         RxType, RingHoldsRecent, DedupWindow

\* Steps that leave the history and the ring alone keep what is said of them.
LEMMA DedupFrame ==
  ASSUME RingHoldsRecent, DedupWindow, UNCHANGED dedupVars
  PROVE  RingHoldsRecent' /\ DedupWindow'
  BY DEF dedupVars, RingHoldsRecent, DedupWindow

LEMMA DedupStep == DedupInv /\ Next => DedupInv'
<1> SUFFICES ASSUME DedupInv, Next PROVE DedupInv'
  OBVIOUS
<1> USE DEF DedupInv
<1>1. ASSUME NEW s \in Slaves, NEW ok \in BOOLEAN, Distribute(s, ok) PROVE DedupInv'
  <2>1. mapIndex \in Nat /\ CellOf(mapIndex) \in MapCells
    BY DivisionFacts DEF WorkType, CellOf, MapCells
  <2>2. WorkType'
    BY <1>1, <2>1 DEF Distribute, WorkType, StoreMapping
  <2>3. SlaveSideType' /\ RxType'
    BY <1>1 DEF Distribute, SlaveSideType, RxType, slaveVars
  <2> QED
    BY <1>1, <2>2, <2>3, DedupFrame DEF Distribute
<1>2. ASSUME NEW s \in Slaves, NEW n \in Nonces, FindShare(s, n) PROVE DedupInv'
  <2>1. [slave |-> s, job |-> hashing[s], nonce |-> n] \in Shares
    BY <1>2 DEF FindShare, WorkType, Shares
  <2>2. SlaveSideType'
    BY <1>2, <2>1 DEF FindShare, SlaveSideType
  <2>3. WorkType' /\ RxType'
    BY <1>2 DEF FindShare, WorkType, RxType, workVars
  <2> QED
    BY <1>2, <2>2, <2>3, DedupFrame DEF FindShare
<1>3. ASSUME NEW s \in Slaves, NEW ok \in BOOLEAN, SendCopy(s, ok) PROVE DedupInv'
  <2>1. sending[s].share \in Shares
    BY <1>3 DEF SendCopy, SlaveSideType
  <2>2. RxType'
    BY <1>3, <2>1 DEF SendCopy, RxType
  <2>3. SlaveSideType'
    <3> DEFINE S == [share : Shares \cup {NoShare}, left : 0 .. COPIES]
               next == IF sending[s].left = 1 THEN NotSending
                       ELSE [share |-> sending[s].share, left |-> sending[s].left - 1]
    <3>1. sending[s] \in S /\ sending[s].left > 0
      BY <1>3 DEF SendCopy, SlaveSideType
    <3>2. next \in S /\ (next.left > 0 => next.share \in Shares)
      BY <2>1, <3>1 DEF NotSending
    <3>3. sending' = [sending EXCEPT ![s] = next] /\ found' = found
      BY <1>3 DEF SendCopy
    <3> HIDE DEF next
    <3> QED
      BY <3>2, <3>3 DEF SlaveSideType
  <2>4. WorkType'
    BY <1>3 DEF SendCopy, WorkType, workVars
  <2> QED
    BY <1>3, <2>2, <2>3, <2>4, DedupFrame DEF SendCopy
<1>4. CASE OnDuplicateShare
  <2>1. RxType'
    BY <1>4 DEF OnDuplicateShare, RxType
  <2>2. WorkType' /\ SlaveSideType'
    BY <1>4 DEF OnDuplicateShare, WorkType, SlaveSideType, workVars, slaveVars
  <2> QED
    BY <1>4, <2>1, <2>2, DedupFrame DEF OnDuplicateShare
<1>5. CASE OnNewShare
  <2>1. Head(rx) \in Shares /\ RxType'
    BY <1>5 DEF OnNewShare, RxType
  <2>2. WorkType' /\ SlaveSideType'
    BY <1>5 DEF OnNewShare, WorkType, SlaveSideType, workVars, slaveVars
  <2>3. RecordShare(Head(rx)) /\ recorded' = Append(recorded, Head(rx)) /\ ~IsDuplicate(Head(rx))
    BY <1>5 DEF OnNewShare
  <2>4. RingHoldsRecent'
    BY <2>1, <2>3, RingStep
  <2>5. DedupWindow'
    BY <2>1, <2>3, WindowStep
  <2> QED
    BY <2>1, <2>2, <2>4, <2>5
<1>6. CASE Submitter
  <2>1. UNCHANGED <<workVars, slaveVars, rx, dedupVars>>
    BY <1>6 DEF Submitter, LookupHit, LookupMiss, SubmitShare
  <2>2. WorkType' /\ SlaveSideType' /\ RxType'
    BY <2>1 DEF WorkType, SlaveSideType, RxType, workVars, slaveVars
  <2> QED
    BY <2>1, <2>2, DedupFrame
<1> QED
  BY <1>1, <1>2, <1>3, <1>4, <1>5, <1>6 DEF Next, Receiver

\* on_share never accepts a share again while it is among the last
\* RECENT_SHARES_SIZE recorded ones, for every size of the ring and every
\* interleaving of slaves, losses and queue overflows.
THEOREM DedupCorrect == Spec => []DedupWindow
<1>1. DedupInv /\ [Next]_vars => DedupInv'
  BY DedupStep, RelayStutter
<1>2. DedupInv => DedupWindow
  BY DEF DedupInv
<1> QED
  BY DedupInit, <1>1, <1>2, PTL DEF Spec
-----------------------------------------------------------------------------
(* Types, and the job a share is submitted for.                            *)

\* The shares that can be on their way: their packet has been distributed.
Known == {x \in Shares : x.job <= mapIndex}

\* A packet's mapping is in the cell its number gives, until the ring has
\* made a full turn; then that cell holds a later one.
MapRing ==
  /\ \A c \in MapCells : jobMap[c].id # NoId =>
       c = CellOf(jobMap[c].id - 1) /\ jobMap[c].job = jobMap[c].id
  /\ \A n \in 1 .. mapIndex : jobMap[CellOf(n - 1)].id # NoId
  /\ \A n \in 1 .. mapIndex :
       mapIndex - n < JOB_MAP_SIZE => jobMap[CellOf(n - 1)].id = n

SendersKnown ==
  /\ \A s \in Slaves : hashing[s] <= mapIndex
  /\ found \in SUBSET Known
  /\ sending \in [Slaves -> [share : Known \cup {NoShare}, left : 0 .. COPIES]]
  /\ \A s \in Slaves : sending[s].left > 0 => sending[s].share \in Known
RxKnown ==
  /\ rx \in Seq(Shares) /\ Len(rx) <= RX_QUEUE_SIZE
  /\ \A k \in 1 .. Len(rx) : rx[k] \in Known
QueueKnown ==
  /\ queue \in Seq(Shares) /\ Len(queue) <= SHARE_QUEUE_DEPTH
  /\ \A k \in 1 .. Len(queue) : queue[k] \in Known

\* The submitter has found the cell of its share's packet.
SubmitterKnown ==
  \/ submitting = NotSubmitting
  \/ /\ submitting.share \in Known
     /\ submitting = [share |-> submitting.share, cell |-> CellOf(submitting.share.job - 1)]

SubmittedInv ==
  /\ submitted \in Seq([share : Shares, job : 1 .. MaxJobs, at : 1 .. MaxJobs])
  /\ SubmittedForItsJob

RelayInv ==
  /\ WorkType /\ MapRing /\ SendersKnown /\ RxKnown /\ QueueKnown
  /\ SubmitterKnown /\ SubmittedInv

LEMMA CellFact ==
  ASSUME NEW n \in Nat
  PROVE  CellOf(n) \in MapCells
  BY DivisionFacts DEF CellOf, MapCells

LEMMA KnownJob ==
  ASSUME mapIndex \in 0 .. MaxJobs, NEW x \in Known
  PROVE  /\ x \in Shares /\ x # NoShare
         /\ x.job \in 1 .. mapIndex /\ x.job \in 1 .. MaxJobs
         /\ x.job - 1 \in Nat
         /\ CellOf(x.job - 1) \in MapCells
<1>1. x \in Shares /\ x.job \in 1 .. MaxJobs /\ x.job <= mapIndex
  BY DEF Known, Shares
<1>2. x.job \in 1 .. mapIndex /\ x.job - 1 \in Nat
  BY <1>1
<1> QED
  BY <1>1, <1>2, CellFact

LEMMA RelayInit == Init => RelayInv
<1> SUFFICES ASSUME Init PROVE RelayInv
  OBVIOUS
<1>1. WorkType
  BY DEF Init, WorkType, MapCells, NoId
<1>2. MapRing
  BY DEF Init, MapRing, NoId
<1>3. SendersKnown
  BY DEF Init, SendersKnown, NotSending
<1>4. RxKnown /\ QueueKnown /\ SubmitterKnown
  BY DEF Init, RxKnown, QueueKnown, SubmitterKnown
<1>5. SubmittedInv
  BY DEF Init, SubmittedInv, SubmittedForItsJob
<1> QED
  BY <1>1, <1>2, <1>3, <1>4, <1>5 DEF RelayInv

\* A new packet overwrites the cell of the one that is now a full turn old.
LEMMA MapStep ==
  ASSUME WorkType, MapRing, mapIndex < MaxJobs,
         jobMap' = StoreMapping(jobMap, mapIndex, [id |-> mapIndex + 1, job |-> mapIndex + 1]),
         mapIndex' = mapIndex + 1
  PROVE  MapRing'
<1> DEFINE m == mapIndex + 1
           cell == CellOf(mapIndex)
<1>1. mapIndex \in Nat /\ m \in 1 .. MaxJobs /\ m # NoId /\ cell \in MapCells
  BY CellFact DEF WorkType, NoId
<1>2. /\ jobMap'[cell] = [id |-> m, job |-> m]
      /\ \A c \in MapCells \ {cell} : jobMap'[c] = jobMap[c]
  BY <1>1 DEF WorkType, StoreMapping
<1>3. CellOf(m - 1) = cell
  BY <1>1
<1> HIDE DEF cell
<1>4. ASSUME NEW c \in MapCells, jobMap'[c].id # NoId
      PROVE  c = CellOf(jobMap'[c].id - 1) /\ jobMap'[c].job = jobMap'[c].id
  <2>1. CASE c = cell
    BY <1>2, <1>3, <2>1
  <2>2. CASE c # cell
    BY <1>2, <1>4, <2>2 DEF MapRing
  <2> QED
    BY <2>1, <2>2
<1>5. ASSUME NEW n \in 1 .. m
      PROVE  jobMap'[CellOf(n - 1)].id # NoId
  <2>1. n - 1 \in Nat /\ CellOf(n - 1) \in MapCells
    BY <1>1, CellFact
  <2>2. CASE CellOf(n - 1) = cell
    BY <1>1, <1>2, <2>2
  <2>3. CASE CellOf(n - 1) # cell
    <3>1. n \in 1 .. mapIndex
      BY <1>1, <1>3, <2>3
    <3> QED
      BY <1>2, <2>1, <2>3, <3>1 DEF MapRing
  <2> QED
    BY <2>2, <2>3
<1>6. ASSUME NEW n \in 1 .. m, m - n < JOB_MAP_SIZE
      PROVE  jobMap'[CellOf(n - 1)].id = n
  <2>1. CASE n = m
    BY <1>2, <1>3, <2>1
  <2>2. CASE n # m
    <3>1. n \in 1 .. mapIndex /\ mapIndex - n < JOB_MAP_SIZE
      BY <1>1, <1>6, <2>2
    <3>2. n - 1 \in Nat /\ m - n \in 1 .. (JOB_MAP_SIZE - 1) /\ (n - 1) + (m - n) = mapIndex
      BY <1>1, <1>6, <2>2
    <3>3. ((n - 1) + (m - n)) % JOB_MAP_SIZE # (n - 1) % JOB_MAP_SIZE
      BY <3>2, RemaindersDiffer
    <3>4. CellOf(n - 1) # cell /\ CellOf(n - 1) \in MapCells
      BY <3>2, <3>3, CellFact DEF CellOf, cell
    <3> QED
      BY <1>2, <3>1, <3>4 DEF MapRing
  <2> QED
    BY <2>1, <2>2
<1> QED
  BY <1>4, <1>5, <1>6 DEF MapRing

\* What is known stays known when packets are added.
LEMMA KnownGrows ==
  ASSUME mapIndex \in Nat, mapIndex' \in Nat, mapIndex <= mapIndex'
  PROVE  Known \subseteq Known'
  BY DEF Known, Shares

LEMMA QueuesFrame ==
  ASSUME RxKnown, QueueKnown, SubmitterKnown, Known \subseteq Known',
         UNCHANGED <<rx, queue, submitting>>
  PROVE  RxKnown' /\ QueueKnown' /\ SubmitterKnown'
  BY DEF RxKnown, QueueKnown, SubmitterKnown

LEMMA SubmittedFrame ==
  ASSUME SubmittedInv, UNCHANGED submitted
  PROVE  SubmittedInv'
  BY DEF SubmittedInv, SubmittedForItsJob

LEMMA WorkFrame ==
  ASSUME WorkType, MapRing, UNCHANGED workVars
  PROVE  WorkType' /\ MapRing' /\ Known' = Known
  BY DEF workVars, WorkType, MapRing, Known

LEMMA SendersFrame ==
  ASSUME SendersKnown, Known' = Known, UNCHANGED <<workVars, slaveVars>>
  PROVE  SendersKnown'
  BY DEF workVars, slaveVars, SendersKnown

LEMMA DistributeRelay ==
  ASSUME RelayInv, NEW s \in Slaves, NEW ok \in BOOLEAN, Distribute(s, ok)
  PROVE  RelayInv'
<1> USE DEF RelayInv
<1> DEFINE m == mapIndex + 1
<1>1. mapIndex \in Nat /\ m \in 1 .. MaxJobs /\ CellOf(mapIndex) \in MapCells
  BY CellFact DEF Distribute, WorkType
<1>2. /\ jobMap' = StoreMapping(jobMap, mapIndex, [id |-> m, job |-> m])
      /\ mapIndex' = m /\ mapIndex < MaxJobs
      /\ hashing' = IF ok THEN [hashing EXCEPT ![s] = m] ELSE hashing
      /\ UNCHANGED <<slaveVars, rx, queue, submitting, submitted>>
  BY DEF Distribute
<1>3. WorkType'
  BY <1>1, <1>2 DEF WorkType, StoreMapping
<1>4. MapRing'
  BY <1>2, MapStep
<1>5. Known \subseteq Known'
  BY <1>1, <1>2, KnownGrows
<1>6. SendersKnown'
  BY <1>1, <1>2, <1>5 DEF SendersKnown, WorkType, slaveVars
<1>7. RxKnown' /\ QueueKnown' /\ SubmitterKnown'
  BY <1>2, <1>5, QueuesFrame
<1> QED
  BY <1>2, <1>3, <1>4, <1>6, <1>7, SubmittedFrame

LEMMA FindRelay ==
  ASSUME RelayInv, NEW s \in Slaves, NEW n \in Nonces, FindShare(s, n)
  PROVE  RelayInv'
<1> USE DEF RelayInv
<1> DEFINE x == [slave |-> s, job |-> hashing[s], nonce |-> n]
<1>1. UNCHANGED <<workVars, rx, queue, submitting, submitted>>
  BY DEF FindShare
<1>2. WorkType' /\ MapRing' /\ Known' = Known
  BY <1>1, WorkFrame
<1>3. x \in Known
  BY DEF FindShare, SendersKnown, WorkType, Known, Shares
<1>4. /\ found' = found \cup {x}
      /\ sending' = [sending EXCEPT ![s] = [share |-> x, left |-> COPIES]]
  BY DEF FindShare
<1> HIDE DEF x
<1>5. SendersKnown'
  BY <1>1, <1>2, <1>3, <1>4 DEF SendersKnown, workVars
<1> QED
  BY <1>1, <1>2, <1>5, QueuesFrame, SubmittedFrame

LEMMA SendRelay ==
  ASSUME RelayInv, NEW s \in Slaves, NEW ok \in BOOLEAN, SendCopy(s, ok)
  PROVE  RelayInv'
<1> USE DEF RelayInv
<1>1. UNCHANGED <<workVars, found, queue, submitting, submitted>>
  BY DEF SendCopy
<1>2. WorkType' /\ MapRing' /\ Known' = Known
  BY <1>1, WorkFrame
<1>3. sending[s].share \in Known /\ sending[s].share \in Shares
  BY DEF SendCopy, SendersKnown, Known
<1>4. RxKnown'
  <2>1. CASE rx' = Append(rx, sending[s].share) /\ Len(rx) < RX_QUEUE_SIZE
    BY <1>2, <1>3, <2>1 DEF RxKnown
  <2>2. CASE rx' = rx
    BY <1>2, <2>2 DEF RxKnown
  <2> QED
    BY <2>1, <2>2 DEF SendCopy
<1>5. SendersKnown'
  <2> DEFINE S == [share : Known \cup {NoShare}, left : 0 .. COPIES]
             after == IF sending[s].left = 1 THEN NotSending
                      ELSE [share |-> sending[s].share, left |-> sending[s].left - 1]
  <2>1. sending \in [Slaves -> S] /\ sending[s] \in S /\ sending[s].left > 0
    BY DEF SendCopy, SendersKnown
  <2>2. after \in S /\ (after.left > 0 => after.share \in Known)
    BY <1>3, <2>1 DEF NotSending
  <2>3. sending' = [sending EXCEPT ![s] = after]
    BY DEF SendCopy
  <2> HIDE DEF after
  <2> QED
    BY <1>1, <1>2, <2>1, <2>2, <2>3 DEF SendersKnown, workVars
<1>6. QueueKnown' /\ SubmitterKnown'
  BY <1>1, <1>2 DEF QueueKnown, SubmitterKnown
<1> QED
  BY <1>1, <1>2, <1>4, <1>5, <1>6, SubmittedFrame

LEMMA ReceiveRelay ==
  ASSUME RelayInv, Receiver
  PROVE  RelayInv'
<1> USE DEF RelayInv
<1>1. UNCHANGED <<workVars, slaveVars, submitting, submitted>> /\ rx # <<>> /\ rx' = Tail(rx)
  BY DEF Receiver, OnDuplicateShare, OnNewShare
<1>2. WorkType' /\ MapRing' /\ Known' = Known
  BY <1>1, WorkFrame
<1>3. Head(rx) \in Known /\ Head(rx) \in Shares /\ RxKnown'
  BY <1>1, <1>2 DEF RxKnown
<1>4. QueueKnown'
  <2>1. CASE queue' = queue
    BY <1>2, <2>1 DEF QueueKnown
  <2>2. CASE queue' = Append(queue, Head(rx)) /\ Len(queue) < SHARE_QUEUE_DEPTH
    BY <1>2, <1>3, <2>2 DEF QueueKnown
  <2> QED
    BY <2>1, <2>2 DEF Receiver, OnDuplicateShare, OnNewShare
<1>5. SendersKnown' /\ SubmitterKnown'
  BY <1>1, <1>2, SendersFrame DEF SubmitterKnown
<1> QED
  BY <1>1, <1>2, <1>3, <1>4, <1>5, SubmittedFrame

LEMMA LookupRelay ==
  ASSUME RelayInv, LookupHit \/ LookupMiss
  PROVE  RelayInv'
<1> USE DEF RelayInv
<1>1. /\ UNCHANGED <<workVars, slaveVars, rx, submitted>>
      /\ queue # <<>> /\ queue' = Tail(queue)
  BY DEF LookupHit, LookupMiss
<1>2. WorkType' /\ MapRing' /\ Known' = Known
  BY <1>1, WorkFrame
<1>3. Head(queue) \in Known /\ QueueKnown'
  BY <1>1, <1>2 DEF QueueKnown
<1>4. SubmitterKnown'
  <2>1. CASE LookupMiss
    BY <1>2, <2>1 DEF LookupMiss, SubmitterKnown
  <2>2. CASE LookupHit
    <3> DEFINE x == Head(queue)
               k == LookupMapping(jobMap, x.job)
    <3>1. x.job \in 1 .. MaxJobs
      BY <1>3, KnownJob DEF WorkType
    <3>2. \A c \in Matches(jobMap, x.job) : c = CellOf(x.job - 1) /\ c \in Int
      BY <3>1 DEF Matches, MapRing, NoId, MapCells
    <3>3. k \in Matches(jobMap, x.job)
      <4>1. PICK c \in Matches(jobMap, x.job) : TRUE
        BY <2>2 DEF LookupHit
      <4>2. \A l \in Matches(jobMap, x.job) : c <= l
        BY <3>2, <4>1
      <4> QED
        BY <4>1, <4>2 DEF LookupMapping
    <3>4. submitting' = [share |-> x, cell |-> k] /\ k = CellOf(x.job - 1)
      BY <2>2, <3>2, <3>3 DEF LookupHit
    <3> QED
      BY <1>2, <1>3, <3>4 DEF SubmitterKnown
  <2> QED
    BY <2>1, <2>2
<1>5. SendersKnown' /\ RxKnown'
  BY <1>1, <1>2, SendersFrame DEF RxKnown
<1> QED
  BY <1>1, <1>2, <1>3, <1>4, <1>5, SubmittedFrame

\* The submitter reads the cell it found: it may have been overwritten, but
\* only after a full turn of the map.
LEMMA SubmitRelay ==
  ASSUME RelayInv, SubmitShare
  PROVE  RelayInv'
<1> USE DEF RelayInv
<1> DEFINE x == submitting.share
           cell == CellOf(x.job - 1)
           r == [share |-> x, job |-> jobMap[cell].job, at |-> mapIndex]
<1>1. UNCHANGED <<workVars, slaveVars, rx, queue>> /\ submitting' = NotSubmitting
  BY DEF SubmitShare
<1>2. WorkType' /\ MapRing' /\ Known' = Known
  BY <1>1, WorkFrame
<1>3. x \in Known /\ submitting.cell = cell
  BY DEF SubmitShare, SubmitterKnown
<1>4. x \in Shares /\ x.job \in 1 .. mapIndex /\ mapIndex \in 1 .. MaxJobs /\ cell \in MapCells
  BY <1>3, KnownJob DEF WorkType
<1>5. jobMap[cell].id # NoId
  BY <1>4 DEF MapRing
<1>6. jobMap[cell].job \in 1 .. MaxJobs /\ jobMap[cell].job = jobMap[cell].id
  BY <1>4, <1>5 DEF MapRing, WorkType
<1>7. mapIndex - x.job < JOB_MAP_SIZE => jobMap[cell].job = x.job
  BY <1>4, <1>6 DEF MapRing
<1>8. submitted' = Append(submitted, r)
  BY <1>3 DEF SubmitShare
<1>9. /\ r \in [share : Shares, job : 1 .. MaxJobs, at : 1 .. MaxJobs]
      /\ r.at - r.share.job < JOB_MAP_SIZE => r.job = r.share.job
  BY <1>4, <1>6, <1>7
<1> HIDE DEF r
<1>10. SubmittedInv'
  <2> DEFINE R == [share : Shares, job : 1 .. MaxJobs, at : 1 .. MaxJobs]
             Fits(q) == q.at - q.share.job < JOB_MAP_SIZE => q.job = q.share.job
  <2>1. submitted \in Seq(R) /\ \A k \in 1 .. Len(submitted) : Fits(submitted[k])
    BY DEF SubmittedInv, SubmittedForItsJob
  <2>2. r \in R /\ Fits(r)
    BY <1>9
  <2> HIDE DEF R, Fits
  <2>3. submitted' \in Seq(R) /\ \A k \in 1 .. Len(submitted') : Fits(submitted'[k])
    BY <1>8, <2>1, <2>2
  <2> QED
    BY <2>3 DEF SubmittedInv, SubmittedForItsJob, R, Fits
<1>11. SendersKnown' /\ RxKnown' /\ QueueKnown' /\ SubmitterKnown'
  BY <1>1, <1>2, SendersFrame DEF RxKnown, QueueKnown, SubmitterKnown
<1> QED
  BY <1>2, <1>10, <1>11

LEMMA RelayStep == RelayInv /\ [Next]_vars => RelayInv'
<1> SUFFICES ASSUME RelayInv, [Next]_vars PROVE RelayInv'
  OBVIOUS
<1>1. CASE UNCHANGED vars
  <2>1. UNCHANGED <<workVars, slaveVars, rx, queue, submitting, submitted>>
    BY <1>1 DEF vars
  <2>2. WorkType' /\ MapRing' /\ Known' = Known
    BY <2>1, WorkFrame DEF RelayInv
  <2> QED
    BY <2>1, <2>2, QueuesFrame, SendersFrame, SubmittedFrame DEF RelayInv
<1> QED
  BY <1>1, DistributeRelay, FindRelay, SendRelay, ReceiveRelay, LookupRelay, SubmitRelay
  DEF Next, Submitter

\* Every variable of the relay keeps its type and both queues their bound,
\* for every number of slaves and copies and every size of rings and queues.
THEOREM RelayTypes == Spec => []TypeOK
<1>1. RelayInv /\ DedupInv => TypeOK
  <2> SUFFICES ASSUME RelayInv, DedupInv PROVE TypeOK
    OBVIOUS
  <2>1. /\ jobMap \in [MapCells -> [id : {NoId}] \cup [id : 1 .. MaxJobs, job : 1 .. MaxJobs]]
        /\ mapIndex \in 0 .. MaxJobs
        /\ hashing \in [Slaves -> 0 .. MaxJobs]
    BY DEF DedupInv, WorkType
  <2>2. /\ found \in SUBSET Shares
        /\ sending \in [Slaves -> [share : Shares \cup {NoShare}, left : 0 .. COPIES]]
    BY DEF DedupInv, SlaveSideType
  <2>3. /\ rx \in Seq(Shares) /\ Len(rx) <= RX_QUEUE_SIZE
        /\ queue \in Seq(Shares) /\ Len(queue) <= SHARE_QUEUE_DEPTH
    BY DEF RelayInv, RxKnown, QueueKnown
  <2>4. recent \in [Cells -> Shares \cup {NoShare}] /\ recorded \in Seq(Shares) /\ recentIdx \in Cells
    BY DivisionFacts DEF DedupInv, RingHoldsRecent, Cells
  <2>5. submitting \in [share : Shares \cup {NoShare}, cell : MapCells \cup {NoCell}]
    <3>1. CASE submitting = NotSubmitting
      BY <3>1 DEF NotSubmitting
    <3>2. CASE submitting # NotSubmitting
      <4>1. submitting.share \in Known
        BY <3>2 DEF RelayInv, SubmitterKnown
      <4>2. submitting.share \in Shares /\ CellOf(submitting.share.job - 1) \in MapCells
        BY <2>1, <4>1, KnownJob
      <4>3. submitting = [share |-> submitting.share, cell |-> CellOf(submitting.share.job - 1)]
        BY <3>2 DEF RelayInv, SubmitterKnown
      <4> QED
        BY <4>2, <4>3
    <3> QED
      BY <3>1, <3>2
  <2>6. submitted \in Seq([share : Shares, job : 1 .. MaxJobs, at : 1 .. MaxJobs])
    BY DEF RelayInv, SubmittedInv
  <2> QED
    BY <2>1, <2>2, <2>3, <2>4, <2>5, <2>6 DEF TypeOK
<1>2. DedupInv /\ [Next]_vars => DedupInv'
  BY DedupStep, RelayStutter
<1> QED
  BY <1>1, <1>2, DedupInit, RelayInit, RelayStep, PTL DEF Spec

\* share_submit_task submits a share for the job it was found for unless the
\* job map has made a full turn, for every size of the map and however the
\* unlocked lookup interleaves with distributions.
THEOREM SubmitsForItsJob == Spec => []SubmittedForItsJob
<1>1. RelayInv => SubmittedForItsJob
  BY DEF RelayInv, SubmittedInv
<1> QED
  BY <1>1, RelayInit, RelayStep, PTL DEF Spec

-----------------------------------------------------------------------------
(* No share is invented or multiplied.  Occurrences are counted as sets of *)
(* positions, which an Append extends and a Tail shifts.                   *)

LEMMA CountAdded ==
  ASSUME NEW n \in Nat, NEW A \in SUBSET (1 .. n)
  PROVE  /\ IsFiniteSet(A) /\ Cardinality(A) \in Nat
         /\ Cardinality(A \cup {n + 1}) = Cardinality(A) + 1
<1>1. IsFiniteSet(1 .. n)
  BY FS_Interval
<1>2. IsFiniteSet(A)
  BY <1>1, FS_Subset
<1>3. n + 1 \notin A
  OBVIOUS
<1> QED
  BY <1>2, <1>3, FS_CardinalityType, FS_AddElement

LEMMA CountShifted ==
  ASSUME NEW n \in Nat, NEW A \in SUBSET (1 .. n)
  PROVE  Cardinality({k + 1 : k \in A}) = Cardinality(A)
<1> DEFINE B == {k + 1 : k \in A}
           f == [k \in A |-> k + 1]
<1>1. f \in Bijection(A, B)
  <2>1. f \in [A -> B]
    OBVIOUS
  <2>2. \A a, b \in A : f[a] = f[b] => a = b
    OBVIOUS
  <2>3. \A t \in B : \E a \in A : f[a] = t
    OBVIOUS
  <2> HIDE DEF f, B
  <2> QED
    BY <2>1, <2>2, <2>3, Fun_IsBij
<1>2. ExistsBijection(A, B)
  BY <1>1 DEF ExistsBijection
<1>3. IsFiniteSet(A)
  BY CountAdded
<1> QED
  BY <1>2, <1>3, FS_Bijection

LEMMA TimesEmpty ==
  ASSUME NEW x
  PROVE  Times(<<>>, x) = 0
<1>1. {k \in 1 .. Len(<<>>) : <<>>[k] = x} = {}
  OBVIOUS
<1> QED
  BY <1>1, FS_EmptySet DEF Times

LEMMA TimesAppend ==
  ASSUME NEW q \in Seq(Shares), NEW x, NEW y \in Shares
  PROVE  /\ Times(q, x) \in Nat
         /\ Times(Append(q, y), x) = Times(q, x) + (IF y = x THEN 1 ELSE 0)
<1> DEFINE n == Len(q)
           A == {k \in 1 .. n : q[k] = x}
           B == {k \in 1 .. Len(Append(q, y)) : Append(q, y)[k] = x}
<1>1. n \in Nat /\ A \in SUBSET (1 .. n)
  OBVIOUS
<1>2. B = IF y = x THEN A \cup {n + 1} ELSE A
  <2>1. \A k : k \in B <=> k \in A \/ (k = n + 1 /\ y = x)
    OBVIOUS
  <2> HIDE DEF A, B, n
  <2> QED
    BY <2>1
<1>3. Times(q, x) = Cardinality(A) /\ Times(Append(q, y), x) = Cardinality(B)
  BY DEF Times
<1> HIDE DEF A, B, n
<1>4. Cardinality(A) \in Nat /\ Cardinality(A \cup {n + 1}) = Cardinality(A) + 1
  BY <1>1, CountAdded
<1> QED
  BY <1>2, <1>3, <1>4

LEMMA TimesTail ==
  ASSUME NEW q \in Seq(Shares), q # <<>>, NEW x
  PROVE  /\ Times(Tail(q), x) \in Nat
         /\ Times(q, x) = Times(Tail(q), x) + (IF Head(q) = x THEN 1 ELSE 0)
<1> DEFINE n == Len(Tail(q))
           A == {k \in 1 .. n : Tail(q)[k] = x}
           B == {k + 1 : k \in A}
           C == {k \in 1 .. Len(q) : q[k] = x}
<1>1. n \in Nat /\ A \in SUBSET (1 .. n) /\ Len(q) = n + 1
  OBVIOUS
<1>2. Cardinality(B) = Cardinality(A) /\ Cardinality(A) \in Nat /\ IsFiniteSet(B) /\ 1 \notin B
  <2>1. B \in SUBSET (1 .. (n + 1)) /\ 1 \notin B
    BY <1>1
  <2> HIDE DEF A, B, n
  <2>2. IsFiniteSet(B)
    <3>1. IsFiniteSet(1 .. (n + 1))
      BY <1>1, FS_Interval
    <3> QED
      BY <2>1, <3>1, FS_Subset
  <2> QED
    BY <1>1, <2>1, <2>2, CountAdded, CountShifted DEF B
<1>3. C = IF Head(q) = x THEN B \cup {1} ELSE B
  <2>1. \A k \in 1 .. n : Tail(q)[k] = q[k + 1]
    OBVIOUS
  <2>2. q[1] = Head(q)
    OBVIOUS
  <2>3. \A k : k \in C <=> k \in B \/ (k = 1 /\ Head(q) = x)
    <3>1. ASSUME NEW k \in C PROVE k \in B \/ (k = 1 /\ Head(q) = x)
      <4>1. k \in 1 .. (n + 1) /\ q[k] = x
        BY <1>1
      <4>2. CASE k = 1
        BY <2>2, <4>1, <4>2
      <4>3. CASE k # 1
        <5>1. k - 1 \in 1 .. n /\ k = (k - 1) + 1
          BY <1>1, <4>1, <4>3
        <5>2. k - 1 \in A
          BY <2>1, <4>1, <5>1
        <5> QED
          BY <5>1, <5>2
      <4> QED
        BY <4>2, <4>3
    <3>2. ASSUME NEW k \in B PROVE k \in C
      BY <1>1, <2>1
    <3>3. Head(q) = x => 1 \in C
      BY <1>1, <2>2
    <3> QED
      BY <3>1, <3>2, <3>3
  <2> HIDE DEF B, C
  <2> QED
    BY <2>3
<1>4. Times(Tail(q), x) = Cardinality(A) /\ Times(q, x) = Cardinality(C)
  BY DEF Times
<1> HIDE DEF A, B, C, n
<1>5. Cardinality(B \cup {1}) = Cardinality(B) + 1
  BY <1>2, FS_AddElement
<1> QED
  BY <1>2, <1>3, <1>4, <1>5

LEMMA TimesPositive ==
  ASSUME NEW q \in Seq(Shares), NEW x, Times(q, x) # 0
  PROVE  \E k \in 1 .. Len(q) : q[k] = x
<1> SUFFICES ASSUME ~ \E k \in 1 .. Len(q) : q[k] = x PROVE FALSE
  OBVIOUS
<1>1. {k \in 1 .. Len(q) : q[k] = x} = {}
  OBVIOUS
<1> QED
  BY <1>1, FS_EmptySet DEF Times

Submission == [share : Shares, job : 1 .. MaxJobs, at : 1 .. MaxJobs]

LEMMA TimesSubmittedFacts ==
  ASSUME submitted \in Seq(Submission), NEW x
  PROVE  /\ TimesSubmitted(x) \in Nat
         /\ \A r :
              submitted' = Append(submitted, r)
                => TimesSubmitted(x)' = TimesSubmitted(x) + (IF r.share = x THEN 1 ELSE 0)
<1> DEFINE n == Len(submitted)
           A == {k \in 1 .. n : submitted[k].share = x}
<1>1. n \in Nat /\ A \in SUBSET (1 .. n) /\ TimesSubmitted(x) = Cardinality(A)
  BY DEF TimesSubmitted
<1>2. Cardinality(A) \in Nat /\ Cardinality(A \cup {n + 1}) = Cardinality(A) + 1
  <2> HIDE DEF A, n
  <2> QED
    BY <1>1, CountAdded
<1>3. ASSUME NEW r, submitted' = Append(submitted, r)
      PROVE  TimesSubmitted(x)' = TimesSubmitted(x) + (IF r.share = x THEN 1 ELSE 0)
  <2> DEFINE B == {k \in 1 .. Len(submitted') : submitted'[k].share = x}
  <2>1. Len(submitted') = n + 1 /\ submitted'[n + 1] = r
        /\ \A k \in 1 .. n : submitted'[k] = submitted[k]
    BY <1>3
  <2>2. B = IF r.share = x THEN A \cup {n + 1} ELSE A
    <3>1. \A k : k \in B <=> k \in A \/ (k = n + 1 /\ r.share = x)
      BY <1>1, <2>1
    <3> HIDE DEF A, B, n
    <3> QED
      BY <3>1
  <2>3. TimesSubmitted(x)' = Cardinality(B)
    BY DEF TimesSubmitted
  <2> HIDE DEF A, B, n
  <2> QED
    BY <1>1, <1>2, <2>2, <2>3
<1> QED
  BY <1>1, <1>2, <1>3

\* Whatever is on its way was found, and what passed the queue had been
\* recorded as often.
OnlyFound ==
  /\ \A s \in Slaves : sending[s].left > 0 => sending[s].share \in found
  /\ \A k \in 1 .. Len(rx) : rx[k] \in found
  /\ \A k \in 1 .. Len(recorded) : recorded[k] \in found

Passed(x) ==
  Times(queue, x) + (IF submitting.share = x THEN 1 ELSE 0) + TimesSubmitted(x)
PassedRecorded == \A x \in Shares : Passed(x) <= Times(recorded, x)

LEMMA OnlyFoundStep ==
  ASSUME TypeOK, OnlyFound, [Next]_vars
  PROVE  OnlyFound'
<1> USE DEF OnlyFound
<1>1. CASE UNCHANGED vars
  BY <1>1 DEF vars, slaveVars, dedupVars
<1>2. ASSUME NEW s \in Slaves, NEW ok \in BOOLEAN, Distribute(s, ok) PROVE OnlyFound'
  BY <1>2 DEF Distribute, slaveVars, dedupVars
<1>3. ASSUME NEW s \in Slaves, NEW ok \in BOOLEAN, SendCopy(s, ok) PROVE OnlyFound'
  <2>1. sending[s].share \in found /\ sending[s].share \in Shares /\ rx \in Seq(Shares)
        /\ sending \in [Slaves -> [share : Shares \cup {NoShare}, left : 0 .. COPIES]]
    BY <1>3 DEF SendCopy, TypeOK
  <2>2. \A k \in 1 .. Len(rx') : rx'[k] \in found
    <3>1. CASE rx' = rx
      BY <3>1
    <3>2. CASE rx' = Append(rx, sending[s].share)
      BY <2>1, <3>2
    <3> QED
      BY <1>3, <3>1, <3>2 DEF SendCopy
  <2>3. \A t \in Slaves : sending'[t].left > 0 => sending'[t].share \in found
    BY <1>3, <2>1 DEF SendCopy, NotSending
  <2> QED
    BY <1>3, <2>2, <2>3 DEF SendCopy, dedupVars
<1>4. ASSUME NEW s \in Slaves, NEW n \in Nonces, FindShare(s, n) PROVE OnlyFound'
  BY <1>4 DEF FindShare, dedupVars, TypeOK
<1>5. CASE Receiver
  <2>1. rx \in Seq(Shares) /\ rx # <<>> /\ rx' = Tail(rx) /\ found' = found /\ sending' = sending
        /\ recorded \in Seq(Shares)
    BY <1>5 DEF Receiver, OnDuplicateShare, OnNewShare, slaveVars, TypeOK
  <2>2. Head(rx) \in found /\ \A k \in 1 .. Len(rx') : rx'[k] \in found
    BY <2>1
  <2>3. \A k \in 1 .. Len(recorded') : recorded'[k] \in found
    <3>1. CASE recorded' = recorded
      BY <3>1
    <3>2. CASE recorded' = Append(recorded, Head(rx))
      BY <2>1, <2>2, <3>2
    <3> QED
      BY <1>5, <3>1, <3>2 DEF Receiver, OnDuplicateShare, OnNewShare, dedupVars
  <2> QED
    BY <2>1, <2>2, <2>3
<1>6. CASE Submitter
  BY <1>6 DEF Submitter, LookupHit, LookupMiss, SubmitShare, slaveVars, dedupVars
<1> QED
  BY <1>1, <1>2, <1>3, <1>4, <1>5, <1>6 DEF Next

LEMMA PassedStep ==
  ASSUME TypeOK, PassedRecorded, [Next]_vars
  PROVE  PassedRecorded'
<1> SUFFICES ASSUME NEW x \in Shares PROVE (Passed(x) <= Times(recorded, x))'
  BY DEF PassedRecorded
<1>1. /\ queue \in Seq(Shares) /\ recorded \in Seq(Shares) /\ rx \in Seq(Shares)
      /\ submitted \in Seq(Submission)
      /\ Passed(x) <= Times(recorded, x)
  BY DEF TypeOK, PassedRecorded, Submission
<1>2. /\ Times(queue, x) \in Nat /\ Times(recorded, x) \in Nat /\ TimesSubmitted(x) \in Nat
  BY <1>1, TimesSubmittedFacts, TimesAppend
<1>3. x # NoShare
  OBVIOUS
<1>4. ASSUME UNCHANGED <<queue, submitting, submitted, recorded>>
      PROVE  (Passed(x) <= Times(recorded, x))'
  BY <1>1, <1>4 DEF Passed, Times, TimesSubmitted
<1>5. CASE OnNewShare
  <2> DEFINE y == Head(rx)
  <2>1. y \in Shares /\ recorded' = Append(recorded, y) /\ UNCHANGED <<submitting, submitted>>
    BY <1>1, <1>5 DEF OnNewShare
  <2>2. queue' = queue \/ queue' = Append(queue, y)
    BY <1>5 DEF OnNewShare
  <2> HIDE DEF y
  <2>3. Times(recorded', x) = Times(recorded, x) + (IF y = x THEN 1 ELSE 0)
    BY <1>1, <2>1, TimesAppend
  <2>4. Times(queue', x) \in {Times(queue, x), Times(queue, x) + (IF y = x THEN 1 ELSE 0)}
    BY <1>1, <2>1, <2>2, TimesAppend
  <2>5. TimesSubmitted(x)' = TimesSubmitted(x)
    BY <2>1 DEF TimesSubmitted
  <2> QED
    BY <1>1, <1>2, <2>1, <2>3, <2>4, <2>5 DEF Passed
<1>6. CASE LookupHit \/ LookupMiss
  <2> DEFINE y == Head(queue)
  <2>1. /\ queue # <<>> /\ queue' = Tail(queue) /\ UNCHANGED <<submitted, recorded>>
        /\ submitting.share # x
        /\ submitting'.share = x => y = x
    BY <1>3, <1>6 DEF LookupHit, LookupMiss, dedupVars, NotSubmitting
  <2>2. Times(queue', x) \in Nat
        /\ Times(queue, x) = Times(queue', x) + (IF y = x THEN 1 ELSE 0)
    BY <1>1, <2>1, TimesTail
  <2>3. TimesSubmitted(x)' = TimesSubmitted(x) /\ Times(recorded', x) = Times(recorded, x)
    BY <2>1 DEF TimesSubmitted
  <2> QED
    BY <1>1, <1>2, <2>1, <2>2, <2>3 DEF Passed
<1>7. CASE SubmitShare
  <2> DEFINE r == [share |-> submitting.share, job |-> jobMap[submitting.cell].job, at |-> mapIndex]
  <2>1. /\ submitted' = Append(submitted, r) /\ UNCHANGED <<queue, recorded>>
        /\ submitting'.share # x /\ r.share = submitting.share
    BY <1>3, <1>7 DEF SubmitShare, dedupVars, NotSubmitting
  <2> HIDE DEF r
  <2>2. TimesSubmitted(x)' = TimesSubmitted(x) + (IF submitting.share = x THEN 1 ELSE 0)
    BY <1>1, <2>1, TimesSubmittedFacts
  <2> QED
    BY <1>1, <1>2, <2>1, <2>2 DEF Passed
<1>8. CASE \/ UNCHANGED vars \/ OnDuplicateShare
           \/ \E s \in Slaves, ok \in BOOLEAN : Distribute(s, ok) \/ SendCopy(s, ok)
           \/ \E s \in Slaves, n \in Nonces : FindShare(s, n)
  BY <1>4, <1>8 DEF vars, dedupVars, OnDuplicateShare, Distribute, SendCopy, FindShare
<1> QED
  BY <1>5, <1>6, <1>7, <1>8 DEF Next, Receiver, Submitter

\* No share is submitted, queued or looked up that no slave found, and none
\* passes the submitter more often than on_share accepted it, whatever is
\* lost, repeated or dropped at a full queue.
THEOREM NoShareInvented == Spec => []NothingInvented
<1>1. Init => OnlyFound /\ PassedRecorded
  <2> SUFFICES ASSUME Init PROVE OnlyFound /\ PassedRecorded
    OBVIOUS
  <2>1. OnlyFound
    BY DEF Init, OnlyFound, NotSending
  <2>2. ASSUME NEW x \in Shares PROVE Passed(x) <= Times(recorded, x)
    <3>1. TimesSubmitted(x) = 0
      <4>1. {k \in 1 .. Len(submitted) : submitted[k].share = x} = {}
        BY DEF Init
      <4> QED
        BY <4>1, FS_EmptySet DEF TimesSubmitted
    <3>2. Times(queue, x) = 0 /\ Times(recorded, x) = 0 /\ submitting.share # x
      BY TimesEmpty DEF Init, NotSubmitting
    <3> QED
      BY <3>1, <3>2 DEF Passed
  <2> QED
    BY <2>1, <2>2 DEF PassedRecorded
<1>2. TypeOK /\ OnlyFound /\ PassedRecorded => NothingInvented
  <2> SUFFICES ASSUME TypeOK, OnlyFound, PassedRecorded, NEW x \in Shares
               PROVE  Passed(x) <= IF x \in found THEN Times(recorded, x) ELSE 0
    BY DEF NothingInvented, Passed
  <2>1. Passed(x) <= Times(recorded, x)
    BY DEF PassedRecorded
  <2>2. CASE x \notin found
    <3>1. Times(recorded, x) = 0
      BY <2>2, TimesPositive DEF TypeOK, OnlyFound
    <3> QED
      BY <2>1, <2>2, <3>1
  <2> QED
    BY <2>1, <2>2
<1> QED
  BY <1>1, <1>2, RelayTypes, OnlyFoundStep, PassedStep, PTL DEF Spec
=============================================================================
