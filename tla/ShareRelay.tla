----------------------------- MODULE ShareRelay -----------------------------
(***************************************************************************)
(* The way of a slave's share to the pool: forward_share on the slave      *)
(* (cluster_slave.cpp), on_share with its ring of recent shares, the share *)
(* queue and share_submit_task on the master (cluster_master.cpp).         *)
(*                                                                         *)
(* Work packets are numbered in the order they are stored in the job map;  *)
(* the number stands for the cluster job id and, in the field job of a map *)
(* entry, for the pool job and extranonce2 it was built from (that ids do  *)
(* not collide is MapResolves of WorkDistribution).  Counters that are     *)
(* only displayed (best difficulty, shares accepted) are left out.         *)
(***************************************************************************)
EXTENDS JobMap, FiniteSets, Sequences

CONSTANTS
  Slaves,            \* the slaves, by slave_id
  Nonces,            \* nonces a slave's ASICs may find
  NoShare,
  RECENT_SHARES,     \* RECENT_SHARES_SIZE
  SHARE_QUEUE_DEPTH, \* CLUSTER_SHARE_QUEUE_DEPTH
  RX_QUEUE_SIZE,     \* capacity of the master's receive queue
  COPIES,            \* how often forward_share sends a share
  MaxJobs,           \* bound: work packets distributed
  MaxShares          \* bound: shares found

ASSUME RelayAssumption ==
  /\ RECENT_SHARES \in Nat \ {0}
  /\ SHARE_QUEUE_DEPTH \in Nat \ {0}
  /\ RX_QUEUE_SIZE \in Nat \ {0}
  /\ COPIES \in Nat \ {0}
  /\ MaxJobs \in Nat
  /\ MaxShares \in Nat

Shares == [slave : Slaves, job : 1 .. MaxJobs, nonce : Nonces]
ASSUME NoShareAssumption == NoShare \notin Shares

VARIABLES
  jobMap,     \* s_job_map
  mapIndex,   \* s_job_map_index
  hashing,    \* slave -> number of the packet it hashes, 0: none
  found,      \* shares found so far (s_seen_keys of each slave)
  sending,    \* slave -> the share in forward_share and copies left
  rx,         \* the master's receive queue
  recent,     \* s_recent_shares
  recentIdx,  \* s_recent_shares_idx
  queue,      \* s_share_queue
  submitting, \* share_submit_task: its share, and the map cell it matched
  recorded,   \* history: the shares on_share took for new, in order
  submitted   \* history: what was submitted to the pool, and mapIndex then

workVars == <<jobMap, mapIndex, hashing>>
slaveVars == <<found, sending>>
dedupVars == <<recent, recentIdx, recorded>>
vars == <<workVars, slaveVars, rx, dedupVars, queue, submitting, submitted>>

Cells == 0 .. (RECENT_SHARES - 1)
NotSending == [share |-> NoShare, left |-> 0]
NoCell == -1
NotSubmitting == [share |-> NoShare, cell |-> NoCell]

Init ==
  /\ jobMap = [c \in MapCells |-> [id |-> NoId]]
  /\ mapIndex = 0
  /\ hashing = [s \in Slaves |-> 0]
  /\ found = {}
  /\ sending = [s \in Slaves |-> NotSending]
  /\ rx = <<>>
  /\ recent = [c \in Cells |-> NoShare]
  /\ recentIdx = 0
  /\ queue = <<>>
  /\ submitting = NotSubmitting
  /\ recorded = <<>>
  /\ submitted = <<>>

\* distribute_work for one slave: the mapping is stored, then the packet is
\* broadcast; it may not arrive.
Distribute(s, ok) ==
  /\ mapIndex < MaxJobs
  /\ LET n == mapIndex + 1 IN
       /\ jobMap' = StoreMapping(jobMap, mapIndex, [id |-> n, job |-> n])
       /\ mapIndex' = n
       /\ hashing' = IF ok THEN [hashing EXCEPT ![s] = n] ELSE hashing
  /\ UNCHANGED <<slaveVars, rx, dedupVars, queue, submitting, submitted>>

\* ASIC_result_task of a registered slave finds a nonce that meets the pool
\* difficulty and calls forward_share.  A nonce it has seen is skipped, and
\* a slave that is not registered drops the share at once (no step here).
FindShare(s, n) ==
  /\ hashing[s] # 0
  /\ sending[s] = NotSending
  /\ Cardinality(found) < MaxShares
  /\ \A x \in found : ~(x.slave = s /\ x.nonce = n)
  /\ LET x == [slave |-> s, job |-> hashing[s], nonce |-> n] IN
       /\ found' = found \cup {x}
       /\ sending' = [sending EXCEPT ![s] = [share |-> x, left |-> COPIES]]
  /\ UNCHANGED <<workVars, rx, dedupVars, queue, submitting, submitted>>

\* forward_share sends one copy; it is lost, dropped at a full receive
\* queue, or received.
SendCopy(s, ok) ==
  /\ sending[s].left > 0
  /\ rx' = IF ok /\ Len(rx) < RX_QUEUE_SIZE THEN Append(rx, sending[s].share) ELSE rx
  /\ sending' = [sending EXCEPT ![s] =
       IF @.left = 1 THEN NotSending ELSE [share |-> @.share, left |-> @.left - 1]]
  /\ UNCHANGED <<workVars, found, dedupVars, queue, submitting, submitted>>

\* is_duplicate_share.
SameNonce(x) ==              \* mutant: slave and job are not compared
  \E c \in Cells : recent[c] # NoShare /\ recent[c].nonce = x.nonce
IsDuplicate(x) == \E c \in Cells : recent[c] = x

\* record_share.
RecordPastEnd(x) ==          \* mutant: the index wraps one cell too late
  /\ recent' = [recent EXCEPT ![recentIdx] = x]
  /\ recentIdx' = (recentIdx + 1) % (RECENT_SHARES + 1)
RecordInPlace(x) ==          \* mutant: the index does not advance
  /\ recent' = [recent EXCEPT ![recentIdx] = x]
  /\ UNCHANGED recentIdx
RecordShare(x) ==
  /\ recent' = [recent EXCEPT ![recentIdx] = x]
  /\ recentIdx' = (recentIdx + 1) % RECENT_SHARES

\* cluster_master_on_share: a share in the ring is dropped, any other is
\* recorded and then put into the queue, if that has room.
OnDuplicateShare ==
  /\ rx # <<>>
  /\ IsDuplicate(Head(rx))
  /\ rx' = Tail(rx)
  /\ UNCHANGED <<workVars, slaveVars, dedupVars, queue, submitting, submitted>>

OnNewShare ==
  /\ rx # <<>>
  /\ ~IsDuplicate(Head(rx))
  /\ rx' = Tail(rx)
  /\ RecordShare(Head(rx))
  /\ recorded' = Append(recorded, Head(rx))
  /\ queue' = IF Len(queue) < SHARE_QUEUE_DEPTH THEN Append(queue, Head(rx)) ELSE queue
  /\ UNCHANGED <<workVars, slaveVars, submitting, submitted>>

\* share_submit_task takes the next share and looks for its job; a share
\* whose job has left the map is dropped.
LookupPeek ==                \* mutant: the share stays in the queue
  /\ submitting = NotSubmitting
  /\ queue # <<>>
  /\ Matches(jobMap, Head(queue).job) # {}
  /\ submitting' = [share |-> Head(queue), cell |-> LookupMapping(jobMap, Head(queue).job)]
  /\ UNCHANGED <<workVars, slaveVars, rx, dedupVars, queue, submitted>>
LookupHit ==
  /\ submitting = NotSubmitting
  /\ queue # <<>>
  /\ Matches(jobMap, Head(queue).job) # {}
  /\ submitting' = [share |-> Head(queue), cell |-> LookupMapping(jobMap, Head(queue).job)]
  /\ queue' = Tail(queue)
  /\ UNCHANGED <<workVars, slaveVars, rx, dedupVars, submitted>>

LookupMiss ==
  /\ submitting = NotSubmitting
  /\ queue # <<>>
  /\ Matches(jobMap, Head(queue).job) = {}
  /\ queue' = Tail(queue)
  /\ UNCHANGED <<workVars, slaveVars, rx, dedupVars, submitting, submitted>>

\* lookup_job_mapping then copies the entry.  It holds no lock: the entry is
\* what the cell contains now.  The result is submitted to the pool.
SubmitShare ==
  /\ submitting # NotSubmitting
  /\ submitted' = Append(submitted,
       [share |-> submitting.share, job |-> jobMap[submitting.cell].job,
        at |-> mapIndex])
  /\ submitting' = NotSubmitting
  /\ UNCHANGED <<workVars, slaveVars, rx, dedupVars, queue>>

Submitter == LookupHit \/ LookupMiss \/ SubmitShare
Receiver == OnDuplicateShare \/ OnNewShare

Next ==
  \/ \E s \in Slaves, ok \in BOOLEAN : Distribute(s, ok) \/ SendCopy(s, ok)
  \/ \E s \in Slaves, n \in Nonces : FindShare(s, n)
  \/ Receiver
  \/ Submitter

Spec == Init /\ [][Next]_vars

\* The receive task and the submitter run whenever they have something to do.
LiveSpec == Spec /\ WF_vars(Receiver) /\ WF_vars(Submitter)

-----------------------------------------------------------------------------
(* Properties.                                                             *)

\* Every variable keeps its type; the queues stay within their capacity.
TypeOK ==
  /\ jobMap \in [MapCells -> [id : {NoId}] \cup [id : 1 .. MaxJobs, job : 1 .. MaxJobs]]
  /\ mapIndex \in 0 .. MaxJobs
  /\ hashing \in [Slaves -> 0 .. MaxJobs]
  /\ found \in SUBSET Shares
  /\ sending \in [Slaves -> [share : Shares \cup {NoShare}, left : 0 .. COPIES]]
  /\ rx \in Seq(Shares) /\ Len(rx) <= RX_QUEUE_SIZE
  /\ recent \in [Cells -> Shares \cup {NoShare}]
  /\ recentIdx \in Cells
  /\ queue \in Seq(Shares) /\ Len(queue) <= SHARE_QUEUE_DEPTH
  /\ submitting \in [share : Shares \cup {NoShare}, cell : MapCells \cup {NoCell}]
  /\ recorded \in Seq(Shares)
  /\ submitted \in Seq([share : Shares, job : 1 .. MaxJobs, at : 1 .. MaxJobs])

\* The copies of a share are taken for one share as long as fewer than
\* RECENT_SHARES_SIZE other shares come between them: on_share accepts a
\* share twice only with at least that many other shares recorded in between.
DedupWindow ==
  \A i, j \in 1 .. Len(recorded) :
    i < j /\ recorded[i] = recorded[j] => j - i > RECENT_SHARES

\* How often x occurs in a sequence of shares, and in what was submitted.
Times(q, x) == Cardinality({k \in 1 .. Len(q) : q[k] = x})
TimesSubmitted(x) == Cardinality({k \in 1 .. Len(submitted) : submitted[k].share = x})

\* Nothing is submitted, queued or looked up that a slave did not find, and
\* no share passes the queue and the submitter more often than on_share
\* accepted it.
NothingInvented ==
  \A x \in Shares :
    Times(queue, x) + (IF submitting.share = x THEN 1 ELSE 0) + TimesSubmitted(x)
      <= IF x \in found THEN Times(recorded, x) ELSE 0

\* A share is submitted with the pool job and extranonce2 it was found for,
\* unless the ring of mappings has made a full turn since its packet was
\* stored: however distributions interleave with the unlocked lookup, only
\* the reuse of that very cell can make share_submit_task mistake the job.
SubmittedForItsJob ==
  \A k \in 1 .. Len(submitted) :
    LET r == submitted[k]
    IN r.at - r.share.job < JOB_MAP_SIZE => r.job = r.share.job

\* A share of which one copy has reached the master's receive queue is
\* submitted to the pool, as long as the share queue does not fill up (a
\* share that meets a full queue is lost for good, since it is recorded as
\* seen) and the job map makes no full turn: no share is ever mistaken for a
\* copy of another slave's, or forgotten between the ring and the queue.
IsSubmitted(x) == \E k \in 1 .. Len(submitted) : submitted[k].share = x
RoomForAll == Len(queue) < SHARE_QUEUE_DEPTH /\ mapIndex <= JOB_MAP_SIZE
SharesReachPool ==
  []RoomForAll =>
    \A x \in Shares : (\E k \in 1 .. Len(rx) : rx[k] = x) ~> IsSubmitted(x)
=============================================================================
