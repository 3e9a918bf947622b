------------------------------ MODULE AsicJobs ------------------------------
(***************************************************************************)
(* What the ASICs of a board are given and what becomes of it: the table   *)
(* of jobs by ASIC job id (asic_jobs.h), and the jobs the chips have been  *)
(* sent, the last of which they hash.                                      *)
(*                                                                         *)
(* A nonce comes back with the id of its job, some time later.             *)
(* ASIC_result_task judges it by the job that the table has under that id  *)
(* then, and any other job than its own makes it worthless, since its hash *)
(* does not fit.  The task changes nothing of this state, and is the       *)
(* operator Found: what a nonce would find now.                            *)
(***************************************************************************)
EXTENDS Integers, Sequences, SequencesExt

CONSTANTS
  ASIC_IDS,     \* number of different ids jobToAsicId makes (16)
  Pools,
  NoJob

ASSUME AsicAssumption == ASIC_IDS \in Nat \ {0}

VARIABLES
  table,        \* ASIC job id -> job, m_activeJobs
  issued        \* history: the last ASIC_IDS jobs sent to the chips, with their ids

asicVars == <<table, issued>>

AsicIds == 0 .. ASIC_IDS - 1

\* jobToAsicId of BM1366, BM1368, BM1370: (n * 8) & 0x7f or (n * 24) & 0x7f,
\* which has sixteen different values and repeats after sixteen numbers.
IdOfSeventeen(n) == n % (ASIC_IDS + 1)    \* mutant
AsicId(n) == n % ASIC_IDS

AsicInit ==
  /\ table = [i \in AsicIds |-> NoJob]
  /\ issued = <<>>

\* What the chips hash.
chip == Last(issued)

CleanNothing(p) == table     \* mutant
CleanJobs(p) ==
  [i \in AsicIds |-> IF table[i] # NoJob /\ table[i].pool = p THEN NoJob ELSE table[i]]

StoreNext(job, id) == [table EXCEPT ![AsicId(id + 1)] = job]    \* mutant
StoreJob(job, id) == [table EXCEPT ![id] = job]

\* Asic::sendWork.
SendWork(job, id) ==
  LET works == Append(issued, [job |-> job, id |-> id])
  IN issued' = IF Len(works) > ASIC_IDS THEN Tail(works) ELSE works

\* getClone, for a nonce of work w: the job it is judged by.
Found(w) == table[w.id]
=============================================================================
