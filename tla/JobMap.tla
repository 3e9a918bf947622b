------------------------------- MODULE JobMap -------------------------------
(***************************************************************************)
(* The ring that remembers which pool job a cluster job id stands for:     *)
(* s_job_map, store_job_mapping and lookup_job_mapping of                  *)
(* cluster_master.cpp.  An entry is a record with a field id; an entry     *)
(* that was never written (valid = false) has id NoId.                     *)
(***************************************************************************)
EXTENDS Integers

CONSTANT JOB_MAP_SIZE        \* CLUSTER_JOB_MAP_SIZE

ASSUME JobMapAssumption == JOB_MAP_SIZE \in Nat \ {0}

NoId == -1
MapCells == 0 .. (JOB_MAP_SIZE - 1)

\* The cell the entry numbered n goes to.
CellShort(n) == n % (JOB_MAP_SIZE - 1)    \* mutant: the last cell is not used
CellOf(n) == n % JOB_MAP_SIZE

\* store_job_mapping of entry e as number n.
StoreMapping(map, n, e) == [map EXCEPT ![CellOf(n)] = e]

\* The cells lookup_job_mapping would accept; it returns the first in the
\* order of the array, which is not the order of writing.
Matches(map, id) == {k \in MapCells : map[k].id = id}
LookupAnyId(map, id) ==      \* mutant: any valid entry matches
  CHOOSE k \in MapCells :
    map[k].id # NoId /\ \A l \in MapCells : map[l].id # NoId => k <= l
LookupMapping(map, id) ==
  CHOOSE k \in Matches(map, id) : \A l \in Matches(map, id) : k <= l
=============================================================================
