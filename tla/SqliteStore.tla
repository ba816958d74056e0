----------------------------- MODULE SqliteStore -----------------------------
(***************************************************************************)
(* checkpoint_worker._SqliteCheckpointStore: two tables with AUTOINCREMENT *)
(* sequence numbers, UNIQUE constraints, INSERT OR REPLACE for checkpoints *)
(* and INSERT OR IGNORE for writes.  It is shown to behave as the          *)
(* in-memory store: every insert is a step of CheckpointStore and every    *)
(* query returns what that store would.                                    *)
(***************************************************************************)
EXTENDS Checkpoints, FiniteSets

CONSTANTS
    MaxSeq,    \* bound: the last sequence number of checkpoints
    MaxWseq,   \* bound: the last sequence number of writes
    Limit      \* the limits list is asked with

\* The two stores read a limit of 0 differently.
ASSUME LimitAssumption == Limit \subseteq {None} \cup (Nat \ {0})

VARIABLES
    checkpoints,  \* rows [seq, key, cid, val]
    seq,          \* the last sequence number used in checkpoints
    taskWrites,   \* table writes: rows [seq, key, cid, task, val]
    wseq          \* the last sequence number used in writes

sqlVars == <<checkpoints, seq, taskWrites, wseq>>

SqlInit == checkpoints = {} /\ seq = 0 /\ taskWrites = {} /\ wseq = 0

\* Mutation: the row is updated in place and keeps its number.
SqlPutUpsert(k, c, v) ==
    /\ seq < MaxSeq
    /\ seq' = seq + 1
    /\ LET old == {r \in checkpoints : r.key = k /\ r.cid = c}
       IN  checkpoints' = IF old = {}
             THEN checkpoints \cup {[seq |-> seq + 1, key |-> k, cid |-> c, val |-> v]}
             ELSE {IF r \in old THEN [r EXCEPT !.val = v] ELSE r : r \in checkpoints}
    /\ UNCHANGED <<taskWrites, wseq>>

\* INSERT OR REPLACE: the row in the way is deleted, the new one has a new
\* number.
SqlPut(k, c, v) ==
    /\ seq < MaxSeq
    /\ seq' = seq + 1
    /\ checkpoints' = {r \in checkpoints : r.key # k \/ r.cid # c}
                      \cup {[seq |-> seq + 1, key |-> k, cid |-> c, val |-> v]}
    /\ UNCHANGED <<taskWrites, wseq>>

\* INSERT OR IGNORE.
SqlPutWrites(k, c, t, v) ==
    /\ wseq < MaxWseq
    /\ IF \E r \in taskWrites : r.key = k /\ r.cid = c /\ r.task = t
       THEN UNCHANGED <<taskWrites, wseq>>
       ELSE /\ wseq' = wseq + 1
            /\ taskWrites' = taskWrites \cup
                 {[seq |-> wseq + 1, key |-> k, cid |-> c, task |-> t, val |-> v]}
    /\ UNCHANGED <<checkpoints, seq>>

SqlNext ==
    \E k \in Key, c \in Cid, v \in Val :
        SqlPut(k, c, v) \/ \E t \in Task : SqlPutWrites(k, c, t, v)

SqlSpec == SqlInit /\ [][SqlNext]_sqlVars

-----------------------------------------------------------------------------
(* The queries *)

\* ORDER BY seq.
BySeq(rows) == CHOOSE s \in [1..Cardinality(rows) -> rows] :
                   \A i, j \in DOMAIN s : i < j => s[i].seq < s[j].seq

WritesOf(k, c) ==
    LET rows == BySeq({r \in taskWrites : r.key = k /\ r.cid = c})
    IN  [i \in 1..Len(rows) |-> [task |-> rows[i].task, val |-> rows[i].val]]

\* Mutation: the order of the query is ascending.
SqlGetTupleOldest(k, cid) ==
    LET rows == BySeq({r \in checkpoints : r.key = k /\ (cid = None \/ r.cid = cid)})
    IN  IF rows = <<>> THEN [cid |-> None, val |-> None, writes |-> <<>>]
        ELSE [cid |-> Head(rows).cid, val |-> Head(rows).val,
              writes |-> WritesOf(k, Head(rows).cid)]

SqlGetTuple(k, cid) ==
    LET rows == BySeq({r \in checkpoints : r.key = k /\ (cid = None \/ r.cid = cid)})
    IN  IF rows = <<>> THEN [cid |-> None, val |-> None, writes |-> <<>>]
        ELSE [cid |-> Last(rows).cid, val |-> Last(rows).val,
              writes |-> WritesOf(k, Last(rows).cid)]

\* Mutation: before is included.
SqlListInclusive(t, ns, before, limit) ==
    LET beforeRow == {r \in checkpoints : /\ r.key = <<t, IF ns = None THEN DefaultNs ELSE ns>>
                                          /\ r.cid = before}
        rows == Reverse(BySeq({r \in checkpoints :
                    /\ r.key[1] = t
                    /\ ns # None => r.key[2] = ns
                    /\ \A b \in beforeRow : r.seq <= b.seq}))
        n == IF limit = None THEN Len(rows) ELSE limit
    IN  [i \in 1..Min({n, Len(rows)}) |-> <<rows[i].key, rows[i].cid, rows[i].val>>]

SqlList(t, ns, before, limit) ==
    LET beforeRow == {r \in checkpoints : /\ r.key = <<t, IF ns = None THEN DefaultNs ELSE ns>>
                                          /\ r.cid = before}
        rows == Reverse(BySeq({r \in checkpoints :
                    /\ r.key[1] = t
                    /\ ns # None => r.key[2] = ns
                    /\ \A b \in beforeRow : r.seq < b.seq}))
        n == IF limit = None THEN Len(rows) ELSE limit
    IN  [i \in 1..Min({n, Len(rows)}) |-> <<rows[i].key, rows[i].cid, rows[i].val>>]

-----------------------------------------------------------------------------
(* The in-memory store this one implements *)

orderOf == [k \in Key |->
               LET rows == BySeq({r \in checkpoints : r.key = k})
               IN  [i \in 1..Len(rows) |-> rows[i].cid]]

recordOf == [k \in Key |-> [c \in Cid |->
               LET rows == {r \in checkpoints : r.key = k /\ r.cid = c}
               IN  IF rows = {} THEN None ELSE (CHOOSE r \in rows : TRUE).val]]

writesOf == [kc \in Key \X Cid |-> WritesOf(kc[1], kc[2])]

Memory == INSTANCE CheckpointStore
            WITH record <- recordOf, order <- orderOf, writes <- writesOf

\* The SQLite store does what the in-memory store does, step by step:
\* INSERT OR REPLACE makes a checkpoint that is put again the newest one, and
\* INSERT OR IGNORE keeps the first writes of a task.
RefinesMemory == Memory!Spec

\* A get_tuple, of a checkpoint or of the newest one, finds the same checkpoint
\* with the same pending writes in the same order in both stores.
GetAgrees == \A k \in Key, c \in Cid \cup {None} : SqlGetTuple(k, c) = Memory!GetTuple(k, c)

\* A list of one thread and namespace is the same in both stores, for every
\* `before' and every limit but 0.
ListAgrees ==
    \A t \in Thread, ns \in Ns, before \in Cid \cup {None}, limit \in Limit :
        SqlList(t, ns, before, limit) = Memory!List(t, ns, before, limit)

=============================================================================
