--------------------------- MODULE CheckpointStore ---------------------------
(***************************************************************************)
(* checkpoint_worker._CheckpointStore, the in-memory store behind          *)
(* PilotCheckpointSaver, and what the SQLite store (SqliteStore) is        *)
(* compared with.  Handlers that are plain functions run on the event      *)
(* loop, under a lock: every operation is one step.                        *)
(***************************************************************************)
EXTENDS Checkpoints

VARIABLES
    record,  \* _by_thread: (thread, ns) -> checkpoint id -> record
    order,   \* _order: (thread, ns) -> checkpoint ids, newest last
    writes   \* _writes: (thread, ns), checkpoint id -> task writes

store == <<record, order, writes>>

TypeOK ==
    /\ record \in [Key -> [Cid -> Val \cup {None}]]
    /\ order \in [Key -> Seq(Cid)]
    /\ writes \in [Key \X Cid -> Seq([task : Task, val : Val])]

NoRecords == [k \in Key |-> [c \in Cid |-> None]]
NoOrder   == [k \in Key |-> <<>>]
NoWrites  == [kc \in Key \X Cid |-> <<>>]

Init == record = NoRecords /\ order = NoOrder /\ writes = NoWrites

Has(s, c) == \E i \in 1..Len(s) : s[i] = c
NoRepeat(s) == \A i, j \in 1..Len(s) : i # j => s[i] # s[j]

\* Mutation: a checkpoint that is put again keeps its old place as well.
PutTwice(k, c, v) ==
    /\ record' = [record EXCEPT ![k][c] = v]
    /\ order' = [order EXCEPT ![k] = Append(@, c)]
    /\ UNCHANGED writes

\* put: the record is replaced and its id becomes the newest.
Put(k, c, v) ==
    /\ record' = [record EXCEPT ![k][c] = v]
    /\ \/ /\ ~Has(order[k], c)
          /\ order' = [order EXCEPT ![k] = Append(@, c)]
       \/ \E i \in 1..Len(order[k]) :
             /\ order[k][i] = c
             /\ order' = [order EXCEPT ![k] = Append(RemoveAt(@, i), c)]
    /\ UNCHANGED writes

Written(k, c, t) == \E i \in 1..Len(writes[<<k, c>>]) : writes[<<k, c>>][i].task = t

\* Mutation: no dedupe.
PutWritesAgain(k, c, t, v) ==
    /\ writes' = [writes EXCEPT ![<<k, c>>] = Append(@, [task |-> t, val |-> v])]
    /\ UNCHANGED <<record, order>>

\* put_writes: the first writes of a task stay.
PutWrites(k, c, t, v) ==
    /\ IF Written(k, c, t) THEN UNCHANGED writes
       ELSE writes' = [writes EXCEPT ![<<k, c>>] = Append(@, [task |-> t, val |-> v])]
    /\ UNCHANGED <<record, order>>

Next ==
    \E k \in Key, c \in Cid, v \in Val :
        Put(k, c, v) \/ \E t \in Task : PutWrites(k, c, t, v)

Spec == Init /\ [][Next]_store

-----------------------------------------------------------------------------
(* The reads *)

NotFound == [cid |-> None, val |-> None, writes |-> <<>>]

\* get_tuple, of the newest checkpoint if cid is None.
GetTuple(k, cid) ==
    LET c == IF cid # None THEN cid
             ELSE IF order[k] = <<>> THEN None ELSE Last(order[k])
    IN  IF c = None \/ record[k][c] = None THEN NotFound
        ELSE [cid |-> c, val |-> record[k][c], writes |-> writes[<<k, c>>]]

\* What follows x in s, all of s if x is not in it.
After(s, x) == LET i == {j \in 1..Len(s) : s[j] = x}
               IN  IF i = {} THEN s ELSE SubSeq(s, Max(i) + 1, Len(s))

\* list, newest first.  The limit is looked at after an item was taken.
List(t, ns, before, limit) ==
    LET k   == <<t, IF ns = None THEN DefaultNs ELSE ns>>
        ids == After(Reverse(order[k]), before)
        n   == IF limit = None THEN Len(ids) ELSE Max({limit, 1})
    IN  [i \in 1..Min({n, Len(ids)}) |-> <<k, ids[i], record[k][ids[i]]>>]

-----------------------------------------------------------------------------
(* Properties *)

\* The two dictionaries of the store stay in step: the order of a thread lists
\* every checkpoint it has a record of exactly once, and nothing else, however
\* often checkpoints are put again.
OrderExact ==
    \A k \in Key :
        /\ \A c \in Cid : Has(order[k], c) <=> record[k][c] # None
        /\ NoRepeat(order[k])
=============================================================================
