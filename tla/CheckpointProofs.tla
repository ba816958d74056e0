-------------------------- MODULE CheckpointProofs --------------------------
(* Proofs about the checkpoint saver and the two stores, for any threads,  *)
(* checkpoints, tasks and number of attempts.  First the saver over the    *)
(* in-memory store, then the SQLite store, which implements it.            *)
EXTENDS CheckpointSaver, SqliteStore, SequenceTheorems, FiniteSetTheorems,
        WellFoundedInduction, TLAPS

(* The elements of a sequence without its i-th one (list.remove).          *)
LEMMA RemoveAtElements ==
    ASSUME NEW S, NEW s \in Seq(S), NEW i \in 1..Len(s)
    PROVE  /\ RemoveAt(s, i) \in Seq(S)
           /\ Len(RemoveAt(s, i)) = Len(s) - 1
           /\ \A j \in 1..(Len(s) - 1) :
                 RemoveAt(s, i)[j] = IF j < i THEN s[j] ELSE s[j + 1]
<1> DEFINE a == SubSeq(s, 1, i - 1)
           b == SubSeq(s, i + 1, Len(s))
<1>1. a \in Seq(S) /\ Len(a) = i - 1 /\ \A j \in 1..(i - 1) : a[j] = s[j]
  OBVIOUS
<1>2. /\ b \in Seq(S) /\ Len(b) = Len(s) - i
      /\ \A j \in 1..(Len(s) - i) : b[j] = s[i + j]
  OBVIOUS
<1>3. RemoveAt(s, i) = a \o b
  BY DEF RemoveAt
<1>4. Len(s) \in Nat
  OBVIOUS
<1> HIDE DEF a, b
<1>5. /\ a \o b \in Seq(S) /\ Len(a \o b) = Len(a) + Len(b)
      /\ \A j \in 1..(Len(a) + Len(b)) :
            (a \o b)[j] = IF j <= Len(a) THEN a[j] ELSE b[j - Len(a)]
  <2>1. a \in Seq(S) /\ b \in Seq(S)
    BY <1>1, <1>2
  <2> QED
    BY <2>1, ConcatProperties
<1>6. Len(a) + Len(b) = Len(s) - 1
  BY <1>1, <1>2, <1>4
<1>7. ASSUME NEW j \in 1..(Len(s) - 1)
      PROVE  (a \o b)[j] = IF j < i THEN s[j] ELSE s[j + 1]
  <2>1. CASE j < i
    BY <1>1, <1>4, <1>5, <1>6, <2>1
  <2>2. CASE ~(j < i)
    <3>1. j - (i - 1) \in 1..(Len(s) - i) /\ i + (j - (i - 1)) = j + 1
      BY <1>4, <2>2
    <3> QED
      BY <1>1, <1>2, <1>4, <1>5, <1>6, <2>2, <3>1
  <2> QED
    BY <2>1, <2>2
<1> QED
  BY <1>3, <1>5, <1>6, <1>7

(* Removing an element of a sequence without repetitions removes it and    *)
(* nothing else.                                                           *)
LEMMA RemoveOne ==
    ASSUME NEW S, NEW s \in Seq(S), NEW i \in 1..Len(s), NoRepeat(s)
    PROVE  /\ RemoveAt(s, i) \in Seq(S)
           /\ NoRepeat(RemoveAt(s, i))
           /\ \A d \in S : Has(RemoveAt(s, i), d) <=> Has(s, d) /\ d # s[i]
<1> DEFINE r == RemoveAt(s, i)
           n == Len(s)
<1>1. r \in Seq(S) /\ Len(r) = n - 1 /\ n \in Nat /\ i \in 1..n
  BY RemoveAtElements
<1>2. \A j \in 1..(n - 1) : r[j] = IF j < i THEN s[j] ELSE s[j + 1]
  BY RemoveAtElements
<1>3. \A p, q \in 1..n : p # q => s[p] # s[q]
  BY DEF NoRepeat
<1> HIDE DEF r, n
<1>4. NoRepeat(r)
  <2> SUFFICES ASSUME NEW p \in 1..(n - 1), NEW q \in 1..(n - 1), p # q
               PROVE  r[p] # r[q]
    BY <1>1 DEF NoRepeat
  <2>1. /\ p \in 1..n /\ p + 1 \in 1..n /\ q \in 1..n /\ q + 1 \in 1..n
        /\ p + 1 # q + 1
        /\ (p < i /\ ~(q < i)) => p # q + 1
        /\ (q < i /\ ~(p < i)) => q # p + 1
    BY <1>1
  <2>2. CASE p < i /\ q < i
    BY <1>2, <1>3, <2>1, <2>2
  <2>3. CASE p < i /\ ~(q < i)
    <3>1. r[p] = s[p] /\ r[q] = s[q + 1]
      BY <1>2, <2>3
    <3> QED
      BY <1>3, <2>1, <2>3, <3>1
  <2>4. CASE ~(p < i) /\ q < i
    <3>1. r[q] = s[q] /\ r[p] = s[p + 1]
      BY <1>2, <2>4
    <3> QED
      BY <1>3, <2>1, <2>4, <3>1
  <2>5. CASE ~(p < i) /\ ~(q < i)
    <3>1. r[q] = s[q + 1] /\ r[p] = s[p + 1]
      BY <1>2, <2>5
    <3> QED
      BY <1>3, <2>1, <3>1
  <2> QED
    BY <2>2, <2>3, <2>4, <2>5
<1>5. ASSUME NEW d \in S, Has(r, d) PROVE Has(s, d) /\ d # s[i]
  <2>1. PICK j \in 1..(n - 1) : r[j] = d
    BY <1>1, <1>5 DEF Has
  <2>2. j \in 1..n /\ j + 1 \in 1..n /\ (j < i => j # i) /\ (~(j < i) => j + 1 # i)
    BY <1>1
  <2>3. \E p \in 1..n : p # i /\ s[p] = d
    BY <1>2, <2>1, <2>2
  <2> QED
    BY <1>1, <1>3, <2>3 DEF Has, n
<1>6. ASSUME NEW d \in S, Has(s, d), d # s[i] PROVE Has(r, d)
  <2>1. PICK p \in 1..n : s[p] = d
    BY <1>6 DEF Has, n
  <2>2. p # i
    BY <1>6, <2>1
  <2>3. CASE p < i
    <3>1. p \in 1..(n - 1)
      BY <1>1, <2>3
    <3> QED
      BY <1>1, <1>2, <2>1, <2>3, <3>1 DEF Has
  <2>4. CASE ~(p < i)
    <3>1. p - 1 \in 1..(n - 1) /\ ~(p - 1 < i) /\ (p - 1) + 1 = p
      BY <1>1, <2>2, <2>4
    <3>2. r[p - 1] = d
      BY <1>2, <2>1, <3>1
    <3> QED
      BY <1>1, <3>1, <3>2 DEF Has
  <2> QED
    BY <2>3, <2>4
<1> QED
  BY <1>1, <1>4, <1>5, <1>6 DEF r

(* Appending a new element to a sequence without repetitions.              *)
LEMMA AppendOne ==
    ASSUME NEW S, NEW s \in Seq(S), NEW c \in S, NoRepeat(s), ~Has(s, c)
    PROVE  /\ Append(s, c) \in Seq(S)
           /\ NoRepeat(Append(s, c))
           /\ \A d \in S : Has(Append(s, c), d) <=> Has(s, d) \/ d = c
<1> DEFINE r == Append(s, c)
           n == Len(s)
<1>1. /\ r \in Seq(S) /\ Len(r) = n + 1 /\ n \in Nat
      /\ \A j \in 1..n : r[j] = s[j]
      /\ r[n + 1] = c
  OBVIOUS
<1>2. /\ \A p, q \in 1..n : p # q => s[p] # s[q]
      /\ \A p \in 1..n : s[p] # c
  BY DEF NoRepeat, Has
<1>3. \A j \in 1..(n + 1) : j \in 1..n \/ j = n + 1
  BY <1>1
<1>4. \A j \in 1..n : j \in 1..(n + 1) /\ j # n + 1
  BY <1>1
<1>5. n + 1 \in 1..(n + 1)
  BY <1>1
<1> HIDE DEF r
<1>6. NoRepeat(r)
  <2> SUFFICES ASSUME NEW p \in 1..(n + 1), NEW q \in 1..(n + 1), p # q
               PROVE  r[p] # r[q]
    BY <1>1 DEF NoRepeat
  <2> QED
    BY <1>1, <1>2, <1>3
<1>7. \A d \in S : Has(r, d) <=> (\E j \in 1..(n + 1) : r[j] = d)
  BY <1>1 DEF Has
<1>8. \A d \in S : Has(s, d) <=> (\E j \in 1..n : s[j] = d)
  BY DEF Has
<1>9. ASSUME NEW d \in S PROVE Has(r, d) <=> Has(s, d) \/ d = c
  BY <1>1, <1>3, <1>4, <1>5, <1>7, <1>8
<1> QED
  BY <1>1, <1>6, <1>9 DEF r

(* put replaces one record and keeps the order exact, whether or not the   *)
(* checkpoint was there.                                                   *)
LEMMA PutStep ==
    ASSUME TypeOK, OrderExact, NEW k \in Key, NEW c \in Cid, NEW v \in Val,
           Put(k, c, v)
    PROVE  /\ TypeOK' /\ OrderExact'
           /\ writes' = writes
           /\ record'[k][c] = v
           /\ \A d \in Cid : d # c => record'[k][d] = record[k][d]
<1>1. /\ record \in [Key -> [Cid -> Val \cup {None}]]
      /\ order \in [Key -> Seq(Cid)]
      /\ record' = [record EXCEPT ![k][c] = v]
      /\ writes' = writes
      /\ v # None
  BY NoneAssumption DEF TypeOK, Put
<1>2. /\ record' \in [Key -> [Cid -> Val \cup {None}]]
      /\ record'[k][c] = v
      /\ \A d \in Cid : d # c => record'[k][d] = record[k][d]
      /\ \A l \in Key : l # k => record'[l] = record[l]
  BY <1>1
<1>3. PICK s \in Seq(Cid) : s = order[k]
  BY <1>1
<1>4. NoRepeat(s) /\ \A d \in Cid : Has(s, d) <=> record[k][d] # None
  BY <1>3 DEF OrderExact
<1>5. PICK t : /\ t \in Seq(Cid)
               /\ NoRepeat(t)
               /\ \A d \in Cid : Has(t, d) <=> Has(s, d) \/ d = c
               /\ order' = [order EXCEPT ![k] = t]
  <2>1. CASE ~Has(order[k], c) /\ order' = [order EXCEPT ![k] = Append(@, c)]
    <3>1. order' = [order EXCEPT ![k] = Append(s, c)]
      BY <1>1, <1>3, <2>1
    <3>2. ~Has(s, c)
      BY <1>3, <2>1
    <3> QED
      BY <1>4, <3>1, <3>2, AppendOne
  <2>2. CASE \E i \in 1..Len(order[k]) :
                /\ order[k][i] = c
                /\ order' = [order EXCEPT ![k] = Append(RemoveAt(@, i), c)]
    <3>1. PICK i \in 1..Len(s) :
             s[i] = c /\ order' = [order EXCEPT ![k] = Append(RemoveAt(s, i), c)]
      BY <1>1, <1>3, <2>2
    <3>2. PICK r : r = RemoveAt(s, i)
      OBVIOUS
    <3>3. /\ r \in Seq(Cid) /\ NoRepeat(r)
          /\ \A d \in Cid : Has(r, d) <=> Has(s, d) /\ d # c
      BY <1>4, <3>1, <3>2, RemoveOne
    <3>4. /\ Append(r, c) \in Seq(Cid) /\ NoRepeat(Append(r, c))
          /\ \A d \in Cid : Has(Append(r, c), d) <=> Has(r, d) \/ d = c
      BY <3>3, AppendOne
    <3>5. order' = [order EXCEPT ![k] = Append(r, c)]
      BY <3>1, <3>2
    <3>6. \A d \in Cid : Has(Append(r, c), d) <=> Has(s, d) \/ d = c
      <4>1. Has(s, c)
        BY <3>1 DEF Has
      <4> QED
        BY <3>3, <3>4, <4>1
    <3> QED
      BY <3>4, <3>5, <3>6
  <2> QED
    BY <2>1, <2>2 DEF Put
<1>6. /\ order' \in [Key -> Seq(Cid)] /\ order'[k] = t
      /\ \A l \in Key : l # k => order'[l] = order[l]
  BY <1>1, <1>5
<1>7. TypeOK'
  BY <1>1, <1>2, <1>6 DEF TypeOK
<1>8. OrderExact'
  <2> SUFFICES ASSUME NEW l \in Key
               PROVE  /\ \A d \in Cid : Has(order'[l], d) <=> record'[l][d] # None
                      /\ NoRepeat(order'[l])
    BY DEF OrderExact
  <2>1. CASE l = k
    <3>1. NoRepeat(order'[l]) /\ \A d \in Cid : Has(order'[l], d) <=> Has(s, d) \/ d = c
      BY <1>5, <1>6, <2>1
    <3>2. \A d \in Cid : record'[l][d] # None <=> (record[k][d] # None \/ d = c)
      BY <1>1, <1>2, <2>1
    <3> QED
      BY <1>4, <3>1, <3>2
  <2>2. CASE l # k
    BY <1>2, <1>6, <2>2 DEF OrderExact
  <2> QED
    BY <2>1, <2>2
<1> QED
  BY <1>1, <1>2, <1>7, <1>8

(* put_writes leaves one entry of each task, and none is ever taken away.  *)
LEMMA PutWritesStep ==
    ASSUME TypeOK, OrderExact, WritesOnce,
           NEW k \in Key, NEW c \in Cid, NEW t \in Task, NEW v \in Val,
           PutWrites(k, c, t, v)
    PROVE  /\ TypeOK' /\ OrderExact' /\ WritesOnce'
           /\ record' = record
           /\ Written(k, c, t)'
           /\ \A d \in Cid, u \in Task : Written(k, d, u) => Written(k, d, u)'
           /\ \A d \in Cid : \A i \in 1..Len(writes'[<<k, d>>]) :
                \/ /\ i \in 1..Len(writes[<<k, d>>])
                   /\ writes'[<<k, d>>][i] = writes[<<k, d>>][i]
                \/ writes'[<<k, d>>][i] = [task |-> t, val |-> v]
<1>1. record' = record /\ order' = order
  BY DEF PutWrites
<1>2. OrderExact'
  BY <1>1 DEF OrderExact
<1>3. CASE Written(k, c, t)
  <2>1. writes' = writes
    BY <1>3 DEF PutWrites
  <2> QED
    BY <1>1, <1>2, <1>3, <2>1 DEF TypeOK, WritesOnce, Written
<1>4. CASE ~Written(k, c, t)
  <2> DEFINE Entries == [task : Task, val : Val]
             e == [task |-> t, val |-> v]
  <2>1. PICK kc \in Key \X Cid : kc = <<k, c>>
    OBVIOUS
  <2>2. PICK s \in Seq(Entries) : s = writes[kc]
    BY DEF TypeOK
  <2>3. e \in Entries /\ e.task = t
    OBVIOUS
  <2>4. writes \in [Key \X Cid -> Seq(Entries)] /\ writes' = [writes EXCEPT ![kc] = Append(s, e)]
    BY <1>4, <2>1, <2>2 DEF TypeOK, PutWrites
  <2> HIDE DEF e
  <2>5. PICK n \in Nat : n = Len(s)
    BY <2>2
  <2>6. /\ Append(s, e) \in Seq(Entries) /\ Len(Append(s, e)) = n + 1
        /\ \A i \in 1..n : Append(s, e)[i] = s[i]
        /\ Append(s, e)[n + 1] = e
    BY <2>2, <2>3, <2>5
  <2>7. \A i \in 1..n : s[i].task # t
    BY <1>4, <2>1, <2>2, <2>5 DEF Written
  <2>8. PICK r : r = Append(s, e)
    OBVIOUS
  <2>9. /\ writes' \in [Key \X Cid -> Seq(Entries)]
        /\ writes'[kc] = r
        /\ \A l \in Key \X Cid : l # kc => writes'[l] = writes[l]
    BY <2>4, <2>6, <2>8
  <2>10. \A i \in 1..(n + 1) : i \in 1..n \/ i = n + 1
    BY <2>5
  <2>11. \A i \in 1..n : i \in 1..(n + 1)
    BY <2>5
  <2>12. \A i, j \in 1..n : s[i].task = s[j].task => i = j
    BY <2>2, <2>5 DEF WritesOnce
  <2>13. \A i, j \in 1..(n + 1) : r[i].task = r[j].task => i = j
    BY <2>3, <2>6, <2>7, <2>8, <2>10, <2>12
  <2>14. WritesOnce'
    <3> SUFFICES ASSUME NEW l \in Key \X Cid,
                        NEW i \in 1..Len(writes'[l]), NEW j \in 1..Len(writes'[l]),
                        writes'[l][i].task = writes'[l][j].task
                 PROVE  i = j
      BY DEF WritesOnce
    <3>1. CASE l = kc
      BY <2>6, <2>8, <2>9, <2>13, <3>1
    <3>2. CASE l # kc
      BY <2>9, <3>2 DEF WritesOnce
    <3> QED
      BY <3>1, <3>2
  <2>15. Written(k, c, t)'
    <3>1. n + 1 \in 1..Len(r) /\ r[n + 1].task = t
      BY <2>3, <2>5, <2>6, <2>8
    <3> QED
      BY <2>1, <2>9, <3>1 DEF Written
  <2>16. ASSUME NEW d \in Cid, NEW u \in Task, Written(k, d, u)
         PROVE  Written(k, d, u)'
    <3>1. CASE <<k, d>> = kc
      <4>1. PICK i \in 1..n : s[i].task = u
        BY <2>2, <2>5, <2>16, <3>1 DEF Written
      <4>2. i \in 1..Len(r) /\ r[i].task = u
        BY <2>6, <2>8, <2>11, <4>1
      <4> QED
        BY <2>9, <3>1, <4>2 DEF Written
    <3>2. CASE <<k, d>> # kc
      BY <2>9, <2>16, <3>2 DEF Written
    <3> QED
      BY <3>1, <3>2
  <2>17. TypeOK'
    BY <1>1, <2>9 DEF TypeOK
  <2>18. ASSUME NEW d \in Cid, NEW i \in 1..Len(writes'[<<k, d>>])
         PROVE  \/ /\ i \in 1..Len(writes[<<k, d>>])
                   /\ writes'[<<k, d>>][i] = writes[<<k, d>>][i]
                \/ writes'[<<k, d>>][i] = e
    <3>1. CASE <<k, d>> = kc
      <4>1. i \in 1..n \/ i = n + 1
        BY <2>6, <2>8, <2>9, <2>10, <3>1
      <4> QED
        BY <2>2, <2>5, <2>6, <2>8, <2>9, <3>1, <4>1
    <3>2. CASE <<k, d>> # kc
      BY <2>9, <3>2
    <3> QED
      BY <3>1, <3>2
  <2> QED
    BY <1>1, <1>2, <2>14, <2>15, <2>16, <2>17, <2>18 DEF e
<1> QED
  BY <1>3, <1>4

(* Puts and task writes are different operations; Put's are keyed by id.   *)
LEMMA OpFacts ==
    /\ \A c \in Cid : PutOf(c) \in PutOps /\ PutOf(c).cid = c
    /\ \A o \in PutOps : o = PutOf(o.cid) /\ o \notin WriteOps
    /\ \A o \in Op : o.cid \in Cid /\ (o \notin PutOps => o \in WriteOps)
    /\ \A o \in WriteOps : o.task \in Task
    /\ Here \in Key
  BY SaverAssumption DEF PutOf, PutOps, WriteOps, Op, Here, Key

(* A step that leaves the store alone keeps what is said of the store.     *)
LEMMA StoreUnchanged ==
    ASSUME UNCHANGED store
    PROVE  /\ TypeOK => TypeOK'
           /\ OrderExact => OrderExact'
           /\ WritesOnce => WritesOnce'
           /\ WritesAsGiven => WritesAsGiven'
           /\ \A o \in Op : Stored(o) <=> Stored(o)'
  BY DEF store, TypeOK, OrderExact, WritesOnce, WritesAsGiven, Stored, Written

(* The handler of an attempt stores its operation and undoes no other.     *)
LEMMA HandleStep ==
    ASSUME SaverInv, NEW a \in flight, Handle(a)
    PROVE  /\ TypeOK' /\ OrderExact' /\ WritesOnce' /\ WritesAsGiven'
           /\ \A o \in Op : Stored(o) => Stored(o)'
           /\ Stored(a[1])'
<1>1. PICK o \in Op : o = a[1]
  BY DEF SaverInv, SaverTypeOK, Attempt
<1>2. TypeOK /\ OrderExact /\ WritesOnce
  BY DEF SaverInv, SaverTypeOK
<1>3. CASE o \in PutOps
  <2>1. Put(Here, o.cid, Blob)
    BY <1>1, <1>3 DEF Handle
  <2>2. /\ TypeOK' /\ OrderExact' /\ writes' = writes
        /\ record'[Here][o.cid] = Blob
        /\ \A d \in Cid : d # o.cid => record'[Here][d] = record[Here][d]
    BY <1>2, <2>1, PutStep, OpFacts, SaverAssumption
  <2>3. \A p \in Op : Stored(p) => Stored(p)'
    BY <2>2, OpFacts DEF Stored, Written
  <2>4. Stored(o)'
    BY <1>3, <2>2, OpFacts DEF Stored
  <2>5. WritesOnce' /\ WritesAsGiven'
    BY <1>2, <2>2 DEF WritesOnce, WritesAsGiven, SaverInv
  <2> QED
    BY <1>1, <2>2, <2>3, <2>4, <2>5
<1>4. CASE o \notin PutOps
  <2>1. o \in WriteOps /\ o.cid \in Cid /\ o.task \in Task /\ Here \in Key
    BY <1>4, OpFacts
  <2>2. PutWrites(Here, o.cid, o.task, TaskWrites[o.task]) /\ TaskWrites[o.task] \in Val
    BY <1>1, <1>4, <2>1, SaverAssumption DEF Handle
  <2>3. /\ TypeOK' /\ OrderExact' /\ WritesOnce'
        /\ record' = record
        /\ Written(Here, o.cid, o.task)'
        /\ \A d \in Cid, u \in Task : Written(Here, d, u) => Written(Here, d, u)'
        /\ \A d \in Cid : \A i \in 1..Len(writes'[<<Here, d>>]) :
             \/ /\ i \in 1..Len(writes[<<Here, d>>])
                /\ writes'[<<Here, d>>][i] = writes[<<Here, d>>][i]
             \/ writes'[<<Here, d>>][i] = [task |-> o.task, val |-> TaskWrites[o.task]]
    BY <1>2, <2>1, <2>2, PutWritesStep
  <2>4. \A p \in Op : Stored(p) => Stored(p)'
    BY <2>3, OpFacts DEF Stored
  <2>5. Stored(o)'
    BY <1>4, <2>3 DEF Stored
  <2>6. WritesAsGiven'
    <3> SUFFICES ASSUME NEW d \in Cid, NEW i \in 1..Len(writes'[<<Here, d>>])
                 PROVE  writes'[<<Here, d>>][i] = Entry(writes'[<<Here, d>>][i].task)
      BY DEF WritesAsGiven, Entry
    <3>1. CASE /\ i \in 1..Len(writes[<<Here, d>>])
               /\ writes'[<<Here, d>>][i] = writes[<<Here, d>>][i]
      BY <3>1 DEF SaverInv, WritesAsGiven
    <3>2. CASE writes'[<<Here, d>>][i] = [task |-> o.task, val |-> TaskWrites[o.task]]
      BY <3>2 DEF Entry
    <3> QED
      BY <2>3, <3>1, <3>2
  <2> QED
    BY <1>1, <2>3, <2>4, <2>5, <2>6
<1> QED
  BY <1>3, <1>4

(* The inductive step.                                                     *)
LEMMA SaverStep == SaverInv /\ [SaverNext]_vars => SaverInv'
<1> SUFFICES ASSUME SaverInv, [SaverNext]_vars PROVE SaverInv'
  OBVIOUS
<1> USE SaverAssumption
<1>0. /\ phase \in [Op -> {"new", "calling", "ok", "raised"}]
      /\ tries \in [Op -> 0..MaxTries]
      /\ flight \subseteq Attempt /\ reply \subseteq Attempt
      /\ MaxTries \in Nat \ {0}
      /\ \A a \in Attempt : a[1] \in Op
      /\ \A o \in Op, n \in 1..MaxTries : <<o, n>> \in Attempt /\ <<o, n>>[1] = o
  BY DEF SaverInv, SaverTypeOK, Attempt
<1>1. ASSUME NEW o \in Op, Begin(o) PROVE SaverInv'
  <2>0. UNCHANGED store /\ reply' = reply
    BY <1>1 DEF Begin
  <2>1. /\ phase' = [phase EXCEPT ![o] = "calling"]
        /\ tries' = [tries EXCEPT ![o] = 1]
        /\ flight' = flight \cup {<<o, 1>>}
        /\ phase[o] = "new"
    BY <1>1 DEF Begin
  <2>2. TypeOK' /\ OrderExact' /\ WritesOnce' /\ WritesAsGiven'
    BY <2>0, StoreUnchanged DEF SaverInv, SaverTypeOK
  <2>3. SaverTypeOK'
    <3>1. 1 \in 1..MaxTries /\ 1 \in 0..MaxTries
      BY <1>0
    <3> QED
      BY <1>0, <2>0, <2>1, <2>2, <3>1 DEF SaverTypeOK
  <2>6. AckedStored'
    BY <1>0, <2>0, <2>1, StoreUnchanged DEF SaverInv, AckedStored
  <2>7. AnsweredStored'
    BY <1>0, <2>0, StoreUnchanged DEF SaverInv, AnsweredStored
  <2> QED
    BY <2>2, <2>3, <2>6, <2>7 DEF SaverInv
<1>2. ASSUME NEW a \in flight, Handle(a) PROVE SaverInv'
  <2>0. /\ phase' = phase /\ tries' = tries /\ flight' = flight \ {a}
        /\ reply' \subseteq reply \cup {a}
    BY <1>2 DEF Handle
  <2>1. /\ TypeOK' /\ OrderExact' /\ WritesOnce' /\ WritesAsGiven'
        /\ \A o \in Op : Stored(o) => Stored(o)'
        /\ Stored(a[1])'
    BY <1>2, HandleStep
  <2>2. SaverTypeOK'
    BY <1>0, <2>0, <2>1 DEF SaverTypeOK
  <2>4. AckedStored'
    BY <2>0, <2>1 DEF SaverInv, AckedStored
  <2>5. AnsweredStored'
    BY <1>0, <2>0, <2>1 DEF SaverInv, AnsweredStored
  <2> QED
    BY <2>1, <2>2, <2>4, <2>5 DEF SaverInv
<1>3. ASSUME NEW a, Lose(a) PROVE SaverInv'
  <2>0. /\ UNCHANGED store /\ phase' = phase /\ tries' = tries
        /\ flight' \subseteq flight /\ reply' \subseteq reply
    BY <1>3 DEF Lose
  <2>1. TypeOK' /\ OrderExact' /\ WritesOnce' /\ WritesAsGiven'
    BY <2>0, StoreUnchanged DEF SaverInv, SaverTypeOK
  <2>2. SaverTypeOK'
    BY <1>0, <2>0, <2>1 DEF SaverTypeOK
  <2>4. AckedStored'
    BY <2>0, StoreUnchanged DEF SaverInv, AckedStored
  <2>5. AnsweredStored'
    BY <1>0, <2>0, StoreUnchanged DEF SaverInv, AnsweredStored
  <2> QED
    BY <2>1, <2>2, <2>4, <2>5 DEF SaverInv
<1>4. ASSUME NEW o \in Op, Return(o) PROVE SaverInv'
  <2>0. /\ UNCHANGED store /\ tries' = tries /\ flight' = flight
        /\ reply' \subseteq reply
        /\ phase[o] = "calling" /\ <<o, tries[o]>> \in reply
        /\ phase' = [phase EXCEPT ![o] = "ok"]
    BY <1>4 DEF Return
  <2>1. TypeOK' /\ OrderExact' /\ WritesOnce' /\ WritesAsGiven'
    BY <2>0, StoreUnchanged DEF SaverInv, SaverTypeOK
  <2>2. SaverTypeOK'
    BY <1>0, <2>0, <2>1 DEF SaverTypeOK
  <2>5. AckedStored'
    <3>1. Durable => Stored(o)
      <4>1. PICK a \in reply : a = <<o, tries[o]>>
        BY <2>0
      <4>2. a[1] = o
        BY <4>1
      <4> QED
        BY <4>1, <4>2 DEF SaverInv, AnsweredStored
    <3> QED
      BY <1>0, <2>0, <3>1, StoreUnchanged DEF SaverInv, AckedStored
  <2>6. AnsweredStored'
    BY <1>0, <2>0, StoreUnchanged DEF SaverInv, AnsweredStored
  <2> QED
    BY <2>1, <2>2, <2>5, <2>6 DEF SaverInv
<1>5. ASSUME NEW o \in Op, Fail(o) PROVE SaverInv'
  <2>0. /\ UNCHANGED store /\ reply' \subseteq reply /\ phase[o] = "calling"
    BY <1>5 DEF Fail, GivenUp
  <2>1. TypeOK' /\ OrderExact' /\ WritesOnce' /\ WritesAsGiven'
    BY <2>0, StoreUnchanged DEF SaverInv, SaverTypeOK
  <2>2. /\ tries' \in [Op -> 0..MaxTries]
        /\ flight' \subseteq Attempt
        /\ \A a \in flight' : a \in flight \/ a[1] = o
    <3>1. CASE tries[o] < MaxTries
      <4>1. tries[o] + 1 \in 1..MaxTries /\ tries[o] + 1 \in 0..MaxTries
        BY <1>0, <3>1
      <4>2. /\ tries' = [tries EXCEPT ![o] = tries[o] + 1]
            /\ flight' \subseteq flight \cup {<<o, tries[o] + 1>>}
        BY <1>0, <1>5, <3>1 DEF Fail, GivenUp
      <4> QED
        BY <1>0, <4>1, <4>2
    <3>2. CASE ~(tries[o] < MaxTries)
      BY <1>0, <1>5, <3>2 DEF Fail, GivenUp
    <3> QED
      BY <3>1, <3>2
  <2>3. phase' = phase \/ phase' = [phase EXCEPT ![o] = "raised"]
    BY <1>5 DEF Fail
  <2>4. SaverTypeOK'
    BY <1>0, <2>0, <2>1, <2>2, <2>3 DEF SaverTypeOK
  <2>7. AckedStored'
    BY <1>0, <2>0, <2>3, StoreUnchanged DEF SaverInv, AckedStored
  <2>8. AnsweredStored'
    BY <1>0, <2>0, StoreUnchanged DEF SaverInv, AnsweredStored
  <2> QED
    BY <2>1, <2>4, <2>7, <2>8 DEF SaverInv
<1>6. CASE Restart
  <2>0. phase' = phase /\ tries' = tries /\ flight' = {} /\ reply' = {}
    BY <1>6 DEF Restart
  <2>1. TypeOK' /\ OrderExact' /\ WritesOnce' /\ WritesAsGiven'
    <3>1. CASE Durable
      <4>1. UNCHANGED store
        BY <1>6, <3>1 DEF Restart
      <4> QED
        BY <4>1, StoreUnchanged DEF SaverInv, SaverTypeOK
    <3>2. CASE ~Durable
      <4>1. record' = NoRecords /\ order' = NoOrder /\ writes' = NoWrites
        BY <1>6, <3>2 DEF Restart
      <4>2. TypeOK'
        BY <4>1 DEF TypeOK, NoRecords, NoOrder, NoWrites
      <4>3. OrderExact'
        BY <4>1 DEF OrderExact, Has, NoRepeat, NoRecords, NoOrder
      <4>4. WritesOnce' /\ WritesAsGiven'
        BY <4>1, OpFacts DEF WritesOnce, WritesAsGiven, NoWrites
      <4> QED
        BY <4>2, <4>3, <4>4
    <3> QED
      BY <3>1, <3>2
  <2>2. SaverTypeOK'
    BY <1>0, <2>0, <2>1 DEF SaverTypeOK
  <2>3. AnsweredStored'
    BY <2>0 DEF SaverInv, AnsweredStored
  <2>4. AckedStored'
    <3> SUFFICES ASSUME Durable PROVE AckedStored'
      BY DEF AckedStored
    <3>1. UNCHANGED store
      BY <1>6 DEF Restart
    <3> QED
      BY <2>0, <3>1, StoreUnchanged DEF SaverInv, AckedStored
  <2> QED
    BY <2>1, <2>2, <2>3, <2>4 DEF SaverInv
<1>7. CASE UNCHANGED vars
  <2>1. UNCHANGED store /\ UNCHANGED <<phase, tries, flight, reply>>
    BY <1>7 DEF vars, saver
  <2> QED
    BY <1>0, <2>1, StoreUnchanged
    DEF SaverInv, SaverTypeOK, AckedStored, AnsweredStored
<1> QED
  <2>1. ASSUME NEW a, Handle(a) PROVE a \in flight
    BY <2>1 DEF Handle
  <2> QED
    BY <1>1, <1>2, <1>3, <1>4, <1>5, <1>6, <1>7, <2>1 DEF SaverNext

(* A thread starts empty.                                                  *)
LEMMA SaverInitially == SaverInit => SaverInv
<1> SUFFICES ASSUME SaverInit PROVE SaverInv
  OBVIOUS
<1>1. TypeOK
  BY DEF SaverInit, Init, TypeOK, NoRecords, NoOrder, NoWrites
<1>2. OrderExact
  BY DEF SaverInit, Init, OrderExact, Has, NoRepeat, NoRecords, NoOrder
<1>3. WritesOnce /\ WritesAsGiven
  BY OpFacts DEF SaverInit, Init, WritesOnce, WritesAsGiven, NoWrites
<1>4. SaverTypeOK
  BY <1>1, SaverAssumption DEF SaverInit, SaverTypeOK, Attempt
<1>5. AckedStored /\ AnsweredStored
  BY DEF SaverInit, AckedStored, AnsweredStored, Op
<1> QED
  BY <1>2, <1>3, <1>4, <1>5 DEF SaverInv

(* What the invariant says of an operation that returned.                  *)
LEMMA InvImpliesAcked == SaverInv => AckedDurable
<1> SUFFICES ASSUME SaverInv, Durable, NEW o \in Op, phase[o] = "ok"
             PROVE  LET tuple == GetTuple(Here, o.cid)
                    IN  /\ o \in PutOps => tuple.val = Blob
                        /\ o \in WriteOps /\ tuple # NotFound =>
                              \E i \in 1..Len(tuple.writes) :
                                  tuple.writes[i] = Entry(o.task)
  BY DEF AckedDurable
<1>1. Stored(o)
  BY DEF SaverInv, AckedStored
<1>2. o.cid \in Cid /\ o.cid # None /\ Blob # None
  BY OpFacts, NoneAssumption, SaverAssumption
<1>3. CASE record[Here][o.cid] = None
  <2>1. GetTuple(Here, o.cid) = NotFound
    BY <1>2, <1>3 DEF GetTuple
  <2>2. o \notin PutOps
    BY <1>1, <1>2, <1>3 DEF Stored
  <2> QED
    BY <2>1, <2>2
<1>4. CASE record[Here][o.cid] # None
  <2>1. GetTuple(Here, o.cid) =
          [cid |-> o.cid, val |-> record[Here][o.cid], writes |-> writes[<<Here, o.cid>>]]
    BY <1>2, <1>4 DEF GetTuple
  <2>2. ASSUME o \in WriteOps
        PROVE  \E i \in 1..Len(writes[<<Here, o.cid>>]) :
                  writes[<<Here, o.cid>>][i] = Entry(o.task)
    <3>1. PICK i \in 1..Len(writes[<<Here, o.cid>>]) :
                  writes[<<Here, o.cid>>][i].task = o.task
      BY <1>1, <2>2 DEF Stored, Written
    <3>2. writes[<<Here, o.cid>>][i] = Entry(writes[<<Here, o.cid>>][i].task)
      BY <1>2 DEF SaverInv, WritesAsGiven
    <3> QED
      BY <3>1, <3>2
  <2> QED
    BY <1>1, <2>1, <2>2 DEF Stored
<1> QED
  BY <1>3, <1>4

(* What aput and aput_writes have acknowledged is read back from a durable *)
(* store with its value, in whichever order a checkpoint and its writes    *)
(* come and whatever is retried, repeated late, lost or restarted.         *)
THEOREM AckedIsDurable == SaverSpec => []AckedDurable
<1>1. SaverInv /\ [SaverNext]_vars => SaverInv'
  BY SaverStep
<1> QED
  BY <1>1, SaverInitially, InvImpliesAcked, PTL DEF SaverSpec

(* Retried put_writes never duplicate the writes of a task.                *)
THEOREM WritesAreStoredOnce == SaverSpec => []WritesOnce
<1>1. SaverInv => WritesOnce
  BY DEF SaverInv
<1> QED
  BY <1>1, SaverInitially, SaverStep, PTL DEF SaverSpec

(* The order of a thread lists the checkpoints it has records of, once.    *)
THEOREM OrderIsExact == SaverSpec => []OrderExact
<1>1. SaverInv => OrderExact
  BY DEF SaverInv
<1> QED
  BY <1>1, SaverInitially, SaverStep, PTL DEF SaverSpec

-----------------------------------------------------------------------------
(* put makes its checkpoint the newest.                                    *)
LEMMA PutNewest ==
    ASSUME TypeOK, NEW k \in Key, NEW c \in Cid, NEW v \in Val, Put(k, c, v)
    PROVE  order'[k] # <<>> /\ Last(order'[k]) = c
<1>1. \A s \in Seq(Cid) : Append(s, c) # <<>> /\ Last(Append(s, c)) = c
  BY DEF Last
<1>2. PICK s \in Seq(Cid) : s = order[k]
  BY DEF TypeOK
<1>3. \A i \in 1..Len(s) : RemoveAt(s, i) \in Seq(Cid)
  BY RemoveAtElements
<1>4. \E t \in Seq(Cid) : order' = [order EXCEPT ![k] = Append(t, c)]
  <2>1. CASE order' = [order EXCEPT ![k] = Append(@, c)]
    BY <1>2, <2>1
  <2>2. ASSUME NEW i \in 1..Len(order[k]),
               order' = [order EXCEPT ![k] = Append(RemoveAt(@, i), c)]
        PROVE  \E t \in Seq(Cid) : order' = [order EXCEPT ![k] = Append(t, c)]
    BY <1>2, <1>3, <2>2
  <2> QED
    BY <2>1, <2>2 DEF Put
<1>5. PICK t \in Seq(Cid) : order' = [order EXCEPT ![k] = Append(t, c)]
  BY <1>4
<1>6. order'[k] = Append(t, c)
  BY <1>5 DEF TypeOK
<1> QED
  BY <1>1, <1>6

(* The only attempt of an operation that returned is no longer in flight.  *)
LEMMA SpentAttempt ==
    ASSUME SaverTypeOK, AttemptsSpent, NEW a \in flight, phase[a[1]] = "ok"
    PROVE  tries[a[1]] # 1
<1>1. PICK o \in Op, n \in 1..MaxTries : a = <<o, n>>
  BY DEF SaverTypeOK, Attempt
<1>2. a[1] = o /\ a[2] = n
  BY <1>1
<1>3. n <= tries[o] /\ <<o, tries[o]>> \notin flight
  BY <1>2 DEF AttemptsSpent
<1>4. tries[o] = 1 => n = tries[o]
  BY <1>3, SaverAssumption
<1> QED
  BY <1>1, <1>2, <1>3, <1>4

(* Attempts are numbered, handled once and not repeated after the return.  *)
LEMMA AttemptsStep == SaverInv /\ AttemptsSpent /\ [SaverNext]_vars => AttemptsSpent'
<1> SUFFICES ASSUME SaverInv, AttemptsSpent, [SaverNext]_vars PROVE AttemptsSpent'
  OBVIOUS
<1>0. /\ phase \in [Op -> {"new", "calling", "ok", "raised"}]
      /\ tries \in [Op -> 0..MaxTries] /\ MaxTries \in Nat \ {0}
      /\ flight \subseteq Attempt /\ reply \subseteq Attempt
      /\ \A a \in Attempt : a[1] \in Op /\ a[2] \in 1..MaxTries
      /\ \A o \in Op, n \in Nat : <<o, n>>[1] = o /\ <<o, n>>[2] = n
  BY SaverAssumption DEF SaverInv, SaverTypeOK, Attempt
<1>1. /\ \A a \in flight \cup reply : phase[a[1]] # "new" /\ a[2] <= tries[a[1]]
      /\ flight \cap reply = {}
      /\ \A o \in Op : phase[o] = "ok" => <<o, tries[o]>> \notin flight
  BY DEF AttemptsSpent
<1>2. ASSUME NEW o \in Op, Begin(o) PROVE AttemptsSpent'
  <2>1. /\ phase' = [phase EXCEPT ![o] = "calling"]
        /\ tries' = [tries EXCEPT ![o] = 1]
        /\ flight' = flight \cup {<<o, 1>>} /\ reply' = reply
        /\ phase[o] = "new"
    BY <1>2 DEF Begin
  <2>2. \A a \in flight \cup reply : a[1] \in Op /\ a[1] # o /\ a # <<o, 1>>
    BY <1>0, <1>1, <2>1
  <2>3. \A a \in flight' \cup reply' : phase'[a[1]] # "new" /\ a[2] <= tries'[a[1]]
    BY <1>0, <1>1, <2>1, <2>2
  <2>4. \A p \in Op : phase'[p] = "ok" => <<p, tries'[p]>> \notin flight'
    <3> SUFFICES ASSUME NEW p \in Op, phase'[p] = "ok"
                 PROVE  <<p, tries'[p]>> \notin flight'
      OBVIOUS
    <3>1. p # o /\ phase[p] = "ok" /\ tries'[p] = tries[p]
      BY <1>0, <2>1
    <3> QED
      BY <1>1, <2>1, <3>1
  <2> QED
    BY <1>1, <2>1, <2>2, <2>3, <2>4 DEF AttemptsSpent
<1>3. ASSUME NEW a \in flight, Handle(a) PROVE AttemptsSpent'
  BY <1>1, <1>3 DEF Handle, AttemptsSpent
<1>4. ASSUME NEW a, Lose(a) PROVE AttemptsSpent'
  BY <1>1, <1>4 DEF Lose, AttemptsSpent
<1>5. ASSUME NEW o \in Op, Return(o) PROVE AttemptsSpent'
  <2>1. /\ tries' = tries /\ flight' = flight /\ reply' \subseteq reply
        /\ phase[o] = "calling" /\ <<o, tries[o]>> \in reply
        /\ phase' = [phase EXCEPT ![o] = "ok"]
    BY <1>5 DEF Return
  <2>2. \A p \in Op : /\ phase[p] # "new" => phase'[p] # "new"
                      /\ phase'[p] = "ok" => p = o \/ phase[p] = "ok"
    BY <1>0, <2>1
  <2>3. \A a \in flight \cup reply : a[1] \in Op
    BY <1>0
  <2> QED
    BY <1>1, <2>1, <2>2, <2>3 DEF AttemptsSpent
<1>6. ASSUME NEW o \in Op, Fail(o) PROVE AttemptsSpent'
  <2>0. phase[o] = "calling" /\ reply' \subseteq reply
    BY <1>6 DEF Fail, GivenUp
  <2>1. \A a \in flight \cup reply : a[1] \in Op
    BY <1>0
  <2>2. CASE tries[o] < MaxTries
    <3>1. /\ tries' = [tries EXCEPT ![o] = tries[o] + 1] /\ phase' = phase
          /\ flight' \subseteq flight \cup {<<o, tries[o] + 1>>}
      BY <1>0, <1>6, <2>2 DEF Fail, GivenUp
    <3>2. tries[o] \in Nat /\ ~(tries[o] + 1 <= tries[o]) /\ tries[o] + 1 \in Nat
      BY <1>0
    <3>3. <<o, tries[o] + 1>> \notin reply
      BY <1>0, <1>1, <3>2
    <3>4. ASSUME NEW a \in flight' \cup reply'
          PROVE  phase'[a[1]] # "new" /\ a[2] <= tries'[a[1]]
      <4>1. CASE a = <<o, tries[o] + 1>>
        <5>1. a[1] = o /\ a[2] = tries[o] + 1
          BY <4>1
        <5>2. tries'[o] = tries[o] + 1
          BY <1>0, <3>1
        <5> QED
          BY <1>0, <2>0, <3>1, <3>2, <5>1, <5>2
      <4>2. CASE a # <<o, tries[o] + 1>>
        <5>1. a \in flight \cup reply
          BY <2>0, <3>1, <4>2
        <5>2. /\ phase[a[1]] # "new" /\ a[2] <= tries[a[1]] /\ a[1] \in Op
              /\ a[2] \in Nat /\ tries[a[1]] \in Nat
          BY <1>0, <1>1, <5>1
        <5>3. tries'[a[1]] = tries[a[1]] \/ tries'[a[1]] = tries[a[1]] + 1
          BY <1>0, <3>1, <5>2
        <5> QED
          BY <3>1, <5>2, <5>3
      <4> QED
        BY <4>1, <4>2
    <3>5. \A p \in Op : phase'[p] = "ok" => <<p, tries'[p]>> \notin flight'
      <4> SUFFICES ASSUME NEW p \in Op, phase'[p] = "ok"
                   PROVE  <<p, tries'[p]>> \notin flight'
        OBVIOUS
      <4>1. p # o /\ phase[p] = "ok" /\ tries'[p] = tries[p]
        BY <1>0, <2>0, <3>1
      <4> QED
        BY <1>1, <3>1, <4>1
    <3> QED
      BY <1>1, <2>0, <3>1, <3>3, <3>4, <3>5 DEF AttemptsSpent
  <2>3. CASE ~(tries[o] < MaxTries)
    <3>1. /\ tries' = tries /\ phase' = [phase EXCEPT ![o] = "raised"]
          /\ flight' \subseteq flight
      BY <1>6, <2>3 DEF Fail, GivenUp
    <3>2. \A p \in Op : /\ phase[p] # "new" => phase'[p] # "new"
                        /\ phase'[p] = "ok" => phase[p] = "ok"
      BY <1>0, <3>1
    <3> QED
      BY <1>1, <2>0, <2>1, <3>1, <3>2 DEF AttemptsSpent
  <2> QED
    BY <2>2, <2>3
<1>7. CASE Restart
  BY <1>1, <1>7 DEF Restart, AttemptsSpent
<1>8. CASE UNCHANGED vars
  BY <1>1, <1>8 DEF vars, saver, AttemptsSpent
<1> QED
  <2>1. ASSUME NEW a, Handle(a) PROVE a \in flight
    BY <2>1 DEF Handle
  <2> QED
    BY <1>2, <1>3, <1>4, <1>5, <1>6, <1>7, <1>8, <2>1 DEF SaverNext

(* How the phase of a put moves; it is new only until it begins, and while *)
(* it is under way no later put has begun.                                 *)
LEMMA PhaseStep ==
    ASSUME SaverInv, PutsInTurn, [SaverNext]_vars
    PROVE  /\ PutsInTurn'
           /\ \A o \in Op : phase[o] # "new" => phase'[o] # "new"
           /\ \A o \in Op : phase'[o] = "ok" =>
                 phase[o] = "ok" \/ phase[o] = "calling"
           /\ \A o \in Op : phase[o] = "ok" =>
                 phase'[o] = "ok" /\ tries'[o] = tries[o]
<1>0. /\ phase \in [Op -> {"new", "calling", "ok", "raised"}]
      /\ tries \in [Op -> 0..MaxTries]
      /\ \A c \in Cid : PutOf(c) \in Op /\ PutOf(c) \in PutOps /\ PutOf(c).cid = c
  BY OpFacts DEF SaverInv, SaverTypeOK, Op
<1>1. ASSUME NEW o \in Op, Begin(o) \/ Return(o) \/ Fail(o)
      PROVE  /\ PutsInTurn'
             /\ \A p \in Op : phase[p] # "new" => phase'[p] # "new"
             /\ \A p \in Op : phase'[p] = "ok" =>
                   phase[p] = "ok" \/ phase[p] = "calling"
             /\ \A p \in Op : phase[p] = "ok" =>
                   phase'[p] = "ok" /\ tries'[p] = tries[p]
  <2>1. CASE Begin(o)
    <3>1. /\ phase' = [phase EXCEPT ![o] = "calling"] /\ phase[o] = "new"
          /\ tries' = [tries EXCEPT ![o] = 1]
          /\ o \in PutOps => \A c \in Cid : c < o.cid => Ended(PutOf(c))
      BY <2>1 DEF Begin
    <3>2. PutsInTurn'
      <4> SUFFICES ASSUME NEW c \in Cid, NEW d \in Cid,
                          d < c, phase'[PutOf(c)] # "new"
                   PROVE  phase'[PutOf(d)] \in {"ok", "raised"}
        BY DEF PutsInTurn, Ended
      <4>1. phase[PutOf(d)] \in {"ok", "raised"}
        <5>1. CASE PutOf(c) = o
          BY <1>0, <3>1, <5>1 DEF Ended
        <5>2. CASE PutOf(c) # o
          BY <1>0, <3>1, <5>2 DEF PutsInTurn, Ended
        <5> QED
          BY <5>1, <5>2
      <4> QED
        BY <1>0, <3>1, <4>1
    <3> QED
      BY <1>0, <3>1, <3>2
  <2>2. CASE Return(o) \/ Fail(o)
    <3>1. /\ phase[o] = "calling"
          /\ \/ phase' = phase
             \/ phase' = [phase EXCEPT ![o] = "ok"]
             \/ phase' = [phase EXCEPT ![o] = "raised"]
          /\ \/ tries' = tries
             \/ tries' = [tries EXCEPT ![o] = @ + 1]
      BY <2>2 DEF Return, Fail
    <3>2. \A p \in Op : /\ phase[p] # "new" <=> phase'[p] # "new"
                        /\ phase[p] \in {"ok", "raised"} => phase'[p] = phase[p]
                        /\ phase'[p] = "ok" => phase[p] \in {"ok", "calling"}
                        /\ phase[p] = "ok" => tries'[p] = tries[p]
      BY <1>0, <3>1
    <3>3. PutsInTurn'
      BY <1>0, <3>2 DEF PutsInTurn, Ended
    <3> QED
      BY <3>2, <3>3
  <2> QED
    BY <1>1, <2>1, <2>2
<1>2. ASSUME UNCHANGED <<phase, tries>>
      PROVE  /\ PutsInTurn'
             /\ \A o \in Op : phase[o] # "new" => phase'[o] # "new"
             /\ \A o \in Op : phase'[o] = "ok" =>
                   phase[o] = "ok" \/ phase[o] = "calling"
             /\ \A o \in Op : phase[o] = "ok" =>
                   phase'[o] = "ok" /\ tries'[o] = tries[o]
  BY <1>2 DEF PutsInTurn, Ended
<1>3. \/ \E o \in Op : Begin(o) \/ Return(o) \/ Fail(o)
      \/ UNCHANGED <<phase, tries>>
  BY DEF SaverNext, Lose, Handle, Restart, vars, saver
<1> QED
  BY <1>1, <1>2, <1>3

(* What a step can do to the order and the records of the thread.          *)
LEMMA StoreStep ==
    ASSUME SaverInv, [SaverNext]_vars
    PROVE  \/ order'[Here] = order[Here] /\ record'[Here] = record[Here]
           \/ record'[Here] = [c \in Cid |-> None]
           \/ \E a \in flight : /\ a[1] \in PutOps /\ phase' = phase /\ tries' = tries
                                /\ order'[Here] # <<>>
                                /\ Last(order'[Here]) = a[1].cid
                                /\ \A d \in Cid : d # a[1].cid =>
                                      record'[Here][d] = record[Here][d]
<1>1. ASSUME NEW a \in flight, Handle(a), a[1] \in PutOps
      PROVE  /\ phase' = phase /\ tries' = tries
             /\ order'[Here] # <<>> /\ Last(order'[Here]) = a[1].cid
             /\ \A d \in Cid : d # a[1].cid => record'[Here][d] = record[Here][d]
  <2>1. Put(Here, a[1].cid, Blob) /\ phase' = phase /\ tries' = tries
    BY <1>1 DEF Handle
  <2>2. a[1].cid \in Cid /\ Here \in Key /\ Blob \in Val
    BY <1>1, OpFacts, SaverAssumption DEF Op
  <2>3. TypeOK /\ OrderExact
    BY DEF SaverInv, SaverTypeOK
  <2>4. \A d \in Cid : d # a[1].cid => record'[Here][d] = record[Here][d]
    BY <2>1, <2>2, <2>3, PutStep
  <2>5. order'[Here] # <<>> /\ Last(order'[Here]) = a[1].cid
    BY <2>1, <2>2, <2>3, PutNewest
  <2> QED
    BY <2>1, <2>4, <2>5
<1>2. ASSUME NEW a \in flight, Handle(a), a[1] \notin PutOps
      PROVE  order' = order /\ record' = record
  BY <1>2 DEF Handle, PutWrites
<1>3. CASE Restart
  <2>1. Here \in Key
    BY OpFacts
  <2> QED
    BY <1>3, <2>1 DEF Restart, NoRecords, store
<1>4. \/ order' = order /\ record' = record
      \/ Restart
      \/ \E a \in flight : Handle(a)
  BY DEF SaverNext, Begin, Return, Fail, Lose, Handle, vars, store
<1> QED
  BY <1>1, <1>2, <1>3, <1>4

(* The newest checkpoint stays the last one put, until the next put begins *)
LEMMA LatestStep == SaverInv /\ LatestInv /\ [SaverNext]_vars => LatestInv'
<1> SUFFICES ASSUME SaverInv, LatestInv, [SaverNext]_vars PROVE LatestInv'
  OBVIOUS
<1>0. /\ SaverTypeOK /\ AttemptsSpent /\ PutsInTurn /\ RecordBegun /\ NewestLast
      /\ \A c \in Cid : PutOf(c) \in Op /\ PutOf(c).cid = c
      /\ \A a \in flight : a[1] \in PutOps => a[1].cid \in Cid /\ a[1] = PutOf(a[1].cid)
  BY OpFacts DEF SaverInv, LatestInv, Op
<1>1. AttemptsSpent'
  BY <1>0, AttemptsStep
<1>2. /\ PutsInTurn'
      /\ \A o \in Op : phase[o] # "new" => phase'[o] # "new"
      /\ \A o \in Op : phase'[o] = "ok" => phase[o] = "ok" \/ phase[o] = "calling"
      /\ \A o \in Op : phase[o] = "ok" => phase'[o] = "ok" /\ tries'[o] = tries[o]
  BY <1>0, PhaseStep
<1>3. \A a \in flight : phase[a[1]] # "new"
  BY <1>0 DEF AttemptsSpent
<1>4. CASE record'[Here] = [c \in Cid |-> None]
  <2>1. RecordBegun' /\ NewestLast'
    BY <1>4 DEF RecordBegun, NewestLast, Here
  <2> QED
    BY <1>1, <1>2, <2>1 DEF LatestInv
<1>5. \A c \in Cid : Settled(c)' /\ phase[PutOf(c)] # "new" => Settled(c)
  <2> SUFFICES ASSUME NEW c \in Cid, Settled(c)', phase[PutOf(c)] # "new",
                      NEW d \in Cid, d < c
               PROVE  phase[PutOf(d)] = "ok" /\ tries[PutOf(d)] = 1
    BY DEF Settled
  <2>1. phase'[PutOf(d)] = "ok" /\ tries'[PutOf(d)] = 1
    BY DEF Settled
  <2>2. phase[PutOf(d)] \in {"ok", "raised"}
    BY <1>0 DEF PutsInTurn, Ended
  <2>3. phase[PutOf(d)] = "ok"
    BY <1>0, <1>2, <2>1, <2>2
  <2> QED
    BY <1>0, <1>2, <2>1, <2>3
<1>6. CASE order'[Here] = order[Here] /\ record'[Here] = record[Here]
  <2>1. RecordBegun'
    BY <1>0, <1>2, <1>6 DEF RecordBegun, Here
  <2>2. NewestLast'
    <3> SUFFICES ASSUME NEW c \in Cid, Settled(c)', record[Here][c] # None,
                        \A d \in Cid : d > c => phase'[PutOf(d)] = "new"
                 PROVE  order[Here] # <<>> /\ Last(order[Here]) = c
      BY <1>6 DEF NewestLast, Here
    <3>1. phase[PutOf(c)] # "new"
      BY <1>0 DEF RecordBegun
    <3>2. Settled(c)
      BY <1>5, <3>1
    <3>3. \A d \in Cid : d > c => phase[PutOf(d)] = "new"
      BY <1>0, <1>2
    <3> QED
      BY <1>0, <3>2, <3>3 DEF NewestLast
  <2> QED
    BY <1>1, <1>2, <2>1, <2>2 DEF LatestInv
<1>7. ASSUME NEW a \in flight, a[1] \in PutOps, phase' = phase, tries' = tries,
             order'[Here] # <<>>, Last(order'[Here]) = a[1].cid,
             \A d \in Cid : d # a[1].cid => record'[Here][d] = record[Here][d]
      PROVE  LatestInv'
  <2>1. PICK e \in Cid : e = a[1].cid /\ a[1] = PutOf(e)
    BY <1>0, <1>7
  <2>2. phase[PutOf(e)] # "new"
    BY <1>3, <2>1
  <2>3. RecordBegun'
    BY <1>0, <1>7, <2>1, <2>2 DEF RecordBegun, Here
  <2>4. NewestLast'
    <3> SUFFICES ASSUME NEW c \in Cid, Settled(c)',
                        \A d \in Cid : d > c => phase'[PutOf(d)] = "new"
                 PROVE  c = e
      BY <1>7, <2>1 DEF NewestLast, Here
    <3>1. ~(e > c)
      BY <1>7, <2>2
    <3>2. ~(e < c)
      <4> SUFFICES ASSUME e < c PROVE FALSE
        OBVIOUS
      <4>1. phase[PutOf(e)] = "ok" /\ tries[PutOf(e)] = 1
        BY <1>7 DEF Settled
      <4> QED
        BY <1>0, <2>1, <4>1, SpentAttempt
    <3>3. c \in Nat /\ e \in Nat
      BY SaverAssumption
    <3> QED
      BY <3>1, <3>2, <3>3
  <2> QED
    BY <1>1, <1>2, <2>3, <2>4 DEF LatestInv
<1> QED
  BY <1>4, <1>6, <1>7, StoreStep

LEMMA LatestInitially == SaverInit => LatestInv
<1> SUFFICES ASSUME SaverInit PROVE LatestInv
  OBVIOUS
<1>1. \A c \in Cid : phase[PutOf(c)] = "new" /\ record[Here][c] = None
  BY OpFacts DEF SaverInit, Init, NoRecords, Op
<1>2. AttemptsSpent
  BY DEF SaverInit, AttemptsSpent
<1> QED
  BY <1>1, <1>2 DEF LatestInv, PutsInTurn, RecordBegun, NewestLast

(* Read with a durable store, the invariant is what a resumed graph needs. *)
LEMMA LatestIsReturned == SaverInv /\ LatestInv => LatestUnlessRetried
<1> SUFFICES ASSUME SaverInv, LatestInv, Durable, NEW c \in Cid,
                    \A d \in Cid : phase[PutOf(d)] = IF d <= c THEN "ok" ELSE "new",
                    \A d \in Cid : d < c => tries[PutOf(d)] = 1
             PROVE  GetTuple(Here, None).cid = c
  BY DEF LatestUnlessRetried
<1>1. /\ \A d \in Cid : d \in Nat
      /\ \A x, y \in Nat : /\ x <= x
                           /\ x < y => x <= y
                           /\ x > y => ~(x <= y)
  BY SaverAssumption
<1>2. Settled(c) /\ phase[PutOf(c)] = "ok" /\ \A d \in Cid : d > c => phase[PutOf(d)] = "new"
  BY <1>1 DEF Settled
<1>3. record[Here][c] = Blob /\ Blob # None /\ c # None
  BY <1>2, OpFacts, SaverAssumption, NoneAssumption
  DEF SaverInv, AckedStored, Stored, Op
<1>4. order[Here] # <<>> /\ Last(order[Here]) = c
  BY <1>2, <1>3 DEF LatestInv, NewestLast
<1> QED
  BY <1>3, <1>4 DEF GetTuple

(* A graph resumed from a durable store starts from the last checkpoint    *)
(* whose put returned, unless an earlier put was retried.                  *)
THEOREM LatestIsLast == SaverSpec => []LatestUnlessRetried
<1>1. SaverInit => SaverInv /\ LatestInv
  BY SaverInitially, LatestInitially
<1>2. SaverInv /\ LatestInv /\ [SaverNext]_vars => (SaverInv /\ LatestInv)'
  BY SaverStep, LatestStep
<1> QED
  BY <1>1, <1>2, LatestIsReturned, PTL DEF SaverSpec

-----------------------------------------------------------------------------
(* Rows in the order of their numbers *)

(* A set of natural numbers that is not empty has a least member.          *)
LEMMA LeastNat ==
    ASSUME NEW T, T \subseteq Nat, T # {}
    PROVE  \E x \in T : \A y \in T : x <= y
<1>1. PICK x \in T : \A y \in T : ~(<<y, x>> \in OpToRel(<, Nat))
  BY NatLessThanWellFounded, WFMin
<1>2. \A y \in T : ~(y < x)
  BY <1>1 DEF OpToRel
<1> QED
  BY <1>2

(* Rows numbered from 1 to n, no number twice.                             *)
Numbered(R, n) ==
    /\ n \in Nat
    /\ \A r \in R : r.seq \in 1..n
    /\ \A q, r \in R : q.seq = r.seq => q = r

(* s lists the rows of R in the order of their numbers.                    *)
Lists(s, R) ==
    /\ s \in Seq(R)
    /\ \A r \in R : \E i \in 1..Len(s) : s[i] = r
    /\ \A i, j \in 1..Len(s) : i < j => s[i].seq < s[j].seq

(* A row with a number above all the others is listed last.                *)
LEMMA ListsAppend ==
    ASSUME NEW R, NEW s, NEW new, Lists(s, R), new.seq \in Nat,
           \A r \in R : r.seq \in Nat /\ r.seq < new.seq
    PROVE  Lists(Append(s, new), R \cup {new})
<1>1. PICK T : T = R \cup {new}
  OBVIOUS
<1>2. PICK u : u = Append(s, new)
  OBVIOUS
<1>3. s \in Seq(R) /\ s \in Seq(T) /\ new \in T /\ Len(s) \in Nat
  BY <1>1 DEF Lists
<1>4. /\ u \in Seq(T) /\ Len(u) = Len(s) + 1 /\ u[Len(s) + 1] = new
      /\ \A i \in 1..Len(s) : u[i] = s[i]
  BY <1>2, <1>3
<1>5. ASSUME NEW r \in T
      PROVE  \E i \in 1..Len(u) : u[i] = r
  <2>1. CASE r = new
    BY <1>3, <1>4, <2>1
  <2>2. CASE r \in R
    BY <1>3, <1>4, <2>2 DEF Lists
  <2> QED
    BY <1>1, <2>1, <2>2
<1>6. ASSUME NEW i \in 1..Len(u), NEW j \in 1..Len(u), i < j
      PROVE  u[i].seq < u[j].seq
  <2>1. i \in 1..Len(s) /\ u[i] = s[i] /\ s[i] \in R
    BY <1>3, <1>4, <1>6
  <2>2. CASE j = Len(s) + 1
    BY <1>4, <2>1, <2>2
  <2>3. CASE j # Len(s) + 1
    <3>1. j \in 1..Len(s) /\ u[j] = s[j]
      BY <1>3, <1>4, <2>3
    <3> QED
      BY <1>6, <2>1, <3>1 DEF Lists
  <2> QED
    BY <2>2, <2>3
<1> QED
  BY <1>1, <1>2, <1>4, <1>5, <1>6 DEF Lists

(* Numbered rows can be listed: induction on the last number.              *)
LEMMA ListsExist ==
    ASSUME NEW R, NEW n, Numbered(R, n)
    PROVE  \E s : Lists(s, R)
<1> DEFINE Below(m) == {r \in R : r.seq <= m}
           Bad == {m \in Nat : ~ \E s : Lists(s, Below(m))}
<1>1. Bad = {}
  <2> SUFFICES ASSUME Bad # {} PROVE FALSE
    OBVIOUS
  <2>1. PICK m \in Bad : \A y \in Bad : m <= y
    BY LeastNat
  <2>2. m \in Nat /\ ~ \E s : Lists(s, Below(m))
    BY <2>1
  <2>3. CASE m = 0
    <3>1. Below(m) = {}
      BY <2>3 DEF Numbered
    <3>2. Lists(<<>>, {})
      BY DEF Lists
    <3> QED
      BY <2>2, <3>1, <3>2
  <2>4. CASE m # 0
    <3>1. m - 1 \in Nat /\ ~(m <= m - 1)
      BY <2>2, <2>4
    <3>5. m - 1 \notin Bad
      <4> HIDE DEF Bad
      <4> QED
        BY <2>1, <3>1
    <3>2. PICK s : Lists(s, Below(m - 1))
      BY <3>1, <3>5
    <3>3. CASE \E r \in R : r.seq = m
      <4>1. PICK r \in R : r.seq = m
        BY <3>3
      <4>2. Below(m) = Below(m - 1) \cup {r}
        BY <2>2, <4>1 DEF Numbered
      <4>3. r.seq \in Nat /\ \A q \in Below(m - 1) : q.seq \in Nat /\ q.seq < r.seq
        BY <2>2, <4>1 DEF Numbered
      <4> HIDE DEF Below
      <4>4. Lists(Append(s, r), Below(m - 1) \cup {r})
        BY <3>2, <4>3, ListsAppend
      <4> QED
        BY <2>2, <4>2, <4>4
    <3>4. CASE ~ \E r \in R : r.seq = m
      <4>1. Below(m) = Below(m - 1)
        BY <2>2, <3>4 DEF Numbered
      <4> QED
        BY <2>2, <3>2, <4>1
    <3> QED
      BY <3>3, <3>4
  <2> QED
    BY <2>3, <2>4
<1>2. Below(n) = R /\ n \in Nat
  BY DEF Numbered
<1> QED
  BY <1>1, <1>2

(* Two lists of the same rows agree as far as the first one goes.          *)
LEMMA ListsPrefix ==
    ASSUME NEW R, NEW n, Numbered(R, n), NEW s, Lists(s, R), NEW u, Lists(u, R)
    PROVE  \A i \in 1..Len(s) : i <= Len(u) /\ s[i] = u[i]
<1> DEFINE D == {i \in 1..Len(s) : ~(i <= Len(u) /\ s[i] = u[i])}
<1>1. /\ s \in Seq(R) /\ Len(s) \in Nat /\ u \in Seq(R) /\ Len(u) \in Nat
      /\ \A i \in 1..Len(s) : s[i] \in R
      /\ \A i \in 1..Len(u) : u[i] \in R
  BY DEF Lists
<1>2. /\ \A r \in R : \E i \in 1..Len(s) : s[i] = r
      /\ \A r \in R : \E i \in 1..Len(u) : u[i] = r
      /\ \A i, j \in 1..Len(s) : i < j => s[i].seq < s[j].seq
      /\ \A i, j \in 1..Len(u) : i < j => u[i].seq < u[j].seq
      /\ \A r \in R : r.seq \in Int
  <2>1. \A r \in R : r.seq \in Int
    BY DEF Numbered
  <2> QED
    BY <2>1 DEF Lists
<1>3. SUFFICES ASSUME D # {} PROVE FALSE
  OBVIOUS
<1>4. D \subseteq Nat
  OBVIOUS
<1>5. PICK i \in D : \A y \in D : i <= y
  <2> HIDE DEF D
  <2> QED
    BY <1>3, <1>4, LeastNat
<1>6. i \in 1..Len(s) /\ ~(i <= Len(u) /\ s[i] = u[i])
  BY <1>5
<1>7. \A k \in 1..Len(s) : k < i => k <= Len(u) /\ s[k] = u[k]
  BY <1>1, <1>5
<1>8. PICK j \in 1..Len(u) : u[j] = s[i]
  BY <1>1, <1>2, <1>6
<1>9. j > i
  <2>1. j # i
    BY <1>1, <1>6, <1>8
  <2>2. ~(j < i)
    <3> SUFFICES ASSUME j < i PROVE FALSE
      OBVIOUS
    <3>1. j \in 1..Len(s) /\ s[j] = u[j]
      BY <1>1, <1>6, <1>7
    <3>2. s[j].seq < s[i].seq /\ s[j] = s[i] /\ s[i].seq \in Int
      BY <1>1, <1>2, <1>6, <1>8, <3>1
    <3> QED
      BY <3>2
  <2> QED
    BY <1>1, <1>6, <2>1, <2>2
<1>10. i \in 1..Len(u) /\ u[i].seq < s[i].seq
  <2>1. i \in 1..Len(u) /\ i < j
    BY <1>1, <1>6, <1>9
  <2>2. u[i].seq < u[j].seq
    BY <1>2, <2>1
  <2> QED
    BY <1>8, <2>1, <2>2
<1>11. PICK k \in 1..Len(s) : s[k] = u[i]
  BY <1>1, <1>2, <1>10
<1>12. s[i].seq \in Int /\ s[k].seq \in Int
  BY <1>1, <1>2, <1>6
<1>13. k < i
  <2>1. s[k].seq < s[i].seq
    BY <1>10, <1>11
  <2>2. ~(i < k)
    <3> SUFFICES ASSUME i < k PROVE FALSE
      OBVIOUS
    <3>1. s[i].seq < s[k].seq
      BY <1>2, <1>6
    <3> QED
      BY <1>12, <2>1, <3>1
  <2>3. i # k
    BY <1>12, <2>1
  <2> QED
    BY <1>1, <1>6, <2>2, <2>3
<1>14. k \in 1..Len(u) /\ u[k] = s[k]
  BY <1>1, <1>6, <1>7, <1>13
<1>15. u[k].seq < u[i].seq
  BY <1>2, <1>10, <1>13, <1>14
<1> QED
  BY <1>11, <1>12, <1>14, <1>15

(* Numbered rows have one list.                                            *)
LEMMA ListsUnique ==
    ASSUME NEW R, NEW n, Numbered(R, n), NEW s, Lists(s, R), NEW u, Lists(u, R)
    PROVE  s = u
<1>1. \A i \in 1..Len(s) : i <= Len(u) /\ s[i] = u[i]
  BY ListsPrefix
<1>2. \A i \in 1..Len(u) : i <= Len(s) /\ u[i] = s[i]
  BY ListsPrefix
<1>3. s \in Seq(R) /\ u \in Seq(R) /\ Len(s) \in Nat /\ Len(u) \in Nat
  BY DEF Lists
<1>4. Len(s) = Len(u)
  BY <1>1, <1>2, <1>3
<1> QED
  BY <1>1, <1>3, <1>4, SeqEqual

(* ORDER BY seq: the query returns the list of the rows.                   *)
LEMMA BySeqLists ==
    ASSUME NEW R, NEW n, Numbered(R, n)
    PROVE  Lists(BySeq(R), R)
<1> DEFINE N == Cardinality(R)
           Asc(s) == \A i, j \in DOMAIN s : i < j => s[i].seq < s[j].seq
<1>1. PICK s : Lists(s, R)
  BY ListsExist
<1>2. /\ s \in Seq(R) /\ Len(s) \in Nat /\ s \in [1..Len(s) -> R] /\ DOMAIN s = 1..Len(s)
      /\ \A r \in R : \E i \in 1..Len(s) : s[i] = r
      /\ \A i, j \in 1..Len(s) : i < j => s[i].seq < s[j].seq
      /\ \A r \in R : r.seq \in Int
  BY <1>1 DEF Lists, Numbered
<1>3. s \in Bijection(1..Len(s), R)
  <2>1. \A i, j \in 1..Len(s) : s[i] = s[j] => i = j
    <3> SUFFICES ASSUME NEW i \in 1..Len(s), NEW j \in 1..Len(s), i < j, s[i] = s[j] PROVE FALSE
      BY <1>2
    <3>1. s[i].seq < s[j].seq /\ s[i] \in R /\ s[i].seq \in Int
      BY <1>2
    <3> QED
      BY <3>1
  <2> QED
    BY <1>2, <2>1 DEF Bijection, Injection, Surjection, IsInjective
<1>4. ExistsBijection(1..Len(s), R)
  BY <1>3 DEF ExistsBijection
<1>5. N = Len(s) /\ N \in Nat
  BY <1>2, <1>4, FS_CountingElements
<1>6. s \in [1..N -> R] /\ Asc(s)
  BY <1>2, <1>5
<1>7. PICK u : u = BySeq(R)
  OBVIOUS
<1>8. u \in [1..N -> R] /\ Asc(u)
  BY <1>6, <1>7 DEF BySeq
<1>9. u \in Injection(1..N, R)
  <2>1. \A i, j \in 1..N : u[i] = u[j] => i = j
    <3> SUFFICES ASSUME NEW i \in 1..N, NEW j \in 1..N, i < j, u[i] = u[j] PROVE FALSE
      BY <1>5
    <3>1. u[i].seq < u[j].seq /\ u[i] \in R /\ u[i].seq \in Int
      BY <1>2, <1>8
    <3> QED
      BY <3>1
  <2> QED
    BY <1>8, <2>1 DEF Injection, IsInjective
<1>10. IsFiniteSet(R)
  BY <1>2, <1>4, FS_NatBijection
<1>11. IsFiniteSet(1..N) /\ Cardinality(1..N) = N
  <2> HIDE DEF N
  <2>1. 1 \in Int /\ N \in Int /\ N >= 0
    BY <1>5
  <2>2. IsFiniteSet(1..N) /\ Cardinality(1..N) = IF 1 > N THEN 0 ELSE N - 1 + 1
    BY <2>1, FS_Interval
  <2> QED
    BY <2>1, <2>2
<1>12. u \in Surjection(1..N, R)
  <2> HIDE DEF N
  <2>1. Cardinality(1..N) = Cardinality(R)
    BY <1>11 DEF N
  <2> QED
    BY <1>9, <1>10, <2>1, FS_Injection
<1>13. u \in Seq(R) /\ Len(u) = N
  BY <1>5, <1>8
<1>14. \A r \in R : \E i \in 1..N : u[i] = r
  BY <1>12 DEF Surjection
<1>15. \A i, j \in 1..N : i < j => u[i].seq < u[j].seq
  BY <1>8
<1> QED
  BY <1>7, <1>13, <1>14, <1>15 DEF Lists

(* The list of numbered rows is what the query returns.                    *)
LEMMA BySeqIs ==
    ASSUME NEW R, NEW n, Numbered(R, n), NEW s, Lists(s, R)
    PROVE  BySeq(R) = s
<1>1. Lists(BySeq(R), R)
  BY BySeqLists
<1>2. PICK u : u = BySeq(R)
  OBVIOUS
<1>3. u = s
  BY <1>1, <1>2, ListsUnique
<1> QED
  BY <1>2, <1>3

(* Fewer rows are numbered too.                                            *)
LEMMA NumberedSubset ==
    ASSUME NEW R, NEW n, Numbered(R, n), NEW T, T \subseteq R
    PROVE  Numbered(T, n)
  BY DEF Numbered

(* INSERT: the new row is last in the order of the query.                  *)
LEMMA BySeqInsert ==
    ASSUME NEW R, NEW n, Numbered(R, n), NEW new, new.seq = n + 1
    PROVE  /\ Numbered(R \cup {new}, n + 1)
           /\ BySeq(R \cup {new}) = Append(BySeq(R), new)
<1>1. n \in Nat /\ n + 1 \in Nat /\ new.seq \in Nat
  BY DEF Numbered
<1>2. \A r \in R : r.seq \in Nat /\ r.seq < new.seq
  BY DEF Numbered
<1>3. Numbered(R \cup {new}, n + 1)
  <2>1. \A r \in R \cup {new} : r.seq \in 1..(n + 1)
    BY <1>1 DEF Numbered
  <2>2. \A q, r \in R \cup {new} : q.seq = r.seq => q = r
    <3> SUFFICES ASSUME NEW q \in R \cup {new}, NEW r \in R \cup {new}, q.seq = r.seq
                 PROVE  q = r
      OBVIOUS
    <3>1. CASE q \in R /\ r \in R
      BY <3>1 DEF Numbered
    <3>2. CASE q = new /\ r \in R
      BY <1>1, <1>2, <3>2
    <3>3. CASE q \in R /\ r = new
      BY <1>1, <1>2, <3>3
    <3> QED
      BY <3>1, <3>2, <3>3
  <2> QED
    BY <1>1, <2>1, <2>2 DEF Numbered
<1>4. Lists(BySeq(R), R)
  BY BySeqLists
<1>5. PICK s : s = BySeq(R)
  OBVIOUS
<1>6. Lists(Append(s, new), R \cup {new})
  BY <1>1, <1>2, <1>4, <1>5, ListsAppend
<1>7. PICK u : u = Append(s, new)
  OBVIOUS
<1>8. PICK T : T = R \cup {new}
  OBVIOUS
<1>9. Numbered(T, n + 1) /\ Lists(u, T)
  BY <1>3, <1>6, <1>7, <1>8
<1>10. BySeq(T) = u
  BY <1>9, BySeqIs
<1> QED
  BY <1>3, <1>5, <1>7, <1>8, <1>10

(* DELETE: the other rows keep their order.                                *)
LEMMA BySeqDelete ==
    ASSUME NEW R, NEW n, Numbered(R, n), NEW s, s = BySeq(R), NEW i \in 1..Len(s)
    PROVE  BySeq(R \ {s[i]}) = RemoveAt(s, i)
<1>1. Lists(s, R)
  BY BySeqLists
<1>2. /\ s \in Seq(R) /\ Len(s) \in Nat /\ s[i] \in R
      /\ \A r \in R : \E j \in 1..Len(s) : s[j] = r
      /\ \A j, k \in 1..Len(s) : j < k => s[j].seq < s[k].seq
  BY <1>1 DEF Lists
<1>3. \A r \in R : r.seq \in Int
  BY DEF Numbered
<1>4. PICK T : T = R \ {s[i]}
  OBVIOUS
<1>5. PICK u : u = RemoveAt(s, i)
  OBVIOUS
<1>6. /\ u \in Seq(R) /\ Len(u) = Len(s) - 1
      /\ \A j \in 1..(Len(s) - 1) : u[j] = IF j < i THEN s[j] ELSE s[j + 1]
  <2>1. s \in Seq(R)
    BY <1>2
  <2> QED
    BY <1>5, <2>1, RemoveAtElements
<1>7. \A j \in 1..Len(s) : j # i => s[j] # s[i]
  <2> SUFFICES ASSUME NEW j \in 1..Len(s), j # i, s[j] = s[i] PROVE FALSE
    OBVIOUS
  <2>1. s[j].seq < s[i].seq \/ s[i].seq < s[j].seq
    BY <1>2
  <2> QED
    BY <1>2, <1>3, <2>1
<1>8. ASSUME NEW j \in 1..Len(u)
      PROVE  /\ j \in 1..(Len(s) - 1)
             /\ j < i => u[j] = s[j] /\ j \in 1..Len(s) /\ j # i
             /\ ~(j < i) => u[j] = s[j + 1] /\ j + 1 \in 1..Len(s) /\ j + 1 # i
  BY <1>2, <1>6
<1>9. ASSUME NEW j \in 1..Len(u)
      PROVE  u[j] \in T
  <2>1. \A m \in 1..Len(s) : m # i => s[m] \in T
    BY <1>2, <1>4, <1>7
  <2>2. CASE j < i
    BY <1>8, <2>1, <2>2
  <2>3. CASE ~(j < i)
    BY <1>8, <2>1, <2>3
  <2> QED
    BY <2>2, <2>3
<1>10. u \in Seq(T)
  <2>1. u = [j \in 1..Len(u) |-> u[j]] /\ Len(u) \in Nat
    BY <1>6
  <2> QED
    BY <1>9, <2>1
<1>11. ASSUME NEW r \in T
       PROVE  \E j \in 1..Len(u) : u[j] = r
  <2>1. PICK j \in 1..Len(s) : s[j] = r
    BY <1>2, <1>4
  <2>2. j # i
    BY <1>4, <2>1
  <2>3. CASE j < i
    <3>1. j \in 1..(Len(s) - 1)
      BY <1>2, <2>3
    <3> QED
      BY <1>6, <2>1, <2>3, <3>1
  <2>4. CASE j > i
    <3>1. j - 1 \in 1..(Len(s) - 1) /\ ~(j - 1 < i) /\ (j - 1) + 1 = j
      BY <1>2, <2>4
    <3> QED
      BY <1>6, <2>1, <3>1
  <2> QED
    BY <2>2, <2>3, <2>4
<1>12. ASSUME NEW j \in 1..Len(u), NEW k \in 1..Len(u), j < k
       PROVE  u[j].seq < u[k].seq
  <2>1. CASE k < i
    <3>1. j < i
      BY <1>2, <1>6, <1>12, <2>1
    <3>2. u[j] = s[j] /\ u[k] = s[k] /\ j \in 1..Len(s) /\ k \in 1..Len(s)
      BY <1>8, <2>1, <3>1
    <3> QED
      BY <1>2, <1>12, <3>2
  <2>2. CASE ~(k < i) /\ j < i
    <3>1. u[j] = s[j] /\ u[k] = s[k + 1] /\ j < k + 1 /\ j \in 1..Len(s) /\ k + 1 \in 1..Len(s)
      BY <1>8, <1>12, <2>2
    <3> QED
      BY <1>2, <3>1
  <2>3. CASE ~(k < i) /\ ~(j < i)
    <3>1. /\ u[j] = s[j + 1] /\ u[k] = s[k + 1] /\ j + 1 < k + 1
          /\ j + 1 \in 1..Len(s) /\ k + 1 \in 1..Len(s)
      BY <1>8, <1>12, <2>3
    <3> QED
      BY <1>2, <3>1
  <2> QED
    BY <1>2, <1>6, <1>12, <2>1, <2>2, <2>3
<1>13. Lists(u, T)
  BY <1>10, <1>11, <1>12 DEF Lists
<1>14. Numbered(T, n)
  BY <1>4, NumberedSubset
<1> QED
  BY <1>4, <1>5, <1>13, <1>14, BySeqIs

(* seq < ?: the rows with a number below that of the i-th are those before *)
(* it.                                                                     *)
LEMMA BySeqBelow ==
    ASSUME NEW R, NEW n, Numbered(R, n), NEW s, s = BySeq(R), NEW i \in 1..Len(s)
    PROVE  BySeq({r \in R : r.seq < s[i].seq}) = SubSeq(s, 1, i - 1)
<1>1. Lists(s, R)
  BY BySeqLists
<1>2. /\ s \in Seq(R) /\ Len(s) \in Nat /\ s[i] \in R
      /\ \A r \in R : \E j \in 1..Len(s) : s[j] = r
      /\ \A j, k \in 1..Len(s) : j < k => s[j].seq < s[k].seq
  BY <1>1 DEF Lists
<1>3. \A r \in R : r.seq \in Int
  BY DEF Numbered
<1>4. PICK T : T = {r \in R : r.seq < s[i].seq}
  OBVIOUS
<1>5. PICK u : u = SubSeq(s, 1, i - 1)
  OBVIOUS
<1>6. /\ u \in Seq(R) /\ Len(u) = i - 1
      /\ \A j \in 1..(i - 1) : u[j] = s[j] /\ j \in 1..Len(s) /\ j < i
  BY <1>2, <1>5
<1>7. ASSUME NEW j \in 1..Len(u)
      PROVE  u[j] \in T
  <2>1. u[j] = s[j] /\ j \in 1..Len(s) /\ j < i
    BY <1>6
  <2>2. s[j].seq < s[i].seq /\ s[j] \in R
    BY <1>2, <2>1
  <2> QED
    BY <1>4, <2>1, <2>2
<1>8. u \in Seq(T)
  <2>1. u = [j \in 1..Len(u) |-> u[j]] /\ Len(u) \in Nat
    BY <1>6
  <2> QED
    BY <1>7, <2>1
<1>9. ASSUME NEW r \in T
      PROVE  \E j \in 1..Len(u) : u[j] = r
  <2>1. r \in R /\ r.seq < s[i].seq
    BY <1>4
  <2>2. PICK j \in 1..Len(s) : s[j] = r
    BY <1>2, <2>1
  <2>3. j < i
    <3>1. j # i
      BY <1>2, <1>3, <2>1, <2>2
    <3>2. ~(i < j)
      <4> SUFFICES ASSUME i < j PROVE FALSE
        OBVIOUS
      <4>1. s[i].seq < r.seq
        BY <1>2, <2>2
      <4> QED
        BY <1>2, <1>3, <2>1, <4>1
    <3> QED
      BY <1>2, <3>1, <3>2
  <2>4. j \in 1..(i - 1)
    BY <1>2, <2>3
  <2> QED
    BY <1>6, <2>2, <2>4
<1>10. \A j, k \in 1..Len(u) : j < k => u[j].seq < u[k].seq
  BY <1>2, <1>6
<1>11. Lists(u, T)
  BY <1>8, <1>9, <1>10 DEF Lists
<1>12. Numbered(T, n)
  BY <1>4, NumberedSubset
<1> QED
  BY <1>4, <1>5, <1>11, <1>12, BySeqIs

-----------------------------------------------------------------------------
(* The SQLite store *)

Rows  == [seq : Nat, key : Key, cid : Cid, val : Val]
WRows == [seq : Nat, key : Key, cid : Cid, task : Task, val : Val]

(* The rows are numbered up to the counter of their table, and its UNIQUE  *)
(* constraint holds.                                                       *)
SqlInv ==
    /\ checkpoints \subseteq Rows
    /\ taskWrites \subseteq WRows
    /\ Numbered(checkpoints, seq)
    /\ Numbered(taskWrites, wseq)
    /\ \A q, r \in checkpoints : q.key = r.key /\ q.cid = r.cid => q = r
    /\ \A q, r \in taskWrites :
          q.key = r.key /\ q.cid = r.cid /\ q.task = r.task => q = r

(* Empty tables have the invariant.                                        *)
LEMMA SqlInitial == SqlInit => SqlInv
  BY DEF SqlInit, SqlInv, Numbered, Rows, WRows

(* INSERT OR REPLACE keeps the rows numbered and (key, cid) unique.        *)
LEMMA SqlPutKeeps ==
    ASSUME SqlInv, NEW k \in Key, NEW c \in Cid, NEW v \in Val, SqlPut(k, c, v)
    PROVE  SqlInv'
<1> DEFINE new == [seq |-> seq + 1, key |-> k, cid |-> c, val |-> v]
           old == {r \in checkpoints : r.key # k \/ r.cid # c}
<1>1. /\ checkpoints' = old \cup {new} /\ seq' = seq + 1
      /\ taskWrites' = taskWrites /\ wseq' = wseq
  BY DEF SqlPut
<1>2. /\ new.seq = seq + 1 /\ new.key = k /\ new.cid = c /\ new \in Rows
  BY DEF SqlInv, Numbered, Rows
<1>3. Numbered(old, seq)
  BY NumberedSubset DEF SqlInv
<1>4. PICK T : T = old
  OBVIOUS
<1>5. Numbered(T \cup {new}, seq + 1)
  <2> HIDE DEF new, old
  <2> QED
    BY <1>2, <1>3, <1>4, BySeqInsert
<1>6. \A q, r \in checkpoints' : q.key = r.key /\ q.cid = r.cid => q = r
  <2> HIDE DEF new
  <2> QED
    BY <1>1, <1>2 DEF SqlInv
<1>7. checkpoints' \subseteq Rows
  <2> HIDE DEF new
  <2> QED
    BY <1>1, <1>2 DEF SqlInv
<1> HIDE DEF new, old
<1> QED
  BY <1>1, <1>4, <1>5, <1>6, <1>7 DEF SqlInv

(* INSERT OR IGNORE keeps the rows numbered and (key, cid, task) unique.   *)
LEMMA SqlPutWritesKeeps ==
    ASSUME SqlInv, NEW k \in Key, NEW c \in Cid, NEW t \in Task, NEW v \in Val,
           SqlPutWrites(k, c, t, v)
    PROVE  SqlInv'
<1> DEFINE new == [seq |-> wseq + 1, key |-> k, cid |-> c, task |-> t, val |-> v]
<1>1. CASE \E r \in taskWrites : r.key = k /\ r.cid = c /\ r.task = t
  BY <1>1 DEF SqlInv, SqlPutWrites
<1>2. CASE ~ \E r \in taskWrites : r.key = k /\ r.cid = c /\ r.task = t
  <2>1. /\ taskWrites' = taskWrites \cup {new} /\ wseq' = wseq + 1
        /\ checkpoints' = checkpoints /\ seq' = seq
    BY <1>2 DEF SqlPutWrites
  <2>2. /\ new.seq = wseq + 1 /\ new.key = k /\ new.cid = c /\ new.task = t /\ new \in WRows
    BY DEF SqlInv, Numbered, WRows
  <2> HIDE DEF new
  <2>3. Numbered(taskWrites \cup {new}, wseq + 1)
    BY <2>2, BySeqInsert DEF SqlInv
  <2>4. \A q, r \in taskWrites' :
           q.key = r.key /\ q.cid = r.cid /\ q.task = r.task => q = r
    BY <1>2, <2>1, <2>2 DEF SqlInv
  <2>5. taskWrites' \subseteq WRows
    BY <2>1, <2>2 DEF SqlInv
  <2> QED
    BY <2>1, <2>3, <2>4, <2>5 DEF SqlInv
<1> QED
  BY <1>1, <1>2

(* Every insert keeps the invariant of the tables.                         *)
LEMMA SqlInductive == SqlInv /\ [SqlNext]_sqlVars => SqlInv'
<1> SUFFICES ASSUME SqlInv, [SqlNext]_sqlVars PROVE SqlInv'
  OBVIOUS
<1>1. CASE UNCHANGED sqlVars
  BY <1>1 DEF SqlInv, sqlVars
<1>2. CASE SqlNext
  <2>1. PICK k \in Key, c \in Cid, v \in Val :
           SqlPut(k, c, v) \/ \E t \in Task : SqlPutWrites(k, c, t, v)
    BY <1>2 DEF SqlNext
  <2>2. CASE SqlPut(k, c, v)
    BY <2>2, SqlPutKeeps
  <2>3. CASE \E t \in Task : SqlPutWrites(k, c, t, v)
    BY <2>3, SqlPutWritesKeeps
  <2> QED
    BY <2>1, <2>2, <2>3
<1> QED
  BY <1>1, <1>2

-----------------------------------------------------------------------------
(* The refinement *)

(* The checkpoint ids of rows, and the writes of rows.                     *)
Cids(s) == [i \in 1..Len(s) |-> s[i].cid]
Entries(s) == [i \in 1..Len(s) |-> [task |-> s[i].task, val |-> s[i].val]]

(* Appending a row, seen through its checkpoint id.                        *)
LEMMA CidsAppend ==
    ASSUME NEW R, NEW s \in Seq(R), NEW new
    PROVE  Cids(Append(s, new)) = Append(Cids(s), new.cid)
<1>1. PICK u : u = Append(s, new)
  OBVIOUS
<1>2. PICK T : T = R \cup {new}
  OBVIOUS
<1>3. s \in Seq(T) /\ new \in T /\ Len(s) \in Nat
  BY <1>2
<1>4. u \in Seq(T) /\ Len(u) = Len(s) + 1 /\ u[Len(s) + 1] = new /\ \A i \in 1..Len(s) : u[i] = s[i]
  BY <1>1, <1>3
<1>5. PICK C : C = {r.cid : r \in T}
  OBVIOUS
<1>6. /\ Cids(s) \in Seq(C) /\ Len(Cids(s)) = Len(s) /\ new.cid \in C
      /\ \A i \in 1..Len(s) : Cids(s)[i] = s[i].cid
  BY <1>3, <1>5 DEF Cids
<1>7. /\ Cids(u) \in Seq(C) /\ Len(Cids(u)) = Len(s) + 1
      /\ \A i \in 1..(Len(s) + 1) : Cids(u)[i] = u[i].cid
  BY <1>3, <1>4, <1>5 DEF Cids
<1>8. PICK a : a = Cids(s)
  OBVIOUS
<1>9. PICK b : b = Append(a, new.cid)
  OBVIOUS
<1>10. /\ b \in Seq(C) /\ Len(b) = Len(s) + 1 /\ b[Len(s) + 1] = new.cid
       /\ \A i \in 1..Len(s) : b[i] = a[i]
  BY <1>3, <1>6, <1>8, <1>9
<1>11. \A i \in 1..(Len(s) + 1) : b[i] = Cids(u)[i]
  BY <1>3, <1>4, <1>6, <1>7, <1>8, <1>10
<1>12. PICK d : d = Cids(u)
  OBVIOUS
<1>13. d = b
  BY <1>3, <1>7, <1>10, <1>11, <1>12, SeqEqual
<1> QED
  BY <1>1, <1>8, <1>9, <1>12, <1>13

(* Deleting a row, seen through its checkpoint id.                         *)
LEMMA CidsRemove ==
    ASSUME NEW R, NEW s \in Seq(R), NEW i \in 1..Len(s)
    PROVE  Cids(RemoveAt(s, i)) = RemoveAt(Cids(s), i)
<1>1. PICK u : u = RemoveAt(s, i)
  OBVIOUS
<1>2. /\ u \in Seq(R) /\ Len(u) = Len(s) - 1 /\ Len(s) \in Nat
      /\ \A j \in 1..(Len(s) - 1) : u[j] = IF j < i THEN s[j] ELSE s[j + 1]
  <2>1. Len(s) \in Nat
    OBVIOUS
  <2> QED
    BY <1>1, <2>1, RemoveAtElements
<1>3. PICK C : C = {r.cid : r \in R}
  OBVIOUS
<1>4. PICK a : a = Cids(s)
  OBVIOUS
<1>5. /\ a \in Seq(C) /\ Len(a) = Len(s) /\ \A j \in 1..Len(s) : a[j] = s[j].cid
  BY <1>2, <1>3, <1>4 DEF Cids
<1>6. PICK b : b = RemoveAt(a, i)
  OBVIOUS
<1>7. /\ b \in Seq(C) /\ Len(b) = Len(s) - 1
      /\ \A j \in 1..(Len(s) - 1) : b[j] = IF j < i THEN a[j] ELSE a[j + 1]
  <2>1. a \in Seq(C) /\ i \in 1..Len(a)
    BY <1>5
  <2>2. /\ b \in Seq(C) /\ Len(b) = Len(a) - 1
        /\ \A j \in 1..(Len(a) - 1) : b[j] = IF j < i THEN a[j] ELSE a[j + 1]
    BY <1>6, <2>1, RemoveAtElements
  <2> QED
    BY <1>5, <2>2
<1>8. PICK d : d = Cids(u)
  OBVIOUS
<1>9. d \in Seq(C) /\ Len(d) = Len(s) - 1 /\ \A j \in 1..(Len(s) - 1) : d[j] = u[j].cid
  BY <1>2, <1>3, <1>8 DEF Cids
<1>10. ASSUME NEW j \in 1..(Len(s) - 1)
       PROVE  d[j] = b[j]
  <2>1. CASE j < i
    <3>1. j \in 1..Len(s)
      BY <1>2
    <3> QED
      BY <1>2, <1>5, <1>7, <1>9, <2>1, <3>1
  <2>2. CASE ~(j < i)
    <3>1. j + 1 \in 1..Len(s)
      BY <1>2
    <3> QED
      BY <1>2, <1>5, <1>7, <1>9, <2>2, <3>1
  <2> QED
    BY <2>1, <2>2
<1>11. d = b
  BY <1>2, <1>7, <1>9, <1>10, SeqEqual
<1> QED
  BY <1>1, <1>4, <1>6, <1>8, <1>11

(* Appending a row, seen through its task and value.                       *)
LEMMA EntriesAppend ==
    ASSUME NEW R, NEW s \in Seq(R), NEW new
    PROVE  Entries(Append(s, new)) = Append(Entries(s), [task |-> new.task, val |-> new.val])
<1>1. PICK u : u = Append(s, new)
  OBVIOUS
<1>2. PICK T : T = R \cup {new}
  OBVIOUS
<1>3. s \in Seq(T) /\ new \in T /\ Len(s) \in Nat
  BY <1>2
<1>4. u \in Seq(T) /\ Len(u) = Len(s) + 1 /\ u[Len(s) + 1] = new /\ \A i \in 1..Len(s) : u[i] = s[i]
  BY <1>1, <1>3
<1>5. PICK C : C = {[task |-> r.task, val |-> r.val] : r \in T}
  OBVIOUS
<1>14. PICK e : e = [task |-> new.task, val |-> new.val]
  OBVIOUS
<1>6. /\ Entries(s) \in Seq(C) /\ Len(Entries(s)) = Len(s) /\ e \in C
      /\ \A i \in 1..Len(s) : Entries(s)[i] = [task |-> s[i].task, val |-> s[i].val]
  BY <1>3, <1>5, <1>14 DEF Entries
<1>7. /\ Entries(u) \in Seq(C) /\ Len(Entries(u)) = Len(s) + 1
      /\ \A i \in 1..(Len(s) + 1) : Entries(u)[i] = [task |-> u[i].task, val |-> u[i].val]
  BY <1>3, <1>4, <1>5 DEF Entries
<1>8. PICK a : a = Entries(s)
  OBVIOUS
<1>9. PICK b : b = Append(a, e)
  OBVIOUS
<1>10. /\ b \in Seq(C) /\ Len(b) = Len(s) + 1 /\ b[Len(s) + 1] = e
       /\ \A i \in 1..Len(s) : b[i] = a[i]
  BY <1>3, <1>6, <1>8, <1>9
<1>11. ASSUME NEW i \in 1..(Len(s) + 1)
       PROVE  b[i] = Entries(u)[i]
  <2>1. CASE i = Len(s) + 1
    BY <1>4, <1>7, <1>10, <1>14, <2>1
  <2>2. CASE i # Len(s) + 1
    <3>1. i \in 1..Len(s)
      BY <1>3, <2>2
    <3> QED
      BY <1>4, <1>6, <1>7, <1>8, <1>10, <3>1
  <2> QED
    BY <2>1, <2>2
<1>12. PICK d : d = Entries(u)
  OBVIOUS
<1>13. d = b
  BY <1>3, <1>7, <1>10, <1>11, <1>12, SeqEqual
<1> QED
  BY <1>1, <1>8, <1>9, <1>12, <1>13, <1>14

(* The rows of a thread and namespace, and of one of its checkpoints.      *)
KeyRows(C, k) == {r \in C : r.key = k}
CidRows(C, k, c) == {r \in C : r.key = k /\ r.cid = c}

(* The mapping, with the tables as parameters.                             *)
LEMMA Mapping ==
    /\ orderOf = [k \in Key |-> Cids(BySeq(KeyRows(checkpoints, k)))]
    /\ recordOf = [k \in Key |-> [c \in Cid |->
           IF CidRows(checkpoints, k, c) = {} THEN None
           ELSE (CHOOSE r \in CidRows(checkpoints, k, c) : TRUE).val]]
    /\ writesOf = [kc \in Key \X Cid |-> Entries(BySeq(CidRows(taskWrites, kc[1], kc[2])))]
    /\ \A k, c : WritesOf(k, c) = Entries(BySeq(CidRows(taskWrites, k, c)))
  BY DEF orderOf, recordOf, writesOf, WritesOf, Cids, Entries, KeyRows, CidRows

(* The same after a step.                                                  *)
LEMMA MappingNext ==
    /\ orderOf' = [k \in Key |-> Cids(BySeq(KeyRows(checkpoints', k)))]
    /\ recordOf' = [k \in Key |-> [c \in Cid |->
           IF CidRows(checkpoints', k, c) = {} THEN None
           ELSE (CHOOSE r \in CidRows(checkpoints', k, c) : TRUE).val]]
    /\ writesOf' = [kc \in Key \X Cid |-> Entries(BySeq(CidRows(taskWrites', kc[1], kc[2])))]
  BY DEF orderOf, recordOf, writesOf, WritesOf, Cids, Entries, KeyRows, CidRows

(* What the mapping shows of a thread: its rows in order, one record per   *)
(* row.                                                                    *)
LEMMA MappedRows ==
    ASSUME SqlInv, NEW k \in Key, NEW s, s = BySeq(KeyRows(checkpoints, k))
    PROVE  /\ Lists(s, KeyRows(checkpoints, k))
           /\ Numbered(KeyRows(checkpoints, k), seq)
           /\ s \in Seq(Rows) /\ Len(s) \in Nat
           /\ orderOf[k] = Cids(s)
           /\ orderOf[k] \in Seq(Cid) /\ Len(orderOf[k]) = Len(s)
           /\ \A i \in 1..Len(s) : /\ orderOf[k][i] = s[i].cid
                                   /\ s[i] \in checkpoints /\ s[i].key = k
<1>1. KeyRows(checkpoints, k) \subseteq checkpoints /\ checkpoints \subseteq Rows
  BY DEF SqlInv, KeyRows
<1>2. Numbered(KeyRows(checkpoints, k), seq)
  BY <1>1, NumberedSubset DEF SqlInv
<1>3. Lists(s, KeyRows(checkpoints, k))
  BY <1>2, BySeqLists
<1>4. s \in Seq(KeyRows(checkpoints, k)) /\ Len(s) \in Nat
  BY <1>3 DEF Lists
<1>5. \A i \in 1..Len(s) : s[i] \in checkpoints /\ s[i].key = k /\ s[i] \in Rows
  BY <1>1, <1>4 DEF KeyRows
<1>6. s \in Seq(Rows)
  BY <1>1, <1>4
<1>7. orderOf[k] = Cids(s)
  BY Mapping
<1>8. \A i \in 1..Len(s) : s[i].cid \in Cid
  BY <1>5 DEF Rows
<1>9. /\ Cids(s) \in Seq(Cid) /\ Len(Cids(s)) = Len(s)
      /\ \A i \in 1..Len(s) : Cids(s)[i] = s[i].cid
  BY <1>4, <1>8 DEF Cids
<1> QED
  BY <1>2, <1>3, <1>4, <1>5, <1>6, <1>7, <1>9

(* A record is the value of the row of its checkpoint.                     *)
LEMMA MappedRecord ==
    ASSUME SqlInv, NEW k \in Key, NEW c \in Cid
    PROVE  /\ CidRows(checkpoints, k, c) = {} => recordOf[k][c] = None
           /\ \A r \in CidRows(checkpoints, k, c) : recordOf[k][c] = r.val /\ r.val \in Val
<1>1. recordOf[k][c] = IF CidRows(checkpoints, k, c) = {} THEN None
                       ELSE (CHOOSE r \in CidRows(checkpoints, k, c) : TRUE).val
  BY Mapping
<1>2. ASSUME NEW r \in CidRows(checkpoints, k, c)
      PROVE  recordOf[k][c] = r.val /\ r.val \in Val
  <2>1. PICK q : q = (CHOOSE x \in CidRows(checkpoints, k, c) : TRUE)
    OBVIOUS
  <2>2. q \in CidRows(checkpoints, k, c)
    BY <2>1
  <2>3. q = r
    BY <2>2 DEF SqlInv, CidRows
  <2>4. r.val \in Val
    BY DEF SqlInv, CidRows, Rows
  <2> QED
    BY <1>1, <2>1, <2>3, <2>4
<1> QED
  BY <1>1, <1>2

(* Empty tables are the empty in-memory store.                             *)
LEMMA RefineInit == SqlInit => Memory!Init
<1> SUFFICES ASSUME SqlInit PROVE Memory!Init
  OBVIOUS
<1>1. checkpoints = {} /\ taskWrites = {} /\ SqlInv
  BY SqlInitial DEF SqlInit
<1>2. BySeq({}) = <<>>
  <2>1. Numbered({}, 0)
    BY DEF Numbered
  <2>2. Lists(<<>>, {})
    BY DEF Lists
  <2> QED
    BY <2>1, <2>2, BySeqIs
<1>3. Cids(<<>>) = <<>> /\ Entries(<<>>) = <<>>
  BY DEF Cids, Entries
<1>4. \A k, c : KeyRows({}, k) = {} /\ CidRows({}, k, c) = {}
  BY DEF KeyRows, CidRows
<1>5. orderOf = [k \in Key |-> <<>>]
  BY <1>1, <1>2, <1>3, <1>4, Mapping
<1>6. recordOf = [k \in Key |-> [c \in Cid |-> None]]
  BY <1>1, <1>4, Mapping
<1>7. writesOf = [kc \in Key \X Cid |-> <<>>]
  BY <1>1, <1>2, <1>3, <1>4, Mapping
<1> QED
  BY <1>5, <1>6, <1>7
     DEF Key, Memory!Key, Memory!Init, Memory!NoRecords, Memory!NoOrder, Memory!NoWrites

(* INSERT OR REPLACE is the put of the in-memory store.                    *)
LEMMA RefinePut ==
    ASSUME SqlInv, NEW k \in Key, NEW c \in Cid, NEW v \in Val, SqlPut(k, c, v)
    PROVE  Memory!Put(k, c, v)
<1> DEFINE new == [seq |-> seq + 1, key |-> k, cid |-> c, val |-> v]
           old == {r \in checkpoints : r.key # k \/ r.cid # c}
<1>1. checkpoints' = old \cup {new} /\ taskWrites' = taskWrites
  BY DEF SqlPut
<1>2. new.seq = seq + 1 /\ new.key = k /\ new.cid = c /\ new.val = v
  OBVIOUS
<1>3. SqlInv'
  BY SqlPutKeeps
<1> HIDE DEF new
<1>4. UNCHANGED writesOf
  BY <1>1, Mapping, MappingNext
<1>5. ASSUME NEW kk \in Key, kk # k
      PROVE  KeyRows(checkpoints', kk) = KeyRows(checkpoints, kk)
  BY <1>1, <1>2, <1>5 DEF KeyRows
<1>6. ASSUME NEW kk \in Key, NEW d \in Cid, kk # k \/ d # c
      PROVE  CidRows(checkpoints', kk, d) = CidRows(checkpoints, kk, d)
  BY <1>1, <1>2, <1>6 DEF CidRows
<1>7. CidRows(checkpoints', k, c) = {new}
  BY <1>1, <1>2 DEF CidRows
<1>8. recordOf' = [recordOf EXCEPT ![k][c] = v]
  <2>1. PICK f : f = recordOf'
    OBVIOUS
  <2>2. PICK g : g = recordOf
    OBVIOUS
  <2>3. /\ f = [a \in Key |-> f[a]] /\ g = [a \in Key |-> g[a]]
        /\ \A a \in Key : f[a] = [d \in Cid |-> f[a][d]] /\ g[a] = [d \in Cid |-> g[a][d]]
    BY <2>1, <2>2, Mapping, MappingNext
  <2>4. f[k][c] = v
    <3>1. f[k][c] = (CHOOSE r \in {new} : TRUE).val
      <4>1. f[k] = [d \in Cid |->
                      IF CidRows(checkpoints', k, d) = {} THEN None
                      ELSE (CHOOSE r \in CidRows(checkpoints', k, d) : TRUE).val]
        BY <2>1, MappingNext
      <4>2. f[k][c] = IF CidRows(checkpoints', k, c) = {} THEN None
                      ELSE (CHOOSE r \in CidRows(checkpoints', k, c) : TRUE).val
        BY <4>1
      <4> QED
        BY <1>7, <4>2
    <3>2. (CHOOSE r \in {new} : TRUE) = new
      OBVIOUS
    <3> QED
      BY <1>2, <3>1, <3>2
  <2>5. \A a \in Key, d \in Cid : a # k \/ d # c => f[a][d] = g[a][d]
    BY <1>6, <2>1, <2>2, Mapping, MappingNext
  <2>6. f = [g EXCEPT ![k][c] = v]
    BY <2>3, <2>4, <2>5
  <2> QED
    BY <2>1, <2>2, <2>6
<1>9. PICK R : R = KeyRows(checkpoints, k)
  OBVIOUS
<1>10. PICK s : s = BySeq(R)
  OBVIOUS
<1>11. /\ Lists(s, R) /\ Numbered(R, seq) /\ s \in Seq(Rows) /\ Len(s) \in Nat
       /\ orderOf[k] = Cids(s)
       /\ orderOf[k] \in Seq(Cid) /\ Len(orderOf[k]) = Len(s)
       /\ \A i \in 1..Len(s) : /\ orderOf[k][i] = s[i].cid
                               /\ s[i] \in checkpoints /\ s[i].key = k
  BY <1>9, <1>10, MappedRows
<1>12. ASSUME NEW o, orderOf'[k] = o
       PROVE  orderOf' = [orderOf EXCEPT ![k] = o]
  <2>1. PICK f : f = orderOf'
    OBVIOUS
  <2>2. PICK g : g = orderOf
    OBVIOUS
  <2>3. f = [a \in Key |-> f[a]] /\ g = [a \in Key |-> g[a]]
    BY <2>1, <2>2, Mapping, MappingNext
  <2>4. \A a \in Key : a # k => f[a] = g[a]
    BY <1>5, <2>1, <2>2, Mapping, MappingNext
  <2>5. f = [g EXCEPT ![k] = o]
    BY <1>12, <2>1, <2>3, <2>4
  <2> QED
    BY <2>1, <2>2, <2>5
<1>13. orderOf'[k] = Cids(BySeq(KeyRows(checkpoints', k)))
  BY MappingNext
<1>14. CASE ~ \E r \in R : r.cid = c
  <2>1. KeyRows(checkpoints', k) = R \cup {new}
    BY <1>1, <1>2, <1>9, <1>14 DEF KeyRows
  <2>2. BySeq(R \cup {new}) = Append(s, new)
    BY <1>2, <1>10, <1>11, BySeqInsert
  <2>3. Cids(Append(s, new)) = Append(Cids(s), c)
    BY <1>2, <1>11, CidsAppend
  <2>4. orderOf'[k] = Append(orderOf[k], c)
    BY <1>11, <1>13, <2>1, <2>2, <2>3
  <2>5. ~Memory!Has(orderOf[k], c)
    <3>1. \A i \in 1..Len(s) : s[i] \in R
      BY <1>9, <1>11 DEF KeyRows
    <3> QED
      BY <1>11, <1>14, <3>1 DEF Memory!Has
  <2>6. orderOf' = [orderOf EXCEPT ![k] = Append(orderOf[k], c)]
    BY <1>12, <2>4
  <2> QED
    BY <1>4, <1>8, <2>5, <2>6 DEF Memory!Put
<1>15. CASE \E r \in R : r.cid = c
  <2>1. PICK r \in R : r.cid = c
    BY <1>15
  <2>2. PICK i \in 1..Len(s) : s[i] = r
    BY <1>11 DEF Lists
  <2>3. KeyRows(checkpoints', k) = (R \ {r}) \cup {new}
    <3>1. \A q \in R : q.cid = c => q = r
      BY <1>9, <2>1 DEF SqlInv, KeyRows
    <3> QED
      BY <1>1, <1>2, <1>9, <2>1, <3>1 DEF KeyRows
  <2>4. PICK u : u = RemoveAt(s, i)
    OBVIOUS
  <2>5. PICK T : T = R \ {r}
    OBVIOUS
  <2>6. BySeq(T) = u
    BY <1>10, <1>11, <2>2, <2>4, <2>5, BySeqDelete
  <2>7. Numbered(T, seq)
    BY <1>11, <2>5, NumberedSubset
  <2>8. BySeq(T \cup {new}) = Append(u, new)
    BY <1>2, <2>6, <2>7, BySeqInsert
  <2>9. u \in Seq(Rows)
    BY <1>11, <2>4, RemoveAtElements
  <2>10. Cids(Append(u, new)) = Append(Cids(u), c)
    BY <1>2, <2>9, CidsAppend
  <2>11. Cids(u) = RemoveAt(orderOf[k], i)
    BY <1>11, <2>4, CidsRemove
  <2>12. orderOf'[k] = Append(RemoveAt(orderOf[k], i), c)
    BY <1>13, <2>3, <2>5, <2>8, <2>10, <2>11
  <2>13. orderOf' = [orderOf EXCEPT ![k] = Append(RemoveAt(orderOf[k], i), c)]
    BY <1>12, <2>12
  <2>15. i \in 1..Len(orderOf[k]) /\ orderOf[k][i] = c
    BY <1>11, <2>1, <2>2
  <2>16. Memory!RemoveAt(orderOf[k], i) = RemoveAt(orderOf[k], i)
    BY DEF RemoveAt, Memory!RemoveAt
  <2> QED
    BY <1>4, <1>8, <2>13, <2>15, <2>16 DEF Memory!Put
<1> QED
  BY <1>14, <1>15

(* INSERT OR IGNORE is the put_writes of the in-memory store.              *)
LEMMA RefinePutWrites ==
    ASSUME SqlInv, NEW k \in Key, NEW c \in Cid, NEW t \in Task, NEW v \in Val,
           SqlPutWrites(k, c, t, v)
    PROVE  Memory!PutWrites(k, c, t, v)
<1> DEFINE new == [seq |-> wseq + 1, key |-> k, cid |-> c, task |-> t, val |-> v]
<1>1. checkpoints' = checkpoints
  BY DEF SqlPutWrites
<1>2. UNCHANGED <<recordOf, orderOf>>
  BY <1>1, Mapping, MappingNext
<1>3. PICK R : R = CidRows(taskWrites, k, c)
  OBVIOUS
<1>4. PICK s : s = BySeq(R)
  OBVIOUS
<1>5. R \subseteq taskWrites /\ Numbered(R, wseq)
  BY <1>3, NumberedSubset DEF SqlInv, CidRows
<1>6. Lists(s, R)
  BY <1>4, <1>5, BySeqLists
<1>7. s \in Seq(R) /\ Len(s) \in Nat /\ \A i \in 1..Len(s) : s[i] \in R
  BY <1>6 DEF Lists
<1>8. writesOf[<<k, c>>] = Entries(s)
  BY <1>3, <1>4, Mapping
<1>9. Len(Entries(s)) = Len(s) /\ \A i \in 1..Len(s) : Entries(s)[i].task = s[i].task
  BY <1>7 DEF Entries
<1>10. Memory!Written(k, c, t) <=> \E r \in R : r.task = t
  <2>1. Memory!Written(k, c, t) <=> \E i \in 1..Len(s) : s[i].task = t
    BY <1>8, <1>9 DEF Memory!Written
  <2>2. (\E i \in 1..Len(s) : s[i].task = t) <=> \E r \in R : r.task = t
    BY <1>6, <1>7 DEF Lists
  <2> QED
    BY <2>1, <2>2
<1>11. (\E r \in R : r.task = t) <=>
          \E r \in taskWrites : r.key = k /\ r.cid = c /\ r.task = t
  BY <1>3 DEF CidRows
<1>12. CASE \E r \in R : r.task = t
  <2>1. taskWrites' = taskWrites
    BY <1>11, <1>12 DEF SqlPutWrites
  <2>2. UNCHANGED writesOf
    BY <2>1, Mapping, MappingNext
  <2> QED
    BY <1>2, <1>10, <1>12, <2>2 DEF Memory!PutWrites
<1>13. CASE ~ \E r \in R : r.task = t
  <2>1. taskWrites' = taskWrites \cup {new}
    BY <1>11, <1>13 DEF SqlPutWrites
  <2>2. /\ new.seq = wseq + 1 /\ new.key = k /\ new.cid = c
        /\ new.task = t /\ new.val = v
    OBVIOUS
  <2> HIDE DEF new
  <2>3. CidRows(taskWrites', k, c) = R \cup {new}
    BY <1>3, <2>1, <2>2 DEF CidRows
  <2>4. BySeq(R \cup {new}) = Append(s, new)
    BY <1>4, <1>5, <2>2, BySeqInsert
  <2>5. Entries(Append(s, new)) = Append(Entries(s), [task |-> t, val |-> v])
    BY <1>7, <2>2, EntriesAppend
  <2>6. writesOf'[<<k, c>>] = Append(writesOf[<<k, c>>], [task |-> t, val |-> v])
    <3>1. <<k, c>> \in Key \X Cid /\ <<k, c>>[1] = k /\ <<k, c>>[2] = c
      OBVIOUS
    <3>2. writesOf'[<<k, c>>] = Entries(BySeq(CidRows(taskWrites', k, c)))
      BY <3>1, MappingNext
    <3> QED
      BY <1>8, <2>3, <2>4, <2>5, <3>2
  <2>7. ASSUME NEW kc \in Key \X Cid, kc # <<k, c>>
        PROVE  writesOf'[kc] = writesOf[kc]
    <3>1. kc[1] # k \/ kc[2] # c
      BY <2>7
    <3>2. CidRows(taskWrites', kc[1], kc[2]) = CidRows(taskWrites, kc[1], kc[2])
      BY <2>1, <2>2, <3>1 DEF CidRows
    <3> QED
      BY <3>2, Mapping, MappingNext
  <2>8. PICK f : f = writesOf'
    OBVIOUS
  <2>9. PICK g : g = writesOf
    OBVIOUS
  <2>10. PICK e : e = [task |-> t, val |-> v]
    OBVIOUS
  <2>11. f = [kc \in Key \X Cid |-> f[kc]] /\ g = [kc \in Key \X Cid |-> g[kc]]
    BY <2>8, <2>9, Mapping, MappingNext
  <2>12. f = [g EXCEPT ![<<k, c>>] = Append(@, e)]
    BY <2>6, <2>7, <2>8, <2>9, <2>10, <2>11
  <2> QED
    BY <1>2, <1>10, <1>13, <2>8, <2>9, <2>10, <2>12 DEF Memory!PutWrites
<1> QED
  BY <1>12, <1>13

(* Every step of the SQLite store is a step of the in-memory store.        *)
LEMMA RefineStep ==
    SqlInv /\ [SqlNext]_sqlVars => [Memory!Next]_(Memory!store)
<1> SUFFICES ASSUME SqlInv, [SqlNext]_sqlVars PROVE [Memory!Next]_(Memory!store)
  OBVIOUS
<1>1. CASE UNCHANGED sqlVars
  <2>1. checkpoints' = checkpoints /\ taskWrites' = taskWrites
    BY <1>1 DEF sqlVars
  <2>2. orderOf' = orderOf /\ recordOf' = recordOf /\ writesOf' = writesOf
    BY <2>1, Mapping, MappingNext
  <2> QED
    BY <2>2 DEF Memory!store
<1>2. CASE SqlNext
  <2>1. PICK k \in Key, c \in Cid, v \in Val :
           SqlPut(k, c, v) \/ \E t \in Task : SqlPutWrites(k, c, t, v)
    BY <1>2 DEF SqlNext
  <2>2. Memory!Put(k, c, v) \/ \E t \in Task : Memory!PutWrites(k, c, t, v)
    BY <2>1, RefinePut, RefinePutWrites
  <2>3. k \in Memory!Key
    BY DEF Key, Memory!Key
  <2> QED
    BY <2>2, <2>3 DEF Memory!Next
<1> QED
  BY <1>1, <1>2

(* The SQLite store behaves as the in-memory store, for any threads,       *)
(* checkpoints, tasks and values, and however many rows are inserted: a    *)
(* checkpoint put again becomes the newest, the first writes of a task     *)
(* stay.                                                                   *)
THEOREM SqliteImplementsMemory == SqlSpec => RefinesMemory
  BY RefineInit, SqlInitial, SqlInductive, RefineStep, PTL
     DEF SqlSpec, RefinesMemory, Memory!Spec

-----------------------------------------------------------------------------
(* The queries *)

(* The last row of the query is the newest checkpoint of the thread.       *)
LEMMA GetNewestAgrees ==
    ASSUME SqlInv, NEW k \in Key
    PROVE  SqlGetTuple(k, None) = Memory!GetTuple(k, None)
<1>1. PICK s : s = BySeq(KeyRows(checkpoints, k))
  OBVIOUS
<1>2. /\ Lists(s, KeyRows(checkpoints, k)) /\ s \in Seq(Rows) /\ Len(s) \in Nat
      /\ orderOf[k] = Cids(s)
      /\ orderOf[k] \in Seq(Cid) /\ Len(orderOf[k]) = Len(s)
      /\ \A i \in 1..Len(s) : /\ orderOf[k][i] = s[i].cid
                              /\ s[i] \in checkpoints /\ s[i].key = k
  BY <1>1, MappedRows
<1>3. {r \in checkpoints : r.key = k /\ (None = None \/ r.cid = None)} = KeyRows(checkpoints, k)
  BY DEF KeyRows
<1>4. SqlGetTuple(k, None) =
         IF s = <<>> THEN [cid |-> None, val |-> None, writes |-> <<>>]
         ELSE [cid |-> Last(s).cid, val |-> Last(s).val,
               writes |-> WritesOf(k, Last(s).cid)]
  BY <1>1, <1>3 DEF SqlGetTuple
<1>5. CASE s = <<>>
  <2>1. orderOf[k] = <<>>
    BY <1>2, <1>5
  <2> QED
    BY <1>4, <1>5, <2>1 DEF Memory!GetTuple, Memory!NotFound
<1>6. CASE s # <<>>
  <2>1. PICK n : n = Len(s)
    OBVIOUS
  <2>2. n \in 1..Len(s)
    BY <1>2, <1>6, <2>1
  <2>3. PICK r : r = s[n]
    OBVIOUS
  <2>4. r \in checkpoints /\ r.key = k /\ r.cid \in Cid /\ orderOf[k][n] = r.cid
    BY <1>2, <2>2, <2>3 DEF SqlInv, Rows
  <2>5. r \in CidRows(checkpoints, k, r.cid)
    BY <2>4 DEF CidRows
  <2>6. recordOf[k][r.cid] = r.val /\ r.val # None /\ r.cid # None
    <3>1. recordOf[k][r.cid] = r.val /\ r.val \in Val
      BY <2>4, <2>5, MappedRecord
    <3> QED
      BY <2>4, <3>1, NoneAssumption
  <2>7. WritesOf(k, r.cid) = writesOf[<<k, r.cid>>]
    BY <2>4, Mapping
  <2>8. orderOf[k] # <<>>
    BY <1>2, <2>1, <2>2
  <2>9. Last(s) = r /\ Memory!Last(orderOf[k]) = r.cid
    BY <1>2, <2>1, <2>3, <2>4 DEF Last, Memory!Last
  <2>10. SqlGetTuple(k, None) = [cid |-> r.cid, val |-> r.val, writes |-> WritesOf(k, r.cid)]
    BY <1>4, <1>6, <2>9
  <2>11. Memory!GetTuple(k, None) =
            [cid |-> r.cid, val |-> r.val, writes |-> writesOf[<<k, r.cid>>]]
    BY <2>6, <2>8, <2>9 DEF Memory!GetTuple
  <2> QED
    BY <2>7, <2>10, <2>11
<1> QED
  BY <1>5, <1>6

(* The row of a checkpoint is its record.                                  *)
LEMMA GetNamedAgrees ==
    ASSUME SqlInv, NEW k \in Key, NEW c \in Cid
    PROVE  SqlGetTuple(k, c) = Memory!GetTuple(k, c)
<1>1. PICK R : R = CidRows(checkpoints, k, c)
  OBVIOUS
<1>2. PICK s : s = BySeq(R)
  OBVIOUS
<1>3. c # None
  BY NoneAssumption
<1>4. {r \in checkpoints : r.key = k /\ (c = None \/ r.cid = c)} = R
  BY <1>1, <1>3 DEF CidRows
<1>5. SqlGetTuple(k, c) =
         IF s = <<>> THEN [cid |-> None, val |-> None, writes |-> <<>>]
         ELSE [cid |-> Last(s).cid, val |-> Last(s).val,
               writes |-> WritesOf(k, Last(s).cid)]
  BY <1>2, <1>4 DEF SqlGetTuple
<1>6. Numbered(R, seq)
  BY <1>1, NumberedSubset DEF SqlInv, CidRows
<1>7. Lists(s, R)
  BY <1>2, <1>6, BySeqLists
<1>8. s \in Seq(R) /\ Len(s) \in Nat
  BY <1>7 DEF Lists
<1>9. CASE R = {}
  <2>1. s = <<>>
    BY <1>8, <1>9
  <2>2. recordOf[k][c] = None
    BY <1>1, <1>9, MappedRecord
  <2> QED
    BY <1>3, <1>5, <2>1, <2>2 DEF Memory!GetTuple, Memory!NotFound
<1>10. CASE R # {}
  <2>1. PICK q \in R : TRUE
    BY <1>10
  <2>2. PICK i \in 1..Len(s) : s[i] = q
    BY <1>7 DEF Lists
  <2>3. s # <<>> /\ Last(s) \in R
    BY <1>8, <2>2 DEF Last
  <2>4. PICK r : r = Last(s)
    OBVIOUS
  <2>5. r \in R /\ r.cid = c
    BY <1>1, <2>3, <2>4 DEF CidRows
  <2>6. recordOf[k][c] = r.val /\ r.val # None
    <3>1. recordOf[k][c] = r.val /\ r.val \in Val
      BY <1>1, <2>5, MappedRecord
    <3> QED
      BY <3>1, NoneAssumption
  <2>7. WritesOf(k, c) = writesOf[<<k, c>>]
    BY Mapping
  <2>8. SqlGetTuple(k, c) = [cid |-> c, val |-> r.val, writes |-> WritesOf(k, c)]
    BY <1>5, <2>3, <2>4, <2>5
  <2>9. Memory!GetTuple(k, c) = [cid |-> c, val |-> r.val, writes |-> writesOf[<<k, c>>]]
    BY <1>3, <2>6 DEF Memory!GetTuple
  <2> QED
    BY <2>7, <2>8, <2>9
<1> QED
  BY <1>9, <1>10

(* A get_tuple, of a checkpoint or of the newest one, answers alike in     *)
(* both stores in every reachable state.                                   *)
THEOREM SqliteGetsAgree == SqlSpec => []GetAgrees
<1>1. SqlInv => GetAgrees
  BY GetNewestAgrees, GetNamedAgrees DEF GetAgrees
<1> QED
  BY <1>1, SqlInitial, SqlInductive, PTL DEF SqlSpec

(* The least and the greatest of two numbers.                              *)
LEMMA MinMaxPair ==
    ASSUME NEW a \in Nat, NEW b \in Nat
    PROVE  /\ Min({a, b}) = (IF a <= b THEN a ELSE b)
           /\ Max({a, b}) = (IF a >= b THEN a ELSE b)
           /\ Memory!Min({a, b}) = Min({a, b}) /\ Memory!Max({a, b}) = Max({a, b})
           /\ Memory!Max({a}) = a
<1>1. \E x \in {a, b} : \A y \in {a, b} : x =< y
  BY DEF Min
<1>2. Min({a, b}) = (IF a <= b THEN a ELSE b)
  BY <1>1 DEF Min
<1>3. \E x \in {a, b} : \A y \in {a, b} : x >= y
  OBVIOUS
<1>4. Max({a, b}) = (IF a >= b THEN a ELSE b)
  BY <1>3 DEF Max
<1>5. Memory!Min({a, b}) = Min({a, b}) /\ Memory!Max({a, b}) = Max({a, b})
  BY DEF Min, Max, Memory!Min, Memory!Max
<1>6. Memory!Max({a}) = a
  BY DEF Memory!Max
<1> QED
  BY <1>2, <1>4, <1>5, <1>6

(* The rows of a list: those of the thread that are older than before.     *)
Selected(C, k, before) ==
    {r \in KeyRows(C, k) : \A b \in CidRows(C, k, before) : r.seq < b.seq}

(* u is the first m rows of s, ids their checkpoint ids the other way      *)
(* round.                                                                  *)
Mirrored(s, u, ids, m) ==
    /\ m \in 0..Len(s)
    /\ u \in Seq(Rows) /\ Len(u) = m
    /\ ids \in Seq(Cid) /\ Len(ids) = m
    /\ \A j \in 1..m : u[j] = s[j] /\ ids[j] = s[m - j + 1].cid

(* The rows the query of list selects, and the ids the in-memory store     *)
(* walks, are the same checkpoints in opposite orders.                     *)
LEMMA ListedRows ==
    ASSUME SqlInv, NEW k \in Key, NEW before \in Cid \cup {None},
           NEW s, s = BySeq(KeyRows(checkpoints, k)),
           NEW u, u = BySeq(Selected(checkpoints, k, before)),
           NEW ids, ids = Memory!After(Memory!Reverse(orderOf[k]), before)
    PROVE  \E m : Mirrored(s, u, ids, m)
<1>1. PICK R : R = KeyRows(checkpoints, k)
  OBVIOUS
<1>2. PICK B : B = CidRows(checkpoints, k, before)
  OBVIOUS
<1>3. PICK n : n = Len(s)
  OBVIOUS
<1>4. /\ Lists(s, R) /\ Numbered(R, seq) /\ s \in Seq(Rows) /\ n \in Nat
      /\ orderOf[k] \in Seq(Cid) /\ Len(orderOf[k]) = n
      /\ \A i \in 1..n : orderOf[k][i] = s[i].cid /\ s[i] \in checkpoints /\ s[i].key = k
  BY <1>1, <1>3, MappedRows
<1>5. PICK rev : rev = Memory!Reverse(orderOf[k])
  OBVIOUS
<1>6. rev \in Seq(Cid) /\ Len(rev) = n /\ \A j \in 1..n : rev[j] = s[n - j + 1].cid
  <2>1. PICK o : o = orderOf[k]
    OBVIOUS
  <2>2. rev = [i \in 1..n |-> o[(n - i) + 1]]
    BY <1>4, <1>5, <2>1 DEF Memory!Reverse
  <2>3. \A i \in 1..n : (n - i) + 1 \in 1..n
    BY <1>4
  <2>4. \A i \in 1..n : o[i] \in Cid /\ o[i] = s[i].cid
    BY <1>4, <2>1
  <2>5. \A i \in 1..n : o[(n - i) + 1] \in Cid /\ o[(n - i) + 1] = s[(n - i) + 1].cid
    BY <2>3, <2>4
  <2>6. rev \in Seq(Cid) /\ Len(rev) = n
    <3>1. rev \in [1..n -> Cid]
      BY <2>2, <2>5
    <3> QED
      BY <1>4, <3>1
  <2>7. \A j \in 1..n : rev[j] = s[n - j + 1].cid
    BY <2>2, <2>5
  <2> QED
    BY <2>6, <2>7
<1>7. ids = LET i == {j \in 1..n : rev[j] = before}
            IN  IF i = {} THEN rev ELSE SubSeq(rev, Memory!Max(i) + 1, n)
  BY <1>5, <1>6 DEF Memory!After
<1>8. CASE B = {}
  <2>1. u = s
    <3>1. {r \in R : \A b \in B : r.seq < b.seq} = R
      BY <1>8
    <3> QED
      BY <1>1, <1>2, <3>1 DEF Selected
  <2>2. \A j \in 1..n : s[j].cid # before
    BY <1>2, <1>4, <1>8 DEF CidRows
  <2>3. \A j \in 1..n : n - j + 1 \in 1..n
    BY <1>4
  <2>4. {j \in 1..n : rev[j] = before} = {}
    BY <1>6, <2>2, <2>3
  <2>5. ids = rev
    BY <1>7, <2>4
  <2>6. n \in 0..Len(s) /\ u \in Seq(Rows) /\ Len(u) = n
    BY <1>3, <1>4, <2>1
  <2>7. ids \in Seq(Cid) /\ Len(ids) = n /\ \A j \in 1..n : ids[j] = s[n - j + 1].cid
    BY <1>6, <2>5
  <2> QED
    BY <2>1, <2>6, <2>7 DEF Mirrored
<1>9. CASE B # {}
  <2>1. PICK b \in B : TRUE
    BY <1>9
  <2>2. b \in R /\ b.key = k /\ b.cid = before /\ b \in checkpoints
    BY <1>1, <1>2 DEF CidRows, KeyRows
  <2>3. B = {b}
    BY <1>2, <2>2 DEF CidRows, SqlInv
  <2>4. PICK i \in 1..n : s[i] = b
    BY <1>3, <1>4, <2>2 DEF Lists
  <2>5. u = SubSeq(s, 1, i - 1)
    <3>1. {r \in R : \A x \in B : r.seq < x.seq} = {r \in R : r.seq < s[i].seq}
      BY <2>3, <2>4
    <3>2. BySeq({r \in R : r.seq < s[i].seq}) = SubSeq(s, 1, i - 1)
      <4>1. Numbered(R, seq) /\ s = BySeq(R) /\ i \in 1..Len(s)
        BY <1>1, <1>3, <1>4
      <4> QED
        BY <4>1, BySeqBelow
    <3> QED
      BY <1>1, <1>2, <3>1, <3>2 DEF Selected
  <2>6. PICK m : m = i - 1
    OBVIOUS
  <2>7. m \in 0..n /\ i = m + 1 /\ m < n
    BY <1>4, <2>6
  <2>8. u \in Seq(Rows) /\ Len(u) = m /\ \A j \in 1..m : u[j] = s[j]
    BY <1>3, <1>4, <2>5, <2>6, <2>7
  <2>9. ASSUME NEW j \in 1..n
        PROVE  s[j].cid = before <=> j = i
    <3>1. s[j].cid = before => s[j] = b
      BY <1>4, <2>2 DEF SqlInv
    <3>2. s[j] = b => j = i
      <4> SUFFICES ASSUME s[j] = b, j # i PROVE FALSE
        OBVIOUS
      <4>1. s[j].seq < s[i].seq \/ s[i].seq < s[j].seq
        BY <1>3, <1>4 DEF Lists
      <4>2. b.seq \in Int
        BY <1>4, <2>2 DEF Numbered
      <4> QED
        BY <2>4, <4>1, <4>2
    <3> QED
      BY <2>2, <2>4, <3>1, <3>2
  <2>10. {j \in 1..n : rev[j] = before} = {n - m}
    <3>1. \A j \in 1..n : n - j + 1 \in 1..n /\ (n - j + 1 = i <=> j = n - m)
      BY <1>4, <2>7
    <3>2. \A j \in 1..n : rev[j] = before <=> j = n - m
      BY <1>6, <2>9, <3>1
    <3>3. n - m \in 1..n
      BY <1>4, <2>7
    <3> QED
      BY <3>2, <3>3
  <2>11. Memory!Max({n - m}) = n - m
    <3>1. n - m \in Nat
      BY <1>4, <2>7
    <3> QED
      BY <3>1, MinMaxPair
  <2>12. ids = SubSeq(rev, n - m + 1, n)
    BY <1>7, <2>10, <2>11
  <2>13. /\ ids \in Seq(Cid) /\ Len(ids) = m
         /\ \A j \in 1..m : ids[j] = rev[n - m + j]
    <3>1. PICK a : a = n - m + 1
      OBVIOUS
    <3>2. /\ a \in Int /\ n \in Int /\ a >= 1 /\ n - a + 1 = m
          /\ (IF a <= n THEN n - a + 1 ELSE 0) = m
          /\ \A j \in 1..m : a + j - 1 = n - m + j
          /\ \A j \in a..n : j \in 1..n
      BY <1>4, <2>7, <3>1
    <3>3. \A j \in a..n : rev[j] \in Cid
      BY <1>6, <3>2
    <3>4. /\ SubSeq(rev, a, n) \in Seq(Cid)
          /\ Len(SubSeq(rev, a, n)) = IF a <= n THEN n - a + 1 ELSE 0
          /\ \A j \in 1..(n - a + 1) : SubSeq(rev, a, n)[j] = rev[a + j - 1]
      BY <3>2, <3>3, SubSeqProperties
    <3> QED
      BY <2>12, <3>1, <3>2, <3>4
  <2>14. \A j \in 1..m : n - m + j \in 1..n /\ n - (n - m + j) + 1 = m - j + 1
    BY <1>4, <2>7
  <2>15. \A j \in 1..m : ids[j] = s[m - j + 1].cid
    BY <1>6, <2>13, <2>14
  <2> QED
    BY <1>3, <2>7, <2>8, <2>13, <2>15 DEF Mirrored
<1> QED
  BY <1>8, <1>9

(* A list of one thread and namespace is the same in both stores.          *)
LEMMA ListsAgree ==
    ASSUME SqlInv, NEW t \in Thread, NEW ns \in Ns, NEW before \in Cid \cup {None},
           NEW limit \in {None} \cup (Nat \ {0})
    PROVE  SqlList(t, ns, before, limit) = Memory!List(t, ns, before, limit)
<1>1. PICK k : k = <<t, ns>>
  OBVIOUS
<1>2. k \in Key /\ ns # None
  BY <1>1, NoneAssumption DEF Key
<1>3. PICK s : s = BySeq(KeyRows(checkpoints, k))
  OBVIOUS
<1>4. PICK u : u = BySeq(Selected(checkpoints, k, before))
  OBVIOUS
<1>5. PICK ids : ids = Memory!After(Memory!Reverse(orderOf[k]), before)
  OBVIOUS
<1>0. PICK m : Mirrored(s, u, ids, m)
  BY <1>2, <1>3, <1>4, <1>5, ListedRows
<1>6. /\ m \in 0..Len(s)
      /\ u \in Seq(Rows) /\ Len(u) = m
      /\ ids \in Seq(Cid) /\ Len(ids) = m
      /\ \A j \in 1..m : u[j] = s[j] /\ ids[j] = s[m - j + 1].cid
  BY <1>0 DEF Mirrored
<1>7. /\ s \in Seq(Rows) /\ Len(s) \in Nat /\ m \in Nat
      /\ \A i \in 1..Len(s) : s[i] \in checkpoints /\ s[i].key = k
  <2>1. /\ s \in Seq(Rows) /\ Len(s) \in Nat
        /\ \A i \in 1..Len(s) : s[i] \in checkpoints /\ s[i].key = k
    BY <1>2, <1>3, MappedRows
  <2> QED
    BY <1>6, <2>1
<1>8. {r \in checkpoints : /\ r.key[1] = t
                           /\ ns # None => r.key[2] = ns
                           /\ \A b \in {q \in checkpoints :
                                   /\ q.key = <<t, IF ns = None THEN DefaultNs ELSE ns>>
                                   /\ q.cid = before} : r.seq < b.seq}
      = Selected(checkpoints, k, before)
  <2>1. {q \in checkpoints : /\ q.key = <<t, IF ns = None THEN DefaultNs ELSE ns>>
                             /\ q.cid = before} = CidRows(checkpoints, k, before)
    BY <1>1, <1>2 DEF CidRows
  <2>2. \A r \in checkpoints : r.key = k <=> r.key[1] = t /\ r.key[2] = ns
    <3> SUFFICES ASSUME NEW r \in checkpoints
                 PROVE  r.key = k <=> r.key[1] = t /\ r.key[2] = ns
      OBVIOUS
    <3>1. r.key \in Thread \X Ns
      BY DEF SqlInv, Rows, Key
    <3> QED
      BY <1>1, <3>1
  <2> QED
    BY <1>2, <2>1, <2>2 DEF KeyRows, Selected
<1>9. PICK w : w = Reverse(u)
  OBVIOUS
<1>10. Len(w) = m /\ \A i \in 1..m : w[i] = s[m - i + 1] /\ m - i + 1 \in 1..Len(s)
  <2>1. w = [i \in 1..m |-> u[(m - i) + 1]]
    BY <1>6, <1>9 DEF Reverse
  <2>2. \A i \in 1..m : (m - i) + 1 \in 1..m /\ m - i + 1 \in 1..Len(s)
    BY <1>6, <1>7
  <2> QED
    BY <1>6, <1>7, <2>1, <2>2
<1>11. ASSUME NEW i \in 1..m
       PROVE  <<w[i].key, w[i].cid, w[i].val>> = <<k, ids[i], recordOf[k][ids[i]]>>
  <2>1. PICK r : r = s[m - i + 1]
    OBVIOUS
  <2>2. w[i] = r /\ ids[i] = r.cid /\ r \in checkpoints /\ r.key = k /\ r.cid \in Cid
    BY <1>6, <1>7, <1>10, <2>1 DEF SqlInv, Rows
  <2>3. recordOf[k][r.cid] = r.val
    <3>1. r \in CidRows(checkpoints, k, r.cid)
      BY <2>2 DEF CidRows
    <3> QED
      BY <1>2, <2>2, <3>1, MappedRecord
  <2> QED
    BY <2>2, <2>3
<1>12. PICK n : n = IF limit = None THEN m ELSE limit
  OBVIOUS
<1>13. n \in Nat /\ Min({n, m}) \in Nat /\ Min({n, m}) <= m /\ Memory!Min({n, m}) = Min({n, m})
  <2>1. n \in Nat
    BY <1>7, <1>12
  <2>2. /\ Min({n, m}) = (IF n <= m THEN n ELSE m)
        /\ Memory!Min({n, m}) = Min({n, m})
    BY <1>7, <2>1, MinMaxPair
  <2>3. \/ n <= m /\ Min({n, m}) = n
        \/ ~(n <= m) /\ Min({n, m}) = m
    BY <2>2
  <2> QED
    BY <1>7, <2>1, <2>2, <2>3
<1>14. n = IF limit = None THEN m ELSE Memory!Max({limit, 1})
  <2>1. CASE limit = None
    BY <1>12, <2>1
  <2>2. CASE limit # None
    <3>1. limit \in Nat /\ limit >= 1 /\ 1 \in Nat
      BY <2>2
    <3>2. Memory!Max({limit, 1}) = limit
      BY <3>1, MinMaxPair
    <3> QED
      BY <1>12, <2>2, <3>2
  <2> QED
    BY <2>1, <2>2
<1>15. SqlList(t, ns, before, limit) =
          [i \in 1..Min({n, m}) |-> <<w[i].key, w[i].cid, w[i].val>>]
  BY <1>4, <1>8, <1>9, <1>10, <1>12 DEF SqlList
<1>16. Memory!List(t, ns, before, limit) =
          [i \in 1..Min({n, m}) |-> <<k, ids[i], recordOf[k][ids[i]]>>]
  <2>1. <<t, IF ns = None THEN DefaultNs ELSE ns>> = k
    BY <1>1, <1>2
  <2> QED
    BY <1>5, <1>6, <1>13, <1>14, <2>1 DEF Memory!List
<1>17. \A i \in 1..Min({n, m}) : i \in 1..m
  BY <1>7, <1>13
<1> QED
  BY <1>11, <1>15, <1>16, <1>17

(* A list with any `before' and any limit but 0 is the same in both stores *)
(* in every reachable state.                                               *)
THEOREM SqliteListsAgree == SqlSpec => []ListAgrees
<1>1. SqlInv => ListAgrees
  BY ListsAgree, LimitAssumption DEF ListAgrees
<1> QED
  BY <1>1, SqlInitial, SqlInductive, PTL DEF SqlSpec

=============================================================================
