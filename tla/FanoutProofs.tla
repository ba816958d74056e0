---------------------------- MODULE FanoutProofs ----------------------------
(* Proofs about the connection registry and the fan-out over it, for any   *)
(* tasks, threads and targets.                                             *)
EXTENDS Fanout, FiniteSetTheorems, SequenceTheorems, TLAPS

(***************************************************************************)
(* The inductive invariant of the registry                                 *)
(***************************************************************************)

\* Which synchronous loop there is, by how far aclose_sync has come: it is the
\* closer's own loop that is stopped, and the next one is the second.
SyncInv ==
    /\ stopping \in {0, 1} /\ syncLoop \in Loop
    /\ closer \notin {"stop", "done"} => stopping = 0
    /\ stopping = 0 => syncLoop \in {0, 1}
    /\ closer \in {"lock", "clear", "close", "swap"} => closerLoop \in {0, syncLoop}
    /\ closer = "swap" => closerLoop # 0
    /\ closer = "stop" => stopping = 1

\* The call that connects holds the lock of its loop, and what is cached there
\* is not alive: it replaces no connection that others use.
LockInv ==
    \A c \in Caller : pc[c] = "connect" => lock[loop[c]] = c /\ Cached(c) \notin alive

\* A call that has not begun has no connection.
IdleInv == \A c \in Caller : pc[c] = "idle" => using[c] = 0

\* What is left to close of the connections there were when the shutdown began.
ShutdownInv ==
    /\ closer \in {"no", "lock"} => snapshot = {}
    /\ closer \in {"no", "lock", "clear"} => missed = {}
    /\ closer \in {"clear", "close"} => alive \cap old \subseteq snapshot
    /\ closer \in {"swap", "stop", "done"} => snapshot = {} /\ alive \cap old = {}

RegInv == TypeOK /\ SyncInv /\ LockInv /\ IdleInv /\ ConnectionsAccounted /\ ShutdownInv

Where == {"idle", "submit", "get", "connect", "call", "drop"} \cup Ended

(* The connections made, element by element.                               *)
LEMMA MadeElements ==
    /\ \A k : k \in Made <=> \E l \in Loop : \E n \in 1..made[l] : k = <<l, n>>
    /\ made' = made => Made' = Made
  BY DEF Made

(* A step that changes one call's place, its connection and the lock of    *)
(* its loop only.                                                          *)
LEMMA CallMoves ==
    ASSUME RegInv, NEW c \in Caller, NEW w \in Where \ {"idle"}, Goto(c, w),
           UNCHANGED <<loop, byLoop, conns, sync, ending>>,
           attempt' \in [Caller -> 0..(MaxAttempts - 1)], faults' \in 0..MaxFaults,
           NEW u \in 0..made[loop[c]], using' = [using EXCEPT ![c] = u],
           \/ UNCHANGED lock /\ w # "connect"
           \/ Unlock(c) /\ w # "connect"
           \/ /\ lock' = [lock EXCEPT ![loop[c]] = c] /\ w = "connect"
              /\ Free(c) /\ Cached(c) \notin alive
    PROVE  RegInv'
<1> USE CallerAssumption
<1>0. /\ pc \in [Caller -> Where] /\ lock \in [Loop -> Caller \cup {NoOne}]
      /\ loop \in [Caller -> Loop] /\ loop[c] \in Loop
      /\ made \in [Loop -> Nat] /\ made[loop[c]] \in Nat
      /\ pc' = [pc EXCEPT ![c] = w]
      /\ NoOne \notin Caller
  BY DEF RegInv, TypeOK, Where, Goto, Caller
<1>1. lock' \in [Loop -> Caller \cup {NoOne}]
  BY <1>0 DEF Unlock
<1>2. /\ using' \in [Caller -> Nat]
      /\ \A d \in Caller : using'[d] <= made'[loop'[d]]
  BY <1>0 DEF RegInv, TypeOK, conns
<1>3. TypeOK'
  BY <1>0, <1>1, <1>2, MadeElements
     DEF RegInv, TypeOK, Where, conns, sync, ending
<1>4. LockInv'
  <2> SUFFICES ASSUME NEW d \in Caller, pc'[d] = "connect"
               PROVE  lock'[loop[d]] = d /\ Cached(d) \notin alive
    BY DEF LockInv, Cached, conns
  <2>1. CASE d = c
    BY <1>0, <2>1
  <2>2. CASE d # c
    <3>1. lock[loop[d]] = d /\ Cached(d) \notin alive /\ loop[d] \in Loop
      BY <1>0, <2>2 DEF RegInv, LockInv
    <3> QED
      BY <1>0, <2>2, <3>1 DEF Unlock, Free
  <2> QED
    BY <2>1, <2>2
<1>5. IdleInv'
  BY <1>0 DEF RegInv, TypeOK, IdleInv
<1>6. SyncInv' /\ ConnectionsAccounted' /\ ShutdownInv'
  BY MadeElements DEF RegInv, SyncInv, ConnectionsAccounted, ShutdownInv, conns, sync, ending
<1> QED
  BY <1>3, <1>4, <1>5, <1>6 DEF RegInv

(* One step per operation of a call that leaves the cache alone.           *)
LEMMA CallSteps ==
    ASSUME RegInv, NEW c \in Caller,
           \/ Invoke(c) \/ Submit(c) \/ GetCached(c) \/ GetMissing(c)
           \/ ConnectFails(c) \/ CallOk(c) \/ CallFails(c) \/ Cancelled(c)
    PROVE  RegInv'
<1> USE RegistryBounds
<1>0. /\ using \in [Caller -> Nat] /\ using[c] \in 0..made[loop[c]]
      /\ attempt \in [Caller -> 0..(MaxAttempts - 1)] /\ faults \in 0..MaxFaults
      /\ loop[c] \in Loop /\ byLoop[loop[c]] \in 0..made[loop[c]]
      /\ 0 \in 0..made[loop[c]] /\ 0 \in 0..(MaxAttempts - 1)
  BY DEF RegInv, TypeOK
<1>1. using = [using EXCEPT ![c] = using[c]]
  BY <1>0
<1>2. Fault => faults' \in 0..MaxFaults
  BY <1>0 DEF Fault
<1>3. \A a \in 0..(MaxAttempts - 1) :
         [attempt EXCEPT ![c] = a] \in [Caller -> 0..(MaxAttempts - 1)]
  BY <1>0
<1>4. \A w \in {"get", "connect", "call", "drop", "ok", "failed", "cancelled"} :
         w \in Where \ {"idle"}
  BY DEF Where, Ended
<1>5. CASE Invoke(c) \/ Submit(c)
  BY <1>0, <1>1, <1>4, <1>5, CallMoves DEF Invoke, Submit, cache
<1>6. CASE GetCached(c)
  BY <1>0, <1>4, <1>6, CallMoves DEF GetCached, cache
<1>7. CASE GetMissing(c)
  BY <1>0, <1>1, <1>4, <1>7, CallMoves DEF GetMissing
<1>8. CASE ConnectFails(c)
  BY <1>0, <1>2, <1>3, <1>4, <1>8, CallMoves DEF ConnectFails, Forget
<1>9. CASE CallOk(c)
  BY <1>0, <1>3, <1>4, <1>9, CallMoves DEF CallOk, Forget, cache
<1>10. CASE CallFails(c)
  <2>1. faults' \in 0..MaxFaults
    BY <1>0, <1>2, <1>10 DEF CallFails
  <2>2. CASE Goto(c, "failed") /\ Forget(c)
    BY <1>0, <1>3, <1>4, <1>10, <2>1, <2>2, CallMoves DEF CallFails, Forget, cache
  <2>3. CASE /\ MayRetry(c) /\ Goto(c, "drop")
             /\ attempt' = [attempt EXCEPT ![c] = @ + 1]
             /\ using' = [using EXCEPT ![c] = 0]
    <3>1. attempt[c] + 1 \in 0..(MaxAttempts - 1)
      BY <1>0, <2>3 DEF MayRetry
    <3> QED
      BY <1>0, <1>3, <1>4, <1>10, <2>1, <2>3, <3>1, CallMoves DEF CallFails, cache
  <2> QED
    BY <1>10, <2>2, <2>3 DEF CallFails
<1>11. CASE Cancelled(c)
  BY <1>0, <1>3, <1>4, <1>11, CallMoves DEF Cancelled, Forget
<1> QED
  BY <1>5, <1>6, <1>7, <1>8, <1>9, <1>10, <1>11

(* get() makes a connection: the call holds the lock, and the entry it     *)
(* replaces is dead.                                                       *)
LEMMA ConnectedStep ==
    ASSUME RegInv, NEW c \in Caller, Connected(c)
    PROVE  RegInv'
<1> USE CallerAssumption
<1> DEFINE l == loop[c]
           n == made[l] + 1
           new == <<l, n>>
<1>0. /\ l \in Loop /\ n \in Nat \ {0} /\ n - 1 = made[l]
      /\ pc[c] = "connect" /\ pc' = [pc EXCEPT ![c] = "call"]
      /\ made' = [made EXCEPT ![l] = n] /\ alive' = alive \cup {new}
      /\ byLoop' = [byLoop EXCEPT ![l] = n]
      /\ using' = [using EXCEPT ![c] = n]
      /\ lock' = [lock EXCEPT ![l] = NoOne]
      /\ UNCHANGED <<attempt, loop, gone, sync, ending, faults>>
      /\ NoOne \notin Caller
  BY DEF RegInv, TypeOK, Connected, Runs, Goto, Caller
<1> HIDE DEF l, n, new
<1>1. lock[l] = c /\ <<l, byLoop[l]>> \notin alive
  BY <1>0 DEF RegInv, LockInv, Cached, l
<1>2. made' \in [Loop -> Nat] /\ \A m \in Loop : made'[m] = IF m = l THEN n ELSE made[m]
  BY <1>0 DEF RegInv, TypeOK
<1>3. new \notin Made /\ Made' = Made \cup {new}
  <2>1. \A k : k \in Made <=> \E m \in Loop : \E i \in 1..made[m] : k = <<m, i>>
    BY MadeElements
  <2>2. \A k : k \in Made' <=> \E m \in Loop : \E i \in 1..made'[m] : k = <<m, i>>
    BY DEF Made
  <2>3. \A m \in Loop : \A i : i \in 1..made'[m] <=> (i \in 1..made[m] \/ (m = l /\ i = n))
    BY <1>0, <1>2 DEF RegInv, TypeOK
  <2>4. \A k : k \in Made' <=> (k \in Made \/ k = new)
    BY <1>0, <2>1, <2>2, <2>3 DEF new
  <2>5. new \notin Made
    <3>1. n \notin 1..made[l]
      BY <1>0
    <3> QED
      BY <2>1, <3>1 DEF new
  <2> QED
    BY <2>4, <2>5
<1>4. TypeOK'
  <2>1. \A m \in Loop : made[m] \in Nat /\ made'[m] \in Nat /\ made[m] <= made'[m]
    BY <1>0, <1>2 DEF RegInv, TypeOK
  <2>2. /\ using' \in [Caller -> Nat]
        /\ \A d \in Caller : using'[d] <= made'[loop'[d]]
    <3>1. using' \in [Caller -> Nat]
      BY <1>0 DEF RegInv, TypeOK
    <3>2. ASSUME NEW d \in Caller PROVE using'[d] <= made'[loop[d]]
      <4>1. CASE d = c
        BY <1>0, <1>2, <4>1 DEF RegInv, TypeOK, l
      <4>2. CASE d # c
        <5>1. using'[d] = using[d] /\ using[d] <= made[loop[d]] /\ loop[d] \in Loop
              /\ using[d] \in Nat
          BY <1>0, <4>2 DEF RegInv, TypeOK
        <5> QED
          BY <2>1, <5>1
      <4> QED
        BY <4>1, <4>2
    <3> QED
      BY <1>0, <3>1, <3>2
  <2>3. byLoop' \in [Loop -> Nat] /\ \A m \in Loop : byLoop'[m] <= made'[m]
    BY <1>0, <1>2 DEF RegInv, TypeOK
  <2>4. \A s \in {alive', gone', snapshot', old', missed'} : s \subseteq Made'
    BY <1>0, <1>3 DEF RegInv, TypeOK, ending
  <2>5. lock' \in [Loop -> Caller \cup {NoOne}]
    BY <1>0 DEF RegInv, TypeOK
  <2>6. /\ pc' \in [Caller -> {"idle", "submit", "get", "connect", "call", "drop"} \cup Ended]
        /\ attempt' \in [Caller -> 0..(MaxAttempts - 1)]
        /\ loop' \in [Caller -> Loop]
    BY <1>0 DEF RegInv, TypeOK
  <2> QED
    BY <1>0, <1>2, <2>2, <2>3, <2>4, <2>5, <2>6 DEF RegInv, TypeOK, sync, ending
<1>5. LockInv'
  <2> SUFFICES ASSUME NEW d \in Caller, pc'[d] = "connect"
               PROVE  lock'[loop[d]] = d /\ <<loop[d], byLoop'[loop[d]]>> \notin alive'
    BY <1>0 DEF LockInv, Cached
  <2>1. /\ d # c /\ lock[loop[d]] = d /\ loop[d] \in Loop
        /\ <<loop[d], byLoop[loop[d]]>> \notin alive
    BY <1>0 DEF RegInv, TypeOK, LockInv, Cached
  <2>2. loop[d] # l
    BY <1>1, <2>1
  <2> QED
    BY <1>0, <2>1, <2>2 DEF RegInv, TypeOK, new
<1>6. ConnectionsAccounted'
  <2>1. alive' \cup gone' = Made'
    BY <1>0, <1>3 DEF RegInv, ConnectionsAccounted
  <2>2. ASSUME NEW k \in alive'
        PROVE  byLoop'[k[1]] = k[2] \/ k \in snapshot \cup missed
    <3>1. CASE k = new
      BY <1>0, <3>1 DEF RegInv, TypeOK, new
    <3>2. CASE k \in alive
      <4>1. PICK m \in Loop : \E i \in 1..made[m] : k = <<m, i>>
        BY <3>2, MadeElements DEF RegInv, TypeOK
      <4>2. byLoop[m] = k[2] \/ k \in snapshot \cup missed
        BY <3>2, <4>1 DEF RegInv, ConnectionsAccounted
      <4>3. m = l => k[2] # byLoop[l]
        BY <1>1, <3>2, <4>1
      <4> QED
        BY <1>0, <4>1, <4>2, <4>3 DEF RegInv, TypeOK
    <3> QED
      BY <1>0, <2>2, <3>1, <3>2
  <2> QED
    BY <1>0, <2>1, <2>2 DEF ConnectionsAccounted, ending
<1>7. IdleInv'
  BY <1>0 DEF RegInv, TypeOK, IdleInv
<1>8. SyncInv' /\ ShutdownInv'
  <2>1. alive' \cap old' = alive \cap old
    BY <1>0, <1>3 DEF RegInv, TypeOK, ending
  <2> QED
    BY <1>0, <2>1 DEF RegInv, SyncInv, ShutdownInv, sync, ending
<1> QED
  BY <1>4, <1>5, <1>6, <1>7, <1>8 DEF RegInv

(* drop_current() takes out of the cache only what is dead, and only when  *)
(* nobody connects.                                                        *)
LEMMA DropStep ==
    ASSUME RegInv, NEW c \in Caller, Drop(c)
    PROVE  RegInv'
<1> USE CallerAssumption
<1> DEFINE l == loop[c]
<1>0. /\ l \in Loop /\ pc' = [pc EXCEPT ![c] = "get"] /\ lock[l] = NoOne
      /\ UNCHANGED <<attempt, loop, using, lock, sync, ending, faults, conns>>
      /\ NoOne \notin Caller
      /\ byLoop' = IF <<l, byLoop[l]>> \in alive THEN byLoop ELSE [byLoop EXCEPT ![l] = 0]
  BY DEF RegInv, TypeOK, Drop, Runs, Goto, Free, DropDead, Cached, Caller
<1> HIDE DEF l
<1>1. TypeOK'
  <2>1. byLoop' \in [Loop -> Nat] /\ \A m \in Loop : byLoop'[m] <= made[m]
    BY <1>0 DEF RegInv, TypeOK
  <2> QED
    BY <1>0, <2>1, MadeElements DEF RegInv, TypeOK, sync, ending, conns
<1>2. LockInv'
  <2> SUFFICES ASSUME NEW d \in Caller, pc'[d] = "connect"
               PROVE  lock[loop[d]] = d /\ <<loop[d], byLoop'[loop[d]]>> \notin alive
    BY <1>0 DEF LockInv, Cached, conns
  <2>1. /\ d # c /\ lock[loop[d]] = d /\ loop[d] \in Loop
        /\ <<loop[d], byLoop[loop[d]]>> \notin alive
    BY <1>0 DEF RegInv, TypeOK, LockInv, Cached
  <2>2. loop[d] # l
    BY <1>0, <2>1
  <2> QED
    BY <1>0, <2>1, <2>2 DEF RegInv, TypeOK
<1>3. ConnectionsAccounted'
  <2>1. ASSUME NEW k \in alive
        PROVE  byLoop'[k[1]] = k[2] \/ k \in snapshot \cup missed
    <3>1. PICK m \in Loop : \E i \in 1..made[m] : k = <<m, i>>
      BY <2>1, MadeElements DEF RegInv, TypeOK
    <3>2. byLoop[m] = k[2] \/ k \in snapshot \cup missed
      BY <2>1, <3>1 DEF RegInv, ConnectionsAccounted
    <3> QED
      BY <1>0, <2>1, <3>1, <3>2 DEF RegInv, TypeOK
  <2> QED
    BY <1>0, <2>1, MadeElements DEF RegInv, ConnectionsAccounted, conns, ending
<1>4. SyncInv' /\ ShutdownInv'
  BY <1>0 DEF RegInv, SyncInv, ShutdownInv, sync, ending, conns
<1>5. IdleInv'
  BY <1>0 DEF RegInv, TypeOK, IdleInv
<1> QED
  BY <1>1, <1>2, <1>3, <1>4, <1>5 DEF RegInv

(* _run_sync gets the synchronous loop or makes it.                        *)
LEMMA RunSyncStep ==
    ASSUME RegInv, NEW c \in Caller, RunSync(c)
    PROVE  RegInv'
<1>0. /\ pc[c] = "idle" /\ pc' = [pc EXCEPT ![c] = "submit"]
      /\ syncLoop' = SyncLoop /\ loop' = [loop EXCEPT ![c] = SyncLoop]
      /\ UNCHANGED <<attempt, using, cache, conns, stopped, ending, faults>>
  BY DEF RunSync, Goto
<1>1. SyncInv' /\ SyncLoop \in Loop
  BY <1>0 DEF RegInv, SyncInv, SyncLoop, Loop, ending
<1>2. using[c] = 0 /\ 0 \in Nat
  BY <1>0 DEF RegInv, IdleInv
<1>3. \A d \in Caller : using[d] <= made[loop'[d]]
  <2>1. \A d \in Caller : loop'[d] = IF d = c THEN SyncLoop ELSE loop[d]
    BY <1>0 DEF RegInv, TypeOK
  <2> QED
    BY <1>1, <1>2, <2>1 DEF RegInv, TypeOK
<1>4. TypeOK'
  BY <1>0, <1>1, <1>3, MadeElements DEF RegInv, TypeOK, cache, conns, ending
<1>5. LockInv'
  <2>1. \A d \in Caller : pc'[d] = "connect" => pc[d] = "connect" /\ loop'[d] = loop[d]
    BY <1>0 DEF RegInv, TypeOK
  <2> QED
    BY <1>0, <2>1 DEF RegInv, LockInv, Cached, cache, conns
<1>6. IdleInv'
  BY <1>0 DEF RegInv, TypeOK, IdleInv
<1>7. ConnectionsAccounted' /\ ShutdownInv'
  BY <1>0, MadeElements DEF RegInv, ConnectionsAccounted, ShutdownInv, cache, conns, ending
<1> QED
  BY <1>1, <1>4, <1>5, <1>6, <1>7 DEF RegInv

(* Connections that go leave the others accounted for.                     *)
LEMMA FewerAlive ==
    ASSUME RegInv, NEW k, k \in alive \cup snapshot,
           alive' = alive \ {k}, gone' = gone \cup {k},
           UNCHANGED <<made, byLoop, missed, old, closer>>,
           snapshot' = snapshot \/ (snapshot' = snapshot \ {k} /\ closer = "close")
    PROVE  ConnectionsAccounted' /\ ShutdownInv' /\ k \in Made
<1>0. Made' = Made
  BY MadeElements
<1>1. k \in Made
  BY DEF RegInv, TypeOK
<1>2. ConnectionsAccounted'
  BY <1>0, <1>1 DEF RegInv, ConnectionsAccounted
<1>3. ShutdownInv'
  BY DEF RegInv, ShutdownInv
<1> QED
  BY <1>1, <1>2, <1>3

(* A connection is lost.                                                   *)
LEMMA ConnLostStep ==
    ASSUME RegInv, NEW k \in alive, ConnLost(k)
    PROVE  RegInv'
<1> USE RegistryBounds
<1>0. /\ alive' = alive \ {k} /\ gone' = gone \cup {k} /\ faults' \in 0..MaxFaults
      /\ UNCHANGED <<calls, cache, made, sync, ending>>
  BY DEF ConnLost, Fault, RegInv, TypeOK
<1>1. ConnectionsAccounted' /\ ShutdownInv' /\ k \in Made
  BY <1>0, FewerAlive DEF cache, ending
<1>2. TypeOK'
  BY <1>0, <1>1, MadeElements DEF RegInv, TypeOK, calls, cache, sync, ending
<1>3. SyncInv' /\ LockInv' /\ IdleInv'
  BY <1>0 DEF RegInv, SyncInv, LockInv, IdleInv, Cached, calls, cache, sync, ending
<1> QED
  BY <1>1, <1>2, <1>3 DEF RegInv

(* The entries of the cache are the connections cached.                    *)
LEMMA EntriesAre ==
    \A k : k \in Entries <=> k \in Made /\ k[1] \in Loop /\ k[2] = byLoop[k[1]]
<1>1. \A k \in Made : \E l \in Loop : \E n : k = <<l, n>>
  BY MadeElements
<1> QED
  BY <1>1 DEF Entries

(* One step per step of aclose and aclose_sync.                            *)
LEMMA CloserSteps ==
    ASSUME RegInv,
           \/ Aclose \/ AcloseSync \/ AcloseSnapshot \/ AcloseClear \/ AcloseReturn
           \/ Swap \/ Stop \/ \E k \in snapshot : AcloseOne(k)
    PROVE  RegInv'
<1> USE DEF RegInv
<1>1. CASE Aclose \/ AcloseSync
  <2>1. PICK l \in {0, SyncLoop} :
          /\ closer = "no" /\ closer' = "lock" /\ closerLoop' = l /\ old' = alive
          /\ UNCHANGED <<calls, cache, conns, stopped, snapshot, stopping, missed, faults>>
          /\ \/ l = 0 /\ syncLoop' = syncLoop
             \/ l = SyncLoop /\ syncLoop' = SyncLoop
    BY <1>1 DEF Aclose, AcloseSync, Begin
  <2>2. SyncInv' /\ SyncLoop \in Loop
    BY <2>1 DEF SyncInv, SyncLoop, Loop
  <2>3. TypeOK'
    BY <2>1, <2>2, MadeElements DEF TypeOK, calls, cache, conns, Loop
  <2>4. LockInv' /\ IdleInv' /\ ConnectionsAccounted' /\ ShutdownInv'
    BY <2>1, MadeElements DEF LockInv, IdleInv, ConnectionsAccounted, ShutdownInv, Cached,
                calls, cache, conns
  <2> QED
    BY <2>2, <2>3, <2>4
<1>2. CASE AcloseSnapshot
  <2>1. Entries \subseteq Made
    BY EntriesAre
  <2>2. TypeOK'
    BY <1>2, <2>1, MadeElements DEF AcloseSnapshot, TypeOK, calls, cache, conns, sync
  <2>3. SyncInv' /\ LockInv' /\ IdleInv'
    BY <1>2 DEF AcloseSnapshot, SyncInv, LockInv, IdleInv, Cached, calls, cache, conns, sync
  <2>4. snapshot = {} /\ missed = {}
    BY <1>2 DEF AcloseSnapshot, ShutdownInv
  <2>5. alive \subseteq Entries
    <3> SUFFICES ASSUME NEW k \in alive PROVE k \in Entries
      OBVIOUS
    <3>1. k \in Made /\ k[1] \in Loop
      BY MadeElements DEF TypeOK
    <3> QED
      BY <2>4, <3>1, EntriesAre DEF ConnectionsAccounted
  <2>6. ConnectionsAccounted' /\ ShutdownInv'
    BY <1>2, <2>4, <2>5, MadeElements
       DEF AcloseSnapshot, ConnectionsAccounted, ShutdownInv, conns, cache
  <2> QED
    BY <2>2, <2>3, <2>6
<1>3. CASE AcloseClear
  <2>0. /\ missed' = Entries \ snapshot /\ closer = "clear" /\ closer' = "close"
        /\ byLoop' = [l \in Loop |-> 0] /\ missed = {}
        /\ UNCHANGED <<calls, lock, conns, sync, closerLoop, snapshot, stopping, old, faults>>
    BY <1>3 DEF AcloseClear, Entries, ShutdownInv
  <2>1. Entries \subseteq Made
    BY EntriesAre
  <2>2. TypeOK'
    <3>1. byLoop' \in [Loop -> Nat] /\ \A l \in Loop : byLoop'[l] <= made[l]
      BY <2>0 DEF TypeOK
    <3> QED
      BY <2>0, <2>1, <3>1, MadeElements DEF TypeOK, calls, conns, sync
  <2>3. SyncInv' /\ IdleInv' /\ ShutdownInv'
    BY <2>0 DEF SyncInv, IdleInv, ShutdownInv, calls, conns, sync
  <2>4. LockInv'
    <3>1. \A l \in Loop : <<l, 0>> \notin alive /\ byLoop'[l] = 0
      BY <2>0, MadeElements DEF TypeOK
    <3>2. \A c \in Caller : loop[c] \in Loop
      BY DEF TypeOK
    <3> QED
      BY <2>0, <3>1, <3>2 DEF LockInv, Cached, calls, conns
  <2>5. ConnectionsAccounted'
    <3>1. ASSUME NEW k \in alive PROVE k \in snapshot \cup missed'
      <4>1. k \in Made /\ k[1] \in Loop
        BY MadeElements DEF TypeOK
      <4> QED
        BY <2>0, <4>1, EntriesAre DEF ConnectionsAccounted
    <3> QED
      BY <2>0, <3>1, MadeElements DEF ConnectionsAccounted, conns
  <2> QED
    BY <2>2, <2>3, <2>4, <2>5
<1>4. CASE AcloseReturn
  <2>1. TypeOK'
    BY <1>4, MadeElements DEF AcloseReturn, TypeOK, calls, cache, conns, sync
  <2>2. SyncInv' /\ LockInv' /\ IdleInv'
    BY <1>4 DEF AcloseReturn, SyncInv, LockInv, IdleInv, Cached, calls, cache, conns, sync
  <2>3. ConnectionsAccounted' /\ ShutdownInv'
    BY <1>4, MadeElements DEF AcloseReturn, ConnectionsAccounted, ShutdownInv, conns, cache
  <2> QED
    BY <2>1, <2>2, <2>3
<1>5. CASE Swap
  <2>1. SyncInv'
    BY <1>5 DEF Swap, SyncInv, Loop
  <2>2. TypeOK'
    BY <1>5, <2>1, MadeElements DEF Swap, TypeOK, SyncInv, Loop, calls, cache, conns
  <2>3. LockInv' /\ IdleInv' /\ ConnectionsAccounted' /\ ShutdownInv'
    BY <1>5, MadeElements DEF Swap, LockInv, IdleInv, Cached, ConnectionsAccounted,
                ShutdownInv, calls, cache, conns
  <2> QED
    BY <2>1, <2>2, <2>3
<1>6. CASE Stop
  <2>1. TypeOK'
    BY <1>6, MadeElements DEF Stop, TypeOK, SyncInv, calls, cache, conns, Loop
  <2>2. SyncInv' /\ LockInv' /\ IdleInv'
    BY <1>6 DEF Stop, SyncInv, LockInv, IdleInv, Cached, calls, cache, conns
  <2>3. ConnectionsAccounted' /\ ShutdownInv'
    BY <1>6, MadeElements DEF Stop, ConnectionsAccounted, ShutdownInv, conns, cache
  <2> QED
    BY <2>1, <2>2, <2>3
<1>7. ASSUME NEW k \in snapshot, AcloseOne(k) PROVE RegInv'
  <2>1. ConnectionsAccounted' /\ ShutdownInv' /\ k \in Made
    BY <1>7, FewerAlive DEF AcloseOne, cache
  <2>2. TypeOK'
    BY <1>7, <2>1, MadeElements DEF AcloseOne, TypeOK, calls, cache, sync
  <2>3. SyncInv' /\ LockInv' /\ IdleInv'
    BY <1>7 DEF AcloseOne, SyncInv, LockInv, IdleInv, Cached, calls, cache, sync
  <2> QED
    BY <2>1, <2>2, <2>3
<1> QED
  BY <1>1, <1>2, <1>3, <1>4, <1>5, <1>6, <1>7

(* A fan-out starts its targets.                                           *)
LEMMA StartStep ==
    ASSUME RegInv, Start
    PROVE  RegInv'
<1>0. /\ pc' = [c \in Caller |-> IF c \in Target THEN "get" ELSE pc[c]]
      /\ UNCHANGED <<attempt, loop, using, cache, conns, sync, ending, faults>>
  BY DEF Start
<1>1. TypeOK'
  BY <1>0, MadeElements DEF RegInv, TypeOK, cache, conns, sync, ending
<1>2. LockInv' /\ IdleInv'
  BY <1>0 DEF RegInv, LockInv, IdleInv, Cached, cache, conns
<1>3. SyncInv' /\ ConnectionsAccounted' /\ ShutdownInv'
  BY <1>0, MadeElements DEF RegInv, SyncInv, ConnectionsAccounted, ShutdownInv, cache, conns,
                            sync, ending
<1> QED
  BY <1>1, <1>2, <1>3 DEF RegInv

(* The invariant of the registry holds at first ...                        *)
LEMMA RegInvInit == Init => RegInv
<1> SUFFICES ASSUME Init PROVE RegInv
  OBVIOUS
<1> USE CallerAssumption, RegistryBounds DEF Init, RegInit
<1>1. Made = {}
  BY MadeElements
<1>2. TypeOK
  BY <1>1 DEF TypeOK, Loop
<1>3. SyncInv /\ LockInv /\ IdleInv /\ ShutdownInv
  BY DEF SyncInv, LockInv, IdleInv, ShutdownInv, Loop
<1>4. ConnectionsAccounted
  BY <1>1 DEF ConnectionsAccounted
<1> QED
  BY <1>2, <1>3, <1>4 DEF RegInv

(* ... and every step keeps it, one of the registry or of the fan-out.     *)
LEMMA RegInvNext == RegInv /\ [Next]_vars => RegInv'
<1> SUFFICES ASSUME RegInv, [Next]_vars PROVE RegInv'
  OBVIOUS
<1>1. CASE UNCHANGED regvars
  <2>1. TypeOK'
    BY <1>1, MadeElements DEF RegInv, TypeOK, regvars, calls, cache, conns, sync, ending
  <2>2. SyncInv' /\ LockInv' /\ IdleInv'
    BY <1>1 DEF RegInv, SyncInv, LockInv, IdleInv, Cached, regvars, calls, cache, conns, sync, ending
  <2>3. ConnectionsAccounted' /\ ShutdownInv'
    BY <1>1, MadeElements DEF RegInv, ConnectionsAccounted, ShutdownInv, regvars, cache, conns, ending
  <2> QED
    BY <2>1, <2>2, <2>3 DEF RegInv
<1>2. CASE UNCHANGED vars \/ FanStep \/ Abandon
  <2>1. UNCHANGED regvars
    BY <1>2 DEF vars, FanStep, GatherReturns, GatherRaises, Wait, Yield, Abandon
  <2> QED
    BY <1>1, <2>1
<1>3. CASE Start
  BY <1>3, StartStep
<1>4. CASE \E t \in Target : TargetCancelled(t)
  BY <1>4, CallSteps, TargetAssumption DEF TargetCancelled, Caller
<1>5. CASE \E t \in Task \ Target : Invoke(t) /\ UNCHANGED fanvars
  BY <1>5, CallSteps DEF Caller
<1>6. CASE RegNext
  BY <1>6, CallSteps, ConnectedStep, DropStep, RunSyncStep, ConnLostStep, CloserSteps
     DEF RegNext, CallStep, CloserStep
<1> QED
  BY <1>2, <1>3, <1>4, <1>5, <1>6 DEF Next

(* For any tasks and threads, whatever is lost, retried, cancelled or shut *)
(* down: every live connection of _ConnectionRegistry is in the cache, or  *)
(* in the hands of the shutdown, and none is closed under its users.       *)
THEOREM ConnectionsAreAccounted == Spec => []ConnectionsAccounted
<1>1. RegInv => ConnectionsAccounted
  BY DEF RegInv
<1> QED
  BY <1>1, RegInvInit, RegInvNext, PTL DEF Spec

(* For any tasks and threads: a shutdown leaves open no connection that    *)
(* was open when it was called.                                            *)
THEOREM ShutdownIsComplete == Spec => []ShutdownComplete
<1>1. RegInv => ShutdownComplete
  BY DEF RegInv, ShutdownInv, ShutdownComplete
<1> QED
  BY <1>1, RegInvInit, RegInvNext, PTL DEF Spec

-----------------------------------------------------------------------------
(* The fan-out *)

FanType ==
    /\ kind \in {"none", "ainvoke", "astream"} /\ keep \in BOOLEAN
    /\ fan \in {"idle", "wait", "yield", "returned", "raised"}
    /\ pending \subseteq Target /\ batch \subseteq Target /\ asked \subseteq Target
    /\ out \in Seq(Target)

\* Every target of astream is pending, or has ended and is in the batch, or was
\* handed on: once, and in one of the three places only.
Handed ==
    /\ \A t \in Target \ pending : Over(t)
    /\ batch \cap pending = {}
    /\ ToSet(out) \cap (pending \cup batch) = {}
    /\ fan \in {"wait", "yield"} => Target \subseteq pending \cup batch \cup ToSet(out)
    /\ fan = "wait" => batch = {}

\* The inductive invariant of the fan-out.
FanInv ==
    /\ FanType
    /\ fan = "idle" => kind = "none" /\ out = <<>> /\ batch = {}
    /\ fan # "idle" => kind \in {"ainvoke", "astream"}
    /\ fan \in {"idle", "wait", "yield"} => asked = {}
    /\ kind = "ainvoke" => pending = Target /\ batch = {} /\ fan # "yield"
    /\ (kind = "ainvoke" /\ fan # "returned") => out = <<>>
    /\ kind = "astream" => Handed
    /\ IsInjective(out)
    /\ fan = "returned" => ToSet(out) = Target
    /\ (fan = "raised" /\ (kind = "astream" \/ asked # {})) => pending \subseteq asked

(* SetToSeq lists a finite set: every element once.                        *)
LEMMA SetToSeqLists ==
    ASSUME NEW S, IsFiniteSet(S)
    PROVE  /\ SetToSeq(S) \in Seq(S) /\ IsInjective(SetToSeq(S))
           /\ ToSet(SetToSeq(S)) = S
<1> DEFINE n == Cardinality(S)
           f == SetToSeq(S)
<1>1. n \in Nat /\ Bijection(1..n, S) # {}
  BY FS_CardinalityType DEF ExistsBijection
<1>2. \E g \in [1..n -> S] : IsInjective(g)
  BY <1>1 DEF Bijection, Injection
<1>3. f \in [1..n -> S] /\ IsInjective(f)
  BY <1>2 DEF SetToSeq
<1>4. f \in Injection(1..n, S)
  BY <1>3 DEF Injection
<1>5. Cardinality(1..n) = n
  BY <1>1, FS_Interval
<1>6. f \in Surjection(1..n, S)
  BY <1>4, <1>5, FS_Injection
<1>7. ToSet(f) = S
  BY <1>3, <1>6 DEF Surjection, ToSet
<1>8. f \in Seq(S)
  BY <1>1, <1>3
<1> QED
  BY <1>3, <1>7, <1>8

(* Appending a new element to a list without repetitions.                  *)
LEMMA AppendNew ==
    ASSUME NEW S, NEW s \in Seq(S), NEW e \in S
    PROVE  /\ Append(s, e) \in Seq(S) /\ ToSet(Append(s, e)) = ToSet(s) \cup {e}
           /\ (IsInjective(s) /\ e \notin ToSet(s)) => IsInjective(Append(s, e))
<1> DEFINE r == Append(s, e)
<1>1. /\ r \in Seq(S) /\ Len(s) \in Nat /\ Len(r) = Len(s) + 1 /\ r[Len(s) + 1] = e
      /\ \A i \in 1..Len(s) : r[i] = s[i]
  BY AppendProperties
<1>2. DOMAIN s = 1..Len(s) /\ DOMAIN r = 1..(Len(s) + 1)
  BY <1>1
<1> HIDE DEF r
<1>3. \A i : i \in DOMAIN r <=> (i \in DOMAIN s \/ i = Len(s) + 1)
  BY <1>1, <1>2
<1>4. ToSet(r) = ToSet(s) \cup {e}
  BY <1>1, <1>2, <1>3 DEF ToSet
<1>5. ASSUME IsInjective(s), e \notin ToSet(s) PROVE IsInjective(r)
  BY <1>1, <1>2, <1>3, <1>5 DEF IsInjective, ToSet
<1> QED
  BY <1>1, <1>4, <1>5 DEF r

(* A call that is over stays over, until a new one is made.                *)
LEMMA OverStays ==
    ASSUME RegInv, [Next]_vars, ~Start
    PROVE  \A t \in Target : Over(t) => Over(t)'
<1> USE TargetAssumption DEF RegInv, TypeOK, Over, Ended, Goto, Runs
<1>1. CASE UNCHANGED vars \/ FanStep \/ Abandon
  BY <1>1 DEF vars, regvars, calls, FanStep, GatherReturns, GatherRaises, Wait, Yield, Abandon
<1>2. CASE \E t \in Target : TargetCancelled(t)
  BY <1>2 DEF TargetCancelled, Cancelled, Caller
<1>3. CASE \E t \in Task \ Target : Invoke(t) /\ UNCHANGED fanvars
  BY <1>3 DEF Invoke, Caller
<1>4. ASSUME NEW c \in Caller, RunSync(c) \/ CallStep(c)
      PROVE  \A t \in Target : Over(t) => Over(t)'
  BY <1>4 DEF RunSync, CallStep, Submit, GetCached, GetMissing, Connected, ConnectFails,
              CallOk, CallFails, Drop, Caller
<1>5. CASE (\E k \in alive : ConnLost(k)) \/ Aclose \/ AcloseSync \/ CloserStep
  BY <1>5 DEF ConnLost, Aclose, AcloseSync, Begin, CloserStep, AcloseSnapshot, AcloseClear,
              AcloseReturn, Swap, Stop, AcloseOne, calls
<1> QED
  BY <1>1, <1>2, <1>3, <1>4, <1>5 DEF Next, RegNext

(* Every step keeps the invariant of the fan-out: one step per action.     *)
LEMMA FanInvNext == RegInv /\ FanInv /\ [Next]_vars => FanInv'
<1> SUFFICES ASSUME RegInv, FanInv, [Next]_vars PROVE FanInv'
  OBVIOUS
<1> USE TargetAssumption
<1>0. IsInjective(<<>>) /\ ToSet(<<>>) = {}
  BY DEF IsInjective, ToSet
<1>1. CASE Start
  <2>1. /\ fan = "idle" /\ fan' = "wait" /\ kind' \in {"ainvoke", "astream"}
        /\ keep' \in BOOLEAN /\ pending' = Target /\ UNCHANGED <<batch, out, asked>>
    BY <1>1 DEF Start
  <2>2. batch = {} /\ out = <<>> /\ asked = {}
    BY <2>1 DEF FanInv
  <2> QED
    BY <1>0, <2>1, <2>2 DEF FanInv, FanType, Handed
<1>2. CASE UNCHANGED fanvars /\ ~Start
  BY <1>2, OverStays DEF fanvars, FanInv, FanType, Handed
<1>3. CASE GatherReturns
  <2>1. SetToSeq(Target) \in Seq(Target) /\ IsInjective(SetToSeq(Target))
        /\ ToSet(SetToSeq(Target)) = Target
    BY SetToSeqLists
  <2> QED
    BY <1>3, <2>1 DEF GatherReturns, FanInv, FanType
<1>4. CASE GatherRaises
  BY <1>4 DEF GatherRaises, FanInv, FanType
<1>5. CASE Wait
  <2>1. UNCHANGED pc
    BY <1>5 DEF Wait, regvars, calls
  <2> QED
    BY <1>5, <2>1 DEF Wait, WaitFirst, FanInv, FanType, Handed, Over
<1>6. ASSUME NEW t \in batch, Yield(t) PROVE FanInv'
  <2>0. /\ kind = "astream" /\ Handed /\ t \in Target /\ t \notin ToSet(out) /\ t \notin pending
        /\ fan = "yield" /\ batch' = batch \ {t} /\ UNCHANGED <<pc, kind, keep, pending>>
    BY <1>6 DEF Yield, FanInv, FanType, Handed, regvars, calls
  <2>1. CASE Raises(t)
    BY <1>6, <2>0, <2>1 DEF Yield, CancelRest, FanInv, FanType, Handed, Over
  <2>2. CASE ~Raises(t)
    <3>1. /\ out' = Append(out, t) /\ asked' = asked
          /\ fan' = IF batch # {t} THEN "yield" ELSE IF pending # {} THEN "wait" ELSE "returned"
      BY <1>6, <2>2 DEF Yield
    <3>2. /\ out' \in Seq(Target) /\ IsInjective(out') /\ ToSet(out') = ToSet(out) \cup {t}
      BY <2>0, <3>1, AppendNew DEF FanInv, FanType
    <3>3. Handed'
      BY <2>0, <3>1, <3>2 DEF Handed, Over
    <3>4. fan' = "returned" => ToSet(out') = Target
      <4>1. ToSet(out') \subseteq Target
        BY <3>2 DEF ToSet
      <4> QED
        BY <2>0, <3>1, <3>2, <4>1 DEF Handed
    <3> QED
      BY <2>0, <3>1, <3>2, <3>3, <3>4 DEF FanInv, FanType, Handed
  <2> QED
    BY <2>1, <2>2
<1>7. CASE Abandon
  BY <1>7 DEF Abandon, CancelRest, FanInv, FanType, Handed, Over, regvars, calls
<1>8. CASE UNCHANGED fanvars
  BY <1>1, <1>2, <1>8
<1>9. CASE FanStep
  BY <1>3, <1>4, <1>5, <1>6, <1>9 DEF FanStep
<1>10. CASE \E t \in Target : TargetCancelled(t)
  BY <1>8, <1>10 DEF TargetCancelled
<1>11. CASE UNCHANGED vars
  BY <1>8, <1>11 DEF vars
<1> QED
  BY <1>1, <1>7, <1>8, <1>9, <1>10, <1>11 DEF Next

(* The fan-out's invariant holds at first.                                 *)
LEMMA FanInvInit == Init => FanInv
<1>1. IsInjective(<<>>) /\ <<>> \in Seq(Target)
  BY DEF IsInjective
<1> QED
  BY <1>1 DEF Init, FanInv, FanType

(* The state of the registry and of the fan-out is always well-typed.      *)
THEOREM FanoutTypeCorrect == Spec => []FanTypeOK
<1>1. RegInv /\ FanInv => FanTypeOK
  BY DEF RegInv, FanInv, FanType, FanTypeOK
<1> QED
  BY <1>1, RegInvInit, RegInvNext, FanInvInit, FanInvNext, PTL DEF Spec

(* For any targets, whatever ends together, raises or is abandoned: a      *)
(* fan-out that returns hands on every target's outcome once, and one that *)
(* ends early leaves no target running that was not cancelled.             *)
THEOREM FanoutIsComplete == Spec => []FanoutComplete
<1>1. FanInv => FanoutComplete
  <2> SUFFICES ASSUME FanInv PROVE FanoutComplete
    OBVIOUS
  <2>1. ASSUME fan = "raised", kind = "astream" \/ asked # {}, NEW t \in Target
        PROVE  Over(t) \/ t \in asked
    BY <2>1 DEF FanInv, Handed
  <2> QED
    BY <2>1 DEF FanInv, FanoutComplete
<1> QED
  BY <1>1, RegInvInit, RegInvNext, FanInvInit, FanInvNext, PTL DEF Spec
=============================================================================
