------------------------- MODULE ConnectionRegistry -------------------------
(***************************************************************************)
(* runnables._ConnectionRegistry: one cached connection per event loop,    *)
(* used by every call on that loop, with the synchronous wrapper           *)
(* (_run_sync, its loop in a thread of its own) and the shutdown (aclose,  *)
(* aclose_sync).                                                           *)
(*                                                                         *)
(* Abstractions.  Loop 0 is the application's, loop n the n-th one made by *)
(* sync_loop().  What a coroutine does between two awaits is one step on   *)
(* its own loop, but other loops run in other threads, so aclose_all is    *)
(* cut where they can interfere.  A call is its use of the connection: the *)
(* stream in it is RemoteCall's.  There is one socket path, and shutdown   *)
(* is asked for once.                                                      *)
(***************************************************************************)
EXTENDS Naturals

CONSTANTS
    Task,         \* calls of ainvoke on loop 0
    Thread,       \* threads that call invoke
    MaxAttempts,  \* 1 + max_retries
    MaxFaults,    \* bound: lost connections, failed calls and refusals
    NoOne

ASSUME CallerAssumption == Task \cap Thread = {} /\ NoOne \notin Task \cup Thread
ASSUME RegistryBounds == MaxAttempts \in Nat \ {0} /\ MaxFaults \in Nat

Caller == Task \cup Thread
Loop == 0..2   \* there is at most one shutdown, hence a second synchronous loop

VARIABLES
    pc,        \* per call: "idle", "submit", "get", "connect", "call", "drop", or its end
    attempt,   \* attempts failed
    loop,      \* the loop a call runs on
    using,     \* the connection a call has got, the n-th of its loop
    lock,      \* _locks: the holder of each
    byLoop,    \* _by_loop: the n-th connection of the loop, 0 for no entry
    made,      \* connections made on each loop
    alive,     \* connections <<loop, n>> whose is_alive() is true
    gone,      \* history: those lost, and those closed by aclose_all
    syncLoop,  \* _sync_loop, 0 for None
    stopped,   \* loops that have been stopped
    closer,    \* "no", "lock", "clear", "close", "swap", "stop", "done"
    closerLoop, snapshot, stopping,  \* its locals: its loop, conns, sync_loop
    old,       \* history: connections alive when it began
    missed,    \* history: entries cleared that are not in conns
    faults

calls  == <<pc, attempt, loop, using>>
cache  == <<lock, byLoop>>
conns  == <<made, alive, gone>>
sync   == <<syncLoop, stopped>>
ending == <<closer, closerLoop, snapshot, stopping, old, missed>>
regvars == <<calls, cache, conns, sync, ending, faults>>

Ended == {"ok", "failed", "cancelled"}

Made == UNION {{l} \X (1..made[l]) : l \in Loop}

TypeOK ==
    /\ pc \in [Caller -> {"idle", "submit", "get", "connect", "call", "drop"} \cup Ended]
    /\ attempt \in [Caller -> 0..(MaxAttempts - 1)]
    /\ loop \in [Caller -> Loop]
    /\ made \in [Loop -> Nat]
    /\ using \in [Caller -> Nat] /\ \A c \in Caller : using[c] <= made[loop[c]]
    /\ lock \in [Loop -> Caller \cup {NoOne}]
    /\ byLoop \in [Loop -> Nat] /\ \A l \in Loop : byLoop[l] <= made[l]
    /\ \A s \in {alive, gone, snapshot, old, missed} : s \subseteq Made
    /\ syncLoop \in Loop /\ stopping \in Loop /\ closerLoop \in Loop
    /\ stopped \subseteq Loop \ {0}
    /\ closer \in {"no", "lock", "clear", "close", "swap", "stop", "done"}
    /\ faults \in 0..MaxFaults

RegInit ==
    /\ pc = [c \in Caller |-> "idle"] /\ attempt = [c \in Caller |-> 0]
    /\ loop = [c \in Caller |-> 0] /\ using = [c \in Caller |-> 0]
    /\ lock = [l \in Loop |-> NoOne] /\ byLoop = [l \in Loop |-> 0]
    /\ made = [l \in Loop |-> 0] /\ alive = {} /\ gone = {}
    /\ syncLoop = 0 /\ stopped = {}
    /\ closer = "no" /\ closerLoop = 0 /\ snapshot = {} /\ stopping = 0
    /\ old = {} /\ missed = {}
    /\ faults = 0

Fault == faults < MaxFaults /\ faults' = faults + 1

\* The locals of a call that has ended are gone.
Forget(c) == using' = [using EXCEPT ![c] = 0] /\ attempt' = [attempt EXCEPT ![c] = 0]

Goto(c, where) == pc' = [pc EXCEPT ![c] = where]

\* A coroutine runs unless its loop was stopped, or is between two lines of
\* aclose_all that do not await.
Runs(c, where) ==
    /\ pc[c] = where
    /\ loop[c] \notin stopped
    /\ closer = "clear" => loop[c] # closerLoop

-----------------------------------------------------------------------------
(* A call begins *)

Invoke(t) ==
    /\ t \in Task /\ pc[t] = "idle"
    /\ Goto(t, "get")
    /\ UNCHANGED <<attempt, loop, using, cache, conns, sync, ending, faults>>

\* sync_loop(): the loop there is, or a new one.
SyncLoop == IF syncLoop # 0 THEN syncLoop ELSE stopping + 1

\* _run_sync has the loop, and has not submitted its coroutine yet.
RunSync(t) ==
    /\ t \in Thread /\ pc[t] = "idle"
    /\ syncLoop' = SyncLoop /\ loop' = [loop EXCEPT ![t] = SyncLoop]
    /\ Goto(t, "submit")
    /\ UNCHANGED <<attempt, using, cache, conns, stopped, ending, faults>>

Submit(t) ==
    /\ Runs(t, "submit")
    /\ Goto(t, "get")
    /\ UNCHANGED <<attempt, loop, using, cache, conns, sync, ending, faults>>

-----------------------------------------------------------------------------
(* get(), the call and drop_current() *)

Cached(c) == <<loop[c], byLoop[loop[c]]>>

Free(c) == lock[loop[c]] = NoOne

GetCached(c) ==
    /\ Runs(c, "get") /\ Free(c) /\ Cached(c) \in alive
    /\ using' = [using EXCEPT ![c] = byLoop[loop[c]]]
    /\ Goto(c, "call")
    /\ UNCHANGED <<attempt, loop, cache, conns, sync, ending, faults>>

\* No entry, or one that is dead and is closed: the lock is kept over the awaits.
GetMissing(c) ==
    /\ Runs(c, "get") /\ Free(c) /\ Cached(c) \notin alive
    /\ lock' = [lock EXCEPT ![loop[c]] = c]
    /\ Goto(c, "connect")
    /\ UNCHANGED <<attempt, loop, using, byLoop, conns, sync, ending, faults>>

\* Mutation: the lock is released where get() returns only.
UnlockNot(c) == UNCHANGED lock

Unlock(c) == lock' = [lock EXCEPT ![loop[c]] = IF @ = c THEN NoOne ELSE @]

Connected(c) ==
    /\ Runs(c, "connect")
    /\ LET n == made[loop[c]] + 1 IN
         /\ made' = [made EXCEPT ![loop[c]] = n]
         /\ alive' = alive \cup {<<loop[c], n>>}
         /\ byLoop' = [byLoop EXCEPT ![loop[c]] = n]
         /\ using' = [using EXCEPT ![c] = n]
    /\ lock' = [lock EXCEPT ![loop[c]] = NoOne]
    /\ Goto(c, "call")
    /\ UNCHANGED <<attempt, loop, gone, sync, ending, faults>>

\* PilotConnectionError is not retried.
ConnectFails(c) ==
    /\ Runs(c, "connect") /\ Fault
    /\ Unlock(c) /\ Goto(c, "failed") /\ Forget(c)
    /\ UNCHANGED <<loop, byLoop, conns, sync, ending>>

UsesLive(c) == <<loop[c], using[c]>> \in alive

CallOk(c) ==
    /\ Runs(c, "call") /\ UsesLive(c)
    /\ Goto(c, "ok") /\ Forget(c)
    /\ UNCHANGED <<loop, cache, conns, sync, ending, faults>>

\* Mutation: one retry too many.
MayRetryOneMore(c) == attempt[c] < MaxAttempts

MayRetry(c) == attempt[c] + 1 < MaxAttempts

\* The call raises; some exceptions are retried.
CallFails(c) ==
    /\ Runs(c, "call")
    /\ IF UsesLive(c) THEN Fault ELSE UNCHANGED faults
    /\ \/ /\ MayRetry(c) /\ Goto(c, "drop")
          /\ attempt' = [attempt EXCEPT ![c] = @ + 1]
          /\ using' = [using EXCEPT ![c] = 0]
       \/ Goto(c, "failed") /\ Forget(c)
    /\ UNCHANGED <<loop, cache, conns, sync, ending>>

\* Mutation: the retrying caller closes the connection, dead or not.
DropAny(c) ==
    /\ byLoop' = [byLoop EXCEPT ![loop[c]] = 0]
    /\ alive' = alive \ {Cached(c)}
    /\ UNCHANGED <<made, gone>>

DropDead(c) ==
    /\ byLoop' = IF Cached(c) \in alive THEN byLoop ELSE [byLoop EXCEPT ![loop[c]] = 0]
    /\ UNCHANGED conns

\* drop_current() and the back-off.
Drop(c) ==
    /\ Runs(c, "drop") /\ Free(c)
    /\ DropDead(c) /\ Goto(c, "get")
    /\ UNCHANGED <<attempt, loop, using, lock, sync, ending, faults>>

\* CancelledError at whatever await the task is; the lock is left.
Cancelled(c) ==
    /\ pc[c] \in {"get", "connect", "call", "drop"} /\ Runs(c, pc[c])
    /\ Unlock(c) /\ Goto(c, "cancelled") /\ Forget(c)
    /\ UNCHANGED <<loop, byLoop, conns, sync, ending, faults>>

\* The daemon goes away and is_alive() becomes false.
ConnLost(k) ==
    /\ k \in alive /\ Fault
    /\ alive' = alive \ {k} /\ gone' = gone \cup {k}
    /\ UNCHANGED <<calls, cache, made, sync, ending>>

-----------------------------------------------------------------------------
(* aclose() on loop 0, or aclose_sync(), which runs it on the synchronous loop *)

Begin(l) ==
    /\ closer = "no" /\ closer' = "lock"
    /\ closerLoop' = l /\ old' = alive
    /\ UNCHANGED <<calls, cache, conns, stopped, snapshot, stopping, missed, faults>>

Aclose == Begin(0) /\ UNCHANGED syncLoop

AcloseSync == Begin(SyncLoop) /\ syncLoop' = SyncLoop

\* Mutation: connections of other loops are not looked at.
EntriesOfLoop == {<<l, byLoop[l]>> : l \in {closerLoop}} \cap Made

Entries == {<<l, byLoop[l]>> : l \in Loop} \cap Made

\* list(self._by_loop.items()), under the lock of the closer's own loop ...
AcloseSnapshot ==
    /\ closer = "lock" /\ lock[closerLoop] = NoOne
    /\ closer' = "clear" /\ snapshot' = Entries
    /\ UNCHANGED <<calls, cache, conns, sync, closerLoop, stopping, old, missed, faults>>

\* ... and clear(): another thread may have put in an entry between the two.
AcloseClear ==
    /\ closer = "clear" /\ closer' = "close"
    /\ missed' = ({<<l, byLoop[l]>> : l \in Loop} \cap Made) \ snapshot
    /\ byLoop' = [l \in Loop |-> 0]
    /\ UNCHANGED <<calls, lock, conns, sync, closerLoop, snapshot, stopping, old, faults>>

\* close() on the own loop, force_close_sync() for the others, one by one.
AcloseOne(k) ==
    /\ closer = "close" /\ k \in snapshot
    /\ snapshot' = snapshot \ {k}
    /\ alive' = alive \ {k} /\ gone' = gone \cup {k}
    /\ UNCHANGED <<calls, cache, made, sync, closer, closerLoop, stopping, old,
                   missed, faults>>

AcloseReturn ==
    /\ closer = "close" /\ snapshot = {}
    /\ closer' = IF closerLoop = 0 THEN "done" ELSE "swap"
    /\ UNCHANGED <<calls, cache, conns, sync, closerLoop, snapshot, stopping, old,
                   missed, faults>>

\* aclose_sync() takes the loop out of the registry ...
Swap ==
    /\ closer = "swap" /\ closer' = "stop"
    /\ stopping' = syncLoop /\ syncLoop' = 0
    /\ UNCHANGED <<calls, cache, conns, stopped, closerLoop, snapshot, old, missed, faults>>

\* ... and stops it, whatever still runs on it.
Stop ==
    /\ closer = "stop" /\ closer' = "done"
    /\ stopped' = stopped \cup {stopping}
    /\ UNCHANGED <<calls, cache, conns, syncLoop, closerLoop, snapshot, stopping, old,
                   missed, faults>>

-----------------------------------------------------------------------------
CallStep(c) == \/ Submit(c) \/ GetCached(c) \/ GetMissing(c) \/ Connected(c)
               \/ ConnectFails(c) \/ CallOk(c) \/ CallFails(c) \/ Drop(c)

CloserStep == \/ AcloseSnapshot \/ AcloseClear \/ AcloseReturn \/ Swap \/ Stop
              \/ \E k \in snapshot : AcloseOne(k)

RegNext ==
    \/ \E c \in Caller : RunSync(c) \/ CallStep(c)
    \/ \E k \in alive : ConnLost(k)
    \/ Aclose \/ AcloseSync \/ CloserStep

-----------------------------------------------------------------------------
(* Properties *)

\* A connection ends by being lost or by a shutdown, never under the calls that
\* share it because one of them retries or is cancelled; every live connection
\* is the cached one of its loop and a shutdown finds it (but for one that
\* another thread cached between the two lines of aclose_all).
ConnectionsAccounted ==
    /\ alive \cup gone = Made
    /\ \A k \in alive : byLoop[k[1]] = k[2] \/ k \in snapshot \cup missed

\* When aclose() or aclose_sync() has returned, no connection that was open when
\* it was called is alive, on whatever loop it was and whoever was using it.
ShutdownComplete == closer = "done" => alive \cap old = {}

\* Every call ends and so does the shutdown: no failure, cancellation or
\* shutdown leaves a lock held.  The exception is a synchronous call whose loop
\* aclose_sync() has stopped.
CallsAndShutdownEnd ==
    /\ \A c \in Caller :
           pc[c] # "idle" ~> (pc[c] \in Ended \/ loop[c] \in stopped)
    /\ closer # "no" ~> closer = "done"
=============================================================================
