---------------------------- MODULE RateLimiter ----------------------------
(***************************************************************************)
(* server._RateLimiter: the sliding window of call times per caller behind *)
(* rate_per_caller.  WorkerServer keeps only the length of the window; the *)
(* clock and the pruning are here.  Time is an integer; the monotonic      *)
(* clock may stand still between two calls and may jump.                   *)
(***************************************************************************)
EXTENDS Integers, Sequences

CONSTANTS
    Caller,    \* node ids
    Limit,     \* limit: calls per window
    Window,    \* window_secs
    MaxNow     \* bound: the last instant

ASSUME LimitAssumption == Limit \in Nat \ {0} /\ Window \in Nat /\ MaxNow \in Nat

VARIABLES
    now,       \* time.monotonic()
    windows,   \* per caller: the deque of recent call times
    granted,   \* history, per caller: the times of all calls let through
    denied     \* history, per caller: the time of its last denial, -1 for none

vars == <<now, windows, granted, denied>>

TypeOK ==
    /\ now \in Nat
    /\ windows \in [Caller -> Seq(Nat)]
    /\ granted \in [Caller -> Seq(Nat)]
    /\ denied \in [Caller -> Nat \cup {-1}]

Init ==
    /\ now = 0
    /\ windows = [p \in Caller |-> <<>>]
    /\ granted = [p \in Caller |-> <<>>]
    /\ denied = [p \in Caller |-> -1]

Tick ==
    /\ \E t \in now..MaxNow : t > now /\ now' = t
    /\ UNCHANGED <<windows, granted, denied>>

\* Mutation: a call made exactly one window ago no longer counts.
PrunedTooFar(w, n) ==
    /\ n \in 0..Len(w)
    /\ \A i \in 1..n : w[i] <= now - Window
    /\ n < Len(w) => w[n + 1] > now - Window

\* The loop drops the n leading times that are before the cutoff.
Pruned(w, n) ==
    /\ n \in 0..Len(w)
    /\ \A i \in 1..n : w[i] < now - Window
    /\ n < Len(w) => w[n + 1] >= now - Window

\* Mutation: the limit is compared before the window is pruned.
ConsumeUnpruned(p) ==
    \E n \in 0..Len(windows[p]) :
        /\ Pruned(windows[p], n)
        /\ LET w == SubSeq(windows[p], n + 1, Len(windows[p]))
           IN  IF Len(windows[p]) >= Limit
               THEN /\ windows' = [windows EXCEPT ![p] = w]
                    /\ denied' = [denied EXCEPT ![p] = now]
                    /\ UNCHANGED granted
               ELSE /\ windows' = [windows EXCEPT ![p] = Append(w, now)]
                    /\ granted' = [granted EXCEPT ![p] = Append(@, now)]
                    /\ UNCHANGED denied
        /\ UNCHANGED now

\* consume(caller_node_id, now): prune, compare with the limit, append.
Consume(p) ==
    \E n \in 0..Len(windows[p]) :
        /\ Pruned(windows[p], n)
        /\ LET w == SubSeq(windows[p], n + 1, Len(windows[p]))
           IN  IF Len(w) >= Limit
               THEN /\ windows' = [windows EXCEPT ![p] = w]
                    /\ denied' = [denied EXCEPT ![p] = now]
                    /\ UNCHANGED granted
               ELSE /\ windows' = [windows EXCEPT ![p] = Append(w, now)]
                    /\ granted' = [granted EXCEPT ![p] = Append(@, now)]
                    /\ UNCHANGED denied
        /\ UNCHANGED now

Next == Tick \/ \E p \in Caller : Consume(p)

Spec == Init /\ [][Next]_vars

-----------------------------------------------------------------------------
(* Properties *)

\* Any Limit + 1 consecutive times of g span more than a window.
SpacedOut(g) == \A i \in 1..(Len(g) - Limit) : g[i + Limit] - g[i] > Window

\* Limit of the times of g lie in the window that ends at t.
FullAt(g, t) == \E i \in 1..(Len(g) - Limit + 1) :
                    g[i] >= t - Window /\ g[i + Limit - 1] <= t

\* No caller is let through more than Limit times in any closed interval as
\* long as the window, wherever the interval starts and however calls bunch up
\* at its ends.
WindowCap == \A p \in Caller : SpacedOut(granted[p])

\* A caller is denied only when Limit calls of its own, and no other caller's,
\* were let through within the window before the denial.
NoFalseDenial == \A p \in Caller : denied[p] >= 0 => FullAt(granted[p], denied[p])

\* "Memory bound: O(callers * limit)" (docstring): the deque never outgrows the
\* limit.
MemoryBound == \A p \in Caller : Len(windows[p]) <= Limit

IsSuffix(w, g) ==
    /\ Len(w) <= Len(g)
    /\ \A i \in 1..Len(w) : w[i] = g[Len(g) - Len(w) + i]

\* The first m times of g are before t.
AllBefore(g, m, t) == \A i \in 1..m : g[i] < t

NoneAfter(g, t) == \A i \in 1..Len(g) : g[i] <= t

NonDecreasing(g) == \A i, j \in 1..Len(g) : i < j => g[i] <= g[j]

\* What holds of a caller's deque w, history g and last denial d at time t: the
\* deque is the end of the history, what was dropped is older than the window.
CallerInv(w, g, d, t) ==
    /\ Len(w) <= Limit
    /\ IsSuffix(w, g)
    /\ AllBefore(g, Len(g) - Len(w), t - Window)
    /\ NoneAfter(g, t)
    /\ NonDecreasing(g)
    /\ SpacedOut(g)
    /\ d >= 0 => FullAt(g, d)

\* The inductive invariant behind WindowCap, MemoryBound and NoFalseDenial.
IInv ==
    /\ TypeOK
    /\ \A p \in Caller : CallerInv(windows[p], granted[p], denied[p], now)
=============================================================================
