--------------------------- MODULE PilotRequests ---------------------------
(***************************************************************************)
(* The request half of asyncio_client.PilotConnection: any number of       *)
(* coroutines call _request on one daemon connection; a waiter per call is *)
(* queued under the reply command it expects, the single reader task       *)
(* (_read_loop) hands each reply frame to the head of that queue, and      *)
(* close / force_close_sync tear the connection down under the callers.    *)
(*                                                                         *)
(* Abstractions.  A request and its payload are the same model value.  The *)
(* daemon answers the requests of one reply command in the order it got    *)
(* them and those of different commands in any order, so the socket, the   *)
(* daemon and the answers in flight are one queue per command, `wire'.  Of *)
(* the bytes the daemon has not read yet only the level is kept, `buffer': *)
(* it is what drain() and wait_closed() wait for, under no timeout.        *)
(***************************************************************************)
EXTENDS Naturals, Sequences, SequencesExt

CONSTANTS
    Request,      \* the calls of _request, each made at most once
    Cmd,          \* reply command bytes (_ipc.CMD_*_OK)
    Expect,       \* the reply command each request waits for
    Impatient,    \* the requests whose timeout may expire
    Refused,      \* the requests the daemon answers with CMD_ERROR
    Cancellable,  \* the requests whose calling task may be cancelled
    None          \* "no request"

ASSUME ExpectAssumption == Expect \in [Request -> Cmd]
ASSUME SubsetAssumption == /\ Impatient \subseteq Request
                           /\ Refused \subseteq Request
                           /\ Cancellable \subseteq Request
ASSUME NoneAssumption == None \notin Request

VARIABLES
    (* one coroutine per request *)
    pc,          \* "idle", "lock", "drain", "doomed", "wait", "expired", "ret"
    ended,       \* how _request ended: its return, or the exception it raised
    lockq,       \* _write_lock: the holder is the head, the others queue up
    (* futures *)
    fut,         \* state of the future of each request
    from,        \* the request whose answer resolved that future
    (* the multiplexer *)
    waiters,     \* _waiters: reply command -> deque of futures
    order,       \* the keys of _waiters, in insertion order
    wire,        \* requests written and not yet answered, per reply command
    (* lifecycle *)
    reading,     \* _read_loop is running
    closed,      \* the _closed event
    closing,     \* close(): "no", "waiting" in wait_closed, "swept"
    lost,        \* the transport has reported connection_lost
    buffer,      \* unsent bytes: 0 none, 1 some, 2 so many that drain() waits
    forced       \* force_close_sync ran

callers == <<pc, ended, lockq>>
mux     == <<waiters, order, wire>>
life    == <<reading, closed, closing, lost, buffer, forced>>
vars    == <<callers, fut, from, mux, life>>

\* The future of r is in its queue of _waiters.
Held(r) == \E i \in 1..Len(waiters[Expect[r]]) : waiters[Expect[r]][i] = r

TypeOK ==
    /\ pc \in [Request -> {"idle", "lock", "drain", "doomed", "wait", "expired", "ret"}]
    /\ ended \in [Request -> {"no", "reply", "error", "closed", "timeout",
                              "cancelled", "reset"}]
    /\ lockq \in Seq(Request)
    /\ fut \in [Request -> {"none", "pending", "reply", "error", "closed",
                            "cancelled"}]
    /\ from \in [Request -> Request \cup {None}]
    /\ waiters \in [Cmd -> Seq(Request)]
    /\ order \in Seq(Cmd)
    /\ wire \in [Cmd -> Seq(Request)]
    /\ reading \in BOOLEAN /\ closed \in BOOLEAN /\ lost \in BOOLEAN
    /\ forced \in BOOLEAN
    /\ closing \in {"no", "waiting", "swept"}
    /\ buffer \in 0..2

Init ==
    /\ pc = [r \in Request |-> "idle"]
    /\ ended = [r \in Request |-> "no"]
    /\ lockq = <<>>
    /\ fut = [r \in Request |-> "none"]
    /\ from = [r \in Request |-> None]
    /\ waiters = [c \in Cmd |-> <<>>]
    /\ order = <<>>
    /\ wire = [c \in Cmd |-> <<>>]
    /\ reading = TRUE
    /\ closed = FALSE
    /\ closing = "no"
    /\ lost = FALSE
    /\ buffer = 0
    /\ forced = FALSE

-----------------------------------------------------------------------------
(* _request, one coroutine per request *)

\* The future exists and the coroutine queues for the write lock (FIFO).
Call(r) ==
    /\ pc[r] = "idle"
    /\ pc' = [pc EXCEPT ![r] = "lock"]
    /\ lockq' = Append(lockq, r)
    /\ fut' = [fut EXCEPT ![r] = "pending"]
    /\ UNCHANGED <<ended, from, mux, life>>

HoldsLock(r) == lockq # <<>> /\ Head(lockq) = r

\* The transport drops what is written once it has lost its socket, or was
\* closed with nothing left to send.
Dropped == lost \/ (closed /\ buffer = 0)

\* What the socket does not take at once joins the unsent bytes.
Write(r) ==
    IF Dropped THEN UNCHANGED <<wire, buffer>>
    ELSE /\ wire' = [wire EXCEPT ![Expect[r]] = Append(@, r)]
         /\ buffer' \in buffer..2

\* Mutation: the waiters of a command form a stack.
RegisterInFront(r) ==
    /\ waiters' = [waiters EXCEPT ![Expect[r]] = <<r>> \o @]
    /\ order' = IF \E i \in 1..Len(order) : order[i] = Expect[r]
                THEN order ELSE Append(order, Expect[r])

\* The waiter joins its queue (a defaultdict: the first use of a command
\* inserts its key) ...
Register(r) ==
    /\ waiters' = [waiters EXCEPT ![Expect[r]] = Append(@, r)]
    /\ order' = IF \E i \in 1..Len(order) : order[i] = Expect[r]
                THEN order ELSE Append(order, Expect[r])

\* ... and the frame is written with no suspension in between; the coroutine
\* keeps the lock across drain(), which raises if the bytes were dropped (on a
\* closing transport it first lets connection_lost run).
Acquire(r) ==
    /\ pc[r] = "lock" /\ HoldsLock(r)
    /\ Register(r)
    /\ Write(r)
    /\ pc' = [pc EXCEPT ![r] = IF Dropped THEN "doomed" ELSE "drain"]
    /\ UNCHANGED <<ended, lockq, fut, from, reading, closed, closing, lost, forced>>

\* drain() returns once the transport no longer pauses its writers.
Drained(r) ==
    /\ pc[r] = "drain" /\ HoldsLock(r)
    /\ buffer < 2
    /\ pc' = [pc EXCEPT ![r] = "wait"]
    /\ lockq' = Tail(lockq)
    /\ UNCHANGED <<ended, fut, from, mux, life>>

End(r, how) ==
    /\ pc' = [pc EXCEPT ![r] = "ret"]
    /\ ended' = [ended EXCEPT ![r] = how]

\* drain() raises ConnectionResetError; the waiter stays in its queue.
Reset(r) ==
    /\ HoldsLock(r) /\ lost
    /\ pc[r] \in {"drain", "doomed"}
    /\ End(r, "reset")
    /\ lockq' = Tail(lockq)
    /\ UNCHANGED <<fut, from, mux, life>>

Return(r) ==
    /\ pc[r] = "wait"
    /\ fut[r] \in {"reply", "error", "closed"}
    /\ End(r, fut[r])
    /\ UNCHANGED <<lockq, fut, from, mux, life>>

CancelFuture(r) ==
    fut' = [fut EXCEPT ![r] = IF @ = "pending" THEN "cancelled" ELSE @]

Dequeue(r) ==
    \/ \E i \in 1..Len(waiters[Expect[r]]) :
          /\ waiters[Expect[r]][i] = r
          /\ waiters' = [waiters EXCEPT ![Expect[r]] = RemoveAt(@, i)]
    \/ ~Held(r) /\ UNCHANGED waiters

\* Mutation: a timeout only acts on a connection that is still open.
TimeoutWhileOpen(r) ==
    /\ r \in Impatient
    /\ pc[r] = "wait" /\ ~closed
    /\ pc' = [pc EXCEPT ![r] = "expired"]
    /\ CancelFuture(r)
    /\ UNCHANGED <<ended, lockq, from, mux, life>>

\* The timer of wait_for cancels the future ...
Timeout(r) ==
    /\ r \in Impatient
    /\ pc[r] = "wait"
    /\ pc' = [pc EXCEPT ![r] = "expired"]
    /\ CancelFuture(r)
    /\ UNCHANGED <<ended, lockq, from, mux, life>>

\* ... and the coroutine, when it runs again, removes the waiter (the reader may
\* have taken it in the meantime) and raises TimeoutError.
GiveUp(r) ==
    /\ r \in Impatient
    /\ pc[r] = "expired"
    /\ End(r, "timeout")
    /\ Dequeue(r)
    /\ UNCHANGED <<lockq, fut, from, order, wire, life>>

\* The calling task is cancelled.  CancelledError is not TimeoutError: the
\* waiter, if registered, stays where it is.
Cancel(r) ==
    /\ r \in Cancellable
    /\ pc[r] \in {"lock", "drain", "doomed", "wait", "expired"}
    /\ End(r, "cancelled")
    /\ IF pc[r] \in {"wait", "expired"}
       THEN CancelFuture(r) /\ UNCHANGED lockq
       ELSE /\ UNCHANGED fut
            /\ \E i \in 1..Len(lockq) :
                  lockq[i] = r /\ lockq' = RemoveAt(lockq, i)
    /\ UNCHANGED <<from, mux, life>>

-----------------------------------------------------------------------------
(* _read_loop *)

\* Resolve future f, unless it is done already, with the answer to r.
Resolve(f, how, r) ==
    IF fut[f] = "pending"
    THEN /\ fut' = [fut EXCEPT ![f] = how]
         /\ from' = [from EXCEPT ![f] = r]
    ELSE UNCHANGED <<fut, from>>

\* The while condition is looked at between two frames only.
NextFrame(c) ==
    /\ wire' = [wire EXCEPT ![c] = Tail(@)]
    /\ reading' = ~closed
    /\ UNCHANGED <<callers, order, closed, closing, lost, buffer, forced>>

\* _deliver_to_waiter: a reply of command c.
Deliver(c) ==
    /\ reading
    /\ wire[c] # <<>> /\ Head(wire[c]) \notin Refused
    /\ IF waiters[c] = <<>>
       THEN UNCHANGED <<waiters, fut, from>>
       ELSE /\ waiters' = [waiters EXCEPT ![c] = Tail(@)]
            /\ Resolve(Head(waiters[c]), "reply", Head(wire[c]))
    /\ NextFrame(c)

\* _fail_oldest_waiter: the first non-empty queue in the dict's key order.
FirstWaiting ==
    {i \in 1..Len(order) :
        /\ waiters[order[i]] # <<>>
        /\ \A j \in 1..(i - 1) : waiters[order[j]] = <<>>}

\* Mutation: the loop over the queues has lost its return.
FailEveryQueue(c) ==
    /\ reading
    /\ wire[c] # <<>> /\ Head(wire[c]) \in Refused
    /\ waiters' = [k \in Cmd |-> IF waiters[k] = <<>> THEN <<>> ELSE Tail(waiters[k])]
    /\ LET hit == {f \in Request : /\ fut[f] = "pending"
                                    /\ waiters[Expect[f]] # <<>>
                                    /\ Head(waiters[Expect[f]]) = f}
       IN  /\ fut' = [f \in Request |-> IF f \in hit THEN "error" ELSE fut[f]]
           /\ from' = [f \in Request |->
                         IF f \in hit THEN Head(wire[c]) ELSE from[f]]
    /\ NextFrame(c)

\* A CMD_ERROR frame, the daemon's answer to a refused request.
FailOldest(c) ==
    /\ reading
    /\ wire[c] # <<>> /\ Head(wire[c]) \in Refused
    /\ \/ /\ FirstWaiting = {}
          /\ UNCHANGED <<waiters, fut, from>>
       \/ \E i \in FirstWaiting :
             /\ waiters' = [waiters EXCEPT ![order[i]] = Tail(@)]
             /\ Resolve(Head(waiters[order[i]]), "error", Head(wire[c]))
    /\ NextFrame(c)

-----------------------------------------------------------------------------
(* close, force_close_sync and the end of the reader *)

\* close(): nothing if _closed is set; else set it, close the writer and wait.
CloseBegin ==
    IF closed THEN UNCHANGED <<closed, closing>>
    ELSE closed' = TRUE /\ closing' = "waiting"

UserClose ==
    /\ ~closed
    /\ CloseBegin
    /\ UNCHANGED <<callers, fut, from, mux, reading, lost, buffer, forced>>

\* The daemon hangs up, an invalid frame length or a dead transport ends the
\* loop; its finally clause calls close().
ReaderExit ==
    /\ reading
    /\ reading' = FALSE
    /\ CloseBegin
    /\ UNCHANGED <<callers, fut, from, mux, lost, buffer, forced>>

\* The event loop's connection_lost callback; what was unsent is discarded.
ConnectionLost ==
    /\ ~lost
    /\ lost' = TRUE
    /\ buffer' = 0
    /\ UNCHANGED <<callers, fut, from, mux, reading, closed, closing, forced>>

\* The daemon reads from its socket and the transport sends more of what waits.
Flush ==
    /\ ~lost /\ buffer > 0
    /\ buffer' \in 0..(buffer - 1)
    /\ UNCHANGED <<callers, fut, from, mux, reading, closed, closing, lost, forced>>

\* Mutation: close() sweeps the waiters without awaiting wait_closed.
SweepEarly ==
    /\ closing = "waiting"
    /\ closing' = "swept"
    /\ reading' = FALSE
    /\ waiters' = [c \in Cmd |-> <<>>]
    /\ fut' = [r \in Request |-> IF fut[r] = "pending" /\ Held(r)
                                 THEN "closed" ELSE fut[r]]
    /\ UNCHANGED <<callers, from, order, wire, closed, lost, buffer, forced>>

\* The rest of close(), after wait_closed: no suspension point.
Sweep ==
    /\ closing = "waiting" /\ lost
    /\ closing' = "swept"
    /\ reading' = FALSE
    /\ waiters' = [c \in Cmd |-> <<>>]
    /\ fut' = [r \in Request |-> IF fut[r] = "pending" /\ Held(r)
                                 THEN "closed" ELSE fut[r]]
    /\ UNCHANGED <<callers, from, order, wire, closed, lost, buffer, forced>>

ForceClose ==
    /\ ~closed
    /\ closed' = TRUE
    /\ forced' = TRUE
    /\ UNCHANGED <<callers, fut, from, mux, reading, closing, lost, buffer>>

-----------------------------------------------------------------------------
CallerStep(r) == \/ Acquire(r) \/ Drained(r) \/ Reset(r) \/ Return(r) \/ GiveUp(r)

Next ==
    \/ \E r \in Request : \/ Call(r) \/ CallerStep(r)
                          \/ Timeout(r) \/ Cancel(r)
    \/ \E c \in Cmd : Deliver(c) \/ FailOldest(c)
    \/ UserClose \/ ReaderExit \/ ConnectionLost \/ Flush \/ Sweep \/ ForceClose

\* The event loop runs every ready callback; a closed transport with nothing
\* left to send reports connection_lost and the reader then sees the end of the
\* stream; timers fire.  Nothing makes the daemon read its socket or answer, or
\* anyone close the connection.
Fairness ==
    /\ \A r \in Request : WF_vars(CallerStep(r)) /\ WF_vars(Timeout(r))
    /\ WF_vars(closed /\ buffer = 0 /\ ConnectionLost)
    /\ WF_vars(Sweep)
    /\ WF_vars(lost /\ ReaderExit)

Spec == Init /\ [][Next]_vars
FairSpec == Spec /\ Fairness

-----------------------------------------------------------------------------
(* Properties *)

\* Commands none of whose requests can time out.
PatientCmd == {c \in Cmd : \A r \in Impatient : Expect[r] # c}

\* A waiter is queued under the command it expects.
Sorted == \A c \in Cmd : \A i \in 1..Len(waiters[c]) : Expect[waiters[c][i]] = c

\* "FIFO waiter order matches FIFO send order" (the comment in _request): while
\* the reader runs and the daemon refuses nothing, the unanswered requests of a
\* command are, in order, the first of that command's waiters, and they are all
\* of them until the transport drops what is written.
Aligned ==
    (reading /\ Refused = {}) =>
        \A c \in PatientCmd :
            /\ Len(wire[c]) <= Len(waiters[c])
            /\ ~Dropped => Len(wire[c]) = Len(waiters[c])
            /\ \A i \in 1..Len(wire[c]) : wire[c][i] = waiters[c][i]

\* An unresolved future that a call waits on, or will, is still registered.
Registered ==
    \A r \in Request :
        (pc[r] \in {"drain", "wait"} /\ fut[r] = "pending") => 
            (Held(r) /\ closing # "swept")

\* The dispatcher never returns "reply A to caller B" (the comment in _request)
\* on a command whose callers do not time out, if the daemon refuses nothing.
OwnReply ==
    Refused = {} => \A r \in Request :
        (Expect[r] \in PatientCmd /\ fut[r] = "reply") => from[r] = r

\* The same, said of every caller and not only of the patient ones.
EveryReplyOwn == \A r \in Request : fut[r] = "reply" => from[r] = r

\* One frame of the daemon resolves at most one future, so a timeout or an error
\* can shift answers between callers but never duplicates one.
AnswerUsedOnce ==
    \A r, q \in Request : (r # q /\ from[r] # None) => from[r] # from[q]

\* Once close() has swept the waiters nobody is left waiting on a future that
\* nothing will resolve, not even a call that was in _request during close().
NoOrphan ==
    closing = "swept" =>
        \A r \in Request : pc[r] \in {"drain", "wait"} => fut[r] # "pending"

\* The inductive invariant behind OwnReply and NoOrphan: a caller cancelled at
\* any point leaves the queues of _waiters and of the daemon in step.
IInv ==
    /\ TypeOK
    /\ Sorted
    /\ Aligned
    /\ Registered
    /\ OwnReply
    /\ closing = "swept" => lost

\* The frame of x has been written, or dropped by a dead transport.
Sent(x) == pc[x] \notin {"idle", "lock"}

\* The inductive invariant behind AnswerUsedOnce: a request travels once, under
\* the command it expects, and has left the wire when its answer is used.
UsedInv ==
    /\ \A c \in Cmd : \A i \in 1..Len(wire[c]) :
          /\ Expect[wire[c][i]] = c
          /\ Sent(wire[c][i])
          /\ \A j \in 1..Len(wire[c]) : wire[c][j] = wire[c][i] => j = i
          /\ \A q \in Request : from[q] # wire[c][i]
    /\ \A q \in Request : from[q] # None => Sent(from[q])
    /\ AnswerUsedOnce

\* The daemon goes on reading its socket: an assumption on it that the code
\* makes, for drain() and wait_closed() wait for the unsent bytes without limit.
DaemonReads == WF_vars(Flush)

\* If the daemon reads its socket, close() ends every call in progress, also
\* the calls without a timeout and those parked in drain() or behind the lock.
\* With unsent bytes and a daemon that reads nothing wait_closed never returns,
\* and the sweep of close() is never reached.
CloseEndsCalls ==
    DaemonReads => \A r \in Request :
        (pc[r] \notin {"idle", "ret"} /\ closing # "no") ~> pc[r] = "ret"

\* If the daemon reads its socket, a call with a timeout ends, whatever the
\* daemon answers and also after force_close_sync, which fails no waiter.  The
\* timeout covers neither the wait for the lock nor drain().
TimedCallsEnd ==
    DaemonReads => \A r \in Impatient : pc[r] = "lock" ~> pc[r] = "ret"
=============================================================================
