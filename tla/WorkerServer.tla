---------------------------- MODULE WorkerServer ----------------------------
(***************************************************************************)
(* server.WorkerServer: the accept loop of serve_forever, one _handle_one  *)
(* task per call with its gates (registration, ACL, rate limit, concurrency *)
(* limit), the handler's run under its timeout, the counters, hot reload,  *)
(* authorize, and the drain after request_stop.                            *)
(*                                                                         *)
(* Abstractions.  A call is its stream, its request and its task.  Frames  *)
(* are known by kind.  A _Registration is <<name, generation>>: a reload   *)
(* makes new ones, and tasks keep the one they looked up.  The sliding     *)
(* window of the rate limiter is the number of time stamps in it; Expire   *)
(* is the passing of time that ages one out (RateLimiter has the clock).   *)
(* The refusals of the rate and of the concurrency gate carry the same     *)
(* error_type, rate_limited; the model calls the second one busy.          *)
(***************************************************************************)
EXTENDS Naturals, Sequences, FiniteSets

CONSTANTS
    Call,           \* inbound calls, each on its own stream
    Caller,         \* node ids of the callers
    Handler,        \* names of user handlers
    CallerOf,       \* the caller of each call
    NodeOf,         \* the handler name each call asks for
    RatePerCaller,  \* rate_per_caller of every registration, 0 for none
    MaxConcurrent,  \* max_concurrent of every registration
    Streaming,      \* handlers that are async generators
    Timed,          \* handlers registered with a timeout_secs
    MaxChunks,      \* bound: chunks a streaming handler yields
    MaxGen          \* bound: generations of registrations

ASSUME CallAssumption ==
    /\ IsFiniteSet(Call)
    /\ CallerOf \in [Call -> Caller]
    /\ NodeOf \in [Call -> Handler]
ASSUME LimitAssumption ==
    /\ RatePerCaller \in Nat /\ MaxConcurrent \in Nat /\ MaxChunks \in Nat
    /\ MaxGen \in Nat \ {0}
    /\ Streaming \subseteq Handler /\ Timed \subseteq Handler

VARIABLES
    (* serve_forever *)
    srv,        \* "serving", "draining", "cancelling", "stopped"
    stopping,   \* the _stopping event
    acceptQ,    \* accepted connections the loop has not taken yet
    (* _handlers *)
    gen,        \* the latest generation of registrations
    reg,        \* per name: the generation registered, 0 if there is none
    allow,      \* per name and generation: the ACL
    used,       \* per registration and caller: time stamps in the window
    held,       \* per registration: permits of its semaphore in use
    (* _handle_one *)
    pc,         \* where the task of each call is
    regOf,      \* the generation each call was dispatched to
    reply,      \* the frames written on each call's stream
    (* counters *)
    totalCalls, totalErrors,
    stats       \* per registration: [calls, errors]

Gen == 1..MaxGen
Reg == Handler \X Gen

server   == <<srv, stopping, acceptQ>>
registry == <<gen, reg, allow>>
tasks    == <<pc, regOf, reply>>
counters == <<totalCalls, totalErrors, stats>>
vars     == <<server, registry, used, held, tasks, counters>>

Refusal == {"handler_not_found", "unauthorized", "rate_limited", "busy"}
FrameKind == Refusal \cup {"chunk", "ok", "handler_error"}

TypeOK ==
    /\ srv \in {"serving", "draining", "cancelling", "stopped"}
    /\ stopping \in BOOLEAN
    /\ acceptQ \in Seq(Call)
    /\ gen \in Gen
    /\ reg \in [Handler -> 0..MaxGen]
    /\ allow \in [Reg -> SUBSET Caller]
    /\ used \in [Reg -> [Caller -> Nat]]
    /\ held \in [Reg -> Nat]
    /\ pc \in [Call -> {"remote", "dropped", "queued", "reading", "running",
                        "finishing", "failing", "ending", "done"}]
    /\ regOf \in [Call -> Gen]
    /\ reply \in [Call -> Seq(FrameKind)]
    /\ totalCalls \in Nat /\ totalErrors \in Nat
    /\ stats \in [Reg -> [calls : Nat, errors : Nat]]

Init ==
    /\ srv = "serving" /\ stopping = FALSE /\ acceptQ = <<>>
    /\ gen = 1
    /\ reg = [h \in Handler |-> 1]
    /\ allow = [g \in Reg |-> Caller]
    /\ used = [g \in Reg |-> [p \in Caller |-> 0]]
    /\ held = [g \in Reg |-> 0]
    /\ pc = [k \in Call |-> "remote"]
    /\ regOf = [k \in Call |-> 1]
    /\ reply = [k \in Call |-> <<>>]
    /\ totalCalls = 0 /\ totalErrors = 0
    /\ stats = [g \in Reg |-> [calls |-> 0, errors |-> 0]]

-----------------------------------------------------------------------------
(* serve_forever *)

\* The daemon announces a connection; with the listener closed it is dropped.
Arrive(k) ==
    /\ pc[k] = "remote" /\ srv # "stopped"
    /\ IF srv = "serving"
       THEN acceptQ' = Append(acceptQ, k) /\ pc' = [pc EXCEPT ![k] = "queued"]
       ELSE UNCHANGED acceptQ /\ pc' = [pc EXCEPT ![k] = "dropped"]
    /\ UNCHANGED <<srv, stopping, registry, used, held, regOf, reply, counters>>

\* An accept that completes together with the stop event is still served; the
\* loop then sees the event.
Accept ==
    /\ srv = "serving" /\ acceptQ # <<>>
    /\ acceptQ' = Tail(acceptQ)
    /\ pc' = [pc EXCEPT ![Head(acceptQ)] = "reading"]
    /\ srv' = IF stopping THEN "draining" ELSE srv
    /\ UNCHANGED <<stopping, registry, used, held, regOf, reply, counters>>

RequestStop ==
    /\ ~stopping
    /\ stopping' = TRUE
    /\ UNCHANGED <<srv, acceptQ, registry, used, held, tasks, counters>>

\* The loop ends, the listener is closed and _drain_inflight begins.
StopLoop ==
    /\ srv = "serving" /\ stopping
    /\ srv' = "draining"
    /\ UNCHANGED <<stopping, acceptQ, registry, used, held, tasks, counters>>

InFlight == {k \in Call : pc[k] \in {"reading", "running", "finishing", "failing",
                                     "ending"}}

\* Mutation: the drain stops waiting once no handler is running.
DrainedHandlersOnly ==
    /\ srv \in {"draining", "cancelling"}
    /\ \A k \in Call : pc[k] \notin {"running", "finishing"}
    /\ srv' = "stopped"
    /\ UNCHANGED <<stopping, acceptQ, registry, used, held, tasks, counters>>

\* Every in-flight task is done: the drain returns, the connection is closed.
Drained ==
    /\ srv \in {"draining", "cancelling"} /\ InFlight = {}
    /\ srv' = "stopped"
    /\ UNCHANGED <<stopping, acceptQ, registry, used, held, tasks, counters>>

Held(k) == <<NodeOf[k], regOf[k]>>
Invoking == {k \in Call : pc[k] \in {"running", "finishing"}}

\* Mutation: the drain gives up without cancelling anything.
DrainTimeoutIgnored ==
    /\ srv = "draining" /\ InFlight # {}
    /\ srv' = "cancelling"
    /\ UNCHANGED <<stopping, acceptQ, registry, used, held, tasks, counters>>

\* Drain timeout: every task is cancelled.  CancelledError passes by the except
\* clauses of _handle_one: no reply, no counters, the semaphore is released; an
\* error already counted is not sent.
DrainTimeout ==
    /\ srv = "draining" /\ InFlight # {}
    /\ srv' = "cancelling"
    /\ pc' = [k \in Call |-> IF k \notin InFlight THEN pc[k]
                             ELSE IF pc[k] = "ending" THEN "done" ELSE "ending"]
    /\ held' = [g \in Reg |-> 0]
    /\ UNCHANGED <<stopping, acceptQ, registry, used, regOf, reply, counters>>

-----------------------------------------------------------------------------
(* The registry: hot reload and authorize *)

\* clear_user_handlers and register_many: a new _Registration, with its own
\* limiter, semaphore and counters, for each name.
Replaced(names) ==
    /\ gen' = gen + 1
    /\ reg' = [h \in Handler |-> IF h \in names THEN gen + 1 ELSE 0]

\* The source file has changed and could be imported (else nothing happens):
\* names are the handlers it has, or those register() came to before it raised.
Reload(names) ==
    /\ gen < MaxGen
    /\ Replaced(names)
    /\ UNCHANGED <<allow, server, used, held, tasks, counters>>

Authorize(h, nodes) ==
    /\ reg[h] # 0
    /\ allow' = [allow EXCEPT ![<<h, reg[h]>>] = nodes]
    /\ UNCHANGED <<gen, reg, server, used, held, tasks, counters>>

\* Time passes: the oldest time stamp leaves the window.
Expire(g, p) ==
    /\ used[g][p] > 0
    /\ used' = [used EXCEPT ![g][p] = @ - 1]
    /\ UNCHANGED <<server, registry, held, tasks, counters>>

-----------------------------------------------------------------------------
(* _handle_one *)

\* The caller hangs up or stays silent for 30s, or sends something that is not
\* a request: no reply.
NoRequest(k) ==
    /\ pc[k] = "reading"
    /\ pc' = [pc EXCEPT ![k] = "ending"]
    /\ UNCHANGED <<server, registry, used, held, regOf, reply, counters>>

\* The gates, in the order of their early returns.
Verdict(k) ==
    LET h == NodeOf[k]
        g == <<h, reg[h]>>
    IN  IF reg[h] = 0 THEN "handler_not_found"
        ELSE IF CallerOf[k] \notin allow[g] THEN "unauthorized"
        ELSE IF RatePerCaller # 0 /\ used[g][CallerOf[k]] >= RatePerCaller
             THEN "rate_limited"
        ELSE IF held[g] >= MaxConcurrent THEN "busy"
        ELSE "admit"

\* _RateLimiter.consume on the way to the concurrency gate.
Consume(k) ==
    used' = IF RatePerCaller = 0 THEN used
            ELSE [used EXCEPT ![<<NodeOf[k], reg[NodeOf[k]]>>][CallerOf[k]] = @ + 1]

Send(k, kind) == reply' = [reply EXCEPT ![k] = Append(@, kind)]

\* Mutation: refused calls are counted too.
RefuseCounted(k) ==
    /\ pc[k] = "reading" /\ Verdict(k) # "admit"
    /\ IF Verdict(k) = "busy" THEN Consume(k) ELSE UNCHANGED used
    /\ Send(k, Verdict(k))
    /\ pc' = [pc EXCEPT ![k] = "ending"]
    /\ totalCalls' = totalCalls + 1
    /\ UNCHANGED <<server, registry, held, regOf, totalErrors, stats>>

\* Mutation: a busy handler is refused without the return that follows.
RefuseAndRun(k) ==
    /\ pc[k] = "reading" /\ Verdict(k) # "admit"
    /\ IF Verdict(k) = "busy" THEN Consume(k) ELSE UNCHANGED used
    /\ Send(k, Verdict(k))
    /\ IF Verdict(k) = "busy"
       THEN /\ pc' = [pc EXCEPT ![k] = "running"]
            /\ regOf' = [regOf EXCEPT ![k] = reg[NodeOf[k]]]
            /\ held' = [held EXCEPT ![<<NodeOf[k], reg[NodeOf[k]]>>] = @ + 1]
       ELSE pc' = [pc EXCEPT ![k] = "ending"] /\ UNCHANGED <<regOf, held>>
    /\ UNCHANGED <<server, registry, counters>>

Refuse(k) ==
    /\ pc[k] = "reading" /\ Verdict(k) # "admit"
    /\ IF Verdict(k) = "busy" THEN Consume(k) ELSE UNCHANGED used
    /\ Send(k, Verdict(k))
    /\ pc' = [pc EXCEPT ![k] = "ending"]
    /\ UNCHANGED <<server, registry, held, regOf, counters>>

\* There is no suspension between sem.locked() and the acquire.
Admit(k) ==
    /\ pc[k] = "reading" /\ Verdict(k) = "admit"
    /\ Consume(k)
    /\ regOf' = [regOf EXCEPT ![k] = reg[NodeOf[k]]]
    /\ held' = [held EXCEPT ![<<NodeOf[k], reg[NodeOf[k]]>>] = @ + 1]
    /\ pc' = [pc EXCEPT ![k] = "running"]
    /\ UNCHANGED <<server, registry, reply, counters>>

Chunks(k) == Cardinality({i \in 1..Len(reply[k]) : reply[k][i] = "chunk"})

\* A streaming handler yields: a frame with done false.
Yield(k) ==
    /\ pc[k] = "running" /\ NodeOf[k] \in Streaming /\ Chunks(k) < MaxChunks
    /\ Send(k, "chunk")
    /\ UNCHANGED <<server, registry, used, held, pc, regOf, counters>>

\* The last frame, done true, is written; the task may be suspended in the write.
LastFrame(k) ==
    /\ pc[k] = "running"
    /\ Send(k, "ok")
    /\ pc' = [pc EXCEPT ![k] = "finishing"]
    /\ UNCHANGED <<server, registry, used, held, regOf, counters>>

\* Leaving `async with sem'.
Release(k) == held' = [held EXCEPT ![Held(k)] = @ - 1]

Count(k, failed) ==
    /\ totalCalls' = totalCalls + 1
    /\ totalErrors' = totalErrors + failed
    /\ stats' = [stats EXCEPT ![Held(k)] = [calls  |-> @.calls + 1,
                                            errors |-> @.errors + failed]]

Complete(k) ==
    /\ pc[k] = "finishing"
    /\ pc' = [pc EXCEPT ![k] = "ending"]
    /\ Release(k)
    /\ Count(k, 0)
    /\ UNCHANGED <<server, registry, used, regOf, reply>>

\* Mutation: the error path forgets to release the semaphore.
FailHoldingPermit(k) ==
    /\ pc' = [pc EXCEPT ![k] = "failing"]
    /\ UNCHANGED held
    /\ Count(k, 1)
    /\ UNCHANGED <<server, registry, used, regOf, reply>>

\* The except clauses: the permit is back, the error is counted, and then the
\* task waits for the connection's lock to write the frame.
Fail(k) ==
    /\ pc' = [pc EXCEPT ![k] = "failing"]
    /\ Release(k)
    /\ Count(k, 1)
    /\ UNCHANGED <<server, registry, used, regOf, reply>>

\* The handler, its validation or a middleware raises.
Raise(k) == pc[k] = "running" /\ Fail(k)

\* Mutation: wait_for is around the last write only.
TimeoutInWrite(k) == pc[k] = "finishing" /\ NodeOf[k] \in Timed /\ Fail(k)

\* wait_for expires: also while the last frame is being written.
Timeout(k) == pc[k] \in {"running", "finishing"} /\ NodeOf[k] \in Timed /\ Fail(k)

\* The error frame is written.
SendError(k) ==
    /\ pc[k] = "failing"
    /\ Send(k, "handler_error")
    /\ pc' = [pc EXCEPT ![k] = "ending"]
    /\ UNCHANGED <<server, registry, used, held, regOf, counters>>

\* The finally clause: sleep, then close the stream.
CloseStream(k) ==
    /\ pc[k] = "ending"
    /\ pc' = [pc EXCEPT ![k] = "done"]
    /\ UNCHANGED <<server, registry, used, held, regOf, reply, counters>>

-----------------------------------------------------------------------------
HandlerStep(k) == \/ LastFrame(k) \/ Complete(k) \/ Raise(k) \/ Timeout(k)

HandleOne(k) == \/ NoRequest(k) \/ Refuse(k) \/ Admit(k) \/ Yield(k)
                \/ HandlerStep(k) \/ SendError(k) \/ CloseStream(k)

Next ==
    \/ \E k \in Call : Arrive(k) \/ HandleOne(k)
    \/ Accept \/ RequestStop \/ StopLoop \/ Drained \/ DrainTimeout
    \/ \E names \in SUBSET Handler : Reload(names)
    \/ \E h \in Handler, nodes \in SUBSET Caller : Authorize(h, nodes)
    \/ \E g \in Reg, p \in Caller : Expire(g, p)

\* The loop and the tasks run when they can, reads time out, the drain timer and
\* the handlers' timers fire.  A handler without a timeout may run forever: no
\* fairness on it.
Fairness ==
    /\ WF_vars(Accept) /\ WF_vars(StopLoop) /\ WF_vars(DrainTimeout)
    /\ \A k \in Call : /\ WF_vars(NoRequest(k) \/ Refuse(k) \/ Admit(k))
                       /\ WF_vars(Timeout(k))

\* What only the daemon can grant: frames, the close of a stream and the close of
\* the connection are written under no timeout but the handler's, and end when
\* the daemon reads its socket.
DaemonReads ==
    /\ WF_vars(Drained)
    /\ \A k \in Call : /\ WF_vars(Complete(k)) /\ WF_vars(SendError(k))
                       /\ WF_vars(CloseStream(k))

Spec == Init /\ [][Next]_vars
FairSpec == Spec /\ Fairness

-----------------------------------------------------------------------------
(* Properties *)

\* The calls running under registration g.
Running(g) == {k \in Invoking : Held(k) = g}

\* max_concurrent holds for every _Registration, through timeouts, exceptions,
\* cancellation and reloads, and a permit is never leaked: the semaphore counts
\* exactly the invocations in progress.
ConcurrencyCap ==
    \A g \in Reg : /\ held[g] = Cardinality(Running(g))
                   /\ held[g] <= MaxConcurrent

\* A connection waits in the accept queue once, and nothing else is there.
QueueExact ==
    /\ \A i \in 1..Len(acceptQ) : pc[acceptQ[i]] = "queued"
    /\ \A i, j \in 1..Len(acceptQ) : i # j => acceptQ[i] # acceptQ[j]

\* The inductive invariant behind ConcurrencyCap: the accept loop never starts
\* a second task for a call whose handler is running.
IInv == TypeOK /\ QueueExact /\ ConcurrencyCap

Ended(k) == pc[k] \in {"ending", "done"}
Says(k, kind) == \E i \in 1..Len(reply[k]) : reply[k][i] = kind

HasOutcome(k) == Says(k, "ok") \/ Says(k, "handler_error")
Failed == {k \in Call : pc[k] = "failing" \/ Says(k, "handler_error")}
Told == {k \in Call : pc[k] = "failing" \/ (Ended(k) /\ HasOutcome(k))}

\* The counters of _health and of /metrics agree with what callers are told.
\* Every handler_error frame is a counted error.  Until a drain times out, the
\* errors are the handler_error frames sent and on their way, and the calls are
\* those told an outcome or about to be told an error.  (A cancelled drain may
\* leave an error counted and not sent, or an ok sent and not counted.)
CountersMatchReplies ==
    /\ Cardinality({k \in Call : Says(k, "handler_error")}) <= totalErrors
    /\ totalErrors <= totalCalls
    /\ srv \notin {"cancelling", "stopped"} =>
         totalErrors = Cardinality(Failed) /\ totalCalls = Cardinality(Told)

\* A caller is sent frames in an order the client can read: nothing follows a
\* refusal, chunks come before the outcome, and the only frame that may follow
\* an ok outcome is the error of a timeout that fired during its last write.
FrameOrder ==
    \A k \in Call : \A i, j \in 1..Len(reply[k]) : i < j =>
        \/ reply[k][i] = "chunk"
        \/ reply[k][i] = "ok" /\ reply[k][j] = "handler_error" /\ j = Len(reply[k])

\* A stop whose drain ends in time (_drain_inflight without its timeout) cuts no
\* answer short: when serve_forever goes on to close the connection, no caller
\* has chunks without an outcome, and every call counted, or counted as an error,
\* was told so, through timeouts, errors and reloads during the drain.
DrainLosesNothing ==
    [][srv = "draining" /\ srv' = "stopped" =>
          /\ \A k \in Call : Says(k, "chunk") => HasOutcome(k)
          /\ totalCalls = Cardinality({k \in Call : HasOutcome(k)})
          /\ totalErrors = Cardinality({k \in Call : Says(k, "handler_error")})]_vars

\* If the daemon keeps reading, request_stop ends the server: handlers that hang
\* at an await and let themselves be cancelled hold it up to the drain timeout.
StopTerminates == DaemonReads => (stopping ~> srv = "stopped")

\* If the daemon keeps reading, a call the loop has taken is over eventually when
\* its handler has a timeout: read timeout, gates, handler timeout, the write of
\* an error, drain and close leave no call hanging.
CallsEnd == DaemonReads =>
    \A k \in Call : (pc[k] = "reading" /\ NodeOf[k] \in Timed) ~> pc[k] = "done"
=============================================================================
