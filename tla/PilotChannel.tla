---------------------------- MODULE PilotChannel ----------------------------
(***************************************************************************)
(* channel.py: a subscription (PilotChannel), with or without the task     *)
(* that renews it, its use by PilotEventSource, and a PilotPublisher.      *)
(*                                                                         *)
(* Abstractions.  Event n is two units on the wire, its head 2n - 1 and    *)
(* its body 2n; a read returns any run of units, so an event may be cut    *)
(* in two.  0 is a head that split_events rejects.  What the code does     *)
(* between two awaits is one step.  Connection k is the k-th one the       *)
(* channel opens; it owns them (subscribe).  One task uses the handle, any *)
(* task may close it.                                                      *)
(***************************************************************************)
EXTENDS Naturals, Sequences

CONSTANTS
    MaxEvents,  \* bound: events published
    MaxFaults,  \* bound: losses, refusals, cancellations and idle timeouts
    Take        \* max_events of astream

ASSUME BoundsAssumption ==
    MaxEvents \in Nat /\ MaxFaults \in Nat /\ Take \in Nat \ {0}

VARIABLES
    user,    \* "handle", "auto" (auto_reconnect), "ainvoke", "astream" (event source)
    sub,     \* subscribe(): "connect", "dial", "write", "open", "failed", "cancelled"
    pc,      \* where _reconnect_loop waits; "none" without it
    cancel,  \* the task is cancelled and has not met it yet
    closer,  \* close(): "no", "await", "done"
    conn,    \* self._conn
    open,    \* connections whose socket is not closed
    stream,  \* self._stream: "none", "open", "ended" (marker queued), "spent"
    wire,    \* units of self._stream not read yet
    buf,     \* self._buf
    queue,   \* self._reconnect_queue
    recv,    \* recv(): "idle", "wait", or the exception the last one raised
    got,     \* events the application has received
    heard,   \* the broker knows the subscription of self._stream
    sentOn,  \* history: the connection event n was sent on, 0 for none
    pub,     \* the publisher: "connect", "dial", "open", "lost", "closed", "failed"
    faults

task   == <<pc, cancel>>
link   == <<conn, open, stream, wire>>
app    == <<recv, got>>
broker == <<heard, sentOn, pub>>
vars   == <<user, sub, task, closer, link, buf, queue, app, broker, faults>>

MaxConn == MaxFaults + 1
Unit    == 0..(2 * MaxEvents)
closed  == closer # "no"
auto    == user = "auto"

TypeOK ==
    /\ user \in {"handle", "auto", "ainvoke", "astream"}
    /\ sub \in {"connect", "dial", "write", "open", "failed", "cancelled"}
    /\ pc \in {"none", "start", "read", "drop", "sleep", "connect", "dial", "write", "done"}
    /\ heard \in BOOLEAN /\ cancel \in BOOLEAN
    /\ cancel => closer = "await"
    /\ closer \in {"no", "await", "done"}
    /\ recv \in {"idle", "wait", "eof", "timeout", "error", "cancelled"}
    /\ conn \in 0..MaxConn /\ open \subseteq 1..conn
    /\ stream \in {"none", "open", "ended", "spent"}
    /\ wire \in Seq(Unit) /\ buf \in Seq(Unit)
    /\ queue \in Seq(Unit \X Unit) /\ got \in Seq(Unit \X Unit)
    /\ sentOn \in Seq(0..MaxConn) /\ Len(sentOn) <= MaxEvents
    /\ pub \in {"connect", "dial", "open", "lost", "closed", "failed"}
    /\ faults \in 0..MaxFaults

Init ==
    /\ user \in {"handle", "auto", "ainvoke", "astream"}
    /\ sub = "connect" /\ pc = "none" /\ cancel = FALSE /\ closer = "no"
    /\ conn = 0 /\ open = {} /\ stream = "none" /\ wire = <<>>
    /\ buf = <<>> /\ queue = <<>> /\ recv = "idle" /\ got = <<>>
    /\ heard = FALSE /\ sentOn = <<>> /\ pub = "connect"
    /\ faults = 0

Fault == faults < MaxFaults /\ faults' = faults + 1

-----------------------------------------------------------------------------
(* split_events: the whole events at the front, and the rest *)

Events(b) == [i \in 1..(Len(b) \div 2) |-> <<b[2 * i - 1], b[2 * i]>>]

Leftover(b) == SubSeq(b, 2 * (Len(b) \div 2) + 1, Len(b))

\* A head that announces a longer topic or payload than allowed.
Malformed(b) == \E i \in 1..Len(b) : 2 * i - 1 <= Len(b) /\ b[2 * i - 1] = 0

\* encode_event of each.
Encoded(es) == [i \in 1..(2 * Len(es)) |->
                   IF i % 2 = 1 THEN es[(i + 1) \div 2][1] ELSE es[i \div 2][2]]

-----------------------------------------------------------------------------
(* subscribe() *)

Connect == conn' = conn + 1 /\ open' = open \cup {conn + 1} /\ UNCHANGED <<stream, wire>>

Dial == /\ conn \in open
        /\ stream' = "open" /\ wire' = <<>> /\ UNCHANGED <<conn, open>>

\* The broker gets the subscription, unless it has hung up.
Subscribe == heard' = (stream = "open")

SubConnect ==
    /\ sub = "connect" /\ sub' = "dial" /\ Connect
    /\ UNCHANGED <<user, task, closer, buf, queue, app, broker, faults>>

SubDial ==
    /\ sub = "dial" /\ sub' = "write" /\ Dial
    /\ UNCHANGED <<user, task, closer, buf, queue, app, broker, faults>>

\* The constructor starts the task.
SubWrite ==
    /\ sub = "write" /\ conn \in open
    /\ sub' = "open" /\ Subscribe
    /\ pc' = IF auto THEN "start" ELSE "none"
    /\ UNCHANGED <<user, cancel, closer, link, buf, queue, app, sentOn, pub, faults>>

\* Connect, resolve_hostname, dial or write raises.
SubFails ==
    /\ sub \in {"connect", "dial", "write"}
    /\ IF sub # "connect" /\ conn \notin open THEN UNCHANGED faults ELSE Fault
    /\ sub' = "failed" /\ open' = open \ {conn}
    /\ UNCHANGED <<user, task, closer, conn, stream, wire, buf, queue, app, broker>>

\* CancelledError is not an Exception: nothing is closed.
SubCancelled ==
    /\ sub \in {"connect", "dial", "write"} /\ Fault
    /\ sub' = "cancelled"
    /\ UNCHANGED <<user, task, closer, link, buf, queue, app, broker>>

-----------------------------------------------------------------------------
(* _reconnect_loop and _iterate_current_stream *)

\* Mutation: what the loop has read is looked at before _closed is.
IterateUnclosed(b) ==
    \/ Malformed(b) /\ pc' = "drop" /\ buf' = b /\ UNCHANGED queue
    \/ /\ ~Malformed(b)
       /\ queue' = queue \o Events(b) /\ buf' = Leftover(b) /\ pc' = "read"

\* The loop finds b in self._buf: it ends if the channel is closed, drops a
\* malformed stream, or forwards the whole events and waits in read().
Iterate(b) ==
    \/ closed /\ pc' = "done" /\ buf' = b /\ UNCHANGED queue
    \/ ~closed /\ Malformed(b) /\ pc' = "drop" /\ buf' = b /\ UNCHANGED queue
    \/ /\ ~closed /\ ~Malformed(b)
       /\ queue' = queue \o Events(b) /\ buf' = Leftover(b) /\ pc' = "read"

LoopStart ==
    /\ pc = "start" /\ ~cancel
    /\ Iterate(buf)
    /\ UNCHANGED <<user, sub, cancel, closer, link, app, broker, faults>>

\* A wait_for that is cancelled when its result is there returns the result
\* (Python 3.11): read and dial may outlive a cancellation.
LoopRead(n) ==
    /\ pc = "read" /\ n \in 1..Len(wire)
    /\ Iterate(buf \o SubSeq(wire, 1, n))
    /\ wire' = SubSeq(wire, n + 1, Len(wire))
    /\ cancel' = FALSE
    /\ UNCHANGED <<user, sub, closer, conn, open, stream, app, broker, faults>>

Dropped == pc' = IF closed THEN "done" ELSE "drop"

LoopEof ==
    /\ pc = "read" /\ wire = <<>> /\ stream = "ended"
    /\ Dropped /\ stream' = "spent" /\ cancel' = FALSE
    /\ UNCHANGED <<user, sub, closer, conn, open, wire, buf, queue, app, broker, faults>>

\* 30 s without a frame, or with one that came too late to be taken.
LoopIdle ==
    /\ pc = "read" /\ ~cancel
    /\ IF stream = "spent" /\ wire = <<>> THEN UNCHANGED faults ELSE Fault
    /\ Dropped
    /\ UNCHANGED <<user, sub, cancel, closer, link, buf, queue, app, broker>>

\* A local close: the queue leaves the table with what it already holds.
CloseStream ==
    /\ heard' = FALSE
    /\ stream' = IF stream = "open" THEN "spent" ELSE stream
    /\ \E n \in 0..Len(wire) : wire' = SubSeq(wire, 1, n)
    /\ UNCHANGED <<conn, sentOn, pub>>

CloseConn == open' = open \ {conn}

LoopDrop ==
    /\ pc = "drop" /\ ~cancel
    /\ pc' = "sleep" /\ CloseStream /\ CloseConn
    /\ UNCHANGED <<user, sub, cancel, closer, buf, queue, app, faults>>

LoopWake ==
    /\ pc = "sleep" /\ ~cancel
    /\ pc' = "connect"
    /\ UNCHANGED <<user, sub, cancel, closer, link, buf, queue, app, broker, faults>>

LoopConnect ==
    /\ pc = "connect" /\ ~cancel
    /\ pc' = "dial" /\ Connect
    /\ UNCHANGED <<user, sub, cancel, closer, buf, queue, app, broker, faults>>

LoopDial ==
    /\ pc = "dial" /\ pc' = "write" /\ cancel' = FALSE /\ Dial
    /\ UNCHANGED <<user, sub, closer, buf, queue, app, broker, faults>>

\* Mutation: an unfinished event of the old stream stays in front.
FreshBufKept == buf

FreshBuf == <<>>

LoopWrite ==
    /\ pc = "write" /\ ~cancel /\ conn \in open
    /\ Subscribe /\ Iterate(FreshBuf)
    /\ UNCHANGED <<user, sub, cancel, closer, link, app, sentOn, pub, faults>>

\* Mutation: a failed attempt ends the task.
AfterFailureEnd == pc' = "done" /\ UNCHANGED <<buf, queue>>

\* self._stream and self._buf are still those of before (or a new stream that
\* could not be written to), and the loop reads from it again.
AfterFailure == Iterate(buf)

LoopAttemptFails ==
    /\ pc \in {"connect", "dial", "write"} /\ (cancel => pc = "dial")
    /\ pc = "write" => conn \notin open
    /\ IF pc # "connect" /\ conn \notin open THEN UNCHANGED faults ELSE Fault
    /\ AfterFailure /\ cancel' = FALSE
    /\ UNCHANGED <<user, sub, closer, link, app, broker>>

LoopCancelled ==
    /\ cancel
    /\ pc' = "done" /\ cancel' = FALSE
    /\ UNCHANGED <<user, sub, closer, link, buf, queue, app, broker, faults>>

-----------------------------------------------------------------------------
(* recv() and __anext__, and the event source around them *)

\* The event source has what it wanted, or recv() raised.
SourceDone ==
    /\ user \in {"ainvoke", "astream"}
    /\ \/ recv \notin {"idle", "wait"}
       \/ Len(got) = IF user = "ainvoke" THEN 1 ELSE Take

MayRecv == sub = "open" /\ recv # "wait" /\ ~SourceDone

RecvQueued ==
    /\ auto /\ MayRecv /\ queue # <<>>
    /\ got' = Append(got, Head(queue)) /\ queue' = Tail(queue) /\ recv' = "idle"
    /\ UNCHANGED <<user, sub, task, closer, link, buf, broker, faults>>

\* The loop of recv() finds b: the first event is returned, those behind it are
\* encoded again in front of the rest.
TakeFirst(b) ==
    \/ Malformed(b) /\ recv' = "error" /\ buf' = b /\ UNCHANGED got
    \/ ~Malformed(b) /\ Len(b) < 2 /\ recv' = "wait" /\ buf' = b /\ UNCHANGED got
    \/ /\ ~Malformed(b) /\ Len(b) >= 2
       /\ got' = Append(got, Head(Events(b)))
       /\ buf' = Encoded(Tail(Events(b))) \o Leftover(b)
       /\ recv' = "idle"

RecvCall ==
    /\ ~auto /\ MayRecv
    /\ TakeFirst(buf)
    /\ UNCHANGED <<user, sub, task, closer, link, queue, broker, faults>>

RecvChunk(n) ==
    /\ recv = "wait" /\ n \in 1..Len(wire)
    /\ TakeFirst(buf \o SubSeq(wire, 1, n))
    /\ wire' = SubSeq(wire, n + 1, Len(wire))
    /\ UNCHANGED <<user, sub, task, closer, conn, open, stream, queue, broker, faults>>

RecvEof ==
    /\ recv = "wait" /\ wire = <<>> /\ stream = "ended"
    /\ recv' = "eof" /\ stream' = "spent"
    /\ UNCHANGED <<user, sub, task, closer, conn, open, wire, buf, queue, got, broker,
                   faults>>

\* The timeout, 30 s if none was given; or the task is cancelled, which
\* __anext__ turns into the end of the iteration.
RecvFails ==
    /\ recv = "wait" /\ recv' \in {"timeout", "cancelled"}
    /\ UNCHANGED <<user, sub, task, closer, link, buf, queue, got, broker, faults>>

-----------------------------------------------------------------------------
(* close() *)

CloseBegin ==
    /\ sub = "open" /\ ~closed
    /\ user \in {"ainvoke", "astream"} => SourceDone
    /\ closer' = "await" /\ cancel' = auto
    /\ UNCHANGED <<user, sub, pc, link, buf, queue, app, broker, faults>>

\* Mutation: the task is cancelled and not waited for.
TaskLeft == TRUE

TaskEnded == pc \in {"none", "done"}

CloseEnd ==
    /\ closer = "await" /\ TaskEnded
    /\ closer' = "done" /\ CloseStream /\ CloseConn
    /\ UNCHANGED <<user, sub, task, buf, queue, app, faults>>

-----------------------------------------------------------------------------
(* PilotPublisher *)

PubStep(from, to) ==
    /\ pub = from /\ pub' = to
    /\ UNCHANGED <<user, sub, task, closer, link, buf, queue, app, heard, sentOn>>

\* Connect; then dial, and the subscription the broker wants; or either raises.
Publisher == \/ PubStep("connect", "dial") /\ UNCHANGED faults
             \/ PubStep("dial", "open") /\ UNCHANGED faults
             \/ PubStep("connect", "failed") /\ Fault
             \/ PubStep("dial", "failed") /\ Fault

\* publish(): the broker passes the event on to the subscription it knows.
Publish ==
    /\ pub = "open" /\ Len(sentOn) < MaxEvents
    /\ LET n == Len(sentOn) + 1 IN
         /\ sentOn' = Append(sentOn, IF heard THEN conn ELSE 0)
         /\ wire' = IF heard THEN wire \o <<2 * n - 1, 2 * n>> ELSE wire
    /\ UNCHANGED <<user, sub, task, closer, conn, open, stream, buf, queue, app, heard,
                   pub, faults>>

PubClose == \E s \in {"open", "lost"} : PubStep(s, "closed") /\ UNCHANGED faults

-----------------------------------------------------------------------------
(* The daemon, the broker and the network, external *)

\* The stream ends behind what has already come through.
StreamEnds ==
    /\ stream' = "ended" /\ heard' = FALSE
    /\ \E n \in 0..Len(wire) : wire' = SubSeq(wire, 1, n)

\* The broker restarts or hangs up.
RemoteClose ==
    /\ stream = "open" /\ StreamEnds /\ Fault
    /\ UNCHANGED <<user, sub, task, closer, conn, open, buf, queue, app, sentOn, pub>>

\* The daemon goes away: the read loop closes the connection.
ConnLost ==
    /\ conn \in open /\ CloseConn /\ Fault
    /\ IF stream = "open" THEN StreamEnds ELSE UNCHANGED <<stream, wire, heard>>
    /\ UNCHANGED <<user, sub, task, closer, conn, buf, queue, app, sentOn, pub>>

PubLost == PubStep("open", "lost") /\ Fault

Garbage ==
    /\ heard /\ wire' = Append(wire, 0) /\ Fault
    /\ UNCHANGED <<user, sub, task, closer, conn, open, stream, buf, queue, app, broker>>

-----------------------------------------------------------------------------
Reading == LoopStart \/ LoopEof \/ \E n \in 1..Len(wire) : LoopRead(n)

Reconnect == LoopWake \/ LoopConnect \/ LoopDial \/ LoopWrite \/ LoopAttemptFails

Receiving == RecvCall \/ RecvEof \/ \E n \in 1..Len(wire) : RecvChunk(n)

Next ==
    \/ SubConnect \/ SubDial \/ SubWrite \/ SubFails \/ SubCancelled
    \/ Reading \/ LoopIdle \/ LoopDrop \/ Reconnect \/ LoopCancelled
    \/ RecvQueued \/ Receiving \/ RecvFails
    \/ CloseBegin \/ CloseEnd
    \/ Publisher \/ Publish \/ PubClose
    \/ RemoteClose \/ ConnLost \/ PubLost \/ Garbage

\* The event loop runs what is ready and its timers fire; an event source that
\* is done leaves its async with.  Nothing obliges the publisher, the broker or
\* the user of a handle.
Fairness ==
    /\ WF_vars(Reading) /\ WF_vars(LoopWake \/ LoopConnect)
    /\ WF_vars(LoopIdle /\ stream = "spent")
    /\ WF_vars(LoopCancelled)
    /\ WF_vars(CloseBegin /\ SourceDone)

\* What only the daemon can grant: that it reads what a close, a dial and the
\* write of a subscription send, and answers a dial that no fault refuses.
DaemonServes ==
    /\ WF_vars(LoopDrop) /\ WF_vars(CloseEnd)
    /\ WF_vars(LoopDial \/ LoopWrite \/ LoopAttemptFails)

Spec == Init /\ [][Next]_vars
FairSpec == Spec /\ Fairness

-----------------------------------------------------------------------------
(* Properties *)

Log == got \o queue

Number(event) == event[2] \div 2

\* However reads cut the events, and whatever drops, failed attempts and
\* reconnects lie between: every event forwarded is a published one and whole,
\* the order is that of publication, and what arrives of one subscription is
\* all that was sent on it so far: events are lost between two subscriptions or
\* at the end of one, never inside it.
NoGapInside ==
    \A i \in 1..Len(Log) :
        LET n == Number(Log[i]) IN
          /\ Log[i] = <<2 * n - 1, 2 * n>> /\ n \in 1..Len(sentOn)
          /\ \A j \in 1..(i - 1) : Number(Log[j]) < n
          /\ {m \in 1..(n - 1) : sentOn[m] = sentOn[n]} \subseteq
                 {Number(Log[j]) : j \in 1..(i - 1)}

\* The channel never has a second connection open, and when subscribe() has
\* raised an error or close() has returned it has none, and no task: whichever
\* await of a reconnect the cancellation has met.
NothingLeftOpen ==
    /\ open \subseteq {conn}
    /\ (sub = "failed" \/ closer = "done") => (open = {} /\ pc \in {"none", "done"})

\* auto_reconnect: if the daemon serves, a subscription that was lost is renewed,
\* through any number of failed attempts, unless the channel is closed.
Resubscribes == DaemonServes =>
    ((auto /\ sub = "open" /\ ~heard) ~> (heard \/ closed))

\* If the daemon serves, close() returns, at whichever await of the reconnect
\* task its cancellation comes, also when a read or a dial that has just completed
\* swallows it; and an event source that has its events, or whose recv() raised,
\* closes its channel.
CloseReturns == DaemonServes => ((closed \/ SourceDone) ~> closer = "done")
=============================================================================
