----------------------------- MODULE RemoteCall -----------------------------
(***************************************************************************)
(* runnables.PilotRemoteRunnable: one ainvoke (_ainvoke_with_retries,      *)
(* _ainvoke_once) or one astream, over _aframes, with the retries, the     *)
(* deadline, the connection cache and the reassembly of frames.            *)
(*                                                                         *)
(* Abstractions.  A frame is known by its kind.  On the wire it is         *)
(* FrameBytes units long: a body that parses as JSON only when it is       *)
(* whole, and the newline.  The daemon delivers any non-empty run of what  *)
(* was written as one read.  The worker (WorkerServer) writes chunks and   *)
(* then one last frame; the callbacks of LangChain, the validation of      *)
(* input and output and the spans are left out.  The requests of           *)
(* resolve_hostname and of dial are one; what is written is under no       *)
(* timeout, so writing and waiting for the answer are different states.    *)
(***************************************************************************)
EXTENDS Naturals, Sequences

CONSTANTS
    MaxAttempts,  \* 1 + max_retries, 3 in astream
    MaxChunks     \* bound: frames a handler writes before its last one

ASSUME BoundsAssumption == MaxAttempts \in Nat \ {0} /\ MaxChunks \in Nat

VARIABLES
    astream,  \* is it a call of astream, or of ainvoke?
    pc,       \* "idle", "get", "send", "dial", "write", "read", "close",
              \* "backoff", "done"
    leaving,  \* how _aframes ends, while its finally clause closes the stream
    attempt,  \* attempts started
    conn,     \* the cached connection: "none", "live", "dead"
    frames,   \* kinds of the frames the worker wrote on this attempt's stream
    rcvd,     \* units of them read
    cut,      \* the peer or the tunnel has closed the stream
    taken,    \* frames handed on to the caller of _aframes
    out,      \* results seen, as <<attempt, frame>>; the last is ainvoke's result
    ended     \* how the call ended

vars == <<astream, pc, leaving, attempt, conn, frames, rcvd, cut, taken, out, ended>>
wire == <<frames, rcvd, cut, taken>>

FrameBytes == 3

Values == {"chunk", "result"}           \* result is not null
Terminal == {"end", "result", "error"}  \* done is true
Kind == Values \cup Terminal \cup {"null"}

TypeOK ==
    /\ pc \in {"idle", "get", "send", "dial", "write", "read", "close", "backoff",
               "done"}
    /\ leaving \in {"no", "ok", "eof", "timeout", "conn", "cancelled"}
    /\ astream \in BOOLEAN /\ cut \in BOOLEAN
    /\ attempt \in 0..MaxAttempts
    /\ conn \in {"none", "live", "dead"}
    /\ frames \in Seq(Kind)
    /\ rcvd \in 0..(FrameBytes * Len(frames))
    /\ taken \in 0..Len(frames)
    /\ out \in Seq((1..MaxAttempts) \X (1..(MaxChunks + 1)))
    /\ ended \in {"no", "ok", "remote_error", "eof", "timeout", "conn", "cancelled"}

Init ==
    /\ pc = "idle" /\ leaving = "no" /\ attempt = 0 /\ conn = "none"
    /\ frames = <<>> /\ rcvd = 0 /\ cut = FALSE /\ taken = 0
    /\ astream \in BOOLEAN
    /\ out = <<>> /\ ended = "no"

-----------------------------------------------------------------------------
(* The call and its attempts *)

Call ==
    /\ pc = "idle"
    /\ pc' = "get" /\ attempt' = 1
    /\ UNCHANGED <<astream, leaving, conn, wire, out, ended>>

End(how) == pc' = "done" /\ ended' = how

\* _registry.get: the cached connection if it is alive, else a new one.
GetConn ==
    /\ pc = "get"
    /\ conn' = "live" /\ pc' = "send"
    /\ UNCHANGED <<astream, leaving, attempt, wire, out, ended>>

GetConnFails ==
    /\ pc = "get" /\ conn # "live"
    /\ End("conn")
    /\ UNCHANGED <<astream, leaving, attempt, conn, wire, out>>

\* _request has the write lock and drain() has returned: from here on the
\* timeout of resolve_hostname and dial counts.
Sent ==
    /\ pc = "send" /\ conn = "live"
    /\ pc' = "dial"
    /\ UNCHANGED <<astream, leaving, attempt, conn, wire, out, ended>>

\* resolve_hostname or dial raises PilotConnectionError or
\* ConnectionResetError: neither is caught by the retry loops.
SendFails ==
    /\ pc = "send"
    /\ End("conn")
    /\ UNCHANGED <<astream, leaving, attempt, conn, wire, out>>

DialFails ==
    /\ pc = "dial"
    /\ End("conn")
    /\ UNCHANGED <<astream, leaving, attempt, conn, wire, out>>

DialOk ==
    /\ pc = "dial" /\ conn = "live"
    /\ pc' = "write"
    /\ UNCHANGED <<astream, leaving, attempt, conn, wire, out, ended>>

\* The request is on the new stream.
Written ==
    /\ pc = "write" /\ conn = "live"
    /\ pc' = "read"
    /\ frames' = <<>> /\ rcvd' = 0 /\ cut' = FALSE /\ taken' = 0
    /\ UNCHANGED <<astream, leaving, attempt, conn, out, ended>>

\* An exception or a return inside the try of _aframes: its finally clause sends
\* a close for the stream, and waits for the lock and drain() like any write.
Leave(how) == pc' = "close" /\ leaving' = how /\ UNCHANGED ended

WriteFails ==
    /\ pc = "write"
    /\ Leave("conn")
    /\ UNCHANGED <<astream, attempt, conn, wire, out>>

\* Mutation: astream retries whatever it has already yielded.
FailAttemptAlways(how) ==
    /\ IF attempt < MaxAttempts
       THEN /\ pc' = "backoff"
            /\ conn' = IF conn = "dead" THEN "none" ELSE conn
            /\ out' = IF astream THEN out ELSE <<>>
            /\ UNCHANGED ended
       ELSE End(how) /\ UNCHANGED <<conn, out>>
    /\ UNCHANGED <<astream, attempt, wire>>

\* Mutation: an off-by-one in the number of attempts.
FailAttemptOneMore(how) ==
    /\ IF attempt <= MaxAttempts /\ (astream => out = <<>>)
       THEN /\ pc' = "backoff"
            /\ conn' = IF conn = "dead" THEN "none" ELSE conn
            /\ out' = IF astream THEN out ELSE <<>>
            /\ UNCHANGED ended
       ELSE End(how) /\ UNCHANGED <<conn, out>>
    /\ UNCHANGED <<astream, attempt, wire>>

\* The except clause of the retry loops, for PilotConnectionErrorWrapper and
\* TimeoutError: drop_current and sleep, or raise.  astream gives up as well
\* once it has yielded something; ainvoke forgets what it has seen.
FailAttempt(how) ==
    /\ IF attempt < MaxAttempts /\ (astream => out = <<>>)
       THEN /\ pc' = "backoff"
            /\ conn' = IF conn = "dead" THEN "none" ELSE conn
            /\ out' = IF astream THEN out ELSE <<>>
            /\ UNCHANGED ended
       ELSE End(how) /\ UNCHANGED <<conn, out>>
    /\ UNCHANGED <<astream, attempt, wire>>

Retry ==
    /\ pc = "backoff"
    /\ pc' = "get" /\ attempt' = attempt + 1
    /\ UNCHANGED <<astream, leaving, conn, wire, out, ended>>

DialTimeout == pc = "dial" /\ FailAttempt("timeout") /\ UNCHANGED leaving

\* Stream.close() returns (it swallows the errors of its write) and what ended
\* _aframes reaches its caller.
StreamClosed ==
    /\ pc = "close"
    /\ leaving' = "no"
    /\ \/ leaving \in {"timeout", "eof"} /\ FailAttempt(leaving)
       \/ /\ leaving \notin {"timeout", "eof"} /\ End(leaving)
          /\ UNCHANGED <<astream, attempt, conn, wire, out>>

-----------------------------------------------------------------------------
(* The worker and the network, external *)

\* The handler writes a chunk (a null one if it yields None) or its last frame.
WorkerWrites(kind) ==
    /\ pc = "read" /\ ~cut
    /\ \A i \in 1..Len(frames) : frames[i] \notin Terminal
    /\ kind \in Terminal \/ Len(frames) < MaxChunks
    /\ kind = "result" => frames = <<>>
    /\ frames' = Append(frames, kind)
    /\ UNCHANGED <<astream, pc, leaving, attempt, conn, rcvd, cut, taken, out, ended>>

\* A cold tunnel, a worker that dies or a peer that hangs up.
StreamCut ==
    /\ pc = "read" /\ ~cut
    /\ cut' = TRUE
    /\ UNCHANGED <<astream, pc, leaving, attempt, conn, frames, rcvd, taken, out, ended>>

ConnDies ==
    /\ conn = "live"
    /\ conn' = "dead"
    /\ UNCHANGED <<astream, pc, leaving, attempt, wire, out, ended>>

-----------------------------------------------------------------------------
(* _aframes: the read loop *)

Lines == rcvd \div FrameBytes

\* What is left of the buffer parses: a reply without its newline.
RestParses == rcvd % FrameBytes = FrameBytes - 1

\* The buffer holds nothing to hand on, and the loop waits in read().
AtRead == pc = "read" /\ taken = Lines /\ ~RestParses

\* One read: n units have now been received.
Read(n) ==
    /\ AtRead
    /\ n \in (rcvd + 1)..(FrameBytes * Len(frames))
    /\ rcvd' = n
    /\ UNCHANGED <<astream, pc, leaving, attempt, conn, frames, cut, taken, out, ended>>

\* The loop of the caller ends; it does not wait for _aframes, which is closed
\* when it is collected.
LastFrame(kind) == kind \in Terminal

\* The caller of _aframes gets frame i and goes on, or ends; _aframes goes on, or
\* returns behind a frame that was its last.
HandOn(i, last) ==
    /\ taken' = i
    /\ out' = IF frames[i] \in Values THEN Append(out, <<attempt, i>>) ELSE out
    /\ \/ /\ LastFrame(frames[i])
          /\ End(IF frames[i] = "error" THEN "remote_error" ELSE "ok")
          /\ UNCHANGED leaving
       \/ ~LastFrame(frames[i]) /\ last /\ Leave("ok")
       \/ ~LastFrame(frames[i]) /\ ~last /\ UNCHANGED <<pc, leaving, ended>>
    /\ UNCHANGED <<astream, attempt, conn, frames, rcvd, cut>>

\* The next line is handed on.  At a result, astream waits for its consumer.
YieldLine == pc = "read" /\ taken < Lines /\ HandOn(taken + 1, FALSE)

\* "Legacy fallback": what is left is handed on, and the generator returns.
YieldRest == pc = "read" /\ taken = Lines /\ RestParses /\ HandOn(taken + 1, TRUE)

\* Mutation: the deadline is only looked at before the first frame.
DeadlineFirstFrame ==
    /\ AtRead /\ taken = 0
    /\ Leave("timeout")
    /\ UNCHANGED <<astream, attempt, conn, wire, out>>

\* Mutation: the deadline is looked at after the read, before its frames.
DeadlineAfterRead ==
    /\ pc = "read"
    /\ Leave("timeout")
    /\ UNCHANGED <<astream, attempt, conn, wire, out>>

\* The deadline passes before or in a read.
Deadline ==
    /\ AtRead
    /\ Leave("timeout")
    /\ UNCHANGED <<astream, attempt, conn, wire, out>>

\* read() returns b'': the stream was closed or the connection is gone, and
\* frames on their way may be lost with it.
\* After any frame that is the end of the generator, without an error.
Eof ==
    /\ AtRead /\ (cut \/ conn = "dead")
    /\ Leave(IF taken > 0 THEN "ok" ELSE "eof")
    /\ UNCHANGED <<astream, attempt, conn, wire, out>>

\* astream is suspended at a result its consumer is looking at.
AtYield == pc = "read" /\ astream /\ out # <<>> /\ out[Len(out)] = <<attempt, taken>>

\* The calling task is cancelled where it waits, or the consumer of astream
\* leaves it at a result.  With a stream open, that is closed first.
Cancel ==
    /\ \/ /\ pc = "write" \/ AtRead
          /\ Leave("cancelled")
       \/ /\ pc \in {"get", "send", "dial", "close", "backoff"} \/ AtYield
          /\ End("cancelled")
          /\ leaving' = "no"
    /\ UNCHANGED <<astream, attempt, conn, wire, out>>

-----------------------------------------------------------------------------
ReadSome == \E n \in (rcvd + 1)..(FrameBytes * Len(frames)) : Read(n)

Next ==
    \/ Call \/ GetConn \/ GetConnFails
    \/ Sent \/ SendFails \/ DialOk \/ DialFails \/ DialTimeout
    \/ Written \/ WriteFails \/ StreamClosed
    \/ ReadSome \/ YieldLine \/ YieldRest \/ Deadline \/ Eof
    \/ Retry \/ Cancel
    \/ \E kind \in Kind : WorkerWrites(kind)
    \/ StreamCut \/ ConnDies

\* The event loop runs what is ready and timers fire, and the consumer of
\* astream asks for more or leaves.  The worker owes nothing, nor does the daemon.
Fairness == /\ WF_vars(DialTimeout)
            /\ WF_vars(YieldLine \/ YieldRest)
            /\ WF_vars(Deadline)

Spec == Init /\ [][Next]_vars
FairSpec == Spec /\ Fairness

-----------------------------------------------------------------------------
(* Properties *)

\* The results among the frames handed on, in the order of the frames.
ResultsInOrder ==
    /\ {out[k] : k \in 1..Len(out)} =
           {<<attempt, i>> : i \in {j \in 1..taken : frames[j] \in Values}}
    /\ \A k \in 1..Len(out) : \A l \in 1..(k - 1) : out[l][2] < out[k][2]

\* What the caller sees comes from one run of the handler, in order, each
\* result once and with no gap, however often the call was retried and however
\* the frames were cut into reads.
OneRunSeen ==
    /\ pc = "read" \/ out # <<>> => ResultsInOrder
    /\ out # <<>> => pc \in {"read", "close", "done"}

\* The last frame of a run has been received, if need be without its newline.
AnswerReceived ==
    \E i \in 1..Len(frames) : frames[i] \in Terminal /\ rcvd >= FrameBytes * i - 1

\* Once the handler's last frame has been received the call takes that answer,
\* a success or the handler's own error, whichever reads it came in: neither the
\* deadline nor the end of the stream, however close behind, discards it and
\* makes the retry loops run the handler again.
AnswerKept ==
    AnswerReceived =>
        \/ pc = "read" \/ ended = "cancelled"
        \/ /\ pc = "done" /\ taken = Len(frames)
           /\ ended = IF frames[taken] = "error" THEN "remote_error" ELSE "ok"

\* The awaits of a call that are under no timeout: connecting, closing a dead
\* connection before a retry, and every write, with its lock and its drain().
Untimed == \/ GetConn \/ GetConnFails \/ Sent \/ SendFails
           \/ Written \/ WriteFails \/ StreamClosed \/ Retry

\* They end, with success or an error, if the daemon goes on reading its socket.
DaemonReads == WF_vars(Untimed)

\* If the daemon reads its socket, a call ends, whatever the worker and the
\* network do and whatever the daemon answers or fails to.
CallEnds == DaemonReads => (pc = "get" ~> pc = "done")
=============================================================================
