---------------------------- MODULE PilotStreams ----------------------------
(***************************************************************************)
(* The stream half of asyncio_client.PilotConnection: dial and listen,     *)
(* the per-connection receive queues with the frames that arrive before    *)
(* anybody asked for them (_pending_recv), Stream.read/close,              *)
(* Listener.accept/close, and the end of the connection.                   *)
(*                                                                         *)
(* Abstractions.  The socket is one FIFO of frames.  The n-th data frame   *)
(* of a connection carries n; 0 is the end-of-stream marker None of a      *)
(* queue.  There is one listening port.  Connection ids are not reused.    *)
(* The write lock, the unsent bytes and the reply routing are the subject  *)
(* of PilotRequests.                                                       *)
(***************************************************************************)
EXTENDS Naturals, Sequences, SequencesExt

CONSTANTS
    Dialer,     \* the calls of dial()
    ConnId,     \* ids the daemon gives to connections
    MaxFrames,  \* data frames per connection
    MaxSock,    \* frames the socket holds before the daemon has to wait
    NoConn

ASSUME NoConnAssumption == NoConn \notin ConnId
ASSUME BoundsAssumption == MaxFrames \in Nat /\ MaxSock \in Nat \ {0}

VARIABLES
    (* the daemon, external *)
    sock,        \* frames on their way to the client
    dials,       \* cmdDial requests not yet answered
    bind,        \* "no", "asked", "bound"
    peer,        \* per connection: "unused", "open", "closed"
    sent,        \* data frames sent per connection
    closeReq,    \* connections for which a cmdClose is on its way
    (* the client's tables *)
    dialWaiters, \* _waiters[CMD_DIAL_OK]
    queues,      \* keys of _stream_recv_queues
    pending,     \* _pending_recv
    acceptKey,   \* the port is a key of _listener_accept_queues
    (* the objects handed to the application *)
    dial,        \* per dial(): "idle", "wait", "answered", "done", "timeout"
    dialId,      \* the connection id in the answer to a dial()
    listen,      \* "idle", "wait", "answered", "open", "closed"
    acceptQ,     \* Listener._accept_q
    stream,      \* per connection: "none", "open", "closing", "closed"
    recvQ,       \* Stream._recv_q
    got,         \* data read by the application
    eof,         \* read() returned b''
    (* lifecycle *)
    reading, closed,
    closing      \* close(): "no", "waiting" in wait_closed, "flushed", "swept"

daemon == <<sock, dials, bind, peer, sent, closeReq>>
tables == <<dialWaiters, queues, pending, acceptKey>>
calls  == <<dial, dialId, listen>>
app    == <<stream, recvQ, got, eof>>
life   == <<reading, closed, closing>>
vars   == <<daemon, tables, calls, acceptQ, app, life>>

EOF == 0

Frame ==
    [type : {"dial_ok", "accept", "recv", "close_ok"}, id : ConnId, n : 0..MaxFrames]
        \cup [type : {"bind_ok"}, id : {NoConn}, n : {0}]

TypeOK ==
    /\ sock \in Seq(Frame)
    /\ dials \in Nat
    /\ bind \in {"no", "asked", "bound"}
    /\ peer \in [ConnId -> {"unused", "open", "closed"}]
    /\ sent \in [ConnId -> 0..MaxFrames]
    /\ closeReq \subseteq ConnId
    /\ dialWaiters \in Seq(Dialer)
    /\ queues \subseteq ConnId
    /\ pending \in [ConnId -> Seq(0..MaxFrames)]
    /\ acceptKey \in BOOLEAN
    /\ dial \in [Dialer -> {"idle", "wait", "answered", "done", "timeout"}]
    /\ dialId \in [Dialer -> ConnId \cup {NoConn}]
    /\ listen \in {"idle", "wait", "answered", "open", "closed"}
    /\ acceptQ \in Seq(ConnId)
    /\ stream \in [ConnId -> {"none", "open", "closing", "closed"}]
    /\ recvQ \in [ConnId -> Seq(0..MaxFrames)]
    /\ got \in [ConnId -> Seq(1..MaxFrames)]
    /\ eof \in [ConnId -> BOOLEAN]
    /\ reading \in BOOLEAN /\ closed \in BOOLEAN
    /\ closing \in {"no", "waiting", "flushed", "swept"}

Init ==
    /\ sock = <<>> /\ dials = 0 /\ bind = "no"
    /\ peer = [c \in ConnId |-> "unused"]
    /\ sent = [c \in ConnId |-> 0]
    /\ closeReq = {}
    /\ dialWaiters = <<>> /\ queues = {} /\ acceptKey = FALSE
    /\ pending = [c \in ConnId |-> <<>>]
    /\ dial = [d \in Dialer |-> "idle"]
    /\ dialId = [d \in Dialer |-> NoConn]
    /\ listen = "idle"
    /\ acceptQ = <<>>
    /\ stream = [c \in ConnId |-> "none"]
    /\ recvQ = [c \in ConnId |-> <<>>]
    /\ got = [c \in ConnId |-> <<>>]
    /\ eof = [c \in ConnId |-> FALSE]
    /\ reading = TRUE /\ closed = FALSE /\ closing = "no"

-----------------------------------------------------------------------------
(* The daemon: answers dials and binds, opens inbound connections on a bound *)
(* port, forwards data, and reports the end of a connection with cmdCloseOK. *)

Push(type, c, n) ==
    /\ Len(sock) < MaxSock
    /\ sock' = Append(sock, [type |-> type, id |-> c, n |-> n])

DaemonDialOk(c) ==
    /\ dials > 0 /\ peer[c] = "unused"
    /\ dials' = dials - 1
    /\ peer' = [peer EXCEPT ![c] = "open"]
    /\ Push("dial_ok", c, 0)
    /\ UNCHANGED <<bind, sent, closeReq, tables, calls, acceptQ, app, life>>

DaemonBindOk ==
    /\ bind = "asked"
    /\ bind' = "bound"
    /\ Push("bind_ok", NoConn, 0)
    /\ UNCHANGED <<dials, peer, sent, closeReq, tables, calls, acceptQ, app, life>>

DaemonAccept(c) ==
    /\ bind = "bound" /\ peer[c] = "unused"
    /\ peer' = [peer EXCEPT ![c] = "open"]
    /\ Push("accept", c, 0)
    /\ UNCHANGED <<dials, bind, sent, closeReq, tables, calls, acceptQ, app, life>>

DaemonData(c) ==
    /\ peer[c] = "open" /\ sent[c] < MaxFrames
    /\ sent' = [sent EXCEPT ![c] = @ + 1]
    /\ Push("recv", c, sent[c] + 1)
    /\ UNCHANGED <<dials, bind, peer, closeReq, tables, calls, acceptQ, app, life>>

\* The remote side hangs up.
DaemonRemoteClose(c) ==
    /\ peer[c] = "open"
    /\ peer' = [peer EXCEPT ![c] = "closed"]
    /\ Push("close_ok", c, 0)
    /\ UNCHANGED <<dials, bind, sent, closeReq, tables, calls, acceptQ, app, life>>

\* The answer to Stream.close(), also if the remote side hung up before.
DaemonCloseOk(c) ==
    /\ c \in closeReq
    /\ closeReq' = closeReq \ {c}
    /\ peer' = [peer EXCEPT ![c] = "closed"]
    /\ Push("close_ok", c, 0)
    /\ UNCHANGED <<dials, bind, sent, tables, calls, acceptQ, app, life>>

-----------------------------------------------------------------------------
(* dial and listen *)

Dial(d) ==
    /\ dial[d] = "idle" /\ ~closed
    /\ dial' = [dial EXCEPT ![d] = "wait"]
    /\ dialWaiters' = Append(dialWaiters, d)
    /\ dials' = dials + 1
    /\ UNCHANGED <<sock, bind, peer, sent, closeReq, queues, pending, acceptKey,
                   dialId, listen, acceptQ, app, life>>

\* The timeout of _request, before or just after the answer was dispatched.
DialTimeout(d) ==
    /\ dial[d] \in {"wait", "answered"}
    /\ dial' = [dial EXCEPT ![d] = "timeout"]
    /\ \/ \E i \in 1..Len(dialWaiters) :
             dialWaiters[i] = d /\ dialWaiters' = RemoveAt(dialWaiters, i)
       \/ /\ \A i \in 1..Len(dialWaiters) : dialWaiters[i] # d
          /\ UNCHANGED dialWaiters
    /\ UNCHANGED <<daemon, queues, pending, acceptKey, dialId, listen, acceptQ,
                   app, life>>

\* Mutation: a queue is registered and what arrived before it is not drained.
RegisterEmpty(c) ==
    /\ queues' = queues \cup {c}
    /\ recvQ' = [recvQ EXCEPT ![c] = <<>>]
    /\ pending' = [pending EXCEPT ![c] = <<>>]
    /\ stream' = [stream EXCEPT ![c] = "open"]

\* _register_recv_queue and the new Stream: frames that came early move over.
Register(c) ==
    /\ queues' = queues \cup {c}
    /\ recvQ' = [recvQ EXCEPT ![c] = pending[c]]
    /\ pending' = [pending EXCEPT ![c] = <<>>]
    /\ stream' = [stream EXCEPT ![c] = "open"]

\* The coroutine in dial() runs again, some time after its future was resolved.
DialResume(d) ==
    /\ dial[d] = "answered"
    /\ dial' = [dial EXCEPT ![d] = "done"]
    /\ Register(dialId[d])
    /\ UNCHANGED <<daemon, dialWaiters, acceptKey, dialId, listen, acceptQ, got,
                   eof, life>>

Listen ==
    /\ listen = "idle" /\ ~closed
    /\ listen' = "wait"
    /\ bind' = "asked"
    /\ UNCHANGED <<sock, dials, peer, sent, closeReq, tables, dial, dialId,
                   acceptQ, app, life>>

ListenResume ==
    /\ listen = "answered"
    /\ listen' = "open"
    /\ acceptKey' = TRUE
    /\ UNCHANGED <<daemon, dialWaiters, queues, pending, dial, dialId, acceptQ,
                   app, life>>

-----------------------------------------------------------------------------
(* Listener and Stream *)

Accept ==
    /\ listen \in {"open", "closed"} /\ acceptQ # <<>>
    /\ acceptQ' = Tail(acceptQ)
    /\ Register(Head(acceptQ))
    /\ UNCHANGED <<daemon, dialWaiters, acceptKey, calls, got, eof, life>>

ListenerClose ==
    /\ listen = "open"
    /\ listen' = "closed"
    /\ acceptKey' = FALSE
    /\ UNCHANGED <<daemon, dialWaiters, queues, pending, dial, dialId, acceptQ,
                   app, life>>

\* Mutation: the end marker is handed to the application as data.
ReadMarker(c) ==
    /\ stream[c] # "none" /\ ~eof[c] /\ recvQ[c] # <<>>
    /\ recvQ' = [recvQ EXCEPT ![c] = Tail(@)]
    /\ got' = [got EXCEPT ![c] = Append(@, Head(recvQ[c]))]
    /\ UNCHANGED <<daemon, tables, calls, acceptQ, stream, eof, life>>

\* read(): every caller stops at b''.
Read(c) ==
    /\ stream[c] # "none" /\ ~eof[c] /\ recvQ[c] # <<>>
    /\ recvQ' = [recvQ EXCEPT ![c] = Tail(@)]
    /\ IF Head(recvQ[c]) = EOF
       THEN eof' = [eof EXCEPT ![c] = TRUE] /\ UNCHANGED got
       ELSE got' = [got EXCEPT ![c] = Append(@, Head(recvQ[c]))] /\ UNCHANGED eof
    /\ UNCHANGED <<daemon, tables, calls, acceptQ, stream, life>>

\* Mutation: close() marks the end of the stream before the daemon has.
StreamCloseEager(c) ==
    /\ stream[c] = "open"
    /\ stream' = [stream EXCEPT ![c] = "closing"]
    /\ closeReq' = IF closed THEN closeReq ELSE closeReq \cup {c}
    /\ recvQ' = [recvQ EXCEPT ![c] = Append(@, EOF)]
    /\ UNCHANGED <<sock, dials, bind, peer, sent, tables, calls, acceptQ,
                   got, eof, life>>

\* Stream.close() sends cmdClose, which may wait for the write lock ...
StreamClose(c) ==
    /\ stream[c] = "open"
    /\ stream' = [stream EXCEPT ![c] = "closing"]
    /\ closeReq' = IF closed THEN closeReq ELSE closeReq \cup {c}
    /\ UNCHANGED <<sock, dials, bind, peer, sent, tables, calls, acceptQ,
                   recvQ, got, eof, life>>

\* ... and only then forgets the queue.
StreamCloseEnd(c) ==
    /\ stream[c] = "closing"
    /\ stream' = [stream EXCEPT ![c] = "closed"]
    /\ queues' = queues \ {c}
    /\ UNCHANGED <<daemon, dialWaiters, pending, acceptKey, calls, acceptQ,
                   recvQ, got, eof, life>>

-----------------------------------------------------------------------------
(* _read_loop, one frame per step *)

Incoming(type) == reading /\ sock # <<>> /\ Head(sock).type = type

\* The while condition is looked at between two frames only.
Dispatched ==
    /\ sock' = Tail(sock)
    /\ reading' = ~closed
    /\ UNCHANGED <<dials, bind, peer, sent, closeReq, closed, closing>>

\* An item for connection c: into its queue, or kept for whoever registers c.
Enqueue(c, item) ==
    IF c \in queues
    THEN recvQ' = [recvQ EXCEPT ![c] = Append(@, item)] /\ UNCHANGED pending
    ELSE pending' = [pending EXCEPT ![c] = Append(@, item)] /\ UNCHANGED recvQ

RecvFrame ==
    /\ Incoming("recv")
    /\ Enqueue(Head(sock).id, Head(sock).n)
    /\ Dispatched
    /\ UNCHANGED <<dialWaiters, queues, acceptKey, calls, acceptQ, stream, got, eof>>

\* Mutation: a close for a connection without a queue is ignored.
CloseOkRegisteredOnly ==
    /\ Incoming("close_ok")
    /\ IF Head(sock).id \in queues
       THEN Enqueue(Head(sock).id, EOF) ELSE UNCHANGED <<recvQ, pending>>
    /\ queues' = queues \ {Head(sock).id}
    /\ Dispatched
    /\ UNCHANGED <<dialWaiters, acceptKey, calls, acceptQ, stream, got, eof>>

\* The queue leaves the table and gets the end marker.
CloseOkFrame ==
    /\ Incoming("close_ok")
    /\ Enqueue(Head(sock).id, EOF)
    /\ queues' = queues \ {Head(sock).id}
    /\ Dispatched
    /\ UNCHANGED <<dialWaiters, acceptKey, calls, acceptQ, stream, got, eof>>

\* An inbound connection for a port nobody has registered is dropped.
AcceptFrame ==
    /\ Incoming("accept")
    /\ acceptQ' = IF acceptKey THEN Append(acceptQ, Head(sock).id) ELSE acceptQ
    /\ Dispatched
    /\ UNCHANGED <<tables, calls, app>>

DialOkFrame ==
    /\ Incoming("dial_ok")
    /\ IF dialWaiters = <<>>
       THEN UNCHANGED <<dialWaiters, dial, dialId>>
       ELSE /\ dialWaiters' = Tail(dialWaiters)
            /\ dial' = [dial EXCEPT ![Head(dialWaiters)] = "answered"]
            /\ dialId' = [dialId EXCEPT ![Head(dialWaiters)] = Head(sock).id]
    /\ Dispatched
    /\ UNCHANGED <<queues, pending, acceptKey, listen, acceptQ, app>>

BindOkFrame ==
    /\ Incoming("bind_ok")
    /\ listen' = "answered"
    /\ Dispatched
    /\ UNCHANGED <<tables, dial, dialId, acceptQ, app>>

ReadLoop == \/ RecvFrame \/ CloseOkFrame \/ AcceptFrame \/ DialOkFrame
            \/ BindOkFrame

-----------------------------------------------------------------------------
(* The end of the connection *)

CloseBegin ==
    /\ closed' = TRUE
    /\ closing' = IF closed THEN closing ELSE "waiting"

UserClose ==
    /\ ~closed
    /\ CloseBegin
    /\ UNCHANGED <<daemon, tables, calls, acceptQ, app, reading>>

\* The socket ends (what is still in it was lost) and close() runs.
ReaderExit ==
    /\ reading
    /\ reading' = FALSE
    /\ CloseBegin
    /\ UNCHANGED <<daemon, tables, calls, acceptQ, app>>

\* wait_closed returns: the daemon has read what was still unsent, or the
\* transport has lost its socket.
WriterClosed ==
    /\ closing = "waiting"
    /\ closing' = "flushed"
    /\ UNCHANGED <<daemon, tables, calls, acceptQ, app, reading, closed>>

\* Mutation: the sweep fails the waiters and forgets the parked readers.
SweepNoMarker ==
    /\ closing = "flushed"
    /\ closing' = "swept"
    /\ reading' = FALSE
    /\ UNCHANGED <<daemon, tables, calls, acceptQ, app, closed>>

EndMarkers ==
    recvQ' = [c \in ConnId |->
                 IF c \in queues THEN Append(recvQ[c], EOF) ELSE recvQ[c]]

\* close() after wait_closed: an end marker for every registered queue.  The
\* accept queues get none.
Sweep ==
    /\ closing = "flushed"
    /\ closing' = "swept"
    /\ reading' = FALSE
    /\ EndMarkers
    /\ UNCHANGED <<daemon, tables, calls, acceptQ, stream, got, eof, closed>>

ForceClose ==
    /\ ~closed
    /\ closed' = TRUE
    /\ EndMarkers
    /\ UNCHANGED <<daemon, tables, calls, acceptQ, stream, got, eof, reading, closing>>

-----------------------------------------------------------------------------
DaemonStep(c) == \/ DaemonDialOk(c) \/ DaemonAccept(c) \/ DaemonData(c)
                 \/ DaemonRemoteClose(c) \/ DaemonCloseOk(c)

Next ==
    \/ \E d \in Dialer : Dial(d) \/ DialTimeout(d) \/ DialResume(d)
    \/ \E c \in ConnId : \/ DaemonStep(c) \/ Read(c)
                         \/ StreamClose(c) \/ StreamCloseEnd(c)
    \/ DaemonBindOk
    \/ Listen \/ ListenResume \/ Accept \/ ListenerClose
    \/ ReadLoop
    \/ UserClose \/ ReaderExit \/ WriterClosed \/ Sweep \/ ForceClose

\* The event loop runs what is ready and the application reads its streams;
\* nothing obliges the daemon to send or to read, or anybody to close or accept.
Fairness ==
    /\ WF_vars(ReadLoop)
    /\ WF_vars(Sweep)
    /\ \A d \in Dialer : WF_vars(DialResume(d))
    /\ \A c \in ConnId : WF_vars(Read(c))

Spec == Init /\ [][Next]_vars
FairSpec == Spec /\ Fairness

-----------------------------------------------------------------------------
(* Properties *)

IsData(f, c) == f.type = "recv" /\ f.id = c
IsEnd(f, c) == f.type = "close_ok" /\ f.id = c

\* The data frames of c on the socket.
Undispatched(c) == {sock[i].n : i \in {j \in 1..Len(sock) : IsData(sock[j], c)}}

\* What was dispatched for c: read, waiting in its queue, or kept aside.
Log(c) == got[c] \o (recvQ[c] \o pending[c])

\* The data of s are 1..k, each once and in order.
Counts(s, k) ==
    /\ {s[i] : i \in 1..Len(s)} \ {EOF} = 1..k
    /\ \A i, j \in 1..Len(s) : (i < j /\ s[i] # EOF /\ s[j] # EOF) => s[i] < s[j]

\* Whatever the order of the answer, the data, the registration, the reads and
\* the closes: what the application has read, what waits in its queue and what
\* is kept in _pending_recv are together the data frames dispatched for that
\* connection, each once and in order, and the others are still on the socket.
StreamIntact ==
    \A c \in ConnId : \E k \in 0..sent[c] :
        /\ Counts(Log(c), k)
        /\ Undispatched(c) = (k + 1)..sent[c]

\* While the connection is up, read() returns b'' only when the stream is over:
\* the daemon has closed it and every frame it sent has been read.
EofMeansComplete ==
    \A c \in ConnId :
        (eof[c] /\ ~closed) => (peer[c] = "closed" /\ Len(got[c]) = sent[c])

\* The place of a connection id between its announcement and its Stream.
Offers(f, c) == f.type \in {"dial_ok", "accept"} /\ f.id = c
Offered(c) == \E i \in 1..Len(sock) : Offers(sock[i], c)
Accepted(c) == \E i \in 1..Len(acceptQ) : acceptQ[i] = c
Answered(d, c) == dial[d] = "answered" /\ dialId[d] = c
Dialled(c) == \E d \in Dialer : Answered(d, c)

OfferedOnce(c) ==
    \A i, j \in 1..Len(sock) : (Offers(sock[i], c) /\ Offers(sock[j], c)) => i = j
AcceptedOnce(c) ==
    \A i, j \in 1..Len(acceptQ) : (acceptQ[i] = c /\ acceptQ[j] = c) => i = j
DialledOnce(c) ==
    \A d, e \in Dialer : (Answered(d, c) /\ Answered(e, c)) => d = e

\* A connection id is in one of these places at most, once, and never after its
\* Stream exists: so each Stream is made once.
OneStream ==
    /\ \A c \in ConnId :
          /\ Offered(c) => ~Accepted(c) /\ ~Dialled(c)
          /\ Accepted(c) => ~Dialled(c)
          /\ (Offered(c) \/ Accepted(c) \/ Dialled(c)) => stream[c] = "none"
          /\ (Offered(c) \/ Accepted(c) \/ Dialled(c) \/ stream[c] # "none")
                => peer[c] # "unused"
          /\ OfferedOnce(c) /\ AcceptedOnce(c) /\ DialledOnce(c)
    /\ \A d \in Dialer : dial[d] = "answered" => dialId[d] \in ConnId

\* Nothing is queued before there is a Stream, and nothing kept aside while
\* its queue is registered.
Tables ==
    \A c \in ConnId :
        /\ stream[c] = "none" =>
              /\ recvQ[c] = <<>> /\ got[c] = <<>> /\ ~eof[c] /\ c \notin queues
        /\ c \in queues => pending[c] = <<>>

\* The socket keeps the daemon's order: data ascend, and the close comes last.
SockOrder ==
    \A c \in ConnId : \A i, j \in 1..Len(sock) :
        (i < j /\ IsData(sock[j], c)) =>
            /\ IsData(sock[i], c) => sock[i].n < sock[j].n
            /\ ~IsEnd(sock[i], c)

CloseAnnounced ==
    \A c \in ConnId : \A i \in 1..Len(sock) :
        IsEnd(sock[i], c) => peer[c] = "closed"

Exact == \A c \in ConnId : \A i \in 1..Len(got[c]) : got[c][i] = i

\* Until the connection is closed, an end marker is the daemon's: it has ended
\* the stream, and no data follow.
MarkerLast ==
    ~closed => \A c \in ConnId :
        /\ \A i \in 1..Len(Log(c)) : Log(c)[i] = EOF =>
              /\ peer[c] = "closed" /\ Undispatched(c) = {}
              /\ \A j \in i..Len(Log(c)) : Log(c)[j] = EOF
        /\ eof[c] =>
              /\ peer[c] = "closed" /\ Undispatched(c) = {}
              /\ \A i \in (Len(got[c]) + 1)..Len(Log(c)) : Log(c)[i] = EOF

\* The inductive invariants behind StreamIntact and EofMeansComplete.
StreamInv == TypeOK /\ OneStream /\ Tables /\ (closing # "no" => closed)
DataInv == StreamIntact /\ SockOrder /\ CloseAnnounced /\ Exact /\ MarkerLast

\* A stream whose peer has hung up comes to its end in the application, also if
\* the cmdCloseOK came before dial() had registered the queue.
RemoteCloseSeen ==
    \A c \in ConnId :
        (stream[c] = "open" /\ peer[c] = "closed")
            ~> (eof[c] \/ stream[c] # "open" \/ closed)

\* The daemon reads what is unsent when close() starts: wait_closed is under no
\* timeout and waits for it.
DaemonReads == WF_vars(WriterClosed)

\* If the daemon reads its socket to the end, a reader parked on a registered
\* stream when close() starts gets b''.
CloseWakesReaders ==
    DaemonReads => \A c \in ConnId :
        (c \in queues /\ closing = "waiting") ~> (eof[c] \/ stream[c] # "open")

=============================================================================
