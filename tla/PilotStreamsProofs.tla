------------------------- MODULE PilotStreamsProofs -------------------------
(* Proofs about the streams of a daemon connection, for any dial() calls,  *)
(* connection ids, frames and socket size.                                 *)
EXTENDS PilotStreams, SequenceTheorems, TLAPS

(* Removing a waiter (deque.remove) leaves a sequence over the same set.   *)
LEMMA RemoveAtType ==
    ASSUME NEW S, NEW s \in Seq(S), NEW i \in 1..Len(s)
    PROVE  RemoveAt(s, i) \in Seq(S)
<1>1. SubSeq(s, 1, i - 1) \in Seq(S) /\ SubSeq(s, i + 1, Len(s)) \in Seq(S)
  OBVIOUS
<1> QED
  BY <1>1, ConcatProperties DEF RemoveAt

(* The frames of the daemon.                                               *)
LEMMA FrameFacts ==
    /\ \A f \in Frame : /\ f.n \in 0..MaxFrames /\ f.n \in Nat
                        /\ f.type # "bind_ok" => f.id \in ConnId
    /\ \A t \in {"dial_ok", "accept", "recv", "close_ok"},
          c \in ConnId, n \in 0..MaxFrames :
             [type |-> t, id |-> c, n |-> n] \in Frame
    /\ [type |-> "bind_ok", id |-> NoConn, n |-> 0] \in Frame
    /\ 0 \in 0..MaxFrames
  BY BoundsAssumption DEF Frame

(* The socket after the daemon wrote a frame.                              *)
LEMMA PushFacts ==
    ASSUME TypeOK, NEW t, NEW c, NEW n, NEW f \in Frame,
           f = [type |-> t, id |-> c, n |-> n], Push(t, c, n)
    PROVE  /\ sock' \in Seq(Frame)
           /\ Len(sock') = Len(sock) + 1 /\ Len(sock) \in Nat
           /\ sock'[Len(sock) + 1] = f
           /\ \A i \in 1..Len(sock) : sock'[i] = sock[i] /\ sock[i] \in Frame
<1>1. sock \in Seq(Frame) /\ sock' = Append(sock, f)
  BY DEF TypeOK, Push
<1> QED
  BY <1>1

(* The socket after the reader took a frame.                               *)
LEMMA PopFacts ==
    ASSUME TypeOK, sock # <<>>, sock' = Tail(sock)
    PROVE  /\ sock' \in Seq(Frame)
           /\ Head(sock) = sock[1] /\ 1 \in 1..Len(sock)
           /\ Len(sock') = Len(sock) - 1 /\ Len(sock) \in Nat
           /\ \A i \in 1..Len(sock') :
                 i + 1 \in 1..Len(sock) /\ sock'[i] = sock[i + 1]
           /\ \A i \in 1..Len(sock) : sock[i] \in Frame
<1>1. sock \in Seq(Frame)
  BY DEF TypeOK
<1> QED
  BY <1>1

(* Making the Stream of a connection keeps the types.                      *)
LEMMA RegisterType ==
    ASSUME TypeOK, NEW c \in ConnId, Register(c)
    PROVE  /\ queues' \subseteq ConnId
           /\ recvQ' \in [ConnId -> Seq(0..MaxFrames)]
           /\ pending' \in [ConnId -> Seq(0..MaxFrames)]
           /\ stream' \in [ConnId -> {"none", "open", "closing", "closed"}]
<1>1. <<>> \in Seq(0..MaxFrames) /\ pending[c] \in Seq(0..MaxFrames)
  BY DEF TypeOK
<1> QED
  BY <1>1 DEF TypeOK, Register

(* Appending an item to the log of a connection keeps the types.           *)
LEMMA EnqueueType ==
    ASSUME TypeOK, NEW c \in ConnId, NEW x \in 0..MaxFrames, Enqueue(c, x)
    PROVE  /\ recvQ' \in [ConnId -> Seq(0..MaxFrames)]
           /\ pending' \in [ConnId -> Seq(0..MaxFrames)]
<1>1. /\ Append(recvQ[c], x) \in Seq(0..MaxFrames)
      /\ Append(pending[c], x) \in Seq(0..MaxFrames)
  BY DEF TypeOK
<1>2. CASE c \in queues
  BY <1>1, <1>2 DEF TypeOK, Enqueue
<1>3. CASE c \notin queues
  BY <1>1, <1>3 DEF TypeOK, Enqueue
<1> QED
  BY <1>2, <1>3

(* Every step of the daemon, the application and the reader keeps the      *)
(* types.                                                                  *)
LEMMA TypeStep == TypeOK /\ OneStream /\ [Next]_vars => TypeOK'
<1> SUFFICES ASSUME TypeOK, OneStream, [Next]_vars PROVE TypeOK'
  OBVIOUS
<1> USE BoundsAssumption
<1>1. ASSUME NEW c \in ConnId, DaemonStep(c) PROVE TypeOK'
  <2>1. CASE DaemonDialOk(c)
    <3>1. sock' \in Seq(Frame)
      BY <2>1, PushFacts, FrameFacts DEF DaemonDialOk
    <3> QED
      BY <2>1, <3>1 DEF DaemonDialOk, TypeOK, tables, calls, app, life
  <2>2. CASE DaemonAccept(c)
    <3>1. sock' \in Seq(Frame)
      BY <2>2, PushFacts, FrameFacts DEF DaemonAccept
    <3> QED
      BY <2>2, <3>1 DEF DaemonAccept, TypeOK, tables, calls, app, life
  <2>3. CASE DaemonData(c)
    <3>1. sent[c] + 1 \in 0..MaxFrames
      BY <2>3 DEF DaemonData, TypeOK
    <3>2. sock' \in Seq(Frame)
      BY <2>3, <3>1, PushFacts, FrameFacts DEF DaemonData
    <3> QED
      BY <2>3, <3>1, <3>2 DEF DaemonData, TypeOK, tables, calls, app, life
  <2>4. CASE DaemonRemoteClose(c)
    <3>1. sock' \in Seq(Frame)
      BY <2>4, PushFacts, FrameFacts DEF DaemonRemoteClose
    <3> QED
      BY <2>4, <3>1 DEF DaemonRemoteClose, TypeOK, tables, calls, app, life
  <2>5. CASE DaemonCloseOk(c)
    <3>1. sock' \in Seq(Frame)
      BY <2>5, PushFacts, FrameFacts DEF DaemonCloseOk
    <3> QED
      BY <2>5, <3>1 DEF DaemonCloseOk, TypeOK, tables, calls, app, life
  <2> QED
    BY <1>1, <2>1, <2>2, <2>3, <2>4, <2>5 DEF DaemonStep
<1>2. CASE DaemonBindOk
  <2>1. sock' \in Seq(Frame)
    BY <1>2, PushFacts, FrameFacts DEF DaemonBindOk
  <2> QED
    BY <1>2, <2>1 DEF DaemonBindOk, TypeOK, tables, calls, app, life
<1>3. ASSUME NEW d \in Dialer, Dial(d) PROVE TypeOK'
  BY <1>3 DEF Dial, TypeOK, app, life
<1>4. ASSUME NEW d \in Dialer, DialTimeout(d) PROVE TypeOK'
  <2>1. dialWaiters' \in Seq(Dialer)
    BY <1>4, RemoveAtType DEF DialTimeout, TypeOK
  <2> QED
    BY <1>4, <2>1 DEF DialTimeout, TypeOK, daemon, app, life
<1>5. ASSUME NEW d \in Dialer, DialResume(d) PROVE TypeOK'
  <2>1. dialId[d] \in ConnId /\ Register(dialId[d])
    BY <1>5 DEF DialResume, OneStream
  <2>2. /\ queues' \subseteq ConnId
        /\ recvQ' \in [ConnId -> Seq(0..MaxFrames)]
        /\ pending' \in [ConnId -> Seq(0..MaxFrames)]
        /\ stream' \in [ConnId -> {"none", "open", "closing", "closed"}]
    BY <2>1, RegisterType
  <2> QED
    BY <1>5, <2>2 DEF DialResume, TypeOK, daemon, life
<1>6. CASE Listen
  BY <1>6 DEF Listen, TypeOK, tables, app, life
<1>7. CASE ListenResume \/ ListenerClose
  BY <1>7 DEF ListenResume, ListenerClose, TypeOK, daemon, app, life
<1>8. CASE Accept
  <2>1. Head(acceptQ) \in ConnId /\ Tail(acceptQ) \in Seq(ConnId) /\ Register(Head(acceptQ))
    BY <1>8, HeadTailProperties DEF Accept, TypeOK
  <2>2. /\ queues' \subseteq ConnId
        /\ recvQ' \in [ConnId -> Seq(0..MaxFrames)]
        /\ pending' \in [ConnId -> Seq(0..MaxFrames)]
        /\ stream' \in [ConnId -> {"none", "open", "closing", "closed"}]
    BY <2>1, RegisterType
  <2> QED
    BY <1>8, <2>1, <2>2 DEF Accept, TypeOK, daemon, calls, life
<1>9. ASSUME NEW c \in ConnId, Read(c) PROVE TypeOK'
  <2>1. recvQ[c] \in Seq(0..MaxFrames) /\ recvQ[c] # <<>>
    BY <1>9 DEF Read, TypeOK
  <2>2. Head(recvQ[c]) \in 0..MaxFrames /\ Tail(recvQ[c]) \in Seq(0..MaxFrames)
    BY <2>1, HeadTailProperties
  <2>3. Head(recvQ[c]) # EOF => Head(recvQ[c]) \in 1..MaxFrames
    BY <2>2 DEF EOF
  <2>4. recvQ' \in [ConnId -> Seq(0..MaxFrames)]
    BY <1>9, <2>2 DEF Read, TypeOK
  <2>5. got' \in [ConnId -> Seq(1..MaxFrames)] /\ eof' \in [ConnId -> BOOLEAN]
    <3>1. CASE Head(recvQ[c]) = EOF
      BY <1>9, <3>1 DEF Read, TypeOK
    <3>2. CASE Head(recvQ[c]) # EOF
      <4>1. Append(got[c], Head(recvQ[c])) \in Seq(1..MaxFrames)
        BY <2>3, <3>2 DEF TypeOK
      <4> QED
        BY <1>9, <3>2, <4>1 DEF Read, TypeOK
    <3> QED
      BY <3>1, <3>2
  <2> QED
    BY <1>9, <2>4, <2>5 DEF Read, TypeOK, daemon, tables, calls, life
<1>10. ASSUME NEW c \in ConnId, StreamClose(c) PROVE TypeOK'
  BY <1>10 DEF StreamClose, TypeOK, tables, calls, life
<1>11. ASSUME NEW c \in ConnId, StreamCloseEnd(c) PROVE TypeOK'
  BY <1>11 DEF StreamCloseEnd, TypeOK, daemon, calls, life
<1>12. CASE ReadLoop
  <2>1. sock # <<>> /\ Dispatched
    BY <1>12 DEF ReadLoop, RecvFrame, CloseOkFrame, AcceptFrame, DialOkFrame,
                 BindOkFrame, Incoming
  <2>2. /\ sock' \in Seq(Frame) /\ Head(sock) \in Frame /\ reading' \in BOOLEAN
        /\ UNCHANGED <<dials, bind, peer, sent, closeReq, closed, closing>>
    BY <2>1, PopFacts DEF Dispatched, TypeOK
  <2>3. Head(sock).type # "bind_ok" => Head(sock).id \in ConnId
    BY <2>2, FrameFacts
  <2>4. CASE RecvFrame
    <3>1. /\ recvQ' \in [ConnId -> Seq(0..MaxFrames)]
          /\ pending' \in [ConnId -> Seq(0..MaxFrames)]
      BY <2>2, <2>3, <2>4, FrameFacts, EnqueueType DEF RecvFrame, Incoming
    <3> QED
      BY <2>2, <2>4, <3>1 DEF RecvFrame, TypeOK, calls
  <2>5. CASE CloseOkFrame
    <3>1. /\ recvQ' \in [ConnId -> Seq(0..MaxFrames)]
          /\ pending' \in [ConnId -> Seq(0..MaxFrames)]
      BY <2>2, <2>3, <2>5, FrameFacts, EnqueueType DEF CloseOkFrame, Incoming, EOF
    <3> QED
      BY <2>2, <2>5, <3>1 DEF CloseOkFrame, TypeOK, calls
  <2>6. CASE AcceptFrame
    <3>1. Head(sock).id \in ConnId
      BY <2>3, <2>6 DEF AcceptFrame, Incoming
    <3>2. acceptQ' \in Seq(ConnId)
      BY <2>6, <3>1 DEF AcceptFrame, TypeOK
    <3> QED
      BY <2>2, <2>6, <3>2 DEF AcceptFrame, TypeOK, tables, calls, app
  <2>7. CASE DialOkFrame
    <3>1. Head(sock).id \in ConnId
      BY <2>3, <2>7 DEF DialOkFrame, Incoming
    <3>2. /\ dialWaiters' \in Seq(Dialer)
          /\ dial' \in [Dialer -> {"idle", "wait", "answered", "done", "timeout"}]
          /\ dialId' \in [Dialer -> ConnId \cup {NoConn}]
      <4>1. dialWaiters # <<>> =>
               Head(dialWaiters) \in Dialer /\ Tail(dialWaiters) \in Seq(Dialer)
        BY HeadTailProperties DEF TypeOK
      <4> QED
        BY <2>7, <3>1, <4>1 DEF DialOkFrame, TypeOK
    <3> QED
      BY <2>2, <2>7, <3>2 DEF DialOkFrame, TypeOK, app
  <2>8. CASE BindOkFrame
    BY <2>2, <2>8 DEF BindOkFrame, TypeOK, tables, app
  <2> QED
    BY <1>12, <2>4, <2>5, <2>6, <2>7, <2>8 DEF ReadLoop
<1>13. CASE UserClose \/ ReaderExit
  BY <1>13 DEF UserClose, ReaderExit, CloseBegin, TypeOK, daemon, tables, calls, app
<1>14. ASSUME EndMarkers PROVE recvQ' \in [ConnId -> Seq(0..MaxFrames)]
  <2>1. \A s \in Seq(0..MaxFrames) : Append(s, EOF) \in Seq(0..MaxFrames)
    BY DEF EOF
  <2> QED
    BY <1>14, <2>1 DEF EndMarkers, TypeOK
<1>15. CASE Sweep
  BY <1>14, <1>15 DEF Sweep, TypeOK, daemon, tables, calls
<1>18. CASE WriterClosed
  BY <1>18 DEF WriterClosed, TypeOK, daemon, tables, calls, app
<1>16. CASE ForceClose
  BY <1>14, <1>16 DEF ForceClose, TypeOK, daemon, tables, calls
<1>17. CASE UNCHANGED vars
  BY <1>17 DEF vars, TypeOK, daemon, tables, calls, app, life
<1> QED
  BY <1>1, <1>2, <1>3, <1>4, <1>5, <1>6, <1>7, <1>8, <1>9, <1>10, <1>11, <1>12,
     <1>13, <1>15, <1>16, <1>17, <1>18 DEF Next

-----------------------------------------------------------------------------
(* A frame the daemon wrote announces at most its own connection.          *)
LEMMA PushOffer ==
    ASSUME TypeOK, NEW t, NEW k, NEW n, NEW f \in Frame,
           f = [type |-> t, id |-> k, n |-> n], Push(t, k, n), NEW c \in ConnId
    PROVE  /\ Offered(c)' => Offered(c) \/ Offers(f, c)
           /\ OfferedOnce(c) /\ (Offers(f, c) => ~Offered(c)) => OfferedOnce(c)'
<1>1. /\ Len(sock') = Len(sock) + 1 /\ Len(sock) \in Nat
      /\ sock'[Len(sock) + 1] = f
      /\ \A i \in 1..Len(sock) : sock'[i] = sock[i]
  BY PushFacts
<1>2. \A i \in 1..Len(sock') : i \in 1..Len(sock) \/ i = Len(sock) + 1
  BY <1>1
<1>3. \A i \in 1..Len(sock') : Offers(sock'[i], c) =>
         (i \in 1..Len(sock) /\ Offers(sock[i], c)) \/ (i = Len(sock) + 1 /\ Offers(f, c))
  BY <1>1, <1>2
<1>4. Offered(c)' => Offered(c) \/ Offers(f, c)
  BY <1>3 DEF Offered, Offers
<1>5. ASSUME OfferedOnce(c), Offers(f, c) => ~Offered(c) PROVE OfferedOnce(c)'
  <2> SUFFICES ASSUME NEW i \in 1..Len(sock'), NEW j \in 1..Len(sock'),
                      Offers(sock'[i], c), Offers(sock'[j], c)
               PROVE  i = j
    BY DEF OfferedOnce, Offers
  <2> QED
    BY <1>3, <1>5 DEF OfferedOnce, Offered
<1> QED
  BY <1>4, <1>5

(* Taking a frame off the socket takes its announcement with it.           *)
LEMMA PopOffer ==
    ASSUME TypeOK, sock # <<>>, sock' = Tail(sock), NEW c \in ConnId, OfferedOnce(c)
    PROVE  /\ Offered(c)' => Offered(c)
           /\ OfferedOnce(c)'
           /\ Offers(Head(sock), c) => Offered(c) /\ ~Offered(c)'
<1>1. /\ Head(sock) = sock[1] /\ 1 \in 1..Len(sock) /\ Len(sock) \in Nat
      /\ Len(sock') = Len(sock) - 1
      /\ \A i \in 1..Len(sock') :
            i + 1 \in 1..Len(sock) /\ sock'[i] = sock[i + 1]
  BY PopFacts
<1>2. \A i \in 1..Len(sock') : i + 1 # 1
  BY <1>1
<1>3. \A i, j \in 1..Len(sock') : i + 1 = j + 1 => i = j
  BY <1>1
<1>4. Offered(c)' => Offered(c)
  BY <1>1 DEF Offered, Offers
<1>5. OfferedOnce(c)'
  <2> SUFFICES ASSUME NEW i \in 1..Len(sock'), NEW j \in 1..Len(sock'),
                      Offers(sock'[i], c), Offers(sock'[j], c)
               PROVE  i = j
    BY DEF OfferedOnce, Offers
  <2>1. Offers(sock[i + 1], c) /\ Offers(sock[j + 1], c)
    BY <1>1
  <2>2. i + 1 = j + 1
    BY <1>1, <2>1 DEF OfferedOnce
  <2> QED
    BY <1>3, <2>2
<1>6. ASSUME Offers(Head(sock), c) PROVE Offered(c) /\ ~Offered(c)'
  <2>1. ASSUME NEW i \in 1..Len(sock'), Offers(sock'[i], c) PROVE FALSE
    BY <1>1, <1>2, <1>6, <2>1 DEF OfferedOnce
  <2>2. ~Offered(c)'
    BY <2>1 DEF Offered, Offers
  <2> QED
    BY <1>1, <1>6, <2>2 DEF Offered
<1> QED
  BY <1>4, <1>5, <1>6

(* Steps that move no connection id from one place to another.             *)
LEMMA OneKeep ==
    ASSUME OneStream,
           \A c \in ConnId : /\ Offered(c)' => Offered(c)
                             /\ OfferedOnce(c)'
                             /\ stream'[c] = "none" <=> stream[c] = "none"
                             /\ peer[c] # "unused" => peer'[c] # "unused",
           \A d \in Dialer : dial'[d] = "answered" => dial[d] = "answered",
           UNCHANGED <<acceptQ, dialId>>
    PROVE  OneStream'
<1>1. \A c \in ConnId, d \in Dialer : Answered(d, c)' => Answered(d, c)
  BY DEF Answered
<1>2. \A c \in ConnId : Dialled(c)' => Dialled(c)
  BY <1>1 DEF Dialled
<1>3. \A c \in ConnId : Accepted(c)' <=> Accepted(c)
  BY DEF Accepted
<1>4. \A c \in ConnId : AcceptedOnce(c)' /\ DialledOnce(c)'
  BY <1>1 DEF OneStream, AcceptedOnce, DialledOnce
<1>5. \A d \in Dialer : dial'[d] = "answered" => dialId'[d] \in ConnId
  BY DEF OneStream
<1>6. \A c \in ConnId :
         /\ Offered(c)' => ~Accepted(c)' /\ ~Dialled(c)'
         /\ Accepted(c)' => ~Dialled(c)'
         /\ (Offered(c)' \/ Accepted(c)' \/ Dialled(c)') => stream'[c] = "none"
         /\ (Offered(c)' \/ Accepted(c)' \/ Dialled(c)' \/ stream'[c] # "none")
               => peer'[c] # "unused"
         /\ OfferedOnce(c)'
  BY <1>2, <1>3 DEF OneStream
<1> QED
  BY <1>4, <1>5, <1>6 DEF OneStream

(* The daemon announces a connection under an id it has not used.          *)
LEMMA OneAnnounce ==
    ASSUME TypeOK, OneStream, NEW k \in ConnId, NEW t \in {"dial_ok", "accept"},
           Push(t, k, 0), peer[k] = "unused", peer' = [peer EXCEPT ![k] = "open"],
           UNCHANGED <<calls, acceptQ, stream>>
    PROVE  OneStream'
<1>1. PICK f \in Frame : f = [type |-> t, id |-> k, n |-> 0]
  BY FrameFacts
<1>2. \A c \in ConnId : Offers(f, c) => c = k
  BY <1>1 DEF Offers
<1>3. ~Offered(k) /\ ~Accepted(k) /\ ~Dialled(k) /\ stream[k] = "none"
  BY DEF OneStream
<1>4. \A c \in ConnId : /\ Offered(c)' => Offered(c) \/ c = k
                        /\ OfferedOnce(c)'
  BY <1>1, <1>2, <1>3, PushOffer DEF OneStream
<1>5. \A c \in ConnId : /\ Accepted(c)' <=> Accepted(c)
                        /\ Dialled(c)' <=> Dialled(c)
                        /\ AcceptedOnce(c)' <=> AcceptedOnce(c)
                        /\ DialledOnce(c)' <=> DialledOnce(c)
                        /\ stream'[c] = stream[c]
  BY DEF Accepted, Dialled, Answered, AcceptedOnce, DialledOnce, calls
<1>6. \A c \in ConnId : peer'[c] = IF c = k THEN "open" ELSE peer[c]
  BY DEF TypeOK
<1>7. \A d \in Dialer : dial'[d] = "answered" => dialId'[d] \in ConnId
  BY DEF OneStream, calls
<1>8. ASSUME NEW c \in ConnId
      PROVE  /\ Offered(c)' => ~Accepted(c)' /\ ~Dialled(c)'
             /\ Accepted(c)' => ~Dialled(c)'
             /\ (Offered(c)' \/ Accepted(c)' \/ Dialled(c)') => stream'[c] = "none"
             /\ (Offered(c)' \/ Accepted(c)' \/ Dialled(c)' \/ stream'[c] # "none")
                   => peer'[c] # "unused"
             /\ OfferedOnce(c)' /\ AcceptedOnce(c)' /\ DialledOnce(c)'
  BY <1>3, <1>4, <1>5, <1>6 DEF OneStream
<1> QED
  BY <1>7, <1>8 DEF OneStream

(* An announced inbound connection moves from the socket to the queue.     *)
LEMMA OneQueued ==
    ASSUME TypeOK, OneStream, AcceptFrame
    PROVE  OneStream'
<1>1. /\ sock # <<>> /\ sock' = Tail(sock) /\ peer' = peer
      /\ UNCHANGED <<dial, dialId, stream>>
      /\ acceptQ' = IF acceptKey THEN Append(acceptQ, Head(sock).id) ELSE acceptQ
      /\ Head(sock).type = "accept"
  BY DEF AcceptFrame, Incoming, Dispatched, calls, app
<1>2. PICK k \in ConnId : k = Head(sock).id
  BY <1>1, PopFacts, FrameFacts
<1>3. /\ \A c \in ConnId : (Offered(c)' => Offered(c)) /\ OfferedOnce(c)'
      /\ Offered(k) /\ ~Offered(k)'
  BY <1>1, <1>2, PopOffer DEF OneStream, Offers
<1>4. CASE ~acceptKey
  BY <1>1, <1>3, <1>4, OneKeep
<1>5. CASE acceptKey
  <2>1. acceptQ \in Seq(ConnId) /\ acceptQ' = Append(acceptQ, k)
    BY <1>1, <1>2, <1>5 DEF TypeOK
  <2>2. /\ Len(acceptQ') = Len(acceptQ) + 1 /\ Len(acceptQ) \in Nat
        /\ acceptQ'[Len(acceptQ) + 1] = k
        /\ \A i \in 1..Len(acceptQ) : acceptQ'[i] = acceptQ[i]
    BY <2>1
  <2>3. \A i \in 1..Len(acceptQ') : i \in 1..Len(acceptQ) \/ i = Len(acceptQ) + 1
    BY <2>2
  <2>4. ~Accepted(k) /\ ~Dialled(k) /\ stream[k] = "none" /\ peer[k] # "unused"
    BY <1>3 DEF OneStream
  <2>5. \A c \in ConnId : Accepted(c)' => Accepted(c) \/ c = k
    BY <2>2, <2>3 DEF Accepted
  <2>6. ASSUME NEW c \in ConnId PROVE AcceptedOnce(c)'
    <3> SUFFICES ASSUME NEW i \in 1..Len(acceptQ'), NEW j \in 1..Len(acceptQ'),
                        acceptQ'[i] = c, acceptQ'[j] = c
                 PROVE  i = j
      BY DEF AcceptedOnce
    <3>1. AcceptedOnce(c)
      BY DEF OneStream
    <3> QED
      BY <2>2, <2>3, <2>4, <3>1 DEF AcceptedOnce, Accepted
  <2>7. \A c \in ConnId : /\ Dialled(c)' <=> Dialled(c)
                          /\ DialledOnce(c)' <=> DialledOnce(c)
    BY <1>1 DEF Dialled, Answered, DialledOnce
  <2>8. \A d \in Dialer : dial'[d] = "answered" => dialId'[d] \in ConnId
    BY <1>1 DEF OneStream
  <2>9. ASSUME NEW c \in ConnId
        PROVE  /\ Offered(c)' => ~Accepted(c)' /\ ~Dialled(c)'
               /\ Accepted(c)' => ~Dialled(c)'
               /\ (Offered(c)' \/ Accepted(c)' \/ Dialled(c)') => stream'[c] = "none"
               /\ (Offered(c)' \/ Accepted(c)' \/ Dialled(c)' \/ stream'[c] # "none")
                     => peer'[c] # "unused"
               /\ OfferedOnce(c)' /\ AcceptedOnce(c)' /\ DialledOnce(c)'
    BY <1>1, <1>3, <2>4, <2>5, <2>6, <2>7 DEF OneStream
  <2> QED
    BY <2>8, <2>9 DEF OneStream
<1> QED
  BY <1>4, <1>5

(* The id in the answer to a dial() moves from the socket to that call.    *)
LEMMA OneDialled ==
    ASSUME TypeOK, OneStream, DialOkFrame
    PROVE  OneStream'
<1>1. /\ sock # <<>> /\ sock' = Tail(sock) /\ peer' = peer
      /\ UNCHANGED <<acceptQ, stream>> /\ Head(sock).type = "dial_ok"
  BY DEF DialOkFrame, Incoming, Dispatched, app
<1>2. PICK k \in ConnId : k = Head(sock).id
  BY <1>1, PopFacts, FrameFacts
<1>3. /\ \A c \in ConnId : (Offered(c)' => Offered(c)) /\ OfferedOnce(c)'
      /\ Offered(k) /\ ~Offered(k)'
  BY <1>1, <1>2, PopOffer DEF OneStream, Offers
<1>4. CASE dialWaiters = <<>>
  <2>1. UNCHANGED <<dial, dialId>>
    BY <1>4 DEF DialOkFrame
  <2> QED
    BY <1>1, <1>3, <2>1, OneKeep
<1>5. CASE dialWaiters # <<>>
  <2>1. PICK h \in Dialer : h = Head(dialWaiters)
    BY <1>5, HeadTailProperties DEF TypeOK
  <2>2. /\ dial' = [dial EXCEPT ![h] = "answered"]
        /\ dialId' = [dialId EXCEPT ![h] = k]
    BY <1>2, <1>5, <2>1 DEF DialOkFrame
  <2>3. \A d \in Dialer : /\ d # h => dial'[d] = dial[d] /\ dialId'[d] = dialId[d]
                          /\ d = h => dial'[d] = "answered" /\ dialId'[d] = k
    BY <2>2 DEF TypeOK
  <2>4. ~Accepted(k) /\ ~Dialled(k) /\ stream[k] = "none" /\ peer[k] # "unused"
    BY <1>3 DEF OneStream
  <2>5. \A c \in ConnId, d \in Dialer :
           Answered(d, c)' <=> (d # h /\ Answered(d, c)) \/ (d = h /\ c = k)
    BY <2>3 DEF Answered
  <2>6. \A c \in ConnId : Dialled(c)' => Dialled(c) \/ c = k
    BY <2>5 DEF Dialled
  <2>7. \A c \in ConnId : DialledOnce(c)'
    <3> SUFFICES ASSUME NEW c \in ConnId, NEW d \in Dialer, NEW e \in Dialer,
                        Answered(d, c)', Answered(e, c)'
                 PROVE  d = e
      BY DEF DialledOnce
    <3>1. \A x \in Dialer : ~Answered(x, k)
      BY <2>4 DEF Dialled
    <3>2. DialledOnce(c)
      BY DEF OneStream
    <3> QED
      BY <2>5, <3>1, <3>2 DEF DialledOnce
  <2>8. \A c \in ConnId : /\ Accepted(c)' <=> Accepted(c)
                          /\ AcceptedOnce(c)' <=> AcceptedOnce(c)
    BY <1>1 DEF Accepted, AcceptedOnce
  <2>9. \A d \in Dialer : dial'[d] = "answered" => dialId'[d] \in ConnId
    BY <2>3 DEF OneStream
  <2>10. ASSUME NEW c \in ConnId
         PROVE  /\ Offered(c)' => ~Accepted(c)' /\ ~Dialled(c)'
                /\ Accepted(c)' => ~Dialled(c)'
                /\ (Offered(c)' \/ Accepted(c)' \/ Dialled(c)') => stream'[c] = "none"
                /\ (Offered(c)' \/ Accepted(c)' \/ Dialled(c)' \/ stream'[c] # "none")
                      => peer'[c] # "unused"
                /\ OfferedOnce(c)' /\ AcceptedOnce(c)' /\ DialledOnce(c)'
    BY <1>1, <1>3, <2>4, <2>6, <2>7, <2>8 DEF OneStream
  <2> QED
    BY <2>9, <2>10 DEF OneStream
<1> QED
  BY <1>4, <1>5

(* dial() resumes: the id leaves the call and its Stream exists.           *)
LEMMA OneResumed ==
    ASSUME TypeOK, OneStream, NEW d \in Dialer, DialResume(d)
    PROVE  OneStream' /\ dialId[d] \in ConnId /\ stream[dialId[d]] = "none"
<1>1. /\ dial[d] = "answered" /\ dial' = [dial EXCEPT ![d] = "done"]
      /\ stream' = [stream EXCEPT ![dialId[d]] = "open"]
      /\ UNCHANGED <<sock, peer, dialId, acceptQ>>
  BY DEF DialResume, Register, daemon
<1>2. PICK k \in ConnId : k = dialId[d]
  BY <1>1 DEF OneStream
<1>3. Answered(d, k) /\ Dialled(k)
  BY <1>1, <1>2 DEF Answered, Dialled
<1>4. ~Offered(k) /\ ~Accepted(k) /\ stream[k] = "none" /\ peer[k] # "unused"
  BY <1>3 DEF OneStream
<1>5. \A c \in ConnId, e \in Dialer : Answered(e, c)' => e # d /\ Answered(e, c)
  BY <1>1 DEF Answered, TypeOK
<1>6. ~Dialled(k)'
  BY <1>3, <1>5 DEF Dialled, OneStream, DialledOnce
<1>7. \A c \in ConnId : (Dialled(c)' => Dialled(c)) /\ DialledOnce(c)'
  BY <1>5 DEF Dialled, OneStream, DialledOnce
<1>8. \A c \in ConnId : /\ Offered(c)' <=> Offered(c)
                        /\ OfferedOnce(c)' <=> OfferedOnce(c)
                        /\ Accepted(c)' <=> Accepted(c)
                        /\ AcceptedOnce(c)' <=> AcceptedOnce(c)
  BY <1>1 DEF Offered, OfferedOnce, Accepted, AcceptedOnce, Offers
<1>9. \A c \in ConnId : stream'[c] = IF c = k THEN "open" ELSE stream[c]
  BY <1>1, <1>2 DEF TypeOK
<1>10. \A e \in Dialer : dial'[e] = "answered" => dialId'[e] \in ConnId
  BY <1>1 DEF OneStream, TypeOK
<1>11. ASSUME NEW c \in ConnId
       PROVE  /\ Offered(c)' => ~Accepted(c)' /\ ~Dialled(c)'
              /\ Accepted(c)' => ~Dialled(c)'
              /\ (Offered(c)' \/ Accepted(c)' \/ Dialled(c)') => stream'[c] = "none"
              /\ (Offered(c)' \/ Accepted(c)' \/ Dialled(c)' \/ stream'[c] # "none")
                    => peer'[c] # "unused"
              /\ OfferedOnce(c)' /\ AcceptedOnce(c)' /\ DialledOnce(c)'
  BY <1>1, <1>4, <1>6, <1>7, <1>8, <1>9 DEF OneStream
<1> QED
  BY <1>2, <1>4, <1>10, <1>11 DEF OneStream

(* accept() takes the id from the queue and makes its Stream.              *)
LEMMA OneTaken ==
    ASSUME TypeOK, OneStream, Accept
    PROVE  OneStream' /\ Head(acceptQ) \in ConnId /\ stream[Head(acceptQ)] = "none"
<1>1. /\ acceptQ # <<>> /\ acceptQ' = Tail(acceptQ)
      /\ stream' = [stream EXCEPT ![Head(acceptQ)] = "open"]
      /\ UNCHANGED <<sock, peer, dial, dialId>>
  BY DEF Accept, Register, daemon, calls
<1>2. acceptQ \in Seq(ConnId)
  BY DEF TypeOK
<1>3. PICK k \in ConnId : k = Head(acceptQ)
  BY <1>1, <1>2, HeadTailProperties
<1>4. /\ 1 \in 1..Len(acceptQ) /\ acceptQ[1] = k /\ Len(acceptQ) \in Nat
      /\ \A i \in 1..Len(acceptQ') : /\ i + 1 \in 1..Len(acceptQ) /\ i + 1 # 1
                                     /\ acceptQ'[i] = acceptQ[i + 1]
      /\ \A i, j \in 1..Len(acceptQ') : i + 1 = j + 1 => i = j
  BY <1>1, <1>2, <1>3
<1>5. Accepted(k) /\ AcceptedOnce(k)
  BY <1>4 DEF Accepted, OneStream
<1>6. ~Offered(k) /\ ~Dialled(k) /\ stream[k] = "none" /\ peer[k] # "unused"
  BY <1>5 DEF OneStream
<1>7. ~Accepted(k)'
  BY <1>4, <1>5 DEF Accepted, AcceptedOnce
<1>8. \A c \in ConnId : Accepted(c)' => Accepted(c)
  BY <1>4 DEF Accepted
<1>9. ASSUME NEW c \in ConnId PROVE AcceptedOnce(c)'
  <2> SUFFICES ASSUME NEW i \in 1..Len(acceptQ'), NEW j \in 1..Len(acceptQ'),
                      acceptQ'[i] = c, acceptQ'[j] = c
               PROVE  i = j
    BY DEF AcceptedOnce
  <2>1. AcceptedOnce(c)
    BY DEF OneStream
  <2>2. i + 1 = j + 1
    BY <1>4, <2>1 DEF AcceptedOnce
  <2> QED
    BY <1>4, <2>2
<1>10. \A c \in ConnId : /\ Offered(c)' <=> Offered(c)
                         /\ OfferedOnce(c)' <=> OfferedOnce(c)
                         /\ Dialled(c)' <=> Dialled(c)
                         /\ DialledOnce(c)' <=> DialledOnce(c)
  BY <1>1 DEF Offered, OfferedOnce, Dialled, Answered, DialledOnce, Offers
<1>11. \A c \in ConnId : stream'[c] = IF c = k THEN "open" ELSE stream[c]
  BY <1>1, <1>3 DEF TypeOK
<1>12. \A e \in Dialer : dial'[e] = "answered" => dialId'[e] \in ConnId
  BY <1>1 DEF OneStream
<1>13. ASSUME NEW c \in ConnId
       PROVE  /\ Offered(c)' => ~Accepted(c)' /\ ~Dialled(c)'
              /\ Accepted(c)' => ~Dialled(c)'
              /\ (Offered(c)' \/ Accepted(c)' \/ Dialled(c)') => stream'[c] = "none"
              /\ (Offered(c)' \/ Accepted(c)' \/ Dialled(c)' \/ stream'[c] # "none")
                    => peer'[c] # "unused"
              /\ OfferedOnce(c)' /\ AcceptedOnce(c)' /\ DialledOnce(c)'
  BY <1>1, <1>6, <1>7, <1>8, <1>9, <1>10, <1>11 DEF OneStream
<1> QED
  BY <1>3, <1>6, <1>12, <1>13 DEF OneStream

(* A connection id is used for one Stream.                                 *)
LEMMA OneStreamStep == TypeOK /\ OneStream /\ [Next]_vars => OneStream'
<1> SUFFICES ASSUME TypeOK, OneStream, [Next]_vars PROVE OneStream'
  OBVIOUS
<1>1. ASSUME UNCHANGED sock
      PROVE  \A c \in ConnId : (Offered(c)' => Offered(c)) /\ OfferedOnce(c)'
  BY <1>1 DEF OneStream, Offered, OfferedOnce, Offers
<1>2. ASSUME NEW k \in ConnId, NEW t \in {"recv", "close_ok"},
             NEW n \in 0..MaxFrames, Push(t, k, n)
      PROVE  \A c \in ConnId : (Offered(c)' => Offered(c)) /\ OfferedOnce(c)'
  <2>1. PICK f \in Frame : f = [type |-> t, id |-> k, n |-> n]
    BY FrameFacts
  <2>2. \A c \in ConnId : ~Offers(f, c)
    BY <2>1 DEF Offers
  <2> QED
    BY <1>2, <2>1, <2>2, PushOffer DEF OneStream
<1>3. ASSUME sock # <<>>, sock' = Tail(sock)
      PROVE  \A c \in ConnId : (Offered(c)' => Offered(c)) /\ OfferedOnce(c)'
  BY <1>3, PopOffer DEF OneStream
<1>4. ASSUME NEW c \in ConnId, DaemonStep(c) PROVE OneStream'
  <2>1. CASE DaemonDialOk(c)
    BY <2>1, OneAnnounce DEF DaemonDialOk, app
  <2>2. CASE DaemonAccept(c)
    BY <2>2, OneAnnounce DEF DaemonAccept, app
  <2>3. CASE DaemonData(c)
    <3>1. sent[c] + 1 \in 0..MaxFrames
      BY <2>3, BoundsAssumption DEF DaemonData, TypeOK
    <3>2. Push("recv", c, sent[c] + 1) /\ UNCHANGED <<peer, dial, dialId, acceptQ, stream>>
      BY <2>3 DEF DaemonData, calls, app
    <3> QED
      BY <1>2, <3>1, <3>2, OneKeep
  <2>4. CASE DaemonRemoteClose(c) \/ DaemonCloseOk(c)
    <3>1. /\ Push("close_ok", c, 0) /\ UNCHANGED <<dial, dialId, acceptQ, stream>>
          /\ peer' = [peer EXCEPT ![c] = "closed"]
      BY <2>4 DEF DaemonRemoteClose, DaemonCloseOk, calls, app
    <3>2. \A k \in ConnId : peer[k] # "unused" => peer'[k] # "unused"
      BY <3>1 DEF TypeOK
    <3>3. 0 \in 0..MaxFrames
      BY FrameFacts
    <3> QED
      BY <1>2, <3>1, <3>2, <3>3, OneKeep
  <2> QED
    BY <1>4, <2>1, <2>2, <2>3, <2>4 DEF DaemonStep
<1>5. CASE DaemonBindOk
  <2>1. Push("bind_ok", NoConn, 0) /\ UNCHANGED <<peer, dial, dialId, acceptQ, stream>>
    BY <1>5 DEF DaemonBindOk, calls, app
  <2>2. PICK f \in Frame : f = [type |-> "bind_ok", id |-> NoConn, n |-> 0]
    BY FrameFacts
  <2>3. \A c \in ConnId : ~Offers(f, c)
    BY <2>2 DEF Offers
  <2>4. \A c \in ConnId : (Offered(c)' => Offered(c)) /\ OfferedOnce(c)'
    BY <2>1, <2>2, <2>3, PushOffer DEF OneStream
  <2> QED
    BY <2>1, <2>4, OneKeep
<1>6. ASSUME NEW d \in Dialer, Dial(d) \/ DialTimeout(d) PROVE OneStream'
  <2>1. /\ UNCHANGED <<sock, peer, dialId, acceptQ, stream>>
        /\ \/ dial' = [dial EXCEPT ![d] = "wait"]
           \/ dial' = [dial EXCEPT ![d] = "timeout"]
    BY <1>6 DEF Dial, DialTimeout, daemon, app
  <2>2. \A e \in Dialer : dial'[e] = "answered" => dial[e] = "answered"
    BY <2>1 DEF TypeOK
  <2> QED
    BY <1>1, <2>1, <2>2, OneKeep
<1>7. ASSUME NEW d \in Dialer, DialResume(d) PROVE OneStream'
  BY <1>7, OneResumed
<1>8. CASE Listen \/ ListenResume \/ ListenerClose \/ UserClose \/ ReaderExit
           \/ WriterClosed \/ Sweep \/ ForceClose \/ UNCHANGED vars
  <2>1. UNCHANGED <<sock, peer, dial, dialId, acceptQ, stream>>
    BY <1>8 DEF Listen, ListenResume, ListenerClose, UserClose, ReaderExit,
                WriterClosed, Sweep, ForceClose, vars, daemon, calls, app
  <2> QED
    BY <1>1, <2>1, OneKeep
<1>9. CASE Accept
  BY <1>9, OneTaken
<1>10. ASSUME NEW c \in ConnId, Read(c) \/ StreamClose(c) \/ StreamCloseEnd(c)
       PROVE  OneStream'
  <2>1. /\ UNCHANGED <<sock, peer, dial, dialId, acceptQ>>
        /\ \/ stream' = stream
           \/ stream[c] = "open" /\ stream' = [stream EXCEPT ![c] = "closing"]
           \/ stream[c] = "closing" /\ stream' = [stream EXCEPT ![c] = "closed"]
    BY <1>10 DEF Read, StreamClose, StreamCloseEnd, daemon, calls
  <2>2. \A k \in ConnId : stream'[k] = "none" <=> stream[k] = "none"
    BY <2>1 DEF TypeOK
  <2> QED
    BY <1>1, <2>1, <2>2, OneKeep
<1>11. CASE ReadLoop
  <2>1. CASE RecvFrame \/ CloseOkFrame \/ BindOkFrame
    <3>1. /\ sock # <<>> /\ sock' = Tail(sock)
          /\ UNCHANGED <<peer, dial, dialId, acceptQ, stream>>
      BY <2>1 DEF RecvFrame, CloseOkFrame, BindOkFrame, Incoming, Dispatched, calls, app
    <3> QED
      BY <1>3, <3>1, OneKeep
  <2> QED
    BY <1>11, <2>1, OneQueued, OneDialled DEF ReadLoop
<1> QED
  BY <1>4, <1>5, <1>6, <1>7, <1>8, <1>9, <1>10, <1>11 DEF Next

(* Making the one Stream of a connection keeps the tables in step.         *)
LEMMA RegisterTables ==
    ASSUME TypeOK, Tables, NEW c \in ConnId, Register(c), UNCHANGED <<got, eof>>
    PROVE  Tables'
<1>1. \A k \in ConnId : /\ k # c => /\ recvQ'[k] = recvQ[k] /\ pending'[k] = pending[k]
                                    /\ stream'[k] = stream[k]
                        /\ k = c => pending'[k] = <<>> /\ stream'[k] = "open"
  BY DEF Register, TypeOK
<1>2. queues' = queues \cup {c} /\ got' = got /\ eof' = eof
  BY DEF Register
<1> QED
  BY <1>1, <1>2 DEF Tables

(* The receive queues, the frames kept aside and the streams agree.        *)
LEMMA TablesStep == TypeOK /\ OneStream /\ Tables /\ [Next]_vars => Tables'
<1> SUFFICES ASSUME TypeOK, OneStream, Tables, [Next]_vars PROVE Tables'
  OBVIOUS
<1>1. ASSUME NEW d \in Dialer, DialResume(d) PROVE Tables'
  BY <1>1, OneResumed, RegisterTables DEF DialResume
<1>2. CASE Accept
  BY <1>2, OneTaken, RegisterTables DEF Accept
<1>3. ASSUME NEW c \in ConnId, Read(c) PROVE Tables'
  <2>1. /\ stream[c] # "none" /\ UNCHANGED <<queues, pending, stream>>
        /\ \A k \in ConnId : k # c =>
              recvQ'[k] = recvQ[k] /\ got'[k] = got[k] /\ eof'[k] = eof[k]
    BY <1>3 DEF Read, tables, TypeOK
  <2> QED
    BY <2>1 DEF Tables
<1>4. ASSUME NEW c \in ConnId, StreamClose(c) \/ StreamCloseEnd(c) PROVE Tables'
  <2>1. /\ UNCHANGED <<recvQ, got, eof, pending>> /\ queues' \subseteq queues
        /\ \A k \in ConnId : stream'[k] = "none" => stream[k] = "none"
    BY <1>4 DEF StreamClose, StreamCloseEnd, tables, TypeOK
  <2> QED
    BY <2>1 DEF Tables
<1>5. CASE RecvFrame \/ CloseOkFrame
  <2>1. PICK k \in ConnId, x \in 0..MaxFrames : Enqueue(k, x)
    <3>1. sock # <<>> /\ Head(sock).type \in {"recv", "close_ok"} /\ sock' = Tail(sock)
      BY <1>5 DEF RecvFrame, CloseOkFrame, Incoming, Dispatched
    <3>2. Head(sock) \in Frame
      BY <3>1, PopFacts
    <3>3. Head(sock).id \in ConnId /\ Head(sock).n \in 0..MaxFrames /\ EOF \in 0..MaxFrames
      BY <3>1, <3>2, FrameFacts DEF EOF
    <3> QED
      BY <1>5, <3>3 DEF RecvFrame, CloseOkFrame
  <2>2. /\ UNCHANGED <<stream, got, eof>> /\ queues' \subseteq queues
    BY <1>5 DEF RecvFrame, CloseOkFrame
  <2>3. \A c \in ConnId : c \notin queues => recvQ'[c] = recvQ[c]
    BY <2>1 DEF Enqueue, TypeOK
  <2>4. \A c \in ConnId : c \in queues => pending'[c] = pending[c]
    BY <2>1 DEF Enqueue, TypeOK
  <2> QED
    BY <2>2, <2>3, <2>4 DEF Tables
<1>6. CASE Sweep \/ ForceClose
  <2>1. UNCHANGED <<stream, got, eof, queues, pending>> /\ EndMarkers
    BY <1>6 DEF Sweep, ForceClose, tables
  <2>2. \A c \in ConnId : c \notin queues => recvQ'[c] = recvQ[c]
    BY <2>1 DEF EndMarkers
  <2> QED
    BY <2>1, <2>2 DEF Tables
<1>7. CASE UNCHANGED <<stream, recvQ, got, eof, queues, pending>>
  BY <1>7 DEF Tables
<1>8. \/ \E d \in Dialer : DialResume(d)
      \/ \E c \in ConnId : Read(c) \/ StreamClose(c) \/ StreamCloseEnd(c)
      \/ Accept \/ RecvFrame \/ CloseOkFrame \/ Sweep \/ ForceClose
      \/ UNCHANGED <<stream, recvQ, got, eof, queues, pending>>
  BY DEF Next, DaemonStep, DaemonDialOk, DaemonAccept, DaemonData, DaemonRemoteClose,
         DaemonCloseOk, DaemonBindOk, Dial, DialTimeout, Listen, ListenResume,
         ListenerClose, ReadLoop, AcceptFrame, DialOkFrame, BindOkFrame, UserClose,
         ReaderExit, WriterClosed, vars, tables, app
<1> QED
  BY <1>1, <1>2, <1>3, <1>4, <1>5, <1>6, <1>7, <1>8

LEMMA StreamInvInit == Init => StreamInv
<1> SUFFICES ASSUME Init PROVE StreamInv
  OBVIOUS
<1>1. TypeOK
  <2>1. /\ sock \in Seq(Frame) /\ dialWaiters \in Seq(Dialer) /\ acceptQ \in Seq(ConnId)
        /\ pending \in [ConnId -> Seq(0..MaxFrames)]
        /\ recvQ \in [ConnId -> Seq(0..MaxFrames)]
        /\ got \in [ConnId -> Seq(1..MaxFrames)]
    BY EmptySeq DEF Init
  <2>2. sent \in [ConnId -> 0..MaxFrames]
    BY BoundsAssumption DEF Init
  <2> QED
    BY <2>1, <2>2 DEF Init, TypeOK
<1>2. \A c \in ConnId : ~Offered(c) /\ ~Accepted(c) /\ ~Dialled(c)
  BY DEF Init, Offered, Accepted, Dialled, Answered
<1>3. \A c \in ConnId : OfferedOnce(c) /\ AcceptedOnce(c) /\ DialledOnce(c)
  BY DEF Init, OfferedOnce, AcceptedOnce, DialledOnce, Answered
<1>4. OneStream
  BY <1>2, <1>3 DEF Init, OneStream
<1>5. Tables
  BY DEF Init, Tables
<1> QED
  BY <1>1, <1>4, <1>5 DEF StreamInv, Init

LEMMA StreamInvStep == StreamInv /\ [Next]_vars => StreamInv'
<1> SUFFICES ASSUME StreamInv, [Next]_vars PROVE StreamInv'
  OBVIOUS
<1>1. TypeOK' /\ OneStream' /\ Tables'
  BY TypeStep, OneStreamStep, TablesStep DEF StreamInv
<1>2. closing' # "no" => closed'
  BY DEF StreamInv, Next, vars, life, DaemonStep, DaemonDialOk, DaemonAccept, DaemonData,
         DaemonRemoteClose, DaemonCloseOk, DaemonBindOk, Dial, DialTimeout, DialResume,
         Listen, ListenResume, ListenerClose, Accept, Read, StreamClose, StreamCloseEnd,
         ReadLoop, RecvFrame, CloseOkFrame, AcceptFrame, DialOkFrame, BindOkFrame,
         Dispatched, UserClose, ReaderExit, CloseBegin, WriterClosed, Sweep,
         ForceClose
<1> QED
  BY <1>1, <1>2 DEF StreamInv

(* The variables of the streams keep their types: in particular a dial()   *)
(* or accept() that resumes always has a connection id to register.        *)
THEOREM StreamsTypeCorrect == Spec => []TypeOK
<1>1. StreamInv => TypeOK
  BY DEF StreamInv
<1> QED
  BY <1>1, StreamInvInit, StreamInvStep, PTL DEF Spec

-----------------------------------------------------------------------------
(* What is moved from the head of one sequence to the end of the other one *)
(* before it leaves their concatenation alone.                             *)
LEMMA MoveHead ==
    ASSUME NEW S, NEW a \in Seq(S), NEW q \in Seq(S), q # <<>>
    PROVE  Append(a, Head(q)) \o Tail(q) = a \o q
<1>1. PICK h : h = Head(q)
  OBVIOUS
<1>2. PICK t : t = Tail(q)
  OBVIOUS
<1>3. h \in S /\ t \in Seq(S) /\ <<h>> \in Seq(S)
  BY <1>1, <1>2, HeadTailProperties
<1>4. q = <<h>> \o t
  <2>1. /\ <<h>> \o t \in Seq(S) /\ Len(<<h>> \o t) = 1 + Len(t)
        /\ \A i \in 1..(1 + Len(t)) :
              (<<h>> \o t)[i] = IF i <= 1 THEN <<h>>[i] ELSE t[i - 1]
    BY <1>3
  <2>2. /\ Len(q) = 1 + Len(t) /\ q[1] = h
        /\ \A i \in 1..Len(q) : i > 1 => q[i] = t[i - 1]
    BY <1>1, <1>2
  <2>3. \A i \in 1..Len(q) : (<<h>> \o t)[i] = q[i]
    BY <2>1, <2>2
  <2> QED
    BY <2>1, <2>2, <2>3, SeqEqual
<1>5. Append(a, h) = a \o <<h>>
  BY <1>3, AppendIsConcat
<1>6. (a \o <<h>>) \o t = a \o (<<h>> \o t)
  BY <1>3, ConcatAssociative
<1> QED
  BY <1>1, <1>2, <1>4, <1>5, <1>6

(* Appending to the second sequence appends to the concatenation.          *)
LEMMA JoinAppend ==
    ASSUME NEW S, NEW a \in Seq(S), NEW b \in Seq(S), NEW x \in S
    PROVE  a \o Append(b, x) = Append(a \o b, x)
<1>1. <<x>> \in Seq(S) /\ a \o b \in Seq(S)
  BY ConcatProperties
<1>2. Append(b, x) = b \o <<x>> /\ Append(a \o b, x) = (a \o b) \o <<x>>
  BY <1>1, AppendIsConcat
<1>3. a \o (b \o <<x>>) = (a \o b) \o <<x>>
  BY <1>1, ConcatAssociative
<1> QED
  BY <1>2, <1>3

LEMMA JoinItem ==
    \A a, b \in Seq(0..MaxFrames), x \in 0..MaxFrames :
        a \o Append(b, x) = Append(a \o b, x)
<1> SUFFICES ASSUME NEW a \in Seq(0..MaxFrames), NEW b \in Seq(0..MaxFrames),
                    NEW x \in 0..MaxFrames
             PROVE  a \o Append(b, x) = Append(a \o b, x)
  OBVIOUS
<1>1. PICK S : S = 0..MaxFrames
  OBVIOUS
<1>2. a \in Seq(S) /\ b \in Seq(S) /\ x \in S
  BY <1>1
<1> QED
  BY <1>2, JoinAppend

(* The elements of a concatenation whose second part lost its head.        *)
LEMMA DropHead ==
    ASSUME NEW S, NEW a \in Seq(S), NEW q \in Seq(S), q # <<>>
    PROVE  /\ Len(a \o q) = Len(a) + Len(q) /\ Len(a) \in Nat /\ Len(q) \in Nat \ {0}
           /\ Len(a \o Tail(q)) = Len(a) + Len(q) - 1
           /\ (a \o q)[Len(a) + 1] = Head(q)
           /\ \A i \in 1..(Len(a) + Len(q) - 1) :
                 (a \o Tail(q))[i] = IF i <= Len(a) THEN (a \o q)[i] ELSE (a \o q)[i + 1]
<1>1. PICK t \in Seq(S) : t = Tail(q)
  BY HeadTailProperties
<1>2. /\ Len(a) \in Nat /\ Len(q) \in Nat \ {0} /\ Len(t) = Len(q) - 1
      /\ q[1] = Head(q) /\ \A i \in 1..Len(t) : t[i] = q[i + 1]
  BY <1>1
<1>3. /\ Len(a \o q) = Len(a) + Len(q)
      /\ \A i \in 1..(Len(a) + Len(q)) :
            (a \o q)[i] = IF i <= Len(a) THEN a[i] ELSE q[i - Len(a)]
  BY ConcatProperties
<1>4. /\ Len(a \o t) = Len(a) + Len(t)
      /\ \A i \in 1..(Len(a) + Len(t)) :
            (a \o t)[i] = IF i <= Len(a) THEN a[i] ELSE t[i - Len(a)]
  BY ConcatProperties
<1>5. Len(a) + Len(t) = Len(a) + Len(q) - 1
  BY <1>2
<1>6. (a \o q)[Len(a) + 1] = q[1]
  BY <1>2, <1>3
<1>7. ASSUME NEW i \in 1..(Len(a) + Len(q) - 1)
      PROVE  (a \o t)[i] = IF i <= Len(a) THEN (a \o q)[i] ELSE (a \o q)[i + 1]
  <2>1. /\ i \in 1..(Len(a) + Len(t)) /\ i \in 1..(Len(a) + Len(q))
        /\ i + 1 \in 1..(Len(a) + Len(q))
    BY <1>2
  <2>2. CASE i <= Len(a)
    BY <1>3, <1>4, <2>1, <2>2
  <2>3. CASE ~(i <= Len(a))
    <3>1. /\ ~(i + 1 <= Len(a)) /\ i - Len(a) \in 1..Len(t)
          /\ (i - Len(a)) + 1 = (i + 1) - Len(a)
      BY <1>2, <2>3
    <3>2. (a \o t)[i] = q[(i - Len(a)) + 1]
      BY <1>2, <1>4, <2>1, <2>3, <3>1
    <3>3. (a \o q)[i + 1] = q[(i + 1) - Len(a)]
      BY <1>3, <2>1, <3>1
    <3> QED
      BY <2>3, <3>1, <3>2, <3>3
  <2> QED
    BY <2>2, <2>3
<1> QED
  BY <1>1, <1>2, <1>3, <1>4, <1>5, <1>6, <1>7

(* The head of a concatenation is the head of its first part.              *)
LEMMA TailJoin ==
    ASSUME NEW S, NEW q \in Seq(S), NEW p \in Seq(S), q # <<>>
    PROVE  /\ q \o p # <<>> /\ q \o p \in Seq(S)
           /\ Head(q \o p) = Head(q)
           /\ Tail(q \o p) = Tail(q) \o p
<1>1. PICK t \in Seq(S) : t = Tail(q)
  BY HeadTailProperties
<1>2. /\ Len(q) \in Nat \ {0} /\ Len(p) \in Nat /\ Len(t) = Len(q) - 1
      /\ q[1] = Head(q) /\ \A i \in 1..Len(t) : t[i] = q[i + 1]
  BY <1>1
<1>3. PICK w \in Seq(S) : w = q \o p
  BY ConcatProperties
<1>4. /\ Len(w) = Len(q) + Len(p)
      /\ \A i \in 1..(Len(q) + Len(p)) :
            w[i] = IF i <= Len(q) THEN q[i] ELSE p[i - Len(q)]
  BY <1>3, ConcatProperties
<1>5. PICK v \in Seq(S) : v = t \o p
  BY ConcatProperties
<1>6. /\ Len(v) = Len(t) + Len(p)
      /\ \A i \in 1..(Len(t) + Len(p)) :
            v[i] = IF i <= Len(t) THEN t[i] ELSE p[i - Len(t)]
  BY <1>5, ConcatProperties
<1>7. w # <<>> /\ Head(w) = q[1]
  BY <1>2, <1>4
<1>8. PICK u \in Seq(S) : u = Tail(w)
  BY <1>7, HeadTailProperties
<1>9. Len(u) = Len(w) - 1 /\ \A i \in 1..Len(u) : u[i] = w[i + 1]
  BY <1>7, <1>8
<1>10. Len(u) = Len(v)
  BY <1>2, <1>4, <1>6, <1>9
<1>11. ASSUME NEW i \in 1..Len(u) PROVE u[i] = v[i]
  <2>1. i + 1 \in 1..(Len(q) + Len(p)) /\ i \in 1..(Len(t) + Len(p))
    BY <1>2, <1>4, <1>6, <1>9, <1>10
  <2>2. CASE i <= Len(t)
    <3>1. i + 1 <= Len(q) /\ i \in 1..Len(t)
      BY <1>2, <2>1, <2>2
    <3> QED
      BY <1>2, <1>4, <1>6, <1>9, <2>1, <2>2, <3>1
  <2>3. CASE ~(i <= Len(t))
    <3>1. ~(i + 1 <= Len(q)) /\ i - Len(t) = (i + 1) - Len(q)
      BY <1>2, <2>1, <2>3
    <3> QED
      BY <1>4, <1>6, <1>9, <2>1, <2>3, <3>1
  <2> QED
    BY <2>2, <2>3
<1>12. u = v
  BY <1>10, <1>11, SeqEqual
<1> QED
  BY <1>1, <1>2, <1>3, <1>5, <1>7, <1>8, <1>12

(* The parts of the log are sequences of frame numbers and end markers.    *)
LEMMA LogType ==
    ASSUME TypeOK, NEW c \in ConnId
    PROVE  /\ got[c] \in Seq(0..MaxFrames) /\ recvQ[c] \in Seq(0..MaxFrames)
           /\ pending[c] \in Seq(0..MaxFrames)
           /\ recvQ[c] \o pending[c] \in Seq(0..MaxFrames)
           /\ Log(c) \in Seq(0..MaxFrames) /\ Len(Log(c)) \in Nat
<1>1. got[c] \in Seq(1..MaxFrames) /\ 1..MaxFrames \subseteq 0..MaxFrames
  BY BoundsAssumption DEF TypeOK
<1>2. got[c] \in Seq(0..MaxFrames)
  BY <1>1, SeqMonotonic
<1>3. recvQ[c] \in Seq(0..MaxFrames) /\ pending[c] \in Seq(0..MaxFrames)
  BY DEF TypeOK
<1>4. recvQ[c] \o pending[c] \in Seq(0..MaxFrames)
  BY <1>3, ConcatProperties
<1>5. Log(c) \in Seq(0..MaxFrames)
  BY <1>2, <1>4, ConcatProperties DEF Log
<1>6. Len(Log(c)) \in Nat
  BY <1>5, LenProperties
<1> QED
  BY <1>2, <1>3, <1>4, <1>5, <1>6

(* _register_recv_queue moves what came early and loses nothing.           *)
LEMMA LogRegister ==
    ASSUME TypeOK, Tables, NEW k \in ConnId, stream[k] = "none", Register(k),
           got' = got, NEW c \in ConnId
    PROVE  Log(c)' = Log(c)
<1>1. CASE c # k
  <2>1. recvQ'[c] = recvQ[c] /\ pending'[c] = pending[c]
    BY <1>1 DEF Register, TypeOK
  <2> QED
    BY <2>1 DEF Log
<1>2. CASE c = k
  <2>1. recvQ'[c] = pending[c] /\ pending'[c] = <<>> /\ recvQ[c] = <<>>
    BY <1>2 DEF Register, TypeOK, Tables
  <2>2. pending[c] \o <<>> = pending[c] /\ <<>> \o pending[c] = pending[c]
    BY LogType, ConcatEmptySeq
  <2> QED
    BY <2>1, <2>2 DEF Log
<1> QED
  BY <1>1, <1>2

(* An item dispatched for a connection comes last in its log, registered   *)
(* or not.                                                                 *)
LEMMA LogEnqueue ==
    ASSUME TypeOK, Tables, NEW k \in ConnId, NEW x \in 0..MaxFrames, Enqueue(k, x),
           got' = got
    PROVE  /\ Log(k)' = Append(Log(k), x)
           /\ \A c \in ConnId : c # k => Log(c)' = Log(c)
<1>1. \A c \in ConnId : c # k => recvQ'[c] = recvQ[c] /\ pending'[c] = pending[c]
  BY DEF Enqueue, TypeOK
<1>2. \A c \in ConnId : c # k => Log(c)' = Log(c)
  BY <1>1 DEF Log
<1>3. PICK q : q = recvQ[k] \o pending[k]
  OBVIOUS
<1>4. q \in Seq(0..MaxFrames) /\ got[k] \in Seq(0..MaxFrames)
  BY <1>3, LogType
<1>5. recvQ'[k] \o pending'[k] = Append(q, x)
  <2>1. CASE k \in queues
    <3>1. recvQ'[k] = Append(recvQ[k], x) /\ pending'[k] = <<>> /\ pending[k] = <<>>
      BY <2>1 DEF Enqueue, TypeOK, Tables
    <3>2. Append(recvQ[k], x) \in Seq(0..MaxFrames) /\ recvQ[k] \in Seq(0..MaxFrames)
      BY LogType, AppendProperties
    <3>3. Append(recvQ[k], x) \o <<>> = Append(recvQ[k], x) /\ recvQ[k] \o <<>> = recvQ[k]
      BY <3>2, ConcatEmptySeq
    <3> QED
      BY <1>3, <3>1, <3>3
  <2>2. CASE k \notin queues
    <3>1. recvQ'[k] = recvQ[k] /\ pending'[k] = Append(pending[k], x)
      BY <2>2 DEF Enqueue, TypeOK
    <3>2. recvQ[k] \in Seq(0..MaxFrames) /\ pending[k] \in Seq(0..MaxFrames)
      BY LogType
    <3>3. recvQ[k] \o Append(pending[k], x) = Append(recvQ[k] \o pending[k], x)
      BY <3>2, JoinItem, Zenon
    <3> QED
      BY <1>3, <3>1, <3>3, Zenon
  <2> QED
    BY <2>1, <2>2
<1>6. got[k] \o Append(q, x) = Append(got[k] \o q, x)
  BY <1>4, JoinItem, Zenon
<1>7. Log(k)' = got[k] \o (recvQ'[k] \o pending'[k]) /\ Log(k) = got[k] \o q
  BY <1>3, Zenon DEF Log
<1>8. Log(k)' = Append(Log(k), x)
  BY <1>5, <1>6, <1>7, Zenon
<1> QED
  BY <1>2, <1>8

(* close() and force_close_sync append end markers to registered queues.   *)
LEMMA LogMarked ==
    ASSUME TypeOK, Tables, EndMarkers, UNCHANGED <<got, pending>>, NEW c \in ConnId
    PROVE  Log(c)' = Log(c) \/ Log(c)' = Append(Log(c), EOF)
<1>0. EOF \in 0..MaxFrames
  BY FrameFacts DEF EOF
<1>1. CASE c \in queues
  <2>1. /\ recvQ'[c] = Append(recvQ[c], EOF) /\ pending'[c] = <<>> /\ pending[c] = <<>>
        /\ got'[c] = got[c]
    BY <1>1 DEF EndMarkers, Tables
  <2>2. /\ got[c] \in Seq(0..MaxFrames) /\ recvQ[c] \in Seq(0..MaxFrames)
        /\ Append(recvQ[c], EOF) \in Seq(0..MaxFrames)
    BY <1>0, LogType, AppendProperties
  <2>3. /\ Append(recvQ[c], EOF) \o <<>> = Append(recvQ[c], EOF)
        /\ recvQ[c] \o <<>> = recvQ[c]
    BY <2>2, ConcatEmptySeq
  <2>4. got[c] \o Append(recvQ[c], EOF) = Append(got[c] \o recvQ[c], EOF)
    BY <1>0, <2>2, JoinItem, Zenon
  <2>5. /\ Log(c)' = got'[c] \o (recvQ'[c] \o pending'[c])
        /\ Log(c) = got[c] \o (recvQ[c] \o pending[c])
    BY Zenon DEF Log
  <2> QED
    BY <2>1, <2>3, <2>4, <2>5, Zenon
<1>2. CASE c \notin queues
  <2>1. recvQ'[c] = recvQ[c]
    BY <1>2 DEF EndMarkers
  <2> QED
    BY <2>1 DEF Log
<1> QED
  BY <1>1, <1>2

(* read() takes the next item; data stay in the log as read.               *)
LEMMA LogRead ==
    ASSUME TypeOK, NEW k \in ConnId, Read(k), NEW q, q = recvQ[k] \o pending[k]
    PROVE  /\ q \in Seq(0..MaxFrames) /\ q # <<>> /\ Head(q) = Head(recvQ[k])
           /\ Log(k) = got[k] \o q
           /\ Head(q) # EOF => Log(k)' = Log(k) /\ got'[k] = Append(got[k], Head(q))
           /\ Head(q) = EOF => Log(k)' = got[k] \o Tail(q) /\ got'[k] = got[k]
           /\ \A c \in ConnId : c # k => Log(c)' = Log(c) /\ got'[c] = got[c]
<1>1. /\ got[k] \in Seq(0..MaxFrames) /\ recvQ[k] \in Seq(0..MaxFrames)
      /\ pending[k] \in Seq(0..MaxFrames) /\ recvQ[k] # <<>>
  BY LogType DEF Read
<1>2. /\ q \in Seq(0..MaxFrames) /\ q # <<>> /\ Head(q) = Head(recvQ[k])
      /\ Tail(q) = Tail(recvQ[k]) \o pending[k]
  BY <1>1, TailJoin
<1>3. /\ recvQ' = [recvQ EXCEPT ![k] = Tail(recvQ[k])] /\ pending' = pending
      /\ Head(recvQ[k]) = EOF => got' = got
      /\ Head(recvQ[k]) # EOF => got' = [got EXCEPT ![k] = Append(got[k], Head(recvQ[k]))]
  BY DEF Read, tables
<1>4. \A c \in ConnId : c # k =>
         recvQ'[c] = recvQ[c] /\ pending'[c] = pending[c] /\ got'[c] = got[c]
  BY <1>3 DEF TypeOK
<1>5. /\ recvQ'[k] \o pending'[k] = Tail(q)
      /\ Head(q) = EOF => got'[k] = got[k]
      /\ Head(q) # EOF => got'[k] = Append(got[k], Head(q))
  BY <1>2, <1>3 DEF TypeOK
<1>6. Append(got[k], Head(q)) \o Tail(q) = got[k] \o q
  BY <1>1, <1>2, MoveHead
<1>7. \A c \in ConnId : c # k => Log(c)' = Log(c) /\ got'[c] = got[c]
  BY <1>4 DEF Log
<1>8. Log(k) = got[k] \o q
  BY DEF Log
<1>9. Log(k)' = got'[k] \o Tail(q)
  BY <1>5 DEF Log
<1> QED
  BY <1>2, <1>5, <1>6, <1>7, <1>8, <1>9

-----------------------------------------------------------------------------
(* Counting, element by element.                                           *)
LEMMA CountsIff ==
    ASSUME NEW s \in Seq(0..MaxFrames), NEW k \in Nat
    PROVE  Counts(s, k) <=>
              /\ \A i \in 1..Len(s) : s[i] # EOF => s[i] \in 1..k
              /\ \A m \in 1..k : \E i \in 1..Len(s) : s[i] = m
              /\ \A i, j \in 1..Len(s) : (i < j /\ s[i] # EOF /\ s[j] # EOF) => s[i] < s[j]
<1>1. \A m \in 1..k : m # EOF
  BY DEF EOF
<1>2. {s[i] : i \in 1..Len(s)} \ {EOF} = 1..k <=>
         /\ \A i \in 1..Len(s) : s[i] # EOF => s[i] \in 1..k
         /\ \A m \in 1..k : \E i \in 1..Len(s) : s[i] = m
  BY <1>1, Zenon
<1> QED
  BY <1>2 DEF Counts

(* The next number in order, or an end marker, keeps a log in order.       *)
LEMMA CountsAppend ==
    ASSUME NEW s \in Seq(0..MaxFrames), NEW k \in Nat, Counts(s, k)
    PROVE  /\ Counts(Append(s, EOF), k)
           /\ k + 1 \in 0..MaxFrames => Counts(Append(s, k + 1), k + 1)
<1>1. /\ \A i \in 1..Len(s) : s[i] # EOF => s[i] \in 1..k
      /\ \A m \in 1..k : \E i \in 1..Len(s) : s[i] = m
      /\ \A i, j \in 1..Len(s) : (i < j /\ s[i] # EOF /\ s[j] # EOF) => s[i] < s[j]
  BY CountsIff
<1>2. ASSUME NEW x \in 0..MaxFrames
      PROVE  /\ Append(s, x) \in Seq(0..MaxFrames)
             /\ Len(Append(s, x)) = Len(s) + 1 /\ Len(s) \in Nat
             /\ Append(s, x)[Len(s) + 1] = x
             /\ \A i \in 1..Len(s) : Append(s, x)[i] = s[i]
             /\ \A i \in 1..(Len(s) + 1) : i \in 1..Len(s) \/ i = Len(s) + 1
             /\ \A i \in 1..Len(s) : i \in 1..(Len(s) + 1) /\ ~(Len(s) + 1 < i)
             /\ ~(Len(s) + 1 < Len(s) + 1)
  OBVIOUS
<1>3. Counts(Append(s, EOF), k)
  <2>1. PICK r : r = Append(s, EOF)
    OBVIOUS
  <2>2. /\ r \in Seq(0..MaxFrames) /\ Len(r) = Len(s) + 1
        /\ r[Len(s) + 1] = EOF
        /\ \A i \in 1..Len(s) : r[i] = s[i]
        /\ \A i \in 1..(Len(s) + 1) : i \in 1..Len(s) \/ i = Len(s) + 1
        /\ \A i \in 1..Len(s) : i \in 1..(Len(s) + 1)
    BY <1>2, <2>1, FrameFacts DEF EOF
  <2>3. \A i \in 1..Len(r) : r[i] # EOF => i \in 1..Len(s) /\ r[i] = s[i]
    BY <2>2
  <2>4. \A m \in 1..k : \E i \in 1..Len(r) : r[i] = m
    BY <1>1, <2>2
  <2>5. \A i \in 1..Len(r) : r[i] # EOF => r[i] \in 1..k
    BY <1>1, <2>3
  <2>6. \A i, j \in 1..Len(r) : (i < j /\ r[i] # EOF /\ r[j] # EOF) => r[i] < r[j]
    BY <1>1, <2>3
  <2> QED
    BY <2>1, <2>2, <2>4, <2>5, <2>6, CountsIff
<1>4. ASSUME k + 1 \in 0..MaxFrames PROVE Counts(Append(s, k + 1), k + 1)
  <2>1. PICK x \in 0..MaxFrames : x = k + 1
    BY <1>4
  <2>2. PICK r : r = Append(s, x)
    OBVIOUS
  <2>3. /\ r \in Seq(0..MaxFrames) /\ Len(r) = Len(s) + 1
        /\ r[Len(s) + 1] = x
        /\ \A i \in 1..Len(s) : r[i] = s[i]
        /\ \A i \in 1..(Len(s) + 1) : i \in 1..Len(s) \/ i = Len(s) + 1
        /\ \A i \in 1..Len(s) : i \in 1..(Len(s) + 1) /\ ~(Len(s) + 1 < i)
        /\ ~(Len(s) + 1 < Len(s) + 1)
        /\ Len(s) + 1 \in 1..(Len(s) + 1)
    BY <1>2, <2>2
  <2>4. /\ \A m \in 1..k : m \in 1..(k + 1) /\ m < x
        /\ \A m \in 1..(k + 1) : m \in 1..k \/ m = x
        /\ x \in 1..(k + 1) /\ k + 1 \in Nat
    BY <2>1
  <2>5. \A i \in 1..Len(r) : r[i] # EOF => r[i] \in 1..(k + 1)
    BY <1>1, <2>3, <2>4
  <2>6. \A m \in 1..(k + 1) : \E i \in 1..Len(r) : r[i] = m
    BY <1>1, <2>3, <2>4
  <2>7. \A i, j \in 1..Len(r) : (i < j /\ r[i] # EOF /\ r[j] # EOF) => r[i] < r[j]
    <3> SUFFICES ASSUME NEW i \in 1..Len(r), NEW j \in 1..Len(r),
                        i < j, r[i] # EOF, r[j] # EOF
                 PROVE  r[i] < r[j]
      OBVIOUS
    <3>1. i \in 1..Len(s)
      BY <2>3
    <3>2. r[i] = s[i] /\ s[i] \in 1..k
      BY <1>1, <2>3, <3>1
    <3>3. CASE j \in 1..Len(s)
      BY <1>1, <2>3, <3>1, <3>2, <3>3
    <3>4. CASE j = Len(s) + 1
      BY <2>3, <2>4, <3>2, <3>4
    <3> QED
      BY <2>3, <3>3, <3>4
  <2> QED
    BY <2>1, <2>2, <2>3, <2>4, <2>5, <2>6, <2>7, CountsIff
<1> QED
  BY <1>3, <1>4

(* Taking an end marker out leaves the data in order.                      *)
LEMMA CountsDrop ==
    ASSUME NEW a \in Seq(0..MaxFrames), NEW q \in Seq(0..MaxFrames), q # <<>>,
           Head(q) = EOF, NEW k \in Nat, Counts(a \o q, k)
    PROVE  Counts(a \o Tail(q), k)
<1>1. PICK s : s = a \o q
  OBVIOUS
<1>2. PICK r : r = a \o Tail(q)
  OBVIOUS
<1>3. s \in Seq(0..MaxFrames) /\ r \in Seq(0..MaxFrames)
  BY <1>1, <1>2, HeadTailProperties, ConcatProperties
<1>4. /\ \A i \in 1..Len(s) : s[i] # EOF => s[i] \in 1..k
      /\ \A m \in 1..k : \E i \in 1..Len(s) : s[i] = m
      /\ \A i, j \in 1..Len(s) : (i < j /\ s[i] # EOF /\ s[j] # EOF) => s[i] < s[j]
  BY <1>1, <1>3, CountsIff
<1>5. PICK n \in Nat : n = Len(a)
  BY LenProperties
<1>6. PICK l \in Nat : l = Len(s)
  BY <1>3, LenProperties
<1>7. /\ n + 1 \in 1..l /\ Len(r) = l - 1 /\ s[n + 1] = EOF
      /\ \A i \in 1..(l - 1) : r[i] = IF i <= n THEN s[i] ELSE s[i + 1]
  BY <1>1, <1>2, <1>5, <1>6, DropHead
<1>8. ASSUME NEW i \in 1..Len(r)
      PROVE  \E j \in 1..l : /\ r[i] = s[j]
                             /\ i <= n => j = i
                             /\ ~(i <= n) => j = i + 1
  <2>1. i \in 1..(l - 1) /\ i \in 1..l /\ i + 1 \in 1..l
    BY <1>7
  <2>2. CASE i <= n
    BY <1>7, <2>1, <2>2
  <2>3. CASE ~(i <= n)
    BY <1>7, <2>1, <2>3
  <2> QED
    BY <2>2, <2>3
<1>9. \A i \in 1..Len(r) : r[i] # EOF => r[i] \in 1..k
  BY <1>4, <1>6, <1>8
<1>10. ASSUME NEW m \in 1..k PROVE \E i \in 1..Len(r) : r[i] = m
  <2>1. PICK j \in 1..l : s[j] = m
    BY <1>4, <1>6
  <2>2. j # n + 1
    <3>1. m # EOF
      BY DEF EOF
    <3> QED
      BY <1>7, <2>1, <3>1, Zenon
  <2>3. CASE j <= n
    <3>1. j \in 1..Len(r)
      BY <1>6, <1>7, <2>3
    <3> QED
      BY <1>7, <2>1, <2>3, <3>1
  <2>4. CASE ~(j <= n)
    <3>1. j - 1 \in 1..Len(r) /\ ~(j - 1 <= n) /\ (j - 1) + 1 = j
      BY <1>6, <1>7, <2>2, <2>4
    <3> QED
      BY <1>7, <2>1, <3>1
  <2> QED
    BY <2>3, <2>4
<1>11. ASSUME NEW i \in 1..Len(r), NEW j \in 1..Len(r), i < j, r[i] # EOF, r[j] # EOF
       PROVE  r[i] < r[j]
  <2>1. PICK x \in 1..l : r[i] = s[x] /\ (i <= n => x = i) /\ (~(i <= n) => x = i + 1)
    BY <1>8
  <2>2. PICK y \in 1..l : r[j] = s[y] /\ (j <= n => y = j) /\ (~(j <= n) => y = j + 1)
    BY <1>8
  <2>3. x < y
    BY <1>11, <2>1, <2>2
  <2> QED
    BY <1>4, <1>6, <1>11, <2>1, <2>2, <2>3
<1> QED
  BY <1>2, <1>3, <1>9, <1>10, <1>11, CountsIff

(* An item appended to a log, and the part of a log that was read.         *)
LEMMA ItemLast ==
    ASSUME NEW s \in Seq(0..MaxFrames), NEW x \in 0..MaxFrames
    PROVE  /\ Len(Append(s, x)) = Len(s) + 1 /\ Len(s) \in Nat
           /\ Append(s, x)[Len(s) + 1] = x
           /\ \A i \in 1..Len(s) : Append(s, x)[i] = s[i]
  OBVIOUS

LEMMA JoinFirst ==
    \A a, b \in Seq(0..MaxFrames) :
        /\ Len(a \o b) = Len(a) + Len(b) /\ Len(a) \in Nat /\ Len(b) \in Nat
        /\ \A i \in 1..Len(a) : (a \o b)[i] = a[i]
  BY ConcatProperties

(* What follows 1..n in a log is an end marker or n + 1.                   *)
LEMMA NextInOrder ==
    ASSUME NEW s \in Seq(0..MaxFrames), NEW k \in Nat, Counts(s, k), NEW n \in Nat,
           n + 1 \in 1..Len(s), \A i \in 1..n : s[i] = i, s[n + 1] # EOF
    PROVE  s[n + 1] = n + 1
<1>1. /\ \A i \in 1..Len(s) : s[i] # EOF => s[i] \in 1..k
      /\ \A m \in 1..k : \E i \in 1..Len(s) : s[i] = m
      /\ \A i, j \in 1..Len(s) : (i < j /\ s[i] # EOF /\ s[j] # EOF) => s[i] < s[j]
  BY CountsIff
<1>2. PICK x \in 1..k : x = s[n + 1]
  BY <1>1
<1>3. Len(s) \in Nat
  BY LenProperties
<1>4. n < x
  <2>1. CASE n = 0
    BY <1>2, <2>1
  <2>2. CASE n # 0
    <3>1. n \in 1..n /\ n \in 1..Len(s) /\ n < n + 1
      BY <1>3, <2>2
    <3>2. s[n] = n /\ s[n] # EOF
      BY <2>2, <3>1 DEF EOF
    <3> QED
      BY <1>1, <1>2, <3>1, <3>2
  <2> QED
    BY <2>1, <2>2
<1>5. ASSUME n + 1 < x PROVE FALSE
  <2>1. n + 1 \in 1..k /\ n + 1 # EOF
    BY <1>2, <1>5 DEF EOF
  <2>2. PICK j \in 1..Len(s) : s[j] = n + 1
    BY <1>1, <2>1
  <2>3. CASE j <= n
    <3>1. j \in 1..n
      BY <1>3, <2>3
    <3> QED
      BY <2>2, <2>3, <3>1
  <2>4. CASE j = n + 1
    BY <1>2, <1>5, <2>2, <2>4
  <2>5. CASE n + 1 < j
    <3>1. s[n + 1] < s[j]
      BY <1>1, <2>1, <2>2, <2>5
    <3> QED
      BY <1>2, <1>5, <2>2, <3>1
  <2> QED
    BY <1>3, <2>3, <2>4, <2>5
<1> QED
  BY <1>2, <1>4, <1>5

-----------------------------------------------------------------------------
(* The numbers on the socket, element by element, before and after a step. *)
LEMMA UndispatchedIff ==
    ASSUME NEW c \in ConnId
    PROVE  /\ \A x : x \in Undispatched(c) <=>
                 \E i \in 1..Len(sock) : IsData(sock[i], c) /\ x = sock[i].n
           /\ \A x : x \in Undispatched(c)' <=>
                 \E i \in 1..Len(sock') : IsData(sock'[i], c) /\ x = sock'[i].n
  BY DEF Undispatched, IsData

(* A frame written by the daemon.                                          *)
LEMMA PushData ==
    ASSUME TypeOK, NEW t, NEW k, NEW n, NEW f \in Frame,
           f = [type |-> t, id |-> k, n |-> n], Push(t, k, n), NEW c \in ConnId
    PROVE  /\ ~IsData(f, c) => Undispatched(c)' = Undispatched(c)
           /\ IsData(f, c) => Undispatched(c)' = Undispatched(c) \cup {n}
<1>1. /\ Len(sock') = Len(sock) + 1 /\ Len(sock) \in Nat
      /\ sock'[Len(sock) + 1] = f
      /\ \A i \in 1..Len(sock) : sock'[i] = sock[i]
  BY PushFacts
<1>2. /\ \A i \in 1..Len(sock') : i \in 1..Len(sock) \/ i = Len(sock) + 1
      /\ \A i \in 1..Len(sock) : i \in 1..Len(sock')
      /\ Len(sock) + 1 \in 1..Len(sock')
  BY <1>1
<1>3. ASSUME NEW x
      PROVE  x \in Undispatched(c)' <=>
                x \in Undispatched(c) \/ (IsData(f, c) /\ x = f.n)
  <2>1. (\E i \in 1..Len(sock') : IsData(sock'[i], c) /\ x = sock'[i].n) <=>
           \/ \E i \in 1..Len(sock) : IsData(sock[i], c) /\ x = sock[i].n
           \/ IsData(f, c) /\ x = f.n
    BY <1>1, <1>2, Zenon
  <2> QED
    BY <2>1, UndispatchedIff
<1>4. f.n = n
  OBVIOUS
<1> QED
  BY <1>3, <1>4

(* The order of the socket after a frame was written.                      *)
LEMMA PushOrder ==
    ASSUME TypeOK, SockOrder, NEW t, NEW k, NEW n, NEW f \in Frame,
           f = [type |-> t, id |-> k, n |-> n], Push(t, k, n),
           \A c \in ConnId : \A i \in 1..Len(sock) : IsData(f, c) =>
              /\ IsData(sock[i], c) => sock[i].n < n
              /\ ~IsEnd(sock[i], c)
    PROVE  SockOrder'
<1>1. /\ Len(sock') = Len(sock) + 1 /\ Len(sock) \in Nat
      /\ sock'[Len(sock) + 1] = f /\ f.n = n
      /\ \A i \in 1..Len(sock) : sock'[i] = sock[i]
  BY PushFacts
<1> SUFFICES ASSUME NEW c \in ConnId, NEW i \in 1..Len(sock'), NEW j \in 1..Len(sock'),
                    i < j, IsData(sock'[j], c)
             PROVE  /\ IsData(sock'[i], c) => sock'[i].n < sock'[j].n
                    /\ ~IsEnd(sock'[i], c)
  BY DEF SockOrder, IsData, IsEnd
<1>2. i \in 1..Len(sock) /\ (j \in 1..Len(sock) \/ j = Len(sock) + 1)
  BY <1>1
<1>3. CASE j \in 1..Len(sock)
  BY <1>1, <1>2, <1>3 DEF SockOrder
<1>4. CASE j = Len(sock) + 1
  BY <1>1, <1>2, <1>4
<1> QED
  BY <1>2, <1>3, <1>4

(* The end of a connection is on the socket only if the daemon ended it.   *)
LEMMA PushClose ==
    ASSUME TypeOK, CloseAnnounced, NEW t, NEW k, NEW n, NEW f \in Frame,
           f = [type |-> t, id |-> k, n |-> n], Push(t, k, n),
           \A c \in ConnId : /\ peer[c] = "closed" => peer'[c] = "closed"
                             /\ IsEnd(f, c) => peer'[c] = "closed"
    PROVE  CloseAnnounced'
<1>1. /\ Len(sock') = Len(sock) + 1 /\ Len(sock) \in Nat
      /\ sock'[Len(sock) + 1] = f
      /\ \A i \in 1..Len(sock) : sock'[i] = sock[i]
  BY PushFacts
<1> SUFFICES ASSUME NEW c \in ConnId, NEW i \in 1..Len(sock'), IsEnd(sock'[i], c)
             PROVE  peer'[c] = "closed"
  BY DEF CloseAnnounced, IsEnd
<1>2. i \in 1..Len(sock) \/ i = Len(sock) + 1
  BY <1>1
<1> QED
  BY <1>1, <1>2 DEF CloseAnnounced

(* The socket after the reader took a frame: data leave in order, and no   *)
(* data come after the end of a connection.                                *)
LEMMA PopData ==
    ASSUME TypeOK, SockOrder, CloseAnnounced, sock # <<>>, sock' = Tail(sock),
           peer' = peer
    PROVE  /\ SockOrder' /\ CloseAnnounced'
           /\ \A c \in ConnId :
                 /\ ~IsData(Head(sock), c) => Undispatched(c)' = Undispatched(c)
                 /\ IsData(Head(sock), c) =>
                       /\ Undispatched(c) = {Head(sock).n} \cup Undispatched(c)'
                       /\ \A x \in Undispatched(c)' : Head(sock).n < x
                 /\ IsEnd(Head(sock), c) =>
                       peer[c] = "closed" /\ Undispatched(c)' = {}
<1>1. /\ Head(sock) = sock[1] /\ 1 \in 1..Len(sock) /\ Len(sock) \in Nat
      /\ Len(sock') = Len(sock) - 1
      /\ \A i \in 1..Len(sock') :
            i + 1 \in 1..Len(sock) /\ sock'[i] = sock[i + 1]
  BY PopFacts
<1>2. /\ \A i \in 1..Len(sock') : 1 < i + 1
      /\ \A i, j \in 1..Len(sock') : i < j => i + 1 < j + 1
      /\ \A i \in 1..Len(sock) : i = 1 \/ \E j \in 1..Len(sock') : i = j + 1
  <2>1. \A i \in 1..Len(sock) : i = 1 \/ (i - 1 \in 1..Len(sock') /\ i = (i - 1) + 1)
    BY <1>1
  <2>2. /\ \A i \in 1..Len(sock') : 1 < i + 1
        /\ \A i, j \in 1..Len(sock') : i < j => i + 1 < j + 1
    BY <1>1
  <2> QED
    BY <2>1, <2>2
<1>3. SockOrder'
  <2> SUFFICES ASSUME NEW c \in ConnId, NEW i \in 1..Len(sock'), NEW j \in 1..Len(sock'),
                      i < j, IsData(sock'[j], c)
               PROVE  /\ IsData(sock'[i], c) => sock'[i].n < sock'[j].n
                      /\ ~IsEnd(sock'[i], c)
    BY DEF SockOrder, IsData, IsEnd
  <2> QED
    BY <1>1, <1>2 DEF SockOrder
<1>4. CloseAnnounced'
  BY <1>1 DEF CloseAnnounced, IsEnd
<1>5. ASSUME NEW c \in ConnId, NEW x
      PROVE  x \in Undispatched(c) <=>
                x \in Undispatched(c)' \/ (IsData(Head(sock), c) /\ x = Head(sock).n)
  <2>1. (\E i \in 1..Len(sock) : IsData(sock[i], c) /\ x = sock[i].n) <=>
           \/ \E i \in 1..Len(sock') : IsData(sock'[i], c) /\ x = sock'[i].n
           \/ IsData(sock[1], c) /\ x = sock[1].n
    BY <1>1, <1>2, Zenon
  <2> QED
    BY <1>1, <2>1, UndispatchedIff
<1>6. ASSUME NEW c \in ConnId, NEW x \in Undispatched(c)'
      PROVE  /\ IsData(Head(sock), c) => Head(sock).n < x
             /\ ~IsEnd(Head(sock), c)
  <2>1. PICK i \in 1..Len(sock') : IsData(sock'[i], c) /\ x = sock'[i].n
    BY <1>6, UndispatchedIff
  <2>2. /\ i + 1 \in 1..Len(sock) /\ 1 < i + 1
        /\ IsData(sock[i + 1], c) /\ x = sock[i + 1].n
    BY <1>1, <1>2, <2>1
  <2> QED
    BY <1>1, <2>2 DEF SockOrder
<1>7. \A c \in ConnId : IsEnd(Head(sock), c) => peer[c] = "closed"
  BY <1>1 DEF CloseAnnounced
<1>8. ASSUME NEW c \in ConnId
      PROVE  /\ ~IsData(Head(sock), c) => Undispatched(c)' = Undispatched(c)
             /\ IsData(Head(sock), c) => Undispatched(c) = {Head(sock).n} \cup Undispatched(c)'
             /\ IsEnd(Head(sock), c) => Undispatched(c)' = {}
  BY <1>5, <1>6
<1> QED
  BY <1>3, <1>4, <1>6, <1>7, <1>8

-----------------------------------------------------------------------------
(* Steps that leave every log and what is undispatched alone.              *)
LEMMA DataKeep ==
    ASSUME DataInv, UNCHANGED <<got, eof, sent>>, closed => closed',
           \A c \in ConnId : /\ Log(c)' = Log(c)
                             /\ Undispatched(c)' = Undispatched(c)
                             /\ peer[c] = "closed" => peer'[c] = "closed",
           SockOrder', CloseAnnounced'
    PROVE  DataInv'
<1>1. StreamIntact'
  BY DEF DataInv, StreamIntact
<1>2. Exact'
  BY DEF DataInv, Exact
<1>3. MarkerLast'
  BY DEF DataInv, MarkerLast
<1> QED
  BY <1>1, <1>2, <1>3 DEF DataInv

(* What the parts of the invariant say of one connection.                  *)
LEMMA IntactAt ==
    ASSUME StreamIntact, TypeOK, NEW c \in ConnId
    PROVE  \E k \in Nat : /\ k <= sent[c] /\ sent[c] \in Nat /\ sent[c] <= MaxFrames
                          /\ Counts(Log(c), k) /\ Undispatched(c) = (k + 1)..sent[c]
<1>1. sent[c] \in 0..MaxFrames
  BY DEF TypeOK
<1>2. PICK k \in 0..sent[c] : Counts(Log(c), k) /\ Undispatched(c) = (k + 1)..sent[c]
  BY DEF StreamIntact
<1>3. k \in Nat /\ k <= sent[c] /\ sent[c] \in Nat /\ sent[c] <= MaxFrames
  BY <1>1, BoundsAssumption
<1> QED
  BY <1>2, <1>3

(* The daemon writes a frame that is neither data nor the end of a stream. *)
LEMMA DataOther ==
    ASSUME StreamInv, DataInv, NEW t \in {"dial_ok", "accept", "bind_ok"}, NEW k,
           NEW f \in Frame, f = [type |-> t, id |-> k, n |-> 0], Push(t, k, 0),
           \A c \in ConnId : peer[c] = "closed" => peer'[c] = "closed",
           UNCHANGED <<sent, tables, app, closed>>
    PROVE  DataInv'
<1>1. TypeOK /\ SockOrder /\ CloseAnnounced
  BY DEF StreamInv, DataInv
<1>2. \A c \in ConnId : ~IsData(f, c) /\ ~IsEnd(f, c)
  BY DEF IsData, IsEnd
<1>3. \A c \in ConnId : Undispatched(c)' = Undispatched(c)
  BY <1>1, <1>2, PushData
<1>4. SockOrder'
  BY <1>1, <1>2, PushOrder
<1>5. CloseAnnounced'
  BY <1>1, <1>2, PushClose
<1>6. /\ \A c \in ConnId : Log(c)' = Log(c)
      /\ UNCHANGED <<got, eof, sent, closed>>
  BY DEF Log, tables, app
<1> QED
  BY <1>3, <1>4, <1>5, <1>6, DataKeep

(* The daemon ends a stream.                                               *)
LEMMA DataEnds ==
    ASSUME StreamInv, DataInv, NEW k \in ConnId, Push("close_ok", k, 0),
           peer' = [peer EXCEPT ![k] = "closed"], UNCHANGED <<sent, tables, app, closed>>
    PROVE  DataInv'
<1>1. TypeOK /\ SockOrder /\ CloseAnnounced
  BY DEF StreamInv, DataInv
<1>2. PICK f \in Frame : f = [type |-> "close_ok", id |-> k, n |-> 0]
  BY FrameFacts
<1>3. \A c \in ConnId : ~IsData(f, c) /\ (IsEnd(f, c) => c = k)
  BY <1>2 DEF IsData, IsEnd
<1>4. \A c \in ConnId : peer'[c] = IF c = k THEN "closed" ELSE peer[c]
  BY <1>1 DEF TypeOK
<1>5. \A c \in ConnId : Undispatched(c)' = Undispatched(c)
  BY <1>1, <1>2, <1>3, PushData
<1>6. SockOrder'
  BY <1>1, <1>2, <1>3, PushOrder
<1>7. CloseAnnounced'
  <2>1. \A c \in ConnId : /\ peer[c] = "closed" => peer'[c] = "closed"
                          /\ IsEnd(f, c) => peer'[c] = "closed"
    BY <1>3, <1>4
  <2> QED
    BY <1>1, <1>2, <2>1, PushClose
<1>8. /\ \A c \in ConnId : Log(c)' = Log(c)
      /\ UNCHANGED <<got, eof, sent, closed>>
  BY DEF Log, tables, app
<1> QED
  BY <1>4, <1>5, <1>6, <1>7, <1>8, DataKeep

(* The daemon forwards the next piece of data.                             *)
LEMMA DataSent ==
    ASSUME StreamInv, DataInv, NEW k \in ConnId, DaemonData(k)
    PROVE  DataInv'
<1>1. TypeOK /\ SockOrder /\ CloseAnnounced /\ StreamIntact
  BY DEF StreamInv, DataInv
<1>2. /\ peer[k] = "open" /\ sent[k] < MaxFrames
      /\ sent' = [sent EXCEPT ![k] = sent[k] + 1]
      /\ Push("recv", k, sent[k] + 1)
      /\ UNCHANGED <<peer, tables, app, closed>>
  BY DEF DaemonData, life
<1>3. PICK m \in 0..MaxFrames : m = sent[k] + 1
  BY <1>1, <1>2, BoundsAssumption DEF TypeOK
<1>4. PICK f \in Frame : f = [type |-> "recv", id |-> k, n |-> m]
  BY FrameFacts
<1>5. \A c \in ConnId : ~IsEnd(f, c) /\ (IsData(f, c) <=> c = k)
  BY <1>4 DEF IsData, IsEnd
<1>6. Push("recv", k, m)
  BY <1>2, <1>3
<1>7. \A c \in ConnId : /\ c # k => Undispatched(c)' = Undispatched(c)
                        /\ c = k => Undispatched(c)' = Undispatched(c) \cup {m}
  BY <1>1, <1>4, <1>5, <1>6, PushData
<1>8. \A c \in ConnId : sent'[c] = IF c = k THEN m ELSE sent[c]
  BY <1>1, <1>2, <1>3 DEF TypeOK
<1>9. SockOrder'
  <2>1. \A i \in 1..Len(sock) : ~IsEnd(sock[i], k)
    BY <1>1, <1>2 DEF CloseAnnounced
  <2>2. ASSUME NEW i \in 1..Len(sock), IsData(sock[i], k) PROVE sock[i].n < m
    <3>1. sock[i].n \in Undispatched(k)
      BY <2>2, UndispatchedIff
    <3>2. PICK j \in Nat : Undispatched(k) = (j + 1)..sent[k] /\ sent[k] \in Nat
      BY <1>1, IntactAt
    <3> QED
      BY <1>3, <3>1, <3>2
  <2>3. \A c \in ConnId : \A i \in 1..Len(sock) : IsData(f, c) =>
           (IsData(sock[i], c) => sock[i].n < m) /\ ~IsEnd(sock[i], c)
    BY <1>5, <2>1, <2>2
  <2> QED
    BY <1>1, <1>4, <1>6, <2>3, PushOrder
<1>10. CloseAnnounced'
  BY <1>1, <1>2, <1>4, <1>5, <1>6, PushClose
<1>11. /\ \A c \in ConnId : Log(c)' = Log(c)
       /\ UNCHANGED <<got, eof, closed, peer>>
  BY <1>2 DEF Log, tables, app
<1>12. StreamIntact'
  <2> SUFFICES ASSUME NEW c \in ConnId
               PROVE  \E j \in 0..sent'[c] :
                         Counts(Log(c), j) /\ Undispatched(c)' = (j + 1)..sent'[c]
    BY <1>11 DEF StreamIntact
  <2>1. CASE c # k
    BY <1>1, <1>7, <1>8, <2>1 DEF StreamIntact
  <2>2. CASE c = k
    <3>1. PICK j \in Nat : /\ j <= sent[k] /\ sent[k] \in Nat
                           /\ Counts(Log(k), j) /\ Undispatched(k) = (j + 1)..sent[k]
      BY <1>1, IntactAt
    <3>2. j \in 0..m /\ ((j + 1)..sent[k]) \cup {m} = (j + 1)..m
      BY <1>3, <3>1
    <3> QED
      BY <1>7, <1>8, <2>2, <3>1, <3>2
  <2> QED
    BY <2>1, <2>2
<1>13. Exact'
  BY <1>11 DEF DataInv, Exact
<1>14. MarkerLast'
  <2> SUFFICES ASSUME ~closed, NEW c \in ConnId
               PROVE  /\ \A i \in 1..Len(Log(c)) : Log(c)[i] = EOF =>
                            /\ peer[c] = "closed" /\ Undispatched(c)' = {}
                            /\ \A j \in i..Len(Log(c)) : Log(c)[j] = EOF
                      /\ eof[c] =>
                            /\ peer[c] = "closed" /\ Undispatched(c)' = {}
                            /\ \A i \in (Len(got[c]) + 1)..Len(Log(c)) : Log(c)[i] = EOF
    BY <1>11 DEF MarkerLast
  <2>1. peer[c] = "closed" => Undispatched(c)' = Undispatched(c)
    BY <1>2, <1>7
  <2> QED
    BY <2>1 DEF DataInv, MarkerLast
<1> QED
  BY <1>9, <1>10, <1>12, <1>13, <1>14 DEF DataInv

(* The reader dispatches data: it is the next number of its connection.    *)
LEMMA DataReceived ==
    ASSUME StreamInv, DataInv, RecvFrame
    PROVE  DataInv'
<1>1. /\ TypeOK /\ Tables /\ SockOrder /\ CloseAnnounced /\ StreamIntact /\ Exact
      /\ MarkerLast
  BY DEF StreamInv, DataInv
<1>2. /\ sock # <<>> /\ Head(sock).type = "recv" /\ sock' = Tail(sock)
      /\ Enqueue(Head(sock).id, Head(sock).n)
      /\ UNCHANGED <<peer, sent, got, eof, closed>>
  BY DEF RecvFrame, Incoming, Dispatched
<1>3. Head(sock) \in Frame
  BY <1>1, <1>2, PopFacts
<1>4. PICK k \in ConnId : k = Head(sock).id
  BY <1>2, <1>3, FrameFacts
<1>5. PICK x \in 0..MaxFrames : x = Head(sock).n
  BY <1>3, FrameFacts
<1>6. \A c \in ConnId : IsData(Head(sock), c) <=> c = k
  BY <1>2, <1>4 DEF IsData
<1>7. /\ SockOrder' /\ CloseAnnounced'
      /\ \A c \in ConnId : c # k => Undispatched(c)' = Undispatched(c)
      /\ Undispatched(k) = {x} \cup Undispatched(k)'
      /\ \A y \in Undispatched(k)' : x < y
  BY <1>1, <1>2, <1>5, <1>6, PopData
<1>8. /\ Log(k)' = Append(Log(k), x)
      /\ \A c \in ConnId : c # k => Log(c)' = Log(c)
  BY <1>1, <1>2, <1>4, <1>5, LogEnqueue
<1>9. PICK j \in Nat : /\ j <= sent[k] /\ sent[k] \in Nat /\ sent[k] <= MaxFrames
                       /\ Counts(Log(k), j) /\ Undispatched(k) = (j + 1)..sent[k]
  BY <1>1, IntactAt
<1>10. x = j + 1 /\ j + 1 <= sent[k] /\ Undispatched(k)' = (j + 2)..sent[k]
  <2>1. x \in (j + 1)..sent[k]
    BY <1>7, <1>9
  <2>2. j + 1 \in (j + 1)..sent[k]
    BY <1>9, <2>1
  <2>3. j + 1 = x \/ x < j + 1
    BY <1>7, <1>9, <2>2
  <2>4. x = j + 1
    BY <1>9, <2>1, <2>3
  <2>5. x \notin Undispatched(k)'
    BY <1>7
  <2>6. Undispatched(k)' = ((j + 1)..sent[k]) \ {x}
    BY <1>7, <1>9, <2>5
  <2>7. ((j + 1)..sent[k]) \ {j + 1} = (j + 2)..sent[k]
    BY <1>9
  <2> QED
    BY <1>9, <2>1, <2>4, <2>6, <2>7
<1>11. StreamIntact'
  <2> SUFFICES ASSUME NEW c \in ConnId
               PROVE  \E i \in 0..sent[c] :
                         Counts(Log(c)', i) /\ Undispatched(c)' = (i + 1)..sent[c]
    BY <1>2 DEF StreamIntact
  <2>1. CASE c # k
    BY <1>1, <1>7, <1>8, <2>1 DEF StreamIntact
  <2>2. CASE c = k
    <3>1. Log(k) \in Seq(0..MaxFrames)
      BY <1>1, LogType
    <3>2. j + 1 \in 0..MaxFrames /\ j + 1 \in 0..sent[k] /\ (j + 1) + 1 = j + 2
      BY <1>5, <1>9, <1>10
    <3>3. Counts(Append(Log(k), j + 1), j + 1)
      BY <1>9, <3>1, <3>2, CountsAppend
    <3> QED
      BY <1>8, <1>10, <2>2, <3>2, <3>3
  <2> QED
    BY <2>1, <2>2
<1>12. Exact'
  BY <1>1, <1>2 DEF Exact
<1>13. MarkerLast'
  <2> SUFFICES ASSUME ~closed, NEW c \in ConnId
               PROVE  /\ \A i \in 1..Len(Log(c)') : Log(c)'[i] = EOF =>
                            /\ peer[c] = "closed" /\ Undispatched(c)' = {}
                            /\ \A m \in i..Len(Log(c)') : Log(c)'[m] = EOF
                      /\ eof[c] =>
                            /\ peer[c] = "closed" /\ Undispatched(c)' = {}
                            /\ \A i \in (Len(got[c]) + 1)..Len(Log(c)') : Log(c)'[i] = EOF
    BY <1>2 DEF MarkerLast
  <2>1. CASE c # k
    BY <1>1, <1>7, <1>8, <2>1 DEF MarkerLast
  <2>2. CASE c = k
    <3>1. Undispatched(k) # {} /\ x # EOF
      BY <1>7, <1>10 DEF EOF
    <3>2. ~eof[k] /\ \A i \in 1..Len(Log(k)) : Log(k)[i] # EOF
      BY <1>1, <3>1 DEF MarkerLast
    <3>3. Log(k) \in Seq(0..MaxFrames)
      BY <1>1, LogType
    <3>4. \A i \in 1..Len(Append(Log(k), x)) : Append(Log(k), x)[i] # EOF
      BY <3>1, <3>2, <3>3, ItemLast
    <3> QED
      BY <1>8, <2>2, <3>2, <3>4
  <2> QED
    BY <2>1, <2>2
<1> QED
  BY <1>7, <1>11, <1>12, <1>13 DEF DataInv

(* The reader dispatches the end of a stream: nothing of it is left on the *)
(* socket, and the marker comes last.                                      *)
LEMMA DataClosed ==
    ASSUME StreamInv, DataInv, CloseOkFrame
    PROVE  DataInv'
<1>1. /\ TypeOK /\ Tables /\ SockOrder /\ CloseAnnounced /\ StreamIntact /\ Exact
      /\ MarkerLast
  BY DEF StreamInv, DataInv
<1>2. /\ sock # <<>> /\ Head(sock).type = "close_ok" /\ sock' = Tail(sock)
      /\ Enqueue(Head(sock).id, EOF)
      /\ UNCHANGED <<peer, sent, got, eof, closed>>
  BY DEF CloseOkFrame, Incoming, Dispatched
<1>3. Head(sock) \in Frame /\ EOF \in 0..MaxFrames
  BY <1>1, <1>2, PopFacts, FrameFacts DEF EOF
<1>4. PICK k \in ConnId : k = Head(sock).id
  BY <1>2, <1>3, FrameFacts
<1>5. \A c \in ConnId : ~IsData(Head(sock), c) /\ (IsEnd(Head(sock), c) <=> c = k)
  BY <1>2, <1>4 DEF IsData, IsEnd
<1>6. /\ SockOrder' /\ CloseAnnounced'
      /\ \A c \in ConnId : Undispatched(c)' = Undispatched(c)
      /\ peer[k] = "closed" /\ Undispatched(k)' = {}
  BY <1>1, <1>2, <1>5, PopData
<1>7. /\ Log(k)' = Append(Log(k), EOF)
      /\ \A c \in ConnId : c # k => Log(c)' = Log(c)
  BY <1>1, <1>2, <1>3, <1>4, LogEnqueue
<1>8. Log(k) \in Seq(0..MaxFrames)
  BY <1>1, LogType
<1>9. StreamIntact'
  <2> SUFFICES ASSUME NEW c \in ConnId
               PROVE  \E i \in 0..sent[c] :
                         Counts(Log(c)', i) /\ Undispatched(c)' = (i + 1)..sent[c]
    BY <1>2 DEF StreamIntact
  <2>1. CASE c # k
    BY <1>1, <1>6, <1>7, <2>1 DEF StreamIntact
  <2>2. CASE c = k
    <3>1. PICK j \in Nat : /\ j <= sent[k] /\ sent[k] \in Nat
                           /\ Counts(Log(k), j) /\ Undispatched(k) = (j + 1)..sent[k]
      BY <1>1, IntactAt
    <3>2. Counts(Append(Log(k), EOF), j) /\ j \in 0..sent[k]
      BY <1>8, <3>1, CountsAppend
    <3> QED
      BY <1>6, <1>7, <2>2, <3>1, <3>2
  <2> QED
    BY <2>1, <2>2
<1>10. Exact'
  BY <1>1, <1>2 DEF Exact
<1>11. MarkerLast'
  <2> SUFFICES ASSUME ~closed, NEW c \in ConnId
               PROVE  /\ \A i \in 1..Len(Log(c)') : Log(c)'[i] = EOF =>
                            /\ peer[c] = "closed" /\ Undispatched(c)' = {}
                            /\ \A m \in i..Len(Log(c)') : Log(c)'[m] = EOF
                      /\ eof[c] =>
                            /\ peer[c] = "closed" /\ Undispatched(c)' = {}
                            /\ \A i \in (Len(got[c]) + 1)..Len(Log(c)') : Log(c)'[i] = EOF
    BY <1>2 DEF MarkerLast
  <2>1. CASE c # k
    BY <1>1, <1>6, <1>7, <2>1 DEF MarkerLast
  <2>2. CASE c = k
    <3>1. PICK s \in Seq(0..MaxFrames) : s = Log(k)
      BY <1>8
    <3>2. PICK r : r = Append(s, EOF)
      OBVIOUS
    <3>3. /\ Len(r) = Len(s) + 1 /\ Len(s) \in Nat /\ r[Len(s) + 1] = EOF
          /\ \A i \in 1..Len(s) : r[i] = s[i]
      BY <1>3, <3>2, ItemLast
    <3>4. /\ \A i \in 1..Len(s) : s[i] = EOF => \A m \in i..Len(s) : s[m] = EOF
          /\ eof[k] => \A i \in (Len(got[k]) + 1)..Len(s) : s[i] = EOF
      BY <1>1, <3>1 DEF MarkerLast
    <3>5. Len(got[k]) \in Nat
      BY <1>1, LogType, LenProperties
    <3>6. ASSUME NEW i \in 1..Len(r), r[i] = EOF, NEW m \in i..Len(r) PROVE r[m] = EOF
      <4>1. m = Len(s) + 1 \/ (m \in 1..Len(s) /\ i \in 1..Len(s) /\ m \in i..Len(s))
        BY <3>3
      <4> QED
        BY <3>3, <3>4, <3>6, <4>1
    <3>7. ASSUME eof[k], NEW i \in (Len(got[k]) + 1)..Len(r) PROVE r[i] = EOF
      <4>1. i = Len(s) + 1 \/ (i \in 1..Len(s) /\ i \in (Len(got[k]) + 1)..Len(s))
        BY <3>3, <3>5
      <4> QED
        BY <3>3, <3>4, <3>7, <4>1
    <3>8. Log(c)' = r
      BY <1>7, <2>2, <3>1, <3>2
    <3> QED
      BY <1>6, <2>2, <3>6, <3>7, <3>8
  <2> QED
    BY <2>1, <2>2
<1> QED
  BY <1>6, <1>9, <1>10, <1>11 DEF DataInv

(* The reader dispatches a frame that is not about the data of a stream.   *)
LEMMA DataAside ==
    ASSUME StreamInv, DataInv, AcceptFrame \/ DialOkFrame \/ BindOkFrame
    PROVE  DataInv'
<1>1. TypeOK /\ SockOrder /\ CloseAnnounced
  BY DEF StreamInv, DataInv
<1>2. /\ sock # <<>> /\ Head(sock).type \in {"accept", "dial_ok", "bind_ok"}
      /\ sock' = Tail(sock)
      /\ UNCHANGED <<peer, sent, got, recvQ, pending, eof, closed>>
  BY DEF AcceptFrame, DialOkFrame, BindOkFrame, Incoming, Dispatched, tables, app
<1>3. \A c \in ConnId : ~IsData(Head(sock), c)
  BY <1>2 DEF IsData
<1>4. /\ SockOrder' /\ CloseAnnounced'
      /\ \A c \in ConnId : Undispatched(c)' = Undispatched(c)
  BY <1>1, <1>2, <1>3, PopData
<1>5. \A c \in ConnId : Log(c)' = Log(c)
  BY <1>2 DEF Log
<1> QED
  BY <1>2, <1>4, <1>5, DataKeep

(* Steps that touch neither the socket nor what is read or queued.         *)
LEMMA DataAlone ==
    ASSUME DataInv, UNCHANGED <<sock, peer, sent, got, recvQ, pending, eof>>,
           closed => closed'
    PROVE  DataInv'
<1>1. SockOrder' /\ CloseAnnounced'
  BY DEF DataInv, SockOrder, CloseAnnounced, IsData, IsEnd
<1>2. \A c \in ConnId : Log(c)' = Log(c) /\ Undispatched(c)' = Undispatched(c)
  BY DEF Log, Undispatched, IsData
<1> QED
  BY <1>1, <1>2, DataKeep

(* A Stream is made: what came early becomes its queue.                    *)
LEMMA DataRegister ==
    ASSUME StreamInv, DataInv, NEW k \in ConnId, stream[k] = "none", Register(k),
           UNCHANGED <<sock, peer, sent, got, eof, closed>>
    PROVE  DataInv'
<1>1. \A c \in ConnId : Log(c)' = Log(c)
  BY LogRegister DEF StreamInv
<1>2. SockOrder' /\ CloseAnnounced'
  BY DEF DataInv, SockOrder, CloseAnnounced, IsData, IsEnd
<1>3. \A c \in ConnId : Undispatched(c)' = Undispatched(c)
  BY DEF Undispatched, IsData
<1> QED
  BY <1>1, <1>2, <1>3, DataKeep

(* The application reads: data in order, and an end marker only after them.*)
LEMMA DataRead ==
    ASSUME StreamInv, DataInv, NEW k \in ConnId, Read(k)
    PROVE  DataInv'
<1>1. /\ TypeOK /\ SockOrder /\ CloseAnnounced /\ StreamIntact /\ Exact /\ MarkerLast
  BY DEF StreamInv, DataInv
<1>2. /\ ~eof[k] /\ UNCHANGED <<sock, peer, sent, closed>>
      /\ Head(recvQ[k]) # EOF => eof' = eof
      /\ \A c \in ConnId : c # k => eof'[c] = eof[c]
  BY <1>1 DEF Read, daemon, life, TypeOK
<1>3. PICK q : q = recvQ[k] \o pending[k]
  OBVIOUS
<1>4. /\ q \in Seq(0..MaxFrames) /\ q # <<>> /\ Head(q) = Head(recvQ[k])
      /\ Log(k) = got[k] \o q
      /\ Head(q) # EOF => Log(k)' = Log(k) /\ got'[k] = Append(got[k], Head(q))
      /\ Head(q) = EOF => Log(k)' = got[k] \o Tail(q) /\ got'[k] = got[k]
      /\ \A c \in ConnId : c # k => Log(c)' = Log(c) /\ got'[c] = got[c]
  BY <1>1, <1>3, LogRead
<1>5. PICK a \in Seq(0..MaxFrames) : a = got[k]
  BY <1>1, LogType
<1>6. PICK s \in Seq(0..MaxFrames) : s = a \o q
  BY <1>1, <1>4, <1>5, LogType
<1>7. PICK n \in Nat : n = Len(a)
  BY LenProperties
<1>8. PICK l \in Nat : l = Len(s)
  BY LenProperties
<1>9. /\ l = n + Len(q) /\ n + 1 \in 1..l /\ s[n + 1] = Head(q)
      /\ Len(a \o Tail(q)) = l - 1
      /\ \A i \in 1..(l - 1) : (a \o Tail(q))[i] = IF i <= n THEN s[i] ELSE s[i + 1]
  BY <1>4, <1>6, <1>7, <1>8, DropHead
<1>10. \A i \in 1..n : s[i] = i /\ a[i] = i
  <2>1. \A i \in 1..n : s[i] = a[i]
    BY <1>4, <1>6, <1>7, JoinFirst
  <2>2. \A i \in 1..n : a[i] = i
    BY <1>1, <1>5, <1>7 DEF Exact
  <2> QED
    BY <2>1, <2>2
<1>11. PICK j \in Nat : /\ j <= sent[k] /\ sent[k] \in Nat
                        /\ Counts(s, j) /\ Undispatched(k) = (j + 1)..sent[k]
  BY <1>1, <1>4, <1>5, <1>6, IntactAt
<1>12. SockOrder' /\ CloseAnnounced'
  BY <1>1, <1>2 DEF SockOrder, CloseAnnounced, IsData, IsEnd
<1>13. \A c \in ConnId : Undispatched(c)' = Undispatched(c)
  BY <1>2 DEF Undispatched, IsData
<1>14. StreamIntact'
  <2> SUFFICES ASSUME NEW c \in ConnId
               PROVE  \E i \in 0..sent[c] :
                         Counts(Log(c)', i) /\ Undispatched(c) = (i + 1)..sent[c]
    BY <1>2, <1>13 DEF StreamIntact
  <2>1. CASE c # k
    BY <1>1, <1>4, <2>1 DEF StreamIntact
  <2>2. CASE c = k
    <3>1. Counts(Log(k)', j)
      <4>1. CASE Head(q) = EOF
        BY <1>4, <1>5, <1>6, <1>11, <4>1, CountsDrop
      <4>2. CASE Head(q) # EOF
        BY <1>4, <1>5, <1>6, <1>11, <4>2
      <4> QED
        BY <4>1, <4>2
    <3>2. j \in 0..sent[k]
      BY <1>11
    <3> QED
      BY <1>11, <2>2, <3>1, <3>2
  <2> QED
    BY <2>1, <2>2
<1>15. Exact'
  <2> SUFFICES ASSUME NEW c \in ConnId, NEW i \in 1..Len(got'[c]) PROVE got'[c][i] = i
    BY DEF Exact
  <2>1. CASE c # k
    BY <1>1, <1>4, <2>1 DEF Exact
  <2>2. CASE c = k /\ Head(q) = EOF
    BY <1>4, <1>5, <1>7, <1>10, <2>2
  <2>3. CASE c = k /\ Head(q) # EOF
    <3>1. PICK x \in 0..MaxFrames : x = Head(q)
      BY <1>4, HeadTailProperties
    <3>2. x = n + 1
      BY <1>8, <1>9, <1>10, <1>11, <2>3, <3>1, NextInOrder
    <3>3. got'[k] = Append(a, x)
      BY <1>4, <1>5, <2>3, <3>1
    <3>4. /\ Len(Append(a, x)) = n + 1 /\ Append(a, x)[n + 1] = x
          /\ \A m \in 1..n : Append(a, x)[m] = a[m]
      BY <1>7, ItemLast
    <3>5. i \in 1..n \/ i = n + 1
      BY <2>3, <3>3, <3>4
    <3> QED
      BY <1>10, <2>3, <3>2, <3>3, <3>4, <3>5
  <2> QED
    BY <2>1, <2>2, <2>3
<1>16. MarkerLast'
  <2> SUFFICES ASSUME ~closed, NEW c \in ConnId
               PROVE  /\ \A i \in 1..Len(Log(c)') : Log(c)'[i] = EOF =>
                            /\ peer[c] = "closed" /\ Undispatched(c) = {}
                            /\ \A m \in i..Len(Log(c)') : Log(c)'[m] = EOF
                      /\ eof'[c] =>
                            /\ peer[c] = "closed" /\ Undispatched(c) = {}
                            /\ \A i \in (Len(got'[c]) + 1)..Len(Log(c)') : Log(c)'[i] = EOF
    BY <1>2, <1>13 DEF MarkerLast
  <2>1. CASE c # k
    BY <1>1, <1>2, <1>4, <2>1 DEF MarkerLast
  <2>2. CASE c = k /\ Head(q) # EOF
    <3>1. Log(c)' = Log(c) /\ ~eof'[c]
      BY <1>2, <1>4, <2>2
    <3> QED
      BY <1>1, <3>1 DEF MarkerLast
  <2>3. CASE c = k /\ Head(q) = EOF
    <3>1. PICK r : r = a \o Tail(q)
      OBVIOUS
    <3>2. Log(k)' = r /\ got'[k] = a
      BY <1>4, <1>5, <2>3, <3>1
    <3>3. /\ peer[k] = "closed" /\ Undispatched(k) = {}
          /\ \A m \in (n + 1)..l : s[m] = EOF
      <4>1. s = Log(k) /\ n + 1 \in 1..Len(s) /\ s[n + 1] = EOF
        BY <1>4, <1>5, <1>6, <1>8, <1>9, <2>3
      <4> QED
        BY <1>1, <1>8, <4>1 DEF MarkerLast
    <3>4. \A i \in 1..n : s[i] # EOF
      BY <1>10 DEF EOF
    <3>5. ASSUME NEW i \in 1..Len(r), ~(i <= n) PROVE r[i] = EOF
      <4>1. i \in 1..(l - 1) /\ i + 1 \in (n + 1)..l
        BY <1>9, <3>1, <3>5
      <4>2. r[i] = s[i + 1]
        BY <1>9, <3>1, <3>5, <4>1
      <4> QED
        BY <3>3, <4>1, <4>2
    <3>6. ASSUME NEW i \in 1..Len(r), r[i] = EOF PROVE ~(i <= n)
      <4>1. i \in 1..(l - 1)
        BY <1>9, <3>1
      <4>2. i <= n => r[i] = s[i] /\ i \in 1..n
        BY <1>9, <3>1, <4>1
      <4> QED
        BY <3>4, <3>6, <4>2
    <3>7. Len(r) \in Nat
      BY <1>9, <3>1
    <3>8. ASSUME NEW i \in 1..Len(r), r[i] = EOF, NEW m \in i..Len(r) PROVE r[m] = EOF
      <4>1. ~(i <= n)
        BY <3>6, <3>8
      <4>2. m \in 1..Len(r) /\ ~(m <= n)
        BY <3>7, <4>1
      <4> QED
        BY <3>5, <4>2
    <3>9. \A i \in (Len(a) + 1)..Len(r) : r[i] = EOF
      <4>1. \A i \in (n + 1)..Len(r) : i \in 1..Len(r) /\ ~(i <= n)
        BY <3>7
      <4> QED
        BY <1>7, <3>5, <4>1
    <3> QED
      BY <2>3, <3>2, <3>3, <3>8, <3>9
  <2> QED
    BY <2>1, <2>2, <2>3
<1> QED
  BY <1>12, <1>14, <1>15, <1>16 DEF DataInv

(* The end of the connection marks the registered queues.                  *)
LEMMA DataMarked ==
    ASSUME StreamInv, DataInv, EndMarkers, closed',
           UNCHANGED <<sock, peer, sent, got, pending, eof>>
    PROVE  DataInv'
<1>1. TypeOK /\ Tables /\ SockOrder /\ CloseAnnounced /\ StreamIntact /\ Exact
  BY DEF StreamInv, DataInv
<1>2. SockOrder' /\ CloseAnnounced'
  BY <1>1 DEF SockOrder, CloseAnnounced, IsData, IsEnd
<1>3. \A c \in ConnId : Undispatched(c)' = Undispatched(c)
  BY DEF Undispatched, IsData
<1>4. StreamIntact'
  <2> SUFFICES ASSUME NEW c \in ConnId
               PROVE  \E i \in 0..sent[c] :
                         Counts(Log(c)', i) /\ Undispatched(c) = (i + 1)..sent[c]
    BY <1>3 DEF StreamIntact
  <2>1. PICK j \in Nat : /\ j <= sent[c] /\ sent[c] \in Nat
                         /\ Counts(Log(c), j) /\ Undispatched(c) = (j + 1)..sent[c]
    BY <1>1, IntactAt
  <2>2. Log(c) \in Seq(0..MaxFrames)
    BY <1>1, LogType
  <2>3. Counts(Append(Log(c), EOF), j)
    BY <2>1, <2>2, CountsAppend
  <2>4. Log(c)' = Log(c) \/ Log(c)' = Append(Log(c), EOF)
    BY <1>1, LogMarked
  <2>5. Counts(Log(c)', j)
    BY <2>1, <2>3, <2>4
  <2>6. j \in 0..sent[c]
    BY <2>1
  <2> QED
    BY <2>1, <2>5, <2>6
<1>5. Exact'
  BY <1>1 DEF Exact
<1>6. MarkerLast'
  BY DEF MarkerLast
<1> QED
  BY <1>2, <1>4, <1>5, <1>6 DEF DataInv

LEMMA DataInvInit == Init => DataInv
<1> SUFFICES ASSUME Init PROVE DataInv
  OBVIOUS
<1>1. \A c \in ConnId : /\ Undispatched(c) = {} /\ Log(c) = <<>>
                        /\ sent[c] = 0 /\ got[c] = <<>> /\ ~eof[c]
  BY ConcatEmptySeq, EmptySeq DEF Init, Undispatched, Log
<1>2. Counts(<<>>, 0)
  BY DEF Counts
<1>3. StreamIntact
  <2>1. (0 + 1)..0 = {} /\ 0 \in 0..0
    OBVIOUS
  <2>2. \A c \in ConnId : /\ 0 \in 0..sent[c] /\ Counts(Log(c), 0)
                          /\ Undispatched(c) = (0 + 1)..sent[c]
    BY <1>1, <1>2, <2>1
  <2> QED
    BY <2>2 DEF StreamIntact
<1>4. SockOrder /\ CloseAnnounced
  BY DEF Init, SockOrder, CloseAnnounced
<1>5. Exact /\ MarkerLast
  BY <1>1 DEF Exact, MarkerLast
<1> QED
  BY <1>3, <1>4, <1>5 DEF DataInv

LEMMA DataInvStep == StreamInv /\ DataInv /\ [Next]_vars => DataInv'
<1> SUFFICES ASSUME StreamInv, DataInv, [Next]_vars PROVE DataInv'
  OBVIOUS
<1>1. ASSUME NEW d \in Dialer, DialResume(d) PROVE DataInv'
  <2>1. PICK k \in ConnId : k = dialId[d] /\ stream[k] = "none"
    BY <1>1, OneResumed DEF StreamInv
  <2>2. Register(k) /\ UNCHANGED <<sock, peer, sent, got, eof, closed>>
    BY <1>1, <2>1 DEF DialResume, daemon, life
  <2> QED
    BY <2>1, <2>2, DataRegister
<1>2. CASE Accept
  <2>1. PICK k \in ConnId : k = Head(acceptQ) /\ stream[k] = "none"
    BY <1>2, OneTaken DEF StreamInv
  <2>2. Register(k) /\ UNCHANGED <<sock, peer, sent, got, eof, closed>>
    BY <1>2, <2>1 DEF Accept, daemon, life
  <2> QED
    BY <2>1, <2>2, DataRegister
<1>3. ASSUME NEW k \in ConnId, DaemonStep(k) PROVE DataInv'
  <2>1. CASE DaemonData(k)
    BY <2>1, DataSent
  <2>2. CASE DaemonDialOk(k) \/ DaemonAccept(k)
    <3>1. PICK t \in {"dial_ok", "accept"} : Push(t, k, 0)
      BY <2>2 DEF DaemonDialOk, DaemonAccept
    <3>2. PICK f \in Frame : f = [type |-> t, id |-> k, n |-> 0]
      BY FrameFacts
    <3>3. /\ peer[k] = "unused" /\ peer' = [peer EXCEPT ![k] = "open"]
          /\ UNCHANGED <<sent, tables, app, closed>>
      BY <2>2 DEF DaemonDialOk, DaemonAccept, life
    <3>4. \A c \in ConnId : peer[c] = "closed" => peer'[c] = "closed"
      BY <3>3 DEF StreamInv, TypeOK
    <3> QED
      BY <3>1, <3>2, <3>3, <3>4, DataOther
  <2>3. CASE DaemonRemoteClose(k) \/ DaemonCloseOk(k)
    <3>1. /\ Push("close_ok", k, 0) /\ peer' = [peer EXCEPT ![k] = "closed"]
          /\ UNCHANGED <<sent, tables, app, closed>>
      BY <2>3 DEF DaemonRemoteClose, DaemonCloseOk, life
    <3> QED
      BY <3>1, DataEnds
  <2> QED
    BY <1>3, <2>1, <2>2, <2>3 DEF DaemonStep
<1>4. CASE DaemonBindOk
  <2>1. Push("bind_ok", NoConn, 0) /\ UNCHANGED <<peer, sent, tables, app, closed>>
    BY <1>4 DEF DaemonBindOk, life
  <2>2. PICK f \in Frame : f = [type |-> "bind_ok", id |-> NoConn, n |-> 0]
    BY FrameFacts
  <2> QED
    BY <2>1, <2>2, DataOther
<1>5. ASSUME NEW k \in ConnId, Read(k) PROVE DataInv'
  BY <1>5, DataRead
<1>6. CASE RecvFrame
  BY <1>6, DataReceived
<1>7. CASE CloseOkFrame
  BY <1>7, DataClosed
<1>8. CASE AcceptFrame \/ DialOkFrame \/ BindOkFrame
  BY <1>8, DataAside
<1>9. CASE Sweep \/ ForceClose
  <2>1. /\ EndMarkers /\ UNCHANGED <<sock, peer, sent, got, pending, eof>>
        /\ closed'
    BY <1>9 DEF Sweep, ForceClose, daemon, tables, StreamInv
  <2> QED
    BY <2>1, DataMarked
<1>10. CASE /\ UNCHANGED <<sock, peer, sent, got, recvQ, pending, eof>>
            /\ closed => closed'
  BY <1>10, DataAlone
<1>11. \/ \E d \in Dialer : DialResume(d)
       \/ \E c \in ConnId : DaemonStep(c) \/ Read(c)
       \/ DaemonBindOk \/ Accept
       \/ RecvFrame \/ CloseOkFrame \/ AcceptFrame \/ DialOkFrame \/ BindOkFrame
       \/ Sweep \/ ForceClose
       \/ /\ UNCHANGED <<sock, peer, sent, got, recvQ, pending, eof>>
          /\ closed => closed'
  BY DEF Next, Dial, DialTimeout, Listen, ListenResume, ListenerClose, StreamClose,
         StreamCloseEnd, ReadLoop, UserClose, ReaderExit, WriterClosed, CloseBegin,
         vars, daemon, tables, app, life
<1> QED
  BY <1>1, <1>2, <1>3, <1>4, <1>5, <1>6, <1>7, <1>8, <1>9, <1>10, <1>11

(* Whatever the order in which answers, data, registrations, reads and     *)
(* closes meet in the read loop, the application gets the data of every    *)
(* stream once and in order: nothing that came before dial() or accept()   *)
(* registered its queue is lost, repeated or overtaken.                    *)
THEOREM StreamsAreIntact == Spec => []StreamIntact
<1>1. DataInv => StreamIntact
  BY DEF DataInv
<1> QED
  BY <1>1, StreamInvInit, StreamInvStep, DataInvInit, DataInvStep, PTL DEF Spec

(* A log whose first n items are 1..n and whose others are end markers     *)
(* holds n data.                                                           *)
LEMMA CountsAll ==
    ASSUME NEW s \in Seq(0..MaxFrames), NEW k \in Nat, Counts(s, k), NEW n \in Nat,
           n <= Len(s), \A i \in 1..n : s[i] = i, \A i \in (n + 1)..Len(s) : s[i] = EOF
    PROVE  n = k
<1>1. /\ \A i \in 1..Len(s) : s[i] # EOF => s[i] \in 1..k
      /\ \A m \in 1..k : \E i \in 1..Len(s) : s[i] = m
  BY CountsIff
<1>2. Len(s) \in Nat
  BY LenProperties
<1>3. n <= k
  <2>1. CASE n = 0
    BY <2>1
  <2>2. CASE n # 0
    <3>1. n \in 1..n /\ n \in 1..Len(s)
      BY <1>2, <2>2
    <3>2. s[n] = n /\ s[n] # EOF
      BY <2>2, <3>1 DEF EOF
    <3>3. n \in 1..k
      BY <1>1, <3>1, <3>2
    <3> QED
      BY <3>3
  <2> QED
    BY <2>1, <2>2
<1>4. ASSUME n < k PROVE FALSE
  <2>1. k \in 1..k /\ k # EOF
    BY <1>4 DEF EOF
  <2>2. PICK i \in 1..Len(s) : s[i] = k
    BY <1>1, <2>1
  <2>3. i \in 1..n \/ i \in (n + 1)..Len(s)
    BY <1>2
  <2>4. CASE i \in 1..n
    BY <1>4, <2>2, <2>4
  <2>5. CASE i \in (n + 1)..Len(s)
    BY <2>1, <2>2, <2>5
  <2> QED
    BY <2>3, <2>4, <2>5
<1> QED
  BY <1>3, <1>4

(* While the connection is up, read() returns b'' only after the daemon    *)
(* has ended the stream and every frame it sent for it has been read.      *)
THEOREM EofIsComplete == Spec => []EofMeansComplete
<1>1. StreamInv /\ DataInv => EofMeansComplete
  <2> SUFFICES ASSUME StreamInv, DataInv, NEW c \in ConnId, eof[c], ~closed
               PROVE  peer[c] = "closed" /\ Len(got[c]) = sent[c]
    BY DEF EofMeansComplete
  <2>1. TypeOK /\ StreamIntact /\ Exact
    BY DEF StreamInv, DataInv
  <2>2. /\ peer[c] = "closed" /\ Undispatched(c) = {}
        /\ \A i \in (Len(got[c]) + 1)..Len(Log(c)) : Log(c)[i] = EOF
    BY DEF DataInv, MarkerLast
  <2>3. PICK j \in Nat : /\ j <= sent[c] /\ sent[c] \in Nat
                         /\ Counts(Log(c), j) /\ Undispatched(c) = (j + 1)..sent[c]
    BY <2>1, IntactAt
  <2>4. j = sent[c]
    <3>1. j < sent[c] => j + 1 \in (j + 1)..sent[c]
      BY <2>3
    <3> QED
      BY <2>2, <2>3, <3>1
  <2>5. /\ got[c] \in Seq(0..MaxFrames) /\ recvQ[c] \o pending[c] \in Seq(0..MaxFrames)
        /\ Log(c) \in Seq(0..MaxFrames)
    BY <2>1, LogType
  <2>6. PICK n \in Nat : n = Len(got[c])
    BY <2>5, LenProperties
  <2>7. n <= Len(Log(c)) /\ \A i \in 1..n : Log(c)[i] = got[c][i]
    <3>1. PICK q \in Seq(0..MaxFrames) : q = recvQ[c] \o pending[c]
      BY <2>5
    <3>2. Log(c) = got[c] \o q
      BY <3>1 DEF Log
    <3> QED
      BY <2>5, <2>6, <3>2, JoinFirst
  <2>8. \A i \in 1..n : Log(c)[i] = i
    BY <2>1, <2>6, <2>7 DEF Exact
  <2>9. n = j
    BY <2>2, <2>3, <2>5, <2>6, <2>7, <2>8, CountsAll
  <2> QED
    BY <2>2, <2>4, <2>6, <2>9
<1> QED
  BY <1>1, StreamInvInit, StreamInvStep, DataInvInit, DataInvStep, PTL DEF Spec
=============================================================================
