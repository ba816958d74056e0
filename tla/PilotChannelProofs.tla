------------------------- MODULE PilotChannelProofs -------------------------
(* Proofs about the event channel, for any number of events and faults.    *)
EXTENDS PilotChannel, SequenceTheorems, TLAPS

(***************************************************************************)
(* The inductive invariant                                                 *)
(***************************************************************************)

\* Where the task, the subscription and the close can be together.
ControlInv ==
    /\ sub # "open" => /\ pc = "none" /\ closer = "no" /\ recv = "idle"
                       /\ buf = <<>> /\ ~heard
    /\ sub = "write" => wire = <<>>
    /\ auto /\ sub = "open" => pc # "none"
    /\ ~auto => pc = "none" /\ queue = <<>>
    /\ recv = "wait" => ~auto
    /\ pc = "done" => closed
    /\ cancel => pc \notin {"none", "done"}
    /\ pc \in {"sleep", "connect", "dial", "write"} => ~heard
    /\ pc = "write" => wire = <<>>
    /\ heard => stream = "open"

\* The connections: at most the current one is open, and none between the drop
\* of one and the next.
OpenInv ==
    /\ open \subseteq {conn}
    /\ sub \in {"connect", "failed"} \/ pc \in {"sleep", "connect"} => open = {}
    /\ closer = "done" => open = {} /\ pc \in {"none", "done"}

NoZero(b) == \A i \in 1..Len(b) : b[i] # 0

\* Each connection but the last has cost a fault: with none since the last one
\* was made, it is open, its stream is sound and the loop is not about to drop it.
ChargeInv ==
    /\ sub = "connect" => conn = 0
    /\ conn <= faults + 1
    /\ conn = faults + 1 =>
         /\ pc \notin {"drop", "sleep", "connect"}
         /\ pc \in {"start", "dial", "write", "read"} \/ sub \in {"dial", "write"} =>
                conn \in open
         /\ pc \in {"start", "write", "read"} \/ sub = "write" =>
                stream = "open" /\ NoZero(wire)
         /\ pc \in {"start", "read"} => NoZero(buf)

CInv == TypeOK /\ ControlInv /\ OpenInv /\ ChargeInv

-----------------------------------------------------------------------------
\* What the application and the pipe (the buffer and the wire behind it) hold.
\* The k-th head in p is at 2k - 1.  Behind a malformed one nothing is read.

Clean(p, k) == \A j \in 1..k : p[2 * j - 1] # 0

Heads(p) == {k \in 1..Len(p) : 2 * k - 1 <= Len(p)}

InLog(L, m) == \E j \in 1..Len(L) : L[j] = <<2 * m - 1, 2 * m>>

\* Item i of the log is a published event, behind all of its subscription.
LogItem(L, s, i) ==
    \E n \in 1..Len(s) :
        /\ L[i] = <<2 * n - 1, 2 * n>> /\ s[n] # 0
        /\ \A m \in 1..(n - 1) : s[m] = s[n] =>
               \E j \in 1..(i - 1) : L[j] = <<2 * m - 1, 2 * m>>

\* So is the k-th event of the pipe, counting those already in the log.
PipeItem(L, p, s, k) ==
    /\ \E n \in 1..Len(s) :
         /\ p[2 * k - 1] = 2 * n - 1 /\ s[n] # 0
         /\ 2 * k <= Len(p) => p[2 * k] = 2 * n
         /\ \A m \in 1..(n - 1) : s[m] = s[n] =>
                InLog(L, m) \/ \E j \in 1..(k - 1) : p[2 * j - 1] = 2 * m - 1
    /\ \A i \in 1..Len(L) : L[i][2] < p[2 * k - 1]
    /\ \A j \in 1..(k - 1) : p[2 * j - 1] < p[2 * k - 1]

Sound(L, p, s) ==
    /\ \A i \in 1..Len(L) : LogItem(L, s, i)
    /\ \A i, j \in 1..Len(L) : j < i => L[j][2] < L[i][2]
    /\ \A k \in Heads(p) : Clean(p, k) => PipeItem(L, p, s, k)

Pipe == buf \o wire

AllClean(p) == \A k \in Heads(p) : p[2 * k - 1] # 0

\* Nothing of subscription c is missing in the log and a pipe without garbage,
\* which ends with a whole event.
Whole(L, p, s, c) ==
    AllClean(p) =>
        /\ 2 * (Len(p) \div 2) = Len(p)
        /\ \A m \in 1..Len(s) : s[m] = c =>
               InLog(L, m) \/ \E j \in Heads(p) : p[2 * j - 1] = 2 * m - 1

DataInv ==
    /\ Sound(Log, Pipe, sentOn)
    /\ heard => conn > 0 /\ Whole(Log, Pipe, sentOn, conn)
    /\ \A m \in 1..Len(sentOn) : sentOn[m] <= conn
    /\ pc \in {"dial", "write"} \/ sub \in {"dial", "write"} =>
           conn > 0 /\ \A m \in 1..Len(sentOn) : sentOn[m] < conn

-----------------------------------------------------------------------------
(* Sequences *)

(* The two parts of a sequence cut behind its n-th element.                *)
LEMMA CutSeq ==
    ASSUME NEW S, NEW w \in Seq(S), NEW n \in 0..Len(w)
    PROVE  /\ SubSeq(w, 1, n) \in Seq(S) /\ Len(SubSeq(w, 1, n)) = n
           /\ \A i \in 1..n : SubSeq(w, 1, n)[i] = w[i]
           /\ SubSeq(w, n + 1, Len(w)) \in Seq(S)
           /\ Len(SubSeq(w, n + 1, Len(w))) = Len(w) - n
           /\ \A i \in 1..(Len(w) - n) : SubSeq(w, n + 1, Len(w))[i] = w[n + i]
<1>0. Len(w) \in Nat /\ n \in Nat /\ n <= Len(w) /\ \A i \in 1..Len(w) : w[i] \in S
  OBVIOUS
<1>1. /\ SubSeq(w, 1, n) \in Seq(S) /\ Len(SubSeq(w, 1, n)) = n
      /\ \A i \in 1..n : SubSeq(w, 1, n)[i] = w[i]
  BY <1>0
<1>2. /\ Len(SubSeq(w, n + 1, Len(w))) = Len(w) - n
      /\ \A i \in 1..(Len(w) - n) : SubSeq(w, n + 1, Len(w))[i] = w[n + i]
      /\ SubSeq(w, n + 1, Len(w)) \in Seq(S)
  BY <1>0
<1> QED
  BY <1>1, <1>2

(* The elements of two sequences one behind the other.                     *)
LEMMA JoinSeq ==
    ASSUME NEW S, NEW a \in Seq(S), NEW b \in Seq(S)
    PROVE  /\ a \o b \in Seq(S) /\ Len(a) \in Nat /\ Len(b) \in Nat
           /\ Len(a \o b) = Len(a) + Len(b)
           /\ \A i \in 1..Len(a) : (a \o b)[i] = a[i]
           /\ \A i \in 1..Len(b) : (a \o b)[Len(a) + i] = b[i]
  OBVIOUS

(* split_events: what it returns.                                          *)
LEMMA SplitEvents ==
    ASSUME NEW b \in Seq(Unit)
    PROVE  \E q \in Nat :
           /\ q = Len(b) \div 2 /\ 2 * q <= Len(b) /\ Len(b) <= 2 * q + 1
           /\ Events(b) \in Seq(Unit \X Unit) /\ Len(Events(b)) = q
           /\ \A i \in 1..q : Events(b)[i] = <<b[2 * i - 1], b[2 * i]>>
           /\ Leftover(b) \in Seq(Unit) /\ Len(Leftover(b)) = Len(b) - 2 * q
           /\ \A i \in 1..(Len(b) - 2 * q) : Leftover(b)[i] = b[2 * q + i]
<1>0. PICK q : q = Len(b) \div 2
  OBVIOUS
<1>1. Len(b) \in Nat /\ q \in Nat /\ 2 * q <= Len(b) /\ Len(b) <= 2 * q + 1
  BY <1>0
<1>2. \A i \in 1..q : 2 * i - 1 \in 1..Len(b) /\ 2 * i \in 1..Len(b)
  BY <1>1
<1>3. \A i \in 1..q : <<b[2 * i - 1], b[2 * i]>> \in Unit \X Unit
  BY <1>2
<1>4. Events(b) = [i \in 1..q |-> <<b[2 * i - 1], b[2 * i]>>]
  BY <1>0 DEF Events
<1>5. /\ Events(b) \in Seq(Unit \X Unit) /\ Len(Events(b)) = q
      /\ \A i \in 1..q : Events(b)[i] = <<b[2 * i - 1], b[2 * i]>>
  BY <1>1, <1>3, <1>4
<1>6. 2 * q \in 0..Len(b) /\ Leftover(b) = SubSeq(b, 2 * q + 1, Len(b))
  BY <1>0, <1>1 DEF Leftover
<1>7. PICK n \in 0..Len(b) : n = 2 * q /\ Leftover(b) = SubSeq(b, n + 1, Len(b))
  BY <1>6
<1>8. /\ Leftover(b) \in Seq(Unit) /\ Len(Leftover(b)) = Len(b) - n
      /\ \A i \in 1..(Len(b) - n) : Leftover(b)[i] = b[n + i]
  <2>1. /\ SubSeq(b, n + 1, Len(b)) \in Seq(Unit)
        /\ Len(SubSeq(b, n + 1, Len(b))) = Len(b) - n
        /\ \A i \in 1..(Len(b) - n) : SubSeq(b, n + 1, Len(b))[i] = b[n + i]
    BY CutSeq, Zenon
  <2> QED
    BY <1>7, <2>1, Zenon
<1> QED
  BY <1>0, <1>1, <1>5, <1>7, <1>8

(* recv() puts the events behind the first one back in front of the rest:  *)
(* what it leaves is the buffer without its first event.                   *)
LEMMA EncodedBack ==
    ASSUME NEW b \in Seq(Unit), Len(b) >= 2
    PROVE  Encoded(Tail(Events(b))) \o Leftover(b) = SubSeq(b, 3, Len(b))
<1>1. PICK q \in Nat :
      /\ q = Len(b) \div 2 /\ 2 * q <= Len(b) /\ Len(b) <= 2 * q + 1
      /\ Events(b) \in Seq(Unit \X Unit) /\ Len(Events(b)) = q
      /\ \A i \in 1..q : Events(b)[i] = <<b[2 * i - 1], b[2 * i]>>
      /\ Leftover(b) \in Seq(Unit) /\ Len(Leftover(b)) = Len(b) - 2 * q
      /\ \A i \in 1..(Len(b) - 2 * q) : Leftover(b)[i] = b[2 * q + i]
  BY SplitEvents, Zenon
<1> DEFINE t == Tail(Events(b))
           e == Encoded(t)
           r == SubSeq(b, 3, Len(b))
<1>2. q >= 1 /\ Len(b) \in Nat
  BY <1>1
<1>3. t \in Seq(Unit \X Unit) /\ Len(t) = q - 1 /\ \A i \in 1..(q - 1) : t[i] = Events(b)[i + 1]
  BY <1>1, <1>2, HeadTailProperties, EmptySeq
<1>4. \A i \in 1..(q - 1) : t[i] = <<b[2 * i + 1], b[2 * i + 2]>>
  <2> SUFFICES ASSUME NEW i \in 1..(q - 1) PROVE t[i] = <<b[2 * i + 1], b[2 * i + 2]>>
    OBVIOUS
  <2>1. i + 1 \in 1..q /\ 2 * (i + 1) - 1 = 2 * i + 1 /\ 2 * (i + 1) = 2 * i + 2
    BY <1>1, <1>2
  <2> QED
    BY <1>1, <1>2, <1>3, <2>1
<1> HIDE DEF t
<1>5. e = [i \in 1..(2 * (q - 1)) |->
              IF i % 2 = 1 THEN t[(i + 1) \div 2][1] ELSE t[i \div 2][2]]
  BY <1>3 DEF Encoded
<1> HIDE DEF e
<1>6. \A i \in 1..(2 * (q - 1)) : e[i] = b[i + 2]
  <2> SUFFICES ASSUME NEW i \in 1..(2 * (q - 1)) PROVE e[i] = b[i + 2]
    OBVIOUS
  <2>1. CASE i % 2 = 1
    <3>0. q \in Nat /\ i \in Nat /\ i <= 2 * q - 2 /\ i >= 1
      BY <1>1, <1>2
    <3>1. PICK k : k = (i + 1) \div 2
      OBVIOUS
    <3>2. k \in 1..(q - 1) /\ i = 2 * k - 1
      BY <2>1, <3>0, <3>1
    <3>3. e[i] = t[k][1] /\ i + 2 = 2 * k + 1
      BY <1>5, <2>1, <3>0, <3>1, <3>2
    <3> QED
      BY <1>4, <3>2, <3>3
  <2>2. CASE i % 2 # 1
    <3>0. q \in Nat /\ i \in Nat /\ i <= 2 * q - 2 /\ i >= 1
      BY <1>1, <1>2
    <3>1. PICK k : k = i \div 2
      OBVIOUS
    <3>2. k \in 1..(q - 1) /\ i = 2 * k
      BY <2>2, <3>0, <3>1
    <3>3. e[i] = t[k][2] /\ i + 2 = 2 * k + 2
      BY <1>5, <2>2, <3>0, <3>1, <3>2
    <3> QED
      BY <1>4, <3>2, <3>3
  <2> QED
    BY <2>1, <2>2
<1>7. e \in Seq(Unit) /\ Len(e) = 2 * (q - 1)
  <2>1. \A i \in 1..(2 * (q - 1)) : i + 2 \in 1..Len(b)
    BY <1>1, <1>2
  <2>2. \A i \in 1..(2 * (q - 1)) : e[i] \in Unit
    BY <1>6, <2>1
  <2>3. 2 * (q - 1) \in Nat
    BY <1>1, <1>2
  <2> QED
    BY <1>5, <2>2, <2>3
<1>8. /\ r \in Seq(Unit) /\ Len(r) = Len(b) - 2
      /\ \A i \in 1..(Len(b) - 2) : r[i] = b[i + 2]
  <2>1. 2 \in 0..Len(b)
    BY <1>1, <1>2
  <2> QED
    BY <1>1, <1>2, <2>1, CutSeq
<1> HIDE DEF r
<1>9. /\ e \o Leftover(b) \in Seq(Unit) /\ Len(e \o Leftover(b)) = Len(b) - 2
      /\ \A i \in 1..(2 * (q - 1)) : (e \o Leftover(b))[i] = b[i + 2]
      /\ \A i \in 1..(Len(b) - 2 * q) : (e \o Leftover(b))[2 * (q - 1) + i] = b[2 * q + i]
  BY <1>1, <1>2, <1>6, <1>7, JoinSeq
<1>10. \A i \in 1..(Len(b) - 2) : (e \o Leftover(b))[i] = b[i + 2]
  <2> SUFFICES ASSUME NEW i \in 1..(Len(b) - 2) PROVE (e \o Leftover(b))[i] = b[i + 2]
    OBVIOUS
  <2>1. CASE i <= 2 * (q - 1)
    BY <1>1, <1>2, <1>9, <2>1
  <2>2. CASE i > 2 * (q - 1)
    <3>1. i - 2 * (q - 1) \in 1..(Len(b) - 2 * q) /\ 2 * q + (i - 2 * (q - 1)) = i + 2
          /\ 2 * (q - 1) + (i - 2 * (q - 1)) = i
      BY <1>1, <1>2, <2>2
    <3> QED
      BY <1>9, <3>1
  <2>3. q \in Nat /\ i \in Nat
    BY <1>1, <1>2
  <2>4. i <= 2 * (q - 1) \/ i > 2 * (q - 1)
    BY <2>3
  <2> QED
    BY <2>1, <2>2, <2>4
<1>11. e \o Leftover(b) = r
  BY <1>8, <1>9, <1>10, SeqEqual
<1> QED
  BY <1>11 DEF e, t, r

-----------------------------------------------------------------------------
(* Control *)

(* What the loop makes of a buffer.                                        *)
LEMMA IterateStep ==
    ASSUME TypeOK, NEW b \in Seq(Unit), Iterate(b)
    PROVE  /\ buf' \in Seq(Unit) /\ queue' \in Seq(Unit \X Unit)
           /\ pc' \in {"done", "drop", "read"} /\ (pc' = "done" <=> closed)
           /\ NoZero(b) => pc' # "drop" /\ NoZero(buf')
<1>1. PICK q \in Nat :
      /\ q = Len(b) \div 2 /\ 2 * q <= Len(b) /\ Len(b) <= 2 * q + 1
      /\ Events(b) \in Seq(Unit \X Unit) /\ Len(Events(b)) = q
      /\ \A i \in 1..q : Events(b)[i] = <<b[2 * i - 1], b[2 * i]>>
      /\ Leftover(b) \in Seq(Unit) /\ Len(Leftover(b)) = Len(b) - 2 * q
      /\ \A i \in 1..(Len(b) - 2 * q) : Leftover(b)[i] = b[2 * q + i]
  BY SplitEvents, Zenon
<1>2. queue \o Events(b) \in Seq(Unit \X Unit)
  BY <1>1 DEF TypeOK
<1>3. NoZero(b) => ~Malformed(b) /\ NoZero(Leftover(b))
  <2> SUFFICES ASSUME NoZero(b) PROVE ~Malformed(b) /\ NoZero(Leftover(b))
    OBVIOUS
  <2>1. \A i \in 1..(Len(b) - 2 * q) : 2 * q + i \in 1..Len(b)
    BY <1>1
  <2>2. NoZero(Leftover(b))
    BY <1>1, <2>1 DEF NoZero
  <2>3. \A i \in 1..Len(b) : 2 * i - 1 <= Len(b) => 2 * i - 1 \in 1..Len(b)
    OBVIOUS
  <2> QED
    BY <2>2, <2>3 DEF NoZero, Malformed
<1> QED
  BY <1>1, <1>2, <1>3 DEF Iterate, TypeOK

(* A fault pays for a connection, whenever it comes.                       *)
LEMMA Charged ==
    \A k, f, g \in Nat : k <= f + 1 /\ f <= g => k <= g + 1 /\ (k = g + 1 => k = f + 1)
  OBVIOUS

(* subscribe().                                                            *)
LEMMA SubStep ==
    ASSUME CInv, SubConnect \/ SubDial \/ SubWrite \/ SubFails \/ SubCancelled
    PROVE  CInv'
<1> USE BoundsAssumption DEF CInv, closed, auto
<1>0. /\ pc = "none" /\ closer = "no" /\ recv = "idle" /\ buf = <<>> /\ ~heard /\ ~cancel
      /\ sub # "open" /\ <<>> \in Seq(Unit) /\ NoZero(<<>>) /\ faults \in Nat /\ conn \in Nat
  BY DEF SubConnect, SubDial, SubWrite, SubFails, SubCancelled, ControlInv, TypeOK, NoZero
<1>1. CASE SubConnect
  <2>1. /\ sub = "connect" /\ conn = 0 /\ open = {} /\ conn' = 1 /\ open' = {1} /\ sub' = "dial"
        /\ UNCHANGED <<user, pc, cancel, closer, stream, wire, buf, queue, recv, got, heard,
                       sentOn, pub, faults>>
    BY <1>1 DEF SubConnect, Connect, ChargeInv, OpenInv, task, app, broker
  <2> QED
    BY <1>0, <2>1 DEF TypeOK, ControlInv, OpenInv, ChargeInv, MaxConn
<1>2. CASE SubDial
  BY <1>0, <1>2 DEF SubDial, Dial, TypeOK, ControlInv, OpenInv, ChargeInv, task, app, broker
<1>3. CASE SubWrite
  <2>1. TypeOK' /\ ControlInv' /\ OpenInv'
    BY <1>0, <1>3 DEF SubWrite, Subscribe, TypeOK, ControlInv, OpenInv, link, app
  <2>2. ChargeInv'
    BY <1>0, <1>3 DEF SubWrite, ChargeInv, link, ControlInv, NoZero
  <2> QED
    BY <2>1, <2>2
<1>4. CASE SubFails
  <2>1. faults' \in 0..MaxFaults /\ (faults' = faults + 1 \/ (faults' = faults /\ conn \notin open))
    BY <1>4 DEF SubFails, Fault, TypeOK
  <2>2. TypeOK' /\ ControlInv' /\ OpenInv'
    BY <1>0, <1>4, <2>1 DEF SubFails, TypeOK, ControlInv, OpenInv, task, app, broker
  <2>3. ChargeInv'
    <3>1. sub' = "failed" /\ pc' = "none" /\ conn' = conn /\ faults' \in Nat /\ faults <= faults'
      BY <1>0, <1>4, <2>1 DEF SubFails, task
    <3>2. conn <= faults + 1
      BY DEF ChargeInv
    <3>3. ChargeInv'
      <4>1. conn' <= faults' + 1
        BY <1>0, <3>1, <3>2, Charged, Zenon
      <4> QED
        BY <3>1, <4>1 DEF ChargeInv, NoZero
    <3> QED
      BY <3>3
  <2> QED
    BY <2>2, <2>3
<1>5. CASE SubCancelled
  <2>1. faults' \in 0..MaxFaults /\ faults' = faults + 1
    BY <1>5 DEF SubCancelled, Fault, TypeOK
  <2>2. TypeOK' /\ ControlInv' /\ OpenInv'
    BY <1>0, <1>5, <2>1 DEF SubCancelled, TypeOK, ControlInv, OpenInv, task, app, broker, link
  <2>3. ChargeInv'
    BY <1>0, <1>5, <2>1 DEF SubCancelled, ChargeInv, task, link
  <2> QED
    BY <2>2, <2>3
<1> QED
  BY <1>1, <1>2, <1>3, <1>4, <1>5

(* A step of the loop that goes on with a buffer, on the same connection   *)
(* and stream: what is left to show.                                       *)
LEMMA GoesOn ==
    ASSUME CInv, NEW b \in Seq(Unit), Iterate(b),
           pc \in {"start", "read", "connect", "dial", "write"},
           UNCHANGED <<user, sub, closer, conn, open, stream, recv, got, sentOn, pub>>,
           wire' \in Seq(Unit), cancel' \in BOOLEAN, ~cancel' ,
           heard' \in BOOLEAN, heard' => stream = "open",
           faults' \in 0..MaxFaults, faults <= faults',
           conn = faults' + 1 => /\ conn \in open /\ stream = "open"
                                 /\ NoZero(b) /\ NoZero(wire')
    PROVE  CInv'
<1> USE BoundsAssumption DEF CInv, closed, auto
<1>0. /\ buf' \in Seq(Unit) /\ queue' \in Seq(Unit \X Unit)
      /\ pc' \in {"done", "drop", "read"} /\ (pc' = "done" <=> closed)
      /\ NoZero(b) => pc' # "drop" /\ NoZero(buf')
  BY IterateStep
<1>1. sub = "open" /\ user = "auto" /\ recv # "wait" /\ closer # "done"
  BY DEF ControlInv, OpenInv
<1>2. TypeOK'
  BY <1>0 DEF TypeOK
<1>3. ControlInv' /\ OpenInv'
  BY <1>0, <1>1 DEF ControlInv, OpenInv
<1>4. ChargeInv'
  <2>0. conn \in Nat /\ faults \in Nat /\ faults' \in Nat
    BY DEF TypeOK, MaxConn
  <2>1. conn \in Nat /\ faults' \in Nat /\ conn <= faults' + 1
    <3>1. conn <= faults + 1
      BY DEF ChargeInv
    <3> QED
      BY <2>0, <3>1, Charged, Zenon
  <2>2. conn = faults' + 1 => pc' # "drop" /\ NoZero(buf')
    BY <1>0
  <2> QED
    BY <1>0, <1>1, <2>1, <2>2 DEF ChargeInv, NoZero
<1> QED
  BY <1>2, <1>3, <1>4

(* The pieces of a read: what is put behind the buffer, and what stays.     *)
LEMMA ReadPieces ==
    ASSUME NEW S, NEW b \in Seq(S), NEW w \in Seq(S), NEW n \in 0..Len(w)
    PROVE  /\ b \o SubSeq(w, 1, n) \in Seq(S)
           /\ SubSeq(w, n + 1, Len(w)) \in Seq(S)
           /\ (b \o SubSeq(w, 1, n)) \o SubSeq(w, n + 1, Len(w)) = b \o w
<1>1. PICK x, y : x = SubSeq(w, 1, n) /\ y = SubSeq(w, n + 1, Len(w))
  OBVIOUS
<1>2. /\ x \in Seq(S) /\ Len(x) = n /\ \A i \in 1..n : x[i] = w[i]
      /\ y \in Seq(S) /\ Len(y) = Len(w) - n
      /\ \A i \in 1..(Len(w) - n) : y[i] = w[n + i]
  BY <1>1
<1>3. PICK l : l = x \o y
  OBVIOUS
<1>4. /\ l \in Seq(S) /\ Len(l) = Len(x) + Len(y)
      /\ \A i \in 1..Len(x) : l[i] = x[i]
      /\ \A i \in 1..Len(y) : l[Len(x) + i] = y[i]
  <2>1. x \in Seq(S) /\ y \in Seq(S)
    BY <1>2
  <2> QED
    BY <1>3, <2>1
<1>5. ASSUME NEW i \in 1..Len(w) PROVE l[i] = w[i]
  <2>1. CASE i <= n
    BY <1>2, <1>4, <2>1
  <2>2. CASE i > n
    <3>1. PICK j : j = i - n
      OBVIOUS
    <3>2. j \in 1..(Len(w) - n) /\ i = n + j
      BY <2>2, <3>1
    <3> QED
      BY <1>2, <1>4, <3>2, Zenon
  <2> QED
    BY <2>1, <2>2
<1>6. Len(l) = Len(w)
  BY <1>2, <1>4
<1>7. l = w
  BY <1>4, <1>5, <1>6, SeqEqual, Zenon
<1>8. /\ (b \o x) \o y = b \o (x \o y) /\ b \o x \in Seq(S) /\ y \in Seq(S)
  <2>1. x \in Seq(S) /\ y \in Seq(S)
    BY <1>2
  <2> QED
    BY <2>1, ConcatAssociative
<1> QED
  BY <1>1, <1>3, <1>7, <1>8, Zenon

(* A read brings no malformed head where there was none.                    *)
LEMMA ReadNoZero ==
    ASSUME NEW b \in Seq(Unit), NEW w \in Seq(Unit), NEW n \in 0..Len(w), NoZero(b), NoZero(w)
    PROVE  NoZero(b \o SubSeq(w, 1, n)) /\ NoZero(SubSeq(w, n + 1, Len(w)))
  BY DEF NoZero

(* The steps of the loop that go on with a buffer.                         *)
LEMMA IteratingStep ==
    ASSUME CInv, Reading \/ LoopWrite \/ LoopAttemptFails, ~LoopEof
    PROVE  CInv'
<1> USE BoundsAssumption DEF CInv
<1>0. /\ conn \in Nat /\ faults \in 0..MaxFaults /\ faults \in Nat /\ faults + 1 \in Nat
      /\ wire \in Seq(Unit) /\ buf \in Seq(Unit)
      /\ cancel \in BOOLEAN /\ heard \in BOOLEAN /\ faults <= faults /\ conn <= faults + 1
      /\ heard => stream = "open"
  BY DEF TypeOK, ControlInv, ChargeInv, MaxConn
<1>1. CASE LoopStart
  <2>1. /\ pc = "start" /\ Iterate(buf) /\ ~cancel' /\ wire' = wire /\ heard' = heard
        /\ cancel' = cancel /\ faults' = faults
        /\ UNCHANGED <<user, sub, closer, conn, open, stream, recv, got, sentOn, pub>>
    BY <1>1 DEF LoopStart, link, app, broker
  <2>2. conn = faults' + 1 => /\ conn \in open /\ stream = "open"
                              /\ NoZero(buf) /\ NoZero(wire')
    BY <2>1 DEF ChargeInv
  <2> QED
    BY <1>0, <2>1, <2>2, GoesOn
<1>2. ASSUME NEW n \in 1..Len(wire), LoopRead(n) PROVE CInv'
  <2>0. PICK b, w : b = buf \o SubSeq(wire, 1, n) /\ w = SubSeq(wire, n + 1, Len(wire))
    OBVIOUS
  <2>1. /\ pc = "read" /\ Iterate(b) /\ ~cancel' /\ wire' = w /\ heard' = heard
        /\ cancel' \in BOOLEAN /\ faults' = faults
        /\ UNCHANGED <<user, sub, closer, conn, open, stream, recv, got, sentOn, pub>>
    BY <1>2, <2>0 DEF LoopRead, app, broker
  <2>2. n \in 0..Len(wire)
    OBVIOUS
  <2>3. b \in Seq(Unit) /\ w \in Seq(Unit)
    BY <1>0, <2>0, <2>2, ReadPieces, Zenon
  <2>4. NoZero(buf) /\ NoZero(wire) => NoZero(b) /\ NoZero(w)
    BY <1>0, <2>0, <2>2, ReadNoZero, Zenon
  <2>5. conn = faults' + 1 => /\ conn \in open /\ stream = "open"
                              /\ NoZero(b) /\ NoZero(wire')
    BY <2>1, <2>4 DEF ChargeInv
  <2> QED
    BY <1>0, <2>1, <2>3, <2>5, GoesOn
<1>3. CASE LoopWrite
  <2>1. /\ pc = "write" /\ Iterate(<<>>) /\ ~cancel' /\ wire' = wire
        /\ heard' = (stream = "open") /\ conn \in open
        /\ cancel' = cancel /\ faults' = faults
        /\ UNCHANGED <<user, sub, closer, conn, open, stream, recv, got, sentOn, pub>>
    BY <1>3 DEF LoopWrite, Subscribe, FreshBuf, link, app
  <2>2. <<>> \in Seq(Unit) /\ NoZero(<<>>)
    BY DEF NoZero
  <2>3. conn = faults' + 1 => /\ conn \in open /\ stream = "open"
                              /\ NoZero(<<>>) /\ NoZero(wire')
    BY <2>1, <2>2 DEF ChargeInv
  <2> QED
    BY <1>0, <2>1, <2>2, <2>3, GoesOn
<1>4. CASE LoopAttemptFails
  <2>1. /\ pc \in {"connect", "dial", "write"} /\ Iterate(buf) /\ ~cancel' /\ wire' = wire
        /\ heard' = heard /\ cancel' \in BOOLEAN
        /\ UNCHANGED <<user, sub, closer, conn, open, stream, recv, got, sentOn, pub>>
    BY <1>4 DEF LoopAttemptFails, AfterFailure, link, app, broker
  <2>2. \/ faults' = faults + 1 /\ faults' \in 0..MaxFaults
        \/ faults' = faults /\ pc # "connect" /\ conn \notin open
    BY <1>0, <1>4 DEF LoopAttemptFails, Fault
  <2>3. conn # faults' + 1 /\ faults <= faults' /\ faults' \in 0..MaxFaults
    <3>1. CASE faults' = faults + 1 /\ faults' \in 0..MaxFaults
      BY <1>0, <3>1
    <3>2. CASE faults' = faults /\ pc # "connect" /\ conn \notin open
      BY <1>0, <2>1, <3>2 DEF ChargeInv
    <3> QED
      BY <2>2, <3>1, <3>2
  <2> QED
    BY <1>0, <2>1, <2>3, GoesOn
<1> QED
  BY <1>1, <1>2, <1>3, <1>4 DEF Reading

(* The other steps of the loop.                                            *)
LEMMA LoopStep ==
    ASSUME CInv,
           \/ LoopEof \/ LoopIdle \/ LoopDrop \/ LoopWake \/ LoopConnect \/ LoopDial
           \/ LoopCancelled
    PROVE  CInv'
<1> USE BoundsAssumption DEF CInv, closed, auto
<1>0. /\ conn \in Nat /\ faults \in 0..MaxFaults /\ faults \in Nat
      /\ wire \in Seq(Unit) /\ conn <= faults + 1 /\ sub = "open" /\ user = "auto"
      /\ recv # "wait" /\ pc \notin {"none", "done"} /\ closer # "done"
      /\ conn \in 0..MaxConn
  BY DEF LoopEof, LoopIdle, LoopDrop, LoopWake, LoopConnect, LoopDial, LoopCancelled,
         TypeOK, ControlInv, OpenInv, ChargeInv, MaxConn
<1>1. CASE LoopEof
  <2>1. TypeOK' /\ ControlInv' /\ OpenInv'
    BY <1>0, <1>1 DEF LoopEof, Dropped, TypeOK, ControlInv, OpenInv, app, broker
  <2>2. conn # faults + 1
    BY <1>0, <1>1 DEF LoopEof, ChargeInv
  <2>3. ChargeInv'
    BY <1>0, <1>1, <2>2 DEF LoopEof, ChargeInv, NoZero
  <2> QED
    BY <2>1, <2>3
<1>2. CASE LoopIdle
  <2>1. /\ faults' \in 0..MaxFaults /\ faults' \in Nat
        /\ (faults' = faults + 1 \/ (faults' = faults /\ stream # "open"))
    BY <1>0, <1>2 DEF LoopIdle, Fault
  <2>2. TypeOK' /\ ControlInv' /\ OpenInv'
    BY <1>0, <1>2, <2>1 DEF LoopIdle, Dropped, TypeOK, ControlInv, OpenInv, link, app, broker
  <2>3. conn # faults' + 1 /\ conn <= faults' + 1
    <3>1. CASE faults' = faults + 1
      BY <1>0, <3>1
    <3>2. CASE faults' = faults /\ stream # "open"
      BY <1>0, <1>2, <3>2 DEF LoopIdle, ChargeInv
    <3> QED
      BY <2>1, <3>1, <3>2
  <2>4. ChargeInv'
    BY <1>0, <1>2, <2>3 DEF LoopIdle, ChargeInv, NoZero, link
  <2> QED
    BY <2>2, <2>4
<1>3. CASE LoopDrop
  <2>1. PICK n \in 0..Len(wire) : wire' = SubSeq(wire, 1, n)
    BY <1>3 DEF LoopDrop, CloseStream
  <2>2. wire' \in Seq(Unit)
    BY <1>0, <2>1
  <2>3. TypeOK' /\ ControlInv' /\ OpenInv'
    BY <1>0, <1>3, <2>2 DEF LoopDrop, CloseStream, CloseConn, TypeOK, ControlInv, OpenInv, app
  <2>4. conn # faults + 1
    BY <1>0, <1>3 DEF LoopDrop, ChargeInv
  <2>5. ChargeInv'
    BY <1>0, <1>3, <2>4 DEF LoopDrop, CloseStream, ChargeInv, NoZero
  <2> QED
    BY <2>3, <2>5
<1>4. CASE LoopWake
  <2>1. TypeOK' /\ ControlInv' /\ OpenInv'
    BY <1>0, <1>4 DEF LoopWake, TypeOK, ControlInv, OpenInv, link, app, broker
  <2>2. ChargeInv'
    BY <1>0, <1>4 DEF LoopWake, ChargeInv, NoZero, link
  <2> QED
    BY <2>1, <2>2
<1>5. CASE LoopConnect
  <2>1. pc = "connect" /\ conn' = conn + 1 /\ open = {} /\ open' = {conn + 1}
    BY <1>5 DEF LoopConnect, Connect, OpenInv
  <2>2. conn # faults + 1
    BY <1>0, <2>1 DEF ChargeInv
  <2>3. conn' \in Nat /\ conn' <= faults + 1 /\ conn' \in 0..MaxConn /\ open' \subseteq 1..conn'
    BY <1>0, <2>1, <2>2 DEF MaxConn
  <2>4. TypeOK' /\ ControlInv' /\ OpenInv'
    BY <1>0, <1>5, <2>1, <2>3 DEF LoopConnect, Connect, TypeOK, ControlInv, OpenInv, app, broker
  <2>5. ChargeInv'
    BY <1>0, <1>5, <2>1, <2>3 DEF LoopConnect, ChargeInv, NoZero
  <2> QED
    BY <2>4, <2>5
<1>6. CASE LoopDial
  <2>0. <<>> \in Seq(Unit) /\ Len(<<>>) = 0
    OBVIOUS
  <2>1. TypeOK' /\ ControlInv' /\ OpenInv'
    BY <1>0, <1>6, <2>0 DEF LoopDial, Dial, TypeOK, ControlInv, OpenInv, app, broker
  <2>2. ChargeInv'
    BY <1>0, <1>6, <2>0 DEF LoopDial, Dial, ChargeInv, NoZero
  <2> QED
    BY <2>1, <2>2
<1>7. CASE LoopCancelled
  <2>1. TypeOK' /\ ControlInv' /\ OpenInv'
    BY <1>0, <1>7 DEF LoopCancelled, TypeOK, ControlInv, OpenInv, link, app, broker
  <2>2. ChargeInv'
    BY <1>0, <1>7 DEF LoopCancelled, ChargeInv, NoZero, link
  <2> QED
    BY <2>1, <2>2
<1> QED
  BY <1>1, <1>2, <1>3, <1>4, <1>5, <1>6, <1>7

(* What recv() makes of a buffer.                                          *)
LEMMA TakeFirstStep ==
    ASSUME TypeOK, NEW b \in Seq(Unit), TakeFirst(b)
    PROVE  /\ recv' \in {"error", "wait", "idle"}
           /\ buf' \in Seq(Unit) /\ got' \in Seq(Unit \X Unit)
           /\ \/ buf' = b /\ got' = got
              \/ /\ ~Malformed(b) /\ Len(b) >= 2
                 /\ got' = Append(got, <<b[1], b[2]>>)
                 /\ buf' = SubSeq(b, 3, Len(b))
<1>1. CASE buf' = b /\ got' = got
  BY <1>1 DEF TakeFirst, TypeOK
<1>2. CASE /\ ~Malformed(b) /\ Len(b) >= 2
           /\ got' = Append(got, Head(Events(b)))
           /\ buf' = Encoded(Tail(Events(b))) \o Leftover(b)
           /\ recv' = "idle"
  <2>1. PICK q \in Nat :
        /\ q = Len(b) \div 2 /\ 2 * q <= Len(b) /\ Len(b) <= 2 * q + 1
        /\ Events(b) \in Seq(Unit \X Unit) /\ Len(Events(b)) = q
        /\ \A i \in 1..q : Events(b)[i] = <<b[2 * i - 1], b[2 * i]>>
    BY SplitEvents, Zenon
  <2>2. Len(b) \in Nat /\ q >= 1 /\ 1 \in 1..q /\ 2 * 1 - 1 = 1 /\ 2 * 1 = 2
    BY <1>2, <2>1
  <2>3. Events(b)[1] = <<b[1], b[2]>> /\ Events(b) # <<>>
    BY <2>1, <2>2
  <2>4. Head(Events(b)) = <<b[1], b[2]>>
    BY <2>1, <2>3
  <2>5. b[1] \in Unit /\ b[2] \in Unit
    BY <1>2
  <2>6. got' = Append(got, <<b[1], b[2]>>) /\ buf' = SubSeq(b, 3, Len(b))
    BY <1>2, <2>4, EncodedBack
  <2>7. got' \in Seq(Unit \X Unit)
    BY <2>5, <2>6 DEF TypeOK
  <2>8. buf' \in Seq(Unit)
    <3>1. 2 \in 0..Len(b) /\ 2 + 1 = 3
      BY <1>2, <2>2
    <3> QED
      BY <2>6, <3>1, CutSeq
  <2> QED
    BY <1>2, <2>6, <2>7, <2>8
<1> QED
  BY <1>1, <1>2 DEF TakeFirst

(* recv() and __anext__.                                                   *)
LEMMA RecvStep ==
    ASSUME CInv, RecvQueued \/ Receiving \/ RecvFails
    PROVE  CInv'
<1> USE BoundsAssumption DEF CInv, closed, auto
<1>0. /\ sub = "open" /\ conn \in Nat /\ faults \in Nat
      /\ buf \in Seq(Unit) /\ wire \in Seq(Unit)
  BY DEF RecvQueued, Receiving, RecvCall, RecvEof, RecvChunk, RecvFails, MayRecv, TypeOK,
         ControlInv, MaxConn
<1>1. CASE RecvQueued
  <2>1. Head(queue) \in Unit \X Unit /\ Tail(queue) \in Seq(Unit \X Unit)
    BY <1>1 DEF RecvQueued, TypeOK
  <2>2. got' \in Seq(Unit \X Unit)
    BY <1>1, <2>1 DEF RecvQueued, TypeOK
  <2>3. TypeOK' /\ ControlInv' /\ OpenInv'
    BY <1>0, <1>1, <2>1, <2>2 DEF RecvQueued, TypeOK, ControlInv, OpenInv, task, link, broker
  <2>4. ChargeInv'
    BY <1>0, <1>1 DEF RecvQueued, ChargeInv, NoZero, task, link
  <2> QED
    BY <2>3, <2>4
<1>2. ASSUME NEW b \in Seq(Unit), TakeFirst(b), wire' \in Seq(Unit), user # "auto",
             UNCHANGED <<user, sub, pc, cancel, closer, conn, open, stream, queue, heard,
                         sentOn, pub, faults>>,
             wire' = wire \/ recv = "wait"
      PROVE  CInv'
  <2>1. /\ recv' \in {"error", "wait", "idle"}
        /\ buf' \in Seq(Unit) /\ got' \in Seq(Unit \X Unit)
    BY <1>2, TakeFirstStep
  <2>2. pc = "none"
    BY <1>2 DEF ControlInv
  <2>3. TypeOK' /\ ControlInv' /\ OpenInv'
    BY <1>0, <1>2, <2>1, <2>2 DEF TypeOK, ControlInv, OpenInv
  <2>4. ChargeInv'
    BY <1>0, <1>2, <2>2 DEF ChargeInv, NoZero
  <2> QED
    BY <2>3, <2>4
<1>3. CASE RecvCall
  BY <1>0, <1>2, <1>3 DEF RecvCall, task, link, broker
<1>4. ASSUME NEW n \in 1..Len(wire), RecvChunk(n) PROVE CInv'
  <2>0. PICK b, w : b = buf \o SubSeq(wire, 1, n) /\ w = SubSeq(wire, n + 1, Len(wire))
    OBVIOUS
  <2>1. n \in 0..Len(wire)
    OBVIOUS
  <2>2. b \in Seq(Unit) /\ w \in Seq(Unit)
    BY <1>0, <2>0, <2>1, ReadPieces, Zenon
  <2>3. /\ TakeFirst(b) /\ wire' = w /\ recv = "wait"
        /\ UNCHANGED <<user, sub, pc, cancel, closer, conn, open, stream, queue, heard,
                       sentOn, pub, faults>>
    BY <1>4, <2>0 DEF RecvChunk, task, broker
  <2>4. user # "auto"
    BY <2>3 DEF ControlInv
  <2> QED
    BY <1>2, <2>2, <2>3, <2>4
<1>5. CASE RecvEof
  <2>1. user # "auto" /\ pc = "none"
    BY <1>5 DEF RecvEof, ControlInv
  <2>2. TypeOK' /\ ControlInv' /\ OpenInv'
    BY <1>0, <1>5, <2>1 DEF RecvEof, TypeOK, ControlInv, OpenInv, task, broker
  <2>3. ChargeInv'
    BY <1>0, <1>5, <2>1 DEF RecvEof, ChargeInv, NoZero, task
  <2> QED
    BY <2>2, <2>3
<1>6. CASE RecvFails
  <2>1. recv' \in {"timeout", "cancelled"}
    BY <1>6 DEF RecvFails
  <2>2. TypeOK' /\ ControlInv' /\ OpenInv'
    BY <1>0, <1>6, <2>1 DEF RecvFails, TypeOK, ControlInv, OpenInv, task, link, broker
  <2>3. ChargeInv'
    BY <1>0, <1>6 DEF RecvFails, ChargeInv, NoZero, task, link
  <2> QED
    BY <2>2, <2>3
<1> QED
  BY <1>1, <1>3, <1>4, <1>5, <1>6 DEF Receiving

(* close().                                                                *)
LEMMA CloseStep ==
    ASSUME CInv, CloseBegin \/ CloseEnd
    PROVE  CInv'
<1> USE BoundsAssumption DEF CInv, closed, auto
<1>0. conn \in Nat /\ faults \in Nat /\ sub = "open" /\ wire \in Seq(Unit)
  BY DEF CloseBegin, CloseEnd, ControlInv, TypeOK, MaxConn
<1>1. CASE CloseBegin
  <2>1. TypeOK' /\ ControlInv' /\ OpenInv'
    BY <1>0, <1>1 DEF CloseBegin, TypeOK, ControlInv, OpenInv, link, app, broker
  <2>2. ChargeInv'
    BY <1>0, <1>1 DEF CloseBegin, ChargeInv, NoZero, link
  <2> QED
    BY <2>1, <2>2
<1>2. CASE CloseEnd
  <2>1. PICK n \in 0..Len(wire) : wire' = SubSeq(wire, 1, n)
    BY <1>2 DEF CloseEnd, CloseStream
  <2>2. wire' \in Seq(Unit) /\ pc \in {"none", "done"}
    BY <1>0, <1>2, <2>1 DEF CloseEnd, TaskEnded
  <2>3. ~cancel
    BY <2>2 DEF ControlInv
  <2>4. TypeOK' /\ ControlInv' /\ OpenInv'
    BY <1>0, <1>2, <2>2, <2>3 DEF CloseEnd, CloseStream, CloseConn, TypeOK, ControlInv, OpenInv,
                                  task, app
  <2>5. ChargeInv'
    BY <1>0, <1>2, <2>2 DEF CloseEnd, CloseStream, ChargeInv, NoZero, task
  <2> QED
    BY <2>4, <2>5
<1> QED
  BY <1>1, <1>2

(* An event behind the others.                                             *)
LEMMA TwoMore ==
    ASSUME NEW S, NEW w \in Seq(S), NEW x \in S, NEW y \in S
    PROVE  /\ w \o <<x, y>> \in Seq(S) /\ Len(w \o <<x, y>>) = Len(w) + 2
           /\ \A i \in 1..Len(w) : (w \o <<x, y>>)[i] = w[i]
           /\ (w \o <<x, y>>)[Len(w) + 1] = x /\ (w \o <<x, y>>)[Len(w) + 2] = y
  OBVIOUS

(* It brings no malformed head.                                            *)
LEMMA TwoMoreNoZero ==
    ASSUME NEW w \in Seq(Unit), NEW x \in Unit, NEW y \in Unit, x # 0, y # 0, NoZero(w)
    PROVE  NoZero(w \o <<x, y>>)
<1>1. PICK v : v = w \o <<x, y>>
  OBVIOUS
<1>2. /\ Len(v) = Len(w) + 2 /\ \A i \in 1..Len(w) : v[i] = w[i]
      /\ v[Len(w) + 1] = x /\ v[Len(w) + 2] = y
  BY <1>1, TwoMore
<1>3. \A i \in 1..(Len(w) + 2) : i \in 1..Len(w) \/ i = Len(w) + 1 \/ i = Len(w) + 2
  OBVIOUS
<1>4. NoZero(v)
  BY <1>2, <1>3 DEF NoZero
<1> QED
  BY <1>1, <1>4

(* The publisher.                                                          *)
LEMMA PublisherStep ==
    ASSUME CInv, Publisher \/ PubClose \/ PubLost \/ Publish
    PROVE  CInv'
<1> USE BoundsAssumption DEF CInv, closed, auto
<1>0. conn \in Nat /\ faults \in Nat /\ wire \in Seq(Unit) /\ conn <= faults + 1
  BY DEF TypeOK, MaxConn, ChargeInv
<1>1. ASSUME NEW from, NEW to \in {"dial", "open", "failed", "closed", "lost"},
             PubStep(from, to), UNCHANGED faults \/ Fault
      PROVE  CInv'
  <2>1. /\ faults' \in 0..MaxFaults /\ faults' \in Nat /\ (faults' = faults \/ faults' = faults + 1)
    BY <1>0, <1>1 DEF Fault, TypeOK
  <2>2. TypeOK' /\ ControlInv' /\ OpenInv'
    BY <1>0, <1>1, <2>1 DEF PubStep, TypeOK, ControlInv, OpenInv, task, link, app
  <2>3. conn <= faults' + 1 /\ (conn = faults' + 1 => conn = faults + 1)
    <3>1. faults <= faults'
      BY <1>0, <2>1
    <3> QED
      BY <1>0, <2>1, <3>1, Charged, Zenon
  <2>4. ChargeInv'
    BY <1>0, <1>1, <2>1, <2>3 DEF PubStep, ChargeInv, NoZero, task, link
  <2> QED
    BY <2>2, <2>4
<1>2. CASE Publish
  <2>1. PICK n : n = Len(sentOn) + 1
    OBVIOUS
  <2>2. n \in Nat /\ n <= MaxEvents /\ n >= 1
    BY <1>2, <2>1 DEF Publish, TypeOK
  <2>3. 2 * n - 1 \in Unit /\ 2 * n \in Unit /\ 2 * n - 1 # 0 /\ 2 * n # 0
    BY <2>2 DEF Unit
  <2>4. PICK w : w = wire \o <<2 * n - 1, 2 * n>>
    OBVIOUS
  <2>5. w \in Seq(Unit) /\ (NoZero(wire) => NoZero(w))
    BY <1>0, <2>3, <2>4, TwoMore, TwoMoreNoZero, Zenon
  <2>6. wire' = w \/ wire' = wire
    BY <1>2, <2>1, <2>4 DEF Publish
  <2>7. sentOn' \in Seq(0..MaxConn) /\ Len(sentOn') <= MaxEvents
    BY <1>0, <1>2, <2>1, <2>2 DEF Publish, TypeOK, MaxConn
  <2>8. heard \/ wire' = wire
    BY <1>2 DEF Publish
  <2>a. UNCHANGED <<user, sub, pc, cancel, closer, conn, open, stream, buf, queue, recv, got,
                    heard, pub, faults>>
    BY <1>2 DEF Publish, task, app
  <2>b. wire' \in Seq(Unit)
    BY <1>0, <2>5, <2>6
  <2>9. TypeOK' /\ OpenInv'
    BY <2>7, <2>a, <2>b DEF TypeOK, OpenInv
  <2>10. ControlInv'
    BY <1>0, <1>2, <2>8 DEF Publish, ControlInv, task, app
  <2>11. ChargeInv'
    BY <1>0, <1>2, <2>5, <2>6 DEF Publish, ChargeInv, task, NoZero
  <2> QED
    BY <2>9, <2>10, <2>11
<1> QED
  BY <1>1, <1>2 DEF Publisher, PubClose, PubLost

(* The broker and the network.                                             *)
LEMMA NetworkStep ==
    ASSUME CInv, RemoteClose \/ ConnLost \/ Garbage
    PROVE  CInv'
<1> USE BoundsAssumption DEF CInv, closed, auto
<1>0. conn \in Nat /\ faults \in Nat /\ wire \in Seq(Unit) /\ conn <= faults + 1
  BY DEF TypeOK, MaxConn, ChargeInv
<1>1. faults' = faults + 1 /\ faults' \in 0..MaxFaults
  BY <1>0 DEF RemoteClose, ConnLost, Garbage, Fault
<1>2. conn <= faults' + 1 /\ conn # faults' + 1 /\ conn' = conn
  BY <1>0, <1>1 DEF RemoteClose, ConnLost, Garbage
<1>3. ChargeInv'
  BY <1>0, <1>2 DEF RemoteClose, ConnLost, Garbage, ChargeInv, NoZero
<1>4. CASE RemoteClose
  <2>1. PICK n \in 0..Len(wire) : wire' = SubSeq(wire, 1, n)
    BY <1>4 DEF RemoteClose, StreamEnds
  <2>2. wire' \in Seq(Unit) /\ (wire = <<>> => wire' = <<>>)
    BY <1>0, <2>1
  <2>3. wire' \in Seq(Unit) /\ stream' = "ended" /\ ~heard' /\ heard' \in BOOLEAN
        /\ UNCHANGED <<user, sub, pc, cancel, closer, conn, open, buf, queue, recv, got, sentOn, pub>>
    BY <1>4, <2>2 DEF RemoteClose, StreamEnds, task, app
  <2>4. TypeOK'
    BY <1>1, <2>3 DEF TypeOK
  <2> QED
    BY <1>0, <1>1, <1>3, <1>4, <2>2, <2>3, <2>4
       DEF ControlInv, OpenInv
<1>5. CASE ConnLost
  <2>1. wire' \in Seq(Unit) /\ (wire = <<>> => wire' = <<>>)
    <3>1. CASE stream = "open"
      <4>1. PICK n \in 0..Len(wire) : wire' = SubSeq(wire, 1, n)
        BY <1>5, <3>1 DEF ConnLost, StreamEnds
      <4> QED
        BY <1>0, <4>1
    <3>2. CASE stream # "open"
      BY <1>0, <1>5, <3>2 DEF ConnLost
    <3> QED
      BY <3>1, <3>2
  <2>2. stream' \in {"none", "open", "ended", "spent"} /\ heard' \in BOOLEAN
        /\ (heard' => heard /\ stream' = "open")
    BY <1>5 DEF ConnLost, StreamEnds, TypeOK, ControlInv
  <2> QED
    BY <1>0, <1>1, <1>3, <1>5, <2>1, <2>2
       DEF ConnLost, CloseConn, TypeOK, ControlInv, OpenInv, task, app
<1>6. CASE Garbage
  <2>1. wire' \in Seq(Unit)
    BY <1>0, <1>6 DEF Garbage, Unit
  <2> QED
    BY <1>0, <1>1, <1>3, <1>6, <2>1
       DEF Garbage, TypeOK, ControlInv, OpenInv, task, app, broker
<1> QED
  BY <1>4, <1>5, <1>6

(* No step leaves the invariant.                                           *)
LEMMA CInvStep == CInv /\ [Next]_vars => CInv'
<1> SUFFICES ASSUME CInv, [Next]_vars PROVE CInv'
  OBVIOUS
<1>1. CASE LoopEof
  BY <1>1, LoopStep
<1>2. CASE Next /\ ~LoopEof
  BY <1>2, SubStep, IteratingStep, LoopStep, RecvStep, CloseStep, PublisherStep, NetworkStep
     DEF Next, Reading, Reconnect
<1>3. CASE UNCHANGED vars
  BY <1>3 DEF vars, task, link, app, broker, CInv, TypeOK, ControlInv, OpenInv, ChargeInv,
              NoZero, closed, auto
<1> QED
  BY <1>1, <1>2, <1>3

(* The channel starts in it.                                               *)
LEMMA CInvInit == Init => CInv
<1> SUFFICES ASSUME Init PROVE CInv
  OBVIOUS
<1>1. /\ <<>> \in Seq(Unit) /\ <<>> \in Seq(Unit \X Unit) /\ <<>> \in Seq(0..MaxConn)
      /\ Len(<<>>) = 0 /\ 0 <= MaxEvents /\ 0 \in 0..MaxFaults /\ 0 \in 0..MaxConn
      /\ FALSE \in BOOLEAN
  BY BoundsAssumption DEF MaxConn
<1>2. TypeOK
  BY <1>1 DEF Init, TypeOK
<1> QED
  BY <1>2 DEF Init, CInv, ControlInv, OpenInv, ChargeInv, NoZero, closed, auto

(* The variables keep their types: in particular every byte the channel    *)
(* holds came from the wire, and it makes at most one connection more than *)
(* there are faults, so the bound on connections loses no behaviour.       *)
THEOREM ChannelTypeCorrect == Spec => []TypeOK
<1>1. CInv => TypeOK
  BY DEF CInv
<1> QED
  BY <1>1, CInvInit, CInvStep, PTL DEF Spec

(* One connection at a time, and none left when subscribe() has raised or  *)
(* close() has returned.                                                   *)
THEOREM ChannelLeavesNothingOpen == Spec => []NothingLeftOpen
<1>1. CInv => NothingLeftOpen
  BY DEF CInv, NothingLeftOpen, OpenInv, ControlInv
<1> QED
  BY <1>1, CInvInit, CInvStep, PTL DEF Spec

-----------------------------------------------------------------------------
(* Data: L is the log, p the pipe and s the history of sentOn. *)

Pairs == Seq(Unit \X Unit)

(* A stream that ends behind its first units is sound if it was.           *)
LEMMA PrefixSound ==
    ASSUME NEW L \in Pairs, NEW p \in Seq(Unit), NEW s \in Seq(0..MaxConn), Sound(L, p, s),
           NEW r \in Seq(Unit), Len(r) <= Len(p), \A i \in 1..Len(r) : r[i] = p[i]
    PROVE  Sound(L, r, s)
<1> SUFFICES ASSUME NEW k \in Heads(r), Clean(r, k) PROVE PipeItem(L, r, s, k)
  BY DEF Sound
<1>0. Len(r) \in Nat /\ Len(p) \in Nat
  OBVIOUS
<1>1. k \in Nat /\ k >= 1 /\ 2 * k - 1 <= Len(r) /\ k \in Heads(p)
  BY <1>0 DEF Heads
<1>2. \A j \in 1..k : 2 * j - 1 \in 1..Len(r)
  BY <1>0, <1>1
<1>3. \A j \in 1..k : r[2 * j - 1] = p[2 * j - 1]
  BY <1>2
<1>4. Clean(p, k)
  BY <1>3 DEF Clean
<1>5. PipeItem(L, p, s, k)
  BY <1>1, <1>4 DEF Sound
<1>6. r[2 * k - 1] = p[2 * k - 1] /\ \A j \in 1..(k - 1) : r[2 * j - 1] = p[2 * j - 1]
  BY <1>1, <1>3
<1>7. 2 * k <= Len(r) => 2 * k <= Len(p) /\ r[2 * k] = p[2 * k]
  BY <1>0, <1>1
<1> QED
  BY <1>5, <1>6, <1>7 DEF PipeItem

\* The k-th head of the pipe is that of event n.
IsHead(L, p, s, k, n) ==
    /\ n \in Nat /\ p[2 * k - 1] = 2 * n - 1 /\ s[n] # 0
    /\ 2 * k <= Len(p) => p[2 * k] = 2 * n
    /\ \A m \in 1..(n - 1) : s[m] = s[n] =>
           InLog(L, m) \/ \E j \in 1..(k - 1) : p[2 * j - 1] = 2 * m - 1
    /\ \A i \in 1..Len(L) : L[i][2] < 2 * n - 1
    /\ \A j \in 1..(k - 1) : p[2 * j - 1] < 2 * n - 1

(* What a clean head of a sound pipe stands for.                           *)
LEMMA HeadItem ==
    ASSUME NEW L \in Pairs, NEW p \in Seq(Unit), NEW s \in Seq(0..MaxConn), Sound(L, p, s),
           NEW k \in Heads(p), Clean(p, k)
    PROVE  \E n \in 1..Len(s) : IsHead(L, p, s, k, n)
<1>1. PipeItem(L, p, s, k)
  BY DEF Sound
<1>2. PICK n \in 1..Len(s) :
         /\ p[2 * k - 1] = 2 * n - 1 /\ s[n] # 0
         /\ 2 * k <= Len(p) => p[2 * k] = 2 * n
         /\ \A m \in 1..(n - 1) : s[m] = s[n] =>
                InLog(L, m) \/ \E j \in 1..(k - 1) : p[2 * j - 1] = 2 * m - 1
  BY <1>1, Zenon DEF PipeItem
<1>3. (\A i \in 1..Len(L) : L[i][2] < p[2 * k - 1])
      /\ (\A j \in 1..(k - 1) : p[2 * j - 1] < p[2 * k - 1])
  BY <1>1, Zenon DEF PipeItem
<1>4. (\A i \in 1..Len(L) : L[i][2] < 2 * n - 1)
      /\ (\A j \in 1..(k - 1) : p[2 * j - 1] < 2 * n - 1)
  BY <1>2, <1>3, Zenon
<1>5. n \in Nat
  OBVIOUS
<1> QED
  BY <1>2, <1>4, <1>5, Zenon DEF IsHead

(* Whole events taken from whole events leave whole events.                *)
LEMMA StillEven ==
    ASSUME NEW x \in Nat, NEW q \in Nat, 2 * q <= x, 2 * (x \div 2) = x
    PROVE  2 * ((x - 2 * q) \div 2) = x - 2 * q
<1>1. PICK h : h = x \div 2
  OBVIOUS
<1>2. h \in Nat /\ x = 2 * h /\ h >= q
  BY <1>1
<1>3. h - q \in Nat /\ x - 2 * q = 2 * (h - q)
  BY <1>2
<1>4. \A y \in Nat : 2 * ((2 * y) \div 2) = 2 * y
  OBVIOUS
<1> QED
  BY <1>3, <1>4

\* M is the log L with the first q events of the pipe p behind it, r the rest of p.
Moved(L, p, q, M, r) ==
    /\ q \in Nat /\ 2 * q <= Len(p) /\ Clean(p, q)
    /\ Len(M) = Len(L) + q /\ \A i \in 1..Len(L) : M[i] = L[i]
    /\ \A i \in 1..q : M[Len(L) + i] = <<p[2 * i - 1], p[2 * i]>>
    /\ Len(r) = Len(p) - 2 * q
    /\ \A i \in 1..Len(r) : r[i] = p[2 * q + i]

(* The first events of the pipe go to the end of the log: both stay sound  *)
(* and no event is lost on the way.                                        *)
LEMMA MoveSound ==
    ASSUME NEW L \in Pairs, NEW p \in Seq(Unit), NEW s \in Seq(0..MaxConn), Sound(L, p, s),
           NEW M \in Pairs, NEW r \in Seq(Unit), NEW q \in Nat, Moved(L, p, q, M, r)
    PROVE  /\ Sound(M, r, s)
           /\ \A c : Whole(L, p, s, c) => Whole(M, r, s, c)
<1> USE DEF Moved
<1>0. Len(p) \in Nat /\ Len(s) \in Nat /\ Len(L) \in Nat /\ Len(M) \in Nat /\ Len(r) \in Nat
  OBVIOUS
<1>1. ASSUME NEW k \in 1..q
      PROVE  /\ k \in Nat /\ k >= 1 /\ 2 * k <= Len(p) /\ k \in Heads(p) /\ Clean(p, k)
             /\ Len(L) + k \in 1..Len(M)
  BY <1>0 DEF Clean, Heads
<1>2. ASSUME NEW k \in 1..q
      PROVE  \E n \in 1..Len(s) : IsHead(L, p, s, k, n) /\ M[Len(L) + k] = <<2 * n - 1, 2 * n>>
  <2>1. PICK n \in 1..Len(s) : IsHead(L, p, s, k, n)
    BY <1>1, HeadItem, Zenon
  <2>2. M[Len(L) + k] = <<2 * n - 1, 2 * n>>
    BY <1>1, <2>1, Zenon DEF IsHead
  <2> QED
    BY <2>1, <2>2, Zenon
<1>3. ASSUME NEW j \in 1..q, NEW m \in Nat, p[2 * j - 1] = 2 * m - 1
      PROVE  M[Len(L) + j] = <<2 * m - 1, 2 * m>>
  <2>1. PICK n \in Nat : M[Len(L) + j] = <<2 * n - 1, 2 * n>> /\ p[2 * j - 1] = 2 * n - 1
    BY <1>2, Zenon DEF IsHead
  <2>2. n = m
    <3>1. 2 * n - 1 = 2 * m - 1
      BY <1>3, <2>1, Zenon
    <3> QED
      BY <3>1
  <2> QED
    BY <2>1, <2>2, Zenon
<1>4. ASSUME NEW m, InLog(L, m) PROVE InLog(M, m)
  <2>1. PICK j \in 1..Len(L) : L[j] = <<2 * m - 1, 2 * m>>
    BY <1>4, Zenon DEF InLog
  <2>2. j \in 1..Len(M) /\ M[j] = <<2 * m - 1, 2 * m>>
    BY <1>0, <2>1
  <2> QED
    BY <2>2, Zenon DEF InLog
<1>5. ASSUME NEW j \in 1..q, NEW m \in Nat, p[2 * j - 1] = 2 * m - 1
      PROVE  InLog(M, m)
  BY <1>1, <1>3, <1>5, Zenon DEF InLog
<1>6. \A i \in 1..Len(M) : i \in 1..Len(L) \/ \E k \in 1..q : i = Len(L) + k
  <2> SUFFICES ASSUME NEW i \in 1..Len(M), i \notin 1..Len(L)
               PROVE  \E k \in 1..q : i = Len(L) + k
    OBVIOUS
  <2>1. i - Len(L) \in 1..q /\ i = Len(L) + (i - Len(L))
    BY <1>0
  <2> QED
    BY <2>1
<1>7. ASSUME NEW i \in 1..Len(L) PROVE LogItem(M, s, i)
  <2>1. PICK n \in 1..Len(s) :
          /\ L[i] = <<2 * n - 1, 2 * n>> /\ s[n] # 0
          /\ \A m \in 1..(n - 1) : s[m] = s[n] =>
                 \E j \in 1..(i - 1) : L[j] = <<2 * m - 1, 2 * m>>
    BY Zenon DEF Sound, LogItem
  <2>2. \A j \in 1..(i - 1) : j \in 1..Len(L)
    BY <1>0
  <2>3. \A j \in 1..(i - 1) : M[j] = L[j]
    BY <2>2, Zenon
  <2> QED
    BY <2>1, <2>3, Zenon DEF LogItem
<1>8. ASSUME NEW k \in 1..q PROVE LogItem(M, s, Len(L) + k)
  <2>1. PICK n \in 1..Len(s) :
             /\ n \in Nat /\ M[Len(L) + k] = <<2 * n - 1, 2 * n>> /\ s[n] # 0
             /\ \A m \in 1..(n - 1) : s[m] = s[n] =>
                    InLog(L, m) \/ \E j \in 1..(k - 1) : p[2 * j - 1] = 2 * m - 1
    BY <1>2, Zenon DEF IsHead
  <2>2. ASSUME NEW m \in 1..(n - 1), s[m] = s[n]
        PROVE  \E j \in 1..((Len(L) + k) - 1) : M[j] = <<2 * m - 1, 2 * m>>
    <3>0. m \in Nat
      BY <2>1
    <3>1. CASE InLog(L, m)
      <4>1. PICK j \in 1..Len(L) : L[j] = <<2 * m - 1, 2 * m>>
        BY <3>1, Zenon DEF InLog
      <4>2. j \in 1..((Len(L) + k) - 1) /\ M[j] = <<2 * m - 1, 2 * m>>
        BY <1>0, <1>1, <4>1
      <4> QED
        BY <4>2, Zenon
    <3>2. CASE \E j \in 1..(k - 1) : p[2 * j - 1] = 2 * m - 1
      <4>1. PICK j \in 1..(k - 1) : p[2 * j - 1] = 2 * m - 1
        BY <3>2
      <4>2. j \in 1..q /\ Len(L) + j \in 1..((Len(L) + k) - 1)
        BY <1>0, <1>1
      <4> QED
        BY <1>3, <3>0, <4>1, <4>2, Zenon
    <3> QED
      BY <2>1, <2>2, <3>1, <3>2, Zenon
  <2> QED
    BY <2>1, <2>2, Zenon DEF LogItem
<1>9. ASSUME NEW i \in 1..Len(M) PROVE LogItem(M, s, i)
  BY <1>6, <1>7, <1>8, Zenon
<1>10. ASSUME NEW i \in 1..Len(M), NEW j \in 1..Len(M), j < i PROVE M[j][2] < M[i][2]
  <2>1. CASE i \in 1..Len(L)
    <3>1. j \in 1..Len(L)
      BY <1>0, <1>10, <2>1
    <3>2. L[j][2] < L[i][2]
      BY <1>10, <2>1, <3>1, Zenon DEF Sound
    <3> QED
      BY <2>1, <3>1, <3>2, Zenon
  <2>2. CASE i \notin 1..Len(L)
    <3>1. PICK k \in 1..q : i = Len(L) + k
      BY <1>6, <2>2, Zenon
    <3>2. PICK n \in Nat : /\ M[i] = <<2 * n - 1, 2 * n>>
                           /\ \A x \in 1..Len(L) : L[x][2] < 2 * n - 1
                           /\ \A x \in 1..(k - 1) : p[2 * x - 1] < 2 * n - 1
      BY <1>2, <3>1, Zenon DEF IsHead
    <3>3. M[i][2] = 2 * n
      BY <3>2
    <3>4. CASE j \in 1..Len(L)
      <4>1. M[j][2] < 2 * n - 1
        BY <3>2, <3>4, Zenon
      <4>2. M[j][2] \in Nat
        <5>1. M[j] \in Unit \X Unit
          BY DEF Pairs
        <5> QED
          BY <5>1, BoundsAssumption DEF Unit
      <4> QED
        BY <3>3, <4>1, <4>2
    <3>5. CASE j \notin 1..Len(L)
      <4>1. PICK h \in 1..q : j = Len(L) + h
        BY <1>6, <3>5, Zenon
      <4>2. h \in 1..(k - 1)
        BY <1>0, <1>10, <3>1, <4>1
      <4>3. PICK o \in Nat : M[j] = <<2 * o - 1, 2 * o>> /\ p[2 * h - 1] = 2 * o - 1
        BY <1>2, <4>1, Zenon DEF IsHead
      <4>4. 2 * o - 1 < 2 * n - 1
        BY <3>2, <4>2, <4>3, Zenon
      <4>5. M[j][2] = 2 * o
        BY <4>3
      <4> QED
        BY <3>3, <4>4, <4>5
    <3> QED
      BY <3>4, <3>5
  <2> QED
    BY <2>1, <2>2
<1>11. ASSUME NEW k \in Heads(r)
       PROVE  /\ k \in Nat /\ k >= 1 /\ q + k \in Nat /\ q + k \in Heads(p)
              /\ r[2 * k - 1] = p[2 * (q + k) - 1]
              /\ 2 * k <= Len(r) => 2 * (q + k) <= Len(p) /\ r[2 * k] = p[2 * (q + k)]
  <2>1. k \in Nat /\ k >= 1 /\ 2 * k - 1 <= Len(r)
    BY <1>0 DEF Heads
  <2>2. /\ 2 * k - 1 \in 1..Len(r) /\ 2 * q + (2 * k - 1) = 2 * (q + k) - 1
        /\ 2 * q + 2 * k = 2 * (q + k)
        /\ 2 * k <= Len(r) => 2 * k \in 1..Len(r) /\ 2 * (q + k) <= Len(p)
        /\ q + k \in Nat /\ q + k \in Heads(p)
    BY <1>0, <2>1 DEF Heads
  <2>3. /\ r[2 * k - 1] = p[2 * q + (2 * k - 1)]
        /\ 2 * k <= Len(r) => r[2 * k] = p[2 * q + 2 * k]
    BY <2>2, Zenon
  <2> QED
    BY <2>1, <2>2, <2>3, Zenon
<1>12. ASSUME NEW k \in Heads(r), NEW j \in 1..k PROVE j \in Heads(r)
  BY <1>0 DEF Heads
<1>13. ASSUME NEW k \in Nat, NEW j \in 1..(q + k), j \notin 1..q
       PROVE  \E h \in 1..k : j = q + h /\ (j \in 1..((q + k) - 1) => h \in 1..(k - 1))
  <2>1. j - q \in 1..k /\ j = q + (j - q) /\ (j \in 1..((q + k) - 1) => j - q \in 1..(k - 1))
    BY <1>13
  <2> QED
    BY <2>1
<1>14. ASSUME NEW k \in Heads(r), Clean(r, k) PROVE PipeItem(M, r, s, k)
  <2>0. /\ k \in Nat /\ k >= 1 /\ q + k \in Nat /\ q + k \in Heads(p)
        /\ r[2 * k - 1] = p[2 * (q + k) - 1]
        /\ 2 * k <= Len(r) => 2 * (q + k) <= Len(p) /\ r[2 * k] = p[2 * (q + k)]
    BY <1>11, Zenon
  <2>1. Clean(p, q + k)
    <3> SUFFICES ASSUME NEW j \in 1..(q + k) PROVE p[2 * j - 1] # 0
      BY DEF Clean
    <3>1. CASE j \in 1..q
      BY <3>1 DEF Clean
    <3>2. CASE j \notin 1..q
      <4>1. PICK h \in 1..k : j = q + h
        BY <1>13, <2>0, <3>2, Zenon
      <4>2. h \in Heads(r) /\ r[2 * h - 1] # 0
        BY <1>12, <1>14, Zenon DEF Clean
      <4> QED
        BY <1>11, <4>1, <4>2, Zenon
    <3> QED
      BY <3>1, <3>2
  <2>2. PICK n \in 1..Len(s) : IsHead(L, p, s, q + k, n)
    BY <2>0, <2>1, HeadItem, Zenon
  <2>3. r[2 * k - 1] = 2 * n - 1 /\ (2 * k <= Len(r) => r[2 * k] = 2 * n)
    BY <2>0, <2>2, Zenon DEF IsHead
  <2>4. ASSUME NEW m \in 1..(n - 1), s[m] = s[n]
        PROVE  InLog(M, m) \/ \E j \in 1..(k - 1) : r[2 * j - 1] = 2 * m - 1
    <3>0. m \in Nat
      BY <2>2 DEF IsHead
    <3>1. CASE InLog(L, m)
      BY <1>4, <3>1, Zenon
    <3>2. CASE \E j \in 1..((q + k) - 1) : p[2 * j - 1] = 2 * m - 1
      <4>1. PICK j \in 1..((q + k) - 1) : p[2 * j - 1] = 2 * m - 1
        BY <3>2
      <4>2. CASE j \in 1..q
        BY <1>5, <3>0, <4>1, <4>2, Zenon
      <4>3. CASE j \notin 1..q
        <5>0. j \in 1..(q + k)
          BY <2>0
        <5>1. PICK h \in 1..k : j = q + h /\ h \in 1..(k - 1)
          BY <1>13, <2>0, <4>3, <5>0, Zenon
        <5>2. h \in Heads(r)
          BY <1>12, Zenon
        <5>3. r[2 * h - 1] = 2 * m - 1
          BY <1>11, <4>1, <5>1, <5>2, Zenon
        <5> QED
          BY <5>1, <5>3, Zenon
      <4> QED
        BY <4>2, <4>3
    <3> QED
      BY <2>2, <2>4, <3>1, <3>2, Zenon DEF IsHead
  <2>5. ASSUME NEW i \in 1..Len(M) PROVE M[i][2] < 2 * n - 1
    <3>1. CASE i \in 1..Len(L)
      BY <2>2, <3>1, Zenon DEF IsHead
    <3>2. CASE i \notin 1..Len(L)
      <4>1. PICK h \in 1..q : i = Len(L) + h
        BY <1>6, <3>2, Zenon
      <4>2. PICK o \in Nat : M[i] = <<2 * o - 1, 2 * o>> /\ p[2 * h - 1] = 2 * o - 1
        BY <1>2, <4>1, Zenon DEF IsHead
      <4>3. h \in 1..((q + k) - 1)
        <5>1. \A x, y \in Nat : \A z \in 1..x : y >= 1 => z \in 1..((x + y) - 1)
          OBVIOUS
        <5> QED
          BY <2>0, <5>1, Zenon
      <4>4. 2 * o - 1 < 2 * n - 1
        BY <2>2, <4>2, <4>3, Zenon DEF IsHead
      <4>5. M[i][2] = 2 * o
        BY <4>2
      <4> QED
        BY <2>2, <4>4, <4>5 DEF IsHead
    <3> QED
      BY <3>1, <3>2
  <2>6. ASSUME NEW j \in 1..(k - 1) PROVE r[2 * j - 1] < 2 * n - 1
    <3>1. j \in 1..k /\ q + j \in 1..((q + k) - 1)
      BY <2>0
    <3>2. j \in Heads(r)
      BY <1>12, <3>1, Zenon
    <3> QED
      BY <1>11, <2>2, <3>1, <3>2, Zenon DEF IsHead
  <2> QED
    BY <2>2, <2>3, <2>4, <2>5, <2>6, Zenon DEF IsHead, PipeItem
<1>15. Sound(M, r, s)
  BY <1>9, <1>10, <1>14, Zenon DEF Sound
<1>16. ASSUME NEW c, Whole(L, p, s, c), AllClean(r)
       PROVE  /\ 2 * (Len(r) \div 2) = Len(r)
              /\ \A m \in 1..Len(s) : s[m] = c =>
                     InLog(M, m) \/ \E j \in Heads(r) : r[2 * j - 1] = 2 * m - 1
  <2>1. ASSUME NEW k \in Heads(p), k \notin 1..q
        PROVE  \E h \in Heads(r) : k = q + h
    <3>1. k - q \in Heads(r) /\ k = q + (k - q)
      BY <1>0, <2>1 DEF Heads
    <3> QED
      BY <3>1
  <2>2. AllClean(p)
    <3> SUFFICES ASSUME NEW k \in Heads(p) PROVE p[2 * k - 1] # 0
      BY DEF AllClean
    <3>1. CASE k \in 1..q
      BY <3>1 DEF Clean
    <3>2. CASE k \notin 1..q
      <4>1. PICK h \in Heads(r) : k = q + h
        BY <2>1, <3>2, Zenon
      <4> QED
        BY <1>11, <1>16, <4>1, Zenon DEF AllClean
    <3> QED
      BY <3>1, <3>2
  <2>3. /\ 2 * (Len(p) \div 2) = Len(p)
        /\ \A m \in 1..Len(s) : s[m] = c =>
               InLog(L, m) \/ \E j \in Heads(p) : p[2 * j - 1] = 2 * m - 1
    BY <1>16, <2>2, Zenon DEF Whole
  <2>4. 2 * (Len(r) \div 2) = Len(r)
    BY <1>0, <2>3, StillEven, Zenon
  <2>5. ASSUME NEW m \in 1..Len(s), s[m] = c
        PROVE  InLog(M, m) \/ \E j \in Heads(r) : r[2 * j - 1] = 2 * m - 1
    <3>0. m \in Nat
      BY <1>0
    <3>1. CASE InLog(L, m)
      BY <1>4, <3>1, Zenon
    <3>2. CASE \E j \in Heads(p) : p[2 * j - 1] = 2 * m - 1
      <4>1. PICK j \in Heads(p) : p[2 * j - 1] = 2 * m - 1
        BY <3>2
      <4>2. CASE j \in 1..q
        BY <1>5, <3>0, <4>1, <4>2, Zenon
      <4>3. CASE j \notin 1..q
        <5>1. PICK h \in Heads(r) : j = q + h
          BY <2>1, <4>3, Zenon
        <5> QED
          BY <1>11, <4>1, <5>1, Zenon
      <4> QED
        BY <4>2, <4>3
    <3> QED
      BY <2>3, <2>5, <3>1, <3>2, Zenon
  <2> QED
    BY <2>4, <2>5
<1> QED
  BY <1>15, <1>16, Zenon DEF Whole

(* What is published later takes nothing from what was said before.        *)
LEMMA LaterSound ==
    ASSUME NEW L \in Pairs, NEW p \in Seq(Unit), NEW s \in Seq(0..MaxConn), Sound(L, p, s),
           NEW t \in Seq(0..MaxConn), Len(s) <= Len(t), \A m \in 1..Len(s) : t[m] = s[m]
    PROVE  Sound(L, p, t)
<1>0. Len(s) \in Nat /\ Len(t) \in Nat
  OBVIOUS
<1>1. \A n \in 1..Len(s) : n \in 1..Len(t) /\ t[n] = s[n] /\ \A m \in 1..(n - 1) : t[m] = s[m]
  BY <1>0
<1>2. ASSUME NEW i \in 1..Len(L) PROVE LogItem(L, t, i)
  <2>1. PICK n \in 1..Len(s) :
          /\ L[i] = <<2 * n - 1, 2 * n>> /\ s[n] # 0
          /\ \A m \in 1..(n - 1) : s[m] = s[n] =>
                 \E j \in 1..(i - 1) : L[j] = <<2 * m - 1, 2 * m>>
    BY Zenon DEF Sound, LogItem
  <2> QED
    BY <1>1, <2>1, Zenon DEF LogItem
<1>3. ASSUME NEW k \in Heads(p), Clean(p, k) PROVE PipeItem(L, p, t, k)
  <2>1. PipeItem(L, p, s, k)
    BY <1>3, Zenon DEF Sound
  <2>2. PICK n \in 1..Len(s) :
         /\ p[2 * k - 1] = 2 * n - 1 /\ s[n] # 0
         /\ 2 * k <= Len(p) => p[2 * k] = 2 * n
         /\ \A m \in 1..(n - 1) : s[m] = s[n] =>
                InLog(L, m) \/ \E j \in 1..(k - 1) : p[2 * j - 1] = 2 * m - 1
    BY <2>1, Zenon DEF PipeItem
  <2>3. \E o \in 1..Len(t) :
         /\ p[2 * k - 1] = 2 * o - 1 /\ t[o] # 0
         /\ 2 * k <= Len(p) => p[2 * k] = 2 * o
         /\ \A m \in 1..(o - 1) : t[m] = t[o] =>
                InLog(L, m) \/ \E j \in 1..(k - 1) : p[2 * j - 1] = 2 * m - 1
    BY <1>1, <2>2, Zenon
  <2> QED
    BY <2>1, <2>3, Zenon DEF PipeItem
<1> QED
  BY <1>2, <1>3, Zenon DEF Sound

(* Units behind the pipe: what was in it means the same, and a clean head  *)
(* is behind it only if all of it is clean.                                *)
LEMMA LongerPipe ==
    ASSUME NEW L \in Pairs, NEW p \in Seq(Unit), NEW s \in Seq(0..MaxConn), Sound(L, p, s),
           AllClean(p) => 2 * (Len(p) \div 2) = Len(p),
           NEW r \in Seq(Unit), Len(p) <= Len(r), \A i \in 1..Len(p) : r[i] = p[i],
           NEW k \in Heads(r), Clean(r, k)
    PROVE  \/ k \in Heads(p) /\ PipeItem(L, r, s, k)
           \/ k \notin Heads(p) /\ AllClean(p) /\ \A j \in Heads(p) : Clean(p, j)
<1>0. Len(r) \in Nat /\ Len(p) \in Nat /\ k \in Nat /\ k >= 1 /\ 2 * k - 1 <= Len(r)
  BY DEF Heads
<1>1. \A j \in Heads(p) : r[2 * j - 1] = p[2 * j - 1]
  <2>1. \A j \in Heads(p) : 2 * j - 1 \in 1..Len(p)
    BY <1>0 DEF Heads
  <2> QED
    BY <2>1, Zenon
<1>2. CASE k \in Heads(p)
  <2>1. \A j \in 1..k : j \in Heads(p)
    BY <1>0, <1>2 DEF Heads
  <2>2. Clean(p, k)
    BY <1>1, <2>1, Zenon DEF Clean
  <2>3. PipeItem(L, p, s, k)
    BY <1>2, <2>2, Zenon DEF Sound
  <2>4. 2 * k <= Len(p)
    <3>1. SUFFICES ASSUME 2 * k > Len(p) PROVE FALSE
      BY <1>0
    <3>2. Len(p) = 2 * k - 1
      <4>1. 2 * k - 1 <= Len(p)
        BY <1>2 DEF Heads
      <4>2. \A x, y \in Nat : 2 * x > y /\ 2 * x - 1 <= y => y = 2 * x - 1
        OBVIOUS
      <4> QED
        BY <1>0, <3>1, <4>1, <4>2, Zenon
    <3>3. \A j \in Heads(p) : j \in 1..k
      BY <1>0, <3>2 DEF Heads
    <3>4. AllClean(p)
      BY <2>2, <3>3, Zenon DEF AllClean, Clean
    <3>5. 2 * (Len(p) \div 2) = Len(p)
      BY <3>4
    <3>6. \A x, y \in Nat : 2 * (x \div 2) = x => x # 2 * y - 1
      OBVIOUS
    <3> QED
      BY <1>0, <3>2, <3>5, <3>6, Zenon
  <2>5. 2 * k \in 1..Len(p)
    BY <1>0, <2>4
  <2>6. r[2 * k - 1] = p[2 * k - 1] /\ r[2 * k] = p[2 * k]
    BY <1>1, <1>2, <2>5, Zenon
  <2>7. \A j \in 1..(k - 1) : j \in 1..k
    BY <1>0
  <2>8. \A j \in 1..(k - 1) : r[2 * j - 1] = p[2 * j - 1]
    BY <1>1, <2>1, <2>7, Zenon
  <2>9. PICK n \in 1..Len(s) :
         /\ p[2 * k - 1] = 2 * n - 1 /\ s[n] # 0
         /\ 2 * k <= Len(p) => p[2 * k] = 2 * n
         /\ \A m \in 1..(n - 1) : s[m] = s[n] =>
                InLog(L, m) \/ \E j \in 1..(k - 1) : p[2 * j - 1] = 2 * m - 1
    BY <2>3, Zenon DEF PipeItem
  <2>10. \A m \in 1..(n - 1) : s[m] = s[n] =>
             InLog(L, m) \/ \E j \in 1..(k - 1) : r[2 * j - 1] = 2 * m - 1
    BY <2>8, <2>9, Zenon
  <2>11. r[2 * k - 1] = 2 * n - 1 /\ r[2 * k] = 2 * n
    BY <2>4, <2>6, <2>9, Zenon
  <2>12. /\ \A i \in 1..Len(L) : L[i][2] < r[2 * k - 1]
         /\ \A j \in 1..(k - 1) : r[2 * j - 1] < r[2 * k - 1]
    BY <2>3, <2>6, <2>8, Zenon DEF PipeItem
  <2>13. PipeItem(L, r, s, k)
    BY <2>9, <2>10, <2>11, <2>12, Zenon DEF PipeItem
  <2> QED
    BY <1>2, <2>13
<1>3. CASE k \notin Heads(p)
  <2>1. \A j \in Heads(p) : \A i \in 1..j : i \in Heads(p) /\ i \in 1..k
    BY <1>0, <1>3 DEF Heads
  <2>2. \A j \in Heads(p) : j \in 1..j
    BY DEF Heads
  <2>3. \A j \in Heads(p) : \A i \in 1..j : p[2 * i - 1] # 0
    BY <1>1, <2>1, Zenon DEF Clean
  <2> QED
    BY <1>3, <2>2, <2>3, Zenon DEF Clean, AllClean
<1> QED
  BY <1>2, <1>3

\* Event n is behind p in r, and t is s with the connection c it was sent on.
Published(p, s, c, n, r, t) ==
    /\ n = Len(s) + 1
    /\ Len(t) = n /\ t[n] = c /\ \A m \in 1..Len(s) : t[m] = s[m]
    /\ Len(r) = Len(p) + 2 /\ \A i \in 1..Len(p) : r[i] = p[i]
    /\ r[Len(p) + 1] = 2 * n - 1 /\ r[Len(p) + 2] = 2 * n

(* publish() to a subscription of which nothing is missing.                *)
LEMMA PublishSound ==
    ASSUME NEW L \in Pairs, NEW p \in Seq(Unit), NEW s \in Seq(0..MaxConn), Sound(L, p, s),
           NEW c \in 1..MaxConn, Whole(L, p, s, c),
           NEW t \in Seq(0..MaxConn), NEW r \in Seq(Unit), NEW n \in Nat,
           Published(p, s, c, n, r, t)
    PROVE  Sound(L, r, t) /\ Whole(L, r, t, c)
<1> USE DEF Published
<1>0. Len(s) \in Nat /\ Len(p) \in Nat /\ Len(r) \in Nat /\ Len(s) <= Len(t) /\ Len(p) <= Len(r)
      /\ Len(L) \in Nat /\ c # 0 /\ n \in 1..Len(t) /\ Len(t) \in Nat
  OBVIOUS
<1>1. Sound(L, p, t)
  BY <1>0, LaterSound
<1>2. AllClean(p) =>
        /\ 2 * (Len(p) \div 2) = Len(p)
        /\ \A m \in 1..Len(s) : s[m] = c =>
               InLog(L, m) \/ \E j \in Heads(p) : p[2 * j - 1] = 2 * m - 1
  BY Zenon DEF Whole
<1>3. \A j \in Heads(p) : j \in Heads(r) /\ r[2 * j - 1] = p[2 * j - 1]
  <2>1. \A j \in Heads(p) : 2 * j - 1 \in 1..Len(p) /\ j \in Heads(r)
    BY <1>0 DEF Heads
  <2> QED
    BY <2>1, Zenon
<1>4. ASSUME NEW k \in Heads(r), k \notin Heads(p), 2 * (Len(p) \div 2) = Len(p)
      PROVE  /\ r[2 * k - 1] = 2 * n - 1 /\ r[2 * k] = 2 * n
             /\ \A j \in 1..(k - 1) : j \in Heads(p)
             /\ \A j \in Heads(p) : j \in 1..(k - 1)
  <2>1. k \in Nat /\ k >= 1 /\ 2 * k - 1 <= Len(p) + 2 /\ 2 * k - 1 > Len(p)
    BY <1>0, <1>4 DEF Heads
  <2>2. PICK h : h = Len(p) \div 2
    OBVIOUS
  <2>3. h \in Nat /\ Len(p) = 2 * h
    BY <1>0, <1>4, <2>2
  <2>4. k = h + 1
    BY <2>1, <2>3
  <2>5. 2 * k - 1 = Len(p) + 1 /\ 2 * k = Len(p) + 2
    BY <2>3, <2>4
  <2>6. (\A j \in 1..(k - 1) : j \in Heads(p)) /\ (\A j \in Heads(p) : j \in 1..(k - 1))
    BY <1>0, <2>3, <2>4 DEF Heads
  <2> QED
    BY <2>5, <2>6, Zenon
<1>5. \A m \in 1..(n - 1) : m \in 1..Len(s) /\ t[m] = s[m] /\ m \in Nat
  BY <1>0
<1>6. ASSUME NEW i \in 1..Len(L) PROVE L[i][2] < 2 * n - 1
  <2>1. PICK m \in 1..Len(s) : L[i] = <<2 * m - 1, 2 * m>>
    BY Zenon DEF Sound, LogItem
  <2>2. L[i][2] = 2 * m
    BY <2>1
  <2> QED
    BY <1>0, <2>2
<1>7. ASSUME NEW j \in Heads(p), Clean(p, j) PROVE p[2 * j - 1] < 2 * n - 1
  <2>1. PICK m \in 1..Len(s) : IsHead(L, p, s, j, m)
    BY <1>7, HeadItem, Zenon
  <2>2. p[2 * j - 1] = 2 * m - 1
    BY <2>1, Zenon DEF IsHead
  <2> QED
    BY <1>0, <2>2
<1>8. ASSUME NEW k \in Heads(r), Clean(r, k) PROVE PipeItem(L, r, t, k)
  <2>1. \/ k \in Heads(p) /\ PipeItem(L, r, t, k)
        \/ k \notin Heads(p) /\ AllClean(p) /\ \A j \in Heads(p) : Clean(p, j)
    <3>1. AllClean(p) => 2 * (Len(p) \div 2) = Len(p)
      BY <1>2, Zenon
    <3> QED
      BY <1>0, <1>1, <1>8, <3>1, LongerPipe, Zenon
  <2>2. CASE k \notin Heads(p) /\ AllClean(p) /\ \A j \in Heads(p) : Clean(p, j)
    <3>1. /\ r[2 * k - 1] = 2 * n - 1 /\ r[2 * k] = 2 * n
          /\ \A j \in 1..(k - 1) : j \in Heads(p)
          /\ \A j \in Heads(p) : j \in 1..(k - 1)
      BY <1>2, <1>4, <2>2, Zenon
    <3>2. ASSUME NEW m \in 1..(n - 1), t[m] = t[n]
          PROVE  InLog(L, m) \/ \E j \in 1..(k - 1) : r[2 * j - 1] = 2 * m - 1
      <4>1. m \in 1..Len(s) /\ s[m] = c
        BY <1>5, <3>2, Zenon
      <4>2. InLog(L, m) \/ \E j \in Heads(p) : p[2 * j - 1] = 2 * m - 1
        BY <1>2, <2>2, <4>1, Zenon
      <4> QED
        BY <1>3, <3>1, <4>2, Zenon
    <3>3. \A i \in 1..Len(L) : L[i][2] < r[2 * k - 1]
      BY <1>6, <3>1, Zenon
    <3>4. \A j \in 1..(k - 1) : r[2 * j - 1] < r[2 * k - 1]
      BY <1>3, <1>7, <2>2, <3>1, Zenon
    <3>5. n \in 1..Len(t) /\ t[n] # 0
      BY <1>0
    <3> QED
      BY <3>1, <3>2, <3>3, <3>4, <3>5, Zenon DEF PipeItem
  <2> QED
    BY <2>1, <2>2
<1>9. Sound(L, r, t)
  BY <1>1, <1>8, Zenon DEF Sound
<1>10. ASSUME AllClean(r)
       PROVE  /\ 2 * (Len(r) \div 2) = Len(r)
              /\ \A m \in 1..Len(t) : t[m] = c =>
                     InLog(L, m) \/ \E j \in Heads(r) : r[2 * j - 1] = 2 * m - 1
  <2>1. AllClean(p)
    BY <1>3, <1>10, Zenon DEF AllClean
  <2>2. 2 * (Len(p) \div 2) = Len(p)
    BY <1>2, <2>1, Zenon
  <2>3. PICK h : h = Len(p) \div 2
    OBVIOUS
  <2>4. h \in Nat /\ Len(p) = 2 * h
    BY <1>0, <2>2, <2>3
  <2>5. 2 * (Len(r) \div 2) = Len(r)
    <3>1. Len(r) = 2 * (h + 1) /\ h + 1 \in Nat
      BY <2>4
    <3>2. \A y \in Nat : 2 * ((2 * y) \div 2) = 2 * y
      OBVIOUS
    <3> QED
      BY <3>1, <3>2
  <2>6. h + 1 \in Heads(r) /\ h + 1 \notin Heads(p)
    BY <1>0, <2>4 DEF Heads
  <2>7. r[2 * (h + 1) - 1] = 2 * n - 1
    BY <1>4, <2>2, <2>6, Zenon
  <2>8. ASSUME NEW m \in 1..Len(t), t[m] = c
        PROVE  InLog(L, m) \/ \E j \in Heads(r) : r[2 * j - 1] = 2 * m - 1
    <3>1. m = n \/ m \in 1..Len(s)
      BY <1>0
    <3>2. CASE m = n
      BY <2>6, <2>7, <3>2, Zenon
    <3>3. CASE m \in 1..Len(s)
      <4>1. InLog(L, m) \/ \E j \in Heads(p) : p[2 * j - 1] = 2 * m - 1
        BY <1>2, <2>1, <2>8, <3>3, Zenon
      <4> QED
        BY <1>3, <4>1, Zenon
    <3> QED
      BY <3>1, <3>2, <3>3
  <2> QED
    BY <2>5, <2>8
<1> QED
  BY <1>9, <1>10, Zenon DEF Whole

(* A malformed head behind the pipe.                                       *)
LEMMA GarbageSound ==
    ASSUME NEW L \in Pairs, NEW p \in Seq(Unit), NEW s \in Seq(0..MaxConn), Sound(L, p, s),
           NEW c, Whole(L, p, s, c),
           NEW r \in Seq(Unit), Len(r) = Len(p) + 1, \A i \in 1..Len(p) : r[i] = p[i],
           r[Len(p) + 1] = 0
    PROVE  Sound(L, r, s) /\ Whole(L, r, s, c)
<1>0. Len(p) \in Nat /\ Len(r) \in Nat /\ Len(p) <= Len(r)
  OBVIOUS
<1>1. AllClean(p) => 2 * (Len(p) \div 2) = Len(p)
  BY Zenon DEF Whole
<1>2. ASSUME NEW k \in Heads(r), k \notin Heads(p) PROVE r[2 * k - 1] = 0
  <2>1. k \in Nat /\ k >= 1 /\ 2 * k - 1 = Len(p) + 1
    BY <1>0, <1>2 DEF Heads
  <2> QED
    BY <2>1, Zenon
<1>3. ASSUME NEW k \in Heads(r), Clean(r, k) PROVE PipeItem(L, r, s, k)
  <2>1. \/ k \in Heads(p) /\ PipeItem(L, r, s, k)
        \/ k \notin Heads(p) /\ AllClean(p) /\ \A j \in Heads(p) : Clean(p, j)
    BY <1>0, <1>1, <1>3, LongerPipe, Zenon
  <2>2. k \in 1..k
    BY DEF Heads
  <2> QED
    BY <1>2, <1>3, <2>1, <2>2, Zenon DEF Clean
<1>4. ~AllClean(r)
  <2> SUFFICES ASSUME AllClean(r) PROVE FALSE
    OBVIOUS
  <2>1. \A j \in Heads(p) : j \in Heads(r) /\ 2 * j - 1 \in 1..Len(p)
    BY <1>0 DEF Heads
  <2>2. AllClean(p)
    BY <2>1, Zenon DEF AllClean
  <2>3. PICK h : h = Len(p) \div 2
    OBVIOUS
  <2>4. h \in Nat /\ Len(p) = 2 * h
    BY <1>0, <1>1, <2>2, <2>3
  <2>5. h + 1 \in Heads(r) /\ h + 1 \notin Heads(p)
    BY <1>0, <2>4 DEF Heads
  <2> QED
    BY <1>2, <2>5, Zenon DEF AllClean
<1> QED
  BY <1>3, <1>4, Zenon DEF Sound, Whole

\* l has the elements of a and behind them those of b.
Joined(l, a, b) ==
    /\ Len(l) = Len(a) + Len(b)
    /\ \A i \in 1..Len(a) : l[i] = a[i]
    /\ \A i \in 1..Len(b) : l[Len(a) + i] = b[i]

(* Concatenation joins units and pairs.                                    *)
LEMMA UnitsJoined == \A a, b \in Seq(Unit) : a \o b \in Seq(Unit) /\ Joined(a \o b, a, b)
  BY DEF Joined

(* The same of events.                                                     *)
LEMMA PairsJoined ==
    \A a, b \in Pairs : a \o b \in Pairs /\ Joined(a \o b, a, b)
  BY DEF Joined, Pairs

(* Events behind events behind events.                                     *)
LEMMA PairsAssociative ==
    \A a, b, c \in Pairs : a \o (b \o c) = (a \o b) \o c
  BY ConcatAssociative DEF Pairs

\* The first q heads of the buffer b are sound, e their events and o the rest of it.
Splits(b, q, e, o) ==
    /\ q \in Nat /\ 2 * q <= Len(b) /\ \A j \in 1..q : b[2 * j - 1] # 0
    /\ Len(e) = q /\ \A i \in 1..q : e[i] = <<b[2 * i - 1], b[2 * i]>>
    /\ Len(o) = Len(b) - 2 * q
    /\ \A i \in 1..(Len(b) - 2 * q) : o[i] = b[2 * q + i]

(* Taking the first events of a buffer to the log.                         *)
LEMMA SplitSound ==
    ASSUME NEW L \in Pairs, NEW b \in Seq(Unit), NEW w \in Seq(Unit), NEW s \in Seq(0..MaxConn),
           Sound(L, b \o w, s),
           NEW e \in Pairs, NEW o \in Seq(Unit), NEW q \in Nat, Splits(b, q, e, o)
    PROVE  /\ Sound(L \o e, o \o w, s)
           /\ \A c : Whole(L, b \o w, s, c) => Whole(L \o e, o \o w, s, c)
<1> USE DEF Splits
<1>0. Len(b) \in Nat /\ Len(w) \in Nat /\ Len(L) \in Nat /\ Len(o) \in Nat
  OBVIOUS
<1>1. PICK p : p = b \o w
  OBVIOUS
<1>2. /\ p \in Seq(Unit) /\ Len(p) = Len(b) + Len(w)
      /\ \A i \in 1..Len(b) : p[i] = b[i]
      /\ \A i \in 1..Len(w) : p[Len(b) + i] = w[i]
  BY <1>1, UnitsJoined, Zenon DEF Joined
<1>3. PICK M : M = L \o e
  OBVIOUS
<1>4. /\ M \in Pairs /\ Len(M) = Len(L) + Len(e)
      /\ \A i \in 1..Len(L) : M[i] = L[i]
      /\ \A i \in 1..Len(e) : M[Len(L) + i] = e[i]
  BY <1>3, PairsJoined, Zenon DEF Joined
<1>5. PICK r : r = o \o w
  OBVIOUS
<1>6. /\ r \in Seq(Unit) /\ Len(r) = Len(o) + Len(w)
      /\ \A i \in 1..Len(o) : r[i] = o[i]
      /\ \A i \in 1..Len(w) : r[Len(o) + i] = w[i]
  BY <1>5, UnitsJoined, Zenon DEF Joined
<1>7. \A i \in 1..q : 2 * i - 1 \in 1..Len(b) /\ 2 * i \in 1..Len(b)
  BY <1>0
<1>8. Len(p) \in Nat /\ 2 * q <= Len(p) /\ Len(r) = Len(p) - 2 * q /\ Len(M) = Len(L) + q
  BY <1>0, <1>2, <1>4, <1>6
<1>9. Clean(p, q)
  BY <1>2, <1>7, Zenon DEF Clean
<1>10. \A i \in 1..q : M[Len(L) + i] = <<p[2 * i - 1], p[2 * i]>>
  BY <1>2, <1>4, <1>7, Zenon
<1>11. ASSUME NEW i \in 1..Len(r) PROVE r[i] = p[2 * q + i]
  <2>0. Len(r) = Len(o) + Len(w) /\ i \in Nat /\ i >= 1 /\ i <= Len(o) + Len(w)
    BY <1>0, <1>6
  <2>1. CASE i <= Len(o)
    <3>1. i \in 1..Len(o) /\ i \in 1..(Len(b) - 2 * q) /\ 2 * q + i \in 1..Len(b)
      BY <1>0, <2>0, <2>1
    <3> QED
      BY <1>2, <1>6, <3>1, Zenon
  <2>2. CASE i > Len(o)
    <3>1. PICK j : j = i - Len(o)
      OBVIOUS
    <3>2. j \in 1..Len(w) /\ i = Len(o) + j /\ 2 * q + i = Len(b) + j
      BY <1>0, <2>0, <2>2, <3>1
    <3> QED
      BY <1>2, <1>6, <3>2, Zenon
  <2> QED
    BY <1>0, <2>0, <2>1, <2>2
<1>12. Sound(L, p, s)
  BY <1>1
<1>12a. Moved(L, p, q, M, r)
  BY <1>8, <1>9, <1>10, <1>11, <1>4, Zenon DEF Moved
<1>13. Sound(M, r, s) /\ \A c : Whole(L, p, s, c) => Whole(M, r, s, c)
  BY <1>2, <1>4, <1>6, <1>12, <1>12a, MoveSound, Zenon
<1> QED
  BY <1>1, <1>3, <1>5, <1>13, Zenon

-----------------------------------------------------------------------------
(* The steps that move data *)

(* The loop makes the buffer's events the queue's.                         *)
LEMMA IterateSound ==
    ASSUME TypeOK, Sound(Log, Pipe, sentOn), NEW b \in Seq(Unit), Iterate(b),
           wire' \in Seq(Unit), b \o wire' = Pipe, got' = got, sentOn' = sentOn
    PROVE  /\ Sound(Log', Pipe', sentOn')
           /\ \A c : Whole(Log, Pipe, sentOn, c) => Whole(Log', Pipe', sentOn', c)
<1>1. CASE buf' = b /\ queue' = queue
  <2>1. Log' = Log /\ Pipe' = Pipe
    BY <1>1 DEF Log, Pipe
  <2> QED
    BY <2>1, Zenon
<1>2. CASE ~Malformed(b) /\ queue' = queue \o Events(b) /\ buf' = Leftover(b)
  <2>1. PICK q \in Nat :
        /\ q = Len(b) \div 2 /\ 2 * q <= Len(b) /\ Len(b) <= 2 * q + 1
        /\ Events(b) \in Seq(Unit \X Unit) /\ Len(Events(b)) = q
        /\ \A i \in 1..q : Events(b)[i] = <<b[2 * i - 1], b[2 * i]>>
        /\ Leftover(b) \in Seq(Unit) /\ Len(Leftover(b)) = Len(b) - 2 * q
        /\ \A i \in 1..(Len(b) - 2 * q) : Leftover(b)[i] = b[2 * q + i]
    BY SplitEvents, Zenon
  <2>2. \A j \in 1..q : b[2 * j - 1] # 0
    <3>1. \A j \in 1..q : j \in 1..Len(b) /\ 2 * j - 1 <= Len(b)
      BY <2>1
    <3> QED
      BY <1>2, <3>1, Zenon DEF Malformed
  <2>3. /\ Log \in Pairs /\ sentOn \in Seq(0..MaxConn) /\ got \in Pairs /\ queue \in Pairs
        /\ Events(b) \in Pairs
    BY <2>1 DEF TypeOK, Pairs, Log
  <2>4. Log' = Log \o Events(b)
    <3>1. got \o (queue \o Events(b)) = (got \o queue) \o Events(b)
      BY <2>3, PairsAssociative, Zenon
    <3> QED
      BY <1>2, <3>1, Zenon DEF Log
  <2>5. Pipe' = Leftover(b) \o wire'
    BY <1>2 DEF Pipe
  <2>6. /\ Sound(Log \o Events(b), Leftover(b) \o wire', sentOn)
        /\ \A c : Whole(Log, b \o wire', sentOn, c) =>
                  Whole(Log \o Events(b), Leftover(b) \o wire', sentOn, c)
    <3>1. PICK w : w = wire'
      OBVIOUS
    <3>2. w \in Seq(Unit) /\ Sound(Log, b \o w, sentOn)
      BY <3>1, Zenon
    <3>3. /\ Sound(Log \o Events(b), Leftover(b) \o w, sentOn)
          /\ \A c : Whole(Log, b \o w, sentOn, c) =>
                    Whole(Log \o Events(b), Leftover(b) \o w, sentOn, c)
      <4>1. Splits(b, q, Events(b), Leftover(b))
        BY <2>1, <2>2, Zenon DEF Splits
      <4> QED
        BY <2>1, <2>3, <3>2, <4>1, SplitSound, Zenon
    <3> QED
      BY <3>1, <3>3, Zenon
  <2> QED
    BY <2>4, <2>5, <2>6, Zenon
<1> QED
  BY <1>1, <1>2 DEF Iterate

(* recv() takes the first event of the buffer.                             *)
LEMMA TakeFirstSound ==
    ASSUME TypeOK, Sound(Log, Pipe, sentOn), NEW b \in Seq(Unit), TakeFirst(b),
           wire' \in Seq(Unit), b \o wire' = Pipe, queue = <<>>, queue' = queue,
           sentOn' = sentOn
    PROVE  /\ Sound(Log', Pipe', sentOn')
           /\ \A c : Whole(Log, Pipe, sentOn, c) => Whole(Log', Pipe', sentOn', c)
<1>0. got \in Pairs /\ sentOn \in Seq(0..MaxConn) /\ Log = got
  BY DEF TypeOK, Pairs, Log
<1>1. CASE buf' = b /\ got' = got
  <2>1. Log' = Log /\ Pipe' = Pipe
    BY <1>1 DEF Log, Pipe
  <2> QED
    BY <2>1, Zenon
<1>2. CASE /\ ~Malformed(b) /\ Len(b) >= 2
           /\ got' = Append(got, <<b[1], b[2]>>)
           /\ buf' = SubSeq(b, 3, Len(b))
  <2>1. PICK e, o, w, q : /\ e = << <<b[1], b[2]>> >> /\ o = SubSeq(b, 3, Len(b)) /\ w = wire'
                          /\ q = 1
    OBVIOUS
  <2>2. b[1] \in Unit /\ b[2] \in Unit /\ Len(b) \in Nat
    BY <1>2
  <2>3. q \in Nat /\ 2 * q <= Len(b) /\ \A i \in 1..q : i = 1 /\ 2 * i - 1 = 1 /\ 2 * i = 2
    BY <1>2, <2>1, <2>2
  <2>4. e \in Pairs /\ Len(e) = q /\ e[1] = <<b[1], b[2]>>
    BY <2>1, <2>2 DEF Pairs
  <2>5. \A i \in 1..q : e[i] = <<b[2 * i - 1], b[2 * i]>>
    BY <2>3, <2>4, Zenon
  <2>6. \A j \in 1..q : b[2 * j - 1] # 0
    <3>1. 1 \in 1..Len(b) /\ 2 * 1 - 1 <= Len(b) /\ 2 * 1 - 1 = 1
      BY <1>2, <2>2
    <3>2. b[1] # 0
      BY <1>2, <3>1, Zenon DEF Malformed
    <3> QED
      BY <2>3, <3>2, Zenon
  <2>7. /\ o \in Seq(Unit) /\ Len(o) = Len(b) - 2 * q
        /\ \A i \in 1..(Len(b) - 2 * q) : o[i] = b[2 * q + i]
    <3>1. PICK n : n = 2
      OBVIOUS
    <3>2. n \in 0..Len(b) /\ n + 1 = 3 /\ 2 * q = n
      BY <1>2, <2>1, <2>2, <3>1
    <3>3. o = SubSeq(b, n + 1, Len(b))
      BY <2>1, <3>2, Zenon
    <3>4. /\ o \in Seq(Unit) /\ Len(o) = Len(b) - n
          /\ \A i \in 1..(Len(b) - n) : o[i] = b[n + i]
      BY <3>2, <3>3, CutSeq, Zenon
    <3> QED
      BY <3>2, <3>4, Zenon
  <2>8. w \in Seq(Unit) /\ Sound(Log, b \o w, sentOn) /\ Log \in Pairs
    BY <1>0, <2>1, Zenon
  <2>9. /\ Sound(Log \o e, o \o w, sentOn)
        /\ \A c : Whole(Log, b \o w, sentOn, c) => Whole(Log \o e, o \o w, sentOn, c)
    <3>1. Splits(b, q, e, o)
      BY <2>3, <2>4, <2>5, <2>6, <2>7, Zenon DEF Splits
    <3> QED
      BY <1>0, <2>3, <2>4, <2>7, <2>8, <3>1, SplitSound, Zenon
  <2>10. Log' = Log \o e
    <3>1. got' \in Seq(Unit \X Unit) /\ <<b[1], b[2]>> \in Unit \X Unit
      BY <1>0, <1>2, <2>2 DEF Pairs
    <3>2. got' = got \o e
      BY <1>0, <1>2, <2>1, <3>1, AppendIsConcat DEF Pairs
    <3>3. Log' = got'
      BY <3>1 DEF Log
    <3> QED
      BY <1>0, <3>2, <3>3, Zenon
  <2>11. Pipe' = o \o w /\ b \o w = Pipe
    BY <1>2, <2>1, Zenon DEF Pipe
  <2> QED
    BY <2>9, <2>10, <2>11, Zenon
<1> QED
  BY <1>1, <1>2, TakeFirstStep

\* The subscription is being made: nothing has been sent on its connection.
Dialling == pc \in {"dial", "write"} \/ sub \in {"dial", "write"}

(* The parts of the invariant after a step.                                *)
LEMMA DataAfter ==
    ASSUME Sound(Log', Pipe', sentOn'),
           heard' => conn' > 0 /\ Whole(Log', Pipe', sentOn', conn'),
           \A m \in 1..Len(sentOn') : sentOn'[m] <= conn',
           Dialling' => conn' > 0 /\ \A m \in 1..Len(sentOn') : sentOn'[m] < conn'
    PROVE  DataInv'
  BY DEF DataInv, Dialling, Sound, Whole, LogItem, PipeItem, InLog, AllClean, Heads, Clean

(* A step that leaves the data alone.                                      *)
LEMMA KeepsData ==
    ASSUME DataInv, Log' = Log, Pipe' = Pipe, sentOn' = sentOn, conn' = conn,
           heard' => heard, Dialling' => Dialling
    PROVE  DataInv'
<1>1. Sound(Log', Pipe', sentOn')
  BY Zenon DEF DataInv
<1>2. heard' => conn' > 0 /\ Whole(Log', Pipe', sentOn', conn')
  BY Zenon DEF DataInv
<1>3. /\ \A m \in 1..Len(sentOn') : sentOn'[m] <= conn'
      /\ Dialling' => conn' > 0 /\ \A m \in 1..Len(sentOn') : sentOn'[m] < conn'
  BY Zenon DEF DataInv, Dialling
<1> QED
  BY <1>1, <1>2, <1>3, DataAfter

(* A stream that ends behind its first units.                              *)
LEMMA CutsData ==
    ASSUME CInv, DataInv, NEW n \in 0..Len(wire), wire' = SubSeq(wire, 1, n), buf' = buf,
           Log' = Log, sentOn' = sentOn, conn' = conn, ~heard', Dialling' => Dialling
    PROVE  DataInv'
<1>0. /\ wire \in Seq(Unit) /\ buf \in Seq(Unit) /\ Len(wire) \in Nat /\ Len(buf) \in Nat
      /\ n \in Nat /\ n <= Len(wire)
      /\ Log \in Pairs /\ sentOn \in Seq(0..MaxConn)
  BY DEF CInv, TypeOK, Log, Pairs
<1>1. PICK w : w = SubSeq(wire, 1, n)
  OBVIOUS
<1>2. w \in Seq(Unit) /\ Len(w) = n /\ \A i \in 1..n : w[i] = wire[i]
  BY <1>0, <1>1, CutSeq, Zenon
<1>3. PICK p, r : p = buf \o wire /\ r = buf \o w
  OBVIOUS
<1>4. p \in Seq(Unit) /\ r \in Seq(Unit) /\ Joined(p, buf, wire) /\ Joined(r, buf, w)
  BY <1>0, <1>2, <1>3, UnitsJoined, Zenon
<1>5. Len(r) = Len(buf) + n /\ Len(p) = Len(buf) + Len(wire) /\ Len(r) <= Len(p)
  BY <1>0, <1>2, <1>4 DEF Joined
<1>6. ASSUME NEW i \in 1..Len(r) PROVE r[i] = p[i]
  <2>1. CASE i \in 1..Len(buf)
    BY <1>4, <2>1, Zenon DEF Joined
  <2>2. CASE i \notin 1..Len(buf)
    <3>1. PICK j : j = i - Len(buf)
      OBVIOUS
    <3>2. j \in 1..n /\ j \in 1..Len(wire) /\ i = Len(buf) + j
      BY <1>0, <1>5, <2>2, <3>1
    <3> QED
      BY <1>2, <1>4, <3>2, Zenon DEF Joined
  <2> QED
    BY <2>1, <2>2
<1>7. Sound(Log, r, sentOn)
  <2>1. Sound(Log, p, sentOn)
    BY <1>3, Zenon DEF DataInv, Pipe
  <2> QED
    BY <1>0, <1>4, <1>5, <1>6, <2>1, PrefixSound, Zenon
<1>8. Sound(Log', Pipe', sentOn')
  <2>1. Pipe' = r
    BY <1>1, <1>3, Zenon DEF Pipe
  <2> QED
    BY <1>7, <2>1, Zenon
<1>9. /\ \A m \in 1..Len(sentOn') : sentOn'[m] <= conn'
      /\ Dialling' => conn' > 0 /\ \A m \in 1..Len(sentOn') : sentOn'[m] < conn'
  BY Zenon DEF DataInv, Dialling
<1> QED
  BY <1>8, <1>9, DataAfter

(* subscribe() and the reconnects.                                         *)
LEMMA SubscribesData ==
    ASSUME CInv, DataInv,
           \/ SubConnect \/ SubDial \/ SubWrite \/ SubFails \/ SubCancelled
           \/ LoopConnect \/ LoopDial \/ LoopWrite
    PROVE  DataInv'
<1>0. /\ wire \in Seq(Unit) /\ buf \in Seq(Unit) /\ Len(wire) \in Nat /\ conn \in Nat
      /\ Log \in Pairs /\ sentOn \in Seq(0..MaxConn) /\ 0 \in 0..Len(wire) /\ ~heard
      /\ queue \in Pairs
  BY BoundsAssumption DEF CInv, TypeOK, Log, Pairs, ControlInv, SubConnect, SubDial, SubWrite,
         SubFails, SubCancelled, LoopConnect, LoopDial, LoopWrite, MaxConn
<1>1. CASE SubConnect \/ LoopConnect
  <2>1. /\ conn' = conn + 1 /\ UNCHANGED <<got, queue, buf, wire, sentOn, heard>>
    BY <1>1 DEF SubConnect, LoopConnect, Connect, app, broker
  <2>2. Log' = Log /\ Pipe' = Pipe
    BY <2>1 DEF Log, Pipe
  <2>3. Sound(Log', Pipe', sentOn')
    BY <2>1, <2>2, Zenon DEF DataInv
  <2>4. ASSUME NEW m \in 1..Len(sentOn) PROVE sentOn[m] <= conn' /\ sentOn[m] < conn'
    <3>1. sentOn[m] \in 0..MaxConn
      BY <1>0, ElementOfSeq, Zenon
    <3>2. sentOn[m] <= conn
      BY Zenon DEF DataInv
    <3> QED
      BY <1>0, <2>1, <3>1, <3>2
  <2>5. conn' > 0
    BY <1>0, <2>1
  <2> QED
    BY <1>0, <2>1, <2>3, <2>4, <2>5, DataAfter
<1>2. CASE SubDial \/ LoopDial
  <2>1. /\ UNCHANGED <<got, queue, buf, sentOn, conn, heard>> /\ wire' = <<>> /\ Dialling
    BY <1>2 DEF SubDial, LoopDial, Dial, app, broker, Dialling
  <2>2. wire' = SubSeq(wire, 1, 0)
    BY <1>0, <2>1
  <2>3. Log' = Log
    BY <2>1 DEF Log
  <2> QED
    BY <1>0, <2>1, <2>2, <2>3, CutsData
<1>3. CASE SubFails \/ SubCancelled
  <2>1. /\ UNCHANGED <<got, queue, buf, wire, sentOn, conn, heard>>
        /\ (Dialling' => Dialling)
    BY <1>3 DEF SubFails, SubCancelled, app, broker, link, task, Dialling
  <2>2. Log' = Log /\ Pipe' = Pipe
    BY <2>1 DEF Log, Pipe
  <2> QED
    BY <2>1, <2>2, KeepsData
<1>4. CASE SubWrite \/ LoopWrite
  <2>1. /\ wire = <<>> /\ wire' = <<>> /\ Dialling /\ conn' = conn /\ got' = got
        /\ sentOn' = sentOn
    BY <1>4 DEF SubWrite, LoopWrite, CInv, ControlInv, link, app, Dialling
  <2>2. buf' = <<>> /\ queue' = queue /\ ~Dialling'
    <3>1. CASE SubWrite
      BY <3>1 DEF SubWrite, CInv, ControlInv, Dialling
    <3>2. CASE LoopWrite
      <4>1. Iterate(<<>>) /\ sub' = "open"
        BY <3>2 DEF LoopWrite, FreshBuf, CInv, ControlInv
      <4>2. Events(<<>>) = <<>> /\ Leftover(<<>>) = <<>> /\ queue \o <<>> = queue
        BY <1>0 DEF Events, Leftover, Pairs
      <4> QED
        BY <4>1, <4>2 DEF Iterate, Dialling
    <3> QED
      BY <1>4, <3>1, <3>2
  <2>3. Log' = Log /\ Pipe' = <<>>
    BY <2>1, <2>2 DEF Log, Pipe
  <2>4. Sound(Log, <<>>, sentOn)
    <3>1. Heads(<<>>) = {}
      BY DEF Heads
    <3>2. /\ \A i \in 1..Len(Log) : LogItem(Log, sentOn, i)
          /\ \A i, j \in 1..Len(Log) : j < i => Log[j][2] < Log[i][2]
      BY Zenon DEF DataInv, Sound
    <3> QED
      BY <3>1, <3>2, Zenon DEF Sound
  <2>5. conn > 0 /\ Whole(Log, <<>>, sentOn, conn)
    <3>1. conn > 0 /\ \A m \in 1..Len(sentOn) : sentOn[m] < conn
      BY <2>1, Zenon DEF DataInv, Dialling
    <3>2. \A m \in 1..Len(sentOn) : sentOn[m] # conn
      BY <1>0, <3>1
    <3>3. 2 * (Len(<<>>) \div 2) = Len(<<>>)
      OBVIOUS
    <3> QED
      BY <3>1, <3>2, <3>3, Zenon DEF Whole
  <2>6. \A m \in 1..Len(sentOn') : sentOn'[m] <= conn'
    BY <2>1, Zenon DEF DataInv
  <2>7. Sound(Log', Pipe', sentOn') /\ conn' > 0 /\ Whole(Log', Pipe', sentOn', conn')
    BY <2>1, <2>3, <2>4, <2>5, Zenon
  <2> QED
    BY <2>2, <2>6, <2>7, DataAfter
<1> QED
  BY <1>1, <1>2, <1>3, <1>4

(* The reads of the loop and of recv().                                    *)
LEMMA ReadsData ==
    ASSUME CInv, DataInv, Reading \/ LoopAttemptFails \/ Receiving, ~LoopEof, ~RecvEof
    PROVE  DataInv'
<1>0. /\ wire \in Seq(Unit) /\ buf \in Seq(Unit) /\ Len(wire) \in Nat /\ TypeOK
      /\ sub = "open" /\ Sound(Log, Pipe, sentOn)
  BY DEF CInv, TypeOK, ControlInv, DataInv, Reading, LoopStart, LoopRead, LoopAttemptFails,
         Receiving, RecvCall, RecvChunk, MayRecv
<1>1. ASSUME /\ Sound(Log', Pipe', sentOn')
             /\ \A c : Whole(Log, Pipe, sentOn, c) => Whole(Log', Pipe', sentOn', c),
             UNCHANGED <<sub, conn, sentOn, heard>>, pc' \notin {"dial", "write"}
      PROVE  DataInv'
  <2>1. heard' => conn' > 0 /\ Whole(Log', Pipe', sentOn', conn')
    <3>1. heard => conn > 0 /\ Whole(Log, Pipe, sentOn, conn)
      BY Zenon DEF DataInv
    <3> QED
      BY <1>1, <3>1, Zenon
  <2>2. \A m \in 1..Len(sentOn') : sentOn'[m] <= conn'
    BY <1>1, Zenon DEF DataInv
  <2>3. ~Dialling'
    BY <1>0, <1>1 DEF Dialling
  <2> QED
    BY <1>1, <2>1, <2>2, <2>3, DataAfter
<1>2. CASE LoopStart \/ LoopAttemptFails
  <2>1. /\ Iterate(buf) /\ UNCHANGED <<sub, conn, sentOn, heard, wire, got>>
    BY <1>2 DEF LoopStart, LoopAttemptFails, AfterFailure, link, app, broker
  <2>2. buf \o wire' = Pipe /\ wire' \in Seq(Unit)
    BY <1>0, <2>1 DEF Pipe
  <2>3. /\ Sound(Log', Pipe', sentOn')
        /\ \A c : Whole(Log, Pipe, sentOn, c) => Whole(Log', Pipe', sentOn', c)
    BY <1>0, <2>1, <2>2, IterateSound
  <2>4. pc' \notin {"dial", "write"}
    BY <1>0, <2>1, IterateStep
  <2> QED
    BY <1>1, <2>1, <2>3, <2>4
<1>3. ASSUME NEW n \in 1..Len(wire), LoopRead(n) \/ RecvChunk(n) PROVE DataInv'
  <2>0. PICK b, w : b = buf \o SubSeq(wire, 1, n) /\ w = SubSeq(wire, n + 1, Len(wire))
    OBVIOUS
  <2>1. n \in 0..Len(wire)
    OBVIOUS
  <2>2. b \in Seq(Unit) /\ w \in Seq(Unit) /\ b \o w = Pipe
    BY <1>0, <2>0, <2>1, ReadPieces, Zenon DEF Pipe
  <2>3. wire' = w /\ UNCHANGED <<sub, conn, sentOn, heard>>
    BY <1>3, <2>0 DEF LoopRead, RecvChunk, broker
  <2>4. b \o wire' = Pipe /\ wire' \in Seq(Unit)
    BY <2>2, <2>3, Zenon
  <2>5. CASE LoopRead(n)
    <3>1. Iterate(b) /\ got' = got
      BY <2>0, <2>5 DEF LoopRead, app
    <3>2. /\ Sound(Log', Pipe', sentOn')
          /\ \A c : Whole(Log, Pipe, sentOn, c) => Whole(Log', Pipe', sentOn', c)
      BY <1>0, <2>2, <2>3, <2>4, <3>1, IterateSound
    <3>3. pc' \notin {"dial", "write"}
      BY <1>0, <2>2, <3>1, IterateStep
    <3> QED
      BY <1>1, <2>3, <3>2, <3>3
  <2>6. CASE RecvChunk(n)
    <3>1. TakeFirst(b) /\ pc' = "none" /\ queue = <<>> /\ queue' = queue
      BY <2>0, <2>6 DEF RecvChunk, CInv, ControlInv, auto, task
    <3>2. /\ Sound(Log', Pipe', sentOn')
          /\ \A c : Whole(Log, Pipe, sentOn, c) => Whole(Log', Pipe', sentOn', c)
      BY <1>0, <2>2, <2>3, <2>4, <3>1, TakeFirstSound
    <3> QED
      BY <1>1, <2>3, <3>1, <3>2
  <2> QED
    BY <1>3, <2>5, <2>6
<1>4. CASE RecvCall
  <2>1. /\ TakeFirst(buf) /\ UNCHANGED <<sub, conn, sentOn, heard, wire>>
        /\ pc' = "none" /\ queue = <<>> /\ queue' = queue
    BY <1>4 DEF RecvCall, CInv, ControlInv, auto, task, link, broker
  <2>2. buf \o wire' = Pipe /\ wire' \in Seq(Unit)
    BY <1>0, <2>1 DEF Pipe
  <2>3. /\ Sound(Log', Pipe', sentOn')
        /\ \A c : Whole(Log, Pipe, sentOn, c) => Whole(Log', Pipe', sentOn', c)
    BY <1>0, <2>1, <2>2, TakeFirstSound
  <2> QED
    BY <1>1, <2>1, <2>3
<1> QED
  BY <1>2, <1>3, <1>4 DEF Reading, Receiving

(* The other steps of the loop, recv() and close(), the publisher's        *)
(* connection.                                                             *)
LEMMA OthersData ==
    ASSUME CInv, DataInv,
           \/ LoopEof \/ LoopIdle \/ LoopWake \/ LoopCancelled \/ RecvQueued \/ RecvEof
           \/ RecvFails \/ CloseBegin \/ Publisher \/ PubClose \/ PubLost
    PROVE  DataInv'
<1>1. UNCHANGED <<buf, wire, conn, sentOn, heard>> /\ (Dialling' => Dialling)
  BY DEF LoopEof, LoopIdle, LoopWake, LoopCancelled, RecvQueued, RecvEof, RecvFails, CloseBegin,
         Publisher, PubClose, PubLost, PubStep, Dropped, task, link, app, broker, Dialling
<1>2. Log' = Log
  <2>1. CASE RecvQueued
    <3>1. got \in Pairs /\ queue \in Pairs /\ queue # <<>>
      BY <2>1 DEF RecvQueued, CInv, TypeOK, Pairs
    <3>2. PICK h, t : h = Head(queue) /\ t = Tail(queue)
      OBVIOUS
    <3>3. /\ h \in Unit \X Unit /\ t \in Pairs /\ Len(t) = Len(queue) - 1 /\ h = queue[1]
          /\ \A i \in 1..Len(t) : t[i] = queue[i + 1]
      BY <3>1, <3>2, HeadTailProperties DEF Pairs
    <3>4. Append(got, h) \o t = got \o (<<h>> \o t)
      BY <3>1, <3>3, AppendIsConcat, ConcatAssociative DEF Pairs
    <3>5. <<h>> \o t = queue
      <4>1. PICK l : l = <<h>> \o t
        OBVIOUS
      <4>2. l \in Seq(Unit \X Unit) /\ queue \in Seq(Unit \X Unit) /\ Len(l) = Len(queue)
        BY <3>1, <3>3, <4>1 DEF Pairs
      <4>3. ASSUME NEW i \in 1..Len(queue) PROVE l[i] = queue[i]
        BY <3>1, <3>3, <4>1 DEF Pairs
      <4> QED
        BY <4>1, <4>2, <4>3, SeqEqual, Zenon
    <3> QED
      BY <2>1, <3>2, <3>4, <3>5 DEF RecvQueued, Log
  <2>2. CASE ~RecvQueued
    BY <2>2 DEF LoopEof, LoopIdle, LoopWake, LoopCancelled, RecvEof, RecvFails, CloseBegin,
                Publisher, PubClose, PubLost, PubStep, app, Log
  <2> QED
    BY <2>1, <2>2
<1>3. Pipe' = Pipe
  BY <1>1 DEF Pipe
<1> QED
  BY <1>1, <1>2, <1>3, KeepsData

(* A stream closed on this side or by the broker, a connection lost.       *)
LEMMA ClosesData ==
    ASSUME CInv, DataInv, LoopDrop \/ CloseEnd \/ RemoteClose \/ ConnLost
    PROVE  DataInv'
<1>1. UNCHANGED <<buf, queue, got, conn, sentOn>> /\ (Dialling' => Dialling)
  BY DEF LoopDrop, CloseEnd, RemoteClose, ConnLost, CloseStream, task, app, Dialling
<1>2. Log' = Log
  BY <1>1 DEF Log
<1>3. CASE ConnLost /\ stream # "open"
  <2>1. UNCHANGED <<wire, heard>>
    BY <1>3 DEF ConnLost
  <2>2. Pipe' = Pipe
    BY <1>1, <2>1 DEF Pipe
  <2> QED
    BY <1>1, <1>2, <2>1, <2>2, KeepsData
<1>4. CASE ~(ConnLost /\ stream # "open")
  <2>1. ~heard' /\ \E n \in 0..Len(wire) : wire' = SubSeq(wire, 1, n)
    BY <1>4 DEF LoopDrop, CloseEnd, RemoteClose, ConnLost, CloseStream, StreamEnds
  <2> QED
    BY <1>1, <1>2, <2>1, CutsData
<1> QED
  BY <1>3, <1>4

(* Units behind units behind units.                                        *)
LEMMA UnitsAssociative ==
    \A a, b, c \in Seq(Unit) : a \o (b \o c) = (a \o b) \o c
  BY ConcatAssociative

(* A single unit behind others.                                            *)
LEMMA UnitAppended ==
    \A w \in Seq(Unit) : \A x \in Unit : Append(w, x) = w \o <<x>> /\ <<x>> \in Seq(Unit)
  BY AppendIsConcat

(* What comes from the publisher, and what should not have come.           *)
LEMMA ArrivesData ==
    ASSUME CInv, DataInv, Publish \/ Garbage
    PROVE  DataInv'
<1>0. /\ wire \in Seq(Unit) /\ buf \in Seq(Unit) /\ Pipe \in Seq(Unit) /\ Log \in Pairs
      /\ sentOn \in Seq(0..MaxConn) /\ Len(sentOn) \in Nat /\ conn \in 0..MaxConn /\ conn \in Nat
      /\ Len(sentOn) <= MaxEvents /\ 0 \in 0..MaxConn
  BY BoundsAssumption DEF CInv, TypeOK, Log, Pipe, Pairs, MaxConn
<1>1. UNCHANGED <<buf, conn, heard>> /\ (Dialling' => Dialling) /\ Log' = Log
  BY DEF Publish, Garbage, task, app, broker, Dialling, Log
<1>2. /\ Sound(Log, Pipe, sentOn)
      /\ heard => conn > 0 /\ Whole(Log, Pipe, sentOn, conn)
      /\ \A m \in 1..Len(sentOn) : sentOn[m] <= conn
      /\ Dialling => conn > 0 /\ \A m \in 1..Len(sentOn) : sentOn[m] < conn
  BY Zenon DEF DataInv, Dialling
<1>3. ~(Dialling /\ heard)
  BY DEF Dialling, CInv, ControlInv
<1>4. CASE Publish
  <2>0. PICK c : c = IF heard THEN conn ELSE 0
    OBVIOUS
  <2>1. PICK n, t : n = Len(sentOn) + 1 /\ t = Append(sentOn, c)
    OBVIOUS
  <2>2. /\ sentOn' = t /\ n <= MaxEvents
        /\ wire' = IF heard THEN wire \o <<2 * n - 1, 2 * n>> ELSE wire
    BY <1>0, <1>4, <2>0, <2>1, BoundsAssumption DEF Publish
  <2>3. n \in Nat /\ n >= 1 /\ 2 * n - 1 \in Unit /\ 2 * n \in Unit
    BY <1>0, <2>1, <2>2, BoundsAssumption DEF Unit
  <2>4. c \in 0..MaxConn /\ c <= conn /\ (heard => c = conn) /\ (~heard => c = 0)
    BY <1>0, <2>0
  <2>5. /\ t \in Seq(0..MaxConn) /\ Len(t) = n /\ \A m \in 1..Len(sentOn) : t[m] = sentOn[m]
        /\ t[n] = c
    BY <1>0, <2>1, <2>4, AppendProperties
  <2>6. \A m \in 1..Len(t) : m \in 1..Len(sentOn) \/ m = n
    BY <1>0, <2>1, <2>5
  <2>7. \A m \in 1..Len(t) : t[m] <= conn
    BY <1>2, <2>4, <2>5, <2>6, Zenon
  <2>8. CASE ~heard
    <3>1. Pipe' = Pipe
      BY <1>1, <2>2, <2>8 DEF Pipe
    <3>2. Len(sentOn) <= Len(t)
      BY <1>0, <2>1, <2>5
    <3>3. Sound(Log, Pipe, t)
      BY <1>0, <1>2, <2>5, <3>2, LaterSound, Zenon
    <3>4. Dialling => conn > 0 /\ \A m \in 1..Len(t) : t[m] < conn
      <4>1. conn > 0 => t[n] < conn
        BY <1>0, <2>4, <2>5, <2>8
      <4> QED
        BY <1>2, <2>5, <2>6, <4>1, Zenon
    <3>5. Sound(Log', Pipe', sentOn')
      BY <1>1, <2>2, <3>1, <3>3, Zenon
    <3> QED
      BY <1>1, <2>2, <2>7, <2>8, <3>4, <3>5, DataAfter
  <2>9. CASE heard
    <3>1. PICK e : e = <<2 * n - 1, 2 * n>>
      OBVIOUS
    <3>2. e \in Seq(Unit)
      BY <2>3, <3>1
    <3>3. Pipe' = Pipe \o e
      BY <1>0, <1>1, <2>2, <2>9, <3>1, <3>2, UnitsAssociative, Zenon DEF Pipe
    <3>4. PICK r : r = Pipe \o <<2 * n - 1, 2 * n>>
      OBVIOUS
    <3>5. /\ r \in Seq(Unit) /\ Len(r) = Len(Pipe) + 2 /\ \A i \in 1..Len(Pipe) : r[i] = Pipe[i]
          /\ r[Len(Pipe) + 1] = 2 * n - 1 /\ r[Len(Pipe) + 2] = 2 * n
      BY <1>0, <2>3, <3>4, TwoMore
    <3>6. conn \in 1..MaxConn /\ Whole(Log, Pipe, sentOn, conn) /\ t[n] = conn
      <4>1. conn > 0 /\ Whole(Log, Pipe, sentOn, conn) /\ t[n] = conn
        BY <1>2, <2>4, <2>5, <2>9, Zenon
      <4>2. conn \in 1..MaxConn
        BY <1>0, <4>1
      <4> QED
        BY <4>1, <4>2
    <3>7. Sound(Log, r, t) /\ Whole(Log, r, t, conn)
      <4>1. Published(Pipe, sentOn, conn, n, r, t)
        BY <2>1, <2>5, <3>5, <3>6, Zenon DEF Published
      <4> QED
        BY <1>0, <1>2, <2>3, <2>5, <3>5, <3>6, <4>1, PublishSound, Zenon
    <3>8. Sound(Log', Pipe', sentOn') /\ Whole(Log', Pipe', sentOn', conn') /\ conn' > 0
      BY <1>1, <1>2, <2>2, <2>9, <3>1, <3>3, <3>4, <3>7, Zenon
    <3> QED
      BY <1>1, <1>3, <2>2, <2>7, <2>9, <3>8, DataAfter
  <2> QED
    BY <2>8, <2>9
<1>5. CASE Garbage
  <2>1. heard /\ wire' = Append(wire, 0) /\ sentOn' = sentOn
    BY <1>5 DEF Garbage, broker
  <2>2. 0 \in Unit
    BY BoundsAssumption DEF Unit
  <2>3. Append(wire, 0) = wire \o <<0>> /\ <<0>> \in Seq(Unit)
    BY <1>0, <2>2, UnitAppended, Zenon
  <2>4. Pipe' = Pipe \o <<0>>
    <3>1. PICK e : e = <<0>>
      OBVIOUS
    <3>2. e \in Seq(Unit) /\ wire' = wire \o e
      BY <2>1, <2>3, <3>1
    <3>3. Pipe' = Pipe \o e
      BY <1>0, <1>1, <3>2, UnitsAssociative, Zenon DEF Pipe
    <3> QED
      BY <3>1, <3>3
  <2>5. PICK r : r = Pipe \o <<0>>
    OBVIOUS
  <2>6. /\ r \in Seq(Unit) /\ Len(r) = Len(Pipe) + 1 /\ \A i \in 1..Len(Pipe) : r[i] = Pipe[i]
        /\ r[Len(Pipe) + 1] = 0
    BY <1>0, <2>2, <2>5
  <2>7. Sound(Log, r, sentOn) /\ Whole(Log, r, sentOn, conn)
    BY <1>0, <1>2, <2>1, <2>6, GarbageSound, Zenon
  <2>8. Sound(Log', Pipe', sentOn') /\ Whole(Log', Pipe', sentOn', conn') /\ conn' > 0
    BY <1>1, <1>2, <2>1, <2>4, <2>5, <2>7, Zenon
  <2>9. \A m \in 1..Len(sentOn') : sentOn'[m] <= conn'
    BY <1>1, <1>2, <2>1, Zenon
  <2> QED
    BY <1>1, <1>3, <2>1, <2>8, <2>9, DataAfter
<1> QED
  BY <1>4, <1>5

(* No step leaves either invariant.                                        *)
LEMMA DataStep == CInv /\ DataInv /\ [Next]_vars => DataInv'
<1> SUFFICES ASSUME CInv, DataInv, [Next]_vars PROVE DataInv'
  OBVIOUS
<1>1. CASE LoopEof \/ RecvEof
  BY <1>1, OthersData
<1>2. CASE Next /\ ~LoopEof /\ ~RecvEof
  BY <1>2, SubscribesData, ReadsData, OthersData, ClosesData, ArrivesData
     DEF Next, Reading, Reconnect, Receiving
<1>3. CASE UNCHANGED vars
  <2>1. Log' = Log /\ Pipe' = Pipe /\ UNCHANGED <<sentOn, conn, heard, pc, sub>>
    BY <1>3 DEF vars, task, link, app, broker, Log, Pipe
  <2> QED
    BY <2>1, KeepsData DEF Dialling
<1> QED
  BY <1>1, <1>2, <1>3

(* The channel starts with an empty log and an empty pipe.                 *)
LEMMA DataInit == Init => DataInv
<1> SUFFICES ASSUME Init PROVE DataInv
  OBVIOUS
<1>1. /\ Log = <<>> /\ Pipe = <<>> /\ sentOn = <<>> /\ ~heard /\ pc = "none" /\ sub = "connect"
  BY DEF Init, Log, Pipe
<1>2. Heads(<<>>) = {} /\ 1..Len(<<>>) = {}
  BY DEF Heads
<1> QED
  BY <1>1, <1>2 DEF DataInv, Sound

(* What a sound log says of each of its events.                            *)
LEMMA SoundNoGap ==
    ASSUME CInv, DataInv
    PROVE  NoGapInside
<1>0. /\ Log \in Pairs /\ sentOn \in Seq(0..MaxConn) /\ Len(sentOn) \in Nat /\ Len(Log) \in Nat
  BY DEF CInv, TypeOK, Log, Pairs
<1>1. \A x \in Nat : (2 * x) \div 2 = x
  OBVIOUS
<1>2. ASSUME NEW i \in 1..Len(Log)
      PROVE  \E n \in 1..Len(sentOn) :
               /\ n \in Nat /\ Log[i] = <<2 * n - 1, 2 * n>> /\ Number(Log[i]) = n
               /\ \A m \in 1..(n - 1) : sentOn[m] = sentOn[n] =>
                      \E j \in 1..(i - 1) : Log[j] = <<2 * m - 1, 2 * m>>
  <2>1. PICK n \in 1..Len(sentOn) :
          /\ Log[i] = <<2 * n - 1, 2 * n>>
          /\ \A m \in 1..(n - 1) : sentOn[m] = sentOn[n] =>
                 \E j \in 1..(i - 1) : Log[j] = <<2 * m - 1, 2 * m>>
    BY Zenon DEF DataInv, Sound, LogItem
  <2>2. n \in Nat
    BY <1>0
  <2>3. Log[i][2] = 2 * n
    BY <2>1
  <2>4. Number(Log[i]) = n
    BY <1>1, <2>2, <2>3, Zenon DEF Number
  <2> QED
    BY <2>1, <2>2, <2>4, Zenon
<1>3. ASSUME NEW i \in 1..Len(Log), NEW n, n = Number(Log[i])
      PROVE  /\ Log[i] = <<2 * n - 1, 2 * n>> /\ n \in 1..Len(sentOn)
             /\ \A j \in 1..(i - 1) : Number(Log[j]) < n
             /\ {m \in 1..(n - 1) : sentOn[m] = sentOn[n]} \subseteq
                    {Number(Log[j]) : j \in 1..(i - 1)}
  <2>1. /\ n \in 1..Len(sentOn) /\ n \in Nat /\ Log[i] = <<2 * n - 1, 2 * n>>
        /\ \A m \in 1..(n - 1) : sentOn[m] = sentOn[n] =>
               \E j \in 1..(i - 1) : Log[j] = <<2 * m - 1, 2 * m>>
    BY <1>2, <1>3, Zenon
  <2>2. \A j \in 1..(i - 1) : j \in 1..Len(Log) /\ j < i
    BY <1>0
  <2>3. ASSUME NEW j \in 1..(i - 1) PROVE Number(Log[j]) < n
    <3>1. PICK k \in Nat : Log[j] = <<2 * k - 1, 2 * k>> /\ Number(Log[j]) = k
      BY <1>2, <2>2, Zenon
    <3>2. Log[j][2] < Log[i][2]
      BY <2>2, Zenon DEF DataInv, Sound
    <3>3. Log[j][2] = 2 * k /\ Log[i][2] = 2 * n
      BY <2>1, <3>1
    <3>4. k < n
      BY <2>1, <3>1, <3>2, <3>3
    <3> QED
      BY <3>1, <3>4, Zenon
  <2>4. ASSUME NEW m \in 1..(n - 1), sentOn[m] = sentOn[n]
        PROVE  m \in {Number(Log[j]) : j \in 1..(i - 1)}
    <3>1. PICK j \in 1..(i - 1) : Log[j] = <<2 * m - 1, 2 * m>>
      BY <2>1, <2>4, Zenon
    <3>2. m \in Nat /\ Log[j][2] = 2 * m
      BY <2>1, <3>1
    <3>3. Number(Log[j]) = m
      BY <1>1, <3>2, Zenon DEF Number
    <3> QED
      BY <3>3
  <2> QED
    BY <2>1, <2>3, <2>4
<1> QED
  BY <1>3, Zenon DEF NoGapInside

(* Whatever reads, drops, failed attempts and reconnects lie between: what *)
(* the application gets are published events, whole and in order, and of   *)
(* one subscription all that was sent on it before.                        *)
THEOREM ChannelHasNoGapInside == Spec => []NoGapInside
<1>1. Init => CInv /\ DataInv
  BY CInvInit, DataInit
<1>2. (CInv /\ DataInv) /\ [Next]_vars => (CInv /\ DataInv)'
  BY CInvStep, DataStep
<1>3. CInv /\ DataInv => NoGapInside
  BY SoundNoGap
<1> QED
  BY <1>1, <1>2, <1>3, PTL DEF Spec
=============================================================================
