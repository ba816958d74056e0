-------------------------- MODULE RemoteCallProofs --------------------------
(* Proofs about a remote call, for any number of attempts and frames.      *)
EXTENDS RemoteCall, SequenceTheorems, TLAPS

(***************************************************************************)
(* The inductive invariant                                                 *)
(***************************************************************************)

\* The attempts are counted: none is started behind the last.  A stream is
\* closed for a reason.
AttemptInv ==
    /\ pc # "idle" => attempt >= 1
    /\ pc = "backoff" => attempt < MaxAttempts
    /\ pc = "close" => leaving # "no"

\* The worker writes one last frame.
FramesInv ==
    /\ Len(frames) <= MaxChunks + 1
    /\ (\A i \in 1..Len(frames) : frames[i] \notin Terminal) => Len(frames) <= MaxChunks
    /\ \A i \in 1..Len(frames) : frames[i] \in Terminal => i = Len(frames)

\* What an attempt holds: nothing is kept of an attempt that is retried, so the
\* results belong to the stream that is read or was read last, and while it is
\* read no last frame has been handed on.
RunInv ==
    /\ ended # "no" => pc = "done"
    /\ OneRunSeen
    /\ pc = "read" => \A i \in 1..taken : frames[i] \notin Terminal
    /\ AnswerKept

IInv == TypeOK /\ AttemptInv /\ FramesInv /\ RunInv

\* ResultsInOrder of results o, attempt a, frames f and t of them handed on.
InOrder(o, a, f, t) ==
    /\ {o[k] : k \in 1..Len(o)} = {<<a, i>> : i \in {j \in 1..t : f[j] \in Values}}
    /\ \A k \in 1..Len(o) : \A l \in 1..(k - 1) : o[l][2] < o[k][2]

(* Handing on one frame keeps the results complete and in order.           *)
LEMMA OneMore ==
    ASSUME NEW S, NEW o \in Seq(S), NEW a, NEW f \in Seq(Kind), NEW t \in Nat, t < Len(f),
           InOrder(o, a, f, t), NEW i \in Nat, i = t + 1, <<a, i>> \in S,
           NEW r, r = IF f[i] \in Values THEN Append(o, <<a, i>>) ELSE o
    PROVE  InOrder(r, a, f, i)
<1>0. Len(o) \in Nat
  OBVIOUS
<1>1. \A j : j \in 1..i <=> j \in 1..t \/ j = i
  OBVIOUS
<1>2. CASE f[i] \notin Values
  <2>1. {j \in 1..i : f[j] \in Values} = {j \in 1..t : f[j] \in Values}
    BY <1>1, <1>2
  <2> QED
    BY <1>2, <2>1 DEF InOrder
<1>3. CASE f[i] \in Values
  <2>1. r = Append(o, <<a, i>>)
    BY <1>3
  <2>2. /\ Len(r) = Len(o) + 1 /\ \A k \in 1..Len(o) : r[k] = o[k]
        /\ r[Len(o) + 1] = <<a, i>>
    BY <2>1, AppendProperties
  <2>3. \A k : k \in 1..Len(r) <=> k \in 1..Len(o) \/ k = Len(o) + 1
    BY <1>0, <2>2
  <2>4. {r[k] : k \in 1..Len(r)} = {o[k] : k \in 1..Len(o)} \cup {<<a, i>>}
    <3>1. ASSUME NEW x \in {r[k] : k \in 1..Len(r)}
          PROVE  x \in {o[k] : k \in 1..Len(o)} \cup {<<a, i>>}
      BY <2>2, <2>3
    <3>2. ASSUME NEW x \in {o[k] : k \in 1..Len(o)} \cup {<<a, i>>}
          PROVE  x \in {r[k] : k \in 1..Len(r)}
      BY <2>2, <2>3
    <3> QED
      BY <3>1, <3>2
  <2>5. {<<a, k>> : k \in {j \in 1..i : f[j] \in Values}} =
            {<<a, k>> : k \in {j \in 1..t : f[j] \in Values}} \cup {<<a, i>>}
    <3>1. {j \in 1..i : f[j] \in Values} = {j \in 1..t : f[j] \in Values} \cup {i}
      BY <1>1, <1>3
    <3> QED
      BY <3>1
  <2>6. {r[k] : k \in 1..Len(r)} = {<<a, k>> : k \in {j \in 1..i : f[j] \in Values}}
    BY <2>4, <2>5, Zenon DEF InOrder
  <2>7. ASSUME NEW k \in 1..Len(r), NEW l \in 1..(k - 1) PROVE r[l][2] < r[k][2]
    <3>0. l \in 1..Len(o)
      BY <1>0, <2>2
    <3>1. CASE k \in 1..Len(o)
      BY <2>2, <3>0, <3>1, Zenon DEF InOrder
    <3>2. CASE k = Len(o) + 1
      <4>1. r[k] = <<a, i>> /\ r[l] = o[l]
        BY <2>2, <3>0, <3>2, Zenon
      <4>2. o[l] \in {<<a, h>> : h \in {j \in 1..t : f[j] \in Values}}
        BY <3>0 DEF InOrder
      <4>3. PICK h \in 1..t : o[l] = <<a, h>>
        BY <4>2
      <4>4. r[l][2] = h /\ r[k][2] = i
        BY <4>1, <4>3
      <4> QED
        BY <4>4
    <3> QED
      BY <2>3, <3>1, <3>2, Zenon
  <2> QED
    BY <2>6, <2>7, Zenon DEF InOrder
<1> QED
  BY <1>2, <1>3

(* The results are in order after a step if they are for the new values.   *)
LEMMA InOrderAfter ==
    /\ ResultsInOrder <=> InOrder(out, attempt, frames, taken)
    /\ ResultsInOrder' <=> InOrder(out', attempt', frames', taken')
  BY DEF ResultsInOrder, InOrder

(* The loop waits in read() only when it holds no last frame.              *)
LEMMA NoAnswerAtRead ==
    ASSUME IInv, AtRead
    PROVE  ~AnswerReceived
<1>1. /\ pc = "read" /\ rcvd \in Nat /\ taken \in Nat /\ frames \in Seq(Kind)
      /\ taken = rcvd \div 3 /\ rcvd % 3 # 2
  <2>1. pc = "read" /\ taken = Lines /\ ~RestParses /\ 3 - 1 = 2
    BY DEF AtRead
  <2>2. taken = rcvd \div 3 /\ rcvd % 3 # 2
    BY <2>1, Zenon DEF Lines, RestParses, FrameBytes
  <2> QED
    BY <2>1, <2>2 DEF IInv, TypeOK
<1>2. ASSUME NEW i \in 1..Len(frames), frames[i] \in Terminal, rcvd >= 3 * i - 1
      PROVE  FALSE
  <2>1. i \in Nat /\ i >= 1
    BY <1>1
  <2>2. i <= rcvd \div 3
    BY <1>1, <1>2, <2>1
  <2>3. i \in 1..taken
    BY <1>1, <2>1, <2>2
  <2> QED
    BY <1>1, <1>2, <2>3 DEF IInv, RunInv
<1> QED
  BY <1>2 DEF AnswerReceived, FrameBytes

(* The frames and what was received of them decide AnswerReceived.         *)
LEMMA SameAnswer ==
    ASSUME UNCHANGED <<frames, rcvd>>
    PROVE  AnswerReceived' <=> AnswerReceived
  BY DEF AnswerReceived

(* An attempt fails: in the end, or to be retried with nothing seen.       *)
LEMMA FailAttemptStep ==
    ASSUME IInv, NEW how \in {"timeout", "eof"}, pc \in {"dial", "close"}, FailAttempt(how),
           leaving' \in {"no", "ok", "eof", "timeout", "conn", "cancelled"}
    PROVE  IInv'
<1> USE BoundsAssumption DEF IInv
<1>0. attempt \in Nat /\ attempt' = attempt /\ UNCHANGED <<astream, frames, rcvd, cut, taken>>
  BY DEF FailAttempt, wire, TypeOK
<1>a. ~AnswerReceived' /\ ended = "no"
  <2>1. ended = "no"
    BY DEF RunInv
  <2>2. ~AnswerReceived
    BY <2>1 DEF RunInv, AnswerKept
  <2> QED
    BY <1>0, <2>1, <2>2, SameAnswer
<1>1. CASE pc' = "done" /\ ended' = how /\ UNCHANGED <<conn, out>>
  <2>1. TypeOK' /\ AttemptInv' /\ FramesInv'
    BY <1>0, <1>1 DEF TypeOK, AttemptInv, FramesInv
  <2>2. RunInv'
    BY <1>0, <1>1, <1>a DEF RunInv, OneRunSeen, ResultsInOrder, AnswerKept
  <2> QED
    BY <2>1, <2>2
<1>2. CASE /\ attempt < MaxAttempts /\ pc' = "backoff" /\ ended' = ended /\ out' = <<>>
           /\ conn' \in {"none", "live", "dead"}
  <2>0. <<>> \in Seq((1..MaxAttempts) \X (1..(MaxChunks + 1)))
    OBVIOUS
  <2>1. TypeOK' /\ AttemptInv' /\ FramesInv'
    BY <1>0, <1>2, <2>0 DEF TypeOK, AttemptInv, FramesInv
  <2>2. RunInv'
    BY <1>0, <1>2, <1>a DEF RunInv, OneRunSeen, AnswerKept
  <2> QED
    BY <2>1, <2>2
<1> QED
  BY <1>1, <1>2 DEF FailAttempt, End, TypeOK

(* A step that sees nothing new and does not go on reading.                *)
LEMMA AsideStep ==
    ASSUME IInv, UNCHANGED <<astream, frames, rcvd, cut, taken, out>>,
           pc' \in {"get", "send", "dial", "write", "close", "done"},
           leaving' \in {"no", "ok", "eof", "timeout", "conn", "cancelled"},
           conn' \in {"none", "live", "dead"},
           attempt' \in 1..MaxAttempts,
           out # <<>> => pc' \in {"close", "done"} /\ attempt' = attempt,
           \/ ended' = ended /\ pc' # "done"
           \/ pc' = "done" /\ ended' \in {"ok", "eof", "timeout", "conn", "cancelled"},
           ~AnswerReceived \/ (pc' = "done" /\ ended' = "cancelled"), pc # "done",
           pc' = "close" => leaving' # "no"
    PROVE  IInv'
<1> USE BoundsAssumption DEF IInv
<1>1. ended = "no" /\ attempt' \in Nat /\ attempt' >= 1
  BY DEF RunInv
<1>2. TypeOK' /\ FramesInv'
  BY DEF TypeOK, FramesInv
<1>3. AttemptInv'
  BY <1>1 DEF AttemptInv
<1>4. OneRunSeen'
  BY DEF RunInv, OneRunSeen, ResultsInOrder
<1>5. AnswerKept'
  BY SameAnswer DEF AnswerKept
<1>6. RunInv'
  BY <1>1, <1>4, <1>5 DEF RunInv
<1> QED
  BY <1>2, <1>3, <1>6

(* The call, its connections, its writes and its end.                      *)
LEMMA CallStep ==
    ASSUME IInv,
           \/ Call \/ GetConn \/ GetConnFails \/ Sent \/ SendFails \/ DialOk \/ DialFails
           \/ Written \/ WriteFails \/ StreamClosed \/ Retry \/ Cancel \/ Deadline \/ Eof
    PROVE  IInv'
<1> USE BoundsAssumption DEF IInv
<1>0. attempt \in Nat /\ MaxAttempts \in Nat /\ MaxAttempts >= 1
  BY DEF TypeOK
<1>a. pc # "done" => ended = "no"
  BY DEF RunInv
<1>b. pc \notin {"read", "done"} => ~AnswerReceived
  BY <1>a DEF RunInv, AnswerKept
<1>c. pc # "idle" => attempt \in 1..MaxAttempts
  BY <1>0 DEF TypeOK, AttemptInv
<1>d. out # <<>> => pc \in {"read", "close", "done"}
  BY DEF RunInv, OneRunSeen
<1>e. AtRead => ~AnswerReceived /\ pc = "read"
  BY NoAnswerAtRead DEF AtRead
<1>1. CASE Call \/ GetConn \/ Sent \/ DialOk \/ Retry
  <2>1. /\ pc' \in {"get", "send", "dial", "write"} /\ ended' = ended /\ leaving' = leaving
        /\ UNCHANGED <<astream, frames, rcvd, cut, taken, out>>
        /\ pc \notin {"read", "close", "done"}
        /\ conn' \in {"none", "live", "dead"}
    BY <1>1 DEF Call, GetConn, Sent, DialOk, Retry, wire, TypeOK
  <2>2. attempt' \in 1..MaxAttempts
    BY <1>0, <1>1, <1>c DEF Call, GetConn, Sent, DialOk, Retry, AttemptInv
  <2>3. leaving' \in {"no", "ok", "eof", "timeout", "conn", "cancelled"}
    BY <2>1 DEF TypeOK
  <2> QED
    BY <1>b, <1>d, <2>1, <2>2, <2>3, AsideStep
<1>2. CASE GetConnFails \/ SendFails \/ DialFails \/ WriteFails
  <2>1. /\ \/ pc' = "done" /\ ended' = "conn" /\ leaving' = leaving
           \/ pc' = "close" /\ ended' = ended /\ leaving' = "conn"
        /\ UNCHANGED <<astream, attempt, conn, frames, rcvd, cut, taken, out>>
        /\ pc \notin {"idle", "read", "close", "done"}
    BY <1>2 DEF GetConnFails, SendFails, DialFails, WriteFails, Leave, End, wire
  <2>2. /\ leaving' \in {"no", "ok", "eof", "timeout", "conn", "cancelled"}
        /\ conn' \in {"none", "live", "dead"}
    BY <2>1 DEF TypeOK
  <2> QED
    BY <1>b, <1>c, <1>d, <2>1, <2>2, AsideStep
<1>3. CASE Deadline \/ Eof
  <2>1. /\ AtRead /\ pc' = "close" /\ ended' = ended
        /\ leaving' \in {"timeout", "eof", "ok"}
        /\ UNCHANGED <<astream, attempt, conn, frames, rcvd, cut, taken, out>>
    BY <1>3 DEF Deadline, Eof, Leave, wire
  <2>2. conn' \in {"none", "live", "dead"}
    BY <2>1 DEF TypeOK
  <2> QED
    BY <1>c, <1>e, <2>1, <2>2, AsideStep
<1>4. CASE Cancel
  <2>1. /\ \/ /\ pc = "write" \/ AtRead
             /\ pc' = "close" /\ ended' = ended /\ leaving' = "cancelled"
           \/ pc' = "done" /\ ended' = "cancelled" /\ leaving' = "no"
        /\ pc \notin {"idle", "done"}
        /\ UNCHANGED <<astream, attempt, conn, frames, rcvd, cut, taken, out>>
    BY <1>4 DEF Cancel, AtRead, AtYield, Leave, End, wire
  <2>2. conn' \in {"none", "live", "dead"}
    BY <2>1 DEF TypeOK
  <2> QED
    BY <1>b, <1>c, <1>e, <2>1, <2>2, AsideStep
<1>5. CASE StreamClosed
  <2>1. pc = "close" /\ leaving' = "no"
    BY <1>5 DEF StreamClosed
  <2>2. CASE leaving \in {"timeout", "eof"} /\ FailAttempt(leaving)
    BY <2>1, <2>2, FailAttemptStep
  <2>3. CASE /\ leaving \notin {"timeout", "eof"} /\ End(leaving)
             /\ UNCHANGED <<astream, attempt, conn, wire, out>>
    <3>1. leaving \in {"no", "ok", "conn", "cancelled"} /\ pc' = "done" /\ ended' = leaving
      BY <2>3 DEF TypeOK, End
    <3>2. leaving # "no"
      BY <2>1 DEF TypeOK, AttemptInv
    <3>3. /\ UNCHANGED <<astream, attempt, conn, frames, rcvd, cut, taken, out>>
          /\ conn' \in {"none", "live", "dead"}
      BY <2>3 DEF wire, TypeOK
    <3> QED
      BY <1>b, <1>c, <2>1, <3>1, <3>2, <3>3, AsideStep
  <2> QED
    BY <1>5, <2>2, <2>3 DEF StreamClosed
<1>6. CASE Written
  <2>1. /\ pc' = "read" /\ frames' = <<>> /\ rcvd' = 0 /\ cut' = FALSE /\ taken' = 0
        /\ UNCHANGED <<astream, leaving, attempt, conn, out, ended>> /\ pc = "write"
    BY <1>6 DEF Written
  <2>2. out = <<>> /\ ended = "no"
    BY <2>1 DEF RunInv, OneRunSeen
  <2>3. <<>> \in Seq(Kind) /\ Len(<<>>) = 0 /\ 0 \in 0..(FrameBytes * 0) /\ 0 \in 0..0
    BY DEF FrameBytes
  <2>4. TypeOK' /\ AttemptInv' /\ FramesInv'
    <3>1. TypeOK'
      BY <2>1, <2>2, <2>3 DEF TypeOK, FrameBytes
    <3>2. AttemptInv'
      BY <2>1 DEF AttemptInv
    <3>3. 0 <= MaxChunks + 1 /\ 0 <= MaxChunks
      OBVIOUS
    <3>4. FramesInv'
      BY <2>1, <2>3, <3>3 DEF FramesInv
    <3> QED
      BY <3>1, <3>2, <3>4
  <2>5. ResultsInOrder'
    BY <2>1, <2>2 DEF ResultsInOrder
  <2>6. RunInv'
    BY <2>1, <2>2, <2>5 DEF RunInv, OneRunSeen, AnswerKept
  <2> QED
    BY <2>4, <2>6
<1> QED
  BY <1>1, <1>2, <1>3, <1>4, <1>5, <1>6

(* The worker and the network.                                             *)
LEMMA OutsideStep ==
    ASSUME IInv, StreamCut \/ ConnDies \/ \E kind \in Kind : WorkerWrites(kind)
    PROVE  IInv'
<1> USE BoundsAssumption DEF IInv
<1>1. CASE StreamCut \/ ConnDies
  <2>1. /\ UNCHANGED <<astream, pc, leaving, attempt, frames, rcvd, taken, out, ended>>
        /\ (cut' = cut /\ conn' = "dead") \/ (cut' = TRUE /\ conn' = conn)
    BY <1>1 DEF StreamCut, ConnDies, wire
  <2>4. cut' \in BOOLEAN /\ conn' \in {"none", "live", "dead"}
    BY <2>1 DEF TypeOK
  <2>5. TypeOK'
    BY <2>1, <2>4 DEF TypeOK
  <2>2. AttemptInv' /\ FramesInv'
    BY <2>1 DEF AttemptInv, FramesInv
  <2>3. RunInv'
    BY <2>1, SameAnswer DEF RunInv, OneRunSeen, ResultsInOrder, AnswerKept
  <2> QED
    BY <2>2, <2>3, <2>5
<1>2. ASSUME NEW kind \in Kind, WorkerWrites(kind) PROVE IInv'
  <2>1. /\ pc = "read" /\ \A i \in 1..Len(frames) : frames[i] \notin Terminal
        /\ kind \in Terminal \/ Len(frames) < MaxChunks
        /\ frames' = Append(frames, kind)
        /\ UNCHANGED <<astream, pc, leaving, attempt, conn, rcvd, cut, taken, out, ended>>
    BY <1>2 DEF WorkerWrites
  <2>2. frames \in Seq(Kind) /\ Len(frames) \in Nat
    BY DEF TypeOK
  <2>3. /\ frames' \in Seq(Kind) /\ Len(frames') = Len(frames) + 1
        /\ \A i \in 1..Len(frames) : frames'[i] = frames[i]
        /\ frames'[Len(frames) + 1] = kind
    BY <2>1, <2>2, AppendProperties
  <2>4. FramesInv'
    <3>1. Len(frames) <= MaxChunks
      BY <2>1 DEF FramesInv
    <3>2. Len(frames') <= MaxChunks + 1
      BY <2>2, <2>3, <3>1
    <3>3. ASSUME \A i \in 1..Len(frames') : frames'[i] \notin Terminal
          PROVE  Len(frames') <= MaxChunks
      <4>1. Len(frames) + 1 \in 1..Len(frames')
        BY <2>2, <2>3
      <4>2. kind \notin Terminal
        BY <2>3, <3>3, <4>1
      <4> QED
        BY <2>1, <2>2, <2>3, <4>2
    <3>4. ASSUME NEW i \in 1..Len(frames'), frames'[i] \in Terminal
          PROVE  i = Len(frames')
      <4>1. i \in 1..Len(frames) \/ i = Len(frames) + 1
        BY <2>2, <2>3
      <4> QED
        BY <2>1, <2>3, <3>4, <4>1
    <3> QED
      BY <3>2, <3>3, <3>4 DEF FramesInv
  <2>5. rcvd \in 0..(FrameBytes * Len(frames')) /\ taken \in 0..Len(frames')
    BY <2>2, <2>3 DEF TypeOK, FrameBytes
  <2>6. TypeOK' /\ AttemptInv'
    BY <2>1, <2>3, <2>5 DEF TypeOK, AttemptInv
  <2>7. ResultsInOrder'
    <3>1. \A j \in 1..taken : frames'[j] = frames[j]
      BY <2>2, <2>3 DEF TypeOK
    <3>2. {j \in 1..taken : frames'[j] \in Values} = {j \in 1..taken : frames[j] \in Values}
      BY <3>1
    <3>3. ResultsInOrder
      BY <2>1 DEF RunInv, OneRunSeen
    <3> QED
      BY <2>1, <3>2, <3>3 DEF ResultsInOrder
  <2>8. ended = "no"
    BY <2>1 DEF RunInv
  <2>10. \A i \in 1..taken : frames'[i] \notin Terminal
    BY <2>1, <2>2, <2>3 DEF TypeOK
  <2>9. RunInv'
    BY <2>1, <2>7, <2>8, <2>10 DEF RunInv, OneRunSeen, AnswerKept
  <2> QED
    BY <2>4, <2>6, <2>9
<1> QED
  BY <1>1, <1>2

(* A frame is handed on.                                                   *)
LEMMA HandOnStep ==
    ASSUME IInv, pc = "read", NEW i \in Nat, i = taken + 1, i <= Len(frames),
           NEW last \in BOOLEAN, HandOn(i, last),
           last => rcvd < 3 * i
    PROVE  IInv'
<1> USE BoundsAssumption DEF IInv
<1>0. /\ taken' = i /\ UNCHANGED <<astream, attempt, conn, frames, rcvd, cut>>
      /\ out' = IF frames[i] \in Values THEN Append(out, <<attempt, i>>) ELSE out
  BY DEF HandOn
<1>1. \/ /\ frames[i] \in Terminal /\ pc' = "done" /\ leaving' = leaving
         /\ ended' = IF frames[i] = "error" THEN "remote_error" ELSE "ok"
      \/ /\ frames[i] \notin Terminal /\ last
         /\ pc' = "close" /\ ended' = ended /\ leaving' = "ok"
      \/ frames[i] \notin Terminal /\ pc' = "read" /\ ended' = ended /\ leaving' = leaving
  BY DEF HandOn, End, Leave, LastFrame
<1>2. /\ attempt \in 1..MaxAttempts /\ Len(frames) \in Nat /\ frames \in Seq(Kind)
      /\ i \in 1..(MaxChunks + 1) /\ i \in 0..Len(frames) /\ i \in 1..Len(frames)
      /\ taken \in Nat /\ taken < Len(frames) /\ ended = "no" /\ rcvd \in Nat
      /\ leaving \in {"no", "ok", "eof", "timeout", "conn", "cancelled"}
  BY DEF TypeOK, AttemptInv, FramesInv, RunInv
<1>3. PICK S : S = (1..MaxAttempts) \X (1..(MaxChunks + 1))
  OBVIOUS
<1>4. out \in Seq(S) /\ <<attempt, i>> \in S
  BY <1>2, <1>3 DEF TypeOK
<1>5. out' \in Seq(S)
  BY <1>0, <1>4
<1>6. TypeOK' /\ AttemptInv' /\ FramesInv'
  <2>1. /\ pc' \in {"done", "close", "read"}
        /\ leaving' \in {"no", "ok", "eof", "timeout", "conn", "cancelled"}
        /\ ended' \in {"no", "ok", "remote_error"}
        /\ pc' = "close" => leaving' # "no"
    BY <1>1, <1>2
  <2> QED
    BY <1>0, <1>2, <1>3, <1>5, <2>1 DEF TypeOK, AttemptInv, FramesInv
<1>7. ResultsInOrder'
  <2>1. InOrder(out, attempt, frames, taken)
    BY InOrderAfter DEF RunInv, OneRunSeen
  <2>2. InOrder(out', attempt, frames, i)
    BY <1>0, <1>2, <1>4, <2>1, OneMore
  <2> QED
    BY <1>0, <2>2, InOrderAfter
<1>8. pc' # "done" => \A j \in 1..taken' : frames'[j] \notin Terminal
  <2>1. \A j \in 1..i : j \in 1..taken \/ j = i
    BY <1>2
  <2>2. \A j \in 1..taken : frames[j] \notin Terminal
    BY DEF RunInv
  <2> QED
    BY <1>0, <1>1, <2>1, <2>2
<1>9. AnswerKept'
  <2>1. CASE pc' = "read"
    BY <2>1 DEF AnswerKept
  <2>2. CASE pc' = "close"
    <3>1. rcvd < 3 * i
      BY <1>1, <2>2
    <3>2. \A j \in 1..Len(frames) : rcvd >= 3 * j - 1 => j \in 1..i
      BY <1>2, <3>1
    <3>3. \A j \in 1..Len(frames) : rcvd >= 3 * j - 1 => frames[j] \notin Terminal
      BY <1>0, <1>8, <2>2, <3>2
    <3>4. ~AnswerReceived'
      BY <1>0, <3>3 DEF AnswerReceived, FrameBytes
    <3> QED
      BY <3>4 DEF AnswerKept
  <2>3. CASE pc' = "done"
    <3>1. frames[i] \in Terminal
      BY <1>1, <2>3
    <3>2. i = Len(frames)
      BY <1>2, <3>1 DEF FramesInv
    <3> QED
      BY <1>0, <1>1, <2>3, <3>1, <3>2 DEF AnswerKept
  <2> QED
    BY <1>1, <2>1, <2>2, <2>3
<1>10. RunInv'
  BY <1>1, <1>2, <1>7, <1>8, <1>9 DEF RunInv, OneRunSeen
<1> QED
  BY <1>6, <1>10

(* A line in the buffer, or all but a newline, is of a frame written.      *)
LEMMA LineThere ==
    ASSUME NEW u \in Nat, NEW t \in Nat, NEW n \in Nat, u <= 3 * n,
           t < u \div 3 \/ (t = u \div 3 /\ u % 3 = 2)
    PROVE  /\ t + 1 \in Nat /\ t + 1 <= n
           /\ (t = u \div 3 /\ u % 3 = 2) => u < 3 * (t + 1)
<1>1. CASE t < u \div 3
  BY <1>1
<1>2. CASE t = u \div 3 /\ u % 3 = 2
  BY <1>2
<1> QED
  BY <1>1, <1>2

(* The read loop.                                                          *)
LEMMA ReadStep ==
    ASSUME IInv, ReadSome \/ YieldLine \/ YieldRest
    PROVE  IInv'
<1> USE BoundsAssumption DEF IInv
<1>0. /\ pc = "read" /\ rcvd \in Nat /\ taken \in Nat /\ Len(frames) \in Nat
      /\ rcvd <= 3 * Len(frames) /\ ended = "no"
  <2>1. pc = "read"
    BY DEF ReadSome, Read, YieldLine, YieldRest, AtRead
  <2>2. rcvd \in 0..(FrameBytes * Len(frames)) /\ taken \in 0..Len(frames) /\ Len(frames) \in Nat
    BY DEF TypeOK
  <2>3. ended = "no"
    BY <2>1 DEF RunInv
  <2> QED
    BY <2>1, <2>2, <2>3 DEF FrameBytes
<1>1. CASE ReadSome
  <2>1. /\ rcvd' \in 0..(FrameBytes * Len(frames))
        /\ UNCHANGED <<astream, pc, leaving, attempt, conn, frames, cut, taken, out, ended>>
    BY <1>0, <1>1 DEF ReadSome, Read, FrameBytes
  <2>2. TypeOK' /\ AttemptInv' /\ FramesInv'
    BY <2>1 DEF TypeOK, AttemptInv, FramesInv
  <2>3. RunInv'
    BY <1>0, <2>1 DEF RunInv, OneRunSeen, ResultsInOrder, AnswerKept
  <2> QED
    BY <2>2, <2>3
<1>2. CASE YieldLine
  <2>1. taken < rcvd \div 3 /\ HandOn(taken + 1, FALSE)
    BY <1>2 DEF YieldLine, Lines, FrameBytes
  <2>2. taken + 1 \in Nat /\ taken + 1 <= Len(frames)
    BY <1>0, <2>1, LineThere, Zenon
  <2> QED
    BY <1>0, <2>1, <2>2, HandOnStep
<1>3. CASE YieldRest
  <2>1. taken = rcvd \div 3 /\ rcvd % 3 = 2 /\ HandOn(taken + 1, TRUE)
    <3>1. taken = Lines /\ RestParses /\ HandOn(taken + 1, TRUE)
      BY <1>3 DEF YieldRest
    <3>2. taken = rcvd \div 3 /\ rcvd % 3 = 2
      <4>1. 3 - 1 = 2
        OBVIOUS
      <4> QED
        BY <3>1, <4>1, Zenon DEF Lines, RestParses, FrameBytes
    <3> QED
      BY <3>1, <3>2
  <2>2. taken + 1 \in Nat /\ taken + 1 <= Len(frames) /\ rcvd < 3 * (taken + 1)
    BY <1>0, <2>1, LineThere, Zenon
  <2> QED
    BY <1>0, <2>1, <2>2, HandOnStep
<1> QED
  BY <1>1, <1>2, <1>3

(* No step leaves the invariant.                                           *)
LEMMA CallInductive == IInv /\ [Next]_vars => IInv'
<1> SUFFICES ASSUME IInv, [Next]_vars PROVE IInv'
  OBVIOUS
<1>1. CASE DialTimeout
  <2>1. leaving' \in {"no", "ok", "eof", "timeout", "conn", "cancelled"}
    BY <1>1 DEF DialTimeout, IInv, TypeOK
  <2> QED
    BY <1>1, <2>1, FailAttemptStep DEF DialTimeout
<1>2. CASE Next /\ ~DialTimeout
  BY <1>2, CallStep, OutsideStep, ReadStep DEF Next
<1>3. CASE UNCHANGED vars
  <2>1. /\ UNCHANGED <<astream, pc, leaving, attempt, conn, frames, rcvd, cut, taken, out>>
        /\ UNCHANGED ended
    BY <1>3 DEF vars
  <2>2. AnswerKept'
    BY <2>1, SameAnswer DEF IInv, RunInv, AnswerKept
  <2> QED
    BY <2>1, <2>2 DEF IInv, TypeOK, AttemptInv, FramesInv, RunInv, OneRunSeen, ResultsInOrder
<1> QED
  BY <1>1, <1>2, <1>3

(* A call starts in it.                                                    *)
LEMMA CallInit == Init => IInv
<1> SUFFICES ASSUME Init PROVE IInv
  OBVIOUS
<1>1. /\ <<>> \in Seq(Kind) /\ <<>> \in Seq((1..MaxAttempts) \X (1..(MaxChunks + 1)))
      /\ Len(<<>>) = 0 /\ 0 \in 0..(FrameBytes * 0) /\ 0 \in 0..0 /\ 0 \in 0..MaxAttempts
      /\ 0 <= MaxChunks + 1 /\ 0 <= MaxChunks
  BY BoundsAssumption DEF FrameBytes
<1>2. TypeOK
  BY <1>1 DEF Init, TypeOK
<1> QED
  BY <1>1, <1>2 DEF Init, IInv, AttemptInv, FramesInv, RunInv, OneRunSeen, AnswerKept,
                         AnswerReceived

(* The variables keep their types: in particular no attempt is started     *)
(* behind the last, and no frame is handed on that was not written.        *)
THEOREM CallTypeCorrect == Spec => []TypeOK
<1>1. IInv => TypeOK
  BY DEF IInv
<1> QED
  BY <1>1, CallInit, CallInductive, PTL DEF Spec

(* However often the call was retried and however its frames were cut into *)
(* reads, the caller sees the results of one run of the handler.           *)
THEOREM CallSeesOneRun == Spec => []OneRunSeen
<1>1. IInv => OneRunSeen
  BY DEF IInv, RunInv
<1> QED
  BY <1>1, CallInit, CallInductive, PTL DEF Spec

(* Once the last frame of the handler has been received, in whatever       *)
(* reads, that answer is the end of the call: no deadline and no end of    *)
(* the stream makes the retry loops discard it and run the handler again.  *)
THEOREM CallKeepsItsAnswer == Spec => []AnswerKept
<1>1. IInv => AnswerKept
  BY DEF IInv, RunInv
<1> QED
  BY <1>1, CallInit, CallInductive, PTL DEF Spec
=============================================================================
