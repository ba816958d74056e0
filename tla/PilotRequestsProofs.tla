------------------------ MODULE PilotRequestsProofs ------------------------
(* Proofs about the request multiplexer, for any requests and commands.    *)
EXTENDS PilotRequests, SequenceTheorems, TLAPS

(* Removing one element (deque.remove) yields a sequence over the same set *)
(* and keeps every other element.                                          *)
LEMMA RemoveAtFacts ==
    ASSUME NEW S, NEW s \in Seq(S), NEW i \in 1..Len(s)
    PROVE  /\ RemoveAt(s, i) \in Seq(S)
           /\ \A j \in 1..Len(RemoveAt(s, i)) :
                 \E k \in 1..Len(s) : RemoveAt(s, i)[j] = s[k]
           /\ \A k \in 1..Len(s) : k # i =>
                 \E j \in 1..Len(RemoveAt(s, i)) : RemoveAt(s, i)[j] = s[k]
<1> DEFINE a == SubSeq(s, 1, i - 1)
           b == SubSeq(s, i + 1, Len(s))
<1>1. /\ a \in Seq(S) /\ Len(a) = i - 1
      /\ \A j \in 1..(i - 1) : a[j] = s[j]
  OBVIOUS
<1>2. /\ b \in Seq(S) /\ Len(b) = Len(s) - i
      /\ \A j \in 1..(Len(s) - i) : b[j] = s[i + j]
  OBVIOUS
<1>3. RemoveAt(s, i) = a \o b
  BY DEF RemoveAt
<1>0. Len(s) \in Nat
  OBVIOUS
<1> HIDE DEF a, b
<1>4. /\ a \o b \in Seq(S)
      /\ Len(a \o b) = Len(s) - 1
      /\ \A j \in 1..(Len(s) - 1) :
            (a \o b)[j] = IF j <= i - 1 THEN a[j] ELSE b[j - (i - 1)]
  <2>1. Len(a) + Len(b) = Len(s) - 1
    BY <1>0, <1>1, <1>2
  <2>2. /\ a \o b \in Seq(S)
        /\ Len(a \o b) = Len(a) + Len(b)
        /\ \A j \in 1..(Len(a) + Len(b)) :
              (a \o b)[j] = IF j <= Len(a) THEN a[j] ELSE b[j - Len(a)]
    <3>1. a \in Seq(S) /\ b \in Seq(S)
      BY <1>1, <1>2
    <3> QED
      BY <3>1, ConcatProperties
  <2>3. Len(a) = i - 1
    BY <1>1
  <2> QED
    BY <2>1, <2>2, <2>3
<1>5. \A j \in 1..(Len(s) - 1) :
         (a \o b)[j] = IF j <= i - 1 THEN s[j] ELSE s[j + 1]
  <2> SUFFICES ASSUME NEW j \in 1..(Len(s) - 1)
               PROVE  (a \o b)[j] = IF j <= i - 1 THEN s[j] ELSE s[j + 1]
    OBVIOUS
  <2>1. CASE j <= i - 1
    BY <1>1, <1>4, <2>1
  <2>2. CASE ~(j <= i - 1)
    <3>1. j - (i - 1) \in 1..(Len(s) - i) /\ i + (j - (i - 1)) = j + 1
      BY <1>0, <2>2
    <3> QED
      BY <1>2, <1>4, <2>2, <3>1
  <2> QED
    BY <2>1, <2>2
<1>6. \A k \in 1..Len(s) : k # i =>
         \E j \in 1..(Len(s) - 1) : (a \o b)[j] = s[k]
  <2> SUFFICES ASSUME NEW k \in 1..Len(s), k # i
               PROVE  \E j \in 1..(Len(s) - 1) : (a \o b)[j] = s[k]
    OBVIOUS
  <2>1. CASE k < i
    <3>1. k \in 1..(Len(s) - 1) /\ k <= i - 1
      BY <1>0, <2>1
    <3> QED
      BY <1>5, <3>1
  <2>2. CASE k > i
    <3>1. k - 1 \in 1..(Len(s) - 1) /\ ~(k - 1 <= i - 1) /\ (k - 1) + 1 = k
      BY <1>0, <2>2
    <3> QED
      BY <1>5, <3>1
  <2>3. k < i \/ k > i
    BY <1>0
  <2> QED
    BY <2>1, <2>2, <2>3
<1>7. \A j \in 1..(Len(s) - 1) : \E k \in 1..Len(s) : (a \o b)[j] = s[k]
  <2> SUFFICES ASSUME NEW j \in 1..(Len(s) - 1)
               PROVE  \E k \in 1..Len(s) : (a \o b)[j] = s[k]
    OBVIOUS
  <2>1. j \in 1..Len(s) /\ j + 1 \in 1..Len(s)
    BY <1>0
  <2> QED
    BY <1>5, <2>1
<1> QED
  BY <1>3, <1>4, <1>6, <1>7

(* Resolving a future keeps the types of the futures.                      *)
LEMMA ResolveType ==
    ASSUME TypeOK, NEW f \in Request, NEW how \in {"reply", "error"},
           NEW r \in Request, Resolve(f, how, r)
    PROVE  /\ fut' \in [Request -> {"none", "pending", "reply", "error",
                                    "closed", "cancelled"}]
           /\ from' \in [Request -> Request \cup {None}]
<1>1. CASE fut[f] = "pending"
  BY <1>1 DEF TypeOK, Resolve
<1>2. CASE fut[f] # "pending"
  BY <1>2 DEF TypeOK, Resolve
<1> QED
  BY <1>1, <1>2

(* Every step of a caller, of the reader and of close keeps the types.     *)
LEMMA TypeStep == TypeOK /\ [Next]_vars => TypeOK'
<1> SUFFICES ASSUME TypeOK, [Next]_vars PROVE TypeOK'
  OBVIOUS
<1> USE ExpectAssumption, SubsetAssumption, NoneAssumption
<1> USE DEF TypeOK
<1>1. ASSUME NEW r \in Request, Call(r) PROVE TypeOK'
  BY <1>1 DEF Call, mux, life
<1>2. ASSUME NEW r \in Request, Acquire(r) PROVE TypeOK'
  <2>1. Expect[r] \in Cmd /\ Register(r) /\ Write(r)
    BY <1>2 DEF Acquire
  <2>2. /\ Append(wire[Expect[r]], r) \in Seq(Request)
        /\ Append(waiters[Expect[r]], r) \in Seq(Request)
        /\ Append(order, Expect[r]) \in Seq(Cmd)
    BY <2>1
  <2>3. buffer' \in 0..2
    <3>1. CASE Dropped
      BY <2>1, <3>1 DEF Write
    <3>2. CASE ~Dropped
      <4>1. buffer \in 0..2 /\ buffer' \in buffer..2
        BY <2>1, <3>2 DEF Write
      <4> HIDE DEF TypeOK
      <4> QED
        BY <4>1
    <3> QED
      BY <3>1, <3>2
  <2>4. wire' \in [Cmd -> Seq(Request)]
    <3>1. CASE Dropped
      BY <2>1, <3>1 DEF Write
    <3>2. CASE ~Dropped
      BY <2>1, <2>2, <3>2 DEF Write
    <3> QED
      BY <3>1, <3>2
  <2>5. waiters' \in [Cmd -> Seq(Request)] /\ order' \in Seq(Cmd)
    BY <2>1, <2>2 DEF Register
  <2>6. pc' \in [Request -> {"idle", "lock", "drain", "doomed", "wait", "expired",
                              "ret"}]
    BY <1>2 DEF Acquire
  <2> QED
    BY <1>2, <2>3, <2>4, <2>5, <2>6 DEF Acquire
<1>3. ASSUME NEW r \in Request, Drained(r) PROVE TypeOK'
  BY <1>3 DEF Drained, HoldsLock, mux, life
<1>4. ASSUME NEW r \in Request, Reset(r) PROVE TypeOK'
  BY <1>4 DEF Reset, HoldsLock, End, mux, life
<1>5. ASSUME NEW r \in Request, Return(r) PROVE TypeOK'
  BY <1>5 DEF Return, End, mux, life
<1>0. ASSUME NEW r \in Request, Timeout(r) PROVE TypeOK'
  BY <1>0 DEF Timeout, CancelFuture, mux, life
<1>6. ASSUME NEW r \in Request, GiveUp(r) PROVE TypeOK'
  <2>1. waiters' \in [Cmd -> Seq(Request)]
    <3>1. Dequeue(r) /\ waiters[Expect[r]] \in Seq(Request)
      BY <1>6 DEF GiveUp
    <3>2. \A i \in 1..Len(waiters[Expect[r]]) :
             RemoveAt(waiters[Expect[r]], i) \in Seq(Request)
      BY <3>1, RemoveAtFacts
    <3>3. CASE UNCHANGED waiters
      BY <3>3
    <3>4. ASSUME NEW i \in 1..Len(waiters[Expect[r]]),
                 waiters' = [waiters EXCEPT ![Expect[r]] = RemoveAt(@, i)]
          PROVE  waiters' \in [Cmd -> Seq(Request)]
      BY <3>2, <3>4
    <3> QED
      BY <3>1, <3>3, <3>4 DEF Dequeue
  <2> QED
    BY <1>6, <2>1 DEF GiveUp, End, life
<1>7. ASSUME NEW r \in Request, Cancel(r) PROVE TypeOK'
  <2>1. lockq' \in Seq(Request)
    BY <1>7, RemoveAtFacts DEF Cancel
  <2> QED
    BY <1>7, <2>1 DEF Cancel, End, CancelFuture, mux, life
<1>8. ASSUME NEW c \in Cmd, Deliver(c) PROVE TypeOK'
  <2>1. wire' \in [Cmd -> Seq(Request)] /\ Head(wire[c]) \in Request
    BY <1>8, HeadTailProperties DEF Deliver, NextFrame
  <2>2. CASE waiters[c] = <<>>
    BY <1>8, <2>1, <2>2 DEF Deliver, NextFrame, callers
  <2>3. CASE waiters[c] # <<>>
    <3>1. waiters[c] \in Seq(Request)
      OBVIOUS
    <3>2. Tail(waiters[c]) \in Seq(Request) /\ Head(waiters[c]) \in Request
      BY <2>3, <3>1, HeadTailProperties
    <3>3. /\ waiters' = [waiters EXCEPT ![c] = Tail(@)]
          /\ Resolve(Head(waiters[c]), "reply", Head(wire[c]))
          /\ NextFrame(c)
      BY <1>8, <2>3 DEF Deliver
    <3>4. waiters' \in [Cmd -> Seq(Request)]
      BY <3>2, <3>3
    <3>5. /\ fut' \in [Request -> {"none", "pending", "reply", "error",
                                   "closed", "cancelled"}]
          /\ from' \in [Request -> Request \cup {None}]
      BY <2>1, <3>2, <3>3, ResolveType
    <3> QED
      BY <2>1, <3>3, <3>4, <3>5 DEF NextFrame, callers
  <2> QED
    BY <2>2, <2>3
<1>9. ASSUME NEW c \in Cmd, FailOldest(c) PROVE TypeOK'
  <2>1. wire' \in [Cmd -> Seq(Request)] /\ Head(wire[c]) \in Request
    BY <1>9, HeadTailProperties DEF FailOldest, NextFrame
  <2>2. CASE UNCHANGED <<waiters, fut, from>>
    BY <1>9, <2>1, <2>2 DEF FailOldest, NextFrame, callers
  <2>3. ASSUME NEW i \in FirstWaiting,
               waiters' = [waiters EXCEPT ![order[i]] = Tail(@)],
               Resolve(Head(waiters[order[i]]), "error", Head(wire[c]))
        PROVE  TypeOK'
    <3>1. order[i] \in Cmd /\ waiters[order[i]] # <<>>
      BY DEF FirstWaiting
    <3>2. waiters[order[i]] \in Seq(Request)
      BY <3>1
    <3>3. /\ Tail(waiters[order[i]]) \in Seq(Request)
          /\ Head(waiters[order[i]]) \in Request
      BY <3>1, <3>2, HeadTailProperties
    <3>4. waiters' \in [Cmd -> Seq(Request)]
      BY <2>3, <3>1, <3>3
    <3>5. NextFrame(c)
      BY <1>9 DEF FailOldest
    <3>6. /\ fut' \in [Request -> {"none", "pending", "reply", "error",
                                   "closed", "cancelled"}]
          /\ from' \in [Request -> Request \cup {None}]
      BY <2>1, <2>3, <3>3, ResolveType
    <3> QED
      BY <2>1, <3>4, <3>5, <3>6 DEF NextFrame, callers
  <2> QED
    BY <1>9, <2>2, <2>3 DEF FailOldest
<1>10. CASE UserClose
  BY <1>10 DEF UserClose, CloseBegin, callers, mux
<1>11. CASE ReaderExit
  BY <1>11 DEF ReaderExit, CloseBegin, callers, mux
<1>12. CASE ConnectionLost
  BY <1>12 DEF ConnectionLost, callers, mux
<1>16. CASE Flush
  BY <1>16 DEF Flush, callers, mux
<1>13. CASE Sweep
  BY <1>13, EmptySeq DEF Sweep, callers
<1>14. CASE ForceClose
  BY <1>14 DEF ForceClose, callers, mux
<1>15. CASE UNCHANGED vars
  BY <1>15 DEF vars, callers, mux, life
<1> QED
  BY <1>0, <1>1, <1>2, <1>3, <1>4, <1>5, <1>6, <1>7, <1>8, <1>9, <1>10, <1>11,
     <1>12, <1>13, <1>14, <1>15, <1>16 DEF Next, CallerStep

LEMMA TypeInit == Init => TypeOK
<1>1. Init => /\ lockq \in Seq(Request) /\ order \in Seq(Cmd)
              /\ waiters \in [Cmd -> Seq(Request)]
              /\ wire \in [Cmd -> Seq(Request)]
  BY EmptySeq DEF Init
<1>2. Init => buffer \in 0..2
  BY DEF Init
<1>3. Init => /\ pc \in [Request -> {"idle", "lock", "drain", "doomed", "wait",
                                      "expired", "ret"}]
              /\ ended \in [Request -> {"no", "reply", "error", "closed", "timeout",
                                         "cancelled", "reset"}]
              /\ fut \in [Request -> {"none", "pending", "reply", "error", "closed",
                                       "cancelled"}]
              /\ from \in [Request -> Request \cup {None}]
  BY DEF Init
<1> QED
  BY <1>1, <1>2, <1>3 DEF Init, TypeOK

(* The variables of the multiplexer keep their types.                      *)
THEOREM TypeCorrect == Spec => []TypeOK
  BY TypeInit, TypeStep, PTL DEF Spec

-----------------------------------------------------------------------------
(* Steps that leave the queues and futures alone, except that they may end *)
(* a call, start a close or lose the transport, keep the invariant.        *)
LEMMA QuietStep ==
    ASSUME IInv, TypeOK', UNCHANGED <<fut, from, waiters, wire>>,
           \A r \in Request : pc'[r] \in {"drain", "wait"} =>
                                 pc[r] \in {"drain", "wait"},
           reading' => reading, lost => lost', Dropped => Dropped',
           closing' = "swept" => closing = "swept"
    PROVE  IInv'
<1> USE DEF IInv
<1>1. Sorted'
  BY DEF Sorted
<1>2. Aligned'
  BY DEF Aligned, TypeOK
<1>3. Registered'
  BY DEF Registered, Held
<1>4. OwnReply'
  BY DEF OwnReply
<1> QED
  BY <1>1, <1>2, <1>3, <1>4

(* Registering and writing in one step keeps waiters and wire in step.     *)
LEMMA AcquireStep ==
    ASSUME IInv, TypeOK', NEW r \in Request, Acquire(r)
    PROVE  IInv'
<1> USE ExpectAssumption DEF IInv
<1> DEFINE e == Expect[r]
<1>1. e \in Cmd /\ waiters[e] \in Seq(Request) /\ wire[e] \in Seq(Request)
  BY DEF TypeOK
<1>2. waiters' = [waiters EXCEPT ![e] = Append(@, r)]
  BY DEF Acquire, Register
<1>3. /\ Len(waiters'[e]) = Len(waiters[e]) + 1
      /\ waiters'[e][Len(waiters[e]) + 1] = r
      /\ \A i \in 1..Len(waiters[e]) : waiters'[e][i] = waiters[e][i]
      /\ \A c \in Cmd : c # e => waiters'[c] = waiters[c]
  BY <1>1, <1>2 DEF TypeOK
<1>4. Sorted'
  <2> SUFFICES ASSUME NEW c \in Cmd, NEW i \in 1..Len(waiters'[c])
               PROVE  Expect[waiters'[c][i]] = c
    BY DEF Sorted
  <2>1. CASE c # e
    BY <1>3, <2>1 DEF Sorted
  <2>2. CASE c = e /\ i = Len(waiters[e]) + 1
    BY <1>3, <2>2
  <2>3. CASE c = e /\ i # Len(waiters[e]) + 1
    <3>1. i \in 1..Len(waiters[e])
      BY <1>1, <1>3, <2>3
    <3> QED
      BY <1>1, <1>3, <2>3, <3>1 DEF Sorted
  <2> QED
    BY <2>1, <2>2, <2>3
<1>5. Aligned'
  <2> SUFFICES ASSUME reading', Refused = {}, NEW c \in PatientCmd
               PROVE  /\ Len(wire'[c]) <= Len(waiters'[c])
                      /\ ~Dropped' => Len(wire'[c]) = Len(waiters'[c])
                      /\ \A i \in 1..Len(wire'[c]) :
                            wire'[c][i] = waiters'[c][i]
    BY DEF Aligned, PatientCmd
  <2>1. /\ reading /\ (Dropped => Dropped') /\ c \in Cmd
        /\ wire' = IF Dropped THEN wire ELSE [wire EXCEPT ![e] = Append(@, r)]
    BY DEF Acquire, Write, Dropped, PatientCmd
  <2>2. /\ Len(wire[c]) <= Len(waiters[c])
        /\ ~Dropped => Len(wire[c]) = Len(waiters[c])
        /\ \A i \in 1..Len(wire[c]) : wire[c][i] = waiters[c][i]
    BY <2>1 DEF Aligned
  <2>3. CASE c # e
    BY <1>1, <1>3, <2>1, <2>2, <2>3 DEF TypeOK
  <2>4. CASE c = e /\ Dropped
    BY <1>1, <1>3, <2>1, <2>2, <2>4
  <2>5. CASE c = e /\ ~Dropped
    <3>1. /\ Len(wire'[e]) = Len(wire[e]) + 1
          /\ wire'[e][Len(wire[e]) + 1] = r
          /\ \A i \in 1..Len(wire[e]) : wire'[e][i] = wire[e][i]
      BY <1>1, <2>1, <2>5 DEF TypeOK
    <3>2. \A i \in 1..Len(wire'[e]) : wire'[e][i] = waiters'[e][i]
      <4> SUFFICES ASSUME NEW i \in 1..Len(wire'[e])
                   PROVE  wire'[e][i] = waiters'[e][i]
        OBVIOUS
      <4>1. CASE i = Len(wire[e]) + 1
        BY <1>1, <1>3, <2>2, <2>5, <3>1, <4>1
      <4>2. CASE i # Len(wire[e]) + 1
        <5>1. i \in 1..Len(wire[e]) /\ i \in 1..Len(waiters[e])
          BY <1>1, <2>2, <2>5, <3>1, <4>2
        <5> QED
          BY <1>3, <2>2, <2>5, <3>1, <5>1
      <4> QED
        BY <4>1, <4>2
    <3> QED
      BY <1>1, <1>3, <2>1, <2>2, <2>5, <3>1, <3>2
  <2> QED
    BY <2>3, <2>4, <2>5
<1>6. Registered'
  <2> SUFFICES ASSUME NEW q \in Request,
                      pc'[q] \in {"drain", "wait"}, fut'[q] = "pending"
               PROVE  Held(q)' /\ closing' # "swept"
    BY DEF Registered
  <2>1. fut' = fut /\ closing' = closing
    BY DEF Acquire
  <2>2. CASE q = r
    <3>1. Held(q)'
      BY <1>1, <1>3, <2>2 DEF Held
    <3>2. ~lost
      BY <2>2 DEF Acquire, TypeOK, Dropped
    <3> QED
      BY <2>1, <3>1, <3>2
  <2>3. CASE q # r
    <3>1. pc'[q] = pc[q]
      BY <2>3 DEF Acquire, TypeOK
    <3>2. Held(q) /\ closing # "swept"
      BY <2>1, <3>1 DEF Registered
    <3>3. Held(q)'
      <4>1. CASE Expect[q] # e
        BY <1>3, <3>2, <4>1 DEF Held
      <4>2. CASE Expect[q] = e
        BY <1>1, <1>3, <3>2, <4>2 DEF Held
      <4> QED
        BY <4>1, <4>2
    <3> QED
      BY <2>1, <3>2, <3>3
  <2> QED
    BY <2>2, <2>3
<1>7. OwnReply'
  BY DEF Acquire, OwnReply
<1> QED
  BY <1>4, <1>5, <1>6, <1>7 DEF Acquire

(* Taking the head of one queue of waiters and resolving it keeps the      *)
(* waiters sorted and every unresolved future of a live call registered.   *)
LEMMA PopStep ==
    ASSUME IInv, NEW k \in Cmd, waiters[k] # <<>>,
           NEW how \in {"reply", "error"}, NEW r \in Request,
           waiters' = [waiters EXCEPT ![k] = Tail(@)],
           Resolve(Head(waiters[k]), how, r),
           UNCHANGED <<pc, closing>>
    PROVE  Sorted' /\ Registered'
<1> USE ExpectAssumption DEF IInv
<1>1. waiters[k] \in Seq(Request) /\ Len(waiters[k]) \in Nat \ {0}
  BY EmptySeq DEF TypeOK
<1>2. /\ Len(waiters'[k]) = Len(waiters[k]) - 1
      /\ \A i \in 1..Len(waiters'[k]) : waiters'[k][i] = waiters[k][i + 1]
      /\ \A c \in Cmd : c # k => waiters'[c] = waiters[c]
      /\ Head(waiters[k]) = waiters[k][1]
  <2>1. waiters'[k] = Tail(waiters[k])
    BY DEF TypeOK
  <2>2. \A c \in Cmd : c # k => waiters'[c] = waiters[c]
    BY DEF TypeOK
  <2>3. Head(waiters[k]) = waiters[k][1]
    BY <1>1
  <2>4. /\ Len(Tail(waiters[k])) = Len(waiters[k]) - 1
        /\ \A i \in 1..Len(Tail(waiters[k])) :
              Tail(waiters[k])[i] = waiters[k][i + 1]
    BY <1>1, HeadTailProperties
  <2> QED
    BY <2>1, <2>2, <2>3, <2>4
<1>3. Sorted'
  <2> SUFFICES ASSUME NEW c \in Cmd, NEW i \in 1..Len(waiters'[c])
               PROVE  Expect[waiters'[c][i]] = c
    BY DEF Sorted
  <2>1. CASE c # k
    BY <1>2, <2>1 DEF Sorted
  <2>2. CASE c = k
    <3>1. i + 1 \in 1..Len(waiters[k])
      BY <1>1, <1>2, <2>2
    <3> QED
      BY <1>2, <2>2, <3>1 DEF Sorted
  <2> QED
    BY <2>1, <2>2
<1>4. Registered'
  <2> SUFFICES ASSUME NEW q \in Request,
                      pc[q] \in {"drain", "wait"}, fut'[q] = "pending"
               PROVE  Held(q)' /\ closing # "swept"
    BY DEF Registered
  <2>1. Head(waiters[k]) \in Request
    BY <1>1, HeadTailProperties
  <2>2. fut[q] = "pending" /\ q # Head(waiters[k])
    BY <2>1 DEF Resolve, TypeOK
  <2>3. Held(q) /\ closing # "swept"
    BY <2>2 DEF Registered
  <2>4. Held(q)'
    <3>1. CASE Expect[q] # k
      BY <1>2, <2>3, <3>1 DEF Held
    <3>2. CASE Expect[q] = k
      <4>1. PICK i \in 1..Len(waiters[k]) : waiters[k][i] = q
        BY <2>3, <3>2 DEF Held
      <4>2. i # 1
        BY <1>2, <2>2, <4>1
      <4>3. i - 1 \in 1..Len(waiters'[k]) /\ (i - 1) + 1 = i
        BY <1>1, <1>2, <4>2
      <4>4. waiters'[k][i - 1] = q
        BY <1>2, <4>1, <4>3
      <4> QED
        BY <3>2, <4>3, <4>4 DEF Held
    <3> QED
      BY <3>1, <3>2
  <2> QED
    BY <2>3, <2>4
<1> QED
  BY <1>3, <1>4

(* A reply reaches the caller it answers: the queues are in step, so the   *)
(* head of the waiters is the request the daemon answered.                 *)
LEMMA DeliverStep ==
    ASSUME IInv, TypeOK', NEW k \in Cmd, Deliver(k)
    PROVE  IInv'
<1> USE ExpectAssumption DEF IInv
<1> DEFINE a == Head(wire[k])
           f == Head(waiters[k])
<1>1. /\ wire[k] \in Seq(Request) /\ Len(wire[k]) \in Nat \ {0}
      /\ waiters[k] \in Seq(Request) /\ Len(waiters[k]) \in Nat
  <2>1. wire[k] \in Seq(Request) /\ waiters[k] \in Seq(Request) /\ wire[k] # <<>>
    BY DEF Deliver, TypeOK
  <2> QED
    BY <2>1, EmptySeq, LenProperties
<1>2. /\ wire' = [wire EXCEPT ![k] = Tail(@)]
      /\ UNCHANGED <<pc, closing, lost>> /\ (Dropped <=> Dropped')
      /\ reading
  BY DEF Deliver, NextFrame, callers, Dropped
<1>3. /\ a \in Request /\ a = wire[k][1]
      /\ Len(wire'[k]) = Len(wire[k]) - 1
      /\ \A i \in 1..Len(wire'[k]) : wire'[k][i] = wire[k][i + 1]
      /\ \A c \in Cmd : c # k => wire'[c] = wire[c]
  <2>1. wire'[k] = Tail(wire[k]) /\ wire[k] # <<>>
    BY <1>2 DEF Deliver, TypeOK
  <2>2. \A c \in Cmd : c # k => wire'[c] = wire[c]
    BY <1>2 DEF TypeOK
  <2> QED
    BY <1>1, <2>1, <2>2, HeadTailProperties
<1>4. CASE waiters[k] = <<>>
  <2>1. UNCHANGED <<waiters, fut, from>>
    BY <1>4 DEF Deliver
  <2>2. Sorted' /\ Registered' /\ OwnReply'
    BY <1>2, <2>1 DEF Sorted, Registered, Held, OwnReply
  <2>3. Aligned'
    <3> SUFFICES ASSUME Refused = {}, NEW c \in PatientCmd
                 PROVE  /\ Len(wire'[c]) <= Len(waiters'[c])
                        /\ ~Dropped' => Len(wire'[c]) = Len(waiters'[c])
                        /\ \A i \in 1..Len(wire'[c]) :
                              wire'[c][i] = waiters'[c][i]
      BY DEF Aligned, PatientCmd
    <3>1. c # k
      BY <1>1, <1>2, <1>4, EmptySeq DEF Aligned
    <3> QED
      BY <1>2, <1>3, <2>1, <3>1 DEF Aligned, PatientCmd
  <2> QED
    BY <1>2, <2>2, <2>3
<1>5. CASE waiters[k] # <<>>
  <2>1. /\ waiters' = [waiters EXCEPT ![k] = Tail(@)]
        /\ Resolve(f, "reply", a)
    BY <1>5 DEF Deliver
  <2>2. Sorted' /\ Registered'
    BY <1>2, <1>3, <1>5, <2>1, PopStep
  <2>3. /\ f \in Request /\ f = waiters[k][1]
        /\ Len(waiters[k]) > 0
        /\ Len(waiters'[k]) = Len(waiters[k]) - 1
        /\ \A i \in 1..Len(waiters'[k]) : waiters'[k][i] = waiters[k][i + 1]
        /\ \A c \in Cmd : c # k => waiters'[c] = waiters[c]
    <3>1. waiters'[k] = Tail(waiters[k])
      BY <2>1 DEF TypeOK
    <3>2. \A c \in Cmd : c # k => waiters'[c] = waiters[c]
      BY <2>1 DEF TypeOK
    <3>3. Len(waiters[k]) > 0
      BY <1>1, <1>5, EmptySeq
    <3> QED
      BY <1>1, <1>5, <3>1, <3>2, <3>3, HeadTailProperties
  <2>4. Aligned'
    <3> SUFFICES ASSUME Refused = {}, NEW c \in PatientCmd
                 PROVE  /\ Len(wire'[c]) <= Len(waiters'[c])
                        /\ ~Dropped' => Len(wire'[c]) = Len(waiters'[c])
                        /\ \A i \in 1..Len(wire'[c]) :
                              wire'[c][i] = waiters'[c][i]
      BY DEF Aligned, PatientCmd
    <3>1. /\ c \in Cmd
          /\ Len(wire[c]) <= Len(waiters[c])
          /\ ~Dropped => Len(wire[c]) = Len(waiters[c])
          /\ \A i \in 1..Len(wire[c]) : wire[c][i] = waiters[c][i]
      BY <1>2 DEF Aligned, PatientCmd
    <3>2. CASE c # k
      BY <1>2, <1>3, <2>3, <3>1, <3>2
    <3>3. CASE c = k
      <4>1. \A i \in 1..Len(wire'[k]) : i + 1 \in 1..Len(wire[k])
                                        /\ i \in 1..Len(waiters'[k])
        BY <1>1, <1>3, <2>3, <3>1, <3>3
      <4> QED
        BY <1>1, <1>2, <1>3, <2>3, <3>1, <3>3, <4>1
    <3> QED
      BY <3>2, <3>3
  <2>5. OwnReply'
    <3> SUFFICES ASSUME Refused = {}, NEW q \in Request,
                        Expect[q] \in PatientCmd, fut'[q] = "reply"
                 PROVE  from'[q] = q
      BY DEF OwnReply, PatientCmd
    <3>1. CASE fut[q] = "reply"
      <4>1. from[q] = q
        BY <3>1 DEF OwnReply
      <4> QED
        BY <2>1, <2>3, <3>1, <4>1 DEF Resolve, TypeOK
    <3>2. CASE fut[q] # "reply"
      <4>1. q = f /\ from'[q] = a
        BY <2>1, <2>3, <3>2 DEF Resolve, TypeOK
      <4>2. Expect[q] = k
        BY <1>1, <2>3, <4>1 DEF Sorted
      <4>3. a = f
        BY <1>1, <1>2, <1>3, <2>3, <4>2 DEF Aligned
      <4> QED
        BY <4>1, <4>3
    <3> QED
      BY <3>1, <3>2
  <2> QED
    BY <1>2, <2>2, <2>4, <2>5
<1> QED
  BY <1>4, <1>5

(* An error frame may fail the waiter of another request, but only a      *)
(* daemon that refuses requests sends one.                                 *)
LEMMA FailOldestStep ==
    ASSUME IInv, TypeOK', NEW k \in Cmd, FailOldest(k)
    PROVE  IInv'
<1> USE ExpectAssumption DEF IInv
<1>1. /\ Refused # {} /\ UNCHANGED <<pc, closing, lost>>
      /\ Head(wire[k]) \in Request
  <2>1. wire[k] \in Seq(Request) /\ wire[k] # <<>> /\ Head(wire[k]) \in Refused
    BY DEF FailOldest, TypeOK
  <2> QED
    BY <2>1, SubsetAssumption DEF FailOldest, NextFrame, callers
<1>2. Aligned' /\ OwnReply'
  BY <1>1 DEF Aligned, OwnReply
<1>3. Sorted' /\ Registered'
  <2>1. CASE UNCHANGED <<waiters, fut, from>>
    BY <1>1, <2>1 DEF Sorted, Registered, Held
  <2>2. ASSUME NEW i \in FirstWaiting,
               waiters' = [waiters EXCEPT ![order[i]] = Tail(@)],
               Resolve(Head(waiters[order[i]]), "error", Head(wire[k]))
        PROVE  Sorted' /\ Registered'
    <3>1. order[i] \in Cmd /\ waiters[order[i]] # <<>>
      BY DEF FirstWaiting, TypeOK
    <3> QED
      BY <1>1, <2>2, <3>1, PopStep
  <2> QED
    BY <2>1, <2>2 DEF FailOldest
<1> QED
  BY <1>1, <1>2, <1>3

(* A caller that timed out takes its waiter away: that breaks the          *)
(* alignment of its own command, which is not a patient one, and no other. *)
LEMMA GiveUpStep ==
    ASSUME IInv, TypeOK', NEW r \in Request, GiveUp(r)
    PROVE  IInv'
<1> USE ExpectAssumption DEF IInv
<1> DEFINE e == Expect[r]
<1>1. /\ e \in Cmd /\ waiters[e] \in Seq(Request) /\ e \notin PatientCmd
      /\ UNCHANGED <<from, wire, reading, closing, lost>> /\ (Dropped <=> Dropped')
      /\ \A q \in Request : q # r => pc'[q] = pc[q] /\ fut'[q] = fut[q]
      /\ pc'[r] = "ret" /\ (fut'[r] = "reply" => fut[r] = "reply")
  <2>1. e \in Cmd /\ waiters[e] \in Seq(Request) /\ e \notin PatientCmd
    BY DEF GiveUp, TypeOK, PatientCmd
  <2>2. UNCHANGED <<from, wire, reading, closing, lost>> /\ (Dropped <=> Dropped')
    BY DEF GiveUp, life, Dropped
  <2>3. /\ \A q \in Request : q # r => pc'[q] = pc[q]
        /\ pc'[r] = "ret"
    BY DEF GiveUp, End, TypeOK
  <2>4. /\ \A q \in Request : q # r => fut'[q] = fut[q]
        /\ fut'[r] = "reply" => fut[r] = "reply"
    BY DEF GiveUp
  <2> QED
    BY <2>1, <2>2, <2>3, <2>4
<1>2. /\ \A c \in Cmd : c # e => waiters'[c] = waiters[c]
      /\ \A j \in 1..Len(waiters'[e]) :
            \E i \in 1..Len(waiters[e]) : waiters'[e][j] = waiters[e][i]
      /\ \A i \in 1..Len(waiters[e]) : waiters[e][i] # r =>
            \E j \in 1..Len(waiters'[e]) : waiters'[e][j] = waiters[e][i]
  <2>1. CASE UNCHANGED waiters
    BY <2>1
  <2>2. ASSUME NEW i \in 1..Len(waiters[e]), waiters[e][i] = r,
               waiters' = [waiters EXCEPT ![e] = RemoveAt(@, i)]
        PROVE  /\ \A c \in Cmd : c # e => waiters'[c] = waiters[c]
               /\ \A j \in 1..Len(waiters'[e]) :
                     \E k \in 1..Len(waiters[e]) :
                        waiters'[e][j] = waiters[e][k]
               /\ \A k \in 1..Len(waiters[e]) : waiters[e][k] # r =>
                     \E j \in 1..Len(waiters'[e]) :
                        waiters'[e][j] = waiters[e][k]
    <3>1. waiters'[e] = RemoveAt(waiters[e], i)
      BY <1>1, <2>2 DEF TypeOK
    <3>2. \A c \in Cmd : c # e => waiters'[c] = waiters[c]
      BY <2>2 DEF TypeOK
    <3>3. /\ \A j \in 1..Len(RemoveAt(waiters[e], i)) :
                \E k \in 1..Len(waiters[e]) :
                   RemoveAt(waiters[e], i)[j] = waiters[e][k]
          /\ \A k \in 1..Len(waiters[e]) : k # i =>
                \E j \in 1..Len(RemoveAt(waiters[e], i)) :
                   RemoveAt(waiters[e], i)[j] = waiters[e][k]
      BY <1>1, <2>2, RemoveAtFacts
    <3>4. \A k \in 1..Len(waiters[e]) : waiters[e][k] # r => k # i
      BY <2>2
    <3> HIDE DEF e
    <3> QED
      BY <3>1, <3>2, <3>3, <3>4
  <2>3. Dequeue(r)
    BY DEF GiveUp
  <2> QED
    BY <2>1, <2>2, <2>3 DEF Dequeue
<1>3. Sorted'
  <2> SUFFICES ASSUME NEW c \in Cmd, NEW j \in 1..Len(waiters'[c])
               PROVE  Expect[waiters'[c][j]] = c
    BY DEF Sorted
  <2>1. CASE c # e
    BY <1>2, <2>1 DEF Sorted
  <2>2. CASE c = e
    BY <1>1, <1>2, <2>2 DEF Sorted
  <2> QED
    BY <2>1, <2>2
<1>4. Aligned'
  <2>1. \A c \in PatientCmd : c \in Cmd /\ waiters'[c] = waiters[c]
    BY <1>1, <1>2 DEF PatientCmd
  <2> QED
    BY <1>1, <2>1 DEF Aligned, PatientCmd
<1>5. Registered'
  <2> SUFFICES ASSUME NEW q \in Request,
                      pc'[q] \in {"drain", "wait"}, fut'[q] = "pending"
               PROVE  Held(q)' /\ closing' # "swept"
    BY DEF Registered
  <2>1. q # r /\ Held(q) /\ closing # "swept"
    BY <1>1 DEF Registered
  <2>2. Held(q)'
    <3>1. CASE Expect[q] # e
      BY <1>2, <2>1, <3>1 DEF Held
    <3>2. CASE Expect[q] = e
      BY <1>2, <2>1, <3>2 DEF Held
    <3> QED
      BY <3>1, <3>2
  <2> QED
    BY <1>1, <2>1, <2>2
<1>6. OwnReply'
  BY <1>1 DEF OwnReply, PatientCmd
<1> QED
  BY <1>1, <1>3, <1>4, <1>5, <1>6

(* A call, a timer and a cancellation change one future and no queue.      *)
LEMMA OneFutureStep ==
    ASSUME IInv, TypeOK', NEW r \in Request, Call(r) \/ Timeout(r) \/ Cancel(r)
    PROVE  IInv'
<1> USE DEF IInv
<1>1. /\ UNCHANGED <<from, waiters, wire, reading, closing, closed, lost, buffer>>
      /\ \A q \in Request : q # r => pc'[q] = pc[q] /\ fut'[q] = fut[q]
      /\ pc'[r] \in {"lock", "expired", "ret"}
      /\ fut'[r] = "reply" => fut[r] = "reply"
  <2>1. CASE Call(r)
    BY <2>1 DEF Call, mux, life, TypeOK
  <2>2. CASE Cancel(r)
    BY <2>2 DEF Cancel, End, CancelFuture, mux, life, TypeOK
  <2>3. CASE Timeout(r)
    BY <2>3 DEF Timeout, CancelFuture, mux, life, TypeOK
  <2> QED
    BY <2>1, <2>2, <2>3
<1>2. Sorted' /\ Aligned'
  BY <1>1 DEF Sorted, Aligned, Dropped
<1>3. Registered' /\ OwnReply'
  BY <1>1 DEF Registered, Held, OwnReply
<1> QED
  BY <1>1, <1>2, <1>3

(* The sweep of close() resolves every registered future and runs with the *)
(* transport lost.                                                         *)
LEMMA SweepStep ==
    ASSUME IInv, TypeOK', Sweep
    PROVE  IInv'
<1> USE DEF IInv
<1>1. Sorted'
  BY EmptySeq DEF Sweep, Sorted
<1>2. Aligned'
  BY DEF Sweep, Aligned
<1>3. Registered'
  BY DEF Sweep, Registered, callers
<1>4. OwnReply'
  BY DEF Sweep, OwnReply
<1> QED
  BY <1>1, <1>2, <1>3, <1>4 DEF Sweep

(* The invariant is inductive: one lemma per kind of step.                 *)
LEMMA IInvStep == IInv /\ [Next]_vars => IInv'
<1> SUFFICES ASSUME IInv, [Next]_vars PROVE IInv'
  OBVIOUS
<1>0. TypeOK'
  BY TypeStep DEF IInv
<1>1. ASSUME NEW r \in Request, Call(r) \/ Timeout(r) \/ Cancel(r) PROVE IInv'
  BY <1>0, <1>1, OneFutureStep
<1>2. ASSUME NEW r \in Request, Acquire(r) PROVE IInv'
  BY <1>0, <1>2, AcquireStep
<1>3. ASSUME NEW r \in Request, GiveUp(r) PROVE IInv'
  BY <1>0, <1>3, GiveUpStep
<1>4. ASSUME NEW r \in Request, Drained(r) \/ Reset(r) \/ Return(r) PROVE IInv'
  <2>1. /\ UNCHANGED <<fut, from, waiters, wire, reading, lost, closing>>
        /\ Dropped <=> Dropped'
        /\ \A q \in Request : pc'[q] \in {"drain", "wait"} =>
                                 pc[q] \in {"drain", "wait"}
    BY <1>4 DEF Drained, Reset, Return, End, mux, life, IInv, TypeOK, Dropped
  <2> QED
    BY <1>0, <2>1, QuietStep
<1>5. ASSUME NEW c \in Cmd, Deliver(c) PROVE IInv'
  BY <1>0, <1>5, DeliverStep
<1>6. ASSUME NEW c \in Cmd, FailOldest(c) PROVE IInv'
  BY <1>0, <1>6, FailOldestStep
<1>7. CASE Sweep
  BY <1>0, <1>7, SweepStep
<1>8. CASE UserClose \/ ReaderExit \/ ConnectionLost \/ Flush \/ ForceClose
           \/ UNCHANGED vars
  <2>1. /\ UNCHANGED <<fut, from, waiters, wire, pc>>
        /\ reading' => reading
        /\ lost => lost'
        /\ closing' = "swept" => closing = "swept"
    BY <1>8 DEF UserClose, ReaderExit, ConnectionLost, Flush, ForceClose, CloseBegin,
                vars, callers, mux, life
  <2>2. Dropped => Dropped'
    BY <1>8 DEF UserClose, ReaderExit, ConnectionLost, Flush, ForceClose, CloseBegin,
                vars, life, Dropped
  <2> QED
    BY <1>0, <2>1, <2>2, QuietStep
<1> QED
  BY <1>1, <1>2, <1>3, <1>4, <1>5, <1>6, <1>7, <1>8 DEF Next, CallerStep

LEMMA IInvInit == Init => IInv
<1> SUFFICES ASSUME Init PROVE IInv
  OBVIOUS
<1>1. TypeOK
  BY TypeInit
<1>2. Sorted /\ Aligned
  BY EmptySeq DEF Init, Sorted, Aligned, PatientCmd
<1>3. Registered /\ OwnReply
  BY DEF Init, Registered, OwnReply
<1> QED
  BY <1>1, <1>2, <1>3 DEF Init, IInv

(* While nothing times out on a command and the daemon refuses nothing, no *)
(* caller of that command is handed the reply to another one's request,    *)
(* whichever callers are cancelled and however the connection goes down.   *)
THEOREM RepliesReachTheirCallers == Spec => []OwnReply
<1>1. IInv => OwnReply
  BY DEF IInv
<1> QED
  BY <1>1, IInvInit, IInvStep, PTL DEF Spec

(* close() leaves no call waiting on a future that nobody resolves.        *)
THEOREM CloseLeavesNoOrphan == Spec => []NoOrphan
<1>1. IInv => NoOrphan
  BY DEF IInv, Registered, NoOrphan
<1> QED
  BY <1>1, IInvInit, IInvStep, PTL DEF Spec

-----------------------------------------------------------------------------
(* Steps that move no frame and resolve no future with an answer.          *)
LEMMA UsedQuiet ==
    ASSUME UsedInv, TypeOK, UNCHANGED <<from, wire>>,
           \A x \in Request : Sent(x) => Sent(x)'
    PROVE  UsedInv'
<1>1. \A c \in Cmd : \A i \in 1..Len(wire[c]) : wire[c][i] \in Request
  BY ElementOfSeq DEF TypeOK
<1>2. \A q \in Request : from[q] # None => from[q] \in Request
  BY DEF TypeOK
<1>3. AnswerUsedOnce'
  BY DEF UsedInv, AnswerUsedOnce
<1>4. \A c \in Cmd : \A i \in 1..Len(wire'[c]) :
         /\ Expect[wire'[c][i]] = c
         /\ Sent(wire[c][i])'
         /\ \A j \in 1..Len(wire'[c]) : wire'[c][j] = wire'[c][i] => j = i
         /\ \A q \in Request : from'[q] # wire'[c][i]
  BY <1>1 DEF UsedInv
<1>5. \A q \in Request : from'[q] # None => Sent(from[q])'
  BY <1>2 DEF UsedInv
<1> QED
  BY <1>3, <1>4, <1>5 DEF UsedInv, Sent

(* Writing a frame puts a request on the wire that was never there.        *)
LEMMA UsedAcquire ==
    ASSUME UsedInv, TypeOK, NEW r \in Request, Acquire(r)
    PROVE  UsedInv'
<1> USE ExpectAssumption
<1> DEFINE e == Expect[r]
<1>1. e \in Cmd /\ wire[e] \in Seq(Request)
  BY DEF TypeOK
<1>2. /\ from' = from /\ ~Sent(r) /\ Sent(r)'
      /\ \A x \in Request : x # r => (Sent(x)' <=> Sent(x))
  BY DEF Acquire, Sent, TypeOK
<1>3. CASE Dropped
  <2>1. wire' = wire
    BY <1>3 DEF Acquire, Write
  <2> QED
    BY <1>2, <2>1, UsedQuiet
<1>4. CASE ~Dropped
  <2>1. wire' = [wire EXCEPT ![e] = Append(@, r)]
    BY <1>4 DEF Acquire, Write
  <2>2. /\ Len(wire'[e]) = Len(wire[e]) + 1
        /\ wire'[e][Len(wire[e]) + 1] = r
        /\ \A i \in 1..Len(wire[e]) : wire'[e][i] = wire[e][i]
        /\ \A c \in Cmd : c # e => wire'[c] = wire[c]
    BY <1>1, <2>1 DEF TypeOK
  <2>3. \A c \in Cmd : \A i \in 1..Len(wire[c]) :
           /\ wire[c][i] \in Request /\ wire[c][i] # r
           /\ pc'[wire[c][i]] \notin {"idle", "lock"}
    BY <1>2, ElementOfSeq DEF TypeOK, UsedInv, Sent
  <2>4. \A q \in Request : /\ from[q] # r
                           /\ from[q] # None => pc'[from[q]] \notin {"idle", "lock"}
    BY <1>2, NoneAssumption DEF TypeOK, UsedInv, Sent
  <2>5. ASSUME NEW c \in Cmd, NEW i \in 1..Len(wire'[c])
        PROVE  /\ Expect[wire'[c][i]] = c
               /\ pc'[wire'[c][i]] \notin {"idle", "lock"}
               /\ \A j \in 1..Len(wire'[c]) : wire'[c][j] = wire'[c][i] => j = i
               /\ \A q \in Request : from'[q] # wire'[c][i]
    <3>1. CASE c # e
      BY <1>2, <2>2, <2>3, <3>1 DEF UsedInv
    <3>2. CASE c = e /\ i = Len(wire[e]) + 1
      <4>1. \A j \in 1..Len(wire'[c]) : j # i => j \in 1..Len(wire[e])
        BY <1>1, <2>2, <3>2
      <4> QED
        BY <1>1, <1>2, <2>2, <2>3, <2>4, <3>2, <4>1 DEF Sent
    <3>3. CASE c = e /\ i # Len(wire[e]) + 1
      <4>1. i \in 1..Len(wire[e])
        BY <1>1, <2>2, <3>3
      <4>2. /\ wire'[c][i] = wire[c][i] /\ Expect[wire[c][i]] = c
            /\ \A j \in 1..Len(wire[c]) : wire[c][j] = wire[c][i] => j = i
            /\ \A q \in Request : from[q] # wire[c][i]
        BY <2>2, <3>3, <4>1 DEF UsedInv
      <4>3. \A j \in 1..Len(wire'[c]) :
               j \in 1..Len(wire[c]) \/ wire'[c][j] = r
        BY <1>1, <2>2, <3>3
      <4> QED
        BY <1>2, <2>2, <2>3, <3>3, <4>1, <4>2, <4>3
    <3> QED
      BY <3>1, <3>2, <3>3
  <2>6. AnswerUsedOnce'
    BY <1>2 DEF UsedInv, AnswerUsedOnce
  <2> QED
    BY <1>2, <2>4, <2>5, <2>6 DEF UsedInv, Sent
<1> QED
  BY <1>3, <1>4

(* Consuming a frame takes its request off the wire; at most one future is *)
(* resolved with it.                                                       *)
LEMMA UsedPop ==
    ASSUME UsedInv, TypeOK, NEW c \in Cmd, wire[c] # <<>>, pc' = pc,
           wire' = [wire EXCEPT ![c] = Tail(@)],
           \/ from' = from
           \/ \E f \in Request : from' = [from EXCEPT ![f] = Head(wire[c])]
    PROVE  UsedInv'
<1>1. PICK h : h = Head(wire[c])
  OBVIOUS
<1>2. /\ wire[c] \in Seq(Request) /\ 1 \in 1..Len(wire[c]) /\ h = wire[c][1]
      /\ h \in Request
  BY <1>1 DEF TypeOK
<1>3. /\ Len(wire'[c]) = Len(wire[c]) - 1
      /\ \A i \in 1..Len(wire'[c]) : /\ i + 1 \in 1..Len(wire[c])
                                     /\ wire'[c][i] = wire[c][i + 1]
      /\ \A k \in Cmd : k # c => wire'[k] = wire[k]
  BY <1>2 DEF TypeOK
<1>4. /\ Expect[h] = c /\ Sent(h)
      /\ \A j \in 1..Len(wire[c]) : wire[c][j] = h => j = 1
      /\ \A q \in Request : from[q] # h
  BY <1>2 DEF UsedInv
<1>5. \A k \in Cmd : \A i \in 1..Len(wire'[k]) : wire'[k][i] # h
  <2> SUFFICES ASSUME NEW k \in Cmd, NEW i \in 1..Len(wire'[k])
               PROVE  wire'[k][i] # h
    OBVIOUS
  <2>1. CASE k = c
    <3>1. i + 1 # 1 /\ i + 1 \in 1..Len(wire[c])
      BY <1>2, <1>3, <2>1
    <3> QED
      BY <1>3, <1>4, <2>1, <3>1
  <2>2. CASE k # c
    BY <1>3, <1>4, <2>2 DEF UsedInv
  <2> QED
    BY <2>1, <2>2
<1>6. ASSUME NEW k \in Cmd, NEW i \in 1..Len(wire'[k])
      PROVE  /\ Expect[wire'[k][i]] = k
             /\ pc[wire'[k][i]] \notin {"idle", "lock"}
             /\ \A j \in 1..Len(wire'[k]) : wire'[k][j] = wire'[k][i] => j = i
             /\ \A q \in Request : from[q] # wire'[k][i]
  <2>1. CASE k = c
    <3>1. \A j \in 1..Len(wire'[k]) : j + 1 = i + 1 => j = i
      OBVIOUS
    <3>2. /\ i + 1 \in 1..Len(wire[k]) /\ wire'[k][i] = wire[k][i + 1]
          /\ \A j \in 1..Len(wire'[k]) : /\ j + 1 \in 1..Len(wire[k])
                                         /\ wire'[k][j] = wire[k][j + 1]
      BY <1>3, <2>1
    <3>3. /\ Expect[wire[k][i + 1]] = k
          /\ pc[wire[k][i + 1]] \notin {"idle", "lock"}
          /\ \A j \in 1..Len(wire[k]) : wire[k][j] = wire[k][i + 1] => j = i + 1
          /\ \A q \in Request : from[q] # wire[k][i + 1]
      BY <3>2 DEF UsedInv, Sent
    <3>4. \A j \in 1..Len(wire'[k]) : wire'[k][j] = wire'[k][i] => j = i
      BY <3>1, <3>2, <3>3, Zenon
    <3> QED
      BY <3>2, <3>3, <3>4
  <2>2. CASE k # c
    BY <1>3, <2>2 DEF UsedInv, Sent
  <2> QED
    BY <2>1, <2>2
<1>7. \A q \in Request : from'[q] = from[q] \/ from'[q] = h
  BY <1>1 DEF TypeOK
<1>8. AnswerUsedOnce'
  <2>1. CASE from' = from
    BY <2>1 DEF UsedInv, AnswerUsedOnce
  <2>2. ASSUME NEW f \in Request, from' = [from EXCEPT ![f] = h]
        PROVE  AnswerUsedOnce'
    <3>1. \A q \in Request : from'[q] = IF q = f THEN h ELSE from[q]
      BY <2>2 DEF TypeOK
    <3> QED
      BY <1>4, <3>1 DEF UsedInv, AnswerUsedOnce
  <2> QED
    BY <1>1, <2>1, <2>2
<1>9. \A q \in Request : from'[q] # None => pc[from'[q]] \notin {"idle", "lock"}
  BY <1>4, <1>7 DEF UsedInv, Sent
<1>10. ASSUME NEW k \in Cmd, NEW i \in 1..Len(wire'[k])
       PROVE  /\ Expect[wire'[k][i]] = k
              /\ pc'[wire'[k][i]] \notin {"idle", "lock"}
              /\ \A j \in 1..Len(wire'[k]) : wire'[k][j] = wire'[k][i] => j = i
              /\ \A q \in Request : from'[q] # wire'[k][i]
  <2>1. PICK x : x = wire'[k][i]
    OBVIOUS
  <2>2. x # h
    BY <1>5, <2>1, Zenon
  <2>3. \A q \in Request : from[q] # wire'[k][i]
    BY <1>6, Zenon
  <2>4. \A q \in Request : from'[q] # x
    BY <1>7, <2>1, <2>2, <2>3, Zenon
  <2> QED
    BY <1>6, <2>1, <2>4
<1>11. \A q \in Request : from'[q] # None => pc'[from'[q]] \notin {"idle", "lock"}
  BY <1>9
<1> QED
  BY <1>8, <1>10, <1>11 DEF UsedInv, Sent

(* No step of a caller, of the reader or of close uses an answer twice.    *)
LEMMA UsedStep == UsedInv /\ TypeOK /\ [Next]_vars => UsedInv'
<1> SUFFICES ASSUME UsedInv, TypeOK, [Next]_vars PROVE UsedInv'
  OBVIOUS
<1>1. ASSUME NEW r \in Request,
             Call(r) \/ Drained(r) \/ Reset(r) \/ Return(r)
             \/ GiveUp(r) \/ Timeout(r) \/ Cancel(r)
      PROVE  UsedInv'
  <2>1. UNCHANGED <<from, wire>>
    BY <1>1 DEF Call, Drained, Reset, Return, GiveUp, Timeout, Cancel, mux
  <2>2. \A x \in Request : Sent(x) => Sent(x)'
    BY <1>1 DEF Call, Drained, Reset, Return, GiveUp, Timeout, Cancel, End,
                Sent, TypeOK
  <2> QED
    BY <2>1, <2>2, UsedQuiet
<1>2. ASSUME NEW r \in Request, Acquire(r) PROVE UsedInv'
  BY <1>2, UsedAcquire
<1>3. ASSUME NEW c \in Cmd, Deliver(c) PROVE UsedInv'
  <2>1. /\ wire[c] # <<>> /\ pc' = pc
        /\ wire' = [wire EXCEPT ![c] = Tail(@)]
    BY <1>3 DEF Deliver, NextFrame, callers
  <2>2. waiters[c] # <<>> => Head(waiters[c]) \in Request
    BY HeadTailProperties DEF TypeOK
  <2>3. \/ from' = from
        \/ \E f \in Request : from' = [from EXCEPT ![f] = Head(wire[c])]
    BY <1>3, <2>2 DEF Deliver, Resolve
  <2> QED
    BY <2>1, <2>3, UsedPop
<1>4. ASSUME NEW c \in Cmd, FailOldest(c) PROVE UsedInv'
  <2>1. /\ wire[c] # <<>> /\ pc' = pc
        /\ wire' = [wire EXCEPT ![c] = Tail(@)]
    BY <1>4 DEF FailOldest, NextFrame, callers
  <2>2. \A i \in FirstWaiting : Head(waiters[order[i]]) \in Request
    <3> SUFFICES ASSUME NEW i \in FirstWaiting
                 PROVE  Head(waiters[order[i]]) \in Request
      OBVIOUS
    <3>1. order[i] \in Cmd /\ waiters[order[i]] # <<>>
      BY DEF FirstWaiting, TypeOK
    <3>2. waiters[order[i]] \in Seq(Request)
      BY <3>1 DEF TypeOK
    <3> QED
      BY <3>1, <3>2, HeadTailProperties
  <2>3. \/ from' = from
        \/ \E f \in Request : from' = [from EXCEPT ![f] = Head(wire[c])]
    BY <1>4, <2>2 DEF FailOldest, Resolve
  <2> QED
    BY <2>1, <2>3, UsedPop
<1>5. CASE UserClose \/ ReaderExit \/ ConnectionLost \/ Flush \/ Sweep \/ ForceClose
           \/ UNCHANGED vars
  <2>1. UNCHANGED <<from, wire, pc>>
    BY <1>5 DEF UserClose, ReaderExit, ConnectionLost, Flush, Sweep, ForceClose,
                callers, mux, vars
  <2> QED
    BY <2>1, UsedQuiet DEF Sent
<1> QED
  BY <1>1, <1>2, <1>3, <1>4, <1>5 DEF Next, CallerStep

LEMMA UsedInit == Init => UsedInv
  BY NoneAssumption DEF Init, UsedInv, AnswerUsedOnce

(* One reply or error frame of the daemon resolves the future of at most   *)
(* one call of _request, whatever times out, is refused or cancelled.      *)
THEOREM AnswersAreUsedOnce == Spec => []AnswerUsedOnce
<1>1. UsedInv => AnswerUsedOnce
  BY DEF UsedInv
<1> QED
  BY <1>1, UsedInit, UsedStep, TypeCorrect, PTL DEF Spec
=============================================================================
