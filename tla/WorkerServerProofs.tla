------------------------- MODULE WorkerServerProofs -------------------------
(* Proofs about the worker server, for any calls, callers and handlers.    *)
EXTENDS WorkerServer, FiniteSetTheorems, SequenceTheorems, TLAPS

(* Running(g) is a finite set, so its cardinality is a natural number.     *)
LEMMA RunningFinite ==
    ASSUME NEW g
    PROVE  IsFiniteSet(Running(g)) /\ Cardinality(Running(g)) \in Nat
<1>1. Running(g) \subseteq Call
  BY DEF Running, Invoking
<1> QED
  BY <1>1, CallAssumption, FS_Subset, FS_CardinalityType

(* The end of an invocation gives one permit back: the task holds it.      *)
LEMMA ReleaseStep ==
    ASSUME IInv, NEW k \in Call, k \in Invoking,
           NEW v \in {"failing", "ending"}, pc' = [pc EXCEPT ![k] = v],
           UNCHANGED regOf, Release(k)
    PROVE  held' \in [Reg -> Nat] /\ ConcurrencyCap'
<1> USE CallAssumption, LimitAssumption DEF IInv
<1>0. PICK m : m = Held(k)
  OBVIOUS
<1>1. m \in Reg
  BY <1>0 DEF Held, Reg, TypeOK
<1>2. k \in Running(m) /\ IsFiniteSet(Running(m))
  BY <1>0, RunningFinite DEF Running
<1>3. Cardinality(Running(m)) - 1 \in Nat
  BY <1>2, FS_EmptySet, RunningFinite, FS_CardinalityType
<1>4. held[m] - 1 \in Nat /\ held[m] \in Nat
  BY <1>1, <1>3 DEF ConcurrencyCap, TypeOK
<1>5. held' = [held EXCEPT ![m] = @ - 1]
  BY <1>0 DEF Release
<1>6. held' \in [Reg -> Nat]
  BY <1>1, <1>4, <1>5 DEF TypeOK
<1>7. Running(m)' = Running(m) \ {k}
  BY <1>0 DEF Running, Invoking, Held, TypeOK
<1>8. Cardinality(Running(m)') = Cardinality(Running(m)) - 1
  BY <1>2, <1>7, FS_RemoveElement
<1>9. ASSUME NEW g \in Reg, g # m
      PROVE  Running(g)' = Running(g) /\ held'[g] = held[g]
  <2>1. Running(g)' = Running(g)
    BY <1>0, <1>9 DEF Running, Invoking, Held, TypeOK
  <2> QED
    BY <1>5, <1>9, <2>1 DEF TypeOK
<1>10. ConcurrencyCap'
  <2> SUFFICES ASSUME NEW g \in Reg
               PROVE  /\ held'[g] = Cardinality(Running(g)')
                      /\ held'[g] <= MaxConcurrent
    BY DEF ConcurrencyCap
  <2>1. CASE g = m
    <3>1. held'[m] = held[m] - 1
      BY <1>1, <1>5 DEF TypeOK
    <3>2. held[m] = Cardinality(Running(m)) /\ held[m] <= MaxConcurrent
      BY <1>1 DEF ConcurrencyCap
    <3>3. held[m] - 1 <= MaxConcurrent
      BY <1>4, <3>2
    <3>4. held'[m] = Cardinality(Running(m)') /\ held'[m] <= MaxConcurrent
      BY <1>8, <3>1, <3>2, <3>3
    <3> QED
      BY <2>1, <3>4
  <2>2. CASE g # m
    BY <1>9, <2>2 DEF ConcurrencyCap
  <2> QED
    BY <2>1, <2>2
<1> QED
  BY <1>6, <1>10

(* A call is admitted only with a permit to spare: nothing happens between *)
(* sem.locked() and the acquire.                                           *)
LEMMA AdmitStep ==
    ASSUME IInv, NEW k \in Call, Admit(k)
    PROVE  /\ held' \in [Reg -> Nat]
           /\ regOf' \in [Call -> Gen]
           /\ ConcurrencyCap'
<1> USE CallAssumption, LimitAssumption DEF IInv
<1>0. PICK m : m = <<NodeOf[k], reg[NodeOf[k]]>>
  OBVIOUS
<1>1. /\ reg[NodeOf[k]] \in Gen /\ m \in Reg
      /\ ~(held[m] >= MaxConcurrent)
  <2>1. NodeOf[k] \in Handler /\ reg[NodeOf[k]] \in 0..MaxGen
    BY DEF TypeOK
  <2>2. Verdict(k) = "admit"
    BY DEF Admit
  <2>3. reg[NodeOf[k]] # 0 /\ ~(held[m] >= MaxConcurrent)
    BY <1>0, <2>2 DEF Verdict
  <2>4. reg[NodeOf[k]] \in Gen
    BY <2>1, <2>3 DEF Gen
  <2> QED
    BY <1>0, <2>1, <2>3, <2>4 DEF Reg
<1>2. held[m] \in Nat /\ held[m] + 1 <= MaxConcurrent
  BY <1>1 DEF TypeOK
<1>3. held' = [held EXCEPT ![m] = @ + 1]
  BY <1>0 DEF Admit
<1>4. held' \in [Reg -> Nat]
  BY <1>1, <1>2, <1>3 DEF TypeOK
<1>5. regOf' \in [Call -> Gen] /\ regOf' = [regOf EXCEPT ![k] = reg[NodeOf[k]]]
  BY <1>1 DEF Admit, TypeOK
<1>6. pc' = [pc EXCEPT ![k] = "running"] /\ pc[k] = "reading"
  BY DEF Admit
<1>7. k \notin Running(m) /\ Running(m)' = Running(m) \cup {k}
  <2>1. k \notin Running(m)
    BY <1>6 DEF Running, Invoking
  <2>2. pc'[k] = "running" /\ regOf'[k] = reg[NodeOf[k]]
    BY <1>5, <1>6 DEF TypeOK
  <2>3. k \in Running(m)'
    BY <1>0, <2>2 DEF Running, Invoking, Held
  <2>4. \A q \in Call \ {k} : pc'[q] = pc[q] /\ regOf'[q] = regOf[q]
    BY <1>5, <1>6 DEF TypeOK
  <2>5. \A q \in Call \ {k} : q \in Running(m)' <=> q \in Running(m)
    BY <2>4 DEF Running, Invoking, Held
  <2>6. Running(m) \subseteq Call /\ Running(m)' \subseteq Call
    BY DEF Running, Invoking
  <2> QED
    BY <2>1, <2>3, <2>5, <2>6
<1>8. Cardinality(Running(m)') = Cardinality(Running(m)) + 1
  BY <1>7, RunningFinite, FS_AddElement
<1>9. ASSUME NEW g \in Reg, g # m
      PROVE  Running(g)' = Running(g) /\ held'[g] = held[g]
  <2>1. Running(g)' = Running(g)
    BY <1>0, <1>5, <1>6, <1>9 DEF Running, Invoking, Held, TypeOK
  <2> QED
    BY <1>3, <1>9, <2>1 DEF TypeOK
<1>10. ConcurrencyCap'
  <2> SUFFICES ASSUME NEW g \in Reg
               PROVE  /\ held'[g] = Cardinality(Running(g)')
                      /\ held'[g] <= MaxConcurrent
    BY DEF ConcurrencyCap
  <2>1. CASE g = m
    <3>1. held'[m] = held[m] + 1
      BY <1>1, <1>3 DEF TypeOK
    <3>2. held[m] = Cardinality(Running(m))
      BY <1>1 DEF ConcurrencyCap
    <3>3. held'[m] = Cardinality(Running(m)') /\ held'[m] <= MaxConcurrent
      BY <1>2, <1>8, <3>1, <3>2
    <3> QED
      BY <2>1, <3>3
  <2>2. CASE g # m
    BY <1>9, <2>2 DEF ConcurrencyCap
  <2> QED
    BY <2>1, <2>2
<1> QED
  BY <1>4, <1>5, <1>10

(* Steps that neither start nor end an invocation keep the cap.            *)
LEMMA CapKept ==
    ASSUME IInv, UNCHANGED <<held, regOf>>,
           \A k \in Call : pc'[k] \in {"running", "finishing"} <=>
                           pc[k] \in {"running", "finishing"}
    PROVE  ConcurrencyCap'
<1>1. ASSUME NEW g PROVE Running(g)' = Running(g)
  BY DEF Running, Invoking, Held
<1> QED
  BY <1>1 DEF IInv, ConcurrencyCap

(* Steps that leave the accept queue alone and move no queued call keep it *)
(* exact.                                                                  *)
LEMMA QueueKept ==
    ASSUME IInv, UNCHANGED acceptQ,
           \A k \in Call : pc[k] = "queued" => pc'[k] = "queued"
    PROVE  QueueExact'
<1>1. acceptQ \in Seq(Call)
  BY DEF IInv, TypeOK
<1>2. \A i \in 1..Len(acceptQ) : acceptQ[i] \in Call
  BY <1>1
<1> QED
  BY <1>2 DEF IInv, QueueExact

(* One step per action of serve_forever.                                   *)
LEMMA ServerStep ==
    ASSUME IInv,
           \/ \E k \in Call : Arrive(k)
           \/ Accept \/ RequestStop \/ StopLoop \/ Drained \/ DrainTimeout
    PROVE  IInv'
<1> USE CallAssumption, LimitAssumption
<1>1. ASSUME NEW k \in Call, Arrive(k) PROVE IInv'
  <2>1. TypeOK'
    <3>1. acceptQ \in Seq(Call) /\ Append(acceptQ, k) \in Seq(Call)
      BY DEF IInv, TypeOK
    <3>2. acceptQ' \in Seq(Call)
      BY <1>1, <3>1 DEF Arrive
    <3> QED
      BY <1>1, <3>2 DEF Arrive, IInv, TypeOK, registry, counters
  <2>2. ConcurrencyCap'
    <3>1. \A q \in Call : pc'[q] \in {"running", "finishing"} <=>
                          pc[q] \in {"running", "finishing"}
      BY <1>1 DEF Arrive, IInv, TypeOK
    <3> QED
      BY <1>1, <3>1, CapKept DEF Arrive
  <2>3. QueueExact'
    <3>1. CASE srv # "serving"
      <4>1. \A q \in Call : pc[q] = "queued" => pc'[q] = "queued"
        BY <1>1, <3>1 DEF Arrive, IInv, TypeOK
      <4> QED
        BY <1>1, <3>1, <4>1, QueueKept DEF Arrive
    <3>2. CASE srv = "serving"
      <4>1. /\ acceptQ' = Append(acceptQ, k) /\ acceptQ \in Seq(Call)
            /\ pc' = [pc EXCEPT ![k] = "queued"] /\ pc[k] = "remote"
        BY <1>1, <3>2 DEF Arrive, IInv, TypeOK
      <4>2. /\ Len(acceptQ') = Len(acceptQ) + 1 /\ Len(acceptQ) \in Nat
            /\ acceptQ'[Len(acceptQ) + 1] = k
            /\ \A i \in 1..Len(acceptQ) : acceptQ'[i] = acceptQ[i]
        BY <4>1
      <4>3. \A i \in 1..Len(acceptQ) :
               acceptQ[i] \in Call /\ pc[acceptQ[i]] = "queued" /\ acceptQ[i] # k
        BY <4>1 DEF IInv, QueueExact
      <4>4. \A i \in 1..Len(acceptQ') :
               i \in 1..Len(acceptQ) \/ i = Len(acceptQ) + 1
        BY <4>2
      <4>5. \A i \in 1..Len(acceptQ') : pc'[acceptQ'[i]] = "queued"
        BY <4>1, <4>2, <4>3, <4>4 DEF IInv, TypeOK
      <4>6. \A i, j \in 1..Len(acceptQ') : i # j => acceptQ'[i] # acceptQ'[j]
        BY <4>2, <4>3, <4>4 DEF IInv, QueueExact
      <4> QED
        BY <4>5, <4>6 DEF QueueExact
    <3> QED
      BY <3>1, <3>2
  <2> QED
    BY <2>1, <2>2, <2>3 DEF IInv
<1>2. CASE Accept
  <2> DEFINE k == Head(acceptQ)
  <2>1. /\ acceptQ \in Seq(Call) /\ acceptQ # <<>> /\ acceptQ' = Tail(acceptQ)
        /\ pc' = [pc EXCEPT ![k] = "reading"]
        /\ UNCHANGED <<held, regOf>>
    BY <1>2 DEF Accept, IInv, TypeOK
  <2>2. /\ k \in Call /\ Tail(acceptQ) \in Seq(Call)
        /\ Len(Tail(acceptQ)) = Len(acceptQ) - 1
        /\ \A i \in 1..Len(Tail(acceptQ)) : Tail(acceptQ)[i] = acceptQ[i + 1]
    BY <2>1, HeadTailProperties
  <2>3. k = acceptQ[1] /\ 1 \in 1..Len(acceptQ) /\ Len(acceptQ) \in Nat
    BY <2>1, EmptySeq
  <2>4. pc[k] = "queued"
    BY <2>3 DEF IInv, QueueExact
  <2>5. TypeOK'
    BY <1>2, <2>1, <2>2 DEF Accept, IInv, TypeOK, registry, counters
  <2>6. ConcurrencyCap'
    <3>1. \A q \in Call : pc'[q] \in {"running", "finishing"} <=>
                          pc[q] \in {"running", "finishing"}
      BY <2>1, <2>2, <2>4 DEF IInv, TypeOK
    <3> QED
      BY <2>1, <3>1, CapKept
  <2>7. QueueExact'
    <3>1. \A i \in 1..Len(acceptQ') : i + 1 \in 1..Len(acceptQ) /\ i + 1 # 1
      BY <2>1, <2>2, <2>3
    <3>2. \A i \in 1..Len(acceptQ') :
             acceptQ'[i] # k /\ acceptQ'[i] \in Call /\ pc[acceptQ'[i]] = "queued"
      BY <2>1, <2>2, <2>3, <3>1 DEF IInv, QueueExact
    <3>3. \A i \in 1..Len(acceptQ') : pc'[acceptQ'[i]] = "queued"
      BY <2>1, <3>2 DEF IInv, TypeOK
    <3>4. \A i, j \in 1..Len(acceptQ') : i # j => acceptQ'[i] # acceptQ'[j]
      <4> SUFFICES ASSUME NEW i \in 1..Len(acceptQ'), NEW j \in 1..Len(acceptQ'),
                          i # j
                   PROVE  acceptQ'[i] # acceptQ'[j]
        OBVIOUS
      <4>1. i + 1 # j + 1
        BY <2>1, <2>2, <2>3
      <4> QED
        BY <2>1, <2>2, <3>1, <4>1 DEF IInv, QueueExact
    <3> QED
      BY <3>3, <3>4 DEF QueueExact
  <2> QED
    BY <2>5, <2>6, <2>7 DEF IInv
<1>3. CASE RequestStop \/ StopLoop \/ Drained
  <2>1. UNCHANGED <<pc, held, regOf, acceptQ>>
    BY <1>3 DEF RequestStop, StopLoop, Drained, tasks
  <2>2. TypeOK'
    BY <1>3 DEF RequestStop, StopLoop, Drained, IInv, TypeOK, registry, tasks,
                counters
  <2> QED
    BY <2>1, <2>2, CapKept, QueueKept DEF IInv
<1>4. CASE DrainTimeout
  <2>1. TypeOK'
    BY <1>4 DEF DrainTimeout, IInv, TypeOK, registry, counters
  <2>2. \A q \in Call : pc'[q] \notin {"running", "finishing"}
                        /\ (pc[q] = "queued" => pc'[q] = "queued")
    BY <1>4 DEF DrainTimeout, InFlight
  <2>3. \A g : Running(g)' = {}
    BY <2>2 DEF Running, Invoking
  <2>4. ConcurrencyCap'
    BY <1>4, <2>3, FS_EmptySet DEF DrainTimeout, ConcurrencyCap
  <2>5. QueueExact'
    BY <1>4, <2>2, QueueKept DEF DrainTimeout
  <2> QED
    BY <2>1, <2>4, <2>5 DEF IInv
<1> QED
  BY <1>1, <1>2, <1>3, <1>4

(* Appending a frame keeps reply typed.                                    *)
LEMMA SendType ==
    ASSUME TypeOK, NEW k \in Call, NEW kind \in FrameKind, Send(k, kind)
    PROVE  reply' \in [Call -> Seq(FrameKind)]
<1>1. reply[k] \in Seq(FrameKind)
  BY DEF TypeOK
<1>2. Append(reply[k], kind) \in Seq(FrameKind)
  BY <1>1
<1> QED
  BY <1>2 DEF Send, TypeOK

(* Counting a call keeps the counters typed.                               *)
LEMMA CountType ==
    ASSUME TypeOK, NEW k \in Call, NEW failed \in {0, 1}, Count(k, failed)
    PROVE  /\ totalCalls' \in Nat /\ totalErrors' \in Nat
           /\ stats' \in [Reg -> [calls : Nat, errors : Nat]]
<1> USE CallAssumption
<1>1. Held(k) \in Reg
  BY DEF Held, Reg, TypeOK
<1>2. totalCalls' \in Nat /\ totalErrors' \in Nat
  BY DEF Count, TypeOK
<1>3. stats' \in [Reg -> [calls : Nat, errors : Nat]]
  BY <1>1 DEF Count, TypeOK
<1> QED
  BY <1>2, <1>3

(* The rate limiter keeps used typed when the handler is registered.       *)
LEMMA ConsumeType ==
    ASSUME TypeOK, NEW k \in Call, reg[NodeOf[k]] # 0, Consume(k)
    PROVE  used' \in [Reg -> [Caller -> Nat]]
<1> USE CallAssumption, LimitAssumption
<1>1. NodeOf[k] \in Handler /\ reg[NodeOf[k]] \in Gen /\ CallerOf[k] \in Caller
  BY DEF Gen, TypeOK
<1>2. <<NodeOf[k], reg[NodeOf[k]]>> \in Reg
  BY <1>1 DEF Reg
<1>3. used[<<NodeOf[k], reg[NodeOf[k]]>>][CallerOf[k]] + 1 \in Nat
  BY <1>1, <1>2 DEF TypeOK
<1> QED
  BY <1>1, <1>2, <1>3 DEF Consume, TypeOK

(* The steps of a task that neither start nor end its handler, with what   *)
(* they have in common.                                                    *)
LEMMA QuietStep ==
    ASSUME IInv, NEW k \in Call, TypeOK', UNCHANGED <<acceptQ, held, regOf>>,
           NEW S \in {{"reading", "ending"}, {"running", "finishing"},
                     {"failing", "ending"}, {"ending", "done"}},
           pc[k] \in S,
           \E v \in S : pc' = [pc EXCEPT ![k] = v]
    PROVE  IInv'
<1>1. PICK v \in S : pc' = [pc EXCEPT ![k] = v]
  OBVIOUS
<1>2. \A q \in Call : pc'[q] = IF q = k THEN v ELSE pc[q]
  BY <1>1 DEF IInv, TypeOK
<1>3. \A q \in Call : pc'[q] \in {"running", "finishing"} <=>
                      pc[q] \in {"running", "finishing"}
  BY <1>2
<1>4. pc[k] # "queued"
  OBVIOUS
<1>5. \A q \in Call : pc[q] = "queued" => pc'[q] = "queued"
  BY <1>2, <1>4
<1> QED
  BY <1>3, <1>5, CapKept, QueueKept DEF IInv

(* One step per action of _handle_one.                                     *)
LEMMA TaskStep ==
    ASSUME IInv, NEW k \in Call, HandleOne(k)
    PROVE  IInv'
<1> USE CallAssumption, LimitAssumption DEF FrameKind, Refusal
<1>0. TypeOK
  BY DEF IInv
<1>1. CASE NoRequest(k)
  <2>1. TypeOK'
    BY <1>0, <1>1 DEF NoRequest, TypeOK, server, registry, counters
  <2> QED
    BY <1>1, <2>1, QuietStep DEF NoRequest, server
<1>2. CASE Refuse(k)
  <2>1. Verdict(k) \in Refusal
    BY <1>2 DEF Refuse, Verdict
  <2>2. reply' \in [Call -> Seq(FrameKind)]
    BY <1>0, <1>2, <2>1, SendType DEF Refuse
  <2>3. used' \in [Reg -> [Caller -> Nat]]
    <3>1. CASE Verdict(k) = "busy"
      <4>1. reg[NodeOf[k]] # 0
        BY <3>1 DEF Verdict
      <4> QED
        BY <1>0, <1>2, <3>1, <4>1, ConsumeType DEF Refuse
    <3>2. CASE Verdict(k) # "busy"
      BY <1>0, <1>2, <3>2 DEF Refuse, TypeOK
    <3> QED
      BY <3>1, <3>2
  <2>4. TypeOK'
    BY <1>0, <1>2, <2>2, <2>3 DEF Refuse, TypeOK, server, registry, counters
  <2> QED
    BY <1>2, <2>4, QuietStep DEF Refuse, server
<1>3. CASE Admit(k)
  <2>1. reg[NodeOf[k]] # 0
    BY <1>3 DEF Admit, Verdict
  <2>2. used' \in [Reg -> [Caller -> Nat]]
    BY <1>0, <1>3, <2>1, ConsumeType DEF Admit
  <2>3. TypeOK'
    BY <1>0, <1>3, <2>2, AdmitStep DEF Admit, TypeOK, server, registry, counters
  <2>4. \A q \in Call : pc[q] = "queued" => pc'[q] = "queued"
    BY <1>0, <1>3 DEF Admit, TypeOK
  <2>5. QueueExact'
    BY <1>3, <2>4, QueueKept DEF Admit, server
  <2> QED
    BY <1>3, <2>3, <2>5, AdmitStep DEF IInv
<1>4. CASE Yield(k)
  <2>1. reply' \in [Call -> Seq(FrameKind)]
    BY <1>0, <1>4, SendType DEF Yield
  <2>2. TypeOK'
    BY <1>0, <1>4, <2>1 DEF Yield, TypeOK, server, registry, counters
  <2> QED
    BY <1>4, <2>2, CapKept, QueueKept DEF Yield, IInv, server
<1>5. CASE LastFrame(k)
  <2>1. reply' \in [Call -> Seq(FrameKind)]
    BY <1>0, <1>5, SendType DEF LastFrame
  <2>2. TypeOK'
    BY <1>0, <1>5, <2>1 DEF LastFrame, TypeOK, server, registry, counters
  <2> QED
    BY <1>5, <2>2, QuietStep DEF LastFrame, server
<1>6. CASE Complete(k)
  <2>1. k \in Invoking
    BY <1>6 DEF Complete, Invoking
  <2>2. held' \in [Reg -> Nat] /\ ConcurrencyCap'
    BY <1>6, <2>1, ReleaseStep DEF Complete
  <2>3. TypeOK'
    BY <1>0, <1>6, <2>2, CountType DEF Complete, TypeOK, server, registry
  <2>4. \A q \in Call : pc[q] = "queued" => pc'[q] = "queued"
    BY <1>0, <1>6 DEF Complete, TypeOK
  <2>5. QueueExact'
    BY <1>6, <2>4, QueueKept DEF Complete, server
  <2> QED
    BY <2>2, <2>3, <2>5 DEF IInv
<1>7. CASE Raise(k) \/ Timeout(k)
  <2>1. k \in Invoking /\ Fail(k) /\ pc[k] \in {"running", "finishing"}
    BY <1>7 DEF Raise, Timeout, Invoking
  <2>2. held' \in [Reg -> Nat] /\ ConcurrencyCap'
    BY <2>1, ReleaseStep DEF Fail
  <2>4. TypeOK'
    BY <1>0, <2>1, <2>2, CountType DEF Fail, TypeOK, server, registry
  <2>5. \A q \in Call : pc[q] = "queued" => pc'[q] = "queued"
    BY <1>0, <2>1 DEF Fail, TypeOK
  <2>6. QueueExact'
    BY <2>1, <2>5, QueueKept DEF Fail, server
  <2> QED
    BY <2>2, <2>4, <2>6 DEF IInv
<1>8. CASE CloseStream(k)
  <2>1. TypeOK'
    BY <1>0, <1>8 DEF CloseStream, TypeOK, server, registry, counters
  <2> QED
    BY <1>8, <2>1, QuietStep DEF CloseStream, server
<1>9. CASE SendError(k)
  <2>1. reply' \in [Call -> Seq(FrameKind)]
    BY <1>0, <1>9, SendType DEF SendError
  <2>2. TypeOK'
    BY <1>0, <1>9, <2>1 DEF SendError, TypeOK, server, registry, counters
  <2> QED
    BY <1>9, <2>2, QuietStep DEF SendError, server
<1> QED
  BY <1>1, <1>2, <1>3, <1>4, <1>5, <1>6, <1>7, <1>8, <1>9 DEF HandleOne, HandlerStep

(* Reloads, authorize and the passing of time touch no task.               *)
LEMMA RegistryStep ==
    ASSUME IInv,
           \/ \E names \in SUBSET Handler : Reload(names)
           \/ \E h \in Handler, nodes \in SUBSET Caller : Authorize(h, nodes)
           \/ \E g \in Reg, p \in Caller : Expire(g, p)
    PROVE  IInv'
<1> USE CallAssumption, LimitAssumption
<1>1. UNCHANGED <<pc, held, regOf, acceptQ>>
  BY DEF Reload, Replaced, Authorize, Expire, server, tasks
<1>2. TypeOK'
  <2>1. ASSUME NEW names \in SUBSET Handler, Reload(names) PROVE TypeOK'
    <3>1. gen + 1 \in Gen /\ gen + 1 \in 0..MaxGen
      BY <2>1 DEF IInv, TypeOK, Reload, Replaced, Gen
    <3> QED
      BY <2>1, <3>1 DEF IInv, TypeOK, Reload, Replaced, server, tasks, counters
  <2>2. ASSUME NEW h \in Handler, NEW nodes \in SUBSET Caller, Authorize(h, nodes)
        PROVE  TypeOK'
    BY <2>2 DEF IInv, TypeOK, Authorize, server, tasks, counters
  <2>3. ASSUME NEW g \in Reg, NEW p \in Caller, Expire(g, p) PROVE TypeOK'
    <3>1. used[g][p] - 1 \in Nat
      BY <2>3 DEF IInv, TypeOK, Expire
    <3> QED
      BY <2>3, <3>1 DEF IInv, TypeOK, Expire, server, registry, tasks, counters
  <2> QED
    BY <2>1, <2>2, <2>3
<1> QED
  BY <1>1, <1>2, CapKept, QueueKept DEF IInv

(* The initial state satisfies the inductive invariant.                    *)
LEMMA IInvInit == Init => IInv
<1> SUFFICES ASSUME Init PROVE IInv
  OBVIOUS
<1> USE CallAssumption, LimitAssumption
<1>1. TypeOK
  <2>1. 1 \in Gen /\ 1 \in 0..MaxGen /\ <<>> \in Seq(Call) /\ <<>> \in Seq(FrameKind)
    BY DEF Gen
  <2>2. stats \in [Reg -> [calls : Nat, errors : Nat]]
    BY DEF Init
  <2>3. allow \in [Reg -> SUBSET Caller] /\ used \in [Reg -> [Caller -> Nat]]
    BY DEF Init
  <2>4. /\ pc \in [Call -> {"remote", "dropped", "queued", "reading", "running",
                            "finishing", "failing", "ending", "done"}]
        /\ reply \in [Call -> Seq(FrameKind)]
    BY <2>1 DEF Init
  <2> QED
    BY <2>1, <2>2, <2>3, <2>4 DEF Init, TypeOK
<1>2. QueueExact
  BY DEF Init, QueueExact
<1>3. \A g : Running(g) = {}
  BY DEF Init, Running, Invoking
<1>4. ConcurrencyCap
  <2>1. \A g \in Reg : held[g] = 0 /\ held[g] = Cardinality(Running(g))
    BY <1>3, FS_EmptySet DEF Init
  <2>2. 0 <= MaxConcurrent
    OBVIOUS
  <2> QED
    BY <2>1, <2>2 DEF ConcurrencyCap
<1> QED
  BY <1>1, <1>2, <1>4 DEF IInv

(* Every step keeps the inductive invariant.                               *)
LEMMA IInvNext == IInv /\ [Next]_vars => IInv'
<1> SUFFICES ASSUME IInv, [Next]_vars PROVE IInv'
  OBVIOUS
<1>1. CASE UNCHANGED vars
  <2>1. TypeOK'
    BY <1>1 DEF IInv, TypeOK, vars, server, registry, tasks, counters
  <2> QED
    BY <1>1, <2>1, CapKept, QueueKept DEF IInv, vars, server, tasks
<1>2. CASE Next
  BY <1>2, ServerStep, TaskStep, RegistryStep DEF Next
<1> QED
  BY <1>1, <1>2

(* The state of the worker server is always well-typed.                    *)
THEOREM ServerTypeCorrect == Spec => []TypeOK
<1>1. IInv => TypeOK
  BY DEF IInv
<1> QED
  BY <1>1, IInvInit, IInvNext, PTL DEF Spec

(* For any number of calls, callers, handlers and reloads: the semaphore   *)
(* of every registration of server.py counts exactly the invocations that  *)
(* run under it, and never exceeds max_concurrent, through time-outs,      *)
(* exceptions, the cancellation of a drain, and reloads.                   *)
THEOREM ConcurrencyIsCapped == Spec => []ConcurrencyCap
<1>1. IInv => ConcurrencyCap
  BY DEF IInv
<1> QED
  BY <1>1, IInvInit, IInvNext, PTL DEF Spec

-----------------------------------------------------------------------------
(* The replies *)

\* The frames a caller has been sent, by the phase of its task: what makes
\* FrameOrder inductive.
ReplyOf(p, r) ==
    /\ p \in {"remote", "dropped", "queued", "reading"} => r = <<>>
    /\ p = "running" => \A i \in 1..Len(r) : r[i] = "chunk"
    /\ p = "finishing" => /\ Len(r) > 0 /\ r[Len(r)] = "ok"
                          /\ \A i \in 1..(Len(r) - 1) : r[i] = "chunk"
    /\ p = "failing" => \A i \in 1..Len(r) :
                           r[i] = "chunk" \/ (r[i] = "ok" /\ i = Len(r))
    /\ \A i, j \in 1..Len(r) : i < j =>
          r[i] = "chunk" \/ (r[i] = "ok" /\ r[j] = "handler_error" /\ j = Len(r))

ReplyByPhase == \A k \in Call : ReplyOf(pc[k], reply[k])

(* The frames of a reply after one more is sent.                           *)
LEMMA AppendFrame ==
    ASSUME NEW r \in Seq(FrameKind), NEW kind \in FrameKind
    PROVE  /\ Append(r, kind) \in Seq(FrameKind) /\ Len(r) \in Nat
           /\ Len(Append(r, kind)) = Len(r) + 1
           /\ Append(r, kind)[Len(r) + 1] = kind
           /\ \A i \in 1..Len(r) : Append(r, kind)[i] = r[i]
  OBVIOUS

(* A step of another task, or of the loop, that neither sends nor changes  *)
(* the phase leaves a reply well-formed; a call that is cancelled keeps    *)
(* the frames it was sent.                                                 *)
LEMMA ReplyKept ==
    ASSUME NEW p, NEW q, NEW r \in Seq(FrameKind), ReplyOf(p, r),
           \/ q = p
           \/ q \in {"ending", "done"}
           \/ p \in {"running", "finishing"} /\ q = "failing"
           \/ p \in {"remote", "queued"} /\ q \in {"dropped", "queued", "reading"}
    PROVE  ReplyOf(q, r)
<1>1. CASE p = "finishing" /\ q = "failing"
  <2>1. Len(r) \in Nat
    OBVIOUS
  <2>2. \A i \in 1..Len(r) : i \in 1..(Len(r) - 1) \/ i = Len(r)
    BY <2>1
  <2> QED
    BY <1>1, <2>2 DEF ReplyOf
<1>2. CASE ~(p = "finishing" /\ q = "failing")
  BY <1>2 DEF ReplyOf
<1> QED
  BY <1>1, <1>2

(* Sending a frame: what the phases before and after must be.              *)
LEMMA ReplySent ==
    ASSUME NEW p, NEW r \in Seq(FrameKind), NEW kind \in FrameKind, NEW q,
           ReplyOf(p, r),
           \/ p = "reading" /\ q = "ending" /\ kind \in Refusal
           \/ p = "running" /\ q = "running" /\ kind = "chunk"
           \/ p = "running" /\ q = "finishing" /\ kind = "ok"
           \/ p = "failing" /\ q = "ending" /\ kind = "handler_error"
    PROVE  ReplyOf(q, Append(r, kind))
<1> DEFINE s == Append(r, kind)
           n == Len(r)
<1>1. /\ n \in Nat /\ Len(s) = n + 1 /\ s[n + 1] = kind
      /\ \A i \in 1..n : s[i] = r[i]
  BY AppendFrame
<1> HIDE DEF s, n
<1>2. \A i \in 1..(n + 1) : i \in 1..n \/ i = n + 1
  BY <1>1
<1>3. CASE p = "reading" /\ q = "ending"
  <2>1. n = 0
    BY <1>3 DEF ReplyOf, n
  <2> QED
    BY <1>1, <1>3, <2>1 DEF ReplyOf, s
<1>4. CASE p = "running"
  <2>1. \A i \in 1..n : s[i] = "chunk"
    BY <1>1, <1>4 DEF ReplyOf, n
  <2>2. \A i, j \in 1..(n + 1) : i < j => s[i] = "chunk"
    BY <1>1, <1>2, <2>1
  <2>3. CASE q = "running" /\ kind = "chunk"
    BY <1>1, <1>2, <2>1, <2>2, <2>3 DEF ReplyOf, s
  <2>4. CASE q = "finishing" /\ kind = "ok"
    <3>1. Len(s) > 0 /\ s[Len(s)] = "ok" /\ Len(s) - 1 = n
      BY <1>1, <2>4
    <3> QED
      BY <1>1, <2>1, <2>2, <2>4, <3>1 DEF ReplyOf, s
  <2> QED
    BY <1>4, <2>3, <2>4
<1>5. CASE p = "failing" /\ q = "ending" /\ kind = "handler_error"
  <2>1. \A i \in 1..n : s[i] = "chunk" \/ (s[i] = "ok" /\ i = n)
    BY <1>1, <1>5 DEF ReplyOf, n
  <2>3. \A i, j \in 1..(n + 1) : i < j =>
           s[i] = "chunk" \/ (s[i] = "ok" /\ s[j] = "handler_error" /\ j = n + 1)
    <3> SUFFICES ASSUME NEW i \in 1..(n + 1), NEW j \in 1..(n + 1), i < j
                 PROVE  s[i] = "chunk" \/ (s[i] = "ok" /\ s[j] = "handler_error" /\ j = n + 1)
      OBVIOUS
    <3>1. i \in 1..n
      BY <1>1
    <3>2. i = n => j = n + 1
      BY <1>1
    <3> QED
      BY <1>1, <1>5, <2>1, <3>1, <3>2
  <2> QED
    BY <1>1, <1>5, <2>3 DEF ReplyOf, s
<1> QED
  BY <1>3, <1>4, <1>5 DEF s

(* What each step of a task does to its own phase and reply: it sends      *)
(* nothing, or one frame that its phase allows.                            *)
LEMMA TaskReply ==
    ASSUME IInv, NEW k \in Call, HandleOne(k)
    PROVE  /\ \A q \in Call \ {k} : pc'[q] = pc[q] /\ reply'[q] = reply[q]
           /\ \/ /\ reply'[k] = reply[k]
                 /\ \/ pc'[k] \in {"ending", "done"}
                    \/ pc[k] \in {"running", "finishing"} /\ pc'[k] = "failing"
                    \/ pc[k] = "reading" /\ pc'[k] = "running"
              \/ \E kind \in FrameKind :
                   /\ reply'[k] = Append(reply[k], kind)
                   /\ \/ pc[k] = "reading" /\ pc'[k] = "ending" /\ kind \in Refusal
                      \/ pc[k] = "running" /\ pc'[k] = "running" /\ kind = "chunk"
                      \/ pc[k] = "running" /\ pc'[k] = "finishing" /\ kind = "ok"
                      \/ /\ pc[k] = "failing" /\ pc'[k] = "ending"
                         /\ kind = "handler_error"
<1> USE DEF IInv, TypeOK, FrameKind, Refusal
<1>1. CASE NoRequest(k) \/ Complete(k) \/ CloseStream(k)
  BY <1>1 DEF NoRequest, Complete, CloseStream
<1>2. CASE Refuse(k)
  <2>1. Verdict(k) \in Refusal
    BY <1>2 DEF Refuse, Verdict
  <2> QED
    BY <1>2, <2>1 DEF Refuse, Send
<1>3. CASE Admit(k)
  BY <1>3 DEF Admit
<1>4. CASE Yield(k)
  BY <1>4 DEF Yield, Send
<1>5. CASE LastFrame(k)
  BY <1>5 DEF LastFrame, Send
<1>6. CASE Raise(k) \/ Timeout(k)
  BY <1>6 DEF Raise, Timeout, Fail
<1>7. CASE SendError(k)
  BY <1>7 DEF SendError, Send
<1> QED
  BY <1>1, <1>2, <1>3, <1>4, <1>5, <1>6, <1>7 DEF HandleOne, HandlerStep

(* A step of the loop, of a reload or of the clock sends nothing, and moves *)
(* a call from the queue to its task or out of its handler only.           *)
LEMMA OtherReply ==
    ASSUME IInv, [Next]_vars, ~ \E k \in Call : HandleOne(k)
    PROVE  /\ UNCHANGED reply
           /\ \A q \in Call :
                \/ pc'[q] = pc[q]
                \/ pc'[q] \in {"ending", "done"} /\ srv' = "cancelling"
                \/ /\ pc[q] \in {"remote", "queued"}
                   /\ pc'[q] \in {"dropped", "queued", "reading"}
<1> USE DEF IInv, TypeOK
<1>1. CASE UNCHANGED vars
  BY <1>1 DEF vars, tasks
<1>2. CASE \E k \in Call : Arrive(k)
  BY <1>2 DEF Arrive
<1>3. CASE Accept
  <2>1. /\ acceptQ \in Seq(Call) /\ acceptQ # <<>>
        /\ pc' = [pc EXCEPT ![Head(acceptQ)] = "reading"] /\ UNCHANGED reply
    BY <1>3 DEF Accept
  <2>2. Head(acceptQ) = acceptQ[1] /\ 1 \in 1..Len(acceptQ) /\ Head(acceptQ) \in Call
    BY <2>1, EmptySeq
  <2>3. pc[Head(acceptQ)] = "queued"
    BY <2>2 DEF QueueExact
  <2> QED
    BY <2>1, <2>2, <2>3
<1>4. CASE RequestStop \/ StopLoop \/ Drained
  BY <1>4 DEF RequestStop, StopLoop, Drained, tasks
<1>5. CASE DrainTimeout
  BY <1>5 DEF DrainTimeout, InFlight
<1>6. CASE \/ \E names \in SUBSET Handler : Reload(names)
           \/ \E h \in Handler, nodes \in SUBSET Caller : Authorize(h, nodes)
           \/ \E g \in Reg, p \in Caller : Expire(g, p)
  BY <1>6 DEF Reload, Authorize, Expire, tasks
<1> QED
  BY <1>1, <1>2, <1>3, <1>4, <1>5, <1>6 DEF Next

(* Every step keeps the replies as their phases say.                       *)
LEMMA ReplyNext == IInv /\ ReplyByPhase /\ [Next]_vars => ReplyByPhase'
<1> SUFFICES ASSUME IInv, ReplyByPhase, [Next]_vars, NEW q \in Call
             PROVE  ReplyOf(pc[q], reply[q])'
  BY DEF ReplyByPhase
<1>1. ReplyOf(pc[q], reply[q]) /\ reply[q] \in Seq(FrameKind)
  BY DEF ReplyByPhase, IInv, TypeOK
<1>2. CASE ~ \E k \in Call : HandleOne(k)
  <2>1. reply'[q] = reply[q]
    BY <1>2, OtherReply
  <2>2. ReplyOf(pc'[q], reply[q])
    BY <1>1, <1>2, OtherReply, ReplyKept
  <2> QED
    BY <2>1, <2>2
<1>3. ASSUME NEW k \in Call, HandleOne(k)
      PROVE  ReplyOf(pc'[q], reply'[q])
  <2>1. CASE q # k
    BY <1>1, <1>3, <2>1, TaskReply
  <2>2. CASE q = k /\ reply'[k] = reply[k]
    <3>1. CASE \/ pc'[k] \in {"ending", "done"}
               \/ pc[k] \in {"running", "finishing"} /\ pc'[k] = "failing"
      BY <1>1, <2>2, <3>1, ReplyKept
    <3>2. CASE pc[k] = "reading" /\ pc'[k] = "running"
      BY <1>1, <2>2, <3>2 DEF ReplyOf
    <3>3. \A kind \in FrameKind : reply[k] # Append(reply[k], kind)
      <4>1. reply[k] \in Seq(FrameKind)
        BY DEF IInv, TypeOK
      <4> QED
        BY <4>1, AppendFrame
    <3> QED
      BY <1>3, <2>2, <3>1, <3>2, <3>3, TaskReply
  <2>3. CASE q = k /\ reply'[k] # reply[k]
    <3>1. PICK kind \in FrameKind :
                   /\ reply'[k] = Append(reply[k], kind)
                   /\ \/ pc[k] = "reading" /\ pc'[k] = "ending" /\ kind \in Refusal
                      \/ pc[k] = "running" /\ pc'[k] = "running" /\ kind = "chunk"
                      \/ pc[k] = "running" /\ pc'[k] = "finishing" /\ kind = "ok"
                      \/ /\ pc[k] = "failing" /\ pc'[k] = "ending"
                         /\ kind = "handler_error"
      BY <1>3, <2>3, TaskReply
    <3> QED
      BY <1>1, <2>3, <3>1, ReplySent
  <2> QED
    BY <2>1, <2>2, <2>3
<1> QED
  BY <1>2, <1>3

(* For any calls and handlers, whatever is cancelled, refused or timed out: *)
(* the frames _handle_one writes come in an order the client can read.     *)
THEOREM FramesOrdered == Spec => []FrameOrder
<1>1. Init => ReplyByPhase
  BY DEF Init, ReplyByPhase, ReplyOf
<1>2. ReplyByPhase => FrameOrder
  BY DEF ReplyByPhase, ReplyOf, FrameOrder
<1> QED
  BY <1>1, <1>2, IInvInit, IInvNext, ReplyNext, PTL DEF Spec

-----------------------------------------------------------------------------
(* The counters *)

\* The callers told of an error.
Erred == {k \in Call : Says(k, "handler_error")}

\* What DrainLosesNothing needs of the calls that are over: until a drain times
\* out, a caller that was sent chunks has its outcome.
OutcomeTold ==
    srv \notin {"cancelling", "stopped"} =>
       \A k \in Call : Ended(k) /\ Says(k, "chunk") => HasOutcome(k)

(* What a reply says after one more frame.                                 *)
LEMMA SaysSent ==
    ASSUME IInv, NEW k \in Call, NEW kind \in FrameKind,
           reply'[k] = Append(reply[k], kind)
    PROVE  \A x : Says(k, x)' <=> (Says(k, x) \/ x = kind)
<1> DEFINE r == reply[k]
           s == reply'[k]
<1>1. /\ Len(r) \in Nat /\ Len(s) = Len(r) + 1 /\ s[Len(r) + 1] = kind
      /\ \A i \in 1..Len(r) : s[i] = r[i]
  BY AppendFrame DEF IInv, TypeOK
<1>2. \A i : i \in 1..Len(s) <=> (i \in 1..Len(r) \/ i = Len(r) + 1)
  BY <1>1
<1>3. \A x : (\E i \in 1..Len(s) : s[i] = x) <=> ((\E i \in 1..Len(r) : r[i] = x) \/ x = kind)
  BY <1>1, <1>2
<1> QED
  BY <1>3 DEF Says

(* A reply that did not change says the same.                              *)
LEMMA SaysKept ==
    ASSUME NEW k \in Call, reply'[k] = reply[k]
    PROVE  \A x : Says(k, x)' <=> Says(k, x)
  BY DEF Says

(* A running or finishing handler has been told of no error yet, and a     *)
(* reading task has been told nothing.                                     *)
LEMMA NotYetTold ==
    ASSUME IInv, ReplyByPhase, NEW k \in Call
    PROVE  /\ pc[k] \in {"running", "finishing", "failing"} => ~Says(k, "handler_error")
           /\ pc[k] = "finishing" => Says(k, "ok")
           /\ pc[k] \in {"remote", "queued", "reading", "dropped"} => \A x : ~Says(k, x)
<1>1. ReplyOf(pc[k], reply[k]) /\ Len(reply[k]) \in Nat
  BY DEF ReplyByPhase, IInv, TypeOK
<1>2. \A i \in 1..Len(reply[k]) : i \in 1..(Len(reply[k]) - 1) \/ i = Len(reply[k])
  BY <1>1
<1>3. Len(reply[k]) > 0 => Len(reply[k]) \in 1..Len(reply[k])
  BY <1>1
<1> QED
  BY <1>1, <1>2, <1>3 DEF ReplyOf, Says

(* Cancelling and stopped are for good.                                    *)
LEMMA CancellingForGood ==
    ASSUME [Next]_vars, srv \in {"cancelling", "stopped"}
    PROVE  srv' \in {"cancelling", "stopped"}
<1>1. ASSUME NEW k \in Call, Arrive(k) \/ HandleOne(k) PROVE srv' = srv
  BY <1>1 DEF Arrive, HandleOne, HandlerStep, NoRequest, Refuse, Admit, Yield,
              LastFrame, Complete, Raise, Timeout, Fail, SendError, CloseStream,
              server
<1>2. Accept \/ RequestStop \/ StopLoop \/ Drained \/ DrainTimeout \/ UNCHANGED vars =>
         srv' \in {"cancelling", "stopped"}
  BY DEF Accept, RequestStop, StopLoop, Drained, DrainTimeout, vars, server
<1>3. \/ \E names \in SUBSET Handler : Reload(names)
      \/ \E h \in Handler, nodes \in SUBSET Caller : Authorize(h, nodes)
      \/ \E g \in Reg, p \in Caller : Expire(g, p)
      => srv' = srv
  BY DEF Reload, Authorize, Expire, server
<1> QED
  BY <1>1, <1>2, <1>3 DEF Next

(* A step that ends no handler counts nothing.  Until a drain times out it *)
(* tells no outcome either, but an error that was counted.                 *)
LEMMA UncountedStep ==
    ASSUME IInv, ReplyByPhase, [Next]_vars,
           \A k \in Call : ~Complete(k) /\ ~Raise(k) /\ ~Timeout(k)
    PROVE  /\ UNCHANGED <<totalCalls, totalErrors>> /\ Failed' \subseteq Failed
           /\ srv' # "cancelling" => Failed' = Failed /\ Told' = Told
<1>1. CASE ~ \E k \in Call : HandleOne(k)
  <2>1. UNCHANGED <<totalCalls, totalErrors>>
    BY <1>1 DEF Next, Arrive, Accept, RequestStop, StopLoop, Drained, DrainTimeout,
                Reload, Authorize, Expire, vars, counters
  <2>2. \A q \in Call : \A x : Says(q, x)' <=> Says(q, x)
    BY <1>1, OtherReply, SaysKept
  <2>3. \A q \in Call : pc'[q] = "failing" => pc[q] = "failing"
    BY <1>1, OtherReply
  <2>4. ASSUME srv' # "cancelling", NEW q \in Call
        PROVE  /\ pc'[q] = "failing" <=> pc[q] = "failing"
               /\ \/ Ended(q)' <=> Ended(q)
                  \/ \A x : ~Says(q, x)
    BY <1>1, <2>4, OtherReply, NotYetTold DEF Ended
  <2>5. Failed' \subseteq Failed
    BY <2>2, <2>3 DEF Failed
  <2>6. ASSUME srv' # "cancelling" PROVE Failed' = Failed /\ Told' = Told
    BY <2>2, <2>4, <2>6 DEF Failed, Told, HasOutcome
  <2> QED
    BY <2>1, <2>5, <2>6
<1>2. ASSUME NEW k \in Call, HandleOne(k)
      PROVE  UNCHANGED <<totalCalls, totalErrors>> /\ Failed' = Failed /\ Told' = Told
  <2>0. \/ NoRequest(k) \/ Refuse(k) \/ Admit(k) \/ Yield(k) \/ LastFrame(k)
        \/ SendError(k) \/ CloseStream(k)
    BY <1>2 DEF HandleOne, HandlerStep
  <2>1. UNCHANGED <<totalCalls, totalErrors>>
    BY <2>0 DEF NoRequest, Refuse, Admit, Yield, LastFrame, SendError, CloseStream,
                counters
  <2>2. \A q \in Call \ {k} : /\ pc'[q] = pc[q]
                              /\ \A x : Says(q, x)' <=> Says(q, x)
    BY <1>2, TaskReply, SaysKept
  <2>3. /\ (k \in Failed') <=> (k \in Failed)
        /\ (k \in Told') <=> (k \in Told)
    <3> USE DEF IInv, TypeOK
    <3>1. CASE NoRequest(k) \/ Admit(k) \/ CloseStream(k)
      <4>1. reply'[k] = reply[k] /\ pc[k] # "failing" /\ pc'[k] # "failing"
        BY <3>1 DEF NoRequest, Admit, CloseStream
      <4>2. \A x : Says(k, x)' <=> Says(k, x)
        BY <4>1, SaysKept
      <4>3. \/ Ended(k)' <=> Ended(k)
            \/ \A x : ~Says(k, x)
        BY <3>1, NotYetTold DEF NoRequest, Admit, CloseStream, Ended
      <4> QED
        BY <4>1, <4>2, <4>3 DEF Failed, Told, HasOutcome
    <3>2. CASE Refuse(k)
      <4>1. /\ Verdict(k) \in Refusal /\ reply'[k] = Append(reply[k], Verdict(k))
            /\ pc[k] # "failing" /\ pc'[k] # "failing"
        BY <3>2 DEF Refuse, Verdict, Refusal, Send
      <4>2. \A x : Says(k, x)' <=> (Says(k, x) \/ x = Verdict(k))
        BY <4>1, SaysSent DEF FrameKind
      <4>3. \A x : ~Says(k, x)
        BY <3>2, NotYetTold DEF Refuse
      <4>4. Verdict(k) # "ok" /\ Verdict(k) # "handler_error"
        BY <4>1 DEF Refusal
      <4> QED
        BY <4>1, <4>2, <4>3, <4>4 DEF Failed, Told, HasOutcome
    <3>3. CASE Yield(k) \/ LastFrame(k)
      <4>1. PICK kind \in {"chunk", "ok"} : reply'[k] = Append(reply[k], kind)
        BY <3>3 DEF Yield, LastFrame, Send
      <4>2. \A x : Says(k, x)' <=> (Says(k, x) \/ x = kind)
        BY <4>1, SaysSent DEF FrameKind
      <4>3. ~Ended(k) /\ ~Ended(k)' /\ pc[k] # "failing" /\ pc'[k] # "failing"
        BY <3>3 DEF Yield, LastFrame, Ended
      <4> QED
        BY <4>2, <4>3 DEF Failed, Told
    <3>4. CASE SendError(k)
      <4>1. reply'[k] = Append(reply[k], "handler_error") /\ pc[k] = "failing"
        BY <3>4 DEF SendError, Send
      <4>2. Says(k, "handler_error")'
        BY <4>1, SaysSent DEF FrameKind
      <4>3. Ended(k)'
        BY <3>4 DEF SendError, Ended
      <4> QED
        BY <4>1, <4>2, <4>3 DEF Failed, Told, HasOutcome
    <3> QED
      BY <2>0, <3>1, <3>2, <3>3, <3>4
  <2>4. \A q \in Call : /\ (q \in Failed') <=> (q \in Failed)
                        /\ (q \in Told') <=> (q \in Told)
    BY <2>2, <2>3 DEF Failed, Told, Ended, HasOutcome
  <2>5. /\ Told \subseteq Call /\ Told' \subseteq Call
        /\ Failed \subseteq Call /\ Failed' \subseteq Call
    BY DEF Told, Failed
  <2> QED
    BY <2>1, <2>4, <2>5
<1> QED
  BY <1>1, <1>2

(* The end of a handler is counted once, as what its caller is told or     *)
(* will be told.                                                           *)
LEMMA CountedStep ==
    ASSUME IInv, ReplyByPhase, NEW k \in Call, Complete(k) \/ Raise(k) \/ Timeout(k)
    PROVE  /\ srv' = srv
           /\ k \notin Told /\ Told' = Told \cup {k}
           /\ \/ Count(k, 0) /\ Failed' = Failed
              \/ Count(k, 1) /\ k \notin Failed /\ Failed' = Failed \cup {k}
<1> USE DEF IInv, TypeOK
<1>0. HandleOne(k) /\ srv' = srv
  BY DEF HandleOne, HandlerStep, Complete, Raise, Timeout, Fail, server
<1>1. \A q \in Call \ {k} : /\ pc'[q] = pc[q]
                            /\ \A x : Says(q, x)' <=> Says(q, x)
  BY <1>0, TaskReply, SaysKept
<1>2. /\ reply'[k] = reply[k] /\ ~Ended(k) /\ pc[k] # "failing"
      /\ ~Says(k, "handler_error")
  BY NotYetTold DEF Complete, Raise, Timeout, Fail, Ended
<1>3. \A x : Says(k, x)' <=> Says(k, x)
  BY <1>2, SaysKept
<1>4. k \notin Told /\ k \notin Failed
  BY <1>2 DEF Told, Failed
<1>5. \A q \in Call \ {k} : /\ (q \in Failed') <=> (q \in Failed)
                            /\ (q \in Told') <=> (q \in Told)
  BY <1>1 DEF Failed, Told, Ended, HasOutcome
<1>6. /\ Told \subseteq Call /\ Told' \subseteq Call
      /\ Failed \subseteq Call /\ Failed' \subseteq Call
  BY DEF Told, Failed
<1>7. CASE Complete(k)
  <2>1. pc[k] = "finishing" /\ pc'[k] = "ending" /\ Count(k, 0)
    BY <1>7 DEF Complete
  <2>2. Says(k, "ok")'
    BY <1>3, <2>1, NotYetTold
  <2>3. k \in Told' /\ k \notin Failed'
    BY <1>2, <1>3, <2>1, <2>2 DEF Told, Failed, Ended, HasOutcome
  <2>4. Told' = Told \cup {k}
    BY <1>5, <1>6, <2>3
  <2>5. Failed' = Failed
    <3>1. \A q \in Call : (q \in Failed') <=> (q \in Failed)
      BY <1>4, <1>5, <2>3
    <3> HIDE DEF IInv, TypeOK
    <3> QED
      BY <1>6, <3>1
  <2> QED
    BY <1>0, <1>4, <2>1, <2>4, <2>5
<1>8. CASE Raise(k) \/ Timeout(k)
  <2>1. pc'[k] = "failing" /\ Count(k, 1)
    BY <1>8 DEF Raise, Timeout, Fail
  <2>2. k \in Told' /\ k \in Failed'
    BY <2>1 DEF Told, Failed
  <2>3. Told' = Told \cup {k} /\ Failed' = Failed \cup {k}
    BY <1>5, <1>6, <2>2
  <2> QED
    BY <1>0, <1>4, <2>1, <2>3
<1> QED
  BY <1>7, <1>8

\* The inductive form of CountersMatchReplies: an error that is still to be sent
\* is among those counted also while a drain is being cancelled.
CountInv ==
    /\ Cardinality(Failed) <= totalErrors /\ totalErrors <= totalCalls
    /\ srv \notin {"cancelling", "stopped"} =>
         totalErrors = Cardinality(Failed) /\ totalCalls = Cardinality(Told)

(* Every step keeps the counters in agreement with the replies.            *)
LEMMA CountersNext ==
    IInv /\ ReplyByPhase /\ CountInv /\ [Next]_vars => CountInv'
<1> SUFFICES ASSUME IInv, ReplyByPhase, CountInv, [Next]_vars
             PROVE  CountInv'
  OBVIOUS
<1>1. SUFFICES /\ Cardinality(Failed') <= totalErrors' /\ totalErrors' <= totalCalls'
               /\ srv' \notin {"cancelling", "stopped"} =>
                    totalErrors' = Cardinality(Failed') /\ totalCalls' = Cardinality(Told')
  BY DEF CountInv
<1>2. /\ IsFiniteSet(Failed) /\ IsFiniteSet(Told)
      /\ Cardinality(Failed) \in Nat /\ Cardinality(Told) \in Nat
  BY CallAssumption, FS_Subset, FS_CardinalityType DEF Failed, Told
<1>3. srv' \notin {"cancelling", "stopped"} => srv \notin {"cancelling", "stopped"}
  BY CancellingForGood
<1>0. totalCalls \in Nat /\ totalErrors \in Nat
  BY DEF IInv, TypeOK
<1>4. CASE \A k \in Call : ~Complete(k) /\ ~Raise(k) /\ ~Timeout(k)
  <2>1. /\ UNCHANGED <<totalCalls, totalErrors>> /\ Failed' \subseteq Failed
        /\ srv' # "cancelling" => Failed' = Failed /\ Told' = Told
    BY <1>4, UncountedStep
  <2>2. Cardinality(Failed') \in Nat /\ Cardinality(Failed') <= Cardinality(Failed)
    BY <1>2, <2>1, FS_Subset, FS_CardinalityType
  <2> QED
    BY <1>0, <1>2, <1>3, <2>1, <2>2 DEF CountInv
<1>5. ASSUME NEW k \in Call, Complete(k) \/ Raise(k) \/ Timeout(k)
      PROVE  /\ Cardinality(Failed') <= totalErrors' /\ totalErrors' <= totalCalls'
             /\ srv' \notin {"cancelling", "stopped"} =>
                  totalErrors' = Cardinality(Failed') /\ totalCalls' = Cardinality(Told')
  <2>1. Cardinality(Told') = Cardinality(Told) + 1 /\ srv' = srv
    BY <1>2, <1>5, CountedStep, FS_AddElement
  <2>2. CASE Count(k, 0) /\ Failed' = Failed
    <3>1. totalCalls' = totalCalls + 1 /\ totalErrors' = totalErrors
      BY <1>0, <2>2 DEF Count
    <3> QED
      BY <1>0, <1>2, <2>1, <2>2, <3>1 DEF CountInv
  <2>3. CASE Count(k, 1) /\ k \notin Failed /\ Failed' = Failed \cup {k}
    <3>1. totalCalls' = totalCalls + 1 /\ totalErrors' = totalErrors + 1
      BY <2>3 DEF Count
    <3>2. Cardinality(Failed') = Cardinality(Failed) + 1
      BY <1>2, <2>3, FS_AddElement
    <3> QED
      BY <1>0, <1>2, <2>1, <3>1, <3>2 DEF CountInv
  <2> QED
    BY <1>5, <2>2, <2>3, CountedStep
<1> QED
  BY <1>4, <1>5

(* At first nobody was told anything and nothing was counted.              *)
LEMMA CountersInit == Init => ReplyByPhase /\ CountInv /\ OutcomeTold
<1> SUFFICES ASSUME Init PROVE ReplyByPhase /\ CountInv /\ OutcomeTold
  OBVIOUS
<1>1. ReplyByPhase
  BY DEF Init, ReplyByPhase, ReplyOf
<1>2. \A k \in Call : pc[k] = "remote" /\ \A x : ~Says(k, x)
  BY DEF Init, Says
<1>3. Failed = {} /\ Told = {}
  BY <1>2 DEF Failed, Told, HasOutcome
<1>4. Cardinality(Failed) = 0 /\ Cardinality(Told) = 0
  BY <1>3, FS_EmptySet
<1>5. totalErrors = 0 /\ totalCalls = 0
  BY DEF Init
<1>6. CountInv
  BY <1>4, <1>5 DEF CountInv
<1>7. OutcomeTold
  BY <1>2 DEF OutcomeTold
<1> QED
  BY <1>1, <1>6, <1>7

(* For any calls and handlers, through time-outs, exceptions, reloads and  *)
(* a stop that finds error frames still to be written: every handler_error *)
(* frame is a counted error, and until a drain times out the counters of   *)
(* _health and /metrics are exactly what callers are told.                 *)
THEOREM CountersAgree == Spec => []CountersMatchReplies
<1>1. IInv /\ CountInv => CountersMatchReplies
  <2> SUFFICES ASSUME IInv, CountInv PROVE CountersMatchReplies
    OBVIOUS
  <2>1. IsFiniteSet(Failed) /\ Erred \subseteq Failed
    BY CallAssumption, FS_Subset DEF Failed, Erred
  <2>2. /\ Cardinality(Erred) \in Nat /\ Cardinality(Failed) \in Nat
        /\ Cardinality(Erred) <= Cardinality(Failed)
    BY <2>1, FS_Subset, FS_CardinalityType
  <2>3. totalErrors \in Nat
    BY DEF IInv, TypeOK
  <2>4. Cardinality(Erred) <= totalErrors
    BY <2>2, <2>3 DEF CountInv
  <2> QED
    BY <2>4 DEF CountInv, CountersMatchReplies, Erred
<1> QED
  BY <1>1, CountersInit, IInvInit, IInvNext, ReplyNext, CountersNext, PTL DEF Spec

-----------------------------------------------------------------------------
(* The drain *)

(* A call that ends before the drain times out ends with its outcome.      *)
LEMMA OutcomeNext == IInv /\ ReplyByPhase /\ OutcomeTold /\ [Next]_vars => OutcomeTold'
<1> SUFFICES ASSUME IInv, ReplyByPhase, OutcomeTold, [Next]_vars,
                    srv' \notin {"cancelling", "stopped"}, NEW q \in Call,
                    Ended(q)', Says(q, "chunk")'
             PROVE  HasOutcome(q)'
  BY DEF OutcomeTold
<1>0. srv \notin {"cancelling", "stopped"}
  BY CancellingForGood
<1>1. ASSUME pc'[q] = pc[q], reply'[q] = reply[q] PROVE HasOutcome(q)'
  BY <1>0, <1>1, SaysKept DEF OutcomeTold, Ended, HasOutcome
<1>2. CASE ~ \E k \in Call : HandleOne(k)
  <2>1. pc'[q] = pc[q] /\ reply'[q] = reply[q]
    BY <1>2, OtherReply DEF Ended
  <2> QED
    BY <1>1, <2>1
<1>3. ASSUME NEW k \in Call, HandleOne(k) PROVE HasOutcome(q)'
  <2> USE DEF IInv, TypeOK
  <2>1. CASE q # k
    BY <1>1, <1>3, <2>1, TaskReply
  <2>2. CASE q = k /\ (NoRequest(k) \/ Refuse(k))
    <3>1. \A x : ~Says(k, x)
      BY <2>2, NotYetTold DEF NoRequest, Refuse
    <3>2. ~Says(k, "chunk")'
      <4>1. CASE NoRequest(k)
        <5>1. reply'[k] = reply[k]
          BY <4>1 DEF NoRequest
        <5> QED
          BY <3>1, <5>1, SaysKept
      <4>2. CASE Refuse(k)
        <5>1. Verdict(k) \in Refusal /\ reply'[k] = Append(reply[k], Verdict(k))
          BY <4>2 DEF Refuse, Verdict, Refusal, Send
        <5>2. \A x : Says(k, x)' <=> (Says(k, x) \/ x = Verdict(k))
          BY <5>1, SaysSent DEF FrameKind
        <5> QED
          BY <3>1, <5>1, <5>2 DEF Refusal
      <4> QED
        BY <2>2, <4>1, <4>2
    <3> QED
      BY <2>2, <3>2
  <2>3. CASE q = k /\ Complete(k)
    <3>1. reply'[k] = reply[k] /\ Says(k, "ok")
      BY <2>3, NotYetTold DEF Complete
    <3> QED
      BY <2>3, <3>1, SaysKept DEF HasOutcome
  <2>4. CASE q = k /\ SendError(k)
    <3>1. reply'[k] = Append(reply[k], "handler_error")
      BY <2>4 DEF SendError, Send
    <3> QED
      BY <2>4, <3>1, SaysSent DEF HasOutcome, FrameKind
  <2>5. CASE q = k /\ CloseStream(k)
    <3>1. reply'[k] = reply[k] /\ Ended(k)
      BY <2>5 DEF CloseStream, Ended
    <3> QED
      BY <1>0, <2>5, <3>1, SaysKept DEF OutcomeTold, HasOutcome
  <2>6. CASE q = k /\ (Admit(k) \/ Yield(k) \/ LastFrame(k) \/ Raise(k) \/ Timeout(k))
    <3>1. ~Ended(k)'
      BY <2>6 DEF Admit, Yield, LastFrame, Raise, Timeout, Fail, Ended
    <3> QED
      BY <2>6, <3>1
  <2> QED
    BY <1>3, <2>1, <2>2, <2>3, <2>4, <2>5, <2>6 DEF HandleOne, HandlerStep
<1> QED
  BY <1>2, <1>3

(* The server stops by the return of the drain only.                       *)
LEMMA StopsDrained ==
    ASSUME [Next]_vars, srv = "draining", srv' = "stopped"
    PROVE  InFlight = {}
<1>1. ASSUME NEW k \in Call, Arrive(k) \/ HandleOne(k) PROVE srv' = srv
  BY <1>1 DEF Arrive, HandleOne, HandlerStep, NoRequest, Refuse, Admit, Yield,
              LastFrame, Complete, Raise, Timeout, Fail, SendError, CloseStream,
              server
<1>2. Accept \/ RequestStop \/ StopLoop \/ DrainTimeout \/ UNCHANGED vars =>
         srv' # "stopped"
  BY DEF Accept, RequestStop, StopLoop, DrainTimeout, vars, server
<1>3. ~ \/ \E names \in SUBSET Handler : Reload(names)
        \/ \E h \in Handler, nodes \in SUBSET Caller : Authorize(h, nodes)
        \/ \E g \in Reg, p \in Caller : Expire(g, p)
  BY DEF Reload, Authorize, Expire, server
<1>4. Drained
  BY <1>1, <1>2, <1>3 DEF Next
<1> QED
  BY <1>4 DEF Drained

(* For any calls and handlers: a stop whose drain ends in time leaves no   *)
(* caller with chunks and no outcome, and no call or error counted that    *)
(* its caller was not told of.                                             *)
THEOREM GracefulStopIsComplete == Spec => DrainLosesNothing
<1>1. ASSUME IInv, ReplyByPhase, CountInv, OutcomeTold, [Next]_vars,
             srv = "draining", srv' = "stopped"
      PROVE  /\ \A k \in Call : Says(k, "chunk") => HasOutcome(k)
             /\ totalCalls = Cardinality({k \in Call : HasOutcome(k)})
             /\ totalErrors = Cardinality({k \in Call : Says(k, "handler_error")})
  <2>1. \A k \in Call : pc[k] \in {"remote", "dropped", "queued", "done"}
    BY <1>1, StopsDrained DEF InFlight, IInv, TypeOK
  <2>2. \A k \in Call : Ended(k) \/ \A x : ~Says(k, x)
    BY <1>1, <2>1, NotYetTold DEF Ended
  <2>3. \A k \in Call : Says(k, "chunk") => HasOutcome(k)
    BY <1>1, <2>2 DEF OutcomeTold
  <2>4. Told = {k \in Call : HasOutcome(k)}
    BY <2>1, <2>2 DEF Told, HasOutcome
  <2>5. Failed = {k \in Call : Says(k, "handler_error")}
    BY <2>1 DEF Failed
  <2> QED
    BY <1>1, <2>3, <2>4, <2>5 DEF CountInv
<1>2. IInv /\ ReplyByPhase /\ CountInv /\ OutcomeTold /\ [Next]_vars =>
         [srv = "draining" /\ srv' = "stopped" =>
             /\ \A k \in Call : Says(k, "chunk") => HasOutcome(k)
             /\ totalCalls = Cardinality({k \in Call : HasOutcome(k)})
             /\ totalErrors = Cardinality({k \in Call : Says(k, "handler_error")})]_vars
  BY <1>1
<1> QED
  BY <1>2, CountersInit, IInvInit, IInvNext, ReplyNext, CountersNext, OutcomeNext, PTL
     DEF Spec, DrainLosesNothing
=============================================================================
