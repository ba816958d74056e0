------------------------- MODULE RateLimiterProofs -------------------------
(* The guarantee of rate_per_caller, for every limit, window, clock and set *)
(* of callers.                                                             *)
EXTENDS RateLimiter, SequenceTheorems, TLAPS

(* w is q without its first n elements.                                    *)
IsDropped(q, n, w) ==
    /\ Len(w) = Len(q) - n
    /\ \A i \in 1..(Len(q) - n) : w[i] = q[n + i]

(* SubSeq drops the beginning of a sequence.                               *)
LEMMA SuffixFacts ==
    ASSUME NEW w \in Seq(Nat), NEW n \in 0..Len(w)
    PROVE  /\ SubSeq(w, n + 1, Len(w)) \in Seq(Nat)
           /\ IsDropped(w, n, SubSeq(w, n + 1, Len(w)))
  BY DEF IsDropped

(* Dropping the n stale times q begins with: q is the end of the history g, *)
(* and so is what is left of it, w.                                        *)
LEMMA DropStale ==
    ASSUME NEW g \in Seq(Nat), NEW q \in Seq(Nat), NEW w \in Seq(Nat),
           NEW cutoff \in Int, NEW n \in 0..Len(q), IsDropped(q, n, w),
           IsSuffix(q, g), AllBefore(g, Len(g) - Len(q), cutoff),
           AllBefore(q, n, cutoff),
           n < Len(q) => q[n + 1] >= cutoff,
           NonDecreasing(g)
    PROVE  /\ IsSuffix(w, g)
           /\ AllBefore(g, Len(g) - Len(w), cutoff)
           /\ \A i \in 1..Len(w) : w[i] >= cutoff
<1>0. Len(q) \in Nat /\ Len(g) \in Nat /\ Len(w) \in Nat
  OBVIOUS
<1>1. n \in Nat /\ n <= Len(q) /\ Len(q) \in Nat /\ Len(g) \in Nat /\ Len(w) \in Nat
  BY <1>0
<1>2. Len(w) = Len(q) - n /\ Len(q) <= Len(g)
  BY DEF IsDropped, IsSuffix
<1>3. ASSUME NEW i \in 1..Len(w)
      PROVE  w[i] = g[Len(g) - Len(w) + i] /\ w[i] >= cutoff
  <2>1. n + i \in 1..Len(q) /\ n + 1 \in 1..Len(q) /\ i \in 1..(Len(q) - n)
    BY <1>1, <1>2
  <2>0. i \in Nat /\ 1 <= i /\ i <= Len(w)
    BY <1>1
  <2>2. /\ Len(g) - Len(q) + (n + i) = Len(g) - Len(w) + i
        /\ Len(g) - Len(q) + (n + i) \in 1..Len(g)
        /\ Len(g) - Len(q) + (n + 1) \in 1..Len(g)
    <3>1. Len(g) - Len(q) + (n + i) = Len(g) - Len(w) + i
      BY <1>1, <1>2, <2>0
    <3>2. Len(g) - Len(q) + (n + i) \in 1..Len(g)
      BY <1>1, <1>2, <2>0
    <3>3. Len(g) - Len(q) + (n + 1) \in 1..Len(g)
      <4>1. n + 1 <= Len(q)
        BY <1>1, <2>1
      <4> QED
        BY <1>1, <1>2, <4>1
    <3> QED
      BY <3>1, <3>2, <3>3
  <2>3. w[i] = q[n + i]
    BY <2>1 DEF IsDropped
  <2>4. /\ q[n + i] = g[Len(g) - Len(w) + i]
        /\ q[n + i] = g[Len(g) - Len(q) + (n + i)]
        /\ q[n + 1] = g[Len(g) - Len(q) + (n + 1)]
    BY <2>1, <2>2 DEF IsSuffix
  <2>5. n < Len(q)
    BY <1>1, <2>1
  <2>6. q[n + 1] \in Nat /\ q[n + i] \in Nat
    BY <2>1, ElementOfSeq
  <2>7. q[n + 1] <= q[n + i]
    <3>1. CASE i = 1
      BY <2>6, <3>1
    <3>2. CASE i # 1
      <4>1. Len(g) - Len(q) + (n + 1) < Len(g) - Len(q) + (n + i)
        BY <1>1, <3>2
      <4> QED
        BY <2>2, <2>4, <4>1 DEF NonDecreasing
    <3> QED
      BY <3>1, <3>2
  <2>8. q[n + i] >= cutoff
    <3>1. q[n + 1] >= cutoff
      BY <2>5
    <3> QED
      BY <2>6, <2>7, <3>1
  <2> QED
    BY <2>3, <2>4, <2>8
<1>4. ASSUME NEW i \in 1..(Len(g) - Len(w))
      PROVE  g[i] < cutoff
  <2>1. CASE i <= Len(g) - Len(q)
    <3>1. i \in 1..(Len(g) - Len(q))
      BY <1>1, <2>1
    <3> QED
      BY <3>1 DEF AllBefore
  <2>2. CASE i > Len(g) - Len(q)
    <3>1. PICK j : j = i - (Len(g) - Len(q))
      OBVIOUS
    <3>0. i \in Nat /\ i <= Len(g) - Len(w)
      BY <1>1
    <3>2. j \in 1..n /\ j \in 1..Len(q) /\ Len(g) - Len(q) + j = i
      <4>1. j \in Int /\ j >= 1 /\ j <= n
        BY <1>1, <1>2, <2>2, <3>0, <3>1
      <4> QED
        BY <1>1, <3>0, <3>1, <4>1
    <3>3. q[j] = g[i]
      BY <3>2 DEF IsSuffix
    <3>4. q[j] < cutoff
      BY <3>2 DEF AllBefore
    <3> QED
      BY <3>3, <3>4
  <2> QED
    BY <1>1, <2>1, <2>2
<1>5. IsSuffix(w, g)
  BY <1>1, <1>2, <1>3 DEF IsSuffix
<1>6. AllBefore(g, Len(g) - Len(w), cutoff)
  BY <1>4 DEF AllBefore
<1> QED
  BY <1>3, <1>5, <1>6

(* A denial: the window is full, so Limit of the caller's calls are in it. *)
LEMMA Deny ==
    ASSUME NEW g \in Seq(Nat), NEW w \in Seq(Nat), NEW t \in Nat,
           IsSuffix(w, g), Len(w) = Limit, NoneAfter(g, t),
           \A i \in 1..Len(w) : w[i] >= t - Window
    PROVE  FullAt(g, t)
<1> USE LimitAssumption
<1>1. PICK k : k = Len(g) - Limit + 1
  OBVIOUS
<1>2. Len(g) \in Nat /\ Limit <= Len(g) /\ Limit \in Nat /\ Limit >= 1
  BY DEF IsSuffix
<1>3. k \in 1..(Len(g) - Limit + 1)
  BY <1>1, <1>2
<1>4. k + Limit - 1 \in 1..Len(g) /\ 1 \in 1..Len(w)
  BY <1>1, <1>2
<1>5. g[k] = w[1] /\ w[1] >= t - Window
  <2>1. k = Len(g) - Len(w) + 1
    BY <1>1
  <2> QED
    BY <1>4, <2>1 DEF IsSuffix
<1>6. g[k] >= t - Window
  BY <1>5
<1>7. g[k + Limit - 1] <= t
  BY <1>4 DEF NoneAfter
<1> QED
  BY <1>3, <1>6, <1>7 DEF FullAt

(* A grant: fewer than Limit calls are within the window, so the call      *)
(* Limit places back is older than it.                                     *)
LEMMA Grant ==
    ASSUME NEW g \in Seq(Nat), NEW w \in Seq(Nat), NEW t \in Nat,
           NEW d \in Nat \cup {-1}, ~(Len(w) >= Limit), CallerInv(w, g, d, t)
    PROVE  CallerInv(Append(w, t), Append(g, t), d, t)
<1> USE LimitAssumption
<1>1. PICK h, v : h = Append(g, t) /\ v = Append(w, t)
  OBVIOUS
<1>2. Len(g) \in Nat /\ Len(w) \in Nat /\ Len(w) < Limit /\ Limit \in Nat
  OBVIOUS
<1>3. /\ Len(h) = Len(g) + 1 /\ h[Len(g) + 1] = t
      /\ \A i \in 1..Len(g) : h[i] = g[i]
  BY <1>1
<1>4. /\ Len(v) = Len(w) + 1 /\ v[Len(w) + 1] = t
      /\ \A i \in 1..Len(w) : v[i] = w[i]
  BY <1>1
<1>5. \A i \in 1..Len(g) : g[i] \in Nat
  BY ElementOfSeq
<1>6. \A i \in 1..Len(h) : i \in 1..Len(g) \/ i = Len(g) + 1
  BY <1>2, <1>3
<1>7. Len(w) <= Len(g)
  BY DEF CallerInv, IsSuffix
<1>8. Len(v) <= Limit
  BY <1>2, <1>4
<1>9. IsSuffix(v, h)
  <2>1. Len(v) <= Len(h)
    BY <1>2, <1>3, <1>4, <1>7
  <2>2. ASSUME NEW i \in 1..Len(v) PROVE v[i] = h[Len(h) - Len(v) + i]
    <3>1. CASE i = Len(w) + 1
      <4>1. Len(h) - Len(v) + i = Len(g) + 1
        BY <1>2, <1>3, <1>4, <3>1
      <4> QED
        BY <1>3, <1>4, <3>1, <4>1
    <3>2. CASE i # Len(w) + 1
      <4>1. i \in 1..Len(w)
        BY <1>2, <1>4, <3>2
      <4>2. /\ Len(h) - Len(v) + i = Len(g) - Len(w) + i
            /\ Len(g) - Len(w) + i \in 1..Len(g)
        BY <1>2, <1>3, <1>4, <1>7, <4>1
      <4>3. w[i] = g[Len(g) - Len(w) + i]
        BY <4>1 DEF CallerInv, IsSuffix
      <4> QED
        BY <1>3, <1>4, <4>1, <4>2, <4>3
    <3> QED
      BY <3>1, <3>2
  <2> QED
    BY <2>1, <2>2 DEF IsSuffix
<1>10. AllBefore(h, Len(h) - Len(v), t - Window)
  <2> SUFFICES ASSUME NEW i \in 1..(Len(h) - Len(v)) PROVE h[i] < t - Window
    BY DEF AllBefore
  <2>1. i \in 1..(Len(g) - Len(w)) /\ i \in 1..Len(g)
    BY <1>2, <1>3, <1>4, <1>7
  <2>2. g[i] < t - Window
    BY <2>1 DEF CallerInv, AllBefore
  <2> QED
    BY <1>3, <2>1, <2>2
<1>11. NoneAfter(h, t)
  <2> SUFFICES ASSUME NEW i \in 1..Len(h) PROVE h[i] <= t
    BY DEF NoneAfter
  <2>1. CASE i = Len(g) + 1
    BY <1>3, <2>1
  <2>2. CASE i \in 1..Len(g)
    BY <1>3, <2>2 DEF CallerInv, NoneAfter
  <2> QED
    BY <1>6, <2>1, <2>2
<1>12. NonDecreasing(h)
  <2> SUFFICES ASSUME NEW i \in 1..Len(h), NEW j \in 1..Len(h), i < j
               PROVE  h[i] <= h[j]
    BY DEF NonDecreasing
  <2>1. i \in 1..Len(g)
    BY <1>2, <1>3
  <2>2. CASE j = Len(g) + 1
    BY <1>3, <1>11, <2>2 DEF NoneAfter
  <2>3. CASE j \in 1..Len(g)
    <3>1. g[i] <= g[j]
      BY <2>1, <2>3 DEF CallerInv, NonDecreasing
    <3> QED
      BY <1>3, <2>1, <2>3, <3>1
  <2> QED
    BY <1>6, <2>2, <2>3
<1>13. SpacedOut(h)
  <2> SUFFICES ASSUME NEW i \in 1..(Len(h) - Limit) PROVE h[i + Limit] - h[i] > Window
    BY DEF SpacedOut
  <2>1. i \in Nat /\ 1 <= i /\ i <= Len(g) + 1 - Limit
    BY <1>2, <1>3
  <2>2. i \in 1..Len(g) /\ h[i] = g[i] /\ g[i] \in Nat
    <3>1. i \in 1..Len(g)
      BY <1>2, <2>1
    <3> QED
      BY <1>3, <1>5, <3>1
  <2>3. CASE i + Limit = Len(g) + 1
    <3>1. i \in 1..(Len(g) - Len(w))
      BY <1>2, <2>1, <2>3
    <3>2. g[i] < t - Window
      BY <3>1 DEF CallerInv, AllBefore
    <3>3. h[i + Limit] = t
      BY <1>3, <2>3
    <3> QED
      BY <2>2, <3>2, <3>3
  <2>4. CASE i + Limit # Len(g) + 1
    <3>1. i + Limit \in 1..Len(g) /\ i \in 1..(Len(g) - Limit)
      BY <1>2, <2>1, <2>4
    <3>2. g[i + Limit] - g[i] > Window
      BY <3>1 DEF CallerInv, SpacedOut
    <3> QED
      BY <1>3, <2>2, <3>1, <3>2
  <2> QED
    BY <2>3, <2>4
<1>14. d >= 0 => FullAt(h, d)
  <2> SUFFICES ASSUME d >= 0 PROVE FullAt(h, d)
    OBVIOUS
  <2>1. PICK i \in 1..(Len(g) - Limit + 1) :
               g[i] >= d - Window /\ g[i + Limit - 1] <= d
    BY DEF CallerInv, FullAt
  <2>2. i \in Nat /\ 1 <= i /\ i <= Len(g) - Limit + 1 /\ Limit >= 1
    BY <1>2
  <2>3. i \in 1..Len(g) /\ i + Limit - 1 \in 1..Len(g) /\ i \in 1..(Len(h) - Limit + 1)
    BY <1>2, <1>3, <2>2
  <2>4. h[i] = g[i] /\ h[i + Limit - 1] = g[i + Limit - 1]
    BY <1>3, <2>3
  <2> QED
    BY <2>1, <2>3, <2>4 DEF FullAt
<1>15. CallerInv(v, h, d, t)
  BY <1>8, <1>9, <1>10, <1>11, <1>12, <1>13, <1>14 DEF CallerInv
<1> QED
  BY <1>1, <1>15

(* The passing of time keeps the invariant: what was too old stays so.     *)
LEMMA Later ==
    ASSUME NEW g \in Seq(Nat), NEW w \in Seq(Nat), NEW t \in Nat, NEW u \in Nat,
           NEW d, u > t, CallerInv(w, g, d, t)
    PROVE  CallerInv(w, g, d, u)
<1> USE LimitAssumption
<1>1. \A i \in 1..Len(g) : g[i] \in Nat
  BY ElementOfSeq
<1>2. Len(g) \in Nat /\ Len(w) \in Nat /\ Len(w) <= Len(g)
  BY DEF CallerInv, IsSuffix
<1>3. AllBefore(g, Len(g) - Len(w), u - Window)
  <2> SUFFICES ASSUME NEW i \in 1..(Len(g) - Len(w)) PROVE g[i] < u - Window
    BY DEF AllBefore
  <2>1. i \in 1..Len(g)
    BY <1>2
  <2>2. g[i] < t - Window /\ g[i] \in Nat
    BY <1>1, <2>1 DEF CallerInv, AllBefore
  <2> QED
    BY <2>2
<1>4. NoneAfter(g, u)
  BY <1>1 DEF CallerInv, NoneAfter
<1> QED
  BY <1>3, <1>4 DEF CallerInv

(* A call of consume keeps the invariant.                                  *)
LEMMA ConsumeStep ==
    ASSUME IInv, NEW p \in Caller, Consume(p)
    PROVE  IInv'
<1> USE LimitAssumption
<1>1. PICK n \in 0..Len(windows[p]) :
        /\ Pruned(windows[p], n)
        /\ LET w == SubSeq(windows[p], n + 1, Len(windows[p]))
           IN  IF Len(w) >= Limit
               THEN /\ windows' = [windows EXCEPT ![p] = w]
                    /\ denied' = [denied EXCEPT ![p] = now]
                    /\ UNCHANGED granted
               ELSE /\ windows' = [windows EXCEPT ![p] = Append(w, now)]
                    /\ granted' = [granted EXCEPT ![p] = Append(@, now)]
                    /\ UNCHANGED denied
        /\ UNCHANGED now
  BY DEF Consume
<1>2. PICK q, g, w, c, t, d :
        /\ q = windows[p] /\ g = granted[p] /\ t = now /\ c = now - Window
        /\ w = SubSeq(windows[p], n + 1, Len(windows[p])) /\ d = denied[p]
  OBVIOUS
<1>3. /\ q \in Seq(Nat) /\ g \in Seq(Nat) /\ t \in Nat /\ c \in Int
      /\ n \in 0..Len(q) /\ d \in Nat \cup {-1} /\ c = t - Window
  BY <1>2 DEF IInv, TypeOK
<1>4. CallerInv(q, g, d, t)
  BY <1>2 DEF IInv
<1>5. w \in Seq(Nat) /\ IsDropped(q, n, w)
  BY <1>2, <1>3, SuffixFacts
<1>6. AllBefore(q, n, c) /\ (n < Len(q) => q[n + 1] >= c)
  BY <1>1, <1>2 DEF Pruned, AllBefore
<1>7. /\ IsSuffix(w, g) /\ AllBefore(g, Len(g) - Len(w), c)
      /\ \A i \in 1..Len(w) : w[i] >= c
  <2>1. IsSuffix(q, g) /\ AllBefore(g, Len(g) - Len(q), c) /\ NonDecreasing(g)
    BY <1>3, <1>4 DEF CallerInv
  <2> QED
    BY <1>3, <1>5, <1>6, <2>1, DropStale
<1>8. Len(w) <= Limit /\ Len(w) \in Nat
  <2>1. Len(w) = Len(q) - n /\ Len(q) <= Limit /\ Len(q) \in Nat
    BY <1>3, <1>4, <1>5 DEF CallerInv, IsDropped
  <2> QED
    BY <1>3, <1>5, <2>1
<1>9. CallerInv(w, g, d, t)
  BY <1>3, <1>4, <1>7, <1>8 DEF CallerInv
<1>10. CASE Len(w) >= Limit
  <2>1. /\ windows' = [windows EXCEPT ![p] = w] /\ denied' = [denied EXCEPT ![p] = t]
        /\ granted' = granted /\ now' = now
    BY <1>1, <1>2, <1>10
  <2>2. FullAt(g, t)
    <3>1. Len(w) = Limit /\ NoneAfter(g, t)
      BY <1>4, <1>8, <1>10 DEF CallerInv
    <3> QED
      BY <1>3, <1>5, <1>7, <3>1, Deny
  <2>3. CallerInv(w, g, t, t)
    BY <1>9, <2>2 DEF CallerInv
  <2>4. TypeOK'
    BY <1>3, <1>5, <2>1 DEF IInv, TypeOK
  <2>5. ASSUME NEW x \in Caller
        PROVE  CallerInv(windows'[x], granted'[x], denied'[x], now')
    <3>1. CASE x = p
      <4>1. windows'[x] = w /\ granted'[x] = g /\ denied'[x] = t /\ now' = t
        BY <1>2, <2>1, <3>1 DEF IInv, TypeOK
      <4> QED
        BY <2>3, <4>1
    <3>2. CASE x # p
      <4>1. windows'[x] = windows[x] /\ denied'[x] = denied[x]
        BY <2>1, <3>2 DEF IInv, TypeOK
      <4> QED
        BY <2>1, <4>1 DEF IInv
    <3> QED
      BY <3>1, <3>2
  <2> QED
    BY <2>4, <2>5 DEF IInv
<1>11. CASE ~(Len(w) >= Limit)
  <2>1. /\ windows' = [windows EXCEPT ![p] = Append(w, t)]
        /\ granted' = [granted EXCEPT ![p] = Append(g, t)]
        /\ denied' = denied /\ now' = now
    BY <1>1, <1>2, <1>11
  <2>2. CallerInv(Append(w, t), Append(g, t), d, t)
    BY <1>3, <1>5, <1>9, <1>11, Grant
  <2>3. Append(w, t) \in Seq(Nat) /\ Append(g, t) \in Seq(Nat)
    BY <1>3, <1>5
  <2>4. TypeOK'
    BY <2>1, <2>3 DEF IInv, TypeOK
  <2>5. ASSUME NEW x \in Caller
        PROVE  CallerInv(windows'[x], granted'[x], denied'[x], now')
    <3>1. CASE x = p
      <4>1. /\ windows'[x] = Append(w, t) /\ granted'[x] = Append(g, t)
            /\ denied'[x] = d /\ now' = t
        BY <1>2, <2>1, <3>1 DEF IInv, TypeOK
      <4> QED
        BY <2>2, <4>1
    <3>2. CASE x # p
      <4>1. windows'[x] = windows[x] /\ granted'[x] = granted[x]
        BY <2>1, <3>2 DEF IInv, TypeOK
      <4> QED
        BY <2>1, <4>1 DEF IInv
    <3> QED
      BY <3>1, <3>2
  <2> QED
    BY <2>4, <2>5 DEF IInv
<1> QED
  BY <1>10, <1>11

(* The invariant is inductive.                                             *)
LEMMA IInvInductive ==
    /\ Init => IInv
    /\ IInv /\ [Next]_vars => IInv'
<1> USE LimitAssumption
<1>1. ASSUME Init PROVE IInv
  <2>1. TypeOK
    BY <1>1 DEF Init, TypeOK
  <2>2. CallerInv(<<>>, <<>>, -1, 0)
    BY DEF CallerInv, IsSuffix, AllBefore, NoneAfter, NonDecreasing, SpacedOut
  <2> QED
    BY <1>1, <2>1, <2>2 DEF Init, IInv
<1>2. ASSUME IInv, [Next]_vars PROVE IInv'
  <2>1. CASE Tick
    <3>1. /\ now \in Nat /\ now' \in Nat /\ now' > now
          /\ UNCHANGED <<windows, granted, denied>>
      BY <1>2, <2>1 DEF Tick, IInv, TypeOK
    <3>2. TypeOK'
      BY <1>2, <3>1 DEF IInv, TypeOK
    <3>3. ASSUME NEW p \in Caller
          PROVE  CallerInv(windows[p], granted[p], denied[p], now')
      <4>1. /\ windows[p] \in Seq(Nat) /\ granted[p] \in Seq(Nat)
            /\ CallerInv(windows[p], granted[p], denied[p], now)
        BY <1>2 DEF IInv, TypeOK
      <4> QED
        BY <3>1, <4>1, Later
    <3> QED
      BY <3>1, <3>2, <3>3 DEF IInv
  <2>2. ASSUME NEW p \in Caller, Consume(p) PROVE IInv'
    BY <1>2, <2>2, ConsumeStep
  <2>3. CASE UNCHANGED vars
    BY <1>2, <2>3 DEF vars, IInv, TypeOK
  <2> QED
    BY <1>2, <2>1, <2>2, <2>3 DEF Next
<1> QED
  BY <1>1, <1>2

(* No caller gets more than rate_per_caller calls through in any interval  *)
(* of rate_window_secs.                                                    *)
THEOREM RateIsLimited == Spec => []WindowCap
<1>1. IInv => WindowCap
  BY DEF IInv, CallerInv, WindowCap
<1> QED
  BY <1>1, IInvInductive, PTL DEF Spec

(* A caller that stays under its rate is never denied, whatever the other  *)
(* callers do.                                                             *)
THEOREM DenialsAreDeserved == Spec => []NoFalseDenial
<1>1. IInv => NoFalseDenial
  BY DEF IInv, CallerInv, NoFalseDenial
<1> QED
  BY <1>1, IInvInductive, PTL DEF Spec

(* The deque of a caller never holds more than rate_per_caller times.      *)
THEOREM MemoryIsBounded == Spec => []MemoryBound
<1>1. IInv => MemoryBound
  BY DEF IInv, CallerInv, MemoryBound
<1> QED
  BY <1>1, IInvInductive, PTL DEF Spec
=============================================================================
