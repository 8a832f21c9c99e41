------------------------- MODULE RateLimiter_proofs -------------------------
(***************************************************************************)
(* Proofs about RateLimiter, for every capacity, rate and cost, and        *)
(* however the refills are rounded.                                        *)
(***************************************************************************)
EXTENDS RateLimiter, TLAPS

(***************************************************************************)
(* The inductive invariant.  Once something was admitted in the window,    *)
(* the bucket has been refilled inside it, and what was admitted and what  *)
(* is left are covered by a full bucket and the refill since the window    *)
(* opened.  In the other direction the bucket is full or holds all that    *)
(* has accrued since the last admission.  Rounding counts against both     *)
(* once a millisecond.                                                     *)
(***************************************************************************)
Fastest == Rate + Rounding

Covered ==
  count > 0 =>
    /\ Watching /\ from <= bucket.refilled
    /\ Cost * count + bucket.tokens <= Capacity + Fastest * (bucket.refilled - from)

Accrued ==
  /\ last <= bucket.refilled
  /\ \/ bucket.tokens = Capacity
     \/ Rate * (bucket.refilled - last) <= bucket.tokens + Rounding * (bucket.refilled - last)

IInv == TypeOK /\ Covered /\ Accrued

\* What accrues in two adjacent stretches of time adds up, at any rate.
LEMMA RefillAddsUp ==
  ASSUME NEW r \in Nat, NEW x \in Int, NEW y \in Int, NEW z \in Int, x <= y, y <= z
  PROVE  /\ r * (y - x) + r * (z - y) = r * (z - x)
         /\ r * (y - x) \in Nat /\ r * (z - y) \in Nat
<1>1. \A n \in Nat : r * n \in Nat
  OBVIOUS
<1>2. \A m, n \in Nat : r * m + r * n = r * (m + n)
  OBVIOUS
<1>3. y - x \in Nat /\ z - y \in Nat /\ (y - x) + (z - y) = z - x
  OBVIOUS
<1> QED
  BY <1>1, <1>2, <1>3

\* What a refill adds is what has accrued, give or take Rounding if it took time.
LEMMA AddedFacts ==
  ASSUME IInv, NEW g \in Added
  PROVE  LET t == now - bucket.refilled IN
         /\ g \in Nat /\ t \in Nat
         /\ Rate * t \in Nat /\ Rounding * t \in Nat /\ Fastest * t \in Nat
         /\ g <= Fastest * t
         /\ Rate * t <= g + Rounding * t
<1> DEFINE t == now - bucket.refilled
<1>1. /\ t \in Nat /\ Rate \in Nat /\ Rounding \in Nat /\ Fastest \in Nat
      /\ Fastest = Rate + Rounding
  BY LimiterAssumption DEF IInv, TypeOK, Bucket, Fastest
<1>2. Gain = Rate * t
  BY DEF Gain
<1> HIDE DEF t
<1>3. /\ Rate * t \in Nat /\ Rounding * t \in Nat /\ Fastest * t \in Nat
      /\ Fastest * t = Rate * t + Rounding * t
  <2>1. \A n \in Nat : Rate * n \in Nat /\ Rounding * n \in Nat
    BY <1>1
  <2>2. \A n \in Nat : (Rate + Rounding) * n = Rate * n + Rounding * n
    BY <1>1
  <2> QED
    BY <1>1, <2>1, <2>2
<1>4. CASE Gain = 0
  <2>1. g = 0
    BY <1>4 DEF Added
  <2> QED
    BY <1>1, <1>2, <1>3, <1>4, <2>1 DEF t
<1>5. CASE Gain # 0
  <2>1. g \in (Gain - Rounding)..(Gain + Rounding) /\ g >= 0
    BY <1>5 DEF Added
  <2>2. t # 0
    BY <1>1, <1>2, <1>5
  <2>3. Rounding * t >= Rounding
    <3>1. t - 1 \in Nat
      BY <1>1, <2>2
    <3>2. Rounding * (t - 1) \in Nat
      BY <1>1, <3>1
    <3>3. Rounding * t = Rounding * (t - 1) + Rounding
      BY <1>1, <3>1
    <3> QED
      BY <1>1, <3>2, <3>3
  <2>4. g \in Nat /\ g <= Gain + Rounding /\ Gain <= g + Rounding
    BY <1>1, <1>2, <1>3, <2>1
  <2>5. g <= Fastest * t /\ Rate * t <= g + Rounding * t
    BY <1>1, <1>2, <1>3, <2>3, <2>4
  <2> QED
    BY <1>1, <1>3, <2>4, <2>5 DEF t
<1> QED
  BY <1>4, <1>5

\* A refill keeps the bucket within its capacity and its bounds on both sides.
LEMMA RefilledFacts ==
  ASSUME IInv, NEW b \in Refilled
  PROVE  /\ b \in Bucket /\ b = [tokens |-> b.tokens, refilled |-> now]
         /\ bucket.tokens <= b.tokens
         /\ b.tokens <= bucket.tokens + Fastest * (now - bucket.refilled)
         /\ \/ b.tokens = Capacity
            \/ bucket.tokens + Rate * (now - bucket.refilled)
                 <= b.tokens + Rounding * (now - bucket.refilled)
<1>1. PICK g \in Added : b = [tokens |-> Min2(bucket.tokens + g, Capacity), refilled |-> now]
  BY DEF Refilled
<1>2. bucket.tokens \in Nat /\ bucket.tokens <= Capacity /\ Capacity \in Nat /\ now \in Nat
  BY LimiterAssumption DEF IInv, TypeOK, Bucket
<1> DEFINE t == now - bucket.refilled
<1>3. /\ g \in Nat /\ Rate * t \in Nat /\ Rounding * t \in Nat /\ Fastest * t \in Nat
      /\ g <= Fastest * t /\ Rate * t <= g + Rounding * t
  BY AddedFacts
<1> HIDE DEF t
<1>4. b.tokens = Min2(bucket.tokens + g, Capacity) /\ b = [tokens |-> b.tokens, refilled |-> now]
  BY <1>1
<1>5. /\ b.tokens \in 0..Capacity /\ bucket.tokens <= b.tokens
      /\ b.tokens <= bucket.tokens + g
      /\ b.tokens = Capacity \/ b.tokens = bucket.tokens + g
  BY <1>2, <1>3, <1>4 DEF Min2
<1>6. b \in Bucket
  BY <1>2, <1>4, <1>5 DEF Bucket
<1>7. /\ b.tokens <= bucket.tokens + Fastest * t
      /\ b.tokens = Capacity \/ bucket.tokens + Rate * t <= b.tokens + Rounding * t
  BY <1>2, <1>3, <1>5
<1> QED
  BY <1>4, <1>5, <1>6, <1>7 DEF t

\* The bounds that a refill now is to keep.
LEMMA RefilledBounds ==
  ASSUME IInv, NEW b \in Refilled
  PROVE  /\ count > 0 => /\ Watching /\ from <= now
                         /\ Cost * count + b.tokens <= Capacity + Fastest * (now - from)
         /\ last <= now
         /\ b.tokens = Capacity \/ Rate * (now - last) <= b.tokens + Rounding * (now - last)
<1>1. /\ Cost \in Nat /\ count \in Nat /\ Capacity \in Nat /\ from \in Nat
      /\ bucket.refilled \in Int /\ bucket.refilled <= now /\ bucket.tokens \in Nat
      /\ now \in Int /\ from \in Int /\ last \in Int
      /\ Fastest \in Nat /\ Rate \in Nat /\ Rounding \in Nat
      /\ b.tokens \in Nat /\ b.tokens <= Capacity /\ last <= bucket.refilled
      /\ bucket.tokens <= Capacity
  BY RefilledFacts, LimiterAssumption DEF IInv, TypeOK, Bucket, Fastest, Accrued
<1> DEFINE t == now - bucket.refilled
<1>2. /\ bucket.tokens <= b.tokens /\ b.tokens <= bucket.tokens + Fastest * t
      /\ b.tokens = Capacity \/ bucket.tokens + Rate * t <= b.tokens + Rounding * t
  BY RefilledFacts
<1>3. ASSUME count > 0
      PROVE  /\ Watching /\ from <= now
             /\ Cost * count + b.tokens <= Capacity + Fastest * (now - from)
  <2>1. /\ Watching /\ from <= bucket.refilled
        /\ Cost * count + bucket.tokens <= Capacity + Fastest * (bucket.refilled - from)
    BY <1>3 DEF IInv, Covered
  <2>2. /\ Fastest * (bucket.refilled - from) + Fastest * t = Fastest * (now - from)
        /\ Fastest * (bucket.refilled - from) \in Nat /\ Fastest * t \in Nat
    BY <1>1, <2>1, RefillAddsUp
  <2>3. Cost * count \in Nat
    BY <1>1
  <2> HIDE DEF t
  <2> QED
    BY <1>1, <1>2, <2>1, <2>2, <2>3
<1>4. b.tokens = Capacity \/ Rate * (now - last) <= b.tokens + Rounding * (now - last)
  <2>1. /\ Rate * (bucket.refilled - last) + Rate * t = Rate * (now - last)
        /\ Rate * (bucket.refilled - last) \in Nat /\ Rate * t \in Nat
    BY <1>1, RefillAddsUp
  <2>2. /\ Rounding * (bucket.refilled - last) + Rounding * t = Rounding * (now - last)
        /\ Rounding * (bucket.refilled - last) \in Nat /\ Rounding * t \in Nat
    BY <1>1, RefillAddsUp
  <2>3. \/ bucket.tokens = Capacity
        \/ Rate * (bucket.refilled - last) <= bucket.tokens + Rounding * (bucket.refilled - last)
    BY DEF IInv, Accrued
  <2> HIDE DEF t
  <2>4. CASE bucket.tokens = Capacity
    BY <1>1, <1>2, <2>4
  <2>5. CASE b.tokens = Capacity
    BY <2>5
  <2>6. CASE /\ Rate * (bucket.refilled - last) <= bucket.tokens + Rounding * (bucket.refilled - last)
             /\ bucket.tokens + Rate * t <= b.tokens + Rounding * t
    BY <1>1, <2>1, <2>2, <2>6
  <2> QED
    BY <1>2, <2>3, <2>4, <2>5, <2>6
<1>5. last <= now
  BY <1>1
<1> QED
  BY <1>3, <1>4, <1>5

\* A step that leaves the bucket refilled and admits nothing keeps IInv.
LEMMA RefillKeepsIInv ==
  ASSUME IInv, bucket' \in Refilled, UNCHANGED <<now, from, count, last>>
  PROVE  IInv'
<1>1. bucket' \in Bucket /\ bucket'.refilled = now
  BY RefilledFacts
<1>2. TypeOK'
  BY <1>1 DEF IInv, TypeOK, Watching
<1>3. Covered' /\ Accrued'
  BY <1>1, RefilledBounds DEF Covered, Accrued, Watching, Fastest
<1> QED
  BY <1>2, <1>3 DEF IInv

LEMMA InitIInv == Init => IInv
<1> SUFFICES ASSUME Init PROVE IInv
  OBVIOUS
<1>1. TypeOK
  BY LimiterAssumption DEF Init, TypeOK, Bucket, Watching
<1>2. Covered /\ Accrued
  BY LimiterAssumption DEF Init, Covered, Accrued
<1> QED
  BY <1>1, <1>2 DEF IInv

LEMMA NextIInv == IInv /\ [Next]_vars => IInv'
<1> SUFFICES ASSUME IInv, [Next]_vars PROVE IInv'
  OBVIOUS
<1>1. CASE Admit
  <2>1. PICK b \in Refilled : b.tokens >= Cost /\ bucket' = [b EXCEPT !.tokens = @ - Cost]
    BY <1>1 DEF Admit
  <2>2. /\ b \in Bucket /\ b.refilled = now /\ b.tokens \in Nat /\ b.tokens <= Capacity
        /\ Cost \in Nat /\ Capacity \in Nat /\ now \in Nat /\ count \in Nat /\ from \in Nat
    BY RefilledFacts, LimiterAssumption DEF Bucket, IInv, TypeOK
  <2> DEFINE t == b.tokens - Cost
  <2>3. /\ bucket' = [tokens |-> t, refilled |-> now]
        /\ t \in 0..Capacity /\ t + Cost = b.tokens
        /\ now' = now /\ from' = from /\ last' = now
        /\ count' = IF Watching THEN count + 1 ELSE 0
    <3>1. b = [tokens |-> b.tokens, refilled |-> now]
      BY RefilledFacts
    <3>2. bucket' = [tokens |-> t, refilled |-> now]
      BY <2>1, <3>1
    <3>3. t \in 0..Capacity /\ t + Cost = b.tokens
      BY <2>1, <2>2
    <3> QED
      BY <1>1, <3>2, <3>3 DEF Admit
  <2> HIDE DEF t
  <2>4. TypeOK'
    <3>1. bucket' \in Bucket /\ bucket'.refilled <= now'
      BY <2>2, <2>3 DEF Bucket
    <3>2. count' \in Nat /\ last' \in 0..now'
      BY <2>2, <2>3
    <3> QED
      BY <2>3, <3>1, <3>2 DEF IInv, TypeOK, Watching
  <2>5. Covered'
    <3> SUFFICES ASSUME Watching
                 PROVE  Cost * (count + 1) + t <= Capacity + Fastest * (now - from)
      BY <2>2, <2>3 DEF Covered, Watching, IInv, TypeOK, Fastest
    <3>1. /\ Cost * (count + 1) = Cost * count + Cost /\ Cost * count \in Nat
          /\ Cost * 0 = 0
      BY <2>2
    <3>2. from <= now
      BY DEF IInv, TypeOK
    <3>3. Fastest * (now - from) \in Nat
      <4>1. Fastest \in Nat /\ now - from \in Nat
        BY <2>2, <3>2, LimiterAssumption DEF Fastest
      <4> QED
        BY <4>1
    <3>4. CASE count = 0
      BY <2>2, <2>3, <3>1, <3>3, <3>4
    <3>5. CASE count > 0
      BY <2>2, <2>3, <3>1, <3>3, <3>5, RefilledBounds
    <3> QED
      BY <2>2, <3>4, <3>5
  <2>6. Accrued'
    <3>1. /\ bucket'.refilled = now /\ bucket'.tokens = t /\ t \in Nat
          /\ Rate * (now - now) = 0 /\ Rounding * (now - now) = 0
      BY <2>2, <2>3, LimiterAssumption
    <3> QED
      BY <2>2, <2>3, <3>1 DEF Accrued
  <2> QED
    BY <2>4, <2>5, <2>6 DEF IInv
<1>2. CASE Reject
  <2>1. bucket' \in Refilled /\ UNCHANGED <<now, from, count, last>>
    BY <1>2 DEF Reject
  <2> QED
    BY <2>1, RefillKeepsIInv
<1>3. CASE Available
  BY <1>3, RefillKeepsIInv DEF Available
<1>4. CASE Pass
  BY <1>4, LimiterAssumption DEF Pass, IInv, TypeOK, Bucket, Covered, Accrued, Watching, Fastest
<1>5. CASE OpenWindow
  <2>1. count = 0
    BY <1>5 DEF OpenWindow, IInv, Covered, TypeOK
  <2> QED
    BY <1>5, <2>1, LimiterAssumption
    DEF OpenWindow, IInv, TypeOK, Bucket, Covered, Accrued, Watching
<1>6. CASE UNCHANGED vars
  BY <1>6 DEF vars, IInv, TypeOK, Bucket, Covered, Accrued, Watching, Fastest
<1> QED
  BY <1>1, <1>2, <1>3, <1>4, <1>5, <1>6 DEF Next

\* The inductive invariant of the bucket and its observer holds throughout.
THEOREM Invariance == Spec => []IInv
BY InitIInv, NextIInv, PTL DEF Spec

\* The bucket, the clock and the observer stay in range.
THEOREM TypeCorrect == Spec => []TypeOK
<1>1. IInv => TypeOK
  BY DEF IInv
<1> QED
  BY <1>1, Invariance, PTL

\* ratelimit.rs:13-14: no window of any length admits more than a full bucket
\* and the refill of its length, whatever the capacity and the rate, and however
\* the refills are rounded (BurstPlusRate).
THEOREM WindowBound == Spec => []BurstPlusRate
<1>1. IInv => BurstPlusRate
  <2> SUFFICES ASSUME IInv, Watching
               PROVE  Cost * count <= Capacity + Fastest * (now - from)
    BY DEF BurstPlusRate, Fastest
  <2>1. /\ Cost \in Nat /\ count \in Nat /\ Capacity \in Nat /\ from \in Nat /\ from <= now
        /\ bucket.refilled \in Nat /\ bucket.refilled <= now /\ bucket.tokens \in Nat
        /\ now \in Nat /\ now \in Int /\ from \in Int /\ bucket.refilled \in Int
        /\ Fastest \in Nat
    BY LimiterAssumption DEF IInv, TypeOK, Bucket, Fastest
  <2>2. CASE count = 0
    BY <2>1, <2>2, RefillAddsUp
  <2>3. CASE count > 0
    <3>1. /\ Fastest * (bucket.refilled - from) + Fastest * (now - bucket.refilled)
               = Fastest * (now - from)
          /\ Fastest * (bucket.refilled - from) \in Nat
          /\ Fastest * (now - bucket.refilled) \in Nat
      <4>1. from <= bucket.refilled
        BY <2>3 DEF IInv, Covered
      <4> QED
        BY <4>1, <2>1, RefillAddsUp
    <3>2. Cost * count + bucket.tokens <= Capacity + Fastest * (bucket.refilled - from)
      BY <2>3 DEF IInv, Covered
    <3>3. Cost * count \in Int
      BY <2>1
    <3> QED
      BY <3>1, <3>2, <3>3, <2>1
  <2> QED
    BY <2>1, <2>2, <2>3
<1> QED
  BY <1>1, Invariance, PTL

\* ratelimit.rs:44-45, 58-59: a call is only turned away within the time that one
\* token takes to accrue after the last admission, plus what polling may cost it
\* in rounding (RejectedOnlyForATokensTime).
THEOREM NoStarvation == Spec => RejectedOnlyForATokensTime
<1>1. IInv /\ [Next]_vars =>
        [Reject /\ Capacity >= Cost => Rate * (now - last) < Cost + Rounding * (now - last)]_vars
  <2> SUFFICES ASSUME IInv, Reject, Capacity >= Cost
               PROVE  Rate * (now - last) < Cost + Rounding * (now - last)
    OBVIOUS
  <2>1. PICK b \in Refilled : b.tokens < Cost
    BY DEF Reject
  <2>2. /\ Cost \in Nat /\ Capacity \in Nat /\ b.tokens \in Nat /\ now - last \in Nat
        /\ Rate \in Nat /\ Rounding \in Nat
    BY RefilledFacts, LimiterAssumption DEF IInv, TypeOK, Bucket
  <2>3. Rate * (now - last) \in Nat /\ Rounding * (now - last) \in Nat
    BY <2>2
  <2>4. Rate * (now - last) <= b.tokens + Rounding * (now - last)
    BY <2>1, <2>2, RefilledBounds
  <2> QED
    BY <2>1, <2>2, <2>3, <2>4
<1> QED
  BY <1>1, Invariance, PTL DEF Spec, RejectedOnlyForATokensTime

-----------------------------------------------------------------------------
(***************************************************************************)
(* The bucket as OpsEngine has it: a counter of the whole tokens in it,    *)
(* to which refills add and from which an admission takes one.             *)
(***************************************************************************)
Whole == bucket.tokens \div Cost
Burst == Capacity \div Cost

TakesOne  == \E w \in Whole..Burst : w > 0 /\ Whole' = w - 1
FindsNone == Whole = 0 /\ Whole' = 0
Refills   == Whole' \in Whole..Burst

LEMMA Quotient ==
  ASSUME NEW t \in Nat
  PROVE  /\ t \div Cost \in Nat
         /\ Cost * (t \div Cost) <= t /\ t < Cost * (t \div Cost) + Cost
BY LimiterAssumption

\* There is one number of whole tokens.
LEMMA QuotientIs ==
  ASSUME NEW t \in Nat, NEW q \in Nat, Cost * q <= t, t < Cost * q + Cost
  PROVE  t \div Cost = q
<1> DEFINE p == t \div Cost
<1>1. Cost \in Nat \ {0} /\ p \in Nat /\ Cost * p <= t /\ t < Cost * p + Cost
  BY Quotient, LimiterAssumption
<1> HIDE DEF p
<1>2. ASSUME NEW x \in Nat, NEW y \in Nat, x < y PROVE Cost * x + Cost <= Cost * y
  <2>1. y - x - 1 \in Nat
    BY <1>2
  <2>2. Cost * (y - x - 1) \in Nat
    BY <1>1, <2>1
  <2>3. Cost * y = Cost * x + Cost + Cost * (y - x - 1)
    BY <1>1, <1>2
  <2> QED
    BY <1>1, <1>2, <2>2, <2>3
<1>3. Cost * p \in Nat /\ Cost * q \in Nat
  BY <1>1
<1>4. ~(p < q) /\ ~(q < p)
  BY <1>1, <1>2, <1>3
<1>5. p = q
  BY <1>1, <1>4
<1> QED
  BY <1>5 DEF p

\* A token less in the bucket is one whole token less; what is short of a token
\* is none; and more is not fewer.
LEMMA WholeTokens ==
  ASSUME NEW t \in Nat, NEW u \in Nat
  PROVE  /\ t >= Cost => t \div Cost > 0 /\ (t - Cost) \div Cost = (t \div Cost) - 1
         /\ t < Cost => t \div Cost = 0
         /\ t <= u => t \div Cost <= u \div Cost
<1> DEFINE p == t \div Cost
           q == u \div Cost
<1>1. /\ Cost \in Nat \ {0} /\ p \in Nat /\ q \in Nat
      /\ Cost * p <= t /\ t < Cost * p + Cost /\ Cost * q <= u /\ u < Cost * q + Cost
  BY Quotient, LimiterAssumption
<1>2. ASSUME t < Cost PROVE p = 0
  BY <1>1, <1>2, QuotientIs
<1> HIDE DEF p, q
<1>3. ASSUME t >= Cost PROVE p > 0 /\ (t - Cost) \div Cost = p - 1
  <2>1. p # 0
    BY <1>1, <1>3
  <2>2. t - Cost \in Nat /\ p - 1 \in Nat
    BY <1>1, <1>3, <2>1
  <2>3. Cost * (p - 1) = Cost * p - Cost /\ Cost * p \in Nat
    BY <1>1
  <2>4. Cost * (p - 1) <= t - Cost /\ t - Cost < Cost * (p - 1) + Cost
    BY <1>1, <2>3
  <2> QED
    BY <1>1, <2>1, <2>2, <2>4, QuotientIs
<1>4. ASSUME t <= u PROVE p <= q
  <2> SUFFICES ASSUME q < p PROVE FALSE
    BY <1>1
  <2>1. p - q - 1 \in Nat
    BY <1>1
  <2>2. Cost * (p - q - 1) \in Nat /\ Cost * q \in Nat /\ Cost * p \in Nat
    BY <1>1, <2>1
  <2>3. Cost * p = Cost * q + Cost + Cost * (p - q - 1)
    BY <1>1
  <2> QED
    BY <1>1, <1>4, <2>2, <2>3
<1> QED
  BY <1>2, <1>3, <1>4 DEF p, q

\* ratelimit.rs:39-59 under engine.rs:87-90: in whole tokens the bucket is the
\* counter that OpsEngine has.  It starts full; an admission finds at least one
\* token, refills included, and takes one; a rejection finds none, before and
\* after its refill; a look at it only refills, up to the burst size; and nothing
\* else changes it.  That holds however the refills are rounded.
THEOREM BucketIsACounter ==
  Spec => /\ Whole = Burst
          /\ [][/\ Admit => TakesOne
                /\ Reject => FindsNone
                /\ Available => Refills
                /\ ~(Admit \/ Reject \/ Available) => Whole' = Whole]_vars
<1>1. ASSUME Init PROVE Whole = Burst
  BY <1>1 DEF Init, Whole, Burst
<1>2. ASSUME IInv, [Next]_vars
      PROVE  /\ Admit => TakesOne
             /\ Reject => FindsNone
             /\ Available => Refills
             /\ ~(Admit \/ Reject \/ Available) => Whole' = Whole
  <2>1. /\ bucket.tokens \in Nat /\ Capacity \in Nat /\ Cost \in Nat \ {0}
        /\ Whole \in Nat /\ Burst \in Nat
    BY <1>2, Quotient, LimiterAssumption DEF IInv, TypeOK, Bucket, Whole, Burst
  <2>2. ASSUME NEW b \in Refilled
        PROVE  /\ b.tokens \in Nat /\ b.tokens \div Cost \in Whole..Burst
               /\ b = [tokens |-> b.tokens, refilled |-> now]
    <3>1. /\ b.tokens \in Nat /\ bucket.tokens <= b.tokens /\ b.tokens <= Capacity
          /\ b = [tokens |-> b.tokens, refilled |-> now]
      BY <1>2, RefilledFacts, <2>1 DEF Bucket
    <3>2. b.tokens \div Cost \in Nat
      BY <3>1, Quotient
    <3>3. Whole <= b.tokens \div Cost /\ b.tokens \div Cost <= Burst
      BY <2>1, <3>1, WholeTokens DEF Whole, Burst
    <3> QED
      BY <2>1, <3>1, <3>2, <3>3
  <2>3. Admit => TakesOne
    <3> SUFFICES ASSUME Admit PROVE TakesOne
      OBVIOUS
    <3>1. PICK b \in Refilled : b.tokens >= Cost /\ bucket' = [b EXCEPT !.tokens = @ - Cost]
      BY DEF Admit
    <3>2. bucket'.tokens = b.tokens - Cost
      BY <2>2, <3>1
    <3>3. b.tokens \div Cost > 0 /\ (b.tokens - Cost) \div Cost = (b.tokens \div Cost) - 1
      BY <2>1, <2>2, <3>1, WholeTokens
    <3>4. Whole' = (b.tokens \div Cost) - 1
      BY <3>2, <3>3 DEF Whole
    <3> QED
      BY <2>2, <3>3, <3>4 DEF TakesOne
  <2>4. Reject => FindsNone
    <3> SUFFICES ASSUME Reject PROVE FindsNone
      OBVIOUS
    <3>1. PICK b \in Refilled : b.tokens < Cost /\ bucket' = b
      BY DEF Reject
    <3>2. b.tokens \div Cost = 0
      BY <2>1, <2>2, <3>1, WholeTokens
    <3>3. Whole' = 0
      BY <3>1, <3>2 DEF Whole
    <3> QED
      BY <2>1, <2>2, <3>2, <3>3 DEF FindsNone
  <2>5. Available => Refills
    BY <2>2 DEF Available, Refills, Whole
  <2>6. ~(Admit \/ Reject \/ Available) => Whole' = Whole
    BY <1>2 DEF Next, Pass, OpenWindow, vars, Whole
  <2> QED
    BY <2>3, <2>4, <2>5, <2>6
<1>3. IInv /\ [Next]_vars =>
        [/\ Admit => TakesOne
         /\ Reject => FindsNone
         /\ Available => Refills
         /\ ~(Admit \/ Reject \/ Available) => Whole' = Whole]_vars
  BY <1>2
<1> QED
  BY <1>1, <1>3, Invariance, PTL DEF Spec
=============================================================================
