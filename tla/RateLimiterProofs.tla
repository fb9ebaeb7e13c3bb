-------------------------- MODULE RateLimiterProofs --------------------------
(***************************************************************************)
(* Machine-checked proofs about RateLimiter, for every limit, window,      *)
(* number of requests, delay and stretch of time.                          *)
(***************************************************************************)
EXTENDS RateLimiter, TLAPS

-----------------------------------------------------------------------------
(***************************************************************************)
(* What the script's comparison means for the counter it compares.         *)
(***************************************************************************)

LEMMA MultiplyMonotone ==
    ASSUME NEW a \in Nat, NEW b \in Nat, NEW w \in Nat, a <= b
    PROVE  a * w <= b * w
<1>1. PICK d \in Nat : b = a + d
  <2>1. b - a \in Nat /\ b = a + (b - a)
    OBVIOUS
  <2> QED BY <2>1
<1>2. b * w = a * w + d * w
  BY <1>1
<1>3. d * w \in Nat /\ a * w \in Nat
  OBVIOUS
<1> QED BY <1>2, <1>3

LEMMA ProductPositive ==
    ASSUME NEW a \in Nat, NEW b \in Nat, a > 0, b > 0
    PROVE  a * b > 0
OBVIOUS

\* A request is let through only while its window's counter is below the limit: the
\* share of the previous window only adds to the estimate, and a tie that rounding
\* turns into an admission needs a share of the previous window.
LEMMA AdmitBelowLimit ==
    ASSUME NEW prev \in Nat, NEW current \in Nat, NEW elapsed \in 0 .. Window - 1,
           MayAdmit(prev, current, elapsed)
    PROVE  current < Limit
<1>1. Window \in Nat /\ Window > 0 /\ Limit \in Nat
  BY ConfigAssumption
<1> DEFINE share == prev * (Window - elapsed)
<1>2. Window - elapsed \in Nat /\ Window - elapsed > 0
  BY <1>1
<1>3. share \in Nat /\ (prev > 0 => share > 0)
  <2>1. \A w \in Nat : prev * w \in Nat
    OBVIOUS
  <2>2. prev > 0 => prev * (Window - elapsed) > 0
    BY <1>2, ProductPositive
  <2> QED BY <1>2, <2>1, <2>2
<1>4. current * Window \in Nat /\ Limit * Window \in Nat
  BY <1>1
<1>5. current * Window < Limit * Window
  <2>1. ScaledEstimate(prev, current, elapsed) = share + current * Window
    BY DEF ScaledEstimate
  <2> HIDE DEF share
  <2>2. \/ share + current * Window < Limit * Window
        \/ share + current * Window = Limit * Window /\ share > 0
    BY <1>3, <1>4, <2>1 DEF MayAdmit, MayReject, TieIsRounded
  <2> QED BY <1>3, <1>4, <2>2
<1>6. Limit <= current => Limit * Window <= current * Window
  BY <1>1, MultiplyMonotone
<1> QED BY <1>1, <1>4, <1>5, <1>6

-----------------------------------------------------------------------------
(***************************************************************************)
(* Arithmetic of windows.                                                  *)
(***************************************************************************)

\* A window starts at a second that is not after now, less than a window before it.
LEMMA WindowStartBounds ==
    ASSUME NEW now \in Nat
    PROVE  /\ WindowStart(now) \in 0 .. now
           /\ Elapsed(now) \in 0 .. Window - 1
<1>1. Window \in Nat /\ Window > 0
  BY ConfigAssumption
<1>2. now % Window \in 0 .. Window - 1 /\ now % Window <= now
  BY <1>1
<1> QED BY <1>1, <1>2 DEF WindowStart, Elapsed

\* A quotient and a remainder are those of a division.
LEMMA DivisionUnique ==
    ASSUME NEW p \in Nat, NEW q \in Nat, NEW r \in 0 .. Window - 1, NEW t \in 0 .. Window - 1,
           p * Window + r = q * Window + t
    PROVE  p = q /\ r = t
<1>1. Window \in Nat /\ Window > 0
  BY ConfigAssumption
<1>2. p * Window \in Nat /\ q * Window \in Nat
  BY <1>1
<1>3. ASSUME NEW a \in Nat, NEW b \in Nat, a < b
      PROVE  a * Window + Window <= b * Window
  <2>1. (a + 1) * Window <= b * Window
    BY <1>1, <1>3, MultiplyMonotone
  <2>2. (a + 1) * Window = a * Window + Window
    BY <1>1
  <2> QED BY <2>1, <2>2
<1>4. ~(p < q)
  BY <1>1, <1>2, <1>3
<1>5. ~(q < p)
  BY <1>1, <1>2, <1>3
<1> QED BY <1>1, <1>2, <1>4, <1>5

LEMMA Division ==
    ASSUME NEW n \in Nat
    PROVE  \E q \in Nat : n = q * Window + (n % Window)
<1>1. Window \in Nat /\ Window > 0
  BY ConfigAssumption
<1>2. n \div Window \in Nat /\ n = Window * (n \div Window) + (n % Window)
  BY <1>1
<1> DEFINE q == n \div Window
<1>3. Window * q = q * Window
  <2>1. q \in Nat
    BY <1>2
  <2> HIDE DEF q
  <2> QED BY <1>1, <2>1
<1> QED BY <1>2, <1>3

\* The multiples of a window are those that leave no remainder.
LEMMA Multiple ==
    ASSUME NEW s \in Nat, s % Window = 0
    PROVE  \E p \in Nat : s = p * Window
<1>1. PICK p \in Nat : s = p * Window + (s % Window)
  BY Division
<1>2. p * Window \in Nat
  BY ConfigAssumption
<1> QED BY <1>1, <1>2

LEMMA MultipleLeavesNothing ==
    ASSUME NEW s \in Nat, NEW q \in Nat, s = q * Window
    PROVE  s % Window = 0
<1>1. Window \in Nat /\ Window > 0
  BY ConfigAssumption
<1>2. PICK p \in Nat : s = p * Window + (s % Window)
  BY Division
<1>3. PICK t \in 0 .. Window - 1 : t = s % Window
  BY <1>1
<1>4. q * Window + 0 = p * Window + t /\ 0 \in 0 .. Window - 1
  BY <1>1, <1>2, <1>3
<1>5. t = 0
  BY <1>4, DivisionUnique
<1> QED BY <1>3, <1>5

\* The seconds at which a window starts.
Starts == {s \in Times : s % Window = 0}

\* The seconds from one start to the next have that start.
LEMMA WindowOf ==
    ASSUME NEW s \in Nat, s % Window = 0, NEW n \in Nat, s <= n, n < s + Window
    PROVE  WindowStart(n) = s /\ n % Window = n - s
<1>1. Window \in Nat /\ Window > 0 /\ n % Window \in 0 .. Window - 1
  BY ConfigAssumption
<1>2. PICK p \in Nat : s = p * Window
  BY Multiple
<1>3. PICK q \in Nat : n = q * Window + (n % Window)
  BY Division
<1>4. n - s \in 0 .. Window - 1 /\ n = p * Window + (n - s)
  BY <1>1, <1>2
<1>5. n % Window = n - s
  <2> DEFINE t == n % Window
             r == n - s
  <2>1. t \in 0 .. Window - 1 /\ r \in 0 .. Window - 1 /\ p * Window + r = q * Window + t
    BY <1>1, <1>3, <1>4
  <2> HIDE DEF t, r
  <2>2. r = t
    BY <2>1, DivisionUnique
  <2> QED BY <2>2 DEF t, r
<1> QED BY <1>1, <1>5 DEF WindowStart

LEMMA WindowStartIsStart ==
    ASSUME NEW now \in Times
    PROVE  /\ WindowStart(now) \in Starts
           /\ WindowStart(now) <= now /\ now < WindowStart(now) + Window
<1>1. Window \in Nat /\ Window > 0 /\ MaxTime \in Nat /\ now \in Nat /\ now <= MaxTime
  BY ConfigAssumption, TimeAssumption DEF Times
<1>2. PICK q \in Nat : now = q * Window + (now % Window)
  BY <1>1, Division
<1>3. PICK m \in Nat : m = q * Window
  BY <1>1
<1>4. now % Window \in 0 .. Window - 1 /\ WindowStart(now) = m
  BY <1>1, <1>2, <1>3 DEF WindowStart
<1>6. m % Window = 0
  BY <1>3, MultipleLeavesNothing
<1>7. m <= now /\ now < m + Window
  BY <1>1, <1>2, <1>3, <1>4
<1>8. m \in Times
  BY <1>1, <1>7 DEF Times
<1> QED BY <1>4, <1>6, <1>7, <1>8 DEF Starts

\* Of two windows one ends before the other starts.
LEMMA StartsApart ==
    ASSUME NEW s \in Starts, NEW u \in Starts, s < u
    PROVE  s + Window <= u
<1>1. Window \in Nat /\ s \in Nat /\ u \in Nat /\ s % Window = 0 /\ u % Window = 0
  BY ConfigAssumption DEF Starts, Times
<1>2. u < s + Window => u % Window = u - s
  BY <1>1, WindowOf
<1> QED BY <1>1, <1>2

\* The window before one that is not the first.
LEMMA WindowBefore ==
    ASSUME NEW s \in Starts, s > 0
    PROVE  s - Window \in Starts
<1>1. Window \in Nat /\ Window > 0 /\ MaxTime \in Nat /\ s \in Nat /\ s <= MaxTime /\ s % Window = 0
  BY ConfigAssumption, TimeAssumption DEF Starts, Times
<1>2. s >= Window
  <2>1. 0 % Window = 0
    BY <1>1
  <2>2. 0 \in Starts
    BY <1>1, <2>1 DEF Starts, Times
  <2> QED BY <1>1, <2>2, StartsApart
<1>3. PICK u \in Nat : u = s - Window
  BY <1>1, <1>2
<1>4. PICK p \in Nat : s = p * Window
  BY <1>1, Multiple
<1>5. PICK m \in Nat : m = p - 1
  <2>1. p # 0
    BY <1>1, <1>4
  <2>2. p - 1 \in Nat
    BY <2>1
  <2> QED BY <2>2
<1>6. p * Window = m * Window + Window
  <2>1. p = m + 1
    BY <1>5
  <2> QED BY <1>1, <2>1
<1>7. u = m * Window
  <2>1. PICK k \in Nat : k = m * Window
    BY <1>1
  <2> QED BY <1>1, <1>3, <1>4, <1>6, <2>1
<1>8. u % Window = 0
  BY <1>7, MultipleLeavesNothing
<1> QED BY <1>1, <1>3, <1>8 DEF Starts, Times

-----------------------------------------------------------------------------
(***************************************************************************)
(* Type correctness and the counters' bound. The two are one induction:    *)
(* the guard of Admit bounds what GET returned, and INCR adds one to it.   *)
(***************************************************************************)

CounterInv == TypeOK /\ CounterWithinLimit

LEMMA CounterInit == Init => CounterInv
<1> SUFFICES ASSUME Init PROVE CounterInv
  OBVIOUS
<1>1. 0 \in Times /\ Limit \in Nat
  BY ConfigAssumption, TimeAssumption DEF Times
<1>2. /\ sampled \in [Requests -> Times \cup {Idle}]
      /\ count \in [Times -> Nat] /\ expires \in [Times -> Nat]
      /\ admitted \in [Times -> Nat] /\ prompt \in [Times -> Nat]
  BY DEF Init
<1>3. clock \in Times /\ reply \in [allowed : BOOLEAN, remaining : Nat, now : Times]
  BY <1>1 DEF Init
<1>4. CounterWithinLimit
  BY <1>1 DEF Init, CounterWithinLimit
<1> QED BY <1>2, <1>3, <1>4 DEF CounterInv, TypeOK

LEMMA GetType == ASSUME TypeOK, NEW start \in Int
                 PROVE  Get(start) \in Nat
BY DEF TypeOK, Get

LEMMA CounterStep == CounterInv /\ [Next]_vars => CounterInv'
<1> SUFFICES ASSUME TypeOK, CounterWithinLimit, [Next]_vars
             PROVE  TypeOK' /\ CounterWithinLimit'
  BY DEF CounterInv
<1>a. Window \in Nat /\ Window > 0 /\ Limit \in Nat /\ Limit > 0 /\ MaxTime \in Nat
  BY ConfigAssumption, TimeAssumption
<1>1. CASE Tick
  <2>1. clock' \in Times
    BY <1>1, <1>a DEF Tick, TypeOK, Times
  <2> QED BY <1>1, <2>1 DEF Tick, TypeOK, CounterWithinLimit
<1>2. ASSUME NEW r \in Requests, ReadClock(r)
      PROVE  TypeOK' /\ CounterWithinLimit'
  BY <1>2 DEF ReadClock, TypeOK, CounterWithinLimit
<1>3. ASSUME NEW r \in Requests, Reject(r)
      PROVE  TypeOK' /\ CounterWithinLimit'
  <2>1. sampled[r] \in Times
    BY <1>3 DEF Reject, TypeOK
  <2>2. reply' \in [allowed : BOOLEAN, remaining : Nat, now : Times]
    BY <1>3, <2>1 DEF Reject
  <2> QED BY <1>3, <2>2 DEF Reject, TypeOK, CounterWithinLimit, Times, Idle
<1>4. ASSUME NEW r \in Requests, Admit(r)
      PROVE  TypeOK' /\ CounterWithinLimit'
  <2> DEFINE now == sampled[r]
             start == WindowStart(now)
  <2>1. now \in Times /\ now \in Nat
    BY <1>4 DEF Admit, TypeOK, Times
  <2>2. start \in Times /\ start \in Nat /\ Elapsed(now) \in 0 .. Window - 1
    BY <1>a, <2>1, WindowStartBounds DEF Times
  <2>3. Get(start) \in Nat /\ Prev(now) \in Nat
    BY <1>a, <2>2, GetType DEF Prev
  <2>4. Get(start) < Limit
    <3>1. MayAdmit(Prev(now), Get(start), Elapsed(now))
      BY <1>4 DEF Admit, Current
    <3> QED BY <2>2, <2>3, <3>1, AdmitBelowLimit
  <2>5. Incr(start)
    BY <1>4 DEF Admit
  <2>6. clock \in Nat /\ clock + 2 * Window \in Nat
    BY <1>a DEF TypeOK, Times
  <2> HIDE DEF now, start
  <2>7. /\ count' = [count EXCEPT ![start] = Get(start) + 1]
        /\ expires' \in [Times -> Nat]
    <3>1. CASE Get(start) = 0
      BY <2>2, <2>5, <2>6, <3>1 DEF Incr, TypeOK
    <3>2. CASE Get(start) # 0
      <4>1. Get(start) = count[start]
        BY <3>2 DEF Get
      <4> QED BY <2>5, <3>2, <4>1 DEF Incr, TypeOK
    <3> QED BY <3>1, <3>2
  <2>8. count' \in [Times -> Nat] /\ CounterWithinLimit'
    <3>1. count \in [Times -> Nat] /\ \A t \in Times : count[t] <= Limit
      BY DEF TypeOK, CounterWithinLimit
    <3>2. Get(start) + 1 \in Nat /\ Get(start) + 1 <= Limit
      BY <1>a, <2>3, <2>4
    <3> QED BY <2>7, <3>1, <3>2 DEF CounterWithinLimit
  <2>9. reply' \in [allowed : BOOLEAN, remaining : Nat, now : Times]
    <3>1. PICK left \in Remaining(Prev(now), Current(now), Elapsed(now)) :
              reply' = [allowed |-> TRUE, remaining |-> left, now |-> now]
      BY <1>4 DEF Admit, now
    <3>2. left \in Nat
      <4>1. \A n \in Int : AtLeastZero(n) \in Nat
        BY DEF AtLeastZero
      <4>2. ScaledEstimate(Prev(now), Current(now) + 1, Elapsed(now)) \in Int
        BY <1>a, <2>2, <2>3 DEF ScaledEstimate, Current, start
      <4> QED BY <1>a, <4>1, <4>2 DEF Remaining
    <3> QED BY <2>1, <3>1, <3>2
  <2>10. /\ admitted' \in [Times -> Nat]
         /\ prompt' \in [Times -> Nat]
         /\ sampled' \in [Requests -> Times \cup {Idle}]
         /\ clock' \in Times
    <3>1. admitted' = OneMoreAt(admitted, now) /\ clock' = clock
      BY <1>4 DEF Admit, now
    <3>2. sampled' = [sampled EXCEPT ![r] = Idle]
      BY <1>4 DEF Admit
    <3>3. prompt' = prompt \/ prompt' = OneMoreAt(prompt, now)
      BY <1>4 DEF Admit, now
    <3> QED BY <2>1, <3>1, <3>2, <3>3 DEF TypeOK, OneMoreAt
  <2> QED BY <2>7, <2>8, <2>9, <2>10 DEF TypeOK
<1>5. CASE UNCHANGED vars
  BY <1>5 DEF vars, TypeOK, CounterWithinLimit
<1> QED BY <1>1, <1>2, <1>3, <1>4, <1>5 DEF Next

\* The counters, their expiries, the clock readings and the answers keep their types;
\* in particular X-RateLimit-Remaining is never negative.
THEOREM TypeCorrect == Spec => []TypeOK
<1>1. CounterInv => TypeOK
  BY DEF CounterInv
<1> QED BY CounterInit, CounterStep, <1>1, PTL DEF Spec

\* No counter exceeds the limit: the check and the increment are one Lua script, so
\* neither the order nor the delay of concurrent requests can break the bound.
THEOREM CounterBounded == Spec => []CounterWithinLimit
<1>1. CounterInv => CounterWithinLimit
  BY DEF CounterInv
<1> QED BY CounterInit, CounterStep, <1>1, PTL DEF Spec

-----------------------------------------------------------------------------
(***************************************************************************)
(* The header X-RateLimit-Remaining.                                       *)
(***************************************************************************)

\* Smaller counters make a smaller estimate.
LEMMA EstimateMonotone ==
    ASSUME NEW prev \in Nat, NEW prev2 \in Nat, prev2 <= prev,
           NEW current \in Nat, NEW current2 \in Nat, current2 <= current,
           NEW elapsed \in 0 .. Window - 1,
           ~MayReject(prev, current, elapsed)
    PROVE  ~MayReject(prev2, current2, elapsed)
<1>1. Window \in Nat /\ Limit \in Nat /\ Window - elapsed \in Nat
  BY ConfigAssumption
<1>2. prev2 * (Window - elapsed) <= prev * (Window - elapsed)
  BY <1>1, MultiplyMonotone
<1>3. current2 * Window <= current * Window
  BY <1>1, MultiplyMonotone
<1>4. /\ prev2 * (Window - elapsed) \in Int /\ prev * (Window - elapsed) \in Int
      /\ current2 * Window \in Int /\ current * Window \in Int /\ Limit * Window \in Int
  BY <1>1
<1> QED BY <1>2, <1>3, <1>4 DEF MayReject, ScaledEstimate

\* Whatever the rounding, the number answered is so small that the estimate after as
\* many more requests, less the last of them, is below the limit.
LEMMA RemainingBound ==
    ASSUME NEW prev \in Nat, NEW current \in Nat, NEW elapsed \in 0 .. Window - 1,
           NEW left \in Remaining(prev, current, elapsed), NEW used \in 0 .. left - 1
    PROVE  ~MayReject(prev, current + 1 + used, elapsed)
<1>1. Window \in Nat /\ Window > 0 /\ Limit \in Nat /\ Window - elapsed \in Nat
  BY ConfigAssumption
<1> DEFINE base == ScaledEstimate(prev, current + 1, elapsed)
           rest == Limit * Window - base
<1>2. base \in Int /\ rest \in Int /\ Limit * Window \in Int
  BY <1>1 DEF ScaledEstimate
<1> DEFINE whole == rest \div Window
<1>3. whole \in Int /\ whole * Window <= rest
  <2> HIDE DEF rest
  <2> QED BY <1>1, <1>2
<1>4. \/ left = AtLeastZero(whole)
      \/ left = AtLeastZero(whole - 1)
  BY DEF Remaining
<1>5. left \in Int /\ used \in Nat /\ used + 1 <= whole
  <2> HIDE DEF whole
  <2> QED BY <1>3, <1>4 DEF AtLeastZero
<1>6. (used + 1) * Window <= whole * Window
  <2> HIDE DEF whole
  <2> QED BY <1>1, <1>3, <1>5, MultiplyMonotone
<1>7. used * Window < rest
  <2>1. (used + 1) * Window = used * Window + Window
    BY <1>1, <1>5
  <2>2. used * Window \in Int /\ whole * Window \in Int
    <3> HIDE DEF whole
    <3> QED BY <1>1, <1>3, <1>5
  <2> HIDE DEF whole, rest
  <2> QED BY <1>1, <1>2, <1>3, <1>6, <2>1, <2>2
<1>8. ScaledEstimate(prev, current + 1 + used, elapsed) = base + used * Window
  <2>1. (current + 1 + used) * Window = (current + 1) * Window + used * Window
    BY <1>1, <1>5
  <2>2. /\ prev * (Window - elapsed) \in Int
        /\ (current + 1) * Window \in Int /\ used * Window \in Int
    BY <1>1, <1>5
  <2> QED BY <2>1, <2>2 DEF ScaledEstimate
<1>9. used * Window \in Int
  BY <1>1, <1>5
<1> QED
  <2> HIDE DEF base
  <2> QED BY <1>2, <1>7, <1>8, <1>9 DEF MayReject

LEMMA RemainingInit == Init => RemainingIsHonest
BY DEF Init, RemainingIsHonest

LEMMA RemainingStep ==
    ASSUME CounterInv, CounterInv', RemainingIsHonest, [Next]_vars
    PROVE  RemainingIsHonest'
<1> USE DEF CounterInv
<1>a. Window \in Nat /\ Window > 0
  BY ConfigAssumption
<1>b. ASSUME NEW now \in Times
      PROVE  /\ Elapsed(now) \in 0 .. Window - 1
             /\ Prev(now) \in Nat /\ Current(now) \in Nat
             /\ Prev(now)' \in Nat /\ Current(now)' \in Nat
  <2>1. now \in Nat
    BY TimeAssumption DEF Times
  <2>2. Elapsed(now) \in 0 .. Window - 1 /\ WindowStart(now) \in Int
    BY <2>1, WindowStartBounds
  <2>3. WindowStart(now) - Window \in Int
    BY <1>a, <2>2
  <2>4. \A start \in Int : Get(start) \in Nat /\ Get(start)' \in Nat
    BY DEF Get, TypeOK
  <2> QED BY <2>2, <2>3, <2>4 DEF Prev, Current
<1>c. reply.now \in Times /\ reply.remaining \in Nat
  BY DEF TypeOK
<1>1. CASE Tick \/ (\E r \in Requests : ReadClock(r)) \/ UNCHANGED vars
  <2>1. reply' = reply /\ count' = count /\ expires' = expires /\ clock' >= clock
    <3>1. clock \in Int
      BY TimeAssumption DEF TypeOK, Times
    <3> QED BY <1>1, <3>1 DEF Tick, ReadClock, vars
  <2> SUFFICES ASSUME reply.allowed, NEW used \in 0 .. reply.remaining - 1
               PROVE  ~MayReject(Prev(reply.now)', Current(reply.now)' + used, Elapsed(reply.now))
    BY <2>1 DEF RemainingIsHonest, MayReject, ScaledEstimate
  <2>2. \A start \in Int : Get(start)' <= Get(start)
    <3> SUFFICES ASSUME NEW start \in Int
                 PROVE  Get(start)' <= Get(start)
      OBVIOUS
    <3>1. start \in Times => expires[start] \in Int /\ count[start] \in Nat
      BY DEF TypeOK
    <3>2. clock \in Int /\ clock' \in Int
      BY TimeAssumption DEF TypeOK, Times
    <3> QED BY <2>1, <3>1, <3>2 DEF Get
  <2>3. Prev(reply.now)' <= Prev(reply.now) /\ Current(reply.now)' <= Current(reply.now)
    <3>1. reply.now \in Nat
      BY <1>c, TimeAssumption DEF Times
    <3>2. WindowStart(reply.now) \in Int
      BY <3>1, WindowStartBounds
    <3>3. /\ Get(WindowStart(reply.now))' = Current(reply.now)'
          /\ Get(WindowStart(reply.now) - Window)' = Prev(reply.now)'
      BY <2>1 DEF Current, Prev
    <3>4. WindowStart(reply.now) - Window \in Int
      BY <1>a, <3>2
    <3> QED BY <2>1, <2>2, <3>2, <3>4 DEF Prev, Current
  <2>4. ~MayReject(Prev(reply.now), Current(reply.now) + used, Elapsed(reply.now))
    BY DEF RemainingIsHonest
  <2>5. /\ Prev(reply.now) \in Nat /\ Current(reply.now) \in Nat /\ used \in Nat
        /\ Prev(reply.now)' \in Nat /\ Current(reply.now)' \in Nat
        /\ Elapsed(reply.now) \in 0 .. Window - 1
    <3>1. \A now \in Times : /\ Prev(now) \in Nat /\ Current(now) \in Nat
                             /\ Prev(now)' \in Nat /\ Current(now)' \in Nat
                             /\ Elapsed(now) \in 0 .. Window - 1
      BY <1>b
    <3> QED BY <1>c, <2>1, <3>1
  <2> QED
    <3>1. /\ Current(reply.now) + used \in Nat /\ Current(reply.now)' + used \in Nat
          /\ Current(reply.now)' + used <= Current(reply.now) + used
      BY <2>3, <2>5
    <3> QED BY <2>3, <2>4, <2>5, <3>1, EstimateMonotone
<1>2. ASSUME NEW r \in Requests, Reject(r)
      PROVE  RemainingIsHonest'
  BY <1>2 DEF Reject, RemainingIsHonest
<1>3. ASSUME NEW r \in Requests, Admit(r)
      PROVE  RemainingIsHonest'
  <2>0. PICK now \in Times : now = sampled[r]
    BY <1>3 DEF Admit, TypeOK
  <2>1. now \in Nat
    BY TimeAssumption DEF Times
  <2>2. PICK start \in Times : start = WindowStart(now) /\ start \in Int
    BY <2>1, WindowStartBounds, TimeAssumption DEF Times
  <2>3. PICK left \in Remaining(Prev(now), Current(now), Elapsed(now)) :
            reply' = [allowed |-> TRUE, remaining |-> left, now |-> now]
    BY <1>3, <2>0 DEF Admit
  <2>4. Incr(start) /\ clock' = clock
    BY <1>3, <2>0, <2>2 DEF Admit
  <2>5. Current(now)' = Current(now) + 1
    <3>1. clock \in Int /\ clock < clock + 2 * Window
      BY <1>a, TimeAssumption DEF TypeOK, Times
    <3>2. clock < expires'[start] /\ count'[start] = Get(start) + 1
      <4>1. count \in [Times -> Nat] /\ expires \in [Times -> Nat]
        BY DEF TypeOK
      <4>2. CASE Get(start) = 0
        BY <2>2, <2>4, <3>1, <4>1, <4>2 DEF Incr
      <4>3. CASE Get(start) # 0
        BY <2>2, <2>4, <4>1, <4>3 DEF Incr, Get
      <4> QED BY <4>2, <4>3
    <3>3. Get(start)' = Get(start) + 1
      BY <2>2, <2>4, <3>2 DEF Get
    <3> QED BY <2>2, <3>3 DEF Current, WindowStart
  <2>6. Prev(now)' = Prev(now)
    <3>1. start - Window # start
      BY <1>a, <2>2
    <3>2. start - Window \in Times =>
              /\ count'[start - Window] = count[start - Window]
              /\ expires'[start - Window] = expires[start - Window]
      BY <2>4, <3>1 DEF Incr, TypeOK
    <3>3. Get(start - Window)' = Get(start - Window)
      BY <2>4, <3>2 DEF Get
    <3> QED BY <2>2, <3>3 DEF Prev, WindowStart
  <2>7. Prev(now) \in Nat /\ Current(now) \in Nat /\ Elapsed(now) \in 0 .. Window - 1
    BY <1>b
  <2>8. \A used \in 0 .. left - 1 : ~MayReject(Prev(now), Current(now) + 1 + used, Elapsed(now))
    BY <2>7, RemainingBound
  <2>9. reply'.now = now /\ reply'.remaining = left
    BY <2>3
  <2> QED
    <3>1. /\ Prev(reply.now)' = Prev(now)' /\ Current(reply.now)' = Current(now)'
          /\ Elapsed(reply.now)' = Elapsed(now)
      BY <2>9 DEF Prev, Current, Get, Elapsed, WindowStart
    <3> SUFFICES ASSUME NEW used \in 0 .. left - 1
                 PROVE  ~MayReject(Prev(now)', Current(now)' + used, Elapsed(now))
      BY <2>9, <3>1 DEF RemainingIsHonest, MayReject, ScaledEstimate
    <3> QED BY <2>5, <2>6, <2>8
<1> QED BY <1>1, <1>2, <1>3 DEF Next

\* X-RateLimit-Remaining is honest for every limit and window: the remaining requests
\* that an answer promises cannot be rejected in the same second, even when the
\* double arithmetic of the script rounds a tie.
THEOREM RemainingHonest == Spec => []RemainingIsHonest
<1>1. CounterInv /\ CounterInv' /\ RemainingIsHonest /\ [Next]_vars => RemainingIsHonest'
  BY RemainingStep
<1> QED BY CounterInit, CounterStep, RemainingInit, <1>1, PTL DEF Spec

-----------------------------------------------------------------------------
(***************************************************************************)
(* Counting in the histories.                                              *)
(***************************************************************************)

\* A history counts the requests up to a second: it never falls.
Ordered(history) == \A t, u \in Times : t <= u => history[t] <= history[u]

\* The requests of one fixed window.
InWindow(history, start) == Asked(history, start, start + Window - 1)

LEMMA UpToOrdered ==
    ASSUME NEW history \in [Times -> Nat], Ordered(history),
           NEW first \in Int, NEW last \in Int, first <= last
    PROVE  /\ UpTo(history, first) \in Nat /\ UpTo(history, last) \in Nat
           /\ UpTo(history, first) <= UpTo(history, last)
<1>1. MaxTime \in Nat /\ Times = 0 .. MaxTime
  BY TimeAssumption DEF Times
<1>2. \A n \in Int : UpTo(history, n) \in Nat
  BY <1>1 DEF UpTo
<1>3. UpTo(history, first) <= UpTo(history, last)
  <2>1. CASE first < 0
    BY <1>2, <2>1 DEF UpTo
  <2>2. CASE first >= 0
    <3>1. PICK t \in Times : UpTo(history, first) = history[t] /\ t <= first
                             /\ (t = first \/ t = MaxTime)
      BY <1>1, <2>2 DEF UpTo
    <3>2. PICK u \in Times : UpTo(history, last) = history[u] /\ (u = last \/ u = MaxTime)
      BY <1>1, <2>2 DEF UpTo
    <3>3. t <= u
      BY <1>1, <3>1, <3>2
    <3> QED BY <3>1, <3>2, <3>3 DEF Ordered
  <2> QED BY <2>1, <2>2
<1> QED BY <1>2, <1>3

LEMMA AskedBounds ==
    ASSUME NEW history \in [Times -> Nat], Ordered(history),
           NEW first \in Int, NEW last \in Int, first <= last + 1
    PROVE  Asked(history, first, last) \in Nat
<1>1. first - 1 \in Int /\ first - 1 <= last
  OBVIOUS
<1> QED BY <1>1, UpToOrdered DEF Asked

LEMMA OneMoreUpTo ==
    ASSUME NEW history \in [Times -> Nat], NEW now \in Times, NEW last \in Int
    PROVE  UpTo(OneMoreAt(history, now), last)
               = UpTo(history, last) + (IF now <= last THEN 1 ELSE 0)
<1>1. MaxTime \in Nat /\ Times = 0 .. MaxTime
  BY TimeAssumption DEF Times
<1>2. CASE last < 0
  BY <1>1, <1>2 DEF UpTo
<1>3. CASE last >= 0 /\ last < MaxTime
  BY <1>1, <1>3 DEF UpTo, OneMoreAt
<1>4. CASE last >= MaxTime
  BY <1>1, <1>4 DEF UpTo, OneMoreAt
<1> QED BY <1>1, <1>2, <1>3, <1>4

LEMMA OneMoreOrdered ==
    ASSUME NEW history \in [Times -> Nat], Ordered(history), NEW now \in Times
    PROVE  /\ OneMoreAt(history, now) \in [Times -> Nat]
           /\ Ordered(OneMoreAt(history, now))
<1>1. MaxTime \in Nat /\ Times = 0 .. MaxTime
  BY TimeAssumption DEF Times
<1> QED BY <1>1 DEF OneMoreAt, Ordered

LEMMA OneMoreAsked ==
    ASSUME NEW history \in [Times -> Nat], Ordered(history), NEW now \in Times,
           NEW first \in Int, NEW last \in Int, first <= last + 1
    PROVE  Asked(OneMoreAt(history, now), first, last)
               = Asked(history, first, last) + (IF first <= now /\ now <= last THEN 1 ELSE 0)
<1>1. now \in Int /\ first - 1 \in Int /\ first - 1 <= last
  BY TimeAssumption DEF Times
<1>2. UpTo(history, first - 1) \in Nat /\ UpTo(history, last) \in Nat
  BY <1>1, UpToOrdered
<1>3. /\ UpTo(OneMoreAt(history, now), last)
             = UpTo(history, last) + (IF now <= last THEN 1 ELSE 0)
      /\ UpTo(OneMoreAt(history, now), first - 1)
             = UpTo(history, first - 1) + (IF now <= first - 1 THEN 1 ELSE 0)
  BY <1>1, OneMoreUpTo
<1> QED BY <1>1, <1>2, <1>3 DEF Asked

\* A request counts in its own window and in no other.
LEMMA OneMoreInWindow ==
    ASSUME NEW history \in [Times -> Nat], Ordered(history), NEW now \in Times,
           NEW start \in Starts
    PROVE  InWindow(OneMoreAt(history, now), start)
               = InWindow(history, start) + (IF WindowStart(now) = start THEN 1 ELSE 0)
<1>1. Window \in Nat /\ Window > 0 /\ now \in Nat /\ start \in Nat /\ start % Window = 0
  BY ConfigAssumption, TimeAssumption DEF Times, Starts
<1>2. PICK last \in Int : last = start + Window - 1
  BY <1>1
<1>3. start <= now /\ now <= last <=> WindowStart(now) = start
  <2>1. start <= now /\ now <= last => WindowStart(now) = start
    BY <1>1, <1>2, WindowOf
  <2>2. WindowStart(now) <= now /\ now < WindowStart(now) + Window
    BY WindowStartIsStart
  <2> QED BY <1>1, <1>2, <2>1, <2>2
<1>4. start \in Int /\ start <= last + 1
  BY <1>1, <1>2
<1>5. Asked(OneMoreAt(history, now), start, last)
          = Asked(history, start, last) + (IF start <= now /\ now <= last THEN 1 ELSE 0)
  BY <1>4, OneMoreAsked
<1> QED BY <1>2, <1>3, <1>5 DEF InWindow

-----------------------------------------------------------------------------
(***************************************************************************)
(* What the counters know. A counter expires two windows after its own     *)
(* began or later, and a script never runs before the clock it was given.  *)
(***************************************************************************)

InTheAir == \A r \in Requests : sampled[r] # Idle =>
                sampled[r] <= clock /\ clock <= sampled[r] + MaxDelay

CountersLast == \A start \in Starts : count[start] > 0 => start + 2 * Window <= expires[start]

HistoriesOrdered == Ordered(admitted) /\ Ordered(prompt)

BaseInv == CounterInv /\ InTheAir /\ CountersLast /\ HistoriesOrdered

LEMMA Facts ==
    ASSUME BaseInv
    PROVE  /\ clock \in Nat /\ clock \in Times /\ clock <= MaxTime
           /\ admitted \in [Times -> Nat] /\ Ordered(admitted)
           /\ prompt \in [Times -> Nat] /\ Ordered(prompt)
           /\ \A start \in Times : count[start] \in Nat /\ count[start] <= Limit
           /\ \A start \in Times : expires[start] \in Nat
<1>1. clock \in Nat /\ clock \in Times /\ clock <= MaxTime
  BY TimeAssumption DEF BaseInv, CounterInv, TypeOK, Times
<1>2. /\ admitted \in [Times -> Nat] /\ Ordered(admitted)
      /\ prompt \in [Times -> Nat] /\ Ordered(prompt)
  BY DEF BaseInv, CounterInv, TypeOK, HistoriesOrdered
<1>3. /\ \A start \in Times : count[start] \in Nat /\ count[start] <= Limit
      /\ \A start \in Times : expires[start] \in Nat
  BY DEF BaseInv, CounterInv, TypeOK, CounterWithinLimit
<1> QED BY <1>1, <1>2, <1>3

\* Until two windows after a window began GET reads what INCR wrote.
LEMMA StillCounted ==
    ASSUME BaseInv, NEW start \in Starts, clock < start + 2 * Window
    PROVE  Get(start) = count[start]
<1>1. start \in Times /\ start \in Nat /\ Window \in Nat
  BY ConfigAssumption DEF Starts, Times
<1>2. clock \in Nat /\ count[start] \in Nat /\ expires[start] \in Nat
  BY <1>1, Facts
<1>3. count[start] > 0 => start + 2 * Window <= expires[start]
  BY DEF BaseInv, CountersLast
<1>4. start + 2 * Window \in Nat
  BY <1>1
<1>5. CASE count[start] = 0
  BY <1>1, <1>5 DEF Get
<1>6. CASE count[start] > 0
  BY <1>1, <1>2, <1>3, <1>4, <1>6 DEF Get
<1> QED BY <1>2, <1>5, <1>6

\* The script of a request that is let through.
LEMMA AdmitStep ==
    ASSUME BaseInv, NEW r \in Requests, Admit(r)
    PROVE  \E now \in Times, start \in Starts :
               /\ now = sampled[r] /\ start = WindowStart(now)
               /\ start <= now /\ now < start + Window
               /\ now <= clock /\ clock <= now + MaxDelay
               /\ MayAdmit(Prev(now), Get(start), now - start)
               /\ count' = [count EXCEPT ![start] = Get(start) + 1]
               /\ \/ expires' = [expires EXCEPT ![start] = clock + 2 * Window]
                  \/ Get(start) > 0 /\ expires' = expires
               /\ admitted' = OneMoreAt(admitted, now)
               /\ prompt' = IF WindowStart(clock) = start THEN OneMoreAt(prompt, now)
                            ELSE prompt
               /\ sampled' = [sampled EXCEPT ![r] = Idle]
               /\ clock' = clock
<1>1. PICK now \in Times : now = sampled[r]
  BY DEF Admit, BaseInv, CounterInv, TypeOK
<1>2. PICK start \in Starts : start = WindowStart(now)
  BY WindowStartIsStart
<1>3. start <= now /\ now < start + Window
  BY <1>2, WindowStartIsStart
<1>4. now <= clock /\ clock <= now + MaxDelay
  BY <1>1, TimeAssumption DEF BaseInv, InTheAir, Idle, Times
<1>5. MayAdmit(Prev(now), Get(start), now - start)
  BY <1>1, <1>2 DEF Admit, Current, Elapsed
<1>6. start \in Times /\ start \in Int /\ count \in [Times -> Nat]
  BY DEF Starts, Times, BaseInv, CounterInv, TypeOK
<1>7. Get(start) \in Nat
  BY <1>6, GetType DEF BaseInv, CounterInv
<1>8. Incr(start)
  BY <1>1, <1>2 DEF Admit
<1>9. count' = [count EXCEPT ![start] = Get(start) + 1]
  <2>1. CASE Get(start) = 0
    BY <1>6, <1>8, <2>1 DEF Incr
  <2>2. CASE Get(start) # 0
    <3>1. Get(start) = count[start]
      BY <2>2 DEF Get
    <3> QED BY <1>8, <2>2, <3>1 DEF Incr
  <2> QED BY <2>1, <2>2
<1>10. \/ expires' = [expires EXCEPT ![start] = clock + 2 * Window]
       \/ Get(start) > 0 /\ expires' = expires
  BY <1>7, <1>8 DEF Incr
<1>11. /\ admitted' = OneMoreAt(admitted, now)
       /\ prompt' = IF WindowStart(clock) = start THEN OneMoreAt(prompt, now) ELSE prompt
       /\ sampled' = [sampled EXCEPT ![r] = Idle]
       /\ clock' = clock
  BY <1>1, <1>2 DEF Admit
<1> QED BY <1>1, <1>2, <1>3, <1>4, <1>5, <1>9, <1>10, <1>11

LEMMA BaseInit == Init => BaseInv
<1> SUFFICES ASSUME Init PROVE BaseInv
  OBVIOUS
<1>1. CounterInv
  BY CounterInit
<1>2. InTheAir /\ CountersLast /\ HistoriesOrdered
  BY DEF Init, InTheAir, CountersLast, HistoriesOrdered, Ordered, Starts
<1> QED BY <1>1, <1>2 DEF BaseInv

LEMMA BaseStep == BaseInv /\ [Next]_vars => BaseInv'
<1> SUFFICES ASSUME BaseInv, [Next]_vars
             PROVE  InTheAir' /\ CountersLast' /\ HistoriesOrdered'
  BY CounterStep DEF BaseInv
<1>a. Window \in Nat /\ Window > 0 /\ MaxDelay \in Nat /\ MaxTime \in Nat
  BY ConfigAssumption, TimeAssumption
<1>b. clock \in Nat /\ sampled \in [Requests -> Times \cup {Idle}]
  BY Facts DEF BaseInv, CounterInv, TypeOK
<1>1. CASE Tick
  <2>1. InTheAir'
    BY <1>1, <1>a, <1>b DEF Tick, BaseInv, InTheAir, Times, Idle
  <2>2. CountersLast' /\ HistoriesOrdered'
    BY <1>1 DEF Tick, BaseInv, CountersLast, HistoriesOrdered, Ordered
  <2> QED BY <2>1, <2>2
<1>2. ASSUME NEW r \in Requests, ReadClock(r)
      PROVE  InTheAir' /\ CountersLast' /\ HistoriesOrdered'
  <2>1. InTheAir'
    BY <1>2, <1>a, <1>b DEF ReadClock, BaseInv, InTheAir, Times, Idle
  <2>2. CountersLast' /\ HistoriesOrdered'
    BY <1>2 DEF ReadClock, BaseInv, CountersLast, HistoriesOrdered, Ordered
  <2> QED BY <2>1, <2>2
<1>3. ASSUME NEW r \in Requests, Reject(r)
      PROVE  InTheAir' /\ CountersLast' /\ HistoriesOrdered'
  <2>1. InTheAir'
    BY <1>3, <1>a, <1>b DEF Reject, BaseInv, InTheAir, Times, Idle
  <2>2. CountersLast' /\ HistoriesOrdered'
    BY <1>3 DEF Reject, BaseInv, CountersLast, HistoriesOrdered, Ordered
  <2> QED BY <2>1, <2>2
<1>4. ASSUME NEW r \in Requests, Admit(r)
      PROVE  InTheAir' /\ CountersLast' /\ HistoriesOrdered'
  <2>1. PICK now \in Times, start \in Starts :
               /\ start <= now /\ now <= clock
               /\ count' = [count EXCEPT ![start] = Get(start) + 1]
               /\ \/ expires' = [expires EXCEPT ![start] = clock + 2 * Window]
                  \/ Get(start) > 0 /\ expires' = expires
               /\ admitted' = OneMoreAt(admitted, now)
               /\ prompt' = IF WindowStart(clock) = start THEN OneMoreAt(prompt, now)
                            ELSE prompt
               /\ sampled' = [sampled EXCEPT ![r] = Idle]
               /\ clock' = clock
    BY <1>4, AdmitStep
  <2>2. InTheAir'
    BY <1>b, <2>1 DEF BaseInv, InTheAir
  <2>3. CountersLast'
    <3>1. count \in [Times -> Nat] /\ expires \in [Times -> Nat] /\ start \in Times
      BY DEF BaseInv, CounterInv, TypeOK, Starts
    <3>2. start + 2 * Window <= clock + 2 * Window
      BY <1>a, <1>b, <2>1 DEF Times, Starts
    <3>3. start + 2 * Window <= expires'[start]
      <4>1. CASE expires' = [expires EXCEPT ![start] = clock + 2 * Window]
        BY <3>1, <3>2, <4>1
      <4>2. CASE Get(start) > 0 /\ expires' = expires
        <5>1. count[start] > 0
          BY <4>2 DEF Get
        <5> QED BY <4>2, <5>1 DEF BaseInv, CountersLast
      <4> QED BY <2>1, <4>1, <4>2
    <3>4. ASSUME NEW other \in Starts, other # start
          PROVE  count'[other] = count[other] /\ expires'[other] = expires[other]
      BY <2>1, <3>1, <3>4 DEF Starts
    <3> QED BY <3>3, <3>4 DEF BaseInv, CountersLast
  <2>4. HistoriesOrdered'
    <3>1. Ordered(OneMoreAt(admitted, now)) /\ Ordered(OneMoreAt(prompt, now)) /\ Ordered(prompt)
      BY Facts, OneMoreOrdered
    <3> QED BY <2>1, <3>1 DEF HistoriesOrdered, Ordered
  <2> QED BY <2>2, <2>3, <2>4
<1>5. CASE UNCHANGED vars
  BY <1>5 DEF vars, BaseInv, InTheAir, CountersLast, HistoriesOrdered, Ordered
<1> QED BY <1>1, <1>2, <1>3, <1>4, <1>5 DEF Next

-----------------------------------------------------------------------------
(***************************************************************************)
(* Fixed windows. When no script is later than one window, GET still reads *)
(* the counter of the request's own window, so every admission is counted. *)
(***************************************************************************)

AdmittedCounted == \A start \in Starts : InWindow(admitted, start) <= count[start]

WindowInv == BaseInv /\ AdmittedCounted

LEMMA EmptyHistory ==
    ASSUME NEW history \in [Times -> Nat], \A t \in Times : history[t] = 0,
           NEW first \in Int, NEW last \in Int
    PROVE  Asked(history, first, last) = 0
BY TimeAssumption DEF Asked, UpTo, Times

LEMMA WindowInit == Init => WindowInv
<1> SUFFICES ASSUME Init PROVE WindowInv
  OBVIOUS
<1>1. BaseInv
  BY BaseInit
<1>2. ASSUME NEW start \in Starts PROVE InWindow(admitted, start) <= count[start]
  <2>1. start \in Int /\ start + Window - 1 \in Int /\ start \in Times
    BY ConfigAssumption DEF Starts, Times
  <2>2. InWindow(admitted, start) = 0
    BY <1>1, <2>1, EmptyHistory, Facts DEF InWindow, Init
  <2> QED BY <2>1, <2>2 DEF Init
<1> QED BY <1>1, <1>2 DEF WindowInv, AdmittedCounted

LEMMA WindowStep ==
    ASSUME MaxDelay <= Window, WindowInv, [Next]_vars
    PROVE  WindowInv'
<1>a. Window \in Nat /\ Window > 0 /\ MaxDelay \in Nat
  BY ConfigAssumption, TimeAssumption
<1>b. BaseInv /\ BaseInv'
  BY BaseStep DEF WindowInv
<1> SUFFICES AdmittedCounted'
  BY <1>b DEF WindowInv
<1>1. CASE admitted' = admitted /\ count' = count
  BY <1>1 DEF WindowInv, AdmittedCounted, InWindow, Asked, UpTo
<1>2. ASSUME NEW r \in Requests, Admit(r)
      PROVE  AdmittedCounted'
  <2>1. PICK now \in Times, start \in Starts :
            /\ start = WindowStart(now) /\ now < start + Window
            /\ clock <= now + MaxDelay
            /\ count' = [count EXCEPT ![start] = Get(start) + 1]
            /\ admitted' = OneMoreAt(admitted, now)
    BY <1>2, <1>b, AdmitStep
  <2>2. /\ clock \in Nat /\ start \in Nat /\ now \in Nat /\ start \in Times
        /\ admitted \in [Times -> Nat] /\ Ordered(admitted)
        /\ count \in [Times -> Nat]
    <3>1. clock \in Nat /\ admitted \in [Times -> Nat] /\ Ordered(admitted)
      BY <1>b, Facts
    <3>2. count \in [Times -> Nat]
      BY <1>b DEF BaseInv, CounterInv, TypeOK
    <3>3. start \in Nat /\ now \in Nat /\ start \in Times
      BY DEF Starts, Times
    <3> QED BY <3>1, <3>2, <3>3
  <2>3. Get(start) = count[start]
    <3>1. clock < start + 2 * Window
      BY <1>a, <2>1, <2>2
    <3> QED BY <1>b, <3>1, StillCounted
  <2> SUFFICES ASSUME NEW other \in Starts
               PROVE  InWindow(admitted', other) <= count'[other]
    BY DEF AdmittedCounted, InWindow, Asked, UpTo
  <2>4. InWindow(admitted', other) = InWindow(admitted, other) + (IF start = other THEN 1 ELSE 0)
    BY <2>1, <2>2, OneMoreInWindow
  <2>5. InWindow(admitted, other) <= count[other]
    BY DEF WindowInv, AdmittedCounted
  <2>6. InWindow(admitted, other) \in Nat /\ count[other] \in Nat
    <3>1. other \in Int /\ other + Window - 1 \in Int /\ other <= (other + Window - 1) + 1
      BY <1>a DEF Starts, Times
    <3> QED BY <2>2, <3>1, AskedBounds DEF InWindow, Starts
  <2> QED
    <3>1. CASE other = start
      BY <2>1, <2>2, <2>3, <2>4, <2>5, <2>6, <3>1
    <3>2. CASE other # start
      BY <2>1, <2>2, <2>4, <2>5, <2>6, <3>2 DEF Starts
    <3> QED BY <3>1, <3>2
<1> QED BY <1>1, <1>2 DEF Next, Tick, ReadClock, Reject, vars

LEMMA WindowSafe == WindowInv => WindowWithinLimit
<1> SUFFICES ASSUME WindowInv, NEW t \in Times
             PROVE  InWindow(admitted, WindowStart(t)) <= Limit
  BY DEF WindowWithinLimit, InWindow
<1>1. WindowStart(t) \in Starts /\ BaseInv
  BY WindowStartIsStart DEF WindowInv
<1>2. PICK start \in Starts : start = WindowStart(t)
  BY <1>1
<1>3. InWindow(admitted, start) <= count[start]
  BY DEF WindowInv, AdmittedCounted
<1>4. count[start] <= Limit /\ count[start] \in Nat /\ start \in Int
  BY <1>1, Facts DEF Starts, Times
<1>5. InWindow(admitted, start) \in Int
  <2>1. start + Window - 1 \in Int /\ start <= (start + Window - 1) + 1
    BY <1>4, ConfigAssumption
  <2> QED BY <1>1, <1>4, <2>1, AskedBounds, Facts DEF InWindow
<1> QED BY <1>2, <1>3, <1>4, <1>5, ConfigAssumption

\* No fixed window lets more than limit requests through while no script runs more than
\* one window after its request read the clock. The hypothesis is what EXPIRE with twice
\* the window pays for: a script later than that may find its own counter forgotten.
THEOREM FixedWindowLimited == MaxDelay <= Window => (Spec => []WindowWithinLimit)
<1> SUFFICES ASSUME MaxDelay <= Window
             PROVE  Spec => []WindowWithinLimit
  OBVIOUS
<1>1. WindowInv /\ [Next]_vars => WindowInv'
  BY WindowStep
<1> QED BY WindowInit, WindowSafe, <1>1, PTL DEF Spec

-----------------------------------------------------------------------------
(***************************************************************************)
(* Sliding windows. A request let through in its own window found both     *)
(* counters alive, and no later prompt request can join an earlier window. *)
(***************************************************************************)

\* A span from a start: the window before it and the seconds up to last.
Span(start, last) ==
    Asked(prompt, start - Window, start - 1) + Asked(prompt, start, last)

NothingAhead == \A t \in Times : clock <= t => prompt[t] = prompt[clock]

PromptCounted == \A start \in Starts :
    clock < start + 2 * Window => InWindow(prompt, start) <= count[start]

PromptWithinLimit == \A start \in Starts : InWindow(prompt, start) <= Limit

SpansEarned == \A start \in Starts, last \in Times :
    start <= last /\ last < start + Window =>
        \/ Asked(prompt, start, last) = 0
        \/ Span(start, last) * Window <= (Limit + 1) * Window + Limit * (last - start)

SpikeInv == BaseInv /\ NothingAhead /\ PromptCounted /\ PromptWithinLimit /\ SpansEarned

\* The estimate the script compared bounds what a span held, plus the request itself.
LEMMA SpikeArithmetic ==
    ASSUME NEW prev \in Nat, NEW current \in Nat, NEW elapsed \in 0 .. Window - 1,
           MayAdmit(prev, current, elapsed), prev <= Limit,
           NEW before \in Nat, before <= prev, NEW since \in Nat, since <= current,
           NEW later \in Nat, elapsed <= later
    PROVE  (before + since + 1) * Window <= (Limit + 1) * Window + Limit * later
<1>1. Window \in Nat /\ Window > 0 /\ Limit \in Nat /\ elapsed \in Nat
  BY ConfigAssumption
<1>2. prev * (Window - elapsed) + current * Window <= Limit * Window
  BY <1>1 DEF MayAdmit, MayReject, TieIsRounded, ScaledEstimate
<1>3. PICK a \in Nat : a = prev * elapsed
  BY <1>1
<1>4. PICK b \in Nat : b = Limit * later
  BY <1>1
<1>5. a <= b
  <2>1. prev * elapsed <= Limit * elapsed
    BY <1>1, MultiplyMonotone
  <2>2. elapsed * Limit <= later * Limit
    BY <1>1, MultiplyMonotone
  <2>3. elapsed * Limit = Limit * elapsed /\ later * Limit = Limit * later
    BY <1>1
  <2>4. Limit * elapsed \in Nat
    BY <1>1
  <2> QED BY <1>3, <1>4, <2>1, <2>2, <2>3, <2>4
<1>6. prev * (Window - elapsed) = prev * Window - a
  BY <1>1, <1>3
<1>7. PICK c \in Nat : c = prev * Window
  BY <1>1
<1>8. PICK d \in Nat : d = current * Window
  BY <1>1
<1>9. PICK e \in Nat : e = Limit * Window
  BY <1>1
<1>10. (before + since + 1) * Window <= (prev + current + 1) * Window
  BY <1>1, MultiplyMonotone
<1>11. (prev + current + 1) * Window = c + d + Window /\ (Limit + 1) * Window = e + Window
  BY <1>1, <1>7, <1>8, <1>9
<1>12. (c - a) + d <= e
  BY <1>2, <1>6, <1>7, <1>8, <1>9
<1>13. PICK f \in Nat : f = (before + since + 1) * Window
  BY <1>1
<1> QED BY <1>1, <1>4, <1>5, <1>10, <1>11, <1>12, <1>13

LEMMA SpikeInit == Init => SpikeInv
<1> SUFFICES ASSUME Init PROVE SpikeInv
  OBVIOUS
<1>1. BaseInv
  BY BaseInit
<1>2. NothingAhead
  BY <1>1, Facts DEF Init, NothingAhead
<1>3. \A first, last \in Int : Asked(prompt, first, last) = 0
  BY <1>1, EmptyHistory, Facts DEF Init
<1>4. ASSUME NEW start \in Starts
      PROVE  InWindow(prompt, start) = 0 /\ count[start] = 0
  <2>1. start \in Int /\ start + Window - 1 \in Int /\ start \in Times
    BY ConfigAssumption DEF Starts, Times
  <2> QED BY <1>3, <2>1 DEF InWindow, Init
<1>5. PromptCounted /\ PromptWithinLimit
  BY <1>4, ConfigAssumption DEF PromptCounted, PromptWithinLimit
<1>6. SpansEarned
  BY <1>3 DEF SpansEarned, Starts, Times
<1> QED BY <1>1, <1>2, <1>5, <1>6 DEF SpikeInv

\* The numbers a span is made of.
LEMMA SpanTypes ==
    ASSUME BaseInv, NEW start \in Starts, NEW last \in Times, start <= last
    PROVE  /\ Asked(prompt, start - Window, start - 1) \in Nat
           /\ Asked(prompt, start, last) \in Nat
           /\ InWindow(prompt, start) \in Nat
           /\ last < start + Window => Asked(prompt, start, last) <= InWindow(prompt, start)
<1>1. /\ Window \in Nat /\ Window > 0 /\ start \in Int /\ last \in Int
      /\ start - Window \in Int /\ start - 1 \in Int /\ start + Window - 1 \in Int
  BY ConfigAssumption DEF Starts, Times
<1>2. prompt \in [Times -> Nat] /\ Ordered(prompt)
  BY Facts
<1>3. Asked(prompt, start - Window, start - 1) \in Nat
  BY <1>1, <1>2, AskedBounds
<1>4. Asked(prompt, start, last) \in Nat
  BY <1>1, <1>2, AskedBounds
<1>5. InWindow(prompt, start) \in Nat
  BY <1>1, <1>2, AskedBounds DEF InWindow
<1>6. ASSUME last < start + Window
      PROVE  Asked(prompt, start, last) <= InWindow(prompt, start)
  <2>1. PICK end \in Int : end = start + Window - 1
    BY <1>1
  <2>2. /\ UpTo(prompt, last) \in Nat /\ UpTo(prompt, end) \in Nat
        /\ UpTo(prompt, last) <= UpTo(prompt, end)
    BY <1>1, <1>2, <1>6, <2>1, UpToOrdered
  <2>3. UpTo(prompt, start - 1) \in Nat
    BY <1>1, <1>2, UpToOrdered
  <2> QED BY <2>1, <2>2, <2>3 DEF InWindow, Asked
<1> QED BY <1>3, <1>4, <1>5, <1>6

\* The window before the first holds nothing, and any other is a window of its own.
LEMMA WindowBehind ==
    ASSUME BaseInv, NEW start \in Starts
    PROVE  \/ /\ start = 0
              /\ Asked(prompt, start - Window, start - 1) = 0
           \/ /\ start - Window \in Starts
              /\ Asked(prompt, start - Window, start - 1) = InWindow(prompt, start - Window)
<1>1. Window \in Nat /\ Window > 0 /\ start \in Nat
  BY ConfigAssumption DEF Starts, Times
<1>2. CASE start = 0
  BY <1>1, <1>2 DEF Asked, UpTo
<1>3. CASE start > 0
  <2>1. start - Window \in Starts
    BY <1>3, WindowBefore
  <2>2. (start - Window) + Window - 1 = start - 1
    BY <1>1
  <2> QED BY <2>1, <2>2 DEF InWindow
<1> QED BY <1>1, <1>2, <1>3

\* A script that lets a request through in the window the request asked in.
LEMMA PromptAdmission ==
    ASSUME SpikeInv, BaseInv', NEW now \in Times, NEW start \in Starts,
           start = WindowStart(now), WindowStart(clock) = start,
           start <= now, now < start + Window, now <= clock,
           MayAdmit(Prev(now), Get(start), now - start),
           count' = [count EXCEPT ![start] = Get(start) + 1],
           prompt' = OneMoreAt(prompt, now), clock' = clock
    PROVE  NothingAhead' /\ PromptCounted' /\ PromptWithinLimit' /\ SpansEarned'
<1>a. Window \in Nat /\ Window > 0 /\ Limit \in Nat /\ MaxTime \in Nat
  BY ConfigAssumption, TimeAssumption
<1>b. /\ BaseInv /\ clock \in Nat /\ clock \in Times
      /\ prompt \in [Times -> Nat] /\ Ordered(prompt)
      /\ \A t \in Times : count[t] \in Nat /\ count[t] <= Limit
  BY Facts DEF SpikeInv
<1>c. count \in [Times -> Nat]
  BY <1>b DEF BaseInv, CounterInv, TypeOK
<1>d. start \in Nat /\ now \in Nat /\ start \in Times /\ Starts \subseteq Times
  BY DEF Starts, Times
<1>1. start <= clock /\ clock < start + Window
  BY <1>b, WindowStartIsStart
<1>2. Get(start) = count[start]
  BY <1>a, <1>b, <1>d, <1>1, StillCounted
<1>3. count[start] < Limit
  <2>1. Prev(now) \in Nat
    <3>1. start - Window \in Int /\ TypeOK
      BY <1>a, <1>b, <1>d DEF BaseInv, CounterInv
    <3> QED BY <3>1, GetType DEF Prev
  <2>2. count[start] \in Nat /\ now - start \in 0 .. Window - 1
    BY <1>a, <1>b, <1>d
  <2> QED BY <1>2, <2>1, <2>2, AdmitBelowLimit
<1>4. ASSUME NEW other \in Starts
      PROVE  /\ InWindow(prompt', other)
                    = InWindow(prompt, other) + (IF other = start THEN 1 ELSE 0)
             /\ InWindow(prompt, other) \in Nat
  <2>1. other \in Times /\ other <= other
    BY <1>d DEF Times
  <2> QED BY <1>b, <2>1, OneMoreInWindow, SpanTypes
<1>5. NothingAhead'
  <2>1. SUFFICES ASSUME NEW t \in Times, clock <= t
                 PROVE  prompt'[t] = prompt'[clock]
    BY DEF NothingAhead
  <2>2. now <= t
    BY <1>b, <1>d, <2>1 DEF Times
  <2> QED BY <1>b, <2>1, <2>2 DEF OneMoreAt, SpikeInv, NothingAhead
<1>6. PromptCounted'
  <2>1. SUFFICES ASSUME NEW other \in Starts, clock < other + 2 * Window
                 PROVE  InWindow(prompt', other) <= count'[other]
    BY DEF PromptCounted, InWindow, Asked, UpTo
  <2>2. InWindow(prompt, other) <= count[other]
    BY <2>1 DEF SpikeInv, PromptCounted
  <2>3. CASE other = start
    BY <1>2, <1>4, <1>b, <1>c, <1>d, <2>2, <2>3
  <2>4. CASE other # start
    BY <1>4, <1>c, <1>d, <2>2, <2>4
  <2> QED BY <2>3, <2>4
<1>7. PromptWithinLimit'
  <2>1. SUFFICES ASSUME NEW other \in Starts
                 PROVE  InWindow(prompt', other) <= Limit
    BY DEF PromptWithinLimit, InWindow, Asked, UpTo
  <2>2. CASE other = start
    <3>1. InWindow(prompt, start) <= count[start]
      BY <1>a, <1>b, <1>d, <1>1 DEF SpikeInv, PromptCounted
    <3> QED BY <1>3, <1>4, <1>a, <1>b, <1>d, <2>2, <3>1
  <2>3. CASE other # start
    BY <1>4, <2>3 DEF SpikeInv, PromptWithinLimit
  <2> QED BY <2>2, <2>3
<1>8. SpansEarned'
  <2> DEFINE before(other) == Asked(prompt, other - Window, other - 1)
             since(other, last) == Asked(prompt, other, last)
  <2>1. SUFFICES ASSUME NEW other \in Starts, NEW last \in Times,
                        other <= last, last < other + Window
                 PROVE  \/ Asked(prompt', other, last) = 0
                        \/ (Asked(prompt', other - Window, other - 1)
                               + Asked(prompt', other, last)) * Window
                               <= (Limit + 1) * Window + Limit * (last - other)
    BY DEF SpansEarned, Span, Asked, UpTo
  <2>2. /\ other \in Int /\ last \in Int /\ other - Window \in Int /\ other - 1 \in Int
        /\ other - Window <= (other - 1) + 1 /\ other <= last + 1
    BY <1>a, <2>1 DEF Starts, Times
  <2>3. /\ before(other) \in Nat /\ since(other, last) \in Nat
        /\ since(other, last) <= InWindow(prompt, other)
    BY <1>b, <2>1, SpanTypes
  <2>4. /\ Asked(prompt', other - Window, other - 1) = before(other)
               + (IF other - Window <= now /\ now <= other - 1 THEN 1 ELSE 0)
        /\ Asked(prompt', other, last) = since(other, last)
               + (IF other <= now /\ now <= last THEN 1 ELSE 0)
    BY <1>b, <2>2, OneMoreAsked
  <2>5. \/ since(other, last) = 0
        \/ (before(other) + since(other, last)) * Window
               <= (Limit + 1) * Window + Limit * (last - other)
    BY <2>1 DEF SpikeInv, SpansEarned, Span
  <2>6. CASE other <= now /\ now <= last
    <3>1. other = start
      <4>1. other \in Nat /\ other % Window = 0 /\ now < other + Window
        BY <1>a, <1>d, <2>1, <2>2, <2>6 DEF Starts, Times
      <4>2. WindowStart(now) = other
        BY <1>d, <2>6, <4>1, WindowOf
      <4> QED BY <4>2
    <3>2. since(start, last) <= count[start]
      <4>1. InWindow(prompt, start) <= count[start]
        BY <1>a, <1>b, <1>d, <1>1 DEF SpikeInv, PromptCounted
      <4> QED BY <1>4, <1>b, <1>d, <2>3, <3>1, <4>1
    <3>3. /\ before(start) <= Prev(now) /\ Prev(now) \in Nat /\ Prev(now) <= Limit
      <4>1. Prev(now) = Get(start - Window)
        BY DEF Prev
      <4>2. CASE start = 0 /\ before(start) = 0
        <5>1. Get(start - Window) = 0
          BY <1>a, <4>2 DEF Get, Times
        <5> QED BY <1>a, <4>1, <4>2, <5>1
      <4>3. CASE start - Window \in Starts /\ before(start) = InWindow(prompt, start - Window)
        <5>1. PICK behind \in Starts : behind = start - Window
          BY <4>3
        <5>2. behind \in Int /\ clock < behind + 2 * Window
          BY <1>a, <1>b, <1>d, <1>1, <5>1
        <5>3. Get(behind) = count[behind] /\ InWindow(prompt, behind) <= count[behind]
          BY <1>b, <5>2, StillCounted DEF SpikeInv, PromptCounted
        <5>4. count[behind] \in Nat /\ count[behind] <= Limit
          BY <1>b, <1>d
        <5> QED BY <4>1, <4>3, <5>1, <5>3, <5>4
      <4> QED BY <1>b, <4>2, <4>3, WindowBehind
    <3>4. PICK elapsed \in 0 .. Window - 1 : elapsed = now - start
      BY <1>a, <1>d
    <3>5. PICK later \in Nat : later = last - start
      BY <1>d, <2>1, <2>2, <3>1
    <3>6. elapsed <= later
      BY <1>d, <2>2, <2>6, <3>4, <3>5
    <3>7. PICK b \in Nat : b = before(other)
      BY <2>3
    <3>8. PICK s \in Nat : s = since(other, last)
      BY <2>3
    <3>9. PICK c \in Nat : c = count[start]
      BY <1>b, <1>d
    <3>10. (b + s + 1) * Window <= (Limit + 1) * Window + Limit * later
      BY <1>2, <3>1, <3>2, <3>3, <3>4, <3>6, <3>7, <3>8, <3>9, SpikeArithmetic
    <3>11. Asked(prompt', other, last) = s + 1
      BY <2>4, <2>6, <3>8
    <3>12. Asked(prompt', other - Window, other - 1) = b
      <4>1. ~(now <= other - 1)
        BY <1>d, <2>2, <2>6
      <4> QED BY <2>3, <2>4, <3>7, <4>1
    <3>13. Asked(prompt', other - Window, other - 1) + Asked(prompt', other, last) = b + s + 1
      BY <3>11, <3>12
    <3> QED BY <3>1, <3>5, <3>10, <3>13
  <2>7. CASE ~(other <= now /\ now <= last) /\ other - Window <= now /\ now <= other - 1
    \* The request belongs to the window before: nothing asked in this one yet.
    <3>1. since(other, last) = 0
      <4>1. PICK behind \in Starts : behind = other - Window
        <5>1. other > 0
          BY <1>d, <2>2, <2>7
        <5> QED BY <5>1, WindowBefore
      <4>2. behind = start
        <5>1. WindowStart(now) = behind
          BY <1>a, <1>d, <2>2, <2>7, <4>1, WindowOf DEF Starts, Times
        <5> QED BY <5>1
      <4>3. clock <= other - 1 /\ other - 1 \in Times
        <5>1. clock <= other - 1
          BY <1>a, <1>b, <1>d, <1>1, <2>2, <4>1, <4>2
        <5> QED BY <1>a, <1>b, <2>1, <2>2, <5>1 DEF Times
      <4>4. prompt[other - 1] = prompt[clock] /\ prompt[last] = prompt[clock]
        BY <1>b, <2>1, <2>2, <4>3 DEF SpikeInv, NothingAhead
      <4>5. UpTo(prompt, other - 1) = prompt[other - 1] /\ UpTo(prompt, last) = prompt[last]
        BY <1>a, <2>2, <4>3 DEF UpTo, Times
      <4>6. prompt[clock] \in Nat
        BY <1>b
      <4> QED BY <4>4, <4>5, <4>6 DEF Asked
    <3> QED BY <2>4, <2>7, <3>1
  <2>8. CASE ~(other <= now /\ now <= last) /\ ~(other - Window <= now /\ now <= other - 1)
    <3>1. /\ Asked(prompt', other - Window, other - 1) = before(other)
          /\ Asked(prompt', other, last) = since(other, last)
      BY <2>3, <2>4, <2>8
    <3> QED BY <2>5, <3>1
  <2> QED BY <2>6, <2>7, <2>8
<1> QED BY <1>5, <1>6, <1>7, <1>8

LEMMA SpikeStep == SpikeInv /\ [Next]_vars => SpikeInv'
<1> SUFFICES ASSUME SpikeInv, [Next]_vars PROVE SpikeInv'
  OBVIOUS
<1>a. BaseInv /\ BaseInv'
  BY BaseStep DEF SpikeInv
<1>b. Window \in Nat /\ Window > 0
  BY ConfigAssumption
<1>c. clock \in Nat /\ clock \in Times /\ count \in [Times -> Nat]
  BY <1>a, Facts DEF BaseInv, CounterInv, TypeOK
<1> SUFFICES NothingAhead' /\ PromptCounted' /\ PromptWithinLimit' /\ SpansEarned'
  BY <1>a DEF SpikeInv
<1>1. ASSUME prompt' = prompt
      PROVE  PromptWithinLimit' /\ SpansEarned'
  BY <1>1 DEF SpikeInv, PromptWithinLimit, SpansEarned, InWindow, Span, Asked, UpTo
<1>2. CASE Tick
  <2>1. prompt' = prompt /\ count' = count /\ clock' = clock + 1 /\ clock < MaxTime
    BY <1>2 DEF Tick
  <2>2. NothingAhead'
    <3>1. clock + 1 \in Times /\ clock <= clock + 1
      BY <1>c, <2>1, TimeAssumption DEF Times
    <3>2. prompt[clock + 1] = prompt[clock]
      BY <3>1 DEF SpikeInv, NothingAhead
    <3> SUFFICES ASSUME NEW t \in Times, clock + 1 <= t
                 PROVE  prompt[t] = prompt[clock + 1]
      BY <2>1 DEF NothingAhead
    <3>3. clock <= t
      BY <1>c DEF Times
    <3> QED BY <3>2, <3>3 DEF SpikeInv, NothingAhead
  <2>3. PromptCounted'
    <3> SUFFICES ASSUME NEW start \in Starts, clock + 1 < start + 2 * Window
                 PROVE  InWindow(prompt, start) <= count[start]
      BY <2>1 DEF PromptCounted, InWindow, Asked, UpTo
    <3>1. clock < start + 2 * Window
      BY <1>b, <1>c DEF Starts, Times
    <3> QED BY <3>1 DEF SpikeInv, PromptCounted
  <2> QED BY <1>1, <2>1, <2>2, <2>3
<1>3. CASE prompt' = prompt /\ count' = count /\ clock' = clock
  <2>1. NothingAhead' /\ PromptCounted'
    BY <1>3 DEF SpikeInv, NothingAhead, PromptCounted, InWindow, Asked, UpTo
  <2> QED BY <1>1, <1>3, <2>1
<1>4. ASSUME NEW r \in Requests, Admit(r)
      PROVE  NothingAhead' /\ PromptCounted' /\ PromptWithinLimit' /\ SpansEarned'
  <2>1. PICK now \in Times, start \in Starts :
            /\ start = WindowStart(now)
            /\ start <= now /\ now < start + Window
            /\ now <= clock
            /\ MayAdmit(Prev(now), Get(start), now - start)
            /\ count' = [count EXCEPT ![start] = Get(start) + 1]
            /\ prompt' = IF WindowStart(clock) = start THEN OneMoreAt(prompt, now)
                         ELSE prompt
            /\ clock' = clock
    BY <1>4, <1>a, AdmitStep
  <2>2. CASE WindowStart(clock) = start
    <3>1. prompt' = OneMoreAt(prompt, now)
      BY <2>1, <2>2
    <3> QED BY <1>a, <2>1, <2>2, <3>1, PromptAdmission
  <2>3. CASE WindowStart(clock) # start
    <3>1. prompt' = prompt
      BY <2>1, <2>3
    <3>2. NothingAhead'
      BY <2>1, <3>1 DEF SpikeInv, NothingAhead
    <3>3. PromptCounted'
      <4> SUFFICES ASSUME NEW other \in Starts, clock < other + 2 * Window
                   PROVE  InWindow(prompt, other) <= count'[other]
        BY <2>1, <3>1 DEF PromptCounted, InWindow, Asked, UpTo
      <4>1. InWindow(prompt, other) <= count[other]
        BY DEF SpikeInv, PromptCounted
      <4>2. other \in Times /\ count[other] \in Nat /\ other <= other
        BY <1>c DEF Starts, Times
      <4>3. InWindow(prompt, other) \in Nat
        BY <1>a, <4>2, SpanTypes
      <4>4. CASE other = start
        <5>1. Get(start) = count[start]
          BY <1>a, <4>4, StillCounted
        <5> QED BY <1>c, <2>1, <4>1, <4>2, <4>3, <4>4, <5>1
      <4>5. CASE other # start
        BY <1>c, <2>1, <4>1, <4>2, <4>5
      <4> QED BY <4>4, <4>5
    <3> QED BY <1>1, <3>1, <3>2, <3>3
  <2> QED BY <2>2, <2>3
<1> QED BY <1>2, <1>3, <1>4 DEF Next, ReadClock, Reject, vars

LEMMA SpikeSafe == SpikeInv => NoBoundarySpike
<1> SUFFICES ASSUME SpikeInv, NEW last \in Times
             PROVE  Window * Asked(prompt, last - Window + 1, last)
                        <= Window * (Limit + 1) + Limit * (last % Window)
  BY DEF NoBoundarySpike
<1>a. Window \in Nat /\ Window > 0 /\ Limit \in Nat /\ last \in Nat
  BY ConfigAssumption, TimeAssumption DEF Times
<1>b. BaseInv /\ prompt \in [Times -> Nat] /\ Ordered(prompt)
  BY Facts DEF SpikeInv
<1>1. PICK start \in Starts : start = WindowStart(last)
  BY WindowStartIsStart
<1>2. start <= last /\ last < start + Window /\ start \in Nat
  BY <1>1, WindowStartIsStart DEF Starts, Times
<1>3. PICK later \in Nat : later = last - start
  BY <1>a, <1>2
<1>4. last % Window = later
  BY <1>a, <1>1, <1>2, <1>3 DEF WindowStart
<1>5. PICK b \in Nat : b = Asked(prompt, start - Window, start - 1)
  BY <1>b, <1>2, SpanTypes
<1>6. PICK s \in Nat : s = Asked(prompt, start, last)
  BY <1>b, <1>2, SpanTypes
<1>7. PICK n \in Nat : n = Asked(prompt, last - Window + 1, last)
  <2>1. last - Window + 1 \in Int /\ last \in Int /\ last - Window + 1 <= last + 1
    BY <1>a
  <2> QED BY <1>b, <2>1, AskedBounds
<1>8. n <= b + s
  <2>1. PICK first \in Int : first = start - Window - 1
    BY <1>a, <1>2
  <2>2. PICK second \in Int : second = last - Window
    BY <1>a
  <2>3. first <= second
    BY <1>a, <1>2, <2>1, <2>2
  <2>4. /\ UpTo(prompt, first) \in Nat /\ UpTo(prompt, second) \in Nat
        /\ UpTo(prompt, first) <= UpTo(prompt, second)
    BY <1>b, <2>3, UpToOrdered
  <2>5. start - 1 \in Int /\ start - 1 <= last
    BY <1>a, <1>2
  <2>6. UpTo(prompt, start - 1) \in Nat /\ UpTo(prompt, last) \in Nat
    BY <1>a, <1>b, <2>5, UpToOrdered
  <2>7. b = UpTo(prompt, start - 1) - UpTo(prompt, first)
    BY <1>5, <2>1 DEF Asked
  <2>8. s = UpTo(prompt, last) - UpTo(prompt, start - 1)
    BY <1>6 DEF Asked
  <2>9. n = UpTo(prompt, last) - UpTo(prompt, second)
    <3>1. PICK k \in Int : k = last - Window + 1
      BY <1>a
    <3>2. k - 1 = second
      BY <1>a, <2>2, <3>1
    <3>3. n = UpTo(prompt, last) - UpTo(prompt, k - 1)
      BY <1>7, <3>1 DEF Asked
    <3> QED BY <3>2, <3>3
  <2> QED BY <2>4, <2>6, <2>7, <2>8, <2>9
<1>9. n * Window <= (Limit + 1) * Window + Limit * later
  <2>1. Limit * later \in Nat /\ (Limit + 1) * Window \in Nat /\ n * Window \in Nat
    BY <1>a
  <2>2. CASE (b + s) * Window <= (Limit + 1) * Window + Limit * later
    <3>1. n * Window <= (b + s) * Window
      BY <1>a, <1>8, MultiplyMonotone
    <3>2. (b + s) * Window \in Nat
      BY <1>a
    <3> QED BY <2>1, <2>2, <3>1, <3>2
  <2>3. CASE s = 0
    <3>1. b <= Limit
      <4>1. CASE b = 0
        BY <1>a, <4>1
      <4>2. CASE start - Window \in Starts /\ b = InWindow(prompt, start - Window)
        BY <4>2 DEF SpikeInv, PromptWithinLimit
      <4> QED BY <1>b, <1>5, <4>1, <4>2, WindowBehind
    <3>2. n <= Limit + 1
      BY <1>a, <1>8, <2>3, <3>1
    <3>3. n * Window <= (Limit + 1) * Window
      BY <1>a, <3>2, MultiplyMonotone
    <3> QED BY <2>1, <3>3
  <2>4. s = 0 \/ (b + s) * Window <= (Limit + 1) * Window + Limit * later
    BY <1>2, <1>3, <1>5, <1>6 DEF SpikeInv, SpansEarned, Span
  <2> QED BY <2>2, <2>3, <2>4
<1>10. Window * n = n * Window /\ Window * (Limit + 1) = (Limit + 1) * Window
  BY <1>a
<1> QED BY <1>4, <1>7, <1>9, <1>10

\* No boundary spike, for every limit, window, delay and number of requests: a span of at
\* most one window that ends e seconds after a boundary holds no more prompt requests
\* than the limit, the share of it that e seconds earn back, and one. The script weighs
\* the previous window's counter, and the two counters it reads are those of every
\* prompt request so far, since both outlive the window in which it runs.
THEOREM BoundarySpikeAvoided == Spec => []NoBoundarySpike
BY SpikeInit, SpikeStep, SpikeSafe, PTL DEF Spec
=============================================================================
