------------------------------ MODULE ApiProofs ------------------------------
(***************************************************************************)
(* Machine-checked proofs about Api, for any number of callers, whatever   *)
(* their headers say, and every limit and window.                          *)
(***************************************************************************)
EXTENDS Api, FiniteSetTheorems, TLAPS

-----------------------------------------------------------------------------
(***************************************************************************)
(* What the script's comparison means for the counter it compares.         *)
(***************************************************************************)

LEMMA MultiplyMonotone ==
    ASSUME NEW a \in Nat, NEW b \in Nat, NEW w \in Nat, a <= b
    PROVE  a * w <= b * w
<1>1. PICK d \in Nat : b = a + d
  <2>1. b - a \in Nat /\ b = a + (b - a)
    OBVIOUS
  <2> QED BY <2>1
<1>2. b * w = a * w + d * w
  BY <1>1
<1>3. d * w \in Nat /\ a * w \in Nat
  OBVIOUS
<1> QED BY <1>2, <1>3

LEMMA ProductPositive ==
    ASSUME NEW a \in Nat, NEW b \in Nat, a > 0, b > 0
    PROVE  a * b > 0
OBVIOUS

\* A request is let through only while its window's counter is below the limit: the
\* share of the previous window only adds to the estimate, and a tie that rounding
\* turns into an admission needs a share of the previous window.
LEMMA AdmitBelowLimit ==
    ASSUME NEW prev \in Nat, NEW counted \in Nat, NEW passed \in 0 .. Window - 1,
           MayAdmit(prev, counted, passed)
    PROVE  counted < Limit
<1>1. Window \in Nat /\ Window > 0 /\ Limit \in Nat
  BY ConfigAssumption
<1> DEFINE share == prev * (Window - passed)
<1>2. Window - passed \in Nat /\ Window - passed > 0
  BY <1>1
<1>3. share \in Nat /\ (prev > 0 => share > 0)
  <2>1. \A w \in Nat : prev * w \in Nat
    OBVIOUS
  <2>2. prev > 0 => prev * (Window - passed) > 0
    BY <1>2, ProductPositive
  <2> QED BY <1>2, <2>1, <2>2
<1>4. counted * Window \in Nat /\ Limit * Window \in Nat
  BY <1>1
<1>5. counted * Window < Limit * Window
  <2>1. ScaledEstimate(prev, counted, passed) = share + counted * Window
    BY DEF ScaledEstimate
  <2> HIDE DEF share
  <2>2. \/ share + counted * Window < Limit * Window
        \/ share + counted * Window = Limit * Window /\ share > 0
    BY <1>3, <1>4, <2>1 DEF MayAdmit, MayReject, TieIsRounded
  <2> QED BY <1>3, <1>4, <2>2
<1>6. Limit <= counted => Limit * Window <= counted * Window
  BY <1>1, MultiplyMonotone
<1> QED BY <1>1, <1>4, <1>5, <1>6

-----------------------------------------------------------------------------
(***************************************************************************)
(* Types.                                                                  *)
(***************************************************************************)

Classes == ApplicationExceptions \cup {"RequestValidationError", "StarletteHTTPException", "Exception"}

LEMMA WindowFacts ==
    /\ Window \in Nat /\ Window > 0 /\ Limit \in Nat /\ Limit > 0
    /\ 0 \in 0 .. Window /\ 0 \in 0 .. Window - 1
    /\ \A now \in 0 .. Window - 1 : RetryAfter(now) \in 1 .. Window
BY ConfigAssumption DEF RetryAfter, AtLeastOne

\* Whoever calls, its client address is that of a machine.
LEMMA ClientsKnown ==
    ASSUME caller \in Scenarios, NEW c \in Callers
    PROVE  caller[c] \in Profiles /\ GetClientIp(caller[c]) \in Addresses
<1>1. caller[c] \in Profiles
  BY ScenariosAssumption
<1>2. /\ caller[c].forwarded \in {<<>>} \cup {<<a>> : a \in Addresses \cup {None}}
      /\ caller[c].realIp \in Addresses \cup {None} /\ caller[c].host \in Addresses
  BY <1>1 DEF Profiles
<1>3. CASE caller[c].forwarded \notin {<<>>, <<None>>}
  <2>1. PICK a \in Addresses \cup {None} : caller[c].forwarded = <<a>>
    BY <1>2, <1>3
  <2>2. a # None
    BY <1>3, <2>1
  <2>3. Head(<<a>>) = a
    OBVIOUS
  <2>4. GetClientIp(caller[c]) = Head(caller[c].forwarded)
    BY <1>3, Zenon DEF GetClientIp
  <2> QED BY <1>1, <2>1, <2>2, <2>3, <2>4
<1>4. CASE caller[c].forwarded \in {<<>>, <<None>>}
  BY <1>1, <1>2, <1>4 DEF GetClientIp
<1> QED BY <1>1, <1>3, <1>4

LEMMA BucketsKnown ==
    ASSUME TypeOK, NEW c \in Callers, request[c].op \in Limited
    PROVE  Bucket(c) \in Buckets
BY ClientsKnown DEF TypeOK, Bucket, Buckets, Limited

\* Records that differ in their place, or in what the limiter and the clock note.
LEMMA RecordUpdates ==
    ASSUME NEW Places, NEW Ops, NEW Bodies, NEW Flags, NEW Waits, NEW Raised, NEW Answers,
           NEW r \in [at : Places, op : Ops, form : Bodies, late : Flags, broken : Flags,
                      limits : Flags, retryAfter : Waits, raised : Raised, answer : Answers],
           NEW place \in Places, NEW flag \in Flags
    PROVE  LET records == [at : Places, op : Ops, form : Bodies, late : Flags, broken : Flags,
                           limits : Flags, retryAfter : Waits, raised : Raised, answer : Answers]
           IN  /\ [r EXCEPT !.at = place] \in records
               /\ [r EXCEPT !.late = flag] \in records
               /\ [r EXCEPT !.at = place, !.limits = flag] \in records
OBVIOUS

LEMMA RequestUpdates ==
    ASSUME NEW r \in Requests, NEW flag \in BOOLEAN
    PROVE  /\ [r EXCEPT !.at = "admitted"] \in Requests
           /\ [r EXCEPT !.late = flag] \in Requests
           /\ [r EXCEPT !.at = "admitted", !.limits = flag] \in Requests
BY RecordUpdates, Zenon DEF Requests

\* Every request a step leaves behind is one.
LEMMA RequestsWellFormed ==
    ASSUME TypeOK, NEW c \in Callers
    PROVE  /\ Idle \in Requests
           /\ \A op \in Operations, form \in {"valid", "unparsable", "invalid"} :
                 [Idle EXCEPT !.at = "arrived", !.op = op, !.form = form] \in Requests
           /\ \A exception \in Classes, broken \in BOOLEAN, retryAfter \in 0 .. Window :
                 RaiseWith(c, exception, broken, retryAfter) =>
                    request' \in [Callers -> Requests]
           /\ \A status \in Nat, limits \in BOOLEAN, retryAfter \in 0 .. Window :
                 AnswerWith(c, status, limits, retryAfter) => request' \in [Callers -> Requests]
<1>1. request \in [Callers -> Requests] /\ request[c].op \in Operations
      /\ request[c].broken \in BOOLEAN
  BY DEF TypeOK, Requests
<1>2. NoAnswer \in [status : Nat, limits : BOOLEAN, retryAfter : 0 .. Window]
  BY WindowFacts DEF NoAnswer
<1>3. Idle \in Requests
  BY <1>2, WindowFacts DEF Idle, Requests, Operations
<1>4. ASSUME NEW op \in Operations, NEW form \in {"valid", "unparsable", "invalid"}
      PROVE  [Idle EXCEPT !.at = "arrived", !.op = op, !.form = form] \in Requests
  BY <1>3, <1>4 DEF Requests
<1>5. ASSUME NEW exception \in Classes, NEW broken \in BOOLEAN, NEW retryAfter \in 0 .. Window,
             RaiseWith(c, exception, broken, retryAfter)
      PROVE  request' \in [Callers -> Requests]
  <2> DEFINE r == [Idle EXCEPT !.at = "raised", !.op = request[c].op, !.raised = exception,
                               !.broken = broken, !.retryAfter = retryAfter]
  <2>1. r \in Requests
    BY <1>1, <1>3 DEF Requests, Classes
  <2> HIDE DEF r
  <2> QED BY <1>1, <1>5, <2>1 DEF RaiseWith, r
<1>6. ASSUME NEW status \in Nat, NEW limits \in BOOLEAN, NEW retryAfter \in 0 .. Window,
             AnswerWith(c, status, limits, retryAfter)
      PROVE  request' \in [Callers -> Requests]
  <2> DEFINE answer == [status |-> status, limits |-> limits, retryAfter |-> retryAfter]
             r == [Idle EXCEPT !.at = "answered", !.op = request[c].op,
                               !.broken = request[c].broken, !.answer = answer]
  <2>1. answer \in [status : Nat, limits : BOOLEAN, retryAfter : 0 .. Window]
    OBVIOUS
  <2> HIDE DEF answer
  <2>2. r \in Requests
    BY <1>1, <1>3, <2>1 DEF Requests
  <2> HIDE DEF r
  <2> QED BY <1>1, <1>6, <2>2 DEF AnswerWith, answer, r
<1> QED BY <1>3, <1>4, <1>5, <1>6

LEMMA TypeInit == Init => TypeOK
<1> SUFFICES ASSUME Init PROVE TypeOK
  OBVIOUS
<1>1. Idle \in Requests
  <2>1. NoAnswer \in [status : Nat, limits : BOOLEAN, retryAfter : 0 .. Window]
    BY WindowFacts DEF NoAnswer
  <2> QED BY <2>1, WindowFacts DEF Idle, Requests, Operations
<1>2. \A c \in Callers : caller[c].owns \in {"none", "active", "inactive"}
  BY ClientsKnown DEF Init, Profiles
<1>3. /\ previous \in [Buckets -> Nat] /\ current \in [Buckets -> Nat]
      /\ handled \in [Buckets -> 0 .. Limit + 1]
  BY WindowFacts DEF Init
<1>4. /\ seeds \in [Callers -> 0 .. Seeds] /\ wait \in [Callers -> 0 .. Window]
      /\ refused \in [Callers -> [Operations -> 0 .. 3]]
  BY WindowFacts, SeedsAssumption DEF Init
<1>5. own \in [Callers -> [Operations -> [previous : Nat, current : Nat]]]
  BY DEF Init
<1>6. /\ caller \in Scenarios /\ enabled \in BOOLEAN /\ elapsed \in 0 .. Window - 1
      /\ request \in [Callers -> Requests] /\ link \in [Callers -> {"none", "active", "inactive"}]
  BY <1>1, <1>2, WindowFacts DEF Init
<1> QED BY <1>3, <1>4, <1>5, <1>6 DEF TypeOK

LEMMA TickTypes == ASSUME TypeOK, Tick PROVE TypeOK'
<1> USE DEF TypeOK
<1>1. elapsed' \in 0 .. Window - 1 /\ wait' \in [Callers -> 0 .. Window]
  BY WindowFacts DEF Tick, AtLeastZero
<1>2. /\ previous' \in [Buckets -> Nat] /\ current' \in [Buckets -> Nat]
      /\ handled' \in [Buckets -> 0 .. Limit + 1]
  BY WindowFacts DEF Tick, TurnWindow
<1>3. own' \in [Callers -> [Operations -> [previous : Nat, current : Nat]]]
  BY DEF Tick, TurnWindow
<1>4. request' \in [Callers -> Requests]
  <2>1. CASE TurnWindow
    <3>1. ASSUME NEW c \in Callers
          PROVE  [request[c] EXCEPT !.late = At(c, "admitted")] \in Requests
      <4> DEFINE late == At(c, "admitted")
      <4>1. late \in BOOLEAN
        BY DEF At
      <4> HIDE DEF late
      <4>2. request[c] \in Requests
        OBVIOUS
      <4>3. [request[c] EXCEPT !.late = late] \in Requests
        BY <4>1, <4>2, RequestUpdates, Zenon
      <4> QED BY <4>3 DEF late
    <3> QED BY <2>1, <3>1 DEF TurnWindow
  <2> QED BY <2>1 DEF Tick
<1> QED BY <1>1, <1>2, <1>3, <1>4 DEF Tick

LEMMA AskTypes ==
    ASSUME TypeOK, NEW c \in Callers, NEW op \in Operations, NEW form \in Forms(op), Ask(c, op, form)
    PROVE  TypeOK'
<1>1. form \in {"valid", "unparsable", "invalid"}
  BY DEF Forms
<1>2. request' \in [Callers -> Requests]
  BY <1>1, RequestsWellFormed DEF Ask, TypeOK
<1>3. seeds' \in [Callers -> 0 .. Seeds]
  BY SeedsAssumption DEF Ask, TypeOK
<1> QED BY <1>2, <1>3 DEF Ask, TypeOK, counters

\* The statuses are numbers, and a missing handler would answer 500.
LEMMA StatusTypes ==
    /\ \A class : StatusCode(class) \in Nat
    /\ \A op : StatusAfter(op) \in Nat
BY DEF StatusCode, StatusAfter

\* What so many runs of the script do to the counters, and to the caller's own record.
LEMMA CountsEffect ==
    ASSUME TypeOK, NEW c \in Callers, request[c].op \in Limited, NEW n \in Nat, Counts(c, n)
    PROVE  /\ Bucket(c) \in Buckets /\ request[c].op \in Operations
           /\ current' \in [Buckets -> Nat]
           /\ current'[Bucket(c)] = current[Bucket(c)] + n
           /\ \A b \in Buckets \ {Bucket(c)} : current'[b] = current[b]
           /\ own' \in [Callers -> [Operations -> [previous : Nat, current : Nat]]]
           /\ own'[c][request[c].op].current = own[c][request[c].op].current + n
           /\ own'[c][request[c].op].previous = own[c][request[c].op].previous
           /\ \A op \in Operations \ {request[c].op} : own'[c][op] = own[c][op]
           /\ \A d \in Callers \ {c} : own'[d] = own[d]
<1>1. PICK b \in Buckets : b = Bucket(c)
  BY BucketsKnown
<1>2. PICK op \in Operations : op = request[c].op
  BY DEF Limited, Operations
<1>3. /\ current \in [Buckets -> Nat]
      /\ own \in [Callers -> [Operations -> [previous : Nat, current : Nat]]]
  BY DEF TypeOK
<1>4. current' = [current EXCEPT ![b] = @ + n]
  BY <1>1 DEF Counts
<1> DEFINE entry == [own[c][op] EXCEPT !.current = @ + n]
           record == [own[c] EXCEPT ![op] = entry]
<1>5. own' = [own EXCEPT ![c] = record]
  BY <1>2 DEF Counts
<1>6. PICK before \in [previous : Nat, current : Nat] : before = own[c][op]
  BY <1>3
<1>7. /\ entry \in [previous : Nat, current : Nat]
      /\ entry.current = own[c][op].current + n /\ entry.previous = own[c][op].previous
  BY <1>6
<1> HIDE DEF entry
<1>8. /\ record \in [Operations -> [previous : Nat, current : Nat]]
      /\ record[op] = entry /\ \A o \in Operations \ {op} : record[o] = own[c][o]
  BY <1>3, <1>7
<1> HIDE DEF record
<1>9. /\ own' \in [Callers -> [Operations -> [previous : Nat, current : Nat]]]
      /\ own'[c] = record /\ \A d \in Callers \ {c} : own'[d] = own[d]
  BY <1>3, <1>5, <1>8
<1>10. /\ current' \in [Buckets -> Nat] /\ current'[b] = current[b] + n
       /\ \A a \in Buckets \ {b} : current'[a] = current[a]
  BY <1>3, <1>4
<1> QED BY <1>1, <1>2, <1>7, <1>8, <1>9, <1>10

\* How often a step of the limiter counts its request.
LEMMA LimiterCounts ==
    ASSUME NEW c \in Callers, Admit(c) \/ Reject(c) \/ LimiterBreaks(c)
    PROVE  request[c].op \in Limited /\ \E n \in Nat : Counts(c, n)
<1>1. \A lost \in 0 .. Retries + 1 : lost \in Nat /\ lost + 1 \in Nat
  BY RetriesAssumption
<1>2. 0 .. Retries \in SUBSET (0 .. Retries + 1)
  BY RetriesAssumption
<1>3. request[c].op \in Limited
  BY DEF Admit, Reject, LimiterBreaks, IsLimited
<1>4. CASE Admit(c)
  <2>1. PICK lost \in 0 .. Retries : Counts(c, lost + 1)
    BY <1>4, Zenon DEF Admit
  <2> QED BY <1>1, <1>2, <1>3, <2>1
<1>5. CASE Reject(c)
  <2>1. PICK lost \in 0 .. Retries : Counts(c, lost)
    BY <1>5, Zenon DEF Reject
  <2> QED BY <1>1, <1>2, <1>3, <2>1
<1>6. CASE LimiterBreaks(c)
  <2>1. PICK lost \in 0 .. Retries + 1 : Counts(c, lost)
    BY <1>6, Zenon DEF LimiterBreaks
  <2> QED BY <1>1, <1>3, <2>1
<1> QED BY <1>4, <1>5, <1>6

LEMMA LimiterTypes ==
    ASSUME TypeOK, NEW c \in Callers, Limiter(c)
    PROVE  TypeOK'
<1> USE DEF TypeOK
<1>1. CASE PassUnlimited(c)
  <2>1. request' \in [Callers -> Requests]
    <3> DEFINE r == [request[c] EXCEPT !.at = "admitted"]
    <3>1. r \in Requests
      BY RequestUpdates
    <3>2. request' = [request EXCEPT ![c] = r]
      BY <1>1 DEF PassUnlimited
    <3> HIDE DEF r
    <3> QED BY <3>1, <3>2
  <2> QED BY <1>1, <2>1 DEF PassUnlimited, counters
<1>2. ASSUME Admit(c) \/ Reject(c) \/ LimiterBreaks(c)
      PROVE  /\ request[c].op \in Operations
             /\ current' \in [Buckets -> Nat]
             /\ own' \in [Callers -> [Operations -> [previous : Nat, current : Nat]]]
             /\ \A n \in 0 .. 3 :
                   [refused EXCEPT ![c][request[c].op] = n] \in [Callers -> [Operations -> 0 .. 3]]
  <2>1. PICK n \in Nat : Counts(c, n)
    BY <1>2, LimiterCounts
  <2>2. request[c].op \in Limited
    BY <1>2, LimiterCounts
  <2> QED BY <2>1, <2>2, CountsEffect
<1>3. CASE Admit(c)
  <2>1. request' \in [Callers -> Requests]
    <3> DEFINE r == [request[c] EXCEPT !.at = "admitted", !.limits = TRUE]
    <3>1. r \in Requests
      BY RequestUpdates
    <3>2. request' = [request EXCEPT ![c] = r]
      BY <1>3 DEF Admit
    <3> HIDE DEF r
    <3> QED BY <3>1, <3>2
  <2>2. refused' \in [Callers -> [Operations -> 0 .. 3]]
    BY <1>2, <1>3 DEF Admit
  <2> QED BY <1>2, <1>3, <2>1, <2>2 DEF Admit
<1>4. CASE Reject(c)
  <2>1. refused' \in [Callers -> [Operations -> 0 .. 3]]
    <3>1. PICK lost \in 0 .. Retries :
             refused' = [refused EXCEPT ![c][request[c].op] =
                            IF ~caller[c].obeys THEN 0
                            ELSE IF lost > 0 THEN 1
                            ELSE IF @ < 3 THEN @ + 1 ELSE @]
      BY <1>4 DEF Reject
    <3>2. PICK op \in Operations : op = request[c].op
      BY <1>2, <1>4
    <3>3. refused \in [Callers -> [Operations -> 0 .. 3]] /\ refused[c][op] \in 0 .. 3
      BY <3>2
    <3>4. PICK n \in 0 .. 3 : n = IF ~caller[c].obeys THEN 0
                                 ELSE IF lost > 0 THEN 1
                                 ELSE IF refused[c][op] < 3 THEN refused[c][op] + 1
                                 ELSE refused[c][op]
      BY <3>3
    <3>5. refused' = [refused EXCEPT ![c][op] = n]
      BY <3>1, <3>2, <3>3, <3>4
    <3> QED BY <1>2, <1>4, <3>2, <3>5
  <2>2. RetryAfter(elapsed) \in 0 .. Window
    BY WindowFacts
  <2>3. request' \in [Callers -> Requests]
    BY <1>4, <2>2, RequestsWellFormed DEF Reject, Classes, ApplicationExceptions
  <2> QED BY <1>2, <1>4, <2>1, <2>3 DEF Reject
<1>5. CASE LimiterBreaks(c)
  <2>1. request' \in [Callers -> Requests]
    BY <1>5, WindowFacts, RequestsWellFormed DEF LimiterBreaks, Break, Classes
  <2>2. refused' \in [Callers -> [Operations -> 0 .. 3]]
    BY <1>2, <1>5 DEF LimiterBreaks
  <2> QED BY <1>2, <1>5, <2>1, <2>2 DEF LimiterBreaks
<1> QED BY <1>1, <1>3, <1>4, <1>5 DEF Limiter

\* Handlers count nothing but themselves.
LEMMA HandledTypes ==
    ASSUME TypeOK, NEW c \in Callers, CountHandled(c)
    PROVE  handled' \in [Buckets -> 0 .. Limit + 1]
<1>1. CASE enabled /\ request[c].op \in Limited /\ ~request[c].late
  <2>1. Bucket(c) \in Buckets
    BY <1>1, BucketsKnown
  <2>2. handled' = [handled EXCEPT ![Bucket(c)] = IF @ <= Limit THEN @ + 1 ELSE @]
    BY <1>1 DEF CountHandled, Limited
  <2> QED BY <2>1, <2>2, WindowFacts DEF TypeOK
<1>2. CASE ~(enabled /\ request[c].op \in Limited /\ ~request[c].late)
  BY <1>2 DEF CountHandled, Limited, TypeOK
<1> QED BY <1>1, <1>2

LEMMA HandlerTypes ==
    ASSUME TypeOK, NEW c \in Callers, Handle(c) \/ HandleMissing(c) \/ HandlerBreaks(c)
    PROVE  TypeOK'
<1>1. handled' \in [Buckets -> 0 .. Limit + 1]
  BY HandledTypes DEF Handle, HandleMissing, HandlerBreaks
<1>2. LinkAfter(c) \in {"none", "active", "inactive"}
  BY DEF LinkAfter, TypeOK
<1>3. link' \in [Callers -> {"none", "active", "inactive"}]
  BY <1>2 DEF Handle, HandleMissing, HandlerBreaks, TypeOK
<1>4. request[c].limits \in BOOLEAN /\ 404 \in Nat
  BY DEF TypeOK, Requests
<1>5. request' \in [Callers -> Requests]
  <2>1. CASE Handle(c)
    BY <2>1, <1>4, WindowFacts, StatusTypes, RequestsWellFormed DEF Handle, Answer
  <2>2. CASE HandleMissing(c)
    BY <2>2, <1>4, WindowFacts, RequestsWellFormed
       DEF HandleMissing, Answer, Raise, Classes, ApplicationExceptions
  <2>3. CASE HandlerBreaks(c)
    BY <2>3, WindowFacts, RequestsWellFormed
       DEF HandlerBreaks, Break, Classes, ApplicationExceptions
  <2> QED BY <2>1, <2>2, <2>3
<1> QED BY <1>1, <1>3, <1>5 DEF Handle, HandleMissing, HandlerBreaks, TypeOK

LEMMA RaisingTypes ==
    ASSUME TypeOK, NEW c \in Callers, RaiseEarly(c) \/ Invalid(c)
    PROVE  TypeOK'
<1>1. request' \in [Callers -> Requests]
  BY WindowFacts, RequestsWellFormed DEF RaiseEarly, Invalid, Raise, Classes
<1> QED BY <1>1 DEF RaiseEarly, Invalid, TypeOK, counters

LEMMA RespondTypes ==
    ASSUME TypeOK, NEW c \in Callers, Respond(c)
    PROVE  TypeOK'
<1> DEFINE exception == request[c].raised
           headers == HandlerOf(exception) = "RateLimitExceeded"
           retryAfter == IF headers THEN request[c].retryAfter ELSE 0
<1>1. retryAfter \in 0 .. Window /\ headers \in BOOLEAN /\ StatusCode(exception) \in Nat
  BY WindowFacts, StatusTypes DEF TypeOK, Requests
<1>2. /\ AnswerWith(c, StatusCode(exception), headers, retryAfter)
      /\ wait' = IF caller[c].obeys THEN [wait EXCEPT ![c] = retryAfter] ELSE wait
      /\ UNCHANGED <<caller, enabled, elapsed, link, seeds, counters>>
  BY DEF Respond
<1> HIDE DEF exception, headers, retryAfter
<1>3. request' \in [Callers -> Requests]
  BY <1>1, <1>2, RequestsWellFormed
<1>4. wait' \in [Callers -> 0 .. Window]
  BY <1>1, <1>2 DEF TypeOK
<1> QED BY <1>2, <1>3, <1>4 DEF TypeOK, counters

LEMMA TypeStep == TypeOK /\ [Next]_vars => TypeOK'
<1> SUFFICES ASSUME TypeOK, [Next]_vars PROVE TypeOK'
  OBVIOUS
<1>1. CASE UNCHANGED vars
  BY <1>1 DEF vars, counters, TypeOK
<1>2. ASSUME NEW c \in Callers, Serve(c) PROVE TypeOK'
  BY <1>2, LimiterTypes, HandlerTypes, RaisingTypes, RespondTypes DEF Serve
<1> QED BY <1>1, <1>2, TickTypes, AskTypes DEF Next

\* Every variable keeps its type.
THEOREM TypeCorrect == Spec => []TypeOK
BY TypeInit, TypeStep, PTL DEF Spec
-----------------------------------------------------------------------------
(***************************************************************************)
(* The limit. A request that the script has let through is pending until   *)
(* its handler runs, it turns out to be invalid, or its window is over; so *)
(* the counter, which lost replies only raise, is never below the handlers *)
(* that ran and those that still may.                                      *)
(***************************************************************************)

Pending(b) == {c \in Callers : /\ request[c].at = "admitted" /\ ~request[c].late
                               /\ request[c].op \in Limited /\ Bucket(c) = b}

LimitInv == \A b \in Buckets :
    /\ current[b] <= Limit
    /\ enabled => IsFiniteSet(Pending(b)) /\ handled[b] + Cardinality(Pending(b)) <= current[b]
    /\ ~enabled => handled[b] = 0

LEMMA LimitInit == Init => LimitInv
<1> SUFFICES ASSUME Init, NEW b \in Buckets
             PROVE  /\ current[b] = 0 /\ handled[b] = 0 /\ 0 <= Limit
                    /\ IsFiniteSet(Pending(b)) /\ Cardinality(Pending(b)) = 0
  BY DEF LimitInv
<1>1. Pending(b) = {}
  BY DEF Init, Pending, Idle
<1> QED BY <1>1, FS_EmptySet, WindowFacts DEF Init

\* What a step does to the counters, the turn of the window aside.
CountersGrow == \A b \in Buckets : current'[b] \in current[b] .. Limit

LEMMA CountersStay == TypeOK /\ LimitInv /\ current' = current => CountersGrow
BY WindowFacts DEF TypeOK, LimitInv, CountersGrow

\* The script counts while the counter is below the limit only, however often it runs.
LEMMA CountersRaised ==
    ASSUME TypeOK, LimitInv, NEW c \in Callers, request[c].op \in Limited,
           NEW n \in Nat, Counts(c, n)
    PROVE  CountersGrow
<1>1. PICK b \in Buckets : b = Bucket(c)
  BY BucketsKnown
<1>2. /\ current[b] \in Nat /\ previous[b] \in Nat /\ elapsed \in 0 .. Window - 1
      /\ current[b] <= Limit
  BY DEF TypeOK, LimitInv
<1>3. current[b] + n <= Limit
  <2>1. CASE n = 0
    BY <1>2, <2>1
  <2>2. CASE n > 0
    <3>1. n - 1 \in 0 .. n - 1 /\ current[b] + (n - 1) \in Nat
      BY <1>2, <2>2
    <3>2. MayAdmit(previous[b], current[b] + (n - 1), elapsed)
      BY <1>1, <3>1 DEF Counts
    <3>3. current[b] + (n - 1) < Limit
      BY <1>2, <3>1, <3>2, AdmitBelowLimit
    <3> QED BY <1>2, <3>3, WindowFacts
  <2> QED BY <2>1, <2>2
<1>4. current'[b] = current[b] + n /\ \A a \in Buckets \ {b} : current'[a] = current[a]
  BY <1>1, CountsEffect
<1>5. \A a \in Buckets : current[a] \in Nat /\ current[a] <= Limit
  BY DEF TypeOK, LimitInv
<1> QED BY <1>2, <1>3, <1>4, <1>5, WindowFacts DEF CountersGrow

\* Fewer pending requests never break the bound.
LEMMA FewerPending ==
    ASSUME TypeOK, LimitInv, NEW b \in Buckets, Pending(b)' \in SUBSET Pending(b),
           enabled' = enabled, current'[b] \in current[b] .. Limit, handled'[b] = handled[b]
    PROVE  /\ current'[b] <= Limit
           /\ enabled' => /\ IsFiniteSet(Pending(b)')
                          /\ handled'[b] + Cardinality(Pending(b)') <= current'[b]
           /\ ~enabled' => handled'[b] = 0
<1>1. CASE enabled
  <2>1. /\ IsFiniteSet(Pending(b)) /\ handled[b] + Cardinality(Pending(b)) <= current[b]
        /\ handled[b] \in Nat /\ current[b] \in Nat
    BY <1>1, WindowFacts DEF LimitInv, TypeOK
  <2>2. /\ IsFiniteSet(Pending(b)') /\ Cardinality(Pending(b)') <= Cardinality(Pending(b))
        /\ Cardinality(Pending(b)') \in Nat /\ Cardinality(Pending(b)) \in Nat
    BY <2>1, FS_Subset, FS_CardinalityType
  <2> QED BY <1>1, <2>1, <2>2, WindowFacts DEF LimitInv
<1>2. CASE ~enabled
  BY <1>2, WindowFacts DEF LimitInv, TypeOK
<1> QED BY <1>1, <1>2

\* A step that takes nothing from the counters and admits nobody new to a limited route.
NobodyNew ==
    /\ UNCHANGED <<caller, enabled, handled>>
    /\ CountersGrow
    /\ \A c \in Callers : \/ request'[c] = request[c]
                          \/ request'[c].at # "admitted"
                          \/ ~IsLimited(c) /\ request'[c].op = request[c].op

LEMMA NobodyAdmitted == TypeOK /\ LimitInv /\ NobodyNew => LimitInv'
<1> SUFFICES ASSUME TypeOK, LimitInv, NobodyNew PROVE LimitInv'
  OBVIOUS
<1>1. CASE enabled
  <2>1. ASSUME NEW b \in Buckets PROVE Pending(b)' \in SUBSET Pending(b)
    BY <1>1 DEF NobodyNew, Pending, Bucket, IsLimited
  <2>2. UNCHANGED <<enabled, handled>> /\ CountersGrow
    BY DEF NobodyNew
  <2> QED BY <2>1, <2>2, FewerPending DEF LimitInv, CountersGrow
<1>2. CASE ~enabled
  BY <1>2, WindowFacts DEF NobodyNew, LimitInv, CountersGrow, TypeOK
<1> QED BY <1>1, <1>2

\* One request more, or one less.
LEMMA OneMore ==
    ASSUME NEW s, NEW t, NEW x, IsFiniteSet(s), t \in SUBSET (s \cup {x})
    PROVE  /\ IsFiniteSet(t) /\ Cardinality(t) \in Nat /\ Cardinality(s) \in Nat
           /\ Cardinality(t) <= Cardinality(s) + 1
<1>1. /\ IsFiniteSet(s \cup {x})
      /\ Cardinality(s \cup {x}) = Cardinality(s) \/ Cardinality(s \cup {x}) = Cardinality(s) + 1
  BY FS_AddElement
<1>2. Cardinality(s) \in Nat
  BY FS_CardinalityType
<1>3. IsFiniteSet(t) /\ Cardinality(t) <= Cardinality(s \cup {x})
  BY <1>1, FS_Subset
<1>4. Cardinality(t) \in Nat
  BY <1>3, FS_CardinalityType
<1> QED BY <1>1, <1>2, <1>3, <1>4

LEMMA OneLess ==
    ASSUME NEW s, NEW t, NEW x, IsFiniteSet(s), x \in s, t \in SUBSET (s \ {x})
    PROVE  /\ IsFiniteSet(t) /\ Cardinality(t) \in Nat /\ Cardinality(s) \in Nat
           /\ Cardinality(t) + 1 <= Cardinality(s)
<1>1. IsFiniteSet(s \ {x}) /\ Cardinality(s \ {x}) = Cardinality(s) - 1
  BY FS_RemoveElement
<1>2. Cardinality(s) \in Nat
  BY FS_CardinalityType
<1>3. IsFiniteSet(t) /\ Cardinality(t) <= Cardinality(s \ {x})
  BY <1>1, FS_Subset
<1>4. Cardinality(t) \in Nat
  BY <1>3, FS_CardinalityType
<1> QED BY <1>1, <1>2, <1>3, <1>4

LEMMA AdmitKeepsLimit ==
    ASSUME TypeOK, LimitInv, NEW c \in Callers, Admit(c)
    PROVE  LimitInv'
<1>1. /\ enabled /\ request[c].op \in Limited /\ request[c].at = "arrived"
      /\ UNCHANGED <<caller, enabled, handled>>
  BY DEF Admit, Routed, IsLimited, At
<1>2. PICK b \in Buckets : b = Bucket(c)
  BY <1>1, BucketsKnown
<1>3. /\ request'[c] = [request[c] EXCEPT !.at = "admitted", !.limits = TRUE]
      /\ \A d \in Callers \ {c} : request'[d] = request[d]
  BY DEF Admit, TypeOK
<1>4. request'[c].op = request[c].op
  BY <1>3 DEF TypeOK, Requests
<1>5. ASSUME NEW a \in Buckets
      PROVE  /\ a # b => Pending(a)' \in SUBSET Pending(a)
             /\ Pending(a)' \in SUBSET (Pending(a) \cup {c})
  BY <1>1, <1>2, <1>3, <1>4 DEF Pending, Bucket
<1>6. CountersGrow /\ current'[b] \in Nat /\ current'[b] > current[b]
  <2>1. PICK lost \in 0 .. Retries : Counts(c, lost + 1)
    BY DEF Admit
  <2>2. lost + 1 \in Nat /\ current[b] \in Nat
    BY RetriesAssumption DEF TypeOK
  <2>3. CountersGrow
    BY <1>1, <2>1, <2>2, CountersRaised
  <2>4. current'[b] = current[b] + (lost + 1)
    BY <1>1, <1>2, <2>1, <2>2, CountsEffect
  <2> QED BY <2>2, <2>3, <2>4, RetriesAssumption
<1>7. /\ current[b] \in Nat /\ handled[b] \in Nat
      /\ IsFiniteSet(Pending(b)) /\ handled[b] + Cardinality(Pending(b)) <= current[b]
  BY <1>1, <1>2, WindowFacts DEF TypeOK, LimitInv
<1>8. Pending(b)' \in SUBSET (Pending(b) \cup {c})
  BY <1>2, <1>5
<1>9. /\ IsFiniteSet(Pending(b)') /\ Cardinality(Pending(b)') \in Nat
      /\ Cardinality(Pending(b)) \in Nat
      /\ Cardinality(Pending(b)') <= Cardinality(Pending(b)) + 1
  <2> DEFINE s == Pending(b)
             t == Pending(b)'
  <2>1. IsFiniteSet(s) /\ t \in SUBSET (s \cup {c})
    BY <1>7, <1>8
  <2> HIDE DEF s, t
  <2>2. /\ IsFiniteSet(t) /\ Cardinality(t) \in Nat /\ Cardinality(s) \in Nat
        /\ Cardinality(t) <= Cardinality(s) + 1
    BY <2>1, OneMore, Zenon
  <2> QED BY <2>2 DEF s, t
<1>10. ASSUME NEW a \in Buckets
       PROVE  /\ current'[a] <= Limit
              /\ IsFiniteSet(Pending(a)') /\ handled'[a] + Cardinality(Pending(a)') <= current'[a]
  <2>1. CASE a = b
    <3>1. current'[b] \in current[b] + 1 .. Limit /\ handled'[b] = handled[b]
      BY <1>1, <1>6, <1>7, WindowFacts DEF CountersGrow
    <3> DEFINE before == Cardinality(Pending(b))
               after == Cardinality(Pending(b)')
    <3>2. /\ before \in Nat /\ after \in Nat /\ after <= before + 1
          /\ handled[b] + before <= current[b]
      BY <1>7, <1>9
    <3> HIDE DEF before, after
    <3>3. current'[b] <= Limit /\ handled'[b] + after <= current'[b]
      BY <3>1, <3>2, <1>7, WindowFacts
    <3>4. current'[b] <= Limit /\ handled'[b] + Cardinality(Pending(b)') <= current'[b]
      BY <3>3 DEF after
    <3> QED BY <2>1, <3>4, <1>9
  <2>2. CASE a # b
    <3>1. current'[a] \in current[a] .. Limit /\ handled'[a] = handled[a]
      BY <1>1, <1>6 DEF CountersGrow
    <3>2. Pending(a)' \in SUBSET Pending(a)
      BY <1>5, <2>2
    <3> QED BY <1>1, <3>1, <3>2, FewerPending
  <2> QED BY <2>1, <2>2
<1> QED BY <1>1, <1>10 DEF LimitInv

LEMMA HandlersKeepLimit ==
    ASSUME TypeOK, LimitInv, NEW c \in Callers, Handle(c) \/ HandleMissing(c) \/ HandlerBreaks(c)
    PROVE  LimitInv'
<1>1. /\ request[c].at = "admitted" /\ CountHandled(c)
      /\ UNCHANGED <<caller, enabled, current>>
  BY DEF Handle, HandleMissing, HandlerBreaks, At
<1>2. /\ request'[c].at # "admitted"
      /\ \A d \in Callers \ {c} : request'[d] = request[d]
  <2>1. ASSUME NEW e, NEW broken, NEW retryAfter, RaiseWith(c, e, broken, retryAfter)
        PROVE  <1>2!:
    BY <2>1 DEF RaiseWith, TypeOK, Idle
  <2>2. ASSUME NEW status, NEW limits, NEW retryAfter, AnswerWith(c, status, limits, retryAfter)
        PROVE  <1>2!:
    BY <2>2 DEF AnswerWith, TypeOK, Idle
  <2> QED BY <2>1, <2>2 DEF Handle, HandleMissing, HandlerBreaks, Answer, Raise, Break
<1>3. CASE enabled /\ request[c].op \in Limited /\ ~request[c].late
  <2>1. PICK b \in Buckets : b = Bucket(c)
    BY <1>3, BucketsKnown
  <2>2. handled' = [handled EXCEPT ![b] = IF @ <= Limit THEN @ + 1 ELSE @]
    BY <1>1, <1>3, <2>1 DEF CountHandled, Limited
  <2>3. /\ \A a \in Buckets : Pending(a)' \in SUBSET Pending(a)
        /\ Pending(b)' \in SUBSET (Pending(b) \ {c})
    <3>1. \A a \in Buckets : Pending(a)' \in SUBSET (Pending(a) \ {c})
      BY <1>1, <1>2 DEF Pending, Bucket
    <3> QED BY <2>1, <3>1
  <2>4. c \in Pending(b)
    BY <1>1, <1>3, <2>1 DEF Pending
  <2>5. /\ current[b] \in Nat /\ handled[b] \in Nat /\ current[b] <= Limit
        /\ IsFiniteSet(Pending(b)) /\ handled[b] + Cardinality(Pending(b)) <= current[b]
    BY <1>3, <2>1, WindowFacts DEF TypeOK, LimitInv
  <2>6. /\ IsFiniteSet(Pending(b)') /\ Cardinality(Pending(b)') \in Nat
        /\ Cardinality(Pending(b)) \in Nat
        /\ Cardinality(Pending(b)') + 1 <= Cardinality(Pending(b))
    <3> DEFINE s == Pending(b)
               t == Pending(b)'
    <3>1. IsFiniteSet(s) /\ c \in s /\ t \in SUBSET (s \ {c})
      BY <2>3, <2>4, <2>5
    <3> HIDE DEF s, t
    <3>2. /\ IsFiniteSet(t) /\ Cardinality(t) \in Nat /\ Cardinality(s) \in Nat
          /\ Cardinality(t) + 1 <= Cardinality(s)
      BY <3>1, OneLess, Zenon
    <3> QED BY <3>2 DEF s, t
  <2>7. ASSUME NEW a \in Buckets
        PROVE  /\ current'[a] <= Limit
               /\ IsFiniteSet(Pending(a)') /\ handled'[a] + Cardinality(Pending(a)') <= current'[a]
    <3>1. CASE a = b
      <4>1. current'[b] = current[b] /\ handled'[b] \in {handled[b], handled[b] + 1}
        BY <1>1, <2>1, <2>2 DEF TypeOK
      <4> DEFINE before == Cardinality(Pending(b))
                 after == Cardinality(Pending(b)')
      <4>2. /\ before \in Nat /\ after \in Nat /\ after + 1 <= before
            /\ handled[b] + before <= current[b]
        BY <2>5, <2>6
      <4> HIDE DEF before, after
      <4>3. current'[b] <= Limit /\ handled'[b] + after <= current'[b]
        BY <4>1, <4>2, <2>5, WindowFacts
      <4>4. current'[b] <= Limit /\ handled'[b] + Cardinality(Pending(b)') <= current'[b]
        BY <4>3 DEF after
      <4> QED BY <3>1, <4>4, <2>6
    <3>2. CASE a # b
      <4>1. current'[a] \in current[a] .. Limit /\ handled'[a] = handled[a]
        BY <1>1, <2>2, <3>2, CountersStay DEF TypeOK, CountersGrow
      <4> QED BY <1>1, <1>3, <2>3, <4>1, FewerPending
    <3> QED BY <3>1, <3>2
  <2> QED BY <1>1, <1>3, <2>7 DEF LimitInv
<1>4. CASE ~(enabled /\ request[c].op \in Limited /\ ~request[c].late)
  <2>1. handled' = handled
    BY <1>1, <1>4 DEF CountHandled, Limited
  <2>2. NobodyNew
    BY <1>1, <1>2, <2>1, CountersStay DEF NobodyNew
  <2> QED BY <2>2, NobodyAdmitted
<1> QED BY <1>3, <1>4

LEMMA TickKeepsLimit == ASSUME TypeOK, LimitInv, Tick PROVE LimitInv'
<1>1. CASE TurnWindow
  <2>1. ASSUME NEW b \in Buckets PROVE Pending(b)' = {}
    <3>1. \A c \in Callers : request'[c] = [request[c] EXCEPT !.late = At(c, "admitted")]
      BY <1>1 DEF TurnWindow
    <3>2. ASSUME NEW c \in Callers
          PROVE  request'[c].at = request[c].at /\ request'[c].late = At(c, "admitted")
      <4> DEFINE late == At(c, "admitted")
      <4>1. request[c] \in Requests
        BY DEF TypeOK
      <4>2. request'[c] = [request[c] EXCEPT !.late = late]
        BY <3>1
      <4> HIDE DEF late
      <4>3. request'[c].at = request[c].at /\ request'[c].late = late
        BY <4>1, <4>2 DEF Requests
      <4> QED BY <4>3 DEF late
    <3> QED BY <3>2 DEF Pending, At
  <2>2. \A b \in Buckets : current'[b] = 0 /\ handled'[b] = 0
    BY <1>1 DEF TurnWindow
  <2> QED BY <2>1, <2>2, FS_EmptySet, WindowFacts DEF LimitInv
<1>2. CASE UNCHANGED <<previous, current, own, handled, request>>
  <2>1. caller' = caller /\ enabled' = enabled
    BY DEF Tick
  <2>2. \A b \in Buckets : Pending(b)' = Pending(b)
    BY <1>2, <2>1 DEF Pending, Bucket
  <2> QED BY <1>2, <2>1, <2>2 DEF LimitInv
<1> QED BY <1>1, <1>2 DEF Tick

LEMMA LimitStep == TypeOK /\ LimitInv /\ [Next]_vars => LimitInv'
<1> SUFFICES ASSUME TypeOK, LimitInv, [Next]_vars PROVE LimitInv'
  OBVIOUS
<1>1. CASE UNCHANGED vars
  BY <1>1 DEF vars, counters, LimitInv, Pending, Bucket
<1>2. ASSUME NEW c \in Callers, NEW op \in Operations, NEW form \in Forms(op), Ask(c, op, form)
      PROVE  LimitInv'
  <2>1. /\ request'[c].at = "arrived" /\ UNCHANGED <<caller, enabled, current, handled>>
        /\ \A d \in Callers \ {c} : request'[d] = request[d]
    BY <1>2 DEF Ask, TypeOK, Idle, counters
  <2>2. NobodyNew
    BY <2>1, CountersStay DEF NobodyNew
  <2> QED BY <2>2, NobodyAdmitted
<1>3. ASSUME NEW c \in Callers, RaiseEarly(c) \/ Reject(c) \/ LimiterBreaks(c) \/ Invalid(c)
      PROVE  LimitInv'
  <2>1. /\ \E e, broken, retryAfter : RaiseWith(c, e, broken, retryAfter)
        /\ UNCHANGED <<caller, enabled, handled>>
    BY <1>3 DEF RaiseEarly, Reject, LimiterBreaks, Invalid, Raise, Break, counters
  <2>2. request'[c].at = "raised" /\ \A d \in Callers \ {c} : request'[d] = request[d]
    BY <2>1 DEF RaiseWith, TypeOK, Idle
  <2>3. CountersGrow
    <3>1. CASE Reject(c) \/ LimiterBreaks(c)
      <4>1. PICK n \in Nat : Counts(c, n)
        BY <3>1, LimiterCounts
      <4>2. request[c].op \in Limited
        BY <3>1, LimiterCounts
      <4> QED BY <4>1, <4>2, CountersRaised
    <3>2. CASE RaiseEarly(c) \/ Invalid(c)
      BY <3>2, CountersStay DEF RaiseEarly, Invalid, counters
    <3> QED BY <1>3, <3>1, <3>2
  <2>4. NobodyNew
    BY <2>1, <2>2, <2>3 DEF NobodyNew
  <2> QED BY <2>4, NobodyAdmitted
<1>4. ASSUME NEW c \in Callers, PassUnlimited(c)
      PROVE  LimitInv'
  <2>1. /\ ~IsLimited(c) /\ request'[c] = [request[c] EXCEPT !.at = "admitted"]
        /\ \A d \in Callers \ {c} : request'[d] = request[d]
        /\ UNCHANGED <<caller, enabled, current, handled>>
    BY <1>4 DEF PassUnlimited, TypeOK, counters
  <2>2. request'[c].op = request[c].op
    BY <2>1 DEF TypeOK, Requests
  <2>3. NobodyNew
    BY <2>1, <2>2, CountersStay DEF NobodyNew
  <2> QED BY <2>3, NobodyAdmitted
<1>5. ASSUME NEW c \in Callers, Respond(c)
      PROVE  LimitInv'
  <2>1. /\ \E status, limits, retryAfter : AnswerWith(c, status, limits, retryAfter)
        /\ UNCHANGED <<caller, enabled, current, handled>>
    BY <1>5 DEF Respond, counters
  <2>2. request'[c].at = "answered" /\ \A d \in Callers \ {c} : request'[d] = request[d]
    BY <2>1 DEF AnswerWith, TypeOK, Idle
  <2>3. NobodyNew
    BY <2>1, <2>2, CountersStay DEF NobodyNew
  <2> QED BY <2>3, NobodyAdmitted
<1> QED BY <1>1, <1>2, <1>3, <1>4, <1>5, TickKeepsLimit, AdmitKeepsLimit, HandlersKeepLimit
        DEF Next, Serve, Limiter

\* Whoever calls through whatever proxies, and whatever fails: within a window no
\* address gets more than Limit of its requests of one route into a handler.
THEOREM HandlersAreLimited == Spec => []WorkIsLimited
<1>1. TypeOK /\ LimitInv => WorkIsLimited
  <2> SUFFICES ASSUME TypeOK, LimitInv, NEW b \in Buckets PROVE handled[b] <= Limit
    BY DEF WorkIsLimited
  <2>1. /\ handled[b] \in Nat /\ current[b] \in Nat /\ current[b] <= Limit
        /\ enabled => IsFiniteSet(Pending(b)) /\ handled[b] + Cardinality(Pending(b)) <= current[b]
        /\ ~enabled => handled[b] = 0
    BY WindowFacts DEF TypeOK, LimitInv
  <2>2. CASE enabled
    <3>1. Cardinality(Pending(b)) \in Nat
      BY <2>1, <2>2, FS_CardinalityType
    <3> QED BY <2>1, <2>2, <3>1, WindowFacts
  <2>3. CASE ~enabled
    BY <2>1, <2>3, WindowFacts
  <2> QED BY <2>2, <2>3
<1> QED BY <1>1, TypeInit, TypeStep, LimitInit, LimitStep, PTL DEF Spec
-----------------------------------------------------------------------------
\* An address that is reported rightly is the one the limiter sees.
LEMMA ReportedAddress ==
    ASSUME NEW p \in Profiles, Reported(p)
    PROVE  GetClientIp(p) = p.origin
<1>1. p.origin \in Addresses /\ p.origin # None
  BY NoneAssumption DEF Profiles
<1>2. CASE p.forwarded = <<p.origin>>
  <2>1. <<p.origin>> # <<None>> /\ <<p.origin>> # <<>> /\ Head(<<p.origin>>) = p.origin
    BY <1>1
  <2> QED BY <1>2, <2>1 DEF GetClientIp
<1>3. CASE /\ p.forwarded \in {<<>>, <<None>>}
           /\ \/ p.realIp = p.origin
              \/ p.realIp = None /\ p.host = p.origin
  BY <1>1, <1>3 DEF GetClientIp
<1> QED BY <1>2, <1>3 DEF Reported

\* The key under which a caller's requests of a route are counted.
Key(c, op) == <<caller[c].origin, op>>

\* What the counters of a caller that shares its address with nobody hold.
OwnInv == \A c \in Callers : Alone(c) => \A op \in Limited :
    /\ previous[Key(c, op)] = own[c][op].previous
    /\ current[Key(c, op)] = own[c][op].current

LEMMA AloneKeys ==
    ASSUME TypeOK, NEW c \in Callers, Alone(c)
    PROVE  /\ \A op \in Limited : Key(c, op) \in Buckets
           /\ Bucket(c) = Key(c, request[c].op)
           /\ \A d \in Callers \ {c} : \A op \in Limited : Bucket(d) # Key(c, op)
<1>1. ASSUME NEW d \in Callers PROVE caller[d] \in Profiles /\ GetClientIp(caller[d]) = caller[d].origin
  <2>1. caller[d] \in Profiles
    BY ClientsKnown DEF TypeOK
  <2>2. Reported(caller[d])
    BY DEF Alone
  <2> QED BY <2>1, <2>2, ReportedAddress
<1>2. caller[c].origin \in Addresses
  BY <1>1 DEF Profiles
<1>3. \A d \in Callers \ {c} : caller[d].origin # caller[c].origin
  BY DEF Alone
<1> QED BY <1>1, <1>2, <1>3 DEF Key, Bucket, Buckets, Limited

LEMMA OwnInit == Init => OwnInv
<1> SUFFICES ASSUME Init, NEW c \in Callers, Alone(c), NEW op \in Limited
             PROVE  /\ previous[Key(c, op)] = own[c][op].previous
                    /\ current[Key(c, op)] = own[c][op].current
  BY DEF OwnInv
<1>1. caller[c].origin \in Addresses
  BY ClientsKnown DEF Init, Profiles
<1>2. Key(c, op) \in Buckets /\ op \in Operations
  BY <1>1 DEF Key, Buckets, Limited, Operations
<1> QED BY <1>2 DEF Init

\* The callers stay who they are.
LEMMA StillAlone ==
    ASSUME caller' = caller, NEW c \in Callers, Alone(c)'
    PROVE  Alone(c) /\ \A op \in Limited : Key(c, op)' = Key(c, op)
BY DEF Alone, Reported, Key

LEMMA OwnKept ==
    ASSUME OwnInv, UNCHANGED <<caller, previous, current, own>>
    PROVE  OwnInv'
BY StillAlone DEF OwnInv

LEMMA TickKeepsOwn == ASSUME TypeOK, OwnInv, Tick PROVE OwnInv'
<1>1. CASE TurnWindow
  <2> SUFFICES ASSUME NEW c \in Callers, Alone(c)', NEW op \in Limited
               PROVE  /\ previous'[Key(c, op)'] = own'[c][op].previous
                      /\ current'[Key(c, op)'] = own'[c][op].current
    BY DEF OwnInv
  <2>1. Alone(c) /\ Key(c, op)' = Key(c, op)
    BY StillAlone DEF Tick
  <2>2. Key(c, op) \in Buckets /\ op \in Operations
    BY <2>1, AloneKeys DEF Limited, Operations
  <2>3. own'[c][op] = [previous |-> own[c][op].current, current |-> 0]
    BY <1>1, <2>2 DEF TurnWindow
  <2>4. previous'[Key(c, op)] = current[Key(c, op)] /\ current'[Key(c, op)] = 0
    BY <1>1, <2>2 DEF TurnWindow
  <2> QED BY <2>1, <2>3, <2>4 DEF OwnInv
<1>2. CASE UNCHANGED <<previous, current, own, handled, request>>
  BY <1>2, OwnKept DEF Tick
<1> QED BY <1>1, <1>2 DEF Tick

LEMMA CountingKeepsOwn ==
    ASSUME TypeOK, OwnInv, NEW d \in Callers, request[d].op \in Limited,
           NEW n \in Nat, Counts(d, n), UNCHANGED <<caller, previous>>
    PROVE  OwnInv'
<1>1. PICK b \in Buckets : b = Bucket(d)
  BY BucketsKnown
<1>2. PICK o \in Limited : o = request[d].op
  OBVIOUS
<1>3. /\ current'[b] = current[b] + n /\ \A a \in Buckets \ {b} : current'[a] = current[a]
      /\ own'[d][o].current = own[d][o].current + n
      /\ own'[d][o].previous = own[d][o].previous
      /\ \A op \in Operations \ {o} : own'[d][op] = own[d][op]
      /\ \A c \in Callers \ {d} : own'[c] = own[c]
  BY <1>1, <1>2, CountsEffect
<1> SUFFICES ASSUME NEW c \in Callers, Alone(c)', NEW op \in Limited
             PROVE  /\ previous'[Key(c, op)'] = own'[c][op].previous
                    /\ current'[Key(c, op)'] = own'[c][op].current
  BY DEF OwnInv
<1>4. Alone(c) /\ Key(c, op)' = Key(c, op)
  BY StillAlone
<1>5. /\ Key(c, op) \in Buckets /\ op \in Operations
      /\ previous[Key(c, op)] = own[c][op].previous
      /\ current[Key(c, op)] = own[c][op].current
  BY <1>4, AloneKeys DEF OwnInv, Limited, Operations
<1>6. PICK k \in Buckets : k = Key(c, op)
  BY <1>5
<1>7. CASE c = d /\ op = o
  <2>1. b = k
    BY <1>1, <1>2, <1>4, <1>6, <1>7, AloneKeys
  <2> QED BY <1>3, <1>4, <1>5, <1>6, <1>7, <2>1
<1>8. CASE ~(c = d /\ op = o)
  <2>1. b # k
    <3>1. CASE c = d
      BY <1>1, <1>2, <1>4, <1>6, <1>8, <3>1, AloneKeys DEF Key
    <3>2. CASE c # d
      BY <1>1, <1>4, <1>6, <3>2, AloneKeys
    <3> QED BY <3>1, <3>2
  <2>2. own'[c][op] = own[c][op]
    BY <1>3, <1>5, <1>8
  <2> QED BY <1>3, <1>4, <1>5, <1>6, <2>1, <2>2
<1> QED BY <1>7, <1>8

LEMMA OwnStep == TypeOK /\ OwnInv /\ [Next]_vars => OwnInv'
<1> SUFFICES ASSUME TypeOK, OwnInv, [Next]_vars PROVE OwnInv'
  OBVIOUS
<1>1. CASE UNCHANGED vars
  BY <1>1, OwnKept DEF vars, counters
<1>2. ASSUME NEW c \in Callers, NEW op \in Operations, NEW form \in Forms(op), Ask(c, op, form)
      PROVE  OwnInv'
  BY <1>2, OwnKept DEF Ask, counters
<1>3. ASSUME NEW c \in Callers,
             \/ RaiseEarly(c) \/ Invalid(c) \/ PassUnlimited(c)
             \/ Handle(c) \/ HandleMissing(c) \/ HandlerBreaks(c) \/ Respond(c)
      PROVE  OwnInv'
  <2>1. UNCHANGED <<caller, previous, current, own>>
    BY <1>3 DEF RaiseEarly, Invalid, PassUnlimited, Handle, HandleMissing, HandlerBreaks,
                Respond, counters
  <2> QED BY <2>1, OwnKept
<1>4. ASSUME NEW c \in Callers, Admit(c) \/ Reject(c) \/ LimiterBreaks(c)
      PROVE  OwnInv'
  <2>1. PICK n \in Nat : Counts(c, n)
    BY <1>4, LimiterCounts
  <2>2. request[c].op \in Limited /\ UNCHANGED <<caller, previous>>
    BY <1>4, LimiterCounts DEF Admit, Reject, LimiterBreaks
  <2> QED BY <2>1, <2>2, CountingKeepsOwn
<1> QED BY <1>1, <1>2, <1>3, <1>4, TickKeepsOwn DEF Next, Serve, Limiter

\* A caller that shares its address with nobody is refused only when its own requests of
\* that route, in this window and the last and each as often as the script counted it,
\* make up the limit, whatever the others do and through whatever proxy they come.
THEOREM OnlyOwnRequestsRefuse == Spec => RefusedForOwnRequests
<1>1. ASSUME TypeOK, OwnInv, NEW c \in Callers, Reject(c), Alone(c)
      PROVE  MayReject(own'[c][request[c].op].previous, own'[c][request[c].op].current, elapsed)
  <2>1. PICK lost \in 0 .. Retries :
           /\ Counts(c, lost)
           /\ MayReject(previous[Bucket(c)], current[Bucket(c)] + lost, elapsed)
    BY <1>1 DEF Reject
  <2>2. lost \in Nat /\ request[c].op \in Limited
    BY <1>1, RetriesAssumption DEF Reject, IsLimited
  <2>3. /\ own'[c][request[c].op].current = own[c][request[c].op].current + lost
        /\ own'[c][request[c].op].previous = own[c][request[c].op].previous
    BY <1>1, <2>1, <2>2, CountsEffect
  <2>4. /\ own[c][request[c].op].current = current[Bucket(c)]
        /\ own[c][request[c].op].previous = previous[Bucket(c)]
    BY <1>1, <2>2, AloneKeys DEF OwnInv
  <2> QED BY <2>1, <2>3, <2>4
<1>2. TypeOK /\ OwnInv => [\A c \in Callers : (Reject(c) /\ Alone(c)) =>
          LET mine == own'[c][request[c].op]
          IN  MayReject(mine.previous, mine.current, elapsed)]_vars
  BY <1>1
<1> QED BY <1>2, TypeInit, TypeStep, OwnInit, OwnStep, PTL DEF Spec, RefusedForOwnRequests
-----------------------------------------------------------------------------
(***************************************************************************)
(* What a step does to one caller: the steps of others leave it alone, the *)
(* clock marks at most its request as late, and its own leave one of a few *)
(* records behind.                                                         *)
(***************************************************************************)

LEMMA OthersLeaveAlone ==
    ASSUME TypeOK, NEW c \in Callers, NEW d \in Callers, c # d,
           \/ Serve(d)
           \/ \E op \in Operations : \E form \in Forms(op) : Ask(d, op, form)
    PROVE  /\ UNCHANGED <<caller, elapsed>>
           /\ request'[c] = request[c] /\ link'[c] = link[c] /\ wait'[c] = wait[c]
           /\ own'[c] = own[c] /\ refused'[c] = refused[c]
<1> DEFINE Alike == /\ UNCHANGED <<caller, elapsed>>
                    /\ request'[c] = request[c] /\ link'[c] = link[c] /\ wait'[c] = wait[c]
                    /\ own'[c] = own[c] /\ refused'[c] = refused[c]
<1> USE DEF TypeOK, counters
<1>1. ASSUME NEW e, NEW broken, NEW retryAfter, RaiseWith(d, e, broken, retryAfter)
      PROVE  request'[c] = request[c]
  BY <1>1 DEF RaiseWith
<1>2. ASSUME NEW status, NEW limits, NEW retryAfter, AnswerWith(d, status, limits, retryAfter)
      PROVE  request'[c] = request[c]
  BY <1>2 DEF AnswerWith
<1>3. ASSUME NEW op \in Operations, NEW form \in Forms(op), Ask(d, op, form)
      PROVE  Alike
  BY <1>3 DEF Ask
<1>4. CASE RaiseEarly(d) \/ Invalid(d)
  BY <1>1, <1>4 DEF RaiseEarly, Invalid, Raise
<1>5. CASE PassUnlimited(d)
  BY <1>5 DEF PassUnlimited
<1>6. CASE Admit(d) \/ Reject(d) \/ LimiterBreaks(d)
  <2>1. PICK n \in Nat : Counts(d, n)
    BY <1>6, LimiterCounts
  <2>2. own'[c] = own[c]
    BY <1>6, <2>1, LimiterCounts, CountsEffect
  <2>3. request'[c] = request[c] /\ UNCHANGED <<caller, elapsed, link, wait>>
    BY <1>1, <1>6 DEF Admit, Reject, LimiterBreaks, Break
  <2>4. refused'[c] = refused[c]
    BY <1>6 DEF Admit, Reject, LimiterBreaks
  <2> QED BY <2>2, <2>3, <2>4
<1>8. CASE Handle(d) \/ HandleMissing(d) \/ HandlerBreaks(d)
  <2>1. request'[c] = request[c]
    BY <1>1, <1>2, <1>8 DEF Handle, HandleMissing, HandlerBreaks, Answer, Raise, Break
  <2>2. link'[c] = link[c] /\ UNCHANGED <<caller, elapsed, wait, own, refused>>
    BY <1>8 DEF Handle, HandleMissing, HandlerBreaks
  <2> QED BY <2>1, <2>2
<1>9. CASE Respond(d)
  <2>1. request'[c] = request[c]
    BY <1>2, <1>9 DEF Respond
  <2>2. wait'[c] = wait[c] /\ UNCHANGED <<caller, elapsed, link, own, refused>>
    BY <1>9 DEF Respond
  <2> QED BY <2>1, <2>2
<1> QED BY <1>3, <1>4, <1>5, <1>6, <1>8, <1>9 DEF Serve, Limiter

\* Everything of a request but whether it is late and carries the limiter's headers.
SameRequest(r, s) ==
    /\ r.at = s.at /\ r.op = s.op /\ r.form = s.form /\ r.broken = s.broken
    /\ r.raised = s.raised /\ r.retryAfter = s.retryAfter /\ r.answer = s.answer

LEMMA TickKeepsRequests ==
    ASSUME TypeOK, Tick, NEW c \in Callers
    PROVE  SameRequest(request'[c], request[c])
<1>1. CASE TurnWindow
  <2>1. PICK late \in BOOLEAN : late = At(c, "admitted")
    BY DEF At
  <2>2. request[c] \in Requests /\ request'[c] = [request[c] EXCEPT !.late = late]
    BY <1>1, <2>1 DEF TurnWindow, TypeOK
  <2> QED BY <2>2 DEF SameRequest, Requests
<1>2. CASE request' = request
  BY <1>2 DEF SameRequest
<1> QED BY <1>1, <1>2 DEF Tick

LEMMA AskedRecord ==
    ASSUME TypeOK, NEW c \in Callers, NEW op \in Operations, NEW form \in Forms(op), Ask(c, op, form)
    PROVE  request'[c].at = "arrived" /\ request'[c].op = op /\ request'[c].form = form
BY DEF Ask, TypeOK, Idle

\* The limiter lets a request through.
LEMMA AdmittedRecord ==
    ASSUME TypeOK, NEW c \in Callers, PassUnlimited(c) \/ Admit(c)
    PROVE  /\ request[c].at = "arrived" /\ request'[c].at = "admitted"
           /\ request'[c].op = request[c].op /\ request'[c].form = request[c].form
<1>1. request[c].at = "arrived" /\ request[c] \in Requests
  BY DEF PassUnlimited, Admit, Routed, At, TypeOK
<1>2. \/ request'[c] = [request[c] EXCEPT !.at = "admitted"]
      \/ request'[c] = [request[c] EXCEPT !.at = "admitted", !.limits = TRUE]
  BY DEF PassUnlimited, Admit, TypeOK
<1> QED BY <1>1, <1>2 DEF Requests

\* The limiter's exception has a handler of its own.
LEMMA LimiterHasItsHandler == HandlerOf("RateLimitExceeded") = "RateLimitExceeded"
<1> DEFINE mro == <<"RateLimitExceeded", "BaseApplicationException", "Exception">>
           found == {i \in 1 .. Len(mro) : mro[i] \in Registered}
<1>1. Mro("RateLimitExceeded") = mro
  BY DEF Mro, ApplicationExceptions
<1>2. 1 \in found /\ \A i \in found : 1 <= i
  BY DEF Registered
<1>3. Min(found) = 1
  <2>1. \A i \in found : i \in Nat
    OBVIOUS
  <2> HIDE DEF found
  <2> QED BY <1>2, <2>1 DEF Min
<1>4. SelectInSeq(mro, LAMBDA class : class \in Registered) = 1
  BY <1>2, <1>3 DEF SelectInSeq
<1> QED BY <1>1, <1>4 DEF HandlerOf

-----------------------------------------------------------------------------
(***************************************************************************)
(* The users of the load test. They create, and a RedirectUser follows a   *)
(* link that nothing takes from it any more; what is raised at them        *)
(* without a store or a create breaking is the limiter's exception.        *)
(***************************************************************************)

LoadTested(c) == caller[c].kind \in {"CreateUser", "RedirectUser"}

LoadFine(c) ==
    /\ request[c].at # "idle" => \/ request[c].op = "create"
                                 \/ request[c].op = "redirect" /\ caller[c].kind = "RedirectUser"
    /\ request[c].at \in {"arrived", "admitted"} =>
           request[c].form = "valid" /\ (request[c].op = "redirect" => link[c] # "none")
    /\ request[c].at = "raised" /\ ~request[c].broken =>
           /\ request[c].op = "create" /\ request[c].raised = "RateLimitExceeded"
           /\ request[c].retryAfter > 0
    /\ request[c].at = "answered" /\ ~request[c].broken => LoadTestAccepts(c)

LoadInv == \A c \in Callers : LoadTested(c) => LoadFine(c)

LEMMA LoadKept ==
    ASSUME NEW c \in Callers, LoadFine(c), caller' = caller, link'[c] = link[c],
           SameRequest(request'[c], request[c])
    PROVE  LoadFine(c)'
BY DEF LoadFine, LoadTestAccepts, SameRequest

LEMMA LoadOwnStep ==
    ASSUME TypeOK, NEW c \in Callers, LoadTested(c), LoadFine(c),
           \/ Serve(c)
           \/ \E op \in Operations : \E form \in Forms(op) : Ask(c, op, form)
    PROVE  LoadFine(c)'
<1>1. ASSUME NEW op \in Operations, NEW form \in Forms(op), Ask(c, op, form)
      PROVE  LoadFine(c)'
  <2>1. /\ form = "valid"
        /\ \/ op = "create"
           \/ op = "redirect" /\ caller[c].kind = "RedirectUser" /\ link[c] # "none"
    BY <1>1 DEF Ask, MayAsk, LoadTested
  <2>2. caller' = caller /\ link' = link
    BY <1>1 DEF Ask
  <2> QED BY <1>1, <2>1, <2>2, AskedRecord DEF LoadFine
<1>2. CASE RaiseEarly(c) \/ Invalid(c)
  <2>1. FALSE
    BY <1>2 DEF RaiseEarly, Invalid, At, LoadFine
  <2> QED BY <2>1 DEF LoadFine
<1>3. CASE PassUnlimited(c) \/ Admit(c)
  <2>1. caller' = caller /\ link' = link
    BY <1>3 DEF PassUnlimited, Admit
  <2> QED BY <1>3, <2>1, AdmittedRecord DEF LoadFine
<1>4. CASE Reject(c)
  <2>1. /\ request[c].at = "arrived" /\ request[c].op \in Limited
        /\ RaiseWith(c, "RateLimitExceeded", FALSE, RetryAfter(elapsed)) /\ caller' = caller
    BY <1>4 DEF Reject, Routed, IsLimited, At
  <2>2. RetryAfter(elapsed) > 0
    BY WindowFacts DEF TypeOK
  <2>3. request[c].op = "create"
    BY <2>1 DEF Limited, LinkRoutes, StatsRoutes, LoadFine
  <2>4. /\ request'[c].at = "raised" /\ request'[c].op = request[c].op
        /\ request'[c].raised = "RateLimitExceeded"
        /\ request'[c].retryAfter = RetryAfter(elapsed)
    BY <2>1 DEF RaiseWith, TypeOK, Idle
  <2> QED BY <2>1, <2>2, <2>3, <2>4 DEF LoadFine
<1>5. CASE LimiterBreaks(c)
  <2>1. /\ request[c].at = "arrived" /\ RaiseWith(c, "Exception", TRUE, 0) /\ caller' = caller
    BY <1>5 DEF LimiterBreaks, Break, Routed, At
  <2>2. request'[c].at = "raised" /\ request'[c].op = request[c].op /\ request'[c].broken = TRUE
    BY <2>1 DEF RaiseWith, TypeOK, Idle
  <2> QED BY <2>1, <2>2 DEF LoadFine
<1>6. CASE Handle(c)
  <2>1. /\ request[c].at = "admitted" /\ caller' = caller
        /\ AnswerWith(c, StatusAfter(request[c].op), request[c].limits, 0)
    BY <1>6 DEF Handle, Answer, At
  <2>2. /\ request'[c].at = "answered" /\ request'[c].op = request[c].op
        /\ request'[c].answer.status = StatusAfter(request[c].op)
    <3>1. request[c].limits \in BOOLEAN /\ StatusAfter(request[c].op) \in Nat
      BY StatusTypes DEF TypeOK, Requests
    <3> QED BY <2>1 DEF AnswerWith, TypeOK, Idle
  <2>3. LoadTestAccepts(c)'
    <3>1. \/ request[c].op = "create" /\ request'[c].answer.status = 201
          \/ /\ request[c].op = "redirect" /\ caller[c].kind = "RedirectUser"
             /\ request'[c].answer.status = 302
      BY <2>1, <2>2 DEF StatusAfter, LoadFine
    <3>2. request'[c].op = request[c].op /\ caller'[c].kind = caller[c].kind
      BY <2>1, <2>2
    <3>3. CASE request[c].op = "redirect"
      <4>1. request'[c].op = "redirect" /\ request'[c].answer.status = 302
        BY <3>1, <3>2, <3>3
      <4> QED BY <4>1 DEF LoadTestAccepts
    <3>4. CASE request[c].op = "create"
      <4>1. request'[c].op # "redirect" /\ request'[c].answer.status = 201
        BY <3>1, <3>2, <3>4
      <4> QED BY <4>1 DEF LoadTestAccepts
    <3> QED BY <3>1, <3>3, <3>4
  <2> QED BY <2>1, <2>2, <2>3 DEF LoadFine
<1>7. CASE HandleMissing(c)
  <2>1. Finds(c)
    BY <1>7 DEF LoadFine, LoadTested, HandleMissing, At, Finds
  <2> QED BY <1>7, <2>1 DEF LoadFine, HandleMissing
<1>8. CASE HandlerBreaks(c)
  <2>1. /\ request[c].at = "admitted" /\ caller' = caller
        /\ RaiseWith(c, "ServiceUnavailable", TRUE, 0) \/ RaiseWith(c, "Exception", TRUE, 0)
    BY <1>8 DEF HandlerBreaks, Break, At
  <2>2. request'[c].at = "raised" /\ request'[c].op = request[c].op /\ request'[c].broken = TRUE
    <3>1. CASE RaiseWith(c, "ServiceUnavailable", TRUE, 0)
      BY <3>1 DEF RaiseWith, TypeOK, Idle
    <3>2. CASE RaiseWith(c, "Exception", TRUE, 0)
      BY <3>2 DEF RaiseWith, TypeOK, Idle
    <3> QED BY <2>1, <3>1, <3>2
  <2> QED BY <2>1, <2>2 DEF LoadFine
<1>9. CASE Respond(c)
  <2>1. request[c].at = "raised" /\ caller' = caller
    BY <1>9 DEF Respond, At
  <2>2. CASE request[c].broken
    <3>1. \E status, retryAfter \in Nat, limits \in BOOLEAN :
             AnswerWith(c, status, limits, retryAfter)
      <4>1. request[c].retryAfter \in Nat
        BY WindowFacts DEF TypeOK, Requests
      <4> QED BY <1>9, <4>1, StatusTypes DEF Respond
    <3>2. request'[c].at = "answered" /\ request'[c].op = request[c].op
          /\ request'[c].broken = request[c].broken
      BY <3>1 DEF AnswerWith, TypeOK, Idle
    <3> QED BY <2>1, <2>2, <3>2 DEF LoadFine
  <2>3. CASE ~request[c].broken
    <3>1. /\ request[c].op = "create" /\ request[c].raised = "RateLimitExceeded"
          /\ request[c].retryAfter > 0 /\ request[c].retryAfter \in Nat
      BY <2>1, <2>3, WindowFacts DEF TypeOK, Requests, LoadFine
    <3>2. AnswerWith(c, 429, TRUE, request[c].retryAfter)
      BY <1>9, <3>1, LimiterHasItsHandler DEF Respond, StatusCode
    <3>3. /\ request'[c].at = "answered" /\ request'[c].op = "create"
          /\ request'[c].answer.status = 429 /\ request'[c].answer.limits = TRUE
          /\ request'[c].answer.retryAfter > 0
      <4>1. /\ request'[c].at = "answered" /\ request'[c].op = request[c].op
            /\ request'[c].answer =
                   [status |-> 429, limits |-> TRUE, retryAfter |-> request[c].retryAfter]
        BY <3>2 DEF AnswerWith, TypeOK, Idle
      <4> QED BY <3>1, <4>1
    <3>4. LoadTestAccepts(c)'
      BY <3>3 DEF LoadTestAccepts
    <3> QED BY <2>1, <3>3, <3>4 DEF LoadFine
  <2> QED BY <2>2, <2>3 DEF LoadFine
<1> QED BY <1>1, <1>2, <1>3, <1>4, <1>5, <1>6, <1>7, <1>8, <1>9 DEF Serve, Limiter

LEMMA LoadStep == TypeOK /\ LoadInv /\ [Next]_vars => LoadInv'
<1> SUFFICES ASSUME TypeOK, LoadInv, [Next]_vars, NEW c \in Callers, LoadTested(c)'
             PROVE  LoadFine(c)'
  BY DEF LoadInv
<1>1. caller' = caller
  <2>1. \A d \in Callers : Serve(d) => caller' = caller
    BY DEF Serve, Limiter, RaiseEarly, PassUnlimited, Admit, Reject, LimiterBreaks, Invalid,
           Handle, HandleMissing, HandlerBreaks, Respond
  <2> QED BY <2>1 DEF Next, Tick, Ask, vars
<1>2. LoadTested(c) /\ LoadFine(c)
  BY <1>1 DEF LoadTested, LoadInv
<1>3. CASE UNCHANGED vars
  BY <1>2, <1>3, LoadKept DEF vars, SameRequest
<1>4. CASE Tick
  <2>1. link' = link
    BY <1>4 DEF Tick
  <2> QED BY <1>1, <1>2, <1>4, <2>1, TickKeepsRequests, LoadKept
<1>5. ASSUME NEW d \in Callers, d # c,
             \/ Serve(d)
             \/ \E op \in Operations : \E form \in Forms(op) : Ask(d, op, form)
      PROVE  LoadFine(c)'
  <2>1. caller' = caller /\ link'[c] = link[c] /\ request'[c] = request[c]
    BY <1>5, OthersLeaveAlone
  <2> QED BY <1>2, <2>1, LoadKept DEF SameRequest
<1> QED BY <1>2, <1>3, <1>4, <1>5, LoadOwnStep DEF Next

\* The load test's users count no failure unless a store failed or every attempt of a
\* create collided, whoever calls beside them: 429 comes with Retry-After and the limits.
THEOREM LoadTestNeverFails == Spec => []LoadTestPasses
<1>1. Init => LoadInv
  BY DEF Init, Idle, LoadInv, LoadFine
<1>2. LoadInv => LoadTestPasses
  BY DEF LoadInv, LoadFine, LoadTested, LoadTestPasses, At
<1> QED BY <1>1, <1>2, TypeInit, TypeStep, LoadStep, PTL DEF Spec

-----------------------------------------------------------------------------
(***************************************************************************)
(* Three refusals in a row. A refused caller that obeys Retry-After asks   *)
(* again in another window, where nothing of it is counted yet: then only  *)
(* the window before weighs, and after the next turn not even that.        *)
(***************************************************************************)

\* The caller is to ask for nothing before the window turns: it waits, or is about to.
WaitsForTheTurn(c) ==
    \/ wait[c] >= Window - elapsed
    \/ /\ request[c].at = "raised" /\ request[c].raised = "RateLimitExceeded"
       /\ request[c].retryAfter >= Window - elapsed

\* A request in progress was asked for when there was nothing to wait for.
AsksWhenFree(c) == request[c].at \in {"arrived", "admitted", "raised"} => wait[c] = 0

RefusedFine(c, op) ==
    /\ op \notin Limited => refused[c][op] = 0
    /\ refused[c][op] <= 2
    /\ refused[c][op] = 1 => own[c][op].current = 0 \/ WaitsForTheTurn(c)
    /\ refused[c][op] = 2 => /\ own[c][op].current = 0
                             /\ own[c][op].previous = 0 \/ WaitsForTheTurn(c)

RefusedInv == \A c \in Callers :
    /\ AsksWhenFree(c)
    /\ caller[c].obeys /\ Alone(c) => \A op \in Operations : RefusedFine(c, op)

\* Nobody is refused when neither window has a request.
LEMMA EmptyWindowsAdmit == \A now \in 0 .. Window - 1 : ~MayReject(0, 0, now)
<1> SUFFICES ASSUME NEW now \in 0 .. Window - 1 PROVE ~MayReject(0, 0, now)
  OBVIOUS
<1>1. ScaledEstimate(0, 0, now) = 0
  BY WindowFacts DEF ScaledEstimate
<1>2. Limit * Window > 0 /\ Limit * Window \in Nat
  BY WindowFacts, ProductPositive
<1>3. PICK total \in Nat : total = Limit * Window
  BY <1>2
<1>4. total > 0
  BY <1>2, <1>3
<1>5. ~(0 >= total)
  BY <1>4
<1> QED BY <1>1, <1>3, <1>5 DEF MayReject

LEMMA TickRefused ==
    ASSUME TypeOK, RefusedInv, Tick, NEW c \in Callers
    PROVE  /\ AsksWhenFree(c)'
           /\ (caller[c].obeys /\ Alone(c) => \A op \in Operations : RefusedFine(c, op))'
<1>1. SameRequest(request'[c], request[c])
  BY TickKeepsRequests
<1>2. /\ wait[c] \in 0 .. Window /\ wait'[c] = AtLeastZero(wait[c] - 1)
      /\ elapsed \in 0 .. Window - 1 /\ UNCHANGED <<caller, refused>>
      /\ request[c].retryAfter \in 0 .. Window
  BY DEF Tick, TypeOK, Requests
<1>3. AsksWhenFree(c)'
  BY <1>1, <1>2, WindowFacts DEF AsksWhenFree, RefusedInv, AtLeastZero, SameRequest
<1>4. ASSUME caller[c].obeys, Alone(c)', NEW op \in Operations
      PROVE  RefusedFine(c, op)'
  <2>1. RefusedFine(c, op)
    BY <1>2, <1>4, StillAlone DEF RefusedInv
  <2>2. CASE TurnWindow
    <3>1. own'[c][op] = [previous |-> own[c][op].current, current |-> 0]
      BY <2>2 DEF TurnWindow
    <3> QED BY <1>2, <2>1, <3>1 DEF RefusedFine
  <2>3. CASE elapsed' # 0 /\ own' = own
    <3>1. elapsed' = elapsed + 1
      <4>1. elapsed' = (elapsed + 1) % Window
        BY DEF Tick
      <4>2. CASE elapsed + 1 = Window
        <5>1. Window % Window = 0
          BY WindowFacts
        <5> QED BY <2>3, <4>1, <4>2, <5>1
      <4>3. CASE elapsed + 1 < Window
        <5>1. (elapsed + 1) % Window = elapsed + 1
          BY <1>2, <4>3, WindowFacts
        <5> QED BY <4>1, <5>1
      <4> QED BY <1>2, <4>2, <4>3, WindowFacts
    <3>2. WaitsForTheTurn(c) => WaitsForTheTurn(c)'
      <4>1. CASE wait[c] >= Window - elapsed
        BY <1>2, <3>1, <4>1, WindowFacts DEF WaitsForTheTurn, AtLeastZero
      <4>2. CASE /\ request[c].at = "raised" /\ request[c].raised = "RateLimitExceeded"
                 /\ request[c].retryAfter >= Window - elapsed
        <5>1. /\ request'[c].at = "raised" /\ request'[c].raised = "RateLimitExceeded"
              /\ request'[c].retryAfter = request[c].retryAfter
          BY <1>1, <4>2 DEF SameRequest
        <5>2. request[c].retryAfter >= Window - (elapsed + 1)
          BY <1>2, <4>2, WindowFacts
        <5> QED BY <3>1, <5>1, <5>2 DEF WaitsForTheTurn
      <4> QED BY <4>1, <4>2 DEF WaitsForTheTurn
    <3> QED BY <1>2, <2>1, <2>3, <3>2 DEF RefusedFine
  <2> QED BY <2>2, <2>3 DEF Tick
<1> QED BY <1>2, <1>3, <1>4

\* A caller whose request, wait and counters a step leaves alone.
LEMMA RefusedKept ==
    ASSUME RefusedInv, NEW c \in Callers, UNCHANGED <<caller, elapsed>>,
           request'[c] = request[c], wait'[c] = wait[c], own'[c] = own[c],
           refused'[c] = refused[c]
    PROVE  /\ AsksWhenFree(c)'
           /\ (caller[c].obeys /\ Alone(c) => \A op \in Operations : RefusedFine(c, op))'
<1>1. AsksWhenFree(c)'
  BY DEF RefusedInv, AsksWhenFree
<1>2. WaitsForTheTurn(c)' = WaitsForTheTurn(c)
  BY DEF WaitsForTheTurn
<1>3. Alone(c)' => Alone(c)
  BY StillAlone
<1> QED BY <1>1, <1>2, <1>3 DEF RefusedInv, RefusedFine

\* The wait of a caller with a request in progress is no reason to wait.
LEMMA FreeDoesNotWait ==
    ASSUME TypeOK, NEW c \in Callers, wait[c] = 0, request[c].at # "raised"
    PROVE  ~WaitsForTheTurn(c)
BY WindowFacts DEF TypeOK, WaitsForTheTurn

\* The script counts the request, or leaves everything as it was, for a caller that does
\* not wait.
LEMMA CountedRefused ==
    ASSUME TypeOK, RefusedInv, NEW c \in Callers, request[c].op \in Limited,
           NEW n \in Nat, Counts(c, n), ~WaitsForTheTurn(c), Alone(c), caller[c].obeys,
           \/ refused' = [refused EXCEPT ![c][request[c].op] = 0]
           \/ n = 0 /\ refused' = refused,
           NEW op \in Operations
    PROVE  RefusedFine(c, op)'
<1>1. PICK o \in Limited : o = request[c].op
  OBVIOUS
<1>2. /\ refused \in [Callers -> [Operations -> 0 .. 3]] /\ o \in Operations
      /\ own[c][o].current \in Nat
  BY DEF TypeOK, Limited, Operations
<1>3. RefusedFine(c, op)
  BY DEF RefusedInv
<1>4. CASE op = o /\ refused' = [refused EXCEPT ![c][o] = 0]
  <2>1. refused'[c][op] = 0
    BY <1>2, <1>4
  <2> QED BY <2>1 DEF RefusedFine
<1>5. CASE op # o /\ refused' = [refused EXCEPT ![c][o] = 0]
  <2>1. refused'[c][op] = refused[c][op]
    BY <1>2, <1>5
  <2>2. own'[c][op] = own[c][op]
    BY <1>1, <1>5, CountsEffect
  <2> QED BY <1>3, <2>1, <2>2 DEF RefusedFine
<1>6. CASE n = 0 /\ refused' = refused
  <2>1. own'[c][op].current = own[c][op].current /\ own'[c][op].previous = own[c][op].previous
    <3>1. CASE op = o
      BY <1>1, <1>2, <1>6, <3>1, CountsEffect
    <3>2. CASE op # o
      BY <1>1, <3>2, CountsEffect
    <3> QED BY <3>1, <3>2
  <2> QED BY <1>3, <1>6, <2>1 DEF RefusedFine
<1> QED BY <1>1, <1>4, <1>5, <1>6

LEMMA AdmitRefused ==
    ASSUME TypeOK, RefusedInv, NEW c \in Callers, Admit(c), Alone(c), caller[c].obeys,
           NEW op \in Operations
    PROVE  RefusedFine(c, op)'
<1>1. PICK lost \in 0 .. Retries : Counts(c, lost + 1)
  BY Zenon DEF Admit
<1>2. lost + 1 \in Nat /\ request[c].op \in Limited
  BY RetriesAssumption DEF Admit, IsLimited
<1>3. refused' = [refused EXCEPT ![c][request[c].op] = 0]
  BY DEF Admit
<1>4. ~WaitsForTheTurn(c)
  BY FreeDoesNotWait DEF RefusedInv, AsksWhenFree, Admit, Routed, At
<1> QED BY <1>1, <1>2, <1>3, <1>4, CountedRefused

LEMMA BreakRefused ==
    ASSUME TypeOK, RefusedInv, NEW c \in Callers, LimiterBreaks(c), Alone(c), caller[c].obeys,
           NEW op \in Operations
    PROVE  RefusedFine(c, op)'
<1>1. PICK lost \in 0 .. Retries + 1 :
         /\ Counts(c, lost)
         /\ refused' = IF lost > 0 THEN [refused EXCEPT ![c][request[c].op] = 0] ELSE refused
  BY DEF LimiterBreaks
<1>2. lost \in Nat /\ request[c].op \in Limited
  BY RetriesAssumption DEF LimiterBreaks, IsLimited
<1>3. \/ refused' = [refused EXCEPT ![c][request[c].op] = 0]
      \/ lost = 0 /\ refused' = refused
  BY <1>1, <1>2
<1>4. ~WaitsForTheTurn(c)
  BY FreeDoesNotWait DEF RefusedInv, AsksWhenFree, LimiterBreaks, Routed, At
<1> QED BY <1>1, <1>2, <1>3, <1>4, CountedRefused

LEMMA RejectRefused ==
    ASSUME TypeOK, OwnInv, RefusedInv, NEW c \in Callers, Reject(c), Alone(c), caller[c].obeys,
           NEW op \in Operations
    PROVE  RefusedFine(c, op)'
<1>1. PICK o \in Operations : o = request[c].op
  BY DEF TypeOK, Requests
<1>2. PICK lost \in 0 .. Retries :
         /\ Counts(c, lost)
         /\ MayReject(previous[Bucket(c)], current[Bucket(c)] + lost, elapsed)
         /\ refused' = [refused EXCEPT ![c][o] = IF lost > 0 THEN 1 ELSE IF @ < 3 THEN @ + 1 ELSE @]
  BY <1>1 DEF Reject
<1>3. /\ o \in Limited /\ request[c].at = "arrived" /\ lost \in Nat
      /\ RaiseWith(c, "RateLimitExceeded", FALSE, RetryAfter(elapsed))
      /\ elapsed' = elapsed
  <2>1. lost \in Nat
    BY RetriesAssumption
  <2> QED BY <1>1, <2>1, Zenon DEF Reject, Routed, IsLimited, At
<1>4. WaitsForTheTurn(c)'
  <2>1. /\ request'[c].at = "raised" /\ request'[c].raised = "RateLimitExceeded"
        /\ request'[c].retryAfter = RetryAfter(elapsed)
    BY <1>3 DEF RaiseWith, TypeOK, Idle
  <2>2. RetryAfter(elapsed) >= Window - elapsed
    BY WindowFacts DEF RetryAfter, AtLeastOne, TypeOK
  <2> QED BY <1>3, <2>1, <2>2 DEF WaitsForTheTurn
<1>5. ~WaitsForTheTurn(c)
  BY <1>3, FreeDoesNotWait DEF RefusedInv, AsksWhenFree
<1>6. RefusedFine(c, op)
  BY DEF RefusedInv
<1>7. /\ refused \in [Callers -> [Operations -> 0 .. 3]]
      /\ current[Bucket(c)] \in Nat /\ own[c][o].current \in Nat
  BY <1>1, <1>3, BucketsKnown DEF TypeOK
<1>8. CASE op = o /\ lost > 0
  <2>1. refused'[c][op] = 1
    BY <1>2, <1>7, <1>8
  <2> QED BY <1>3, <1>4, <1>8, <2>1 DEF RefusedFine
<1>9. CASE op = o /\ lost = 0
  <2>1. refused'[c][op] = IF refused[c][op] < 3 THEN refused[c][op] + 1 ELSE refused[c][op]
    BY <1>2, <1>7, <1>9
  <2>2. refused[c][op] # 2
    <3> SUFFICES ASSUME refused[c][op] = 2 PROVE FALSE
      OBVIOUS
    <3>1. own[c][op].current = 0 /\ own[c][op].previous = 0
      BY <1>5, <1>6 DEF RefusedFine
    <3>2. previous[Bucket(c)] = 0 /\ current[Bucket(c)] + lost = 0
      BY <1>1, <1>3, <1>9, <3>1, AloneKeys DEF OwnInv
    <3> QED BY <1>2, <3>2, EmptyWindowsAdmit DEF TypeOK
  <2>3. refused[c][op] \in {0, 1} /\ (refused[c][op] = 1 => own[c][op].current = 0)
    BY <1>5, <1>6, <1>7, <2>2 DEF RefusedFine
  <2>4. own'[c][op].current = own[c][op].current
    BY <1>1, <1>2, <1>3, <1>7, <1>9, CountsEffect
  <2> QED BY <1>3, <1>4, <1>9, <2>1, <2>3, <2>4 DEF RefusedFine
<1>10. CASE op # o
  <2>1. refused'[c][op] = refused[c][op]
    BY <1>2, <1>7, <1>10
  <2>2. own'[c][op] = own[c][op]
    BY <1>1, <1>2, <1>3, <1>10, CountsEffect
  <2> QED BY <1>4, <1>6, <2>1, <2>2 DEF RefusedFine
<1> QED BY <1>3, <1>8, <1>9, <1>10

LEMMA OwnRefused ==
    ASSUME TypeOK, OwnInv, RefusedInv, NEW c \in Callers,
           \/ Serve(c)
           \/ \E op \in Operations : \E form \in Forms(op) : Ask(c, op, form)
    PROVE  /\ AsksWhenFree(c)'
           /\ (caller[c].obeys /\ Alone(c) => \A op \in Operations : RefusedFine(c, op))'
<1>1. caller' = caller /\ elapsed' = elapsed
  BY DEF Serve, Limiter, RaiseEarly, PassUnlimited, Admit, Reject, LimiterBreaks, Invalid,
         Handle, HandleMissing, HandlerBreaks, Respond, Ask
<1>2. Alone(c)' => Alone(c)
  BY <1>1, StillAlone
\* A step that counts nothing and after which it waits for the turn if it did before.
<1>3. ASSUME UNCHANGED <<own, refused>>, AsksWhenFree(c)', WaitsForTheTurn(c) => WaitsForTheTurn(c)'
      PROVE  (caller[c].obeys /\ Alone(c) => \A op \in Operations : RefusedFine(c, op))'
  BY <1>1, <1>2, <1>3 DEF RefusedInv, RefusedFine
<1>4. ASSUME NEW op \in Operations, NEW form \in Forms(op), Ask(c, op, form)
      PROVE  AsksWhenFree(c)' /\ (WaitsForTheTurn(c) => WaitsForTheTurn(c)') /\ UNCHANGED <<own, refused>>
  <2>1. /\ wait[c] = 0 /\ request[c].at # "raised" /\ UNCHANGED <<wait, own, refused>>
    BY <1>4 DEF Ask, MayAsk, At, counters
  <2> QED BY <2>1, FreeDoesNotWait DEF AsksWhenFree
<1>5. CASE RaiseEarly(c) \/ PassUnlimited(c) \/ Invalid(c)
  <2>1. /\ request[c].at \in {"arrived", "admitted"} /\ UNCHANGED <<wait, own, refused>>
    BY <1>5 DEF RaiseEarly, PassUnlimited, Invalid, Routed, At, counters
  <2>2. wait[c] = 0 /\ ~WaitsForTheTurn(c)
    BY <2>1, FreeDoesNotWait DEF RefusedInv, AsksWhenFree
  <2>3. AsksWhenFree(c)'
    BY <2>1, <2>2 DEF AsksWhenFree
  <2> QED BY <1>3, <2>1, <2>2, <2>3
<1>6. CASE Handle(c) \/ HandleMissing(c) \/ HandlerBreaks(c)
  <2>1. /\ request[c].at = "admitted" /\ UNCHANGED <<wait, own, refused>>
    BY <1>6 DEF Handle, HandleMissing, HandlerBreaks, At
  <2>2. wait[c] = 0 /\ ~WaitsForTheTurn(c)
    BY <2>1, FreeDoesNotWait DEF RefusedInv, AsksWhenFree
  <2>3. AsksWhenFree(c)'
    BY <2>1, <2>2 DEF AsksWhenFree
  <2> QED BY <1>3, <2>1, <2>2, <2>3
<1>7. CASE Admit(c) \/ Reject(c) \/ LimiterBreaks(c)
  <2>1. wait[c] = 0 /\ wait' = wait
    BY <1>7 DEF Admit, Reject, LimiterBreaks, Routed, At, RefusedInv, AsksWhenFree
  <2>2. AsksWhenFree(c)'
    BY <2>1 DEF AsksWhenFree
  <2> QED BY <1>1, <1>2, <1>7, <2>2, AdmitRefused, RejectRefused, BreakRefused
<1>8. CASE Respond(c)
  <2>1. request[c].at = "raised" /\ UNCHANGED <<own, refused>>
    BY <1>8 DEF Respond, At, counters
  <2>2. AsksWhenFree(c)'
    <3>1. \E status, retryAfter \in Nat, limits \in BOOLEAN :
             AnswerWith(c, status, limits, retryAfter)
      <4>1. request[c].retryAfter \in Nat
        BY WindowFacts DEF TypeOK, Requests
      <4> QED BY <1>8, <4>1, StatusTypes DEF Respond
    <3>2. request'[c].at = "answered"
      BY <3>1 DEF AnswerWith, TypeOK, Idle
    <3> QED BY <3>2 DEF AsksWhenFree
  <2>3. CASE caller[c].obeys /\ WaitsForTheTurn(c)
    <3>1. wait[c] = 0
      BY <2>1 DEF RefusedInv, AsksWhenFree
    <3>2. /\ request[c].raised = "RateLimitExceeded"
          /\ request[c].retryAfter >= Window - elapsed
      BY <2>3, <3>1, WindowFacts DEF WaitsForTheTurn, TypeOK
    <3>3. wait' = [wait EXCEPT ![c] = request[c].retryAfter]
      BY <1>8, <2>3, <3>2, LimiterHasItsHandler DEF Respond
    <3>4. WaitsForTheTurn(c)'
      BY <1>1, <3>2, <3>3 DEF WaitsForTheTurn, TypeOK
    <3> QED BY <1>3, <2>1, <2>2, <3>4
  <2>4. CASE ~WaitsForTheTurn(c)
    BY <1>3, <2>1, <2>2, <2>4
  <2> QED BY <1>1, <2>2, <2>3, <2>4
<1> QED BY <1>3, <1>4, <1>5, <1>6, <1>7, <1>8 DEF Serve, Limiter

LEMMA RefusedStep == TypeOK /\ OwnInv /\ RefusedInv /\ [Next]_vars => RefusedInv'
<1> SUFFICES ASSUME TypeOK, OwnInv, RefusedInv, [Next]_vars, NEW c \in Callers
             PROVE  /\ AsksWhenFree(c)'
                    /\ (caller[c].obeys /\ Alone(c) => \A op \in Operations : RefusedFine(c, op))'
  BY DEF RefusedInv
<1>1. CASE UNCHANGED vars
  BY <1>1, RefusedKept DEF vars, counters
<1>2. CASE Tick
  BY <1>2, TickRefused
<1>3. ASSUME NEW d \in Callers, d # c,
             \/ Serve(d)
             \/ \E op \in Operations : \E form \in Forms(op) : Ask(d, op, form)
      PROVE  /\ AsksWhenFree(c)'
             /\ (caller[c].obeys /\ Alone(c) => \A op \in Operations : RefusedFine(c, op))'
  BY <1>3, OthersLeaveAlone, RefusedKept
<1> QED BY <1>1, <1>2, <1>3, OwnRefused DEF Next

LEMMA RefusedInit == Init => RefusedInv
BY DEF Init, Idle, RefusedInv, AsksWhenFree, RefusedFine

\* A caller that waits out Retry-After, alone under its address, is never refused three
\* times without the script counting a request of it in between, whatever the limit, the
\* window, the other callers and the replies that are lost.
THEOREM ObedientCallersAreServed == Spec => []ServedByThirdAttempt
<1>1. RefusedInv => ServedByThirdAttempt
  BY DEF RefusedInv, RefusedFine, ServedByThirdAttempt
<1> QED BY <1>1, TypeInit, TypeStep, OwnInit, OwnStep, RefusedInit, RefusedStep, PTL DEF Spec
=============================================================================
