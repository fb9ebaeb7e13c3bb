----------------------------- MODULE RateLimiter -----------------------------
(***************************************************************************)
(* The sliding-window rate limiter (src/src/di/rate_limiter.py) for one    *)
(* client and one route. A request reads the clock in the API process and  *)
(* derives the keys of its window and of the one before it; the Lua script *)
(* then runs atomically in Redis, perhaps later and after the scripts of   *)
(* requests that read the clock after it. Time is counted in seconds.      *)
(***************************************************************************)
EXTENDS SlidingWindow

CONSTANTS
    Requests,       \* the requests that may be in the air at once
    MaxDelay,       \* bound: seconds from reading the clock to the script
    MaxTime         \* bound: the last second

ASSUME TimeAssumption == MaxTime \in Nat /\ MaxDelay \in Nat

VARIABLES
    clock,          \* the present second
    sampled,        \* per request: the "now" it has read, or Idle
    count,          \* Redis: the counter of the window that starts at each second
    expires,        \* Redis: when that counter expires
    reply,          \* what the script answered last, and to which request
    admitted,       \* history: requests let through that asked up to each second
    prompt          \* history: those of them let through in the window they asked in

vars == <<clock, sampled, count, expires, reply, admitted, prompt>>

Times == 0 .. MaxTime
Idle == -1

WindowStart(now) == now - (now % Window)

\* GET key or 0: a key that was never written or has expired reads as nil.
Get(start) == IF start \in Times /\ clock < expires[start] THEN count[start] ELSE 0

Init == /\ clock = 0
        /\ sampled = [r \in Requests |-> Idle]
        /\ count = [t \in Times |-> 0]
        /\ expires = [t \in Times |-> 0]
        /\ reply = [allowed |-> FALSE, remaining |-> 0, now |-> 0]
        /\ admitted = [t \in Times |-> 0]
        /\ prompt = [t \in Times |-> 0]

-----------------------------------------------------------------------------
\* No script runs later than MaxDelay seconds after its request read the clock.
Tick == /\ clock < MaxTime
        /\ \A r \in Requests : sampled[r] # Idle => clock < sampled[r] + MaxDelay
        /\ clock' = clock + 1
        /\ UNCHANGED <<sampled, count, expires, reply, admitted, prompt>>

\* now = int(time.time()), and the two keys with it.
ReadClock(r) == /\ sampled[r] = Idle
                /\ sampled' = [sampled EXCEPT ![r] = clock]
                /\ UNCHANGED <<clock, count, expires, reply, admitted, prompt>>

Prev(now) == Get(WindowStart(now) - Window)
Current(now) == Get(WindowStart(now))
Elapsed(now) == now - WindowStart(now)

\* MUTANT: the counter lives for one window only.
Incr_ShortExpiry(start) ==
    IF Get(start) = 0
    THEN /\ count' = [count EXCEPT ![start] = 1]
         /\ expires' = [expires EXCEPT ![start] = clock + Window]
    ELSE /\ count' = [count EXCEPT ![start] = @ + 1]
         /\ UNCHANGED expires

\* INCR, and EXPIRE when the counter is new.
Incr(start) ==
    IF Get(start) = 0
    THEN /\ count' = [count EXCEPT ![start] = 1]
         /\ expires' = [expires EXCEPT ![start] = clock + 2 * Window]
    ELSE /\ count' = [count EXCEPT ![start] = @ + 1]
         /\ UNCHANGED expires

\* History: one request more that asked at now.
OneMoreAt(history, now) ==
    [t \in Times |-> IF now <= t THEN history[t] + 1 ELSE history[t]]

Admit(r) == LET now == sampled[r]
            IN  /\ now # Idle
                /\ MayAdmit(Prev(now), Current(now), Elapsed(now))
                /\ Incr(WindowStart(now))
                /\ \E left \in Remaining(Prev(now), Current(now), Elapsed(now)) :
                       reply' = [allowed |-> TRUE, remaining |-> left, now |-> now]
                /\ admitted' = OneMoreAt(admitted, now)
                /\ prompt' = IF WindowStart(clock) = WindowStart(now)
                             THEN OneMoreAt(prompt, now)
                             ELSE prompt
                /\ sampled' = [sampled EXCEPT ![r] = Idle]
                /\ UNCHANGED clock

Reject(r) == LET now == sampled[r]
             IN  /\ now # Idle
                 /\ MayReject(Prev(now), Current(now), Elapsed(now))
                 /\ reply' = [allowed |-> FALSE, remaining |-> 0, now |-> now]
                 /\ sampled' = [sampled EXCEPT ![r] = Idle]
                 /\ UNCHANGED <<clock, count, expires, admitted, prompt>>

Next == \/ Tick
        \/ \E r \in Requests : ReadClock(r) \/ Admit(r) \/ Reject(r)

Spec == Init /\ [][Next]_vars

-----------------------------------------------------------------------------
\* Every variable keeps its type; X-RateLimit-Remaining is never negative.
TypeOK == /\ clock \in Times
          /\ sampled \in [Requests -> Times \cup {Idle}]
          /\ count \in [Times -> Nat]
          /\ expires \in [Times -> Nat]
          /\ reply \in [allowed : BOOLEAN, remaining : Nat, now : Times]
          /\ admitted \in [Times -> Nat]
          /\ prompt \in [Times -> Nat]

\* The requests in a history that asked up to a second, and from first to last.
UpTo(history, last) == IF last < 0 THEN 0
                       ELSE IF last < MaxTime THEN history[last]
                       ELSE history[MaxTime]
Asked(history, first, last) == UpTo(history, last) - UpTo(history, first - 1)

\* No counter in Redis ever exceeds the limit, whatever the order in which the
\* scripts of concurrent requests run and however the estimate is rounded.
CounterWithinLimit == \A t \in Times : count[t] <= Limit

\* No fixed window lets more than limit requests through, even when scripts run late:
\* the counter is not forgotten while a request of its window is still in the air.
WindowWithinLimit == \A t \in Times :
    Asked(admitted, WindowStart(t), WindowStart(t) + Window - 1) <= Limit

\* "Avoiding the boundary-spike problem of fixed-window counters" (README.md): a span
\* of at most one window that ends e seconds after a boundary holds no more than the
\* limit, the share of it that e seconds earn back, and one request of rounding. Only
\* requests whose script runs in a later window than their own do not count: those
\* reach the previous counter after it was read.
NoBoundarySpike == \A last \in Times :
    Window * Asked(prompt, last - Window + 1, last)
        <= Window * (Limit + 1) + Limit * (last % Window)

\* X-RateLimit-Remaining is honest: an answer that leaves n requests is followed by n
\* more that the script cannot reject in the same second, if no other comes between.
RemainingIsHonest == reply.allowed =>
    \A used \in 0 .. reply.remaining - 1 :
        ~MayReject(Prev(reply.now), Current(reply.now) + used, Elapsed(reply.now))
=============================================================================
