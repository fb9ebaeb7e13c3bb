--------------------------------- MODULE Api ---------------------------------
(***************************************************************************)
(* The way of a request through the API: the route it matches              *)
(* (src/src/api/v0/__init__.py), the address its caller is known by        *)
(* (src/src/utils/client_ip.py), the rate limiter that the router of the   *)
(* links and that of the clicks depend on (src/src/di/rate_limiter.py),    *)
(* the validation of its parameters, its handler, and the exception        *)
(* handlers that turn what was raised into an answer                       *)
(* (src/src/api/exceptions.py). Among the callers are the users of the     *)
(* load test (src/load/locustfile.py) and callers that obey Retry-After.   *)
(* The limiter is one step here (RateLimiter takes it apart), with every   *)
(* EVAL the Redis client sends for one request, and so is a handler        *)
(* (LinkCache and UnitOfWork do); a caller acts on its own link.           *)
(***************************************************************************)
EXTENDS SlidingWindow, SequencesExt

CONSTANTS
    Callers,        \* each has one request in progress at most
    Scenarios,      \* who the callers are: functions from Callers to Profiles
    Addresses,      \* of machines
    Seeds,          \* how many links a RedirectUser creates first
    Retries,        \* how often the Redis client sends a command again: 3 by default
    None            \* no header, or a blank one

LinkRoutes == {"create", "activate", "deactivate", "delete"}
StatsRoutes == {"stats"}
Operations == LinkRoutes \cup StatsRoutes \cup {"redirect", "health", "elsewhere"}

\* What a caller's connection and headers say of its address, where it really is, what
\* kind of caller it is, which operations it calls, the link it has from before, and
\* whether it obeys Retry-After.
Profiles == [forwarded : {<<>>} \cup {<<a>> : a \in Addresses \cup {None}},
             realIp : Addresses \cup {None}, host : Addresses, origin : Addresses,
             kind : {"any", "CreateUser", "RedirectUser"}, calls : SUBSET Operations,
             owns : {"none", "active"}, obeys : BOOLEAN]

ASSUME ScenariosAssumption == Scenarios \subseteq [Callers -> Profiles]
ASSUME SeedsAssumption == Seeds \in Nat
ASSUME RetriesAssumption == Retries \in Nat
ASSUME NoneAssumption == None \notin Addresses

VARIABLES
    caller,         \* the scenario: who the callers are
    enabled,        \* RATE_LIMIT_ENABLED
    elapsed,        \* the second of the present window
    previous,       \* Redis: the counters under the keys of the window before
    current,        \* Redis: those under the keys of the present window
    request,        \* per caller: its request, up to and with the answer
    link,           \* per caller: the link it calls operations on
    seeds,          \* per RedirectUser: the links it has asked for
    wait,           \* per caller that obeys: the seconds it still waits
    own,            \* history: how often each window counted a request of the caller
    refused,        \* history: of one that obeys, refusals since it was last counted
    handled         \* history: requests that reached a handler in their own window

counters == <<previous, current, own, refused, handled>>
vars == <<caller, enabled, elapsed, request, link, seeds, wait, counters>>

\* The routers that v0_router includes with the limiter as a dependency.
Limited == LinkRoutes \cup StatsRoutes

HasBody == {"create", "activate", "deactivate"}
HasQuery == {"delete", "stats"}

\* A body may be no JSON at all; a body or a query may lack what its schema asks for.
Forms(op) == {"valid"}
    \cup (IF op \in HasBody THEN {"unparsable"} ELSE {})
    \cup (IF op \in HasBody \cup HasQuery THEN {"invalid"} ELSE {})

\* MUTANT: the connection's address, whatever the headers say.
GetClientIp_Host(from) == from.host

\* get_client_ip: the first address that was forwarded unless it is blank, else
\* X-Real-IP, else the connection's.
GetClientIp(from) ==
    IF from.forwarded \notin {<<>>, <<None>>} THEN Head(from.forwarded)
    ELSE IF from.realIp # None THEN from.realIp
    ELSE from.host

\* The counters are kept by address and path; no two limited operations share a path.
Buckets == Addresses \X (LinkRoutes \cup StatsRoutes)
Bucket(c) == <<GetClientIp(caller[c]), request[c].op>>

NoAnswer == [status |-> 0, limits |-> FALSE, retryAfter |-> 0]
Idle == [at |-> "idle", op |-> "health", form |-> "valid", late |-> FALSE,
         broken |-> FALSE, limits |-> FALSE, raised |-> "Exception", retryAfter |-> 0,
         answer |-> NoAnswer]

Init == /\ caller \in Scenarios
        /\ enabled \in BOOLEAN
        /\ elapsed = 0
        /\ previous = [b \in Buckets |-> 0]
        /\ current = [b \in Buckets |-> 0]
        /\ request = [c \in Callers |-> Idle]
        /\ link = [c \in Callers |-> caller[c].owns]
        /\ seeds = [c \in Callers |-> 0]
        /\ wait = [c \in Callers |-> 0]
        /\ own = [c \in Callers |-> [op \in Operations |-> [previous |-> 0, current |-> 0]]]
        /\ refused = [c \in Callers |-> [op \in Operations |-> 0]]
        /\ handled = [b \in Buckets |-> 0]

At(c, step) == request[c].at = step

-----------------------------------------------------------------------------
\* A window ends: its keys become those of the previous window, and nobody asks for
\* the older ones again. A key lives for two windows, so none expires before.
TurnWindow ==
    /\ previous' = current
    /\ current' = [b \in Buckets |-> 0]
    /\ own' = [c \in Callers |-> [op \in Operations |->
                  [previous |-> own[c][op].current, current |-> 0]]]
    /\ handled' = [b \in Buckets |-> 0]
    /\ request' = [c \in Callers |-> [request[c] EXCEPT !.late = At(c, "admitted")]]

Tick == /\ elapsed' = (elapsed + 1) % Window
        /\ wait' = [c \in Callers |-> AtLeastZero(wait[c] - 1)]
        /\ IF elapsed' = 0
           THEN TurnWindow
           ELSE UNCHANGED <<previous, current, own, handled, request>>
        /\ UNCHANGED <<caller, enabled, link, seeds, refused>>

\* CreateUser posts links only; RedirectUser posts its seeds, then follows those it got.
MayAsk(c, op, form) == wait[c] = 0 /\
    CASE caller[c].kind = "CreateUser" -> op = "create" /\ form = "valid"
      [] caller[c].kind = "RedirectUser" ->
             /\ form = "valid"
             /\ IF seeds[c] < Seeds
                THEN op = "create"
                ELSE op = "redirect" /\ link[c] # "none"
      [] OTHER -> op \in caller[c].calls

Ask(c, op, form) ==
    /\ At(c, "idle") \/ At(c, "answered")
    /\ MayAsk(c, op, form)
    /\ request' = [request EXCEPT ![c] =
           [Idle EXCEPT !.at = "arrived", !.op = op, !.form = form]]
    /\ seeds' = [seeds EXCEPT ![c] = IF @ < Seeds THEN @ + 1 ELSE @]
    /\ UNCHANGED <<caller, enabled, elapsed, link, wait, counters>>

RaiseWith(c, exception, broken, retryAfter) == request' = [request EXCEPT ![c] =
    [Idle EXCEPT !.at = "raised", !.op = request[c].op, !.raised = exception,
                 !.broken = broken, !.retryAfter = retryAfter]]
Raise(c, exception) == RaiseWith(c, exception, FALSE, 0)
Break(c, exception) == RaiseWith(c, exception, TRUE, 0)

\* No route matches; or the body is no JSON, which FastAPI finds before it solves the
\* dependencies.
RaiseEarly(c) ==
    /\ At(c, "arrived")
    /\ \/ request[c].op = "elsewhere" /\ Raise(c, "StarletteHTTPException")
       \/ request[c].form = "unparsable" /\ Raise(c, "RequestValidationError")
    /\ UNCHANGED <<caller, enabled, elapsed, link, seeds, wait, counters>>

Routed(c) == /\ At(c, "arrived")
             /\ request[c].op # "elsewhere"
             /\ request[c].form # "unparsable"

IsLimited(c) == enabled /\ request[c].op \in Limited

\* A route without the limiter, or RATE_LIMIT_ENABLED is off.
PassUnlimited(c) ==
    /\ Routed(c)
    /\ ~IsLimited(c)
    /\ request' = [request EXCEPT ![c].at = "admitted"]
    /\ UNCHANGED <<caller, enabled, elapsed, link, seeds, wait, counters>>

\* The script runs for the request and counts it, so many times. The client sends EVAL
\* again when the reply is lost, and Redis has run it all the same; a run that counts
\* nothing leaves no trace.
Counts(c, times) ==
    /\ \A earlier \in 0 .. times - 1 :
          MayAdmit(previous[Bucket(c)], current[Bucket(c)] + earlier, elapsed)
    /\ current' = [current EXCEPT ![Bucket(c)] = @ + times]
    /\ own' = [own EXCEPT ![c][request[c].op].current = @ + times]

\* The reply says that the request was counted; the answer is to carry the X-RateLimit
\* headers.
Admit(c) ==
    /\ Routed(c)
    /\ IsLimited(c)
    /\ \E lost \in 0 .. Retries : Counts(c, lost + 1)
    /\ refused' = [refused EXCEPT ![c][request[c].op] = 0]
    /\ request' = [request EXCEPT ![c].at = "admitted", ![c].limits = TRUE]
    /\ UNCHANGED <<caller, enabled, elapsed, previous, link, seeds, wait, handled>>

AtLeastOne(n) == IF n > 1 THEN n ELSE 1

\* MUTANT: one second short.
RetryAfter_Short(now) == AtLeastOne(Window - now - 1)

\* max(1, reset_at - now)
RetryAfter(now) == AtLeastOne(Window - now)

\* The reply says no, perhaps to a request that a lost reply had let through.
\* Bound: refused counts to 3, and for callers that obey Retry-After only.
Reject(c) ==
    /\ Routed(c)
    /\ IsLimited(c)
    /\ \E lost \in 0 .. Retries :
          /\ Counts(c, lost)
          /\ MayReject(previous[Bucket(c)], current[Bucket(c)] + lost, elapsed)
          /\ refused' = [refused EXCEPT ![c][request[c].op] =
                            IF ~caller[c].obeys THEN 0
                            ELSE IF lost > 0 THEN 1
                            ELSE IF @ < 3 THEN @ + 1 ELSE @]
    /\ RaiseWith(c, "RateLimitExceeded", FALSE, RetryAfter(elapsed))
    /\ UNCHANGED <<caller, enabled, elapsed, previous, handled, link, seeds, wait>>

\* MUTANT: without Redis everything passes.
LimiterBreaks_Open(c) ==
    /\ Routed(c)
    /\ IsLimited(c)
    /\ request' = [request EXCEPT ![c].at = "admitted"]
    /\ UNCHANGED <<caller, enabled, elapsed, link, seeds, wait, counters>>

\* Redis fails, or loses the reply to every EVAL, which may have counted the request:
\* the last error is raised as it is.
LimiterBreaks(c) ==
    /\ Routed(c)
    /\ IsLimited(c)
    /\ \E lost \in 0 .. Retries + 1 :
          /\ Counts(c, lost)
          /\ refused' = IF lost > 0
                        THEN [refused EXCEPT ![c][request[c].op] = 0]
                        ELSE refused
    /\ Break(c, "Exception")
    /\ UNCHANGED <<caller, enabled, elapsed, previous, handled, link, seeds, wait>>

\* The parameters are validated once every dependency is solved.
Invalid(c) ==
    /\ At(c, "admitted")
    /\ request[c].form = "invalid"
    /\ Raise(c, "RequestValidationError")
    /\ UNCHANGED <<caller, enabled, elapsed, link, seeds, wait, counters>>

-----------------------------------------------------------------------------
\* The link that the operation needs is there.
Finds(c) == CASE request[c].op = "activate" -> link[c] = "inactive"
              [] request[c].op = "deactivate" -> link[c] = "active"
              [] request[c].op \in {"delete", "stats", "redirect"} -> link[c] # "none"
              [] OTHER -> TRUE

\* What the operation makes of it.
LinkAfter(c) == CASE request[c].op \in {"create", "activate"} -> "active"
                  [] request[c].op = "deactivate" -> "inactive"
                  [] request[c].op = "delete" -> "none"
                  [] OTHER -> link[c]

StatusAfter(op) == CASE op = "create" -> 201
                     [] op = "redirect" -> 302
                     [] OTHER -> 200

AnswerWith(c, status, limits, retryAfter) == request' = [request EXCEPT ![c] =
    [Idle EXCEPT !.at = "answered", !.op = request[c].op, !.broken = request[c].broken,
                 !.answer = [status |-> status, limits |-> limits, retryAfter |-> retryAfter]]]
Answer(c, status) == AnswerWith(c, status, request[c].limits, 0)

\* History: a handler runs for a request of the limited routes (Bound: Limit + 1).
CountHandled(c) == handled' =
    IF enabled /\ request[c].op \in LinkRoutes \cup StatsRoutes /\ ~request[c].late
    THEN [handled EXCEPT ![Bucket(c)] = IF @ <= Limit THEN @ + 1 ELSE @]
    ELSE handled

Handle(c) ==
    /\ At(c, "admitted") /\ request[c].form = "valid"
    /\ Finds(c)
    /\ link' = [link EXCEPT ![c] = LinkAfter(c)]
    /\ Answer(c, StatusAfter(request[c].op))
    /\ CountHandled(c)
    /\ UNCHANGED <<caller, enabled, elapsed, previous, current, own, refused, seeds, wait>>

\* activate and deactivate set the status themselves, the others raise.
HandleMissing(c) ==
    /\ At(c, "admitted") /\ request[c].form = "valid"
    /\ ~Finds(c)
    /\ IF request[c].op \in {"activate", "deactivate"}
       THEN Answer(c, 404)
       ELSE Raise(c, "NotFound")
    /\ CountHandled(c)
    /\ UNCHANGED <<caller, enabled, elapsed, previous, current, own, refused, link,
                   seeds, wait>>

\* Every attempt of create collides; or PostgreSQL or Redis fails a handler, before its
\* unit of work has committed or after.
HandlerBreaks(c) ==
    /\ At(c, "admitted") /\ request[c].form = "valid"
    /\ \/ request[c].op = "create" /\ Break(c, "ServiceUnavailable") /\ UNCHANGED link
       \/ /\ request[c].op # "health"
          /\ Break(c, "Exception")
          /\ \/ UNCHANGED link
             \/ Finds(c) /\ link' = [link EXCEPT ![c] = LinkAfter(c)]
    /\ CountHandled(c)
    /\ UNCHANGED <<caller, enabled, elapsed, previous, current, own, refused, seeds, wait>>

-----------------------------------------------------------------------------
\* The classes of src/src/utils/exceptions, which all have the same base; the handlers
\* raise the first three.
ApplicationExceptions == {"RateLimitExceeded", "NotFound", "ServiceUnavailable", "BadRequest",
    "ValidationError", "UnprocessableEntity", "ExternalServiceError", "ExceptionWithErrorsGroup"}

\* A class before its bases.
Mro(class) ==
    IF class \in ApplicationExceptions THEN <<class, "BaseApplicationException", "Exception">>
    ELSE IF class = "Exception" THEN <<class>>
    ELSE <<class, "Exception">>

\* The class's status_code, the HTTPException's, or what its handler sets.
StatusCode(class) ==
    CASE class \in {"BadRequest", "ValidationError"} -> 400
      [] class \in {"NotFound", "StarletteHTTPException"} -> 404
      [] class \in {"UnprocessableEntity", "RequestValidationError"} -> 422
      [] class = "RateLimitExceeded" -> 429
      [] class = "ExternalServiceError" -> 502
      [] class = "ServiceUnavailable" -> 503
      [] OTHER -> 500

\* MUTANT: the limiter's exception is left to the handler of its base.
Registered_NoRateLimit == {"RequestValidationError", "StarletteHTTPException",
                           "BaseApplicationException", "Exception"}

\* The classes that register_handlers has a handler for.
Registered == {"RequestValidationError", "StarletteHTTPException", "RateLimitExceeded",
               "BaseApplicationException", "Exception"}

\* Starlette takes the handler of the first class that has one.
HandlerOf(exception) ==
    Mro(exception)[SelectInSeq(Mro(exception), LAMBDA class : class \in Registered)]

\* Only the limiter's handler passes the headers of its exception on; those that the
\* limiter set on the response are lost with it.
Respond(c) ==
    LET exception == request[c].raised
        headers == HandlerOf(exception) = "RateLimitExceeded"
        retryAfter == IF headers THEN request[c].retryAfter ELSE 0
    IN  /\ At(c, "raised")
        /\ AnswerWith(c, StatusCode(exception), headers, retryAfter)
        /\ wait' = IF caller[c].obeys THEN [wait EXCEPT ![c] = retryAfter] ELSE wait
        /\ UNCHANGED <<caller, enabled, elapsed, link, seeds, counters>>

Limiter(c) == PassUnlimited(c) \/ Admit(c) \/ Reject(c) \/ LimiterBreaks(c)

Serve(c) == \/ RaiseEarly(c)
            \/ Limiter(c)
            \/ Invalid(c) \/ Handle(c) \/ HandleMissing(c) \/ HandlerBreaks(c)
            \/ Respond(c)

Next == \/ Tick
        \/ \E c \in Callers : Serve(c)
        \/ \E c \in Callers, op \in Operations : \E form \in Forms(op) : Ask(c, op, form)

Spec == Init /\ [][Next]_vars

-----------------------------------------------------------------------------
Requests == [at : {"idle", "arrived", "admitted", "raised", "answered"}, op : Operations,
             form : {"valid", "unparsable", "invalid"}, late : BOOLEAN,
             broken : BOOLEAN, limits : BOOLEAN, retryAfter : 0 .. Window,
             raised : ApplicationExceptions \cup {"RequestValidationError",
                          "StarletteHTTPException", "Exception"},
             answer : [status : Nat, limits : BOOLEAN, retryAfter : 0 .. Window]]

\* Every variable keeps its type.
TypeOK == /\ caller \in Scenarios
          /\ enabled \in BOOLEAN
          /\ elapsed \in 0 .. Window - 1
          /\ previous \in [Buckets -> Nat]
          /\ current \in [Buckets -> Nat]
          /\ request \in [Callers -> Requests]
          /\ link \in [Callers -> {"none", "active", "inactive"}]
          /\ seeds \in [Callers -> 0 .. Seeds]
          /\ wait \in [Callers -> 0 .. Window]
          /\ own \in [Callers -> [Operations -> [previous : Nat, current : Nat]]]
          /\ refused \in [Callers -> [Operations -> 0 .. 3]]
          /\ handled \in [Buckets -> 0 .. Limit + 1]

\* The checks of the load test: RedirectUser.on_start and follow_redirect, and
\* CreateUser.create, which wants to see the headers of a 429.
LoadTestAccepts(c) ==
    LET answer == request[c].answer
    IN  IF request[c].op = "redirect"
        THEN answer.status = 302
        ELSE \/ answer.status = 201
             \/ /\ answer.status = 429
                /\ caller[c].kind = "CreateUser" => answer.retryAfter > 0 /\ answer.limits

\* "asserts the rate limiter behaves correctly when it kicks in (429 + Retry-After +
\* X-RateLimit-* headers)" (locustfile.py:8-10): the load test's users count no failure
\* unless a store failed or every attempt of create collided, whoever calls beside them.
LoadTestPasses == \A c \in Callers :
    (/\ caller[c].kind \in {"CreateUser", "RedirectUser"}
     /\ At(c, "answered")
     /\ ~request[c].broken) => LoadTestAccepts(c)

\* However the windows turn and whatever fails, and though a lost reply has the script
\* run again, no address gets more than Limit of its requests of one route into a handler
\* within a window.
WorkIsLimited == \A b \in Buckets : handled[b] <= Limit

\* What the API can see of a caller's connection says where the caller is.
Reported(p) == \/ p.forwarded = <<p.origin>>
               \/ /\ p.forwarded \in {<<>>, <<None>>}
                  /\ \/ p.realIp = p.origin
                     \/ p.realIp = None /\ p.host = p.origin

\* Nobody else can be taken for this caller.
Alone(c) == /\ Reported(caller[c])
            /\ \A d \in Callers \ {c} : /\ Reported(caller[d])
                                        /\ caller[d].origin # caller[c].origin

\* Callers that share a proxy do not spend each other's limit: a caller is refused only
\* when its own requests of that route, in this window and the last and each as often as
\* its script was run, make up the limit; those of the request that is refused included.
RefusedForOwnRequests == [][\A c \in Callers : (Reject(c) /\ Alone(c)) =>
    LET mine == own'[c][request[c].op]
    IN  MayReject(mine.previous, mine.current, elapsed)]_vars

\* Retry-After names the end of the window, when the sliding estimate may refuse once
\* more; but a caller that waits it out, alone under its address, is never refused three
\* times without a request of it being counted in between: let through, or counted by a
\* script whose reply was lost.
ServedByThirdAttempt == \A c \in Callers : (caller[c].obeys /\ Alone(c)) =>
    \A op \in Operations : refused[c][op] <= 2
=============================================================================
