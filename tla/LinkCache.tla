------------------------------ MODULE LinkCache ------------------------------
(***************************************************************************)
(* Short links in PostgreSQL with a cache-aside copy in Redis, and the     *)
(* handlers that touch both: the redirect (src/src/api/redirect.py) and    *)
(* create, activate, deactivate and delete                                 *)
(* (src/src/api/v0/shortener/url/endpoints.py). A handler is cut at its    *)
(* awaits, so that handlers of one process and of several interleave. A    *)
(* unit of work is one step from its last statement to COMMIT: until then  *)
(* row locks keep others out and READ COMMITTED hides it from their reads. *)
(***************************************************************************)
EXTENDS Integers, FiniteSets

CONSTANTS
    Codes,          \* short codes
    Requests,       \* requests that may be in progress at once
    Operations,     \* the operations clients call
    MaxAttempts,    \* _MAX_CREATE_ATTEMPTS
    MayFail,        \* whether Redis, PostgreSQL or the process may fail
    MaxId,          \* bound: rows ever created
    None            \* no row, no entry, no code

AllOperations == {"redirect", "create", "activate", "deactivate", "delete"}

ASSUME OperationsAssumption == Operations \subseteq AllOperations
ASSUME BoundsAssumption == MaxAttempts \in Nat \ {0} /\ MayFail \in BOOLEAN /\ MaxId \in Nat

Ids == 1 .. MaxId
Rows == [id : Ids, active : BOOLEAN]

ASSUME NoneAssumption == None \notin Rows \cup Codes \cup AllOperations

VARIABLES
    urls,           \* table urls: the row of each code; active: deleted_at IS NULL
    nextId,         \* its id sequence
    cache,          \* Redis: the copy of a row under each code's key
    request,        \* per slot: the step a request is at, and its local variables
    exposed         \* history: deleted ids a late fill or a failed DEL may leave cached

vars == <<urls, nextId, cache, request, exposed>>

Steps == {"idle", "get", "select", "insert", "update", "remove", "fill", "drop"}
Idle == [at |-> "idle", op |-> None, code |-> None, row |-> None, attempt |-> 0]

Init == /\ urls = [c \in Codes |-> None]
        /\ nextId = 1
        /\ cache = [c \in Codes |-> None]
        /\ request = [r \in Requests |-> Idle]
        /\ exposed = {}

Holds(entry, id) == entry # None /\ entry.id = id

At(r, step) == request[r].at = step

Goto(r, step) == request' = [request EXCEPT ![r].at = step]
Resume(r, step, code, row) == request' = [request EXCEPT ![r] =
    [at |-> step, op |-> @.op, code |-> code, row |-> row, attempt |-> @.attempt]]
GotoWith(r, step, row) == Resume(r, step, request[r].code, row)
Answer(r) == request' = [request EXCEPT ![r] = Idle]

-----------------------------------------------------------------------------
FirstStep(op) == CASE op = "redirect" -> "get"
                   [] op = "create" -> "insert"
                   [] OTHER -> "select"

\* Bound: room for one more row beside those of the creates in progress.
RoomForARow == nextId + Cardinality({q \in Requests : At(q, "insert")}) <= MaxId

Start(r, op, c) ==
    /\ At(r, "idle")
    /\ op = "create" => RoomForARow
    /\ request' = [request EXCEPT ![r] =
           [at |-> FirstStep(op), op |-> op, row |-> None, attempt |-> 1,
            code |-> IF op = "create" THEN None ELSE c]]
    /\ UNCHANGED <<urls, nextId, cache, exposed>>

\* MUTANT: set_short_code left out of "if not cache_hit", so every hit renews the entry.
Get_AlwaysFills(r) ==
    /\ At(r, "get")
    /\ IF cache[request[r].code] # None
       THEN GotoWith(r, "fill", cache[request[r].code])
       ELSE Goto(r, "select")
    /\ UNCHANGED <<urls, nextId, cache, exposed>>

\* The redirect asks Redis first; a hit answers without the database.
Get(r) ==
    /\ At(r, "get")
    /\ IF cache[request[r].code] # None THEN Answer(r) ELSE Goto(r, "select")
    /\ UNCHANGED <<urls, nextId, cache, exposed>>

\* The filter of the operation; the redirect's says nothing of deleted_at.
Matches(op, row) ==
    /\ row # None
    /\ op = "activate" => ~row.active
    /\ op = "deactivate" => row.active

AfterSelect(op) == CASE op = "redirect" -> "fill"
                     [] op = "delete" -> "remove"
                     [] OTHER -> "update"

Select(r) ==
    LET row == urls[request[r].code]
    IN  /\ At(r, "select")
        /\ IF Matches(request[r].op, row)
           THEN GotoWith(r, AfterSelect(request[r].op), row)
           ELSE Answer(r)                                   \* 404
        /\ UNCHANGED <<urls, nextId, cache, exposed>>

\* MUTANT: the short code is not checked to be unique.
Insert_Overwrites(r, c) ==
    LET row == [id |-> nextId, active |-> TRUE]
    IN  /\ At(r, "insert") /\ nextId <= MaxId
        /\ urls' = [urls EXCEPT ![c] = row]
        /\ nextId' = nextId + 1
        /\ Resume(r, "fill", c, row)
        /\ UNCHANGED <<cache, exposed>>

\* create: a random code that no row has.
Insert(r, c) ==
    LET row == [id |-> nextId, active |-> TRUE]
    IN  /\ At(r, "insert") /\ nextId <= MaxId
        /\ urls[c] = None
        /\ urls' = [urls EXCEPT ![c] = row]
        /\ nextId' = nextId + 1
        /\ Resume(r, "fill", c, row)
        /\ UNCHANGED <<cache, exposed>>

\* MUTANT: the attempts are not counted.
Collide_Forever(r, c) ==
    /\ At(r, "insert")
    /\ urls[c] # None
    /\ UNCHANGED vars

\* IntegrityError on the unique code: another attempt, or 503 after the last. The
\* savepoint takes the row back, the sequence keeps its step (ids only have to differ).
Collide(r, c) ==
    /\ At(r, "insert")
    /\ urls[c] # None
    /\ IF request[r].attempt < MaxAttempts
       THEN request' = [request EXCEPT ![r].attempt = @ + 1]
       ELSE Answer(r)                                       \* 503
    /\ UNCHANGED <<urls, nextId, cache, exposed>>

Updated(r) == [request[r].row EXCEPT !.active = request[r].op = "activate"]
AfterUpdate(op) == IF op = "activate" THEN "fill" ELSE "drop"

\* MUTANT: WHERE short_code instead of WHERE id.
Update_ByCode(r) ==
    LET c == request[r].code
    IN  /\ At(r, "update")
        /\ IF urls[c] # None
           THEN /\ urls' = [urls EXCEPT ![c] = Updated(r)]
                /\ GotoWith(r, AfterUpdate(request[r].op), Updated(r))
           ELSE /\ Answer(r)
                /\ UNCHANGED urls
        /\ UNCHANGED <<nextId, cache, exposed>>

\* MUTANT: deactivate leaves the cache alone.
Update_NoDrop(r) ==
    LET c == request[r].code
    IN  /\ At(r, "update")
        /\ IF Holds(urls[c], request[r].row.id)
           THEN /\ urls' = [urls EXCEPT ![c] = Updated(r)]
                /\ IF request[r].op = "activate"
                   THEN GotoWith(r, "fill", Updated(r))
                   ELSE Answer(r)
           ELSE /\ Answer(r)
                /\ UNCHANGED urls
        /\ UNCHANGED <<nextId, cache, exposed>>

\* mark_as_active, mark_as_deleted: UPDATE ... WHERE id RETURNING. A row removed since
\* the SELECT returns nothing, and validating nothing is an error: 500.
Update(r) ==
    LET c == request[r].code
    IN  /\ At(r, "update")
        /\ IF Holds(urls[c], request[r].row.id)
           THEN /\ urls' = [urls EXCEPT ![c] = Updated(r)]
                /\ GotoWith(r, AfterUpdate(request[r].op), Updated(r))
           ELSE /\ Answer(r)
                /\ UNCHANGED urls
        /\ UNCHANGED <<nextId, cache, exposed>>

\* Another request is about to cache this id.
FillInProgress(id) == \E r \in Requests : At(r, "fill") /\ Holds(request[r].row, id)

\* MUTANT: delete leaves the cache alone.
Remove_NoDrop(r) ==
    LET c == request[r].code
        id == request[r].row.id
    IN  /\ At(r, "remove")
        /\ IF Holds(urls[c], id)
           THEN /\ urls' = [urls EXCEPT ![c] = None]
                /\ exposed' = IF FillInProgress(id) THEN exposed \cup {id} ELSE exposed
           ELSE UNCHANGED <<urls, exposed>>
        /\ Answer(r)
        /\ UNCHANGED <<nextId, cache>>

\* delete: DELETE ... WHERE id; how many rows it removed is not looked at.
Remove(r) ==
    LET c == request[r].code
        id == request[r].row.id
    IN  /\ At(r, "remove")
        /\ IF Holds(urls[c], id)
           THEN /\ urls' = [urls EXCEPT ![c] = None]
                /\ exposed' = IF FillInProgress(id) THEN exposed \cup {id} ELSE exposed
           ELSE UNCHANGED <<urls, exposed>>
        /\ Goto(r, "drop")
        /\ UNCHANGED <<nextId, cache>>

\* set_short_code: SET with an expiry, whatever the key holds; then the answer.
Fill(r) == /\ At(r, "fill")
           /\ cache' = [cache EXCEPT ![request[r].code] = request[r].row]
           /\ Answer(r)
           /\ UNCHANGED <<urls, nextId, exposed>>

\* delete_short_code: DEL, then the answer.
Drop(r) == /\ At(r, "drop")
           /\ cache' = [cache EXCEPT ![request[r].code] = None]
           /\ Answer(r)
           /\ UNCHANGED <<urls, nextId, exposed>>

\* A call to Redis or PostgreSQL raises, or the process dies: 500 or no answer, and
\* what the handler committed before stays.
Fails(r) == /\ MayFail
            /\ ~At(r, "idle")
            /\ Answer(r)
            /\ exposed' = IF At(r, "drop") /\ request[r].op = "delete"
                          THEN exposed \cup {request[r].row.id}
                          ELSE exposed
            /\ UNCHANGED <<urls, nextId, cache>>

\* The six hours of an entry are over.
Expire(c) == /\ cache[c] # None
             /\ cache' = [cache EXCEPT ![c] = None]
             /\ UNCHANGED <<urls, nextId, request, exposed>>

Handle(r) == \/ Get(r)
             \/ Select(r)
             \/ \E c \in Codes : Insert(r, c) \/ Collide(r, c)
             \/ Update(r)
             \/ Remove(r)
             \/ Fill(r)
             \/ Drop(r)

Proceeds == \/ \E r \in Requests, op \in Operations, c \in Codes : Start(r, op, c)
            \/ \E r \in Requests : Handle(r)
            \/ \E c \in Codes : Expire(c)

Next == Proceeds \/ \E r \in Requests : Fails(r)

Spec == Init /\ [][Next]_vars

\* The event loop resumes every handler whose call returns, and Redis expires keys.
Fairness == /\ \A r \in Requests : WF_vars(Handle(r))
            /\ \A c \in Codes : WF_vars(Expire(c))

FairSpec == Spec /\ Fairness

-----------------------------------------------------------------------------
Slots == [at : Steps, op : Operations \cup {None}, code : Codes \cup {None},
          row : Rows \cup {None}, attempt : 0 .. MaxAttempts]

\* A step finds the local variables it reads assigned.
Assigned(q) == /\ q.at \in {"update", "remove", "fill", "drop"} => q.row # None
               /\ q.at \notin {"idle", "insert"} => q.code # None
               /\ q.at # "idle" => q.op # None

\* Every variable keeps its type, and every step has the local variables it needs.
TypeOK == /\ urls \in [Codes -> Rows \cup {None}]
          /\ nextId \in 1 .. MaxId + 1
          /\ cache \in [Codes -> Rows \cup {None}]
          /\ exposed \subseteq Ids
          /\ request \in [Requests -> Slots]
          /\ \A r \in Requests : Assigned(request[r])

Quiet == \A r \in Requests : At(r, "idle")

\* A copy of a row that is gone: its id is no longer the code's.
Stale(c) == cache[c] # None /\ ~Holds(urls[c], cache[c].id)

\* The DELETE that is still to drop this code's entry.
BeingDeleted(c) == \E r \in Requests :
    /\ At(r, "drop")
    /\ request[r].op = "delete"
    /\ request[r].code = c
    /\ Holds(request[r].row, cache[c].id)

\* The redirect's answer: the cached copy, or the row it has read.
Served(r) ==
    IF request[r].op = "redirect"
    THEN CASE At(r, "get") -> cache[request[r].code]
           [] At(r, "fill") -> request[r].row
           [] OTHER -> None
    ELSE None

\* The only ways to keep a deleted link cached: a fill that had read the row before it
\* was removed, or a DEL that never came.
StaleOnlyByRace == \A c \in Codes :
    Stale(c) => (cache[c].id \in exposed \/ BeingDeleted(c))

\* A redirect leads to the link its code names, whatever creations, activations,
\* failures and expiries come between; else that link was deleted while this very
\* request was under way, or was left in the cache by one of those two ways.
ServesTheLink == \A r \in Requests : Served(r) # None =>
    \/ Holds(urls[request[r].code], Served(r).id)
    \/ Served(r).id \in exposed
    \/ BeingDeleted(request[r].code)

\* A link changes only by a request that has read that very link: an activation that
\* comes after DELETE and a new link under the same code leaves the new one alone.
ChangedOnlyByItsReader == [][\A c \in Codes :
    (urls[c] # None /\ urls'[c] # None /\ urls'[c] # urls[c]) =>
        /\ urls'[c].id = urls[c].id
        /\ \E r \in Requests : At(r, "update") /\ request[r].row.id = urls[c].id]_vars

IsLive(id) == \E c \in Codes : Holds(urls[c], id)
IsCached(id) == \E c \in Codes : Holds(cache[c], id)

\* However it came to be cached, a deleted link is gone from the cache for good in time.
DeletedFadesAway == \A id \in Ids : [](id < nextId /\ ~IsLive(id) => <>[]~IsCached(id))

\* Every request is answered: a create that keeps colliding gives up.
EveryRequestAnswered == \A r \in Requests : ~At(r, "idle") ~> At(r, "idle")
=============================================================================
