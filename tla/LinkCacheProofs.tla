--------------------------- MODULE LinkCacheProofs ---------------------------
(***************************************************************************)
(* Machine-checked proofs about LinkCache, for every set of codes, of      *)
(* requests and of operations, with and without failures.                  *)
(***************************************************************************)
EXTENDS LinkCacheHistory, FiniteSetTheorems, TLAPS

-----------------------------------------------------------------------------
LEMMA InitType == Init => TypeOK
  BY BoundsAssumption DEF Init, TypeOK, Slots, Idle, Assigned, Steps

\* A handler past its SELECT or INSERT holds a row.
LEMMA HeldRow ==
    ASSUME TypeOK, NEW r \in Requests,
           request[r].at \in {"update", "remove", "fill", "drop"}
    PROVE  request[r].row \in Rows /\ request[r].row.id \in Ids
BY DEF TypeOK, Slots, Assigned, Rows

\* The row that a create inserts.
LEMMA NewRow ==
    ASSUME TypeOK, nextId <= MaxId
    PROVE  /\ [id |-> nextId, active |-> TRUE] \in Rows
           /\ [id |-> nextId, active |-> TRUE] # None
<1>1. nextId \in Ids
  BY BoundsAssumption DEF TypeOK, Ids
<1>2. [id |-> nextId, active |-> TRUE] \in Rows
  BY <1>1 DEF Rows
<1> QED BY <1>2, NoneAssumption

\* UPDATE changes the active flag of a row, never which link a code names.
LEMMA UpdateKeepsIds ==
    ASSUME TypeOK, NEW r \in Requests, Update(r)
    PROVE  /\ Updated(r) \in Rows
           /\ Updated(r) # None
           /\ Updated(r).id = request[r].row.id
           /\ \A d \in Codes, id \in Ids : Holds(urls[d], id) <=> Holds(urls'[d], id)
<1>1. request[r].row \in Rows /\ request[r].row.id \in Ids
  BY HeldRow DEF Update, At
<1>2. Updated(r) \in Rows /\ Updated(r).id = request[r].row.id
  BY <1>1 DEF Updated, Rows
<1>3. Updated(r) # None
  BY <1>2, NoneAssumption
<1>4. CASE ~Holds(urls[request[r].code], request[r].row.id)
  BY <1>2, <1>3, <1>4 DEF Update
<1>5. CASE Holds(urls[request[r].code], request[r].row.id)
  <2>1. urls' = [urls EXCEPT ![request[r].code] = Updated(r)]
    BY <1>5 DEF Update
  <2> QED BY <1>2, <1>3, <1>5, <2>1 DEF Holds, TypeOK
<1> QED BY <1>4, <1>5

LEMMA StepType ==
    ASSUME TypeOK, [Next]_vars
    PROVE  TypeOK'
<1> USE BoundsAssumption, NoneAssumption, OperationsAssumption
    DEF TypeOK, Slots, Assigned, Steps, Idle, At, Goto, Resume, GotoWith, Answer, Holds,
        AllOperations
<1>1. ASSUME NEW r \in Requests, NEW op \in Operations, NEW c \in Codes, Start(r, op, c)
      PROVE  TypeOK'
  BY <1>1 DEF Start, FirstStep
<1>2. ASSUME NEW r \in Requests, Get(r)
      PROVE  TypeOK'
  BY <1>2 DEF Get
<1>3. ASSUME NEW r \in Requests, Select(r)
      PROVE  TypeOK'
  BY <1>3 DEF Select, Matches, AfterSelect
<1>4. ASSUME NEW r \in Requests, NEW c \in Codes, Insert(r, c)
      PROVE  TypeOK'
  <2>1. nextId + 1 \in 1 .. MaxId + 1
    BY <1>4 DEF Insert
  <2> DEFINE row == [id |-> nextId, active |-> TRUE]
  <2>2. row \in Rows /\ row # None
    BY <1>4, NewRow DEF Insert
  <2>3. urls' \in [Codes -> Rows \cup {None}] /\ nextId' \in 1 .. MaxId + 1
    BY <1>4, <2>1, <2>2 DEF Insert
  <2>4. request' \in [Requests -> Slots]
    BY <1>4, <2>2 DEF Insert
  <2>5. \A q \in Requests : Assigned(request'[q])
    BY <1>4, <2>2 DEF Insert
  <2> QED BY <1>4, <2>3, <2>4, <2>5 DEF Insert
<1>5. ASSUME NEW r \in Requests, NEW c \in Codes, Collide(r, c)
      PROVE  TypeOK'
  BY <1>5 DEF Collide
<1>6. ASSUME NEW r \in Requests, Update(r)
      PROVE  TypeOK'
  <2>1. Updated(r) \in Rows /\ Updated(r) # None
    BY <1>6, UpdateKeepsIds
  <2> QED BY <1>6, <2>1 DEF Update, AfterUpdate
<1>7. ASSUME NEW r \in Requests, Remove(r)
      PROVE  TypeOK'
  <2>1. request[r].at = "remove" => request[r].row.id \in Ids
    BY HeldRow
  <2> QED BY <1>7, <2>1 DEF Remove
<1>8. ASSUME NEW r \in Requests, Fill(r)
      PROVE  TypeOK'
  BY <1>8 DEF Fill
<1>9. ASSUME NEW r \in Requests, Drop(r)
      PROVE  TypeOK'
  BY <1>9 DEF Drop
<1>10. ASSUME NEW r \in Requests, Fails(r)
       PROVE  TypeOK'
  <2>1. request[r].at = "drop" => request[r].row.id \in Ids
    BY HeldRow
  <2> QED BY <1>10, <2>1 DEF Fails
<1>11. ASSUME NEW c \in Codes, Expire(c)
       PROVE  TypeOK'
  BY <1>11 DEF Expire
<1>12. CASE UNCHANGED vars
  BY <1>12 DEF vars
<1> QED
  BY <1>1, <1>2, <1>3, <1>4, <1>5, <1>6, <1>7, <1>8, <1>9, <1>10, <1>11, <1>12
     DEF Next, Proceeds, Handle

\* The model's states are well typed: a step of a handler finds assigned the local
\* variables that it reads (no redirect, activation or delete works on a missing row).
THEOREM TypeCorrect == Spec => []TypeOK
<1>1. Init => TypeOK
  BY InitType
<1>2. TypeOK /\ [Next]_vars => TypeOK'
  BY StepType
<1> QED
  BY <1>1, <1>2, PTL DEF Spec

-----------------------------------------------------------------------------
(***************************************************************************)
(* A deleted link stays cached only if a fill had its row in hand, or the  *)
(* DEL never came. A fill holds a row that lives or is exposed; so is what *)
(* it leaves in the cache, until DELETE removes the row, and then its DEL  *)
(* is on the way or, if that fails, the id is exposed.                     *)
(***************************************************************************)

FillsLiveOrExposed == \A r \in Requests :
    At(r, "fill") => \/ Holds(urls[request[r].code], request[r].row.id)
                     \/ request[r].row.id \in exposed

RemovesForDelete == \A r \in Requests : At(r, "remove") => request[r].op = "delete"

RaceInv == TypeOK /\ FillsLiveOrExposed /\ RemovesForDelete /\ StaleOnlyByRace

LEMMA InitRace == Init => RaceInv
  <1>1. Init => FillsLiveOrExposed /\ RemovesForDelete
    BY DEF Init, FillsLiveOrExposed, RemovesForDelete, At, Idle
  <1>2. Init => StaleOnlyByRace
    BY DEF Init, StaleOnlyByRace, Stale
  <1> QED BY <1>1, <1>2, InitType DEF RaceInv

LEMMA StepFills ==
    ASSUME RaceInv, [Next]_vars
    PROVE  FillsLiveOrExposed' /\ RemovesForDelete'
<1> USE NoneAssumption
    DEF RaceInv, TypeOK, Slots, FillsLiveOrExposed, RemovesForDelete, Idle, At, Goto,
        Resume, GotoWith, Answer, Holds
<1>1. ASSUME NEW r \in Requests, NEW op \in Operations, NEW c \in Codes, Start(r, op, c)
      PROVE  FillsLiveOrExposed' /\ RemovesForDelete'
  BY <1>1 DEF Start, FirstStep
<1>2. ASSUME NEW r \in Requests, Get(r)
      PROVE  FillsLiveOrExposed' /\ RemovesForDelete'
  BY <1>2 DEF Get
<1>3. ASSUME NEW r \in Requests, Select(r)
      PROVE  FillsLiveOrExposed' /\ RemovesForDelete'
  BY <1>3 DEF Select, Matches, AfterSelect
<1>4. ASSUME NEW r \in Requests, NEW c \in Codes, Insert(r, c)
      PROVE  FillsLiveOrExposed' /\ RemovesForDelete'
  <2> DEFINE row == [id |-> nextId, active |-> TRUE]
  <2>1. row \in Rows /\ row # None
    BY <1>4, NewRow DEF Insert, RaceInv
  <2> QED BY <1>4, <2>1 DEF Insert
<1>5. ASSUME NEW r \in Requests, NEW c \in Codes, Collide(r, c)
      PROVE  FillsLiveOrExposed' /\ RemovesForDelete'
  BY <1>5 DEF Collide
<1>6. ASSUME NEW r \in Requests, Update(r)
      PROVE  FillsLiveOrExposed' /\ RemovesForDelete'
  <2>1. request'[r].at \in {"idle", "fill", "drop"}
    BY <1>6 DEF Update, AfterUpdate
  <2>2. At(r, "fill")' => Holds(urls'[request'[r].code], request'[r].row.id)
    BY <1>6, UpdateKeepsIds DEF Update
  <2>3. \A q \in Requests : q # r => request'[q] = request[q]
    BY <1>6 DEF Update
  <2>4. \A q \in Requests : At(q, "fill") => request[q].code \in Codes /\ request[q].row.id \in Ids
    BY HeldRow DEF Assigned
  <2>5. \A d \in Codes, id \in Ids : Holds(urls[d], id) <=> Holds(urls'[d], id)
    BY <1>6, UpdateKeepsIds
  <2> QED BY <1>6, <2>1, <2>2, <2>3, <2>4, <2>5 DEF Update
<1>7. ASSUME NEW r \in Requests, Remove(r)
      PROVE  FillsLiveOrExposed' /\ RemovesForDelete'
  <2>1. request' = [request EXCEPT ![r].at = "drop"] /\ At(r, "remove")
    BY <1>7 DEF Remove
  <2>2. \A q \in Requests : At(q, "fill")' => At(q, "fill") /\ request'[q] = request[q]
    BY <2>1
  <2>3. ASSUME NEW q \in Requests, At(q, "fill")
        PROVE  \/ Holds(urls'[request[q].code], request[q].row.id)
               \/ request[q].row.id \in exposed'
    <3>1. CASE Holds(urls[request[r].code], request[r].row.id)
      <4>1. CASE request[q].row.id = request[r].row.id
        <5>1. FillInProgress(request[r].row.id)
          BY <2>3, <4>1, HeldRow DEF FillInProgress
        <5> QED BY <1>7, <3>1, <4>1, <5>1 DEF Remove
      <4>2. CASE request[q].row.id # request[r].row.id
        <5>1. urls' = [urls EXCEPT ![request[r].code] = None] /\ exposed \subseteq exposed'
          BY <1>7, <3>1 DEF Remove
        <5>2. Holds(urls[request[q].code], request[q].row.id)
                 => request[q].code # request[r].code
          BY <3>1, <4>2
        <5>3. request[q].code \in Codes
          BY <2>3 DEF Assigned
        <5> QED BY <2>3, <5>1, <5>2, <5>3
      <4> QED BY <4>1, <4>2
    <3>2. CASE ~Holds(urls[request[r].code], request[r].row.id)
      BY <1>7, <2>3, <3>2 DEF Remove
    <3> QED BY <3>1, <3>2
  <2> QED BY <2>1, <2>2, <2>3
<1>8. ASSUME NEW r \in Requests, Fill(r)
      PROVE  FillsLiveOrExposed' /\ RemovesForDelete'
  BY <1>8 DEF Fill
<1>9. ASSUME NEW r \in Requests, Drop(r)
      PROVE  FillsLiveOrExposed' /\ RemovesForDelete'
  BY <1>9 DEF Drop
<1>10. ASSUME NEW r \in Requests, Fails(r)
       PROVE  FillsLiveOrExposed' /\ RemovesForDelete'
  BY <1>10 DEF Fails
<1>11. ASSUME NEW c \in Codes, Expire(c)
       PROVE  FillsLiveOrExposed' /\ RemovesForDelete'
  BY <1>11 DEF Expire
<1>12. CASE UNCHANGED vars
  BY <1>12 DEF vars
<1> QED
  BY <1>1, <1>2, <1>3, <1>4, <1>5, <1>6, <1>7, <1>8, <1>9, <1>10, <1>11, <1>12
     DEF Next, Proceeds, Handle

LEMMA StepStale ==
    ASSUME RaceInv, [Next]_vars
    PROVE  StaleOnlyByRace'
<1> USE NoneAssumption
    DEF RaceInv, TypeOK, Slots, StaleOnlyByRace, Stale, BeingDeleted, Idle, At, Goto,
        Resume, GotoWith, Answer, Holds
<1>1. ASSUME NEW r \in Requests, NEW op \in Operations, NEW c \in Codes, Start(r, op, c)
      PROVE  StaleOnlyByRace'
  BY <1>1 DEF Start, FirstStep
<1>2. ASSUME NEW r \in Requests, Get(r)
      PROVE  StaleOnlyByRace'
  BY <1>2 DEF Get
<1>3. ASSUME NEW r \in Requests, Select(r)
      PROVE  StaleOnlyByRace'
  BY <1>3 DEF Select, Matches, AfterSelect
<1>4. ASSUME NEW r \in Requests, NEW c \in Codes, Insert(r, c)
      PROVE  StaleOnlyByRace'
  <2> DEFINE row == [id |-> nextId, active |-> TRUE]
  <2>1. row \in Rows /\ row # None
    BY <1>4, NewRow DEF Insert, RaceInv
  <2> QED BY <1>4, <2>1 DEF Insert
<1>5. ASSUME NEW r \in Requests, NEW c \in Codes, Collide(r, c)
      PROVE  StaleOnlyByRace'
  BY <1>5 DEF Collide
<1>6. ASSUME NEW r \in Requests, Update(r)
      PROVE  StaleOnlyByRace'
  <2>1. \A q \in Requests : At(q, "drop") => At(q, "drop")' /\ request'[q] = request[q]
    BY <1>6 DEF Update
  <2>2. \A d \in Codes : cache[d] # None => cache[d].id \in Ids
    BY DEF Rows
  <2>3. \A d \in Codes, id \in Ids : Holds(urls[d], id) <=> Holds(urls'[d], id)
    BY <1>6, UpdateKeepsIds
  <2>4. cache' = cache /\ exposed' = exposed
    BY <1>6 DEF Update
  <2> QED BY <2>1, <2>2, <2>3, <2>4
<1>7. ASSUME NEW r \in Requests, Remove(r)
      PROVE  StaleOnlyByRace'
  <2>1. request' = [request EXCEPT ![r].at = "drop"] /\ At(r, "remove")
    BY <1>7 DEF Remove
  <2>2. request[r].op = "delete" /\ request[r].row # None
    BY <2>1, HeldRow DEF RemovesForDelete
  <2>3. \A q \in Requests : At(q, "drop") => request'[q] = request[q]
    BY <2>1
  <2>4. cache' = cache /\ exposed \subseteq exposed'
    BY <1>7 DEF Remove
  <2>5. ASSUME NEW d \in Codes, Stale(d)'
        PROVE  cache[d].id \in exposed' \/ BeingDeleted(d)'
    <3>1. CASE Stale(d)
      BY <2>3, <2>4, <3>1
    <3>2. CASE ~Stale(d)
      <4>1. d = request[r].code /\ cache[d].id = request[r].row.id
        BY <1>7, <2>4, <2>5, <3>2 DEF Remove
      <4>2. request'[r].at = "drop" /\ request'[r].op = "delete"
            /\ request'[r].code = d /\ request'[r].row = request[r].row
        BY <2>1, <2>2, <4>1
      <4> QED BY <2>2, <2>4, <4>1, <4>2
    <3> QED BY <3>1, <3>2
  <2> QED BY <2>4, <2>5
<1>8. ASSUME NEW r \in Requests, Fill(r)
      PROVE  StaleOnlyByRace'
  BY <1>8 DEF Fill, FillsLiveOrExposed
<1>9. ASSUME NEW r \in Requests, Drop(r)
      PROVE  StaleOnlyByRace'
  BY <1>9 DEF Drop
<1>10. ASSUME NEW r \in Requests, Fails(r)
       PROVE  StaleOnlyByRace'
  BY <1>10 DEF Fails
<1>11. ASSUME NEW c \in Codes, Expire(c)
       PROVE  StaleOnlyByRace'
  BY <1>11 DEF Expire
<1>12. CASE UNCHANGED vars
  BY <1>12 DEF vars
<1> QED
  BY <1>1, <1>2, <1>3, <1>4, <1>5, <1>6, <1>7, <1>8, <1>9, <1>10, <1>11, <1>12
     DEF Next, Proceeds, Handle

\* The cache keeps a deleted link only through a fill that had read the row before it was
\* removed or through a DEL that never came: for every number of requests and codes.
THEOREM OnlyRacesLeaveStale == Spec => []StaleOnlyByRace
<1>1. Init => RaceInv
  BY InitRace
<1>2. RaceInv /\ [Next]_vars => RaceInv'
  BY StepType, StepFills, StepStale DEF RaceInv
<1>3. RaceInv => StaleOnlyByRace
  BY DEF RaceInv
<1> QED
  BY <1>1, <1>2, <1>3, PTL DEF Spec

\* What a redirect sends its client to is the link the code names, or a link deleted
\* while the request was under way or left in the cache by one of those two ways.
THEOREM RedirectsServeTheLink == Spec => []ServesTheLink
<1>1. Init => RaceInv
  BY InitRace
<1>2. RaceInv /\ [Next]_vars => RaceInv'
  BY StepType, StepFills, StepStale DEF RaceInv
<1>3. RaceInv => ServesTheLink
  <2> SUFFICES ASSUME RaceInv, NEW r \in Requests, Served(r) # None
               PROVE  \/ Holds(urls[request[r].code], Served(r).id)
                      \/ Served(r).id \in exposed
                      \/ BeingDeleted(request[r].code)
    BY DEF ServesTheLink
  <2>1. CASE At(r, "get") /\ request[r].op = "redirect"
    <3>1. request[r].code \in Codes
      BY <2>1 DEF RaceInv, TypeOK, Slots, Assigned, At
    <3>2. Served(r) = cache[request[r].code]
      BY <2>1 DEF Served, At
    <3> QED BY <3>1, <3>2 DEF RaceInv, StaleOnlyByRace, Stale
  <2>2. CASE At(r, "fill") /\ request[r].op = "redirect"
    <3>1. Served(r) = request[r].row
      BY <2>2 DEF Served, At
    <3> QED BY <2>2, <3>1 DEF RaceInv, FillsLiveOrExposed
  <2> QED BY <2>1, <2>2 DEF Served, At
<1> QED
  BY <1>1, <1>2, <1>3, PTL DEF Spec

-----------------------------------------------------------------------------
(***************************************************************************)
(* Who changes a link.                                                     *)
(***************************************************************************)

ChangeIsReaders == \A c \in Codes :
    (urls[c] # None /\ urls'[c] # None /\ urls'[c] # urls[c]) =>
        /\ urls'[c].id = urls[c].id
        /\ \E r \in Requests : At(r, "update") /\ request[r].row.id = urls[c].id

LEMMA StepChange ==
    ASSUME TypeOK, [Next]_vars
    PROVE  ChangeIsReaders
<1> USE DEF ChangeIsReaders, At, Holds
<1>1. ASSUME NEW r \in Requests, NEW op \in Operations, NEW c \in Codes, Start(r, op, c)
      PROVE  ChangeIsReaders
  BY <1>1 DEF Start, FirstStep
<1>2. ASSUME NEW r \in Requests, Get(r)
      PROVE  ChangeIsReaders
  BY <1>2 DEF Get
<1>3. ASSUME NEW r \in Requests, Select(r)
      PROVE  ChangeIsReaders
  BY <1>3 DEF Select, Matches, AfterSelect
<1>4. ASSUME NEW r \in Requests, NEW c \in Codes, Insert(r, c)
      PROVE  ChangeIsReaders
  BY <1>4 DEF Insert, TypeOK
<1>5. ASSUME NEW r \in Requests, NEW c \in Codes, Collide(r, c)
      PROVE  ChangeIsReaders
  BY <1>5 DEF Collide
<1>6. ASSUME NEW r \in Requests, Update(r)
      PROVE  ChangeIsReaders
  <2>1. Updated(r).id = request[r].row.id
    BY <1>6, UpdateKeepsIds
  <2> QED BY <1>6, <2>1 DEF Update, TypeOK
<1>7. ASSUME NEW r \in Requests, Remove(r)
      PROVE  ChangeIsReaders
  BY <1>7 DEF Remove, TypeOK
<1>8. ASSUME NEW r \in Requests, Fill(r)
      PROVE  ChangeIsReaders
  BY <1>8 DEF Fill
<1>9. ASSUME NEW r \in Requests, Drop(r)
      PROVE  ChangeIsReaders
  BY <1>9 DEF Drop
<1>10. ASSUME NEW r \in Requests, Fails(r)
       PROVE  ChangeIsReaders
  BY <1>10 DEF Fails
<1>11. ASSUME NEW c \in Codes, Expire(c)
       PROVE  ChangeIsReaders
  BY <1>11 DEF Expire
<1>12. CASE UNCHANGED vars
  BY <1>12 DEF vars
<1> QED
  BY <1>1, <1>2, <1>3, <1>4, <1>5, <1>6, <1>7, <1>8, <1>9, <1>10, <1>11, <1>12
     DEF Next, Proceeds, Handle

\* A link changes only by a request that has read that very link, and keeps its id: no
\* activation or create, however late, touches another link under the same code.
THEOREM LinksChangeByTheirReaders == Spec => ChangedOnlyByItsReader
<1>1. Init => TypeOK
  BY InitType
<1>2. TypeOK /\ [Next]_vars => TypeOK'
  BY StepType
<1>3. TypeOK /\ [Next]_vars => [ChangeIsReaders]_vars
  BY StepChange
<1> QED
  BY <1>1, <1>2, <1>3, PTL DEF Spec, ChangedOnlyByItsReader, ChangeIsReaders

-----------------------------------------------------------------------------
(***************************************************************************)
(* Without hard deletes nothing in the cache or in a handler's hands ever  *)
(* belongs to another link than the one its code names in the database.    *)
(***************************************************************************)

SoftDeletesOnly == "delete" \notin Operations

NoRemove == \A r \in Requests : ~At(r, "remove")

CacheNamesTheLink == \A c \in Codes : cache[c] # None => Holds(urls[c], cache[c].id)

FillsNameTheLink == \A r \in Requests :
    At(r, "fill") => Holds(urls[request[r].code], request[r].row.id)

SoftInv == TypeOK /\ NoRemove /\ CacheNamesTheLink /\ FillsNameTheLink

LEMMA StepSoft ==
    ASSUME SoftDeletesOnly, SoftInv, [Next]_vars
    PROVE  NoRemove' /\ CacheNamesTheLink' /\ FillsNameTheLink'
<1> USE NoneAssumption
    DEF SoftInv, SoftDeletesOnly, TypeOK, Slots, NoRemove, CacheNamesTheLink,
        FillsNameTheLink, Idle, At, Goto, Resume, GotoWith, Answer, Holds
<1>1. ASSUME NEW r \in Requests, NEW op \in Operations, NEW c \in Codes, Start(r, op, c)
      PROVE  NoRemove' /\ CacheNamesTheLink' /\ FillsNameTheLink'
  BY <1>1 DEF Start, FirstStep
<1>2. ASSUME NEW r \in Requests, Get(r)
      PROVE  NoRemove' /\ CacheNamesTheLink' /\ FillsNameTheLink'
  BY <1>2 DEF Get
<1>3. ASSUME NEW r \in Requests, Select(r)
      PROVE  NoRemove' /\ CacheNamesTheLink' /\ FillsNameTheLink'
  <2>1. request[r].op \in Operations /\ request[r].op # "delete"
    BY <1>3 DEF Select, Assigned
  <2>2. AfterSelect(request[r].op) \in {"fill", "update"}
    BY <2>1 DEF AfterSelect
  <2> QED BY <1>3, <2>2 DEF Select, Matches
<1>4. ASSUME NEW r \in Requests, NEW c \in Codes, Insert(r, c)
      PROVE  NoRemove' /\ CacheNamesTheLink' /\ FillsNameTheLink'
  <2> DEFINE row == [id |-> nextId, active |-> TRUE]
  <2>1. row \in Rows /\ row # None
    BY <1>4, NewRow DEF Insert
  <2> QED BY <1>4, <2>1 DEF Insert
<1>5. ASSUME NEW r \in Requests, NEW c \in Codes, Collide(r, c)
      PROVE  NoRemove' /\ CacheNamesTheLink' /\ FillsNameTheLink'
  BY <1>5 DEF Collide
<1>6. ASSUME NEW r \in Requests, Update(r)
      PROVE  NoRemove' /\ CacheNamesTheLink' /\ FillsNameTheLink'
  <2>1. request'[r].at \in {"idle", "fill", "drop"}
    BY <1>6 DEF Update, AfterUpdate
  <2>2. At(r, "fill")' => Holds(urls'[request'[r].code], request'[r].row.id)
    BY <1>6, UpdateKeepsIds DEF Update
  <2>3. \A q \in Requests : q # r => request'[q] = request[q]
    BY <1>6 DEF Update
  <2>4. \A q \in Requests : At(q, "fill") => request[q].code \in Codes /\ request[q].row.id \in Ids
    BY HeldRow DEF Assigned
  <2>5. \A d \in Codes, id \in Ids : Holds(urls[d], id) <=> Holds(urls'[d], id)
    BY <1>6, UpdateKeepsIds
  <2>6. \A d \in Codes : cache[d] # None => cache[d].id \in Ids
    BY DEF Rows
  <2>7. cache' = cache
    BY <1>6 DEF Update
  <2> QED BY <1>6, <2>1, <2>2, <2>3, <2>4, <2>5, <2>6, <2>7 DEF Update
<1>7. ASSUME NEW r \in Requests, Remove(r)
      PROVE  NoRemove' /\ CacheNamesTheLink' /\ FillsNameTheLink'
  BY <1>7 DEF Remove
<1>8. ASSUME NEW r \in Requests, Fill(r)
      PROVE  NoRemove' /\ CacheNamesTheLink' /\ FillsNameTheLink'
  BY <1>8 DEF Fill
<1>9. ASSUME NEW r \in Requests, Drop(r)
      PROVE  NoRemove' /\ CacheNamesTheLink' /\ FillsNameTheLink'
  BY <1>9 DEF Drop
<1>10. ASSUME NEW r \in Requests, Fails(r)
       PROVE  NoRemove' /\ CacheNamesTheLink' /\ FillsNameTheLink'
  BY <1>10 DEF Fails
<1>11. ASSUME NEW c \in Codes, Expire(c)
       PROVE  NoRemove' /\ CacheNamesTheLink' /\ FillsNameTheLink'
  BY <1>11 DEF Expire
<1>12. CASE UNCHANGED vars
  BY <1>12 DEF vars
<1> QED
  BY <1>1, <1>2, <1>3, <1>4, <1>5, <1>6, <1>7, <1>8, <1>9, <1>10, <1>11, <1>12
     DEF Next, Proceeds, Handle

RedirectsExactly == \A r \in Requests :
    Served(r) # None => Holds(urls[request[r].code], Served(r).id)

LEMMA SoftServes == SoftInv => RedirectsExactly
<1> SUFFICES ASSUME SoftInv, NEW r \in Requests, Served(r) # None
             PROVE  Holds(urls[request[r].code], Served(r).id)
  BY DEF RedirectsExactly
<1>1. CASE At(r, "get") /\ request[r].op = "redirect"
  <2>1. request[r].code \in Codes
    BY <1>1 DEF SoftInv, TypeOK, Slots, Assigned, At
  <2>2. Served(r) = cache[request[r].code]
    BY <1>1 DEF Served, At
  <2> QED BY <2>1, <2>2 DEF SoftInv, CacheNamesTheLink
<1>2. CASE At(r, "fill") /\ request[r].op = "redirect"
  <2>1. Served(r) = request[r].row
    BY <1>2 DEF Served, At
  <2>2. Holds(urls[request[r].code], request[r].row.id)
    BY <1>2 DEF SoftInv, FillsNameTheLink
  <2> QED BY <2>1, <2>2
<1> QED BY <1>1, <1>2 DEF Served, At

\* Where links are only soft-deleted, every redirect leads to the link its code names,
\* whatever interleavings, failures and expiries come between.
THEOREM SoftDeletesServeTheLink == SoftDeletesOnly => (Spec => []RedirectsExactly)
<1>1. Init => SoftInv
  <2>1. Init => NoRemove /\ CacheNamesTheLink /\ FillsNameTheLink
    BY DEF Init, NoRemove, CacheNamesTheLink, FillsNameTheLink, At, Idle
  <2> QED BY <2>1, InitType DEF SoftInv
<1>2. SoftDeletesOnly /\ SoftInv /\ [Next]_vars => SoftInv'
  BY StepType, StepSoft DEF SoftInv
<1>3. SoftInv => RedirectsExactly
  BY SoftServes
<1>4. CASE SoftDeletesOnly
  <2>1. SoftInv /\ [Next]_vars => SoftInv'
    BY <1>2, <1>4
  <2> QED BY <1>1, <2>1, <1>3, PTL DEF Spec
<1>5. CASE ~SoftDeletesOnly
  BY <1>5
<1> QED
  BY <1>4, <1>5

-----------------------------------------------------------------------------
(***************************************************************************)
(* Requests one after another, none failing: between them the cache is an  *)
(* exact copy. The one request in progress holds the row as it is, and     *)
(* only the entry of its code, once it is about to fill or drop it, may    *)
(* differ from the row.                                                    *)
(***************************************************************************)

OneAtATime == \A q, r \in InProgress : q = r

\* A request is about to write this code's entry.
AboutToWrite(c) == \E r \in Requests :
    request[r].at \in {"fill", "drop"} /\ request[r].code = c

EntriesExact == \A c \in Codes : cache[c] \in {None, urls[c]} \/ AboutToWrite(c)

HandsExact == \A r \in Requests :
    request[r].at \in {"update", "remove", "fill"} => request[r].row = urls[request[r].code]

CalmInv == /\ TypeOK
           /\ IsFiniteSet(InProgress)
           /\ calm => OneAtATime /\ EntriesExact /\ HandsExact

LEMMA AtMostOne ==
    ASSUME NEW S, IsFiniteSet(S), Cardinality(S) <= 1, NEW x \in S, NEW y \in S
    PROVE  x = y
<1> SUFFICES ASSUME x # y PROVE FALSE
  OBVIOUS
<1>1. IsFiniteSet(S \ {x}) /\ Cardinality(S \ {x}) = Cardinality(S) - 1
  BY FS_RemoveElement
<1>2. Cardinality(S) \in Nat /\ Cardinality(S \ {x}) \in Nat
  BY <1>1, FS_CardinalityType
<1>3. Cardinality(S \ {x}) = 0
  BY <1>1, <1>2
<1>4. S \ {x} = {}
  BY <1>1, <1>3, FS_EmptySet
<1> QED BY <1>4

\* A step starts at most one request.
LEMMA StepInProgress ==
    ASSUME TypeOK, [Next]_vars, IsFiniteSet(InProgress)
    PROVE  IsFiniteSet(InProgress')
<1>1. CASE \E r \in Requests : \A q \in Requests : q # r => request'[q] = request[q]
  <2>1. PICK r \in Requests : \A q \in Requests : q # r => request'[q] = request[q]
    BY <1>1
  <2>2. IsFiniteSet(InProgress \cup {r})
    BY FS_AddElement
  <2>3. InProgress' \subseteq InProgress \cup {r}
    BY <2>1 DEF InProgress, At
  <2> QED BY <2>2, <2>3, FS_Subset
<1>2. CASE request' = request
  BY <1>2 DEF InProgress, At
<1> USE DEF Goto, GotoWith, Resume, Answer
<1>3. ASSUME NEW r \in Requests, NEW op \in Operations, NEW c \in Codes, Start(r, op, c)
      PROVE  \A q \in Requests : q # r => request'[q] = request[q]
  BY <1>3 DEF Start, TypeOK
<1>4. ASSUME NEW r \in Requests, Handle(r) \/ Fails(r)
      PROVE  \A q \in Requests : q # r => request'[q] = request[q]
  <2>1. CASE Get(r) \/ Select(r) \/ Update(r)
    BY <2>1 DEF Get, Select, Update, TypeOK
  <2>2. CASE Remove(r) \/ Fill(r) \/ Drop(r) \/ Fails(r)
    BY <2>2 DEF Remove, Fill, Drop, Fails, TypeOK
  <2>3. ASSUME NEW c \in Codes, Insert(r, c) \/ Collide(r, c)
        PROVE  \A q \in Requests : q # r => request'[q] = request[q]
    BY <2>3 DEF Insert, Collide, TypeOK
  <2> QED BY <1>4, <2>1, <2>2, <2>3 DEF Handle
<1>5. ASSUME NEW c \in Codes, Expire(c)
      PROVE  request' = request
  BY <1>5 DEF Expire
<1> QED
  BY <1>1, <1>2, <1>3, <1>4, <1>5 DEF Next, Proceeds, vars

\* While r is in progress every other request is idle.
LEMMA OthersIdle ==
    ASSUME OneAtATime, NEW r \in Requests, ~At(r, "idle"), NEW q \in Requests, q # r
    PROVE  At(q, "idle")
BY DEF OneAtATime, InProgress

LEMMA StepCalm ==
    ASSUME TypeOK, OneAtATime, EntriesExact, HandsExact, OneAtATime', Proceeds
    PROVE  EntriesExact' /\ HandsExact'
<1> USE NoneAssumption
    DEF TypeOK, Slots, Assigned, EntriesExact, HandsExact, AboutToWrite, Idle, At, Goto,
        Resume, GotoWith, Answer, Holds
<1>1. ASSUME NEW r \in Requests, NEW op \in Operations, NEW c \in Codes, Start(r, op, c)
      PROVE  EntriesExact' /\ HandsExact'
  BY <1>1 DEF Start, FirstStep
<1>2. ASSUME NEW r \in Requests, Get(r)
      PROVE  EntriesExact' /\ HandsExact'
  BY <1>2 DEF Get
<1>3. ASSUME NEW r \in Requests, Select(r)
      PROVE  EntriesExact' /\ HandsExact'
  BY <1>3 DEF Select, Matches, AfterSelect
<1>4. ASSUME NEW r \in Requests, NEW c \in Codes, Insert(r, c)
      PROVE  EntriesExact' /\ HandsExact'
  <2>1. PICK row : row = [id |-> nextId, active |-> TRUE]
    OBVIOUS
  <2>2. /\ row \in Rows /\ row # None
        /\ urls[c] = None
        /\ urls' = [urls EXCEPT ![c] = row]
        /\ cache' = cache
        /\ request' = [request EXCEPT ![r] = [at |-> "fill", op |-> @.op, code |-> c,
                                              row |-> row, attempt |-> @.attempt]]
        /\ request[r].at = "insert"
    BY <1>4, <2>1, NewRow DEF Insert
  <2>3. \A q \in Requests : q # r => request[q].at = "idle"
    BY <2>2, OthersIdle
  <2> QED BY <2>2, <2>3
<1>5. ASSUME NEW r \in Requests, NEW c \in Codes, Collide(r, c)
      PROVE  EntriesExact' /\ HandsExact'
  BY <1>5 DEF Collide
<1>6. ASSUME NEW r \in Requests, Update(r)
      PROVE  EntriesExact' /\ HandsExact'
  <2>1. PICK row : row = Updated(r)
    OBVIOUS
  <2>2. PICK step \in {"fill", "drop"} : step = AfterUpdate(request[r].op)
    BY DEF AfterUpdate
  <2>3. /\ row \in Rows /\ row # None
        /\ request[r].at = "update"
        /\ cache' = cache
    BY <1>6, <2>1, UpdateKeepsIds DEF Update
  <2>4. \A q \in Requests : q # r => request[q].at = "idle"
    BY <2>3, OthersIdle
  <2>5. /\ request[r].code \in Codes
        /\ request[r].row = urls[request[r].code]
        /\ request[r].row # None
    BY <2>3
  <2>6. Holds(urls[request[r].code], request[r].row.id)
    BY <2>5
  <2>7. /\ urls' = [urls EXCEPT ![request[r].code] = row]
        /\ request' = [request EXCEPT ![r] = [at |-> step, op |-> @.op, code |-> @.code,
                                              row |-> row, attempt |-> @.attempt]]
    BY <1>6, <2>1, <2>2, <2>6 DEF Update
  <2> QED BY <2>3, <2>4, <2>5, <2>7
<1>7. ASSUME NEW r \in Requests, Remove(r)
      PROVE  EntriesExact' /\ HandsExact'
  <2>1. request[r].at = "remove" /\ cache' = cache /\ request' = [request EXCEPT ![r].at = "drop"]
    BY <1>7 DEF Remove
  <2>2. \A q \in Requests : q # r => request[q].at = "idle"
    BY <2>1, OthersIdle
  <2>3. \A d \in Codes : d # request[r].code => urls'[d] = urls[d]
    BY <1>7 DEF Remove
  <2> QED BY <2>1, <2>2, <2>3
<1>8. ASSUME NEW r \in Requests, Fill(r)
      PROVE  EntriesExact' /\ HandsExact'
  <2>1. \A q \in Requests : q # r => request[q].at = "idle"
    BY <1>8, OthersIdle DEF Fill
  <2> QED BY <1>8, <2>1 DEF Fill
<1>9. ASSUME NEW r \in Requests, Drop(r)
      PROVE  EntriesExact' /\ HandsExact'
  <2>1. \A q \in Requests : q # r => request[q].at = "idle"
    BY <1>9, OthersIdle DEF Drop
  <2> QED BY <1>9, <2>1 DEF Drop
<1>10. ASSUME NEW c \in Codes, Expire(c)
       PROVE  EntriesExact' /\ HandsExact'
  BY <1>10 DEF Expire
<1> QED
  BY <1>1, <1>2, <1>3, <1>4, <1>5, <1>6, <1>7, <1>8, <1>9, <1>10 DEF Proceeds, Handle

LEMMA InitCalm == HistoryInit => CalmInv
<1> SUFFICES ASSUME HistoryInit PROVE CalmInv
  OBVIOUS
<1>1. TypeOK
  BY InitType DEF HistoryInit
<1>2. InProgress = {}
  BY DEF HistoryInit, Init, InProgress, At, Idle
<1>3. IsFiniteSet(InProgress)
  BY <1>2, FS_EmptySet
<1>4. OneAtATime
  BY <1>2 DEF OneAtATime
<1>5. EntriesExact /\ HandsExact
  BY DEF HistoryInit, Init, EntriesExact, HandsExact, Idle
<1> QED BY <1>1, <1>3, <1>4, <1>5 DEF CalmInv

LEMMA StepCalmInv == CalmInv /\ [HistoryNext]_<<vars, calm>> => CalmInv'
<1> SUFFICES ASSUME CalmInv, [HistoryNext]_<<vars, calm>>
             PROVE  CalmInv'
  OBVIOUS
<1>1. [Next]_vars
  BY DEF HistoryNext, Next, vars
<1>2. TypeOK'
  BY <1>1, StepType DEF CalmInv
<1>3. IsFiniteSet(InProgress')
  BY <1>1, StepInProgress DEF CalmInv
<1>4. CASE Proceeds /\ calm /\ Cardinality(InProgress') <= 1
  <2>1. OneAtATime'
    BY <1>3, <1>4, AtMostOne DEF OneAtATime
  <2>2. EntriesExact' /\ HandsExact'
    BY <1>4, <2>1, StepCalm DEF CalmInv
  <2> QED BY <1>2, <1>3, <2>1, <2>2 DEF CalmInv
<1>5. CASE calm' = FALSE
  BY <1>2, <1>3, <1>5 DEF CalmInv
<1>6. CASE UNCHANGED <<vars, calm>>
  <2>1. OneAtATime' = OneAtATime /\ EntriesExact' = EntriesExact /\ HandsExact' = HandsExact
    BY <1>6 DEF OneAtATime, InProgress, EntriesExact, AboutToWrite, HandsExact, At, vars
  <2> QED BY <1>2, <1>3, <1>6, <2>1 DEF CalmInv
<1>7. calm' = FALSE \/ (Proceeds /\ calm /\ Cardinality(InProgress') <= 1) \/ UNCHANGED <<vars, calm>>
  <2>1. CASE Proceeds /\ calm' = (calm /\ Cardinality(InProgress') <= 1)
    BY <2>1
  <2> QED BY <2>1 DEF HistoryNext
<1> QED BY <1>4, <1>5, <1>6, <1>7

\* As long as requests come one at a time and none fails, an entry is an exact copy of its
\* row between requests: every handler leaves the cache as PostgreSQL is.
THEOREM CalmRequestsKeepTheCacheExact == HistorySpec => []CoherentWhenCalm
<1>1. CalmInv => CoherentWhenCalm
  BY DEF CalmInv, CoherentWhenCalm, EntriesExact, AboutToWrite, Quiet, At
<1> QED
  BY <1>1, InitCalm, StepCalmInv, PTL DEF HistorySpec
=============================================================================
