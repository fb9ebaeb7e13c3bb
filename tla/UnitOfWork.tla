------------------------------ MODULE UnitOfWork ------------------------------
(***************************************************************************)
(* The database transactions of the system: the units of work              *)
(* (src/src/repositories/uow.py) in which the API's handlers create links, *)
(* delete one and list its clicks, over a bounded pool of connections, and *)
(* the bulk inserts of the worker (src/src/worker/repository.py), which    *)
(* has a pool of its own. A transaction is cut at its statements.          *)
(* PostgreSQL is external: READ COMMITTED, so that a statement sees what   *)
(* is committed when it runs; a unique index on the code and a foreign key *)
(* from a click to its link, with ON DELETE CASCADE, that make a statement *)
(* wait for the transaction it conflicts with until that one ends.         *)
(***************************************************************************)
EXTENDS Naturals, FiniteSets, Sequences

CONSTANTS
    Codes,              \* short codes
    Transactions,       \* transactions that may be open at once
    MayCall,            \* which operations each of them may be
    BatchSize,          \* links that create_many makes, clicks that insert_many stores
    PoolSize,           \* DB_POOL_SIZE + DB_MAX_OVERFLOW
    MaxAttempts,        \* _MAX_CREATE_ATTEMPTS, _MAX_CREATE_MANY_ATTEMPTS
    PerPage,            \* per_page
    MayFail,            \* transactions whose statements or connection may fail
    None                \* no link, no transaction, no operation

Creations == {"create", "create_many"}
Operations == Creations \cup {"delete", "get_list", "insert_many"}
RowsOf(o) == IF o = "create" THEN 1 ELSE BatchSize

ASSUME CallAssumption == MayCall \in [Transactions -> SUBSET Operations]
ASSUME BoundsAssumption == /\ BatchSize \in Nat \ {0} /\ PoolSize \in Nat \ {0}
                           /\ MaxAttempts \in Nat \ {0} /\ PerPage \in Nat \ {0}
                           /\ MayFail \subseteq Transactions

\* A row of urls is told apart by its code and the transaction that inserted it, a row of
\* url_stats by its place in the batch.
Links == [code : Codes, by : Transactions \cup {"before"}]
Clicks == [link : Links, by : Transactions, nth : 1 .. BatchSize]

ASSUME NoneAssumption == /\ None \notin Links \cup Operations \cup Transactions \cup {"before"}
                         /\ "before" \notin Transactions

VARIABLES
    op,                 \* the call each transaction is part of
    at,                 \* the statement each transaction is at
    attempt,            \* create, create_many: the loop's counter
    todo,               \* the rows its INSERT still has to insert
    target,             \* delete, get_list: the link that was selected
    listed,             \* get_list: the page and the count
    holding,            \* handlers that hold a connection of the pool
    urls,               \* the unique index: who has inserted each code's row
    deleting,           \* who has deleted it and not ended yet
    clicks,             \* url_stats, with the rows of open transactions
    committed,          \* transactions that have committed
    answer              \* what each caller was told

vars == <<op, at, attempt, todo, target, listed, holding, urls, deleting, clicks,
          committed, answer>>
tables == <<urls, deleting, clicks, committed>>
locals == <<attempt, todo, target, listed>>

Steps == {"idle", "enter", "attempt", "insert", "find", "remove", "page", "count",
          "commit", "rollback", "close", "done", "leaked"}

Init == /\ op = [t \in Transactions |-> None]
        /\ at = [t \in Transactions |-> "idle"]
        /\ attempt = [t \in Transactions |-> 1]
        /\ todo = [t \in Transactions |-> <<>>]
        /\ target = [t \in Transactions |-> None]
        /\ listed = [t \in Transactions |-> [page |-> {}, total |-> 0]]
        /\ holding = {}
        /\ urls \in [Codes -> {"before", None}]
        /\ deleting = [c \in Codes |-> None]
        /\ clicks = {}
        /\ committed = {}
        /\ answer = [t \in Transactions |-> "none"]

At(t, step) == at[t] = step
Goto(t, step) == at' = [at EXCEPT ![t] = step]

\* What a statement of another transaction sees.
Visible(c) == urls[c] \in committed \cup {"before"}
Live == {l \in Links : urls[l.code] = l.by /\ Visible(l.code)}
VisibleClicks(l) == {k \in clicks : k.link = l /\ k.by \in committed}

-----------------------------------------------------------------------------
(* The start of a transaction *)

\* A handler calls its service.
Call(t, o) == /\ At(t, "idle")
              /\ o \in MayCall[t] \ {"insert_many"}
              /\ op' = [op EXCEPT ![t] = o]
              /\ Goto(t, "enter")
              /\ UNCHANGED <<locals, holding, tables, answer>>

\* The worker has a batch of clicks, on links that were there when they were clicked.
CallInsert(t) == /\ At(t, "idle")
                 /\ "insert_many" \in MayCall[t]
                 /\ op' = [op EXCEPT ![t] = "insert_many"]
                 /\ \E links \in [1 .. BatchSize -> Live] : todo' = [todo EXCEPT ![t] = links]
                 /\ Goto(t, "insert")
                 /\ UNCHANGED <<attempt, target, listed, holding, tables, answer>>

\* The first statement takes a connection.
Checkout(t) == /\ At(t, "enter")
               /\ Cardinality(holding) < PoolSize
               /\ holding' = holding \cup {t}
               /\ Goto(t, IF op[t] \in Creations THEN "attempt" ELSE "find")
               /\ UNCHANGED <<op, locals, tables, answer>>

\* None is free for pool_timeout seconds; there is nothing to roll back or close.
CheckoutTimesOut(t) == /\ At(t, "enter")
                       /\ Cardinality(holding) >= PoolSize
                       /\ Goto(t, "done")
                       /\ answer' = [answer EXCEPT ![t] = "error"]
                       /\ UNCHANGED <<op, locals, holding, tables>>

\* No connection can be opened.
ConnectFails(t) == /\ t \in MayFail /\ At(t, "enter")
                   /\ Goto(t, "done")
                   /\ answer' = [answer EXCEPT ![t] = "error"]
                   /\ UNCHANGED <<op, locals, holding, tables>>

Release(t) == holding' = holding \ {t}

-----------------------------------------------------------------------------
(* Statements *)

\* Random codes, which a batch draws until it has enough different ones.
NewCodes(n) == {codes \in [1 .. n -> Codes] :
    \A i, j \in 1 .. n : i # j => codes[i] # codes[j]}

\* SAVEPOINT, and new codes.
Attempt(t) == /\ At(t, "attempt")
              /\ \E codes \in NewCodes(RowsOf(op[t])) : todo' = [todo EXCEPT ![t] = codes]
              /\ Goto(t, "insert")
              /\ UNCHANGED <<op, attempt, target, listed, holding, tables, answer>>

\* MUTANT: the return is missing, a create that has succeeded starts over.
InsertLink_NoReturn(t) ==
    /\ op[t] \in Creations /\ At(t, "insert")
    /\ urls[Head(todo[t])] = None
    /\ urls' = [urls EXCEPT ![Head(todo[t])] = t]
    /\ todo' = [todo EXCEPT ![t] = Tail(@)]
    /\ Goto(t, IF Len(todo[t]) > 1 THEN "insert" ELSE "attempt")
    /\ UNCHANGED <<op, attempt, target, listed, holding, deleting, clicks, committed, answer>>

\* INSERT INTO urls, row by row; then the savepoint is released.
InsertLink(t) ==
    /\ op[t] \in Creations /\ At(t, "insert")
    /\ urls[Head(todo[t])] = None
    /\ urls' = [urls EXCEPT ![Head(todo[t])] = t]
    /\ todo' = [todo EXCEPT ![t] = Tail(@)]
    /\ Goto(t, IF Len(todo[t]) > 1 THEN "insert" ELSE "commit")
    /\ UNCHANGED <<op, attempt, target, listed, holding, deleting, clicks, committed, answer>>

Collides(t) == LET c == Head(todo[t]) IN Visible(c) /\ deleting[c] = None

\* MUTANT: the attempts are not counted.
Collide_Forever(t) ==
    /\ op[t] \in Creations /\ At(t, "insert") /\ Collides(t)
    /\ urls' = [c \in Codes |-> IF urls[c] = t THEN None ELSE urls[c]]
    /\ todo' = [todo EXCEPT ![t] = <<>>]
    /\ Goto(t, "attempt")
    /\ UNCHANGED <<op, attempt, target, listed, holding, deleting, clicks, committed, answer>>

\* IntegrityError: back to the savepoint, which takes the whole batch back, and another
\* attempt; ServiceUnavailable after the last.
Collide(t) ==
    /\ op[t] \in Creations /\ At(t, "insert") /\ Collides(t)
    /\ urls' = [c \in Codes |-> IF urls[c] = t THEN None ELSE urls[c]]
    /\ todo' = [todo EXCEPT ![t] = <<>>]
    /\ IF attempt[t] < MaxAttempts
       THEN attempt' = [attempt EXCEPT ![t] = @ + 1] /\ Goto(t, "attempt")
       ELSE Goto(t, "rollback") /\ UNCHANGED attempt
    /\ UNCHANGED <<op, target, listed, holding, deleting, clicks, committed, answer>>

\* SELECT the link by its code; NotFound without one.
Find(t, c) == /\ At(t, "find")
              /\ IF Visible(c)
                 THEN /\ target' = [target EXCEPT ![t] = [code |-> c, by |-> urls[c]]]
                      /\ Goto(t, IF op[t] = "delete" THEN "remove" ELSE "page")
                 ELSE Goto(t, "rollback") /\ UNCHANGED target
              /\ UNCHANGED <<op, attempt, todo, listed, holding, tables, answer>>

Exists(l) == urls[l.code] = l.by

\* An insert that has stored clicks of this link and not ended keeps it from being deleted.
Referring(l) == {k.by : k \in {k \in clicks : k.link = l}} \ committed

\* DELETE FROM urls WHERE id. Deleted by somebody else in the meantime: no row.
Remove(t) == LET l == target[t] IN
    /\ At(t, "remove")
    /\ IF Exists(l)
       THEN /\ deleting[l.code] = None /\ Referring(l) = {}
            /\ deleting' = [deleting EXCEPT ![l.code] = t]
       ELSE UNCHANGED deleting
    /\ Goto(t, "commit")
    /\ UNCHANGED <<op, locals, holding, urls, clicks, committed, answer>>

Smaller(m, n) == IF m < n THEN m ELSE n

\* The first page of the link's clicks. ORDER BY access_time, when their batch was
\* inserted: any of them may come first.
ReadPage(t, step, next) ==
    LET seen == VisibleClicks(target[t])
    IN  /\ At(t, step)
        /\ \E page \in SUBSET seen :
              /\ Cardinality(page) = Smaller(PerPage, Cardinality(seen))
              /\ listed' = [listed EXCEPT ![t].page = page]
        /\ Goto(t, next)
        /\ UNCHANGED <<op, attempt, todo, target, holding, tables, answer>>

\* SELECT count(*), a statement of its own.
CountClicks(t, step, next) ==
    /\ At(t, step)
    /\ listed' = [listed EXCEPT ![t].total = Cardinality(VisibleClicks(target[t]))]
    /\ Goto(t, next)
    /\ UNCHANGED <<op, attempt, todo, target, holding, tables, answer>>

\* MUTANT: the count comes first.
GetList_CountFirst(t) == CountClicks(t, "page", "count") \/ ReadPage(t, "count", "commit")

GetList(t) == ReadPage(t, "page", "count") \/ CountClicks(t, "count", "commit")

\* INSERT INTO url_stats, row by row; the foreign key locks the link.
InsertClick(t) == LET l == Head(todo[t]) IN
    /\ op[t] = "insert_many" /\ At(t, "insert")
    /\ Exists(l) /\ deleting[l.code] = None
    /\ clicks' = clicks \cup {[link |-> l, by |-> t, nth |-> BatchSize + 1 - Len(todo[t])]}
    /\ todo' = [todo EXCEPT ![t] = Tail(@)]
    /\ Goto(t, IF Len(todo[t]) > 1 THEN "insert" ELSE "commit")
    /\ UNCHANGED <<op, attempt, target, listed, holding, urls, deleting, committed, answer>>

\* The link is gone: the foreign key fails the batch.
ForeignKeyFails(t) == /\ op[t] = "insert_many" /\ At(t, "insert")
                      /\ ~Exists(Head(todo[t]))
                      /\ Goto(t, "rollback")
                      /\ UNCHANGED <<op, locals, holding, tables, answer>>

\* Whom a statement waits for: INSERT INTO urls for whoever inserts or deletes the code,
\* INSERT INTO url_stats for a deletion of the link, DELETE for that and for its clicks.
Deleter(c) == {deleting[c]} \ {None}
WaitsFor(t) ==
    CASE At(t, "insert") /\ op[t] \in Creations ->
            LET c == Head(todo[t]) IN IF Visible(c) THEN Deleter(c) ELSE {urls[c]} \ {None}
      [] At(t, "insert") /\ op[t] = "insert_many" ->
            LET l == Head(todo[t]) IN IF Exists(l) THEN Deleter(l.code) ELSE {}
      [] At(t, "remove") ->
            LET l == target[t] IN IF Exists(l) THEN Referring(l) \cup Deleter(l.code) ELSE {}
      [] OTHER -> {}

\* A circle of transactions of which each waits for one that waits.
InCircle(t) == \E S \in SUBSET {p \in Transactions : WaitsFor(p) # {}} :
    /\ t \in S
    /\ \A p \in S : WaitsFor(p) \cap S # {}
    /\ \A p \in S : \E q \in S : p \in WaitsFor(q)

\* PostgreSQL aborts one transaction of a circle.
DeadlockDetected(t) == /\ InCircle(t)
                       /\ Goto(t, "rollback")
                       /\ UNCHANGED <<op, locals, holding, tables, answer>>

\* Any statement may fail, with its connection or without.
StatementFails(t) == /\ t \in MayFail
                     /\ at[t] \in {"attempt", "insert", "find", "remove", "page", "count"}
                     /\ Goto(t, "rollback")
                     /\ UNCHANGED <<op, locals, holding, tables, answer>>

-----------------------------------------------------------------------------
(* The end of a unit of work *)

\* MUTANT: the foreign key of the first migration, without CASCADE.
TakeEffect_NoCascade(t) ==
    /\ committed' = committed \cup {t}
    /\ urls' = [c \in Codes |-> IF deleting[c] = t THEN None ELSE urls[c]]
    /\ deleting' = [c \in Codes |-> IF deleting[c] = t THEN None ELSE deleting[c]]
    /\ UNCHANGED clicks

TakeEffect(t) ==
    /\ committed' = committed \cup {t}
    /\ urls' = [c \in Codes |-> IF deleting[c] = t THEN None ELSE urls[c]]
    /\ deleting' = [c \in Codes |-> IF deleting[c] = t THEN None ELSE deleting[c]]
    /\ clicks' = {k \in clicks : deleting[k.link.code] # t}

Undo(t) ==
    /\ urls' = [c \in Codes |-> IF urls[c] = t THEN None ELSE urls[c]]
    /\ deleting' = [c \in Codes |-> IF deleting[c] = t THEN None ELSE deleting[c]]
    /\ clicks' = {k \in clicks : k.by # t}
    /\ UNCHANGED committed

Commit(t) == /\ At(t, "commit")
             /\ TakeEffect(t)
             /\ Goto(t, "close")
             /\ UNCHANGED <<op, locals, holding, answer>>

\* An exception that leaves the unit of work: an error is what the caller is told.
Fail(t, step) == /\ Goto(t, step)
                 /\ answer' = [answer EXCEPT ![t] = "error"]
                 /\ UNCHANGED <<op, locals>>

\* The connection breaks during COMMIT, which may or may not have been done. __aexit__
\* raises before close; the pool drops the broken connection.
CommitBreaks(t) == /\ t \in MayFail /\ At(t, "commit")
                   /\ TakeEffect(t) \/ Undo(t)
                   /\ Release(t)
                   /\ Fail(t, "done")

\* COMMIT is refused. __aexit__ raises before close, and the session, which the scoped
\* registry keeps, keeps its connection; engine.begin returns the worker's.
CommitRefused(t) == /\ t \in MayFail /\ At(t, "commit")
                    /\ Undo(t)
                    /\ Fail(t, IF op[t] = "insert_many" THEN "done" ELSE "leaked")
                    /\ UNCHANGED holding

\* MUTANT: close only after a commit.
Rollback_NoClose(t) == /\ At(t, "rollback")
                       /\ Undo(t)
                       /\ Fail(t, "done")
                       /\ UNCHANGED holding

Rollback(t) == /\ At(t, "rollback")
               /\ Undo(t)
               /\ Goto(t, "close")
               /\ UNCHANGED <<op, locals, holding, answer>>

\* The connection is broken: PostgreSQL ends the transaction, the pool drops it.
RollbackBreaks(t) == /\ t \in MayFail /\ At(t, "rollback")
                     /\ Undo(t)
                     /\ Release(t)
                     /\ Fail(t, "done")

\* The connection goes back to the pool, and the caller hears of the outcome.
Close(t) == /\ At(t, "close")
            /\ Release(t)
            /\ Goto(t, "done")
            /\ answer' = [answer EXCEPT ![t] = IF t \in committed THEN "ok" ELSE "error"]
            /\ UNCHANGED <<op, locals, tables>>

Statement(t) == \/ Attempt(t) \/ InsertLink(t) \/ Collide(t)
                \/ \E c \in Codes : Find(t, c)
                \/ Remove(t) \/ GetList(t)
                \/ InsertClick(t) \/ ForeignKeyFails(t) \/ DeadlockDetected(t)

Step(t) == \/ Checkout(t) \/ CheckoutTimesOut(t)
           \/ Statement(t)
           \/ Commit(t) \/ Rollback(t) \/ Close(t)

Fault(t) == \/ ConnectFails(t) \/ StatementFails(t)
            \/ CommitBreaks(t) \/ CommitRefused(t) \/ RollbackBreaks(t)

Ended(t) == at[t] \in {"done", "leaked"}

Terminated == (\A t \in Transactions : Ended(t) \/ At(t, "idle")) /\ UNCHANGED vars

Next == \/ \E t \in Transactions : \/ \E o \in Operations : Call(t, o)
                                    \/ CallInsert(t) \/ Step(t) \/ Fault(t)
        \/ Terminated

Spec == Init /\ [][Next]_vars

\* The event loop resumes every coroutine whose call returns, PostgreSQL answers, and
\* looks for a deadlock when a statement has waited for a second.
Fairness == \A t \in Transactions : WF_vars(Step(t))

FairSpec == Spec /\ Fairness

-----------------------------------------------------------------------------
Rows == Seq(Codes) \cup Seq(Links)

\* Every variable keeps its type, and no more connections are out than the pool has.
TypeOK ==
    /\ op \in [Transactions -> Operations \cup {None}]
    /\ at \in [Transactions -> Steps]
    /\ attempt \in [Transactions -> 1 .. MaxAttempts]
    /\ todo \in [Transactions -> Rows]
    /\ target \in [Transactions -> Links \cup {None}]
    /\ listed \in [Transactions -> [page : SUBSET Clicks, total : Nat]]
    /\ holding \subseteq Transactions /\ Cardinality(holding) <= PoolSize
    /\ urls \in [Codes -> Transactions \cup {"before", None}]
    /\ deleting \in [Codes -> Transactions \cup {None}]
    /\ clicks \subseteq Clicks
    /\ committed \subseteq Transactions
    /\ answer \in [Transactions -> {"none", "ok", "error"}]

\* "Guarantee transactional consistency" (docs/architecture.md): the tables change by
\* whole transactions, clicks go with their link, and answers tell what happened.
Store == INSTANCE LinkStore WITH
    stored <- Live,
    recorded <- {k \in clicks : k.by \in committed},
    done <- committed

ImplementsLinkStore == Store!StoreSpec

\* Only calls that insert several links in one transaction can wait for each other in a
\* circle; deletes, bulk inserts and single creates never are part of one.
OnlyBatchesDeadlock == \A t \in Transactions :
    InCircle(t) => op[t] = "create_many"

\* The count that comes with a page is not smaller than what is left of the page,
\* whatever was committed between the two statements.
TotalCoversPage == \A t \in Transactions : op[t] = "get_list" /\ At(t, "commit") =>
    listed[t].total >= Cardinality(listed[t].page \cap VisibleClicks(target[t]))

Exhausted == Cardinality(holding) = PoolSize

\* An exhausted pool recovers, unless sessions whose COMMIT was refused keep all of it.
PoolRecovers == Exhausted ~> (~Exhausted \/ \A t \in holding : At(t, "leaked"))

\* Every unit of work ends: it gets a connection or an error, attempts are counted, and
\* waiting for one another is resolved.
EveryHandlerEnds == \A t \in Transactions : At(t, "enter") ~> Ended(t)
=============================================================================
