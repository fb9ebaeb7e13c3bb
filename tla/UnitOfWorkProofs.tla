--------------------------- MODULE UnitOfWorkProofs ---------------------------
(***************************************************************************)
(* Machine-checked proofs about UnitOfWork, for every set of codes and of  *)
(* transactions, every pool, batch and number of attempts, and every       *)
(* choice of which transactions may fail.                                  *)
(***************************************************************************)
EXTENDS UnitOfWork, FiniteSetTheorems, TLAPS

-----------------------------------------------------------------------------
(***************************************************************************)
(* Types.                                                                  *)
(***************************************************************************)

\* The call, the rows and the link that a transaction needs at its statement.
CallShape == \A t \in Transactions :
    /\ at[t] = "idle" <=> op[t] = None
    /\ at[t] = "enter" => op[t] \in Operations \ {"insert_many"}
    /\ at[t] = "attempt" => op[t] \in Creations
    /\ at[t] = "insert" => op[t] \in Creations \cup {"insert_many"}
    /\ at[t] = "find" => op[t] \in {"delete", "get_list"}
    /\ at[t] = "remove" => op[t] = "delete" /\ target[t] \in Links
    /\ at[t] \in {"page", "count"} => op[t] = "get_list" /\ target[t] \in Links

TodoShape == \A t \in Transactions : at[t] = "insert" =>
    /\ todo[t] # <<>>
    /\ op[t] \in Creations => todo[t] \in Seq(Codes) /\ Len(todo[t]) <= RowsOf(op[t])
    /\ op[t] = "insert_many" => todo[t] \in Seq(Links) /\ Len(todo[t]) <= BatchSize

FiniteStore == IsFiniteSet(holding) /\ IsFiniteSet(clicks)

TypeInv == TypeOK /\ CallShape /\ TodoShape /\ FiniteStore

LEMMA RowsFact == \A o : RowsOf(o) \in Nat /\ RowsOf(o) > 0
BY BoundsAssumption DEF RowsOf

\* The next row of an INSERT, and those after it.
LEMMA RowsLeft ==
    ASSUME NEW S, NEW s \in Seq(S), s # <<>>
    PROVE  /\ Head(s) \in S /\ Tail(s) \in Seq(S)
           /\ Len(s) \in Nat /\ Len(s) > 0 /\ Len(Tail(s)) = Len(s) - 1
           /\ Len(s) > 1 => Tail(s) # <<>>
<1>1. Len(s) \in Nat /\ Len(s) > 0
  OBVIOUS
<1>2. Head(s) \in S /\ Tail(s) \in Seq(S)
  OBVIOUS
<1>3. Len(Tail(s)) = Len(s) - 1
  OBVIOUS
<1>4. ASSUME Len(s) > 1, Tail(s) = <<>> PROVE FALSE
  <2>1. Len(<<>>) = 0
    OBVIOUS
  <2>2. Len(Tail(s)) = 0
    BY <1>4, <2>1, Zenon
  <2> QED BY <1>1, <1>3, <1>4, <2>2
<1> QED BY <1>1, <1>2, <1>3, <1>4

LEMMA TypeInit == Init => TypeInv
<1> SUFFICES ASSUME Init PROVE TypeInv
  OBVIOUS
<1>1. holding = {} /\ clicks = {}
  BY DEF Init
<1>2. IsFiniteSet({}) /\ Cardinality({}) = 0
  BY FS_EmptySet
<1>3. FiniteStore /\ holding \subseteq Transactions /\ Cardinality(holding) <= PoolSize
  BY <1>1, <1>2, BoundsAssumption DEF FiniteStore
<1>4. CallShape /\ TodoShape
  BY DEF Init, CallShape, TodoShape
<1>5. todo \in [Transactions -> Rows]
  <2>1. <<>> \in Rows
    BY DEF Rows
  <2> QED BY <2>1 DEF Init
<1>6. listed \in [Transactions -> [page : SUBSET Clicks, total : Nat]]
  BY DEF Init
<1>7. attempt \in [Transactions -> 1 .. MaxAttempts]
  BY BoundsAssumption DEF Init
<1>8. /\ op \in [Transactions -> Operations \cup {None}]
      /\ at \in [Transactions -> Steps]
      /\ target \in [Transactions -> Links \cup {None}]
      /\ urls \in [Codes -> Transactions \cup {"before", None}]
      /\ deleting \in [Codes -> Transactions \cup {None}]
      /\ clicks \subseteq Clicks /\ committed \subseteq Transactions
      /\ answer \in [Transactions -> {"none", "ok", "error"}]
  BY DEF Init, Steps
<1> QED BY <1>3, <1>4, <1>5, <1>6, <1>7, <1>8 DEF TypeInv, TypeOK

\* A batch of at least one row.
LEMMA BatchFact ==
    ASSUME NEW S, NEW n \in Nat, n > 0, NEW f \in [1 .. n -> S]
    PROVE  f \in Seq(S) /\ Len(f) = n /\ f # <<>>
<1>1. f \in Seq(S) /\ Len(f) = n
  OBVIOUS
<1>2. ASSUME f = <<>> PROVE FALSE
  <2>1. Len(<<>>) = 0
    OBVIOUS
  <2>2. Len(f) = 0
    BY <1>2, <2>1, Zenon
  <2> QED BY <1>1, <2>2
<1> QED BY <1>1, <1>2

\* Only these two statements wait.
LEMMA WaitingPlaces ==
    ASSUME NEW t \in Transactions, InCircle(t)
    PROVE  at[t] \in {"insert", "remove"}
<1>1. WaitsFor(t) # {}
  BY DEF InCircle
<1> QED BY <1>1 DEF WaitsFor, At

\* What an end of a transaction leaves of the tables.
LEMMA TablesType ==
    ASSUME TypeInv, NEW t \in Transactions, TakeEffect(t) \/ Undo(t)
    PROVE  /\ urls' \in [Codes -> Transactions \cup {"before", None}]
           /\ deleting' \in [Codes -> Transactions \cup {None}]
           /\ clicks' \subseteq Clicks /\ IsFiniteSet(clicks')
           /\ committed' \subseteq Transactions
<1>1. clicks' \subseteq clicks
  BY DEF TakeEffect, Undo
<1>2. IsFiniteSet(clicks')
  BY <1>1, FS_Subset DEF TypeInv, FiniteStore
<1>3. /\ urls' \in [Codes -> Transactions \cup {"before", None}]
      /\ deleting' \in [Codes -> Transactions \cup {None}]
      /\ committed' \subseteq Transactions
  BY DEF TakeEffect, Undo, TypeInv, TypeOK
<1> QED BY <1>1, <1>2, <1>3 DEF TypeInv, TypeOK

\* A connection goes back to the pool.
LEMMA ReleaseType ==
    ASSUME TypeInv, NEW t \in Transactions, Release(t)
    PROVE  /\ holding' \subseteq Transactions /\ IsFiniteSet(holding')
           /\ Cardinality(holding') <= PoolSize
<1>1. /\ IsFiniteSet(holding \ {t})
      /\ Cardinality(holding \ {t}) <= Cardinality(holding)
  BY FS_Subset DEF TypeInv, FiniteStore
<1>2. Cardinality(holding) \in Nat /\ Cardinality(holding \ {t}) \in Nat
  BY <1>1, FS_CardinalityType DEF TypeInv, FiniteStore
<1> QED BY <1>1, <1>2, BoundsAssumption DEF Release, TypeInv, TypeOK

LEMMA CountType ==
    ASSUME TypeInv, NEW l
    PROVE  VisibleClicks(l) \subseteq Clicks /\ Cardinality(VisibleClicks(l)) \in Nat
<1>1. VisibleClicks(l) \subseteq clicks
  BY DEF VisibleClicks
<1>2. IsFiniteSet(VisibleClicks(l))
  BY <1>1, FS_Subset DEF TypeInv, FiniteStore
<1> QED BY <1>1, <1>2, FS_CardinalityType DEF TypeInv, TypeOK

LEMMA CallShapeStep == ASSUME TypeInv, [Next]_vars PROVE CallShape'
<1> USE NoneAssumption, CallAssumption
    DEF TypeInv, TypeOK, CallShape, At, Goto, Fail, locals, Creations
<1>1. ASSUME NEW t \in Transactions, NEW o \in Operations, Call(t, o)
      PROVE  CallShape'
  BY <1>1 DEF Call, Operations
<1>2. ASSUME NEW t \in Transactions, CallInsert(t)
      PROVE  CallShape'
  BY <1>2 DEF CallInsert
<1>3. ASSUME NEW t \in Transactions, Checkout(t)
      PROVE  CallShape'
  BY <1>3 DEF Checkout, Operations
<1>4. ASSUME NEW t \in Transactions, CheckoutTimesOut(t) \/ ConnectFails(t)
      PROVE  CallShape'
  BY <1>4 DEF CheckoutTimesOut, ConnectFails
<1>5. ASSUME NEW t \in Transactions, Attempt(t)
      PROVE  CallShape'
  BY <1>5 DEF Attempt, NewCodes
<1>6. ASSUME NEW t \in Transactions, InsertLink(t)
      PROVE  CallShape'
  BY <1>6 DEF InsertLink
<1>7. ASSUME NEW t \in Transactions, Collide(t)
      PROVE  CallShape'
  BY <1>7 DEF Collide
<1>8. ASSUME NEW t \in Transactions, NEW c \in Codes, Find(t, c)
      PROVE  CallShape'
  BY <1>8 DEF Find, Visible, Links
<1>9. ASSUME NEW t \in Transactions, Remove(t)
      PROVE  CallShape'
  BY <1>9 DEF Remove
<1>10. ASSUME NEW t \in Transactions, GetList(t)
       PROVE  CallShape'
  BY <1>10 DEF GetList, ReadPage, CountClicks
<1>11. ASSUME NEW t \in Transactions, InsertClick(t)
       PROVE  CallShape'
  BY <1>11 DEF InsertClick
<1>12. ASSUME NEW t \in Transactions,
              ForeignKeyFails(t) \/ DeadlockDetected(t) \/ StatementFails(t)
       PROVE  CallShape'
  BY <1>12, WaitingPlaces DEF ForeignKeyFails, DeadlockDetected, StatementFails
<1>13. ASSUME NEW t \in Transactions, Commit(t) \/ Rollback(t)
       PROVE  CallShape'
  BY <1>13 DEF Commit, Rollback
<1>14. ASSUME NEW t \in Transactions, CommitRefused(t)
       PROVE  CallShape'
  BY <1>14 DEF CommitRefused
<1>15. ASSUME NEW t \in Transactions, CommitBreaks(t) \/ RollbackBreaks(t)
       PROVE  CallShape'
  BY <1>15 DEF CommitBreaks, RollbackBreaks
<1>16. ASSUME NEW t \in Transactions, Close(t)
       PROVE  CallShape'
  BY <1>16 DEF Close
<1>17. CASE UNCHANGED vars
  BY <1>17 DEF vars
<1> QED
  BY <1>1, <1>2, <1>3, <1>4, <1>5, <1>6, <1>7, <1>8, <1>9,
     <1>10, <1>11, <1>12, <1>13, <1>14, <1>15, <1>16, <1>17
     DEF Next, Step, Statement, Fault, Terminated

LEMMA TodoShapeStep == ASSUME TypeInv, [Next]_vars PROVE TodoShape'
<1> USE DEF TypeInv, TypeOK, CallShape, TodoShape, At, Goto, Fail, locals
<1>1. ASSUME NEW t \in Transactions, NEW o \in Operations, Call(t, o)
      PROVE  TodoShape'
  BY <1>1 DEF Call
<1>2. ASSUME NEW t \in Transactions, CallInsert(t)
      PROVE  TodoShape'
  <2>1. PICK links \in [1 .. BatchSize -> Live] : todo' = [todo EXCEPT ![t] = links]
    BY <1>2 DEF CallInsert
  <2>2. links \in Seq(Live) /\ Len(links) = BatchSize /\ links # <<>>
    BY <2>1, BatchFact, BoundsAssumption
  <2>3. links \in Seq(Links)
    BY <2>2 DEF Live
  <2> QED BY <1>2, <2>1, <2>2, <2>3, BoundsAssumption DEF CallInsert, Creations
<1>3. ASSUME NEW t \in Transactions, Checkout(t)
      PROVE  TodoShape'
  BY <1>3 DEF Checkout
<1>4. ASSUME NEW t \in Transactions, CheckoutTimesOut(t) \/ ConnectFails(t)
      PROVE  TodoShape'
  BY <1>4 DEF CheckoutTimesOut, ConnectFails
<1>5. ASSUME NEW t \in Transactions, Attempt(t)
      PROVE  TodoShape'
  <2>1. PICK codes \in NewCodes(RowsOf(op[t])) : todo' = [todo EXCEPT ![t] = codes]
    BY <1>5 DEF Attempt
  <2>2. codes \in [1 .. RowsOf(op[t]) -> Codes]
    BY <2>1 DEF NewCodes
  <2>3. codes \in Seq(Codes) /\ Len(codes) = RowsOf(op[t]) /\ codes # <<>>
    BY <2>2, BatchFact, RowsFact
  <2> QED BY <1>5, <2>1, <2>3, RowsFact DEF Attempt, Creations
<1>6. ASSUME NEW t \in Transactions, InsertLink(t)
      PROVE  TodoShape'
  <2>1. todo[t] \in Seq(Codes) /\ todo[t] # <<>> /\ Len(todo[t]) <= RowsOf(op[t])
    BY <1>6 DEF InsertLink, Creations
  <2>2. /\ Tail(todo[t]) \in Seq(Codes) /\ Len(Tail(todo[t])) <= RowsOf(op[t])
        /\ Len(todo[t]) > 1 => Tail(todo[t]) # <<>>
    BY <2>1, RowsLeft, RowsFact
  <2> QED BY <1>6, <2>2 DEF InsertLink, Creations
<1>7. ASSUME NEW t \in Transactions, Collide(t)
      PROVE  TodoShape'
  BY <1>7 DEF Collide
<1>8. ASSUME NEW t \in Transactions, NEW c \in Codes, Find(t, c)
      PROVE  TodoShape'
  BY <1>8 DEF Find
<1>9. ASSUME NEW t \in Transactions, Remove(t)
      PROVE  TodoShape'
  BY <1>9 DEF Remove
<1>10. ASSUME NEW t \in Transactions, GetList(t)
       PROVE  TodoShape'
  BY <1>10 DEF GetList, ReadPage, CountClicks
<1>11. ASSUME NEW t \in Transactions, InsertClick(t)
       PROVE  TodoShape'
  <2>1. todo[t] \in Seq(Links) /\ todo[t] # <<>> /\ Len(todo[t]) <= BatchSize
    BY <1>11 DEF InsertClick, Creations
  <2>2. /\ Tail(todo[t]) \in Seq(Links) /\ Len(Tail(todo[t])) <= BatchSize
        /\ Len(todo[t]) > 1 => Tail(todo[t]) # <<>>
    BY <2>1, RowsLeft, BoundsAssumption
  <2> QED BY <1>11, <2>2 DEF InsertClick, Creations
<1>12. ASSUME NEW t \in Transactions,
              ForeignKeyFails(t) \/ DeadlockDetected(t) \/ StatementFails(t)
       PROVE  TodoShape'
  BY <1>12 DEF ForeignKeyFails, DeadlockDetected, StatementFails
<1>13. ASSUME NEW t \in Transactions, Commit(t) \/ Rollback(t)
       PROVE  TodoShape'
  BY <1>13 DEF Commit, Rollback
<1>14. ASSUME NEW t \in Transactions, CommitRefused(t)
       PROVE  TodoShape'
  BY <1>14 DEF CommitRefused
<1>15. ASSUME NEW t \in Transactions, CommitBreaks(t) \/ RollbackBreaks(t)
       PROVE  TodoShape'
  BY <1>15 DEF CommitBreaks, RollbackBreaks
<1>16. ASSUME NEW t \in Transactions, Close(t)
       PROVE  TodoShape'
  BY <1>16 DEF Close
<1>17. CASE UNCHANGED vars
  BY <1>17 DEF vars
<1> QED
  BY <1>1, <1>2, <1>3, <1>4, <1>5, <1>6, <1>7, <1>8, <1>9,
     <1>10, <1>11, <1>12, <1>13, <1>14, <1>15, <1>16, <1>17
     DEF Next, Step, Statement, Fault, Terminated

LEMMA TypeOKStep == ASSUME TypeInv, [Next]_vars PROVE TypeOK'
<1> USE DEF TypeInv, TypeOK, FiniteStore, At, Goto, Fail, locals, tables, Steps
<1>1. ASSUME NEW t \in Transactions, NEW o \in Operations, Call(t, o)
      PROVE  TypeOK'
  BY <1>1 DEF Call
<1>2. ASSUME NEW t \in Transactions, CallInsert(t)
      PROVE  TypeOK'
  <2>1. PICK links \in [1 .. BatchSize -> Live] : todo' = [todo EXCEPT ![t] = links]
    BY <1>2 DEF CallInsert
  <2>2. links \in Seq(Links)
    BY <2>1, BatchFact, BoundsAssumption DEF Live
  <2>3. todo' \in [Transactions -> Rows]
    BY <2>1, <2>2 DEF Rows
  <2> QED BY <1>2, <2>3 DEF CallInsert, Operations
<1>3. ASSUME NEW t \in Transactions, Checkout(t)
      PROVE  TypeOK'
  <2>1. holding' \subseteq Transactions /\ Cardinality(holding') <= PoolSize
    <3>1. Cardinality(holding) \in Nat
      BY FS_CardinalityType
    <3>2. Cardinality(holding \cup {t}) =
              IF t \in holding THEN Cardinality(holding) ELSE Cardinality(holding) + 1
      BY FS_AddElement
    <3> QED BY <1>3, <3>1, <3>2, BoundsAssumption DEF Checkout
  <2> QED BY <1>3, <2>1 DEF Checkout
<1>4. ASSUME NEW t \in Transactions, CheckoutTimesOut(t) \/ ConnectFails(t)
      PROVE  TypeOK'
  BY <1>4 DEF CheckoutTimesOut, ConnectFails
<1>5. ASSUME NEW t \in Transactions, Attempt(t)
      PROVE  TypeOK'
  <2>1. PICK codes \in NewCodes(RowsOf(op[t])) : todo' = [todo EXCEPT ![t] = codes]
    BY <1>5 DEF Attempt
  <2>2. codes \in Seq(Codes)
    BY <2>1, BatchFact, RowsFact DEF NewCodes
  <2>3. todo' \in [Transactions -> Rows]
    BY <2>1, <2>2 DEF Rows
  <2> QED BY <1>5, <2>3 DEF Attempt
<1>6. ASSUME NEW t \in Transactions, InsertLink(t)
      PROVE  TypeOK'
  <2>1. todo[t] \in Seq(Codes) /\ todo[t] # <<>>
    BY <1>6 DEF InsertLink, TodoShape, Creations
  <2>2. Tail(todo[t]) \in Seq(Codes)
    BY <2>1, RowsLeft
  <2>3. todo' \in [Transactions -> Rows]
    BY <1>6, <2>2 DEF InsertLink, Rows
  <2>4. at' \in [Transactions -> Steps]
    BY <1>6 DEF InsertLink
  <2> QED BY <1>6, <2>3, <2>4 DEF InsertLink
<1>7. ASSUME NEW t \in Transactions, Collide(t)
      PROVE  TypeOK'
  <2>1. todo' \in [Transactions -> Rows]
    BY <1>7 DEF Collide, Rows
  <2>2. attempt' \in [Transactions -> 1 .. MaxAttempts]
    <3>1. attempt[t] \in Nat /\ attempt[t] >= 1 /\ MaxAttempts \in Nat
      BY BoundsAssumption
    <3>2. attempt[t] < MaxAttempts => attempt[t] + 1 \in 1 .. MaxAttempts
      BY <3>1
    <3>3. \/ attempt' = attempt
          \/ attempt[t] < MaxAttempts /\ attempt' = [attempt EXCEPT ![t] = attempt[t] + 1]
      BY <1>7 DEF Collide
    <3> QED BY <3>2, <3>3
  <2>3. urls' \in [Codes -> Transactions \cup {"before", None}]
    BY <1>7 DEF Collide
  <2> QED BY <1>7, <2>1, <2>2, <2>3 DEF Collide
<1>8. ASSUME NEW t \in Transactions, NEW c \in Codes, Find(t, c)
      PROVE  TypeOK'
  <2>1. CASE Visible(c)
    <3>1. [code |-> c, by |-> urls[c]] \in Links
      BY <2>1 DEF Visible, Links
    <3> QED BY <1>8, <2>1, <3>1 DEF Find
  <2> QED BY <1>8, <2>1 DEF Find
<1>9. ASSUME NEW t \in Transactions, Remove(t)
      PROVE  TypeOK'
  BY <1>9 DEF Remove
<1>10. ASSUME NEW t \in Transactions, GetList(t)
       PROVE  TypeOK'
  <2>1. listed' \in [Transactions -> [page : SUBSET Clicks, total : Nat]]
    BY <1>10, CountType DEF GetList, ReadPage, CountClicks
  <2> QED BY <1>10, <2>1 DEF GetList, ReadPage, CountClicks
<1>11. ASSUME NEW t \in Transactions, InsertClick(t)
       PROVE  TypeOK'
  <2>1. todo[t] \in Seq(Links) /\ todo[t] # <<>> /\ Len(todo[t]) <= BatchSize
    BY <1>11 DEF InsertClick, TodoShape
  <2>2. /\ Head(todo[t]) \in Links /\ Tail(todo[t]) \in Seq(Links)
        /\ Len(todo[t]) \in Nat /\ Len(todo[t]) > 0
    BY <2>1, RowsLeft
  <2>3. BatchSize + 1 - Len(todo[t]) \in 1 .. BatchSize
    BY <2>1, <2>2, BoundsAssumption
  <2>4. clicks' \subseteq Clicks
    BY <1>11, <2>2, <2>3 DEF InsertClick, Clicks
  <2>5. todo' \in [Transactions -> Rows]
    BY <1>11, <2>2 DEF InsertClick, Rows
  <2> QED BY <1>11, <2>4, <2>5 DEF InsertClick
<1>12. ASSUME NEW t \in Transactions,
              ForeignKeyFails(t) \/ DeadlockDetected(t) \/ StatementFails(t)
       PROVE  TypeOK'
  BY <1>12 DEF ForeignKeyFails, DeadlockDetected, StatementFails
<1>13. ASSUME NEW t \in Transactions, Commit(t) \/ Rollback(t)
       PROVE  TypeOK'
  BY <1>13, TablesType DEF Commit, Rollback
<1>14. ASSUME NEW t \in Transactions, CommitRefused(t)
       PROVE  TypeOK'
  <2>1. Undo(t)
    BY <1>14 DEF CommitRefused
  <2> QED BY <1>14, <2>1, TablesType DEF CommitRefused
<1>15. ASSUME NEW t \in Transactions, CommitBreaks(t) \/ RollbackBreaks(t)
       PROVE  TypeOK'
  BY <1>15, TablesType, ReleaseType DEF CommitBreaks, RollbackBreaks
<1>16. ASSUME NEW t \in Transactions, Close(t)
       PROVE  TypeOK'
  BY <1>16, ReleaseType DEF Close
<1>17. CASE UNCHANGED vars
  BY <1>17 DEF vars
<1> QED
  BY <1>1, <1>2, <1>3, <1>4, <1>5, <1>6, <1>7, <1>8, <1>9,
     <1>10, <1>11, <1>12, <1>13, <1>14, <1>15, <1>16, <1>17
     DEF Next, Step, Statement, Fault, Terminated

LEMMA FiniteStep == ASSUME TypeInv, [Next]_vars PROVE FiniteStore'
<1>1. ASSUME NEW t \in Transactions, Checkout(t)
      PROVE  FiniteStore'
  BY <1>1, FS_AddElement DEF Checkout, TypeInv, FiniteStore, tables
<1>2. ASSUME NEW t \in Transactions, InsertClick(t)
      PROVE  FiniteStore'
  BY <1>2, FS_AddElement DEF InsertClick, TypeInv, FiniteStore
<1>3. ASSUME holding' \subseteq holding, clicks' \subseteq clicks
      PROVE  FiniteStore'
  BY <1>3, FS_Subset DEF TypeInv, FiniteStore
<1>4. ASSUME NEW t \in Transactions,
             Statement(t) \/ Fault(t) \/ Commit(t) \/ Rollback(t) \/ Close(t), ~InsertClick(t)
      PROVE  holding' \subseteq holding /\ clicks' \subseteq clicks
  BY <1>4 DEF Statement, Fault, Commit, Rollback, Close, Attempt, InsertLink, Collide, Find, Remove,
       GetList, ReadPage, CountClicks, ForeignKeyFails, DeadlockDetected, ConnectFails,
       StatementFails, CommitBreaks, CommitRefused, RollbackBreaks, TakeEffect, Undo, Release,
       locals, tables
<1>5. ASSUME NEW t \in Transactions,
             CallInsert(t) \/ CheckoutTimesOut(t) \/ \E o \in Operations : Call(t, o)
      PROVE  holding' \subseteq holding /\ clicks' \subseteq clicks
  BY <1>5 DEF CallInsert, CheckoutTimesOut, Call, tables
<1>6. CASE UNCHANGED vars
  BY <1>3, <1>6 DEF vars
<1> QED
  BY <1>1, <1>2, <1>3, <1>4, <1>5, <1>6 DEF Next, Step, Terminated

LEMMA TypeStep == TypeInv /\ [Next]_vars => TypeInv'
BY CallShapeStep, TodoShapeStep, TypeOKStep, FiniteStep DEF TypeInv

\* Every variable keeps its type in every reachable state, and the pool never lends more
\* connections than it has: each handler returns the one it took, or keeps it.
THEOREM TypeCorrect == Spec => []TypeOK
<1>1. TypeInv => TypeOK
  BY DEF TypeInv
<1> QED
  BY <1>1, TypeInit, TypeStep, PTL DEF Spec

-----------------------------------------------------------------------------
(***************************************************************************)
(* The store: whose rows the tables hold, and where their owners are.      *)
(***************************************************************************)

\* A transaction that has committed has only its connection to give back.
CommittedAtEnd == \A t \in committed : at[t] \in {"close", "done"}

\* Nobody is told before the end.
AnsweredAtEnd == \A t \in Transactions : answer[t] = "none" <=> ~Ended(t)

\* Clicks are stored on, and deletes and listings are of, links of committed transactions.
KnownLinks == \A t \in Transactions :
    /\ at[t] = "insert" /\ op[t] = "insert_many" =>
          \A i \in 1 .. Len(todo[t]) : todo[t][i].by \in committed \cup {"before"}
    /\ at[t] \in {"remove", "page", "count"} => target[t].by \in committed \cup {"before"}

\* Who has inserted a link and not ended is inserting still, or about to end; a single
\* create has inserted its link with its only INSERT.
InsertersShape == \A c \in Codes, t \in Transactions : urls[c] = t /\ t \notin committed =>
    /\ op[t] \in Creations
    /\ at[t] \in {"insert", "commit", "rollback"}
    /\ op[t] = "create" => at[t] # "insert"

\* Who has deleted a link has only COMMIT before it, and the link is still what it selected.
DeletersShape == \A c \in Codes, t \in Transactions : deleting[c] = t =>
    /\ op[t] = "delete" /\ at[t] = "commit"
    /\ target[t] \in Links /\ target[t].code = c /\ target[t].by = urls[c]
    /\ Visible(c)

\* A click has its link, and the link of a click that is not committed is not deleted.
ClicksShape == \A k \in clicks :
    /\ Exists(k.link) /\ Visible(k.link.code)
    /\ k.by \notin committed =>
          /\ op[k.by] = "insert_many"
          /\ at[k.by] \in {"insert", "commit", "rollback"}
          /\ deleting[k.link.code] = None

StoreInv == /\ CommittedAtEnd /\ AnsweredAtEnd /\ KnownLinks
            /\ InsertersShape /\ DeletersShape /\ ClicksShape

LEMMA StoreInit == Init => StoreInv
<1> SUFFICES ASSUME Init PROVE StoreInv
  OBVIOUS
<1>1. CommittedAtEnd /\ AnsweredAtEnd /\ KnownLinks /\ ClicksShape
  BY DEF Init, CommittedAtEnd, AnsweredAtEnd, KnownLinks, ClicksShape, Ended
<1>2. InsertersShape /\ DeletersShape
  BY NoneAssumption DEF Init, InsertersShape, DeletersShape
<1> QED BY <1>1, <1>2 DEF StoreInv

LEMMA CommittedStep ==
    ASSUME TypeInv, StoreInv, [Next]_vars
    PROVE  CommittedAtEnd'
<1> USE DEF StoreInv, CommittedAtEnd, TypeInv, TypeOK, At, Goto, Fail, locals, tables
<1>1. ASSUME NEW t \in Transactions, NEW o \in Operations, Call(t, o)
      PROVE  CommittedAtEnd'
  BY <1>1 DEF Call
<1>2. ASSUME NEW t \in Transactions, CallInsert(t)
      PROVE  CommittedAtEnd'
  BY <1>2 DEF CallInsert
<1>3. ASSUME NEW t \in Transactions,
             Checkout(t) \/ CheckoutTimesOut(t) \/ ConnectFails(t)
      PROVE  CommittedAtEnd'
  BY <1>3 DEF Checkout, CheckoutTimesOut, ConnectFails
<1>4. ASSUME NEW t \in Transactions, Attempt(t)
      PROVE  CommittedAtEnd'
  BY <1>4 DEF Attempt
<1>5. ASSUME NEW t \in Transactions, InsertLink(t)
      PROVE  CommittedAtEnd'
  BY <1>5 DEF InsertLink
<1>6. ASSUME NEW t \in Transactions, Collide(t)
      PROVE  CommittedAtEnd'
  BY <1>6 DEF Collide
<1>7. ASSUME NEW t \in Transactions, NEW c \in Codes, Find(t, c)
      PROVE  CommittedAtEnd'
  BY <1>7 DEF Find
<1>8. ASSUME NEW t \in Transactions, Remove(t)
      PROVE  CommittedAtEnd'
  BY <1>8 DEF Remove
<1>9. ASSUME NEW t \in Transactions, GetList(t)
      PROVE  CommittedAtEnd'
  BY <1>9 DEF GetList, ReadPage, CountClicks
<1>10. ASSUME NEW t \in Transactions, InsertClick(t)
       PROVE  CommittedAtEnd'
  BY <1>10 DEF InsertClick
<1>11. ASSUME NEW t \in Transactions,
              ForeignKeyFails(t) \/ DeadlockDetected(t) \/ StatementFails(t)
       PROVE  CommittedAtEnd'
  BY <1>11, WaitingPlaces DEF ForeignKeyFails, DeadlockDetected, StatementFails
<1>12. ASSUME NEW t \in Transactions, Commit(t)
       PROVE  CommittedAtEnd'
  BY <1>12 DEF Commit, TakeEffect
<1>13. ASSUME NEW t \in Transactions, Rollback(t) \/ RollbackBreaks(t)
       PROVE  CommittedAtEnd'
  BY <1>13 DEF Rollback, RollbackBreaks, Undo
<1>14. ASSUME NEW t \in Transactions, CommitRefused(t)
       PROVE  CommittedAtEnd'
  BY <1>14 DEF CommitRefused, Undo
<1>15. ASSUME NEW t \in Transactions, CommitBreaks(t)
       PROVE  CommittedAtEnd'
  BY <1>15 DEF CommitBreaks, TakeEffect, Undo
<1>16. ASSUME NEW t \in Transactions, Close(t)
       PROVE  CommittedAtEnd'
  BY <1>16 DEF Close
<1>17. CASE UNCHANGED vars
  BY <1>17 DEF vars
<1> QED
  BY <1>1, <1>2, <1>3, <1>4, <1>5, <1>6, <1>7, <1>8, <1>9, <1>10, <1>11,
     <1>12, <1>13, <1>14, <1>15, <1>16, <1>17
     DEF Next, Step, Statement, Fault, Terminated

LEMMA AnsweredStep ==
    ASSUME TypeInv, StoreInv, [Next]_vars
    PROVE  AnsweredAtEnd'
<1> USE DEF StoreInv, AnsweredAtEnd, Ended, TypeInv, TypeOK, At, Goto, Fail, locals, tables
<1>1. ASSUME NEW t \in Transactions, NEW o \in Operations, Call(t, o)
      PROVE  AnsweredAtEnd'
  BY <1>1 DEF Call
<1>2. ASSUME NEW t \in Transactions, CallInsert(t)
      PROVE  AnsweredAtEnd'
  BY <1>2 DEF CallInsert
<1>3. ASSUME NEW t \in Transactions,
             Checkout(t) \/ CheckoutTimesOut(t) \/ ConnectFails(t)
      PROVE  AnsweredAtEnd'
  BY <1>3 DEF Checkout, CheckoutTimesOut, ConnectFails
<1>4. ASSUME NEW t \in Transactions, Attempt(t)
      PROVE  AnsweredAtEnd'
  BY <1>4 DEF Attempt
<1>5. ASSUME NEW t \in Transactions, InsertLink(t)
      PROVE  AnsweredAtEnd'
  BY <1>5 DEF InsertLink
<1>6. ASSUME NEW t \in Transactions, Collide(t)
      PROVE  AnsweredAtEnd'
  BY <1>6 DEF Collide
<1>7. ASSUME NEW t \in Transactions, NEW c \in Codes, Find(t, c)
      PROVE  AnsweredAtEnd'
  BY <1>7 DEF Find
<1>8. ASSUME NEW t \in Transactions, Remove(t)
      PROVE  AnsweredAtEnd'
  BY <1>8 DEF Remove
<1>9. ASSUME NEW t \in Transactions, GetList(t)
      PROVE  AnsweredAtEnd'
  BY <1>9 DEF GetList, ReadPage, CountClicks
<1>10. ASSUME NEW t \in Transactions, InsertClick(t)
       PROVE  AnsweredAtEnd'
  BY <1>10 DEF InsertClick
<1>11. ASSUME NEW t \in Transactions,
              ForeignKeyFails(t) \/ DeadlockDetected(t) \/ StatementFails(t)
       PROVE  AnsweredAtEnd'
  BY <1>11, WaitingPlaces DEF ForeignKeyFails, DeadlockDetected, StatementFails
<1>12. ASSUME NEW t \in Transactions, Commit(t)
       PROVE  AnsweredAtEnd'
  BY <1>12 DEF Commit, TakeEffect
<1>13. ASSUME NEW t \in Transactions, Rollback(t) \/ RollbackBreaks(t)
       PROVE  AnsweredAtEnd'
  BY <1>13 DEF Rollback, RollbackBreaks, Undo
<1>14. ASSUME NEW t \in Transactions, CommitRefused(t)
       PROVE  AnsweredAtEnd'
  BY <1>14 DEF CommitRefused, Undo
<1>15. ASSUME NEW t \in Transactions, CommitBreaks(t)
       PROVE  AnsweredAtEnd'
  BY <1>15 DEF CommitBreaks, TakeEffect, Undo
<1>16. ASSUME NEW t \in Transactions, Close(t)
       PROVE  AnsweredAtEnd'
  BY <1>16 DEF Close
<1>17. CASE UNCHANGED vars
  BY <1>17 DEF vars
<1> QED
  BY <1>1, <1>2, <1>3, <1>4, <1>5, <1>6, <1>7, <1>8, <1>9, <1>10, <1>11,
     <1>12, <1>13, <1>14, <1>15, <1>16, <1>17
     DEF Next, Step, Statement, Fault, Terminated

LEMMA ClickFacts == ASSUME TypeOK
                    PROVE  \A k \in clicks : /\ k.by \in Transactions /\ k.nth \in 1 .. BatchSize
                                              /\ k.link \in Links /\ k.link.code \in Codes
                                              /\ k.link.by \in Transactions \cup {"before"}
BY DEF TypeOK, Clicks, Links

LEMMA KnownLinksStep ==
    ASSUME TypeInv, StoreInv, [Next]_vars
    PROVE  KnownLinks'
<1> USE DEF StoreInv, CommittedAtEnd, KnownLinks, TypeInv, TypeOK, CallShape, At, Goto, Fail,
            locals, tables
<1>1. ASSUME NEW t \in Transactions, NEW o \in Operations, Call(t, o)
      PROVE  KnownLinks'
  BY <1>1 DEF Call
<1>2. ASSUME NEW t \in Transactions, CallInsert(t)
      PROVE  KnownLinks'
  <2>1. PICK links \in [1 .. BatchSize -> Live] : todo' = [todo EXCEPT ![t] = links]
    BY <1>2 DEF CallInsert
  <2>2. Len(links) = BatchSize
    BY <2>1, BatchFact, BoundsAssumption
  <2>3. \A i \in 1 .. Len(links) : links[i].by \in committed \cup {"before"}
    BY <2>1, <2>2 DEF Live, Visible
  <2> QED BY <1>2, <2>1, <2>3 DEF CallInsert
<1>3. ASSUME NEW t \in Transactions,
             Checkout(t) \/ CheckoutTimesOut(t) \/ ConnectFails(t)
      PROVE  KnownLinks'
  BY <1>3 DEF Checkout, CheckoutTimesOut, ConnectFails
<1>4. ASSUME NEW t \in Transactions, Attempt(t)
      PROVE  KnownLinks'
  BY <1>4 DEF Attempt, Creations
<1>5. ASSUME NEW t \in Transactions, InsertLink(t)
      PROVE  KnownLinks'
  BY <1>5 DEF InsertLink
<1>6. ASSUME NEW t \in Transactions, Collide(t)
      PROVE  KnownLinks'
  BY <1>6 DEF Collide
<1>7. ASSUME NEW t \in Transactions, NEW c \in Codes, Find(t, c)
      PROVE  KnownLinks'
  BY <1>7 DEF Find, Visible, Links
<1>8. ASSUME NEW t \in Transactions, Remove(t)
      PROVE  KnownLinks'
  BY <1>8 DEF Remove
<1>9. ASSUME NEW t \in Transactions, GetList(t)
      PROVE  KnownLinks'
  BY <1>9 DEF GetList, ReadPage, CountClicks
<1>10. ASSUME NEW t \in Transactions, InsertClick(t)
       PROVE  KnownLinks'
  BY <1>10 DEF InsertClick
<1>11. ASSUME NEW t \in Transactions,
              ForeignKeyFails(t) \/ DeadlockDetected(t) \/ StatementFails(t)
       PROVE  KnownLinks'
  BY <1>11, WaitingPlaces DEF ForeignKeyFails, DeadlockDetected, StatementFails
<1>12. ASSUME NEW t \in Transactions, Commit(t)
       PROVE  KnownLinks'
  BY <1>12 DEF Commit, TakeEffect
<1>13. ASSUME NEW t \in Transactions, Rollback(t) \/ RollbackBreaks(t)
       PROVE  KnownLinks'
  BY <1>13 DEF Rollback, RollbackBreaks, Undo
<1>14. ASSUME NEW t \in Transactions, CommitRefused(t)
       PROVE  KnownLinks'
  BY <1>14 DEF CommitRefused, Undo
<1>15. ASSUME NEW t \in Transactions, CommitBreaks(t)
       PROVE  KnownLinks'
  BY <1>15 DEF CommitBreaks, TakeEffect, Undo
<1>16. ASSUME NEW t \in Transactions, Close(t)
       PROVE  KnownLinks'
  BY <1>16 DEF Close
<1>17. CASE UNCHANGED vars
  BY <1>17 DEF vars
<1> QED
  BY <1>1, <1>2, <1>3, <1>4, <1>5, <1>6, <1>7, <1>8, <1>9, <1>10, <1>11,
     <1>12, <1>13, <1>14, <1>15, <1>16, <1>17
     DEF Next, Step, Statement, Fault, Terminated

LEMMA InsertersStep ==
    ASSUME TypeInv, StoreInv, [Next]_vars
    PROVE  InsertersShape'
<1>a. /\ op \in [Transactions -> Operations \cup {None}] /\ at \in [Transactions -> Steps]
      /\ urls \in [Codes -> Transactions \cup {"before", None}] /\ committed \subseteq Transactions
  BY DEF TypeInv, TypeOK
<1>b. /\ \A t \in committed : at[t] \in {"close", "done"}
      /\ InsertersShape
  BY DEF StoreInv, CommittedAtEnd
<1> USE <1>a, <1>b, NoneAssumption DEF InsertersShape, At, Goto, Fail, locals, tables
<1>1. ASSUME NEW t \in Transactions, NEW o \in Operations, Call(t, o)
      PROVE  InsertersShape'
  BY <1>1 DEF Call
<1>2. ASSUME NEW t \in Transactions, CallInsert(t)
      PROVE  InsertersShape'
  BY <1>2 DEF CallInsert
<1>3. ASSUME NEW t \in Transactions,
             Checkout(t) \/ CheckoutTimesOut(t) \/ ConnectFails(t)
      PROVE  InsertersShape'
  BY <1>3 DEF Checkout, CheckoutTimesOut, ConnectFails
<1>4. ASSUME NEW t \in Transactions, Attempt(t)
      PROVE  InsertersShape'
  BY <1>4 DEF Attempt
<1>5. ASSUME NEW t \in Transactions, InsertLink(t)
      PROVE  InsertersShape'
  <2>1. /\ todo[t] \in Seq(Codes) /\ todo[t] # <<>>
        /\ op[t] = "create" => Len(todo[t]) <= 1
    BY <1>5 DEF InsertLink, TypeInv, TodoShape, Creations, RowsOf
  <2>2. Head(todo[t]) \in Codes /\ op[t] = "create" => ~(Len(todo[t]) > 1)
    BY <2>1, RowsLeft
  <2> QED BY <1>5, <2>2 DEF InsertLink
<1>6. ASSUME NEW t \in Transactions, Collide(t)
      PROVE  InsertersShape'
  BY <1>6 DEF Collide
<1>7. ASSUME NEW t \in Transactions, NEW c \in Codes, Find(t, c)
      PROVE  InsertersShape'
  BY <1>7 DEF Find
<1>8. ASSUME NEW t \in Transactions, Remove(t)
      PROVE  InsertersShape'
  BY <1>8 DEF Remove
<1>9. ASSUME NEW t \in Transactions, GetList(t)
      PROVE  InsertersShape'
  BY <1>9 DEF GetList, ReadPage, CountClicks
<1>10. ASSUME NEW t \in Transactions, InsertClick(t)
       PROVE  InsertersShape'
  BY <1>10 DEF InsertClick
<1>11. ASSUME NEW t \in Transactions,
              ForeignKeyFails(t) \/ DeadlockDetected(t) \/ StatementFails(t)
       PROVE  InsertersShape'
  BY <1>11, WaitingPlaces DEF ForeignKeyFails, DeadlockDetected, StatementFails
<1>12. ASSUME NEW t \in Transactions, Commit(t)
       PROVE  InsertersShape'
  BY <1>12 DEF Commit, TakeEffect
<1>13. ASSUME NEW t \in Transactions, Rollback(t) \/ RollbackBreaks(t)
       PROVE  InsertersShape'
  BY <1>13 DEF Rollback, RollbackBreaks, Undo
<1>14. ASSUME NEW t \in Transactions, CommitRefused(t)
       PROVE  InsertersShape'
  BY <1>14 DEF CommitRefused, Undo
<1>15. ASSUME NEW t \in Transactions, CommitBreaks(t)
       PROVE  InsertersShape'
  BY <1>15 DEF CommitBreaks, TakeEffect, Undo
<1>16. ASSUME NEW t \in Transactions, Close(t)
       PROVE  InsertersShape'
  BY <1>16 DEF Close
<1>17. CASE UNCHANGED vars
  BY <1>17 DEF vars
<1> QED
  BY <1>1, <1>2, <1>3, <1>4, <1>5, <1>6, <1>7, <1>8, <1>9, <1>10, <1>11,
     <1>12, <1>13, <1>14, <1>15, <1>16, <1>17
     DEF Next, Step, Statement, Fault, Terminated

LEMMA DeletersStep ==
    ASSUME TypeInv, StoreInv, [Next]_vars
    PROVE  DeletersShape'
<1>a. /\ op \in [Transactions -> Operations \cup {None}] /\ at \in [Transactions -> Steps]
      /\ target \in [Transactions -> Links \cup {None}]
      /\ urls \in [Codes -> Transactions \cup {"before", None}] /\ committed \subseteq Transactions
      /\ deleting \in [Codes -> Transactions \cup {None}]
  BY DEF TypeInv, TypeOK
<1>b. /\ \A t \in committed : at[t] \in {"close", "done"}
      /\ DeletersShape
  BY DEF StoreInv, CommittedAtEnd
<1> USE <1>a, <1>b, NoneAssumption DEF DeletersShape, Visible, At, Goto, Fail, locals, tables
<1>1. ASSUME NEW t \in Transactions, NEW o \in Operations, Call(t, o)
      PROVE  DeletersShape'
  BY <1>1 DEF Call
<1>2. ASSUME NEW t \in Transactions, CallInsert(t)
      PROVE  DeletersShape'
  BY <1>2 DEF CallInsert
<1>3. ASSUME NEW t \in Transactions,
             Checkout(t) \/ CheckoutTimesOut(t) \/ ConnectFails(t)
      PROVE  DeletersShape'
  BY <1>3 DEF Checkout, CheckoutTimesOut, ConnectFails
<1>4. ASSUME NEW t \in Transactions, Attempt(t)
      PROVE  DeletersShape'
  BY <1>4 DEF Attempt
<1>5. ASSUME NEW t \in Transactions, InsertLink(t)
      PROVE  DeletersShape'
  BY <1>5 DEF InsertLink
<1>6. ASSUME NEW t \in Transactions, Collide(t)
      PROVE  DeletersShape'
  BY <1>6 DEF Collide
<1>7. ASSUME NEW t \in Transactions, NEW c \in Codes, Find(t, c)
      PROVE  DeletersShape'
  BY <1>7 DEF Find
<1>8. ASSUME NEW t \in Transactions, Remove(t)
      PROVE  DeletersShape'
  <2>1. target[t] \in Links /\ op[t] = "delete"
    BY <1>8 DEF Remove, TypeInv, CallShape
  <2>2. target[t].code \in Codes /\ target[t].by \in Transactions \cup {"before"}
    BY <2>1 DEF Links
  <2>3. CASE Exists(target[t])
    <3>1. target[t].by \in committed \cup {"before"}
      BY <1>8 DEF Remove, StoreInv, KnownLinks
    <3> QED BY <1>8, <2>1, <2>2, <2>3, <3>1 DEF Remove, Exists
  <2>4. CASE ~Exists(target[t])
    BY <1>8, <2>4 DEF Remove
  <2> QED BY <2>3, <2>4
<1>9. ASSUME NEW t \in Transactions, GetList(t)
      PROVE  DeletersShape'
  BY <1>9 DEF GetList, ReadPage, CountClicks
<1>10. ASSUME NEW t \in Transactions, InsertClick(t)
       PROVE  DeletersShape'
  BY <1>10 DEF InsertClick
<1>11. ASSUME NEW t \in Transactions,
              ForeignKeyFails(t) \/ DeadlockDetected(t) \/ StatementFails(t)
       PROVE  DeletersShape'
  BY <1>11, WaitingPlaces DEF ForeignKeyFails, DeadlockDetected, StatementFails
<1>12. ASSUME NEW t \in Transactions, Commit(t)
       PROVE  DeletersShape'
  BY <1>12 DEF Commit, TakeEffect
<1>13. ASSUME NEW t \in Transactions, Rollback(t) \/ RollbackBreaks(t)
       PROVE  DeletersShape'
  BY <1>13 DEF Rollback, RollbackBreaks, Undo
<1>14. ASSUME NEW t \in Transactions, CommitRefused(t)
       PROVE  DeletersShape'
  BY <1>14 DEF CommitRefused, Undo
<1>15. ASSUME NEW t \in Transactions, CommitBreaks(t)
       PROVE  DeletersShape'
  BY <1>15 DEF CommitBreaks, TakeEffect, Undo
<1>16. ASSUME NEW t \in Transactions, Close(t)
       PROVE  DeletersShape'
  BY <1>16 DEF Close
<1>17. CASE UNCHANGED vars
  BY <1>17 DEF vars
<1> QED
  BY <1>1, <1>2, <1>3, <1>4, <1>5, <1>6, <1>7, <1>8, <1>9, <1>10, <1>11,
     <1>12, <1>13, <1>14, <1>15, <1>16, <1>17
     DEF Next, Step, Statement, Fault, Terminated

LEMMA ClicksStep ==
    ASSUME TypeInv, StoreInv, [Next]_vars
    PROVE  ClicksShape'
<1>a. /\ op \in [Transactions -> Operations \cup {None}] /\ at \in [Transactions -> Steps]
      /\ urls \in [Codes -> Transactions \cup {"before", None}] /\ committed \subseteq Transactions
      /\ deleting \in [Codes -> Transactions \cup {None}]
      /\ \A k \in clicks : /\ k.by \in Transactions
                             /\ k.link \in Links /\ k.link.code \in Codes
  BY ClickFacts DEF TypeInv, TypeOK
<1>b. /\ \A t \in committed : at[t] \in {"close", "done"}
      /\ ClicksShape
  BY DEF StoreInv, CommittedAtEnd
<1> USE <1>a, <1>b, NoneAssumption DEF ClicksShape, Exists, Visible, At, Goto, Fail, locals, tables
<1>1. ASSUME NEW t \in Transactions, NEW o \in Operations, Call(t, o)
      PROVE  ClicksShape'
  BY <1>1 DEF Call
<1>2. ASSUME NEW t \in Transactions, CallInsert(t)
      PROVE  ClicksShape'
  BY <1>2 DEF CallInsert
<1>3. ASSUME NEW t \in Transactions,
             Checkout(t) \/ CheckoutTimesOut(t) \/ ConnectFails(t)
      PROVE  ClicksShape'
  BY <1>3 DEF Checkout, CheckoutTimesOut, ConnectFails
<1>4. ASSUME NEW t \in Transactions, Attempt(t)
      PROVE  ClicksShape'
  BY <1>4 DEF Attempt
<1>5. ASSUME NEW t \in Transactions, InsertLink(t)
      PROVE  ClicksShape'
  BY <1>5 DEF InsertLink
<1>6. ASSUME NEW t \in Transactions, Collide(t)
      PROVE  ClicksShape'
  BY <1>6 DEF Collide, Creations
<1>7. ASSUME NEW t \in Transactions, NEW c \in Codes, Find(t, c)
      PROVE  ClicksShape'
  BY <1>7 DEF Find
<1>8. ASSUME NEW t \in Transactions, Remove(t)
      PROVE  ClicksShape'
  <2>1. target[t] \in Links /\ op[t] = "delete"
    BY <1>8 DEF Remove, TypeInv, CallShape
  <2>2. CASE Exists(target[t])
    <3>1. ASSUME NEW k \in clicks, k.link.code = target[t].code, k.by \notin committed
          PROVE  FALSE
      <4>1. k.link = target[t]
        BY <2>1, <2>2, <3>1 DEF Links
      <4>2. k.by \in Referring(target[t])
        BY <3>1, <4>1 DEF Referring
      <4> QED BY <1>8, <2>2, <4>2 DEF Remove
    <3> QED BY <1>8, <2>1, <2>2, <3>1 DEF Remove, Links
  <2>3. CASE ~Exists(target[t])
    BY <1>8, <2>1, <2>3 DEF Remove
  <2> QED BY <2>2, <2>3
<1>9. ASSUME NEW t \in Transactions, GetList(t)
      PROVE  ClicksShape'
  BY <1>9 DEF GetList, ReadPage, CountClicks
<1>10. ASSUME NEW t \in Transactions, InsertClick(t)
       PROVE  ClicksShape'
  <2> DEFINE l == Head(todo[t])
             new == [link |-> l, by |-> t, nth |-> BatchSize + 1 - Len(todo[t])]
  <2>1. todo[t] \in Seq(Links) /\ todo[t] # <<>>
    BY <1>10 DEF InsertClick, TypeInv, TodoShape
  <2>2. l \in Links /\ l.code \in Codes /\ l = todo[t][1] /\ 1 \in 1 .. Len(todo[t])
    <3>1. l \in Links /\ Len(todo[t]) \in Nat /\ Len(todo[t]) > 0
      BY <2>1, RowsLeft
    <3>2. Head(todo[t]) = todo[t][1]
      BY <2>1
    <3> QED BY <3>1, <3>2 DEF Links
  <2>3. l.by \in committed \cup {"before"}
    BY <1>10, <2>2 DEF InsertClick, StoreInv, KnownLinks
  <2>4. clicks' = clicks \cup {new} /\ new.link = l /\ new.by = t
    BY <1>10 DEF InsertClick
  <2>5. Exists(l) /\ deleting[l.code] = None /\ UNCHANGED <<op, urls, deleting, committed>>
    BY <1>10 DEF InsertClick
  <2>6. op[t] = "insert_many" /\ at' = [at EXCEPT ![t] = at'[t]] /\ at'[t] \in {"insert", "commit"}
    BY <1>10 DEF InsertClick
  <2> HIDE DEF l, new
  <2> QED BY <2>2, <2>3, <2>4, <2>5, <2>6
<1>11. ASSUME NEW t \in Transactions,
              ForeignKeyFails(t) \/ DeadlockDetected(t) \/ StatementFails(t)
       PROVE  ClicksShape'
  BY <1>11, WaitingPlaces DEF ForeignKeyFails, DeadlockDetected, StatementFails
<1>12. ASSUME NEW t \in Transactions, Commit(t)
       PROVE  ClicksShape'
  BY <1>12 DEF Commit, TakeEffect
<1>13. ASSUME NEW t \in Transactions, Rollback(t) \/ RollbackBreaks(t)
       PROVE  ClicksShape'
  BY <1>13 DEF Rollback, RollbackBreaks, Undo
<1>14. ASSUME NEW t \in Transactions, CommitRefused(t)
       PROVE  ClicksShape'
  BY <1>14 DEF CommitRefused, Undo
<1>15. ASSUME NEW t \in Transactions, CommitBreaks(t)
       PROVE  ClicksShape'
  BY <1>15 DEF CommitBreaks, TakeEffect, Undo
<1>16. ASSUME NEW t \in Transactions, Close(t)
       PROVE  ClicksShape'
  BY <1>16 DEF Close
<1>17. CASE UNCHANGED vars
  BY <1>17 DEF vars
<1> QED
  BY <1>1, <1>2, <1>3, <1>4, <1>5, <1>6, <1>7, <1>8, <1>9, <1>10, <1>11,
     <1>12, <1>13, <1>14, <1>15, <1>16, <1>17
     DEF Next, Step, Statement, Fault, Terminated

LEMMA StoreStep == TypeInv /\ StoreInv /\ [Next]_vars => StoreInv'
BY CommittedStep, AnsweredStep, KnownLinksStep, InsertersStep, DeletersStep, ClicksStep
   DEF StoreInv

\* The tables and the places of their transactions agree: who has uncommitted rows can
\* still commit or roll back, and a deleted link, or one with new clicks, is a known one.
THEOREM StoreCorrect == Spec => [](TypeInv /\ StoreInv)
<1>1. Init => TypeInv /\ StoreInv
  BY TypeInit, StoreInit
<1>2. TypeInv /\ StoreInv /\ [Next]_vars => (TypeInv /\ StoreInv)'
  BY TypeStep, StoreStep
<1> QED BY <1>1, <1>2, PTL DEF Spec

-----------------------------------------------------------------------------
(***************************************************************************)
(* Deadlocks. Who waits is at an INSERT or a DELETE; in a circle somebody  *)
(* waits for it in turn, so it has already changed a row.                  *)
(***************************************************************************)

\* Whom a transaction can wait for.
LEMMA WaitsForWhom ==
    ASSUME TypeInv, StoreInv, NEW p \in Transactions, NEW q \in WaitsFor(p)
    PROVE  \/ q \in Transactions /\ op[q] = "delete" /\ at[q] = "commit"
           \/ /\ op[p] = "delete" /\ op[q] = "insert_many" /\ q \in Transactions
           \/ /\ op[p] \in Creations /\ q \in Transactions /\ op[q] \in Creations
              /\ op[q] = "create" => at[q] # "insert"
<1>a. /\ urls \in [Codes -> Transactions \cup {"before", None}]
      /\ deleting \in [Codes -> Transactions \cup {None}]
  BY DEF TypeInv, TypeOK
<1>d. ASSUME NEW c \in Codes, q \in Deleter(c)
      PROVE  q \in Transactions /\ op[q] = "delete" /\ at[q] = "commit"
  BY <1>a, <1>d DEF Deleter, StoreInv, DeletersShape
<1>1. CASE At(p, "insert") /\ op[p] \in Creations
  <2> DEFINE c == Head(todo[p])
  <2>1. c \in Codes
    BY <1>1, RowsLeft DEF At, TypeInv, TodoShape
  <2>2. q \in (IF Visible(c) THEN Deleter(c) ELSE {urls[c]} \ {None})
    BY <1>1 DEF WaitsFor, At, Creations
  <2>3. CASE Visible(c)
    BY <1>d, <2>1, <2>2, <2>3
  <2>4. CASE ~Visible(c)
    <3>1. q = urls[c] /\ q \in Transactions /\ q \notin committed
      BY <1>a, <2>1, <2>2, <2>4 DEF Visible
    <3> QED BY <1>1, <2>1, <3>1 DEF StoreInv, InsertersShape
  <2> QED BY <2>3, <2>4
<1>2. CASE At(p, "insert") /\ op[p] = "insert_many"
  <2> DEFINE l == Head(todo[p])
  <2>1. l.code \in Codes
    <3>1. todo[p] \in Seq(Links) /\ todo[p] # <<>>
      BY <1>2 DEF At, TypeInv, TodoShape
    <3>2. l \in Links
      BY <3>1, RowsLeft
    <3> QED BY <3>2 DEF Links
  <2>2. q \in (IF Exists(l) THEN Deleter(l.code) ELSE {})
    BY <1>2 DEF WaitsFor, At, Creations
  <2> QED BY <1>d, <2>1, <2>2
<1>3. CASE At(p, "remove")
  <2> DEFINE l == target[p]
  <2>1. l.code \in Codes /\ op[p] = "delete"
    BY <1>3 DEF At, TypeInv, CallShape, Links
  <2>2. q \in (IF Exists(l) THEN Referring(l) \cup Deleter(l.code) ELSE {})
    BY <1>3 DEF WaitsFor, At
  <2>3. ASSUME q \in Referring(l)
        PROVE  q \in Transactions /\ op[q] = "insert_many"
    BY <2>3, ClickFacts DEF Referring, TypeInv, StoreInv, ClicksShape
  <2> QED BY <1>d, <2>1, <2>2, <2>3
<1> QED BY <1>1, <1>2, <1>3 DEF WaitsFor, At

\* Only batches of links deadlock: a delete, a bulk insert of clicks or a single create
\* is never part of a circle, however many transactions and connections there are.
THEOREM DeadlocksNeedBatches == Spec => []OnlyBatchesDeadlock
<1>1. ASSUME TypeInv, StoreInv, NEW t \in Transactions, InCircle(t)
      PROVE  op[t] = "create_many"
  <2>1. PICK S \in SUBSET {p \in Transactions : WaitsFor(p) # {}} :
            /\ t \in S
            /\ \A p \in S : WaitsFor(p) \cap S # {}
            /\ \A p \in S : \E q \in S : p \in WaitsFor(q)
    BY <1>1 DEF InCircle
  <2>2. \A p \in S : p \in Transactions /\ at[p] \in {"insert", "remove"}
    BY <2>1 DEF WaitsFor, At
  <2>3. \A p \in S : op[p] # "insert_many"
    <3> SUFFICES ASSUME NEW p \in S, op[p] = "insert_many" PROVE FALSE
      OBVIOUS
    <3>1. PICK q \in S : q \in WaitsFor(p)
      BY <2>1
    <3> QED BY <1>1, <2>2, <3>1, WaitsForWhom DEF Creations
  <2>4. \A p \in S : op[p] # "delete"
    <3> SUFFICES ASSUME NEW p \in S, op[p] = "delete" PROVE FALSE
      OBVIOUS
    <3>1. PICK q \in S : q \in WaitsFor(p)
      BY <2>1
    <3> QED BY <1>1, <2>2, <2>3, <3>1, WaitsForWhom DEF Creations
  <2>5. PICK q \in S : t \in WaitsFor(q)
    BY <2>1
  <2>6. op[t] \in Creations /\ (op[t] = "create" => at[t] # "insert")
    BY <1>1, <2>1, <2>2, <2>3, <2>4, <2>5, WaitsForWhom
  <2>7. at[t] = "insert"
    BY <1>1, <2>1, <2>2, <2>6 DEF TypeInv, CallShape, Creations
  <2> QED BY <2>6, <2>7 DEF Creations
<1>2. TypeInv /\ StoreInv => OnlyBatchesDeadlock
  BY <1>1 DEF OnlyBatchesDeadlock
<1> QED BY <1>2, StoreCorrect, PTL

-----------------------------------------------------------------------------
(***************************************************************************)
(* Whole batches: what a transaction has inserted and what it still has to *)
(* insert make up its batch, so that COMMIT stores all of it or nothing.   *)
(***************************************************************************)

Left(t) == IF at[t] = "insert" THEN Len(todo[t]) ELSE 0
Owned(t) == {c \in Codes : urls[c] = t}
Own(t) == {k \in clicks : k.by = t}

\* The links of a create, by their number: its attempts start over from none.
CreateWhole(t) == op[t] \in Creations /\ at[t] \in {"insert", "commit"} =>
    IsFiniteSet(Owned(t)) /\ Cardinality(Owned(t)) + Left(t) = RowsOf(op[t])

\* The clicks of a bulk insert, one for each place in the batch.
InsertWhole(t) == op[t] = "insert_many" /\ at[t] \in {"insert", "commit"} =>
    /\ \A k, m \in Own(t) : k.nth = m.nth => k = m
    /\ \A k \in Own(t) : k.nth <= BatchSize - Left(t)
    /\ \A n \in 1 .. BatchSize - Left(t) : \E k \in Own(t) : k.nth = n

WholeInv == \A t \in Transactions \ committed : CreateWhole(t) /\ InsertWhole(t)

LEMMA WholeInit == Init => WholeInv
BY DEF Init, WholeInv, CreateWhole, InsertWhole

ActionOf(t) == \/ \E o \in Operations : Call(t, o)
               \/ CallInsert(t) \/ Step(t) \/ Fault(t)

\* A step of one transaction leaves the locals and the uncommitted rows of the others.
LEMMA OthersLocals ==
    ASSUME TypeInv, NEW t \in Transactions, ActionOf(t), NEW q \in Transactions, q # t
    PROVE  /\ op'[q] = op[q] /\ at'[q] = at[q] /\ todo'[q] = todo[q]
           /\ q \in committed' <=> q \in committed
<1> USE DEF TypeInv, TypeOK, Goto, Fail, locals, tables
<1>1. ASSUME (\E o \in Operations : Call(t, o)) \/ CallInsert(t) \/ Checkout(t)
               \/ CheckoutTimesOut(t) \/ ConnectFails(t)
      PROVE  /\ op'[q] = op[q] /\ at'[q] = at[q] /\ todo'[q] = todo[q]
             /\ q \in committed' <=> q \in committed
  BY <1>1 DEF Call, CallInsert, Checkout, CheckoutTimesOut, ConnectFails
<1>2. ASSUME Statement(t) \/ StatementFails(t)
      PROVE  /\ op'[q] = op[q] /\ at'[q] = at[q] /\ todo'[q] = todo[q]
             /\ q \in committed' <=> q \in committed
  BY <1>2 DEF Statement, Attempt, InsertLink, Collide, Find, Remove, GetList, ReadPage,
              CountClicks, InsertClick, ForeignKeyFails, DeadlockDetected, StatementFails
<1>3. ASSUME Commit(t) \/ Rollback(t) \/ Close(t) \/ CommitBreaks(t) \/ CommitRefused(t)
               \/ RollbackBreaks(t)
      PROVE  /\ op'[q] = op[q] /\ at'[q] = at[q] /\ todo'[q] = todo[q]
             /\ q \in committed' <=> q \in committed
  BY <1>3 DEF Commit, Rollback, Close, CommitBreaks, CommitRefused, RollbackBreaks, TakeEffect, Undo
<1> QED BY <1>1, <1>2, <1>3 DEF ActionOf, Step, Fault

\* How a step changes the tables.
LEMMA TableChanges ==
    ASSUME TypeInv, NEW t \in Transactions, ActionOf(t)
    PROVE  \/ UNCHANGED <<urls, clicks>>
           \/ InsertLink(t) \/ Collide(t) \/ InsertClick(t)
           \/ TakeEffect(t) \/ Undo(t)
BY DEF ActionOf, Step, Statement, Fault, Call, CallInsert, Checkout, CheckoutTimesOut, ConnectFails,
       Attempt, Find, Remove, GetList, ReadPage, CountClicks, ForeignKeyFails, DeadlockDetected,
       StatementFails, Commit, Rollback, Close, CommitBreaks, CommitRefused, RollbackBreaks, tables

LEMMA OthersRows ==
    ASSUME TypeInv, StoreInv, NEW t \in Transactions, ActionOf(t),
           NEW q \in Transactions \ committed, q # t
    PROVE  Owned(q)' = Owned(q) /\ Own(q)' = Own(q)
<1>a. /\ urls \in [Codes -> Transactions \cup {"before", None}]
      /\ deleting \in [Codes -> Transactions \cup {None}] /\ committed \subseteq Transactions
      /\ None \notin Transactions /\ "before" \notin Transactions
  BY NoneAssumption DEF TypeInv, TypeOK
<1>b. \A k \in clicks : k.link.code \in Codes
  BY ClickFacts DEF TypeInv
<1> USE <1>a, <1>b DEF Owned, Own
<1>1. CASE UNCHANGED <<urls, clicks>>
  BY <1>1
<1>2. CASE InsertLink(t)
  BY <1>2 DEF InsertLink
<1>3. CASE Collide(t)
  BY <1>3 DEF Collide
<1>4. CASE InsertClick(t)
  BY <1>4 DEF InsertClick
<1>5. CASE TakeEffect(t)
  <2>1. Owned(q)' = Owned(q)
    BY <1>5 DEF TakeEffect, StoreInv, DeletersShape, Visible
  <2>2. Own(q)' = Own(q)
    BY <1>5 DEF TakeEffect, StoreInv, ClicksShape
  <2> QED BY <2>1, <2>2
<1>6. CASE Undo(t)
  BY <1>6 DEF Undo
<1> QED BY <1>1, <1>2, <1>3, <1>4, <1>5, <1>6, TableChanges

\* A transaction that has not come to its statements, or is at the start of an attempt,
\* has no rows.
LEMMA NoRowsYet ==
    ASSUME TypeInv, StoreInv, NEW t \in Transactions, at[t] \in {"idle", "attempt"}
    PROVE  Owned(t) = {} /\ Own(t) = {}
<1>1. t \notin committed
  BY DEF StoreInv, CommittedAtEnd
<1>2. Owned(t) = {}
  BY <1>1 DEF Owned, StoreInv, InsertersShape
<1>3. Own(t) = {}
  BY <1>1 DEF Own, StoreInv, ClicksShape
<1> QED BY <1>2, <1>3

\* A transaction's own step keeps its batch whole.
LEMMA OwnWhole ==
    ASSUME TypeInv, StoreInv, WholeInv, NEW t \in Transactions, ActionOf(t), t \notin committed'
    PROVE  CreateWhole(t)' /\ InsertWhole(t)'
<1>a. op \in [Transactions -> Operations \cup {None}] /\ at \in [Transactions -> Steps]
  BY DEF TypeInv, TypeOK
<1>b. t \notin committed => CreateWhole(t) /\ InsertWhole(t)
  BY DEF WholeInv
<1>1. CASE Attempt(t)
  <2>1. PICK codes \in NewCodes(RowsOf(op[t])) : todo' = [todo EXCEPT ![t] = codes]
    BY <1>1 DEF Attempt
  <2>2. Len(codes) = RowsOf(op[t])
    BY <2>1, BatchFact, RowsFact DEF NewCodes
  <2>3. Left(t)' = RowsOf(op[t]) /\ op'[t] = op[t] /\ op[t] \in Creations
    BY <1>1, <1>a, <2>1, <2>2 DEF Attempt, Left, Goto, At, TypeInv, TypeOK, CallShape
  <2>4. Owned(t)' = {}
    <3>1. Owned(t)' = Owned(t)
      BY <1>1 DEF Attempt, Owned, tables
    <3> QED BY <1>1, <3>1, NoRowsYet DEF Attempt, At
  <2>5. IsFiniteSet({}) /\ Cardinality({}) = 0
    BY FS_EmptySet
  <2> QED BY <2>3, <2>4, <2>5, RowsFact DEF CreateWhole, InsertWhole, RowsOf, Creations
<1>2. CASE InsertLink(t)
  <2> DEFINE c == Head(todo[t])
  <2>1. todo[t] \in Seq(Codes) /\ todo[t] # <<>>
    BY <1>2 DEF InsertLink, At, TypeInv, TodoShape
  <2>2. c \in Codes /\ Len(todo[t]) \in Nat /\ Len(Tail(todo[t])) = Len(todo[t]) - 1
        /\ Len(todo[t]) > 0
    BY <2>1, RowsLeft
  <2>3. urls' = [urls EXCEPT ![c] = t] /\ urls[c] = None /\ t # None
        /\ op[t] \in Creations /\ at[t] = "insert" /\ UNCHANGED <<op, committed>>
        /\ todo' = [todo EXCEPT ![t] = Tail(todo[t])]
        /\ at' = [at EXCEPT ![t] = IF Len(todo[t]) > 1 THEN "insert" ELSE "commit"]
    BY <1>2, NoneAssumption DEF InsertLink, At, Goto
  <2>4. Owned(t)' = Owned(t) \cup {c} /\ c \notin Owned(t)
    BY <2>2, <2>3 DEF Owned, TypeInv, TypeOK
  <2>5. IsFiniteSet(Owned(t)) /\ Cardinality(Owned(t)) + Len(todo[t]) = RowsOf(op[t])
    BY <1>b, <2>3 DEF CreateWhole, Left
  <2>6. IsFiniteSet(Owned(t)') /\ Cardinality(Owned(t)') = Cardinality(Owned(t)) + 1
    BY <2>4, <2>5, FS_AddElement
  <2>7. Left(t)' = Len(todo[t]) - 1
    <3>1. todo'[t] = Tail(todo[t]) /\ at'[t] = IF Len(todo[t]) > 1 THEN "insert" ELSE "commit"
      BY <1>a, <2>3 DEF TypeInv, TypeOK
    <3>2. Left(t)' = IF at'[t] = "insert" THEN Len(todo'[t]) ELSE 0
      BY DEF Left
    <3> QED BY <2>2, <3>1, <3>2
  <2>8. Cardinality(Owned(t)) \in Nat
    BY <2>5, FS_CardinalityType
  <2>9. Cardinality(Owned(t)') + Left(t)' = RowsOf(op[t])
    BY <2>2, <2>5, <2>6, <2>7, <2>8
  <2>10. RowsOf(op[t])' = RowsOf(op[t]) /\ op'[t] \in Creations
    BY <2>3
  <2> QED BY <2>6, <2>9, <2>10 DEF CreateWhole, InsertWhole, Creations
<1>3. CASE CallInsert(t)
  <2>1. PICK links \in [1 .. BatchSize -> Live] : todo' = [todo EXCEPT ![t] = links]
    BY <1>3 DEF CallInsert
  <2>2. Len(links) = BatchSize
    BY <2>1, BatchFact, BoundsAssumption
  <2>3. Left(t)' = BatchSize /\ op'[t] = "insert_many"
    BY <1>3, <1>a, <2>1, <2>2 DEF CallInsert, Left, Goto, TypeInv, TypeOK
  <2>4. Own(t)' = {}
    <3>1. Own(t)' = Own(t)
      BY <1>3 DEF CallInsert, Own, tables
    <3> QED BY <1>3, <3>1, NoRowsYet DEF CallInsert, At
  <2> QED BY <2>3, <2>4, BoundsAssumption DEF CreateWhole, InsertWhole, Creations
<1>4. CASE InsertClick(t)
  <2> DEFINE n == BatchSize + 1 - Len(todo[t])
             new == [link |-> Head(todo[t]), by |-> t, nth |-> n]
  <2>1. todo[t] \in Seq(Links) /\ todo[t] # <<>> /\ Len(todo[t]) <= BatchSize
    BY <1>4 DEF InsertClick, At, TypeInv, TodoShape
  <2>2. Len(todo[t]) \in Nat /\ Len(Tail(todo[t])) = Len(todo[t]) - 1 /\ Len(todo[t]) > 0
    BY <2>1, RowsLeft
  <2>3. /\ clicks' = clicks \cup {new} /\ op[t] = "insert_many" /\ at[t] = "insert"
        /\ UNCHANGED <<op, committed>> /\ todo' = [todo EXCEPT ![t] = Tail(todo[t])]
        /\ at' = [at EXCEPT ![t] = IF Len(todo[t]) > 1 THEN "insert" ELSE "commit"]
    BY <1>4 DEF InsertClick, At, Goto
  <2>4. Own(t)' = Own(t) \cup {new} /\ new.nth = n
    BY <2>3 DEF Own
  <2>5. Left(t)' = Len(todo[t]) - 1 /\ Left(t) = Len(todo[t])
    <3>1. todo'[t] = Tail(todo[t]) /\ at'[t] = IF Len(todo[t]) > 1 THEN "insert" ELSE "commit"
      BY <1>a, <2>3 DEF TypeInv, TypeOK
    <3>2. Left(t)' = IF at'[t] = "insert" THEN Len(todo'[t]) ELSE 0
      BY DEF Left
    <3>3. Left(t) = Len(todo[t])
      BY <2>3 DEF Left
    <3> QED BY <2>2, <3>1, <3>2, <3>3
  <2>6. /\ \A k, m \in Own(t) : k.nth = m.nth => k = m
        /\ \A k \in Own(t) : k.nth <= n - 1
        /\ \A i \in 1 .. n - 1 : \E k \in Own(t) : k.nth = i
    <3>1. BatchSize - Left(t) = n - 1
      BY <2>2, <2>5, BoundsAssumption
    <3>2. InsertWhole(t)
      BY <1>4, <1>b, <2>3
    <3>3. op[t] = "insert_many" /\ at[t] \in {"insert", "commit"}
      BY <2>3
    <3> HIDE DEF n
    <3> QED BY <3>1, <3>2, <3>3 DEF InsertWhole
  <2>7. \A k \in Own(t) : k.nth \in Nat
    BY ClickFacts, BoundsAssumption DEF Own, TypeInv
  <2>8. n \in Nat /\ BatchSize - Left(t)' = n
    BY <2>1, <2>2, <2>5, BoundsAssumption
  <2> HIDE DEF n, new
  <2>9. /\ \A k, m \in Own(t)' : k.nth = m.nth => k = m
        /\ \A k \in Own(t)' : k.nth <= n
    BY <2>4, <2>6, <2>7, <2>8
  <2>10. ASSUME NEW i \in 1 .. n
         PROVE  \E k \in Own(t)' : k.nth = i
    <3>1. CASE i = n
      BY <2>4, <3>1
    <3>2. CASE i # n
      <4>1. i \in 1 .. n - 1
        BY <2>8, <3>2
      <4> QED BY <2>4, <2>6, <4>1
    <3> QED BY <3>1, <3>2
  <2>11. op'[t] = "insert_many"
    BY <2>3
  <2> QED BY <2>8, <2>9, <2>10, <2>11 DEF CreateWhole, InsertWhole, Creations
<1>5. CASE Remove(t) \/ GetList(t)
  <2>1. op'[t] \in {"delete", "get_list"}
    BY <1>5 DEF Remove, GetList, ReadPage, CountClicks, At, TypeInv, CallShape
  <2> QED BY <2>1 DEF CreateWhole, InsertWhole, Creations
<1>6. ASSUME ActionOf(t), ~Attempt(t), ~InsertLink(t), ~CallInsert(t), ~InsertClick(t), ~Remove(t),
             ~GetList(t)
      PROVE  at'[t] \notin {"insert", "commit"}
  <2> USE <1>a DEF Goto, Fail
  <2>1. CASE (\E o \in Operations : Call(t, o)) \/ Checkout(t) \/ CheckoutTimesOut(t)
               \/ ConnectFails(t)
    BY <2>1 DEF Call, Checkout, CheckoutTimesOut, ConnectFails
  <2>2. CASE Collide(t) \/ (\E c \in Codes : Find(t, c)) \/ ForeignKeyFails(t)
               \/ DeadlockDetected(t) \/ StatementFails(t)
    BY <2>2 DEF Collide, Find, ForeignKeyFails, DeadlockDetected, StatementFails
  <2>3. CASE Commit(t) \/ Rollback(t) \/ Close(t) \/ CommitBreaks(t) \/ CommitRefused(t)
               \/ RollbackBreaks(t)
    BY <2>3 DEF Commit, Rollback, Close, CommitBreaks, CommitRefused, RollbackBreaks
  <2> QED BY <1>6, <2>1, <2>2, <2>3 DEF ActionOf, Step, Statement, Fault
<1> QED
  BY <1>1, <1>2, <1>3, <1>4, <1>5, <1>6 DEF CreateWhole, InsertWhole

LEMMA WholeStep ==
    ASSUME TypeInv, StoreInv, WholeInv, [Next]_vars
    PROVE  WholeInv'
<1>1. ASSUME NEW t \in Transactions, ActionOf(t)
      PROVE  WholeInv'
  <2>1. ASSUME NEW q \in Transactions \ committed', q # t
        PROVE  CreateWhole(q)' /\ InsertWhole(q)'
    <3>1. /\ op'[q] = op[q] /\ at'[q] = at[q] /\ todo'[q] = todo[q] /\ q \notin committed
      BY <1>1, <2>1, OthersLocals
    <3>2. Owned(q)' = Owned(q) /\ Own(q)' = Own(q)
      BY <1>1, <2>1, <3>1, OthersRows
    <3>3. CreateWhole(q) /\ InsertWhole(q)
      BY <3>1 DEF WholeInv
    <3>4. Left(q)' = Left(q)
      BY <3>1 DEF Left
    <3> QED BY <3>1, <3>2, <3>3, <3>4 DEF CreateWhole, InsertWhole
  <2>2. t \notin committed' => CreateWhole(t)' /\ InsertWhole(t)'
    BY <1>1, OwnWhole
  <2> QED BY <2>1, <2>2 DEF WholeInv
<1>2. CASE UNCHANGED vars
  BY <1>2 DEF vars, WholeInv, CreateWhole, InsertWhole, Owned, Own, Left
<1> QED BY <1>1, <1>2 DEF Next, ActionOf, Terminated

-----------------------------------------------------------------------------
(***************************************************************************)
(* The refinement: COMMIT is the whole change of LinkStore, the answer its *)
(* reply, and every other statement a stutter.                             *)
(***************************************************************************)

Recorded == {k \in clicks : k.by \in committed}

AllInv == TypeInv /\ StoreInv /\ WholeInv

LEMMA StoreRefinesInit == Init => Store!StoreInit
<1> SUFFICES ASSUME Init PROVE Store!StoreInit
  OBVIOUS
<1> DEFINE present == {c \in Codes : urls[c] = "before"}
<1>1. Live = [code : present, by : {"before"}]
  BY NoneAssumption DEF Init, Live, Links, Visible
<1>2. present \in SUBSET Codes
  OBVIOUS
<1>3. {k \in clicks : k.by \in committed} = {} /\ committed = {}
  BY DEF Init
<1> QED BY <1>1, <1>2, <1>3 DEF Init, Store!StoreInit

\* Until COMMIT nobody else sees a transaction's rows, so taking them back shows nowhere.
LEMMA UndoStutters ==
    ASSUME AllInv, NEW t \in Transactions, t \notin committed, Undo(t)
    PROVE  Live' = Live /\ Recorded' = Recorded
<1>1. Live' = Live
  BY NoneAssumption DEF Undo, Live, Links, Visible
<1>2. Recorded' = Recorded
  BY DEF Undo, Recorded
<1> QED BY <1>1, <1>2

\* COMMIT makes the whole change of its transaction.
LEMMA EffectIsChange ==
    ASSUME AllInv, NEW t \in Transactions, at[t] = "commit", TakeEffect(t), UNCHANGED op
    PROVE  Store!Change(t)
<1>a. /\ op \in [Transactions -> Operations \cup {None}]
      /\ urls \in [Codes -> Transactions \cup {"before", None}]
      /\ deleting \in [Codes -> Transactions \cup {None}] /\ committed \subseteq Transactions
      /\ None \notin Transactions /\ None # "before" /\ "before" \notin Transactions
  BY NoneAssumption DEF AllInv, TypeInv, TypeOK
<1>b. t \notin committed
  BY DEF AllInv, StoreInv, CommittedAtEnd
<1>c. \A k \in clicks : k.link \in Links /\ k.link.code \in Codes
  BY ClickFacts DEF AllInv, TypeInv
<1>d. CreateWhole(t) /\ InsertWhole(t)
  BY <1>b DEF AllInv, WholeInv
<1>e. op[t] \in Operations
  BY <1>a DEF AllInv, TypeInv, CallShape
<1>f. /\ op[t] \notin Creations => Owned(t) = {}
      /\ op[t] # "insert_many" => Own(t) = {}
      /\ op[t] # "delete" => \A c \in Codes : deleting[c] # t
  BY <1>b DEF AllInv, StoreInv, InsertersShape, ClicksShape, DeletersShape, Owned, Own
<1>g. /\ committed' = committed \cup {t}
      /\ urls' = [c \in Codes |-> IF deleting[c] = t THEN None ELSE urls[c]]
      /\ clicks' = {k \in clicks : deleting[k.link.code] # t}
  BY DEF TakeEffect
<1>h. ASSUME op[t] # "delete"
      PROVE  urls' = urls /\ clicks' = clicks
  BY <1>a, <1>c, <1>f, <1>g, <1>h
<1>i. ASSUME op[t] # "insert_many", op[t] # "delete"
      PROVE  Recorded' = Recorded
  BY <1>f, <1>g, <1>h, <1>i DEF Recorded, Own
<1>j. ASSUME op[t] \notin Creations, op[t] # "delete"
      PROVE  Live' = Live
  BY <1>f, <1>g, <1>h, <1>j DEF Live, Links, Visible, Owned
<1>1. CASE op[t] \in Creations
  <2>1. op[t] # "delete" /\ op[t] # "insert_many"
    BY <1>1 DEF Creations
  <2>2. Cardinality(Owned(t)) = RowsOf(op[t]) /\ IsFiniteSet(Owned(t))
    <3>1. IsFiniteSet(Owned(t)) /\ Cardinality(Owned(t)) + Left(t) = RowsOf(op[t]) /\ Left(t) = 0
      BY <1>1, <1>d DEF CreateWhole, Left
    <3>2. Cardinality(Owned(t)) \in Nat
      BY <3>1, FS_CardinalityType
    <3> QED BY <3>1, <3>2
  <2>3. \A l \in Live : l.code \notin Owned(t)
    BY <1>a, <1>b DEF Live, Visible, Owned
  <2>4. Live' = Live \cup [code : Owned(t), by : {t}]
    BY <1>a, <1>b, <1>g, <1>h, <2>1 DEF Live, Links, Visible, Owned
  <2>5. Owned(t) \in SUBSET Codes
    BY DEF Owned
  <2>6. Store!RowsOf(op[t]) = RowsOf(op[t])
    BY DEF Store!RowsOf, RowsOf
  <2>7. Recorded' = Recorded
    BY <1>i, <2>1
  <2>8. Store!MakeLinks(t)
    <3>1. ExistsBijection(1 .. RowsOf(op[t]), Owned(t))
      BY <2>2, FS_CardinalityType
    <3>2. PICK codes \in [1 .. RowsOf(op[t]) -> Owned(t)] :
              /\ \A m, n \in 1 .. RowsOf(op[t]) : m # n => codes[m] # codes[n]
              /\ \A c \in Owned(t) : \E n \in 1 .. RowsOf(op[t]) : codes[n] = c
      BY <3>1 DEF ExistsBijection, Bijection, Injection, Surjection, IsInjective
    <3>3. codes \in [1 .. Store!RowsOf(op[t]) -> Codes] /\ DOMAIN codes = 1 .. RowsOf(op[t])
      BY <2>5, <2>6, <3>2
    <3> DEFINE made == {[code |-> codes[n], by |-> t] : n \in DOMAIN codes}
    <3>4. [code : Owned(t), by : {t}] = made
      <4>1. ASSUME NEW r \in [code : Owned(t), by : {t}]
            PROVE  r \in made
        <5>1. PICK n \in DOMAIN codes : codes[n] = r.code
          BY <3>2, <3>3
        <5>2. r = [code |-> codes[n], by |-> t]
          BY <5>1
        <5> QED BY <5>2
      <4>2. \A n \in DOMAIN codes : [code |-> codes[n], by |-> t] \in [code : Owned(t), by : {t}]
        BY <3>2, <3>3
      <4> QED BY <4>1, <4>2
    <3>5. \A l \in Live, n \in DOMAIN codes : l.code # codes[n]
      BY <2>3, <3>2, <3>3
    <3> QED BY <2>4, <2>7, <3>2, <3>3, <3>4, <3>5 DEF Store!MakeLinks, Recorded
  <2> QED BY <1>1, <2>8 DEF Store!Change, Creations
<1>2. CASE op[t] = "get_list"
  BY <1>2, <1>i, <1>j DEF Store!Change, Recorded, Creations
<1>3. CASE op[t] = "insert_many"
  <2> DEFINE link == [n \in 1 .. BatchSize |-> (CHOOSE k \in Own(t) : k.nth = n).link]
             rows == {[link |-> link[n], by |-> t, nth |-> n] : n \in 1 .. BatchSize}
  <2>1. /\ \A k, m \in Own(t) : k.nth = m.nth => k = m
        /\ \A n \in 1 .. BatchSize : \E k \in Own(t) : k.nth = n
    BY <1>3, <1>d, BoundsAssumption DEF InsertWhole, Left
  <2>2. \A k \in Own(t) : k \in Clicks /\ k.by = t /\ k.nth \in 1 .. BatchSize /\ k.link \in Live
    <3>1. \A k \in clicks : k.link \in Live
      BY <1>c DEF Live, AllInv, StoreInv, ClicksShape, Exists
    <3> QED BY <3>1 DEF Own, AllInv, TypeInv, TypeOK, Clicks
  <2>3. \A n \in 1 .. BatchSize : /\ (CHOOSE k \in Own(t) : k.nth = n) \in Own(t)
                                  /\ (CHOOSE k \in Own(t) : k.nth = n).nth = n
    BY <2>1
  <2>4. link \in [1 .. BatchSize -> Live]
    BY <2>2, <2>3
  <2>5. \A k \in Own(t) : k = [link |-> link[k.nth], by |-> t, nth |-> k.nth]
    <3> SUFFICES ASSUME NEW k \in Own(t)
                 PROVE  k = [link |-> link[k.nth], by |-> t, nth |-> k.nth]
      OBVIOUS
    <3>1. k = (CHOOSE m \in Own(t) : m.nth = k.nth)
      BY <2>1, <2>2, <2>3
    <3>2. link[k.nth] = k.link
      BY <2>2, <3>1
    <3> QED BY <2>2, <3>2 DEF Clicks
  <2>6. Own(t) = rows
    <3>1. Own(t) \subseteq rows
      BY <2>2, <2>5
    <3>2. ASSUME NEW n \in 1 .. BatchSize
          PROVE  [link |-> link[n], by |-> t, nth |-> n] \in Own(t)
      <4>1. PICK k \in Own(t) : k.nth = n
        BY <2>1
      <4> QED BY <2>5, <4>1
    <3> QED BY <3>1, <3>2
  <2>7. Recorded' = Recorded \cup Own(t)
    BY <1>3, <1>g, <1>h DEF Recorded, Own
  <2>8. Live' = Live
    BY <1>3, <1>j DEF Creations
  <2> HIDE DEF link
  <2>9. Store!RecordClicks(t)
    BY <2>4, <2>6, <2>7, <2>8 DEF Store!RecordClicks, Recorded
  <2> QED BY <1>3, <2>9 DEF Store!Change
<1>4. CASE op[t] = "delete"
  <2>1. CASE \A c \in Codes : deleting[c] # t
    <3>1. urls' = urls /\ clicks' = clicks
      BY <1>a, <1>c, <1>g, <2>1
    <3>2. Live' = Live /\ Recorded' = Recorded
      BY <1>4, <1>f, <1>g, <3>1 DEF Live, Links, Visible, Recorded, Owned, Own, Creations
    <3> QED BY <1>4, <3>2 DEF Store!Change, Store!DropLink, Recorded
  <2>2. ASSUME NEW c \in Codes, deleting[c] = t
        PROVE  Store!Change(t)
    <3> DEFINE l == target[t]
    <3>1. l \in Links /\ l.code = c /\ l.by = urls[c] /\ Visible(c)
      BY <2>2 DEF AllInv, StoreInv, DeletersShape
    <3>2. l \in Live
      BY <3>1 DEF Live
    <3>3. \A d \in Codes : deleting[d] = t => d = c
      BY <2>2 DEF AllInv, StoreInv, DeletersShape
    <3>4. \A m \in Live : m.code = c => m = l
      BY <3>1 DEF Live, Links
    <3>5. Live' = Live \ {l}
      BY <1>4, <1>a, <1>f, <1>g, <2>2, <3>1, <3>3, <3>4 DEF Live, Links, Visible, Owned, Creations
    <3>6. \A k \in clicks : deleting[k.link.code] = t <=> k.link = l
      <4>1. \A k \in clicks : k.link.code = c => k.link = l
        BY <1>c, <3>1 DEF AllInv, StoreInv, ClicksShape, Exists, Links
      <4> QED BY <1>c, <2>2, <3>1, <3>3, <4>1
    <3>7. Recorded' = {k \in Recorded : k.link # l}
      BY <1>4, <1>f, <1>g, <3>6 DEF Recorded, Own
    <3>8. Store!DropLink
      BY <3>2, <3>5, <3>7 DEF Store!DropLink, Recorded
    <3> QED BY <1>4, <3>8 DEF Store!Change
  <2> QED BY <2>1, <2>2
<1> QED BY <1>1, <1>2, <1>3, <1>4, <1>e DEF Operations

\* Every step of a transaction is a step of LinkStore or leaves it as it is.
LEMMA StoreRefinesStep ==
    ASSUME AllInv, NEW t \in Transactions, ActionOf(t)
    PROVE  [Store!StoreNext]_Store!storeVars
<1>a. /\ op \in [Transactions -> Operations \cup {None}]
      /\ answer \in [Transactions -> {"none", "ok", "error"}]
      /\ None \notin Operations /\ None \notin Transactions
      /\ committed \subseteq Transactions
  BY NoneAssumption DEF AllInv, TypeInv, TypeOK
<1>b. at[t] # "idle" => op[t] # None
  BY DEF AllInv, TypeInv, CallShape
<1>c. /\ at[t] \notin {"done", "leaked"} => answer[t] = "none"
      /\ at[t] \notin {"close", "done"} => t \notin committed
  BY DEF AllInv, StoreInv, AnsweredAtEnd, CommittedAtEnd, Ended
<1> USE DEF tables
<1>1. ASSUME UNCHANGED <<op, committed, answer>>, Live' = Live, Recorded' = Recorded
      PROVE  [Store!StoreNext]_Store!storeVars
  BY <1>1 DEF Store!storeVars, Recorded
<1>2. ASSUME UNCHANGED tables
      PROVE  Live' = Live /\ Recorded' = Recorded
  BY <1>2 DEF Live, Visible, Recorded
<1>3. CASE (\E o \in Operations : Call(t, o)) \/ CallInsert(t)
  <2>1. PICK o \in Operations : op' = [op EXCEPT ![t] = o]
    BY <1>3 DEF Call, CallInsert, Operations
  <2>2. UNCHANGED tables /\ UNCHANGED answer /\ op[t] = None
    BY <1>3 DEF Call, CallInsert, At, AllInv, TypeInv, CallShape
  <2>3. Live' = Live /\ Recorded' = Recorded /\ UNCHANGED committed
    BY <1>2, <2>2
  <2>4. Store!Call(t)
    BY <2>1, <2>2, <2>3 DEF Store!Call, Store!Operations, Operations, Creations, Recorded
  <2> QED BY <2>4 DEF Store!StoreNext
<1>4. CASE Checkout(t) \/ Attempt(t) \/ (\E c \in Codes : Find(t, c)) \/ GetList(t)
             \/ ForeignKeyFails(t) \/ DeadlockDetected(t) \/ StatementFails(t)
  <2>1. UNCHANGED tables /\ UNCHANGED <<op, answer>>
    BY <1>4 DEF Checkout, Attempt, Find, GetList, ReadPage, CountClicks, ForeignKeyFails,
                DeadlockDetected, StatementFails
  <2> QED BY <1>1, <1>2, <2>1
<1>5. CASE InsertLink(t) \/ Collide(t) \/ Remove(t)
  <2>1. t \notin committed /\ UNCHANGED <<op, committed, answer, clicks>>
    BY <1>5, <1>c DEF InsertLink, Collide, Remove, At
  <2>2. \A c \in Codes : urls'[c] = urls[c] \/ (urls[c] \in {None, t} /\ urls'[c] \in {None, t})
    BY <1>5 DEF InsertLink, Collide, Remove, AllInv, TypeInv, TypeOK
  <2>3. Live' = Live
    BY <1>a, <2>1, <2>2, NoneAssumption DEF Live, Links, Visible
  <2>4. Recorded' = Recorded
    BY <2>1 DEF Recorded
  <2> QED BY <1>1, <2>1, <2>3, <2>4
<1>6. CASE InsertClick(t)
  <2>1. t \notin committed /\ UNCHANGED <<op, committed, answer, urls>>
    BY <1>6, <1>c DEF InsertClick, At
  <2>2. Live' = Live
    BY <2>1 DEF Live, Visible
  <2>3. Recorded' = Recorded
    BY <1>6, <2>1 DEF InsertClick, Recorded
  <2> QED BY <1>1, <2>1, <2>2, <2>3
<1>7. CASE Rollback(t)
  <2>1. t \notin committed /\ Undo(t) /\ UNCHANGED <<op, answer>>
    BY <1>7, <1>c DEF Rollback, At
  <2> QED BY <1>1, <2>1, UndoStutters DEF Undo
<1>8. ASSUME answer' = [answer EXCEPT ![t] = IF t \in committed THEN "ok" ELSE "error"],
             at[t] \notin {"idle", "done", "leaked"}, UNCHANGED <<op, committed>>,
             Live' = Live, Recorded' = Recorded
      PROVE  [Store!StoreNext]_Store!storeVars
  <2>1. Store!Reply(t)
    BY <1>8, <1>b, <1>c DEF Store!Reply, Recorded
  <2> QED BY <2>1 DEF Store!StoreNext
<1>9. ASSUME at[t] = "commit", TakeEffect(t), UNCHANGED op,
             UNCHANGED answer \/ answer' = [answer EXCEPT ![t] = "error"]
      PROVE  [Store!StoreNext]_Store!storeVars
  <2>1. Store!Change(t)
    BY <1>9, EffectIsChange
  <2>2. Store!Perform(t)
    BY <1>9, <1>c, <2>1 DEF Store!Perform, TakeEffect
  <2> QED BY <2>2 DEF Store!StoreNext
<1>10. CASE CheckoutTimesOut(t) \/ ConnectFails(t)
  <2>1. /\ UNCHANGED tables /\ UNCHANGED op /\ at[t] = "enter"
        /\ answer' = [answer EXCEPT ![t] = "error"]
    BY <1>10 DEF CheckoutTimesOut, ConnectFails, At
  <2> QED BY <1>2, <1>8, <1>c, <2>1
<1>11. CASE Close(t)
  <2>1. /\ UNCHANGED tables /\ UNCHANGED op /\ at[t] = "close"
        /\ answer' = [answer EXCEPT ![t] = IF t \in committed THEN "ok" ELSE "error"]
    BY <1>11 DEF Close, At
  <2> QED BY <1>2, <1>8, <2>1
<1>12. CASE CommitRefused(t) \/ RollbackBreaks(t) \/ (CommitBreaks(t) /\ Undo(t))
  <2>1. /\ Undo(t) /\ UNCHANGED op /\ at[t] \in {"commit", "rollback"}
        /\ answer' = [answer EXCEPT ![t] = "error"]
    BY <1>12 DEF CommitRefused, RollbackBreaks, CommitBreaks, Fail, At
  <2>2. t \notin committed /\ UNCHANGED committed
    BY <1>c, <2>1 DEF Undo
  <2> QED BY <1>8, <2>1, <2>2, UndoStutters
<1>13. CASE CommitBreaks(t) /\ TakeEffect(t)
  BY <1>9, <1>13 DEF CommitBreaks, Fail, At, locals
<1>14. CASE Commit(t)
  BY <1>9, <1>14 DEF Commit, At
<1> QED
  BY <1>3, <1>4, <1>5, <1>6, <1>7, <1>10, <1>11, <1>12, <1>13, <1>14
     DEF ActionOf, Step, Statement, Fault, CommitBreaks

LEMMA AllStep == AllInv /\ [Next]_vars => AllInv'
BY TypeStep, StoreStep, WholeStep DEF AllInv

\* The statements of any number of transactions, with collisions, deadlocks, broken
\* connections and refused COMMITs, amount to whole transactions with truthful answers.
THEOREM StatementsImplementLinkStore == Spec => ImplementsLinkStore
<1>1. Init => AllInv
  BY TypeInit, StoreInit, WholeInit DEF AllInv
<1>2. AllInv /\ [Next]_vars => [Store!StoreNext]_Store!storeVars
  <2>1. ASSUME AllInv, UNCHANGED vars
        PROVE  UNCHANGED Store!storeVars
    BY <2>1 DEF vars, Store!storeVars, Live, Visible
  <2>2. ASSUME AllInv, Next
        PROVE  [Store!StoreNext]_Store!storeVars
    BY <2>1, <2>2, StoreRefinesStep DEF Next, ActionOf, Terminated
  <2> QED BY <2>1, <2>2
<1> QED
  BY <1>1, <1>2, AllStep, StoreRefinesInit, PTL
     DEF Spec, ImplementsLinkStore, Store!StoreSpec
-----------------------------------------------------------------------------
(***************************************************************************)
(* Listings. Between the page and the count other transactions commit, but *)
(* a click that is gone does not come back: whoever inserted it has ended. *)
(***************************************************************************)

\* The page of a listing has only clicks of transactions that have committed.
PageRecorded == \A t \in Transactions : op[t] = "get_list" /\ at[t] \in {"count", "commit"} =>
    \A k \in listed[t].page : k.by \in committed

PageInv == PageRecorded /\ TotalCoversPage

LEMMA PageInit == Init => PageInv
BY DEF Init, PageInv, PageRecorded, TotalCoversPage, At

LEMMA NoClickReturns ==
    ASSUME TypeInv, StoreInv, [Next]_vars
    PROVE  /\ committed \subseteq committed'
           /\ \A k \in clicks' : k.by \in committed => k \in clicks
<1>1. CASE UNCHANGED vars
  BY <1>1 DEF vars
<1>2. ASSUME NEW t \in Transactions, ActionOf(t)
      PROVE  /\ committed \subseteq committed'
             /\ \A k \in clicks' : k.by \in committed => k \in clicks
  <2>1. committed \subseteq committed'
    BY <1>2 DEF ActionOf, Step, Statement, Fault, Call, CallInsert, Checkout, CheckoutTimesOut,
       ConnectFails, Attempt, InsertLink, Collide, Find, Remove, GetList, ReadPage, CountClicks,
       InsertClick, ForeignKeyFails, DeadlockDetected, StatementFails, Commit, Rollback, Close,
       CommitBreaks, CommitRefused, RollbackBreaks, TakeEffect, Undo, tables
  <2>2. CASE InsertClick(t)
    <3>1. t \notin committed
      BY <2>2 DEF InsertClick, At, StoreInv, CommittedAtEnd
    <3>2. \A k \in clicks' : k \in clicks \/ k.by = t
      BY <2>2 DEF InsertClick
    <3> QED BY <2>1, <3>1, <3>2
  <2>3. CASE UNCHANGED clicks
    BY <2>1, <2>3
  <2>4. CASE InsertLink(t) \/ Collide(t)
    BY <2>1, <2>4 DEF InsertLink, Collide
  <2>5. CASE TakeEffect(t) \/ Undo(t)
    BY <2>1, <2>5 DEF TakeEffect, Undo
  <2> QED BY <1>2, <2>2, <2>3, <2>4, <2>5, TableChanges
<1> QED BY <1>1, <1>2 DEF Next, ActionOf, Terminated

\* What is at the end of a step about to commit a listing was there before, or has
\* counted; what is about to count has read its page.
LEMMA ListingStep ==
    ASSUME TypeInv, [Next]_vars, NEW t \in Transactions, op'[t] = "get_list",
           at'[t] \in {"count", "commit"}
    PROVE  \/ UNCHANGED <<op[t], at[t], listed[t], target[t]>>
           \/ ReadPage(t, "page", "count") \/ CountClicks(t, "count", "commit")
<1> USE DEF TypeInv, TypeOK, Goto, Fail, locals, tables, At
<1> DEFINE Goal == \/ UNCHANGED <<op[t], at[t], listed[t], target[t]>>
                   \/ ReadPage(t, "page", "count") \/ CountClicks(t, "count", "commit")
<1>1. CASE UNCHANGED vars
  BY <1>1 DEF vars
<1>2. ASSUME NEW q \in Transactions, ActionOf(q)
      PROVE  Goal
  <2>1. CASE (\E o \in Operations : Call(q, o)) \/ CallInsert(q) \/ Checkout(q)
               \/ CheckoutTimesOut(q) \/ ConnectFails(q)
    BY <2>1 DEF Call, CallInsert, Checkout, CheckoutTimesOut, ConnectFails
  <2>2. CASE Attempt(q) \/ InsertLink(q) \/ Collide(q)
    BY <2>2 DEF Attempt, InsertLink, Collide, CallShape, Creations
  <2>3. CASE (\E c \in Codes : Find(q, c)) \/ Remove(q)
    BY <2>3 DEF Find, Remove, CallShape
  <2>4. CASE GetList(q)
    BY <2>4 DEF GetList, ReadPage, CountClicks
  <2>5. CASE InsertClick(q)
    BY <2>5 DEF InsertClick
  <2>6. CASE ForeignKeyFails(q) \/ DeadlockDetected(q) \/ StatementFails(q)
    BY <2>6 DEF ForeignKeyFails, DeadlockDetected, StatementFails
  <2>7. CASE Commit(q) \/ Rollback(q) \/ Close(q)
    BY <2>7 DEF Commit, Rollback, Close
  <2>8. CASE CommitBreaks(q) \/ CommitRefused(q) \/ RollbackBreaks(q)
    BY <2>8 DEF CommitBreaks, CommitRefused, RollbackBreaks
  <2> QED BY <1>2, <2>1, <2>2, <2>3, <2>4, <2>5, <2>6, <2>7, <2>8
          DEF ActionOf, Step, Statement, Fault
<1> QED BY <1>1, <1>2 DEF Next, ActionOf, Terminated

\* A part of the clicks is finite, and not larger than what it is part of.
LEMMA ClicksCounted ==
    ASSUME TypeInv, NEW S \in SUBSET clicks, NEW T \in SUBSET S
    PROVE  Cardinality(S) \in Nat /\ Cardinality(T) \in Nat /\ Cardinality(T) <= Cardinality(S)
<1>1. IsFiniteSet(clicks)
  BY DEF TypeInv, FiniteStore
<1>2. IsFiniteSet(S)
  BY <1>1, FS_Subset
<1>3. IsFiniteSet(T) /\ Cardinality(T) <= Cardinality(S)
  BY <1>2, FS_Subset
<1> QED BY <1>2, <1>3, FS_CardinalityType

LEMMA PageStep == TypeInv /\ StoreInv /\ PageInv /\ [Next]_vars => PageInv'
<1> SUFFICES ASSUME TypeInv, StoreInv, PageInv, [Next]_vars,
                    NEW t \in Transactions, op'[t] = "get_list", at'[t] \in {"count", "commit"}
             PROVE  /\ \A k \in listed'[t].page : k.by \in committed'
                    /\ at'[t] = "commit" => listed'[t].total >=
                          Cardinality(listed'[t].page \cap VisibleClicks(target[t])')
  BY DEF PageInv, PageRecorded, TotalCoversPage, At
<1> DEFINE page == listed[t].page
           seen == VisibleClicks(target[t])
<1>1. CASE ReadPage(t, "page", "count")
  <2>1. /\ listed'[t].page \in SUBSET VisibleClicks(target[t]) /\ committed' = committed
        /\ at'[t] = "count"
    BY <1>1 DEF ReadPage, Goto, TypeInv, TypeOK, tables
  <2> QED BY <2>1 DEF VisibleClicks
<1>2. CASE CountClicks(t, "count", "commit")
  <2>1. /\ listed'[t].page = page /\ listed'[t].total = Cardinality(seen)
        /\ UNCHANGED <<target, clicks, committed>> /\ at[t] = "count" /\ op[t] = "get_list"
    BY <1>2 DEF CountClicks, At, TypeInv, TypeOK, tables
  <2>2. \A k \in page : k.by \in committed
    BY <2>1 DEF PageInv, PageRecorded
  <2>3. seen \in SUBSET clicks /\ page \cap seen \in SUBSET seen
    BY DEF VisibleClicks
  <2>4. Cardinality(seen) \in Nat /\ Cardinality(page \cap seen) \in Nat
        /\ Cardinality(page \cap seen) <= Cardinality(seen)
    <3> HIDE DEF page, seen
    <3> QED BY <2>3, ClicksCounted
  <2>5. VisibleClicks(target[t])' = seen
    BY <2>1 DEF VisibleClicks
  <2> QED BY <2>1, <2>2, <2>4, <2>5
<1>3. CASE UNCHANGED <<op[t], at[t], listed[t], target[t]>>
  <2>1. \A k \in page : k.by \in committed
    BY <1>3 DEF PageInv, PageRecorded
  <2>2. page \cap VisibleClicks(target[t])' \in SUBSET (page \cap seen)
    BY <1>3, <2>1, NoClickReturns DEF VisibleClicks
  <2>3. page \cap seen \in SUBSET clicks
    BY DEF VisibleClicks
  <2>4. ASSUME at[t] = "commit"
        PROVE  listed[t].total >= Cardinality(page \cap VisibleClicks(target[t])')
    <3>1. listed[t].total >= Cardinality(page \cap seen)
      BY <1>3, <2>4 DEF PageInv, TotalCoversPage, At
    <3>2. listed[t].total \in Nat
      BY DEF TypeInv, TypeOK
    <3>3. /\ Cardinality(page \cap seen) \in Nat
          /\ Cardinality(page \cap VisibleClicks(target[t])') \in Nat
          /\ Cardinality(page \cap VisibleClicks(target[t])') <= Cardinality(page \cap seen)
      <4> DEFINE later == page \cap VisibleClicks(target[t])'
                 sooner == page \cap seen
      <4>1. later \in SUBSET sooner /\ sooner \in SUBSET clicks
        BY <2>2, <2>3
      <4> HIDE DEF later, sooner
      <4>2. Cardinality(sooner) \in Nat /\ Cardinality(later) \in Nat
            /\ Cardinality(later) <= Cardinality(sooner)
        BY <4>1, ClicksCounted
      <4> QED BY <4>2 DEF later, sooner
    <3> HIDE DEF page, seen
    <3> QED BY <3>1, <3>2, <3>3
  <2> QED BY <1>3, <2>1, <2>4, NoClickReturns
<1> QED BY <1>1, <1>2, <1>3, ListingStep

\* For any number of listings, inserts and deletes at once, the count that a listing
\* answers is not smaller than what is left of its page when it commits.
THEOREM CountsCoverPages == Spec => []TotalCoversPage
<1>1. PageInv => TotalCoversPage
  BY DEF PageInv
<1> QED BY StoreCorrect, PageInit, PageStep, <1>1, PTL DEF Spec
=============================================================================
