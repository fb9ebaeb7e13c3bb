-------------------------- MODULE ClickWorkerProofs --------------------------
(***************************************************************************)
(* Machine-checked proofs about ClickWorker, for every set of partitions,  *)
(* every batch size and every number of messages and restarts.             *)
(***************************************************************************)
EXTENDS ClickWorker, FiniteSetTheorems, TLAPS

-----------------------------------------------------------------------------
(***************************************************************************)
(* Type correctness. A polled slot is a slot only because no partition is  *)
(* longer than MaxLog, so the two are proved together.                     *)
(***************************************************************************)

LogBounded == \A p \in Partitions : Len(log[p]) <= MaxLog

TypeInv == TypeOK /\ LogBounded

LEMMA TypeInit == Init => TypeInv
<1> SUFFICES ASSUME Init PROVE TypeInv
  OBVIOUS
<1> USE BoundsAssumption DEF Init, TypeInv
<1>1. TypeOK
  <2>1. log \in [Partitions -> Seq(Kinds)]
    OBVIOUS
  <2>2. committed \in [Partitions -> Nat] /\ position \in [Partitions -> Nat]
    OBVIOUS
  <2>3. rows \in [Slots -> Nat]
    OBVIOUS
  <2> QED BY <2>1, <2>2, <2>3 DEF TypeOK
<1>2. LogBounded
  BY DEF LogBounded
<1> QED BY <1>1, <1>2

LEMMA TypeStep == TypeInv /\ [Next]_vars => TypeInv'
<1> SUFFICES ASSUME TypeOK, LogBounded, [Next]_vars
             PROVE  TypeOK' /\ LogBounded'
  BY DEF TypeInv
<1> USE BoundsAssumption, KindsAssumption
<1> USE DEF kafkaVars, threadVars, loopVars, procVars, historyVars, TypeOK, LogBounded, Batches
<1>1. ASSUME NEW p \in Partitions, NEW k \in Kinds, Publish(p, k)
      PROVE  TypeOK' /\ LogBounded'
  <2>1. log' \in [Partitions -> Seq(Kinds)]
    BY <1>1 DEF Publish
  <2>2. LogBounded'
    <3> SUFFICES ASSUME NEW q \in Partitions
                 PROVE  Len(log'[q]) <= MaxLog
      OBVIOUS
    <3>1. CASE q = p
      <4>1. log'[q] = Append(log[p], k)
        BY <1>1, <3>1 DEF Publish
      <4>2. Len(log'[q]) = Len(log[p]) + 1
        BY <4>1
      <4>3. Len(log[p]) < MaxLog /\ Len(log[p]) \in Nat
        BY <1>1 DEF Publish
      <4> QED BY <4>2, <4>3
    <3>2. CASE q # p
      BY <1>1, <3>2 DEF Publish
    <3> QED BY <3>1, <3>2
  <2> QED BY <1>1, <2>1, <2>2 DEF Publish
<1>2. ASSUME NEW p \in Partitions, PollClick(p)
      PROVE  TypeOK' /\ LogBounded'
  <2>1. <<p, position[p]>> \in Slots
    BY <1>2 DEF PollClick, CanPoll, Slots, Offsets
  <2>2. position' \in [Partitions -> Nat] /\ buffer' \in SUBSET Slots
    <3>1. position' \in [Partitions -> Nat]
      BY <1>2 DEF PollClick
    <3>2. buffer' = buffer \cup {<<p, position[p]>>}
      BY <1>2 DEF PollClick
    <3> QED BY <2>1, <3>1, <3>2
  <2> QED BY <1>2, <2>2 DEF PollClick
<1>3. ASSUME NEW p \in Partitions, PollPoison(p)
      PROVE  TypeOK' /\ LogBounded'
  <2>1. position' \in [Partitions -> Nat] /\ committed' \in [Partitions -> Nat]
    BY <1>3 DEF PollPoison
  <2>2. overtaken' \in SUBSET Slots
    BY <1>3 DEF PollPoison
  <2> QED BY <1>3, <2>1, <2>2 DEF PollPoison
<1>4. ASSUME NEW p \in Partitions, PollPoisonCommitFails(p)
      PROVE  TypeOK' /\ LogBounded'
  <2>1. position' \in [Partitions -> Nat] /\ committed' \in [Partitions -> Nat]
    <3>1. position' \in [Partitions -> Nat]
      BY <1>4 DEF PollPoisonCommitFails
    <3>2. \/ committed' = committed
          \/ committed' = [committed EXCEPT ![p] = position[p] + 1]
      BY <1>4 DEF PollPoisonCommitFails
    <3> QED BY <3>1, <3>2
  <2>2. overtaken' \in SUBSET Slots
    BY <1>4 DEF PollPoisonCommitFails
  <2>3. UNCHANGED <<log, rows, buffer, lingerDue, batch, result,
                    loopVars, procVars, abandoned>> /\ pc' = "dead"
    BY <1>4 DEF PollPoisonCommitFails
  <2> QED BY <2>1, <2>2, <2>3
<1>5. CASE PollEmpty
  BY <1>5 DEF PollEmpty
<1>6. CASE SubmitFlush
  BY <1>6 DEF SubmitFlush, Submit, ShouldFlush
<1>7. CASE SkipFlush
  BY <1>7 DEF SkipFlush
<1>8. CASE FlushOk
  BY <1>8 DEF FlushOk
<1>9. CASE FlushFailed
  BY <1>9 DEF FlushFailed, GiveUp
<1>10. CASE FlushTimesOut
  BY <1>10 DEF FlushTimesOut, GiveUp
<1>11. CASE CommitOffsets
  BY <1>11 DEF CommitOffsets
<1>12. CASE CommitFails
  BY <1>12 DEF CommitFails
<1>13. CASE DrainAtStop
  BY <1>13 DEF DrainAtStop, Submit
<1>14. CASE CloseAtStop
  BY <1>14 DEF CloseAtStop
<1>15. CASE LingerElapses
  BY <1>15 DEF LingerElapses
<1>16. ASSUME NEW b \in pending, SendInsert(b)
       PROVE  TypeOK' /\ LogBounded'
  BY <1>16 DEF SendInsert
<1>17. ASSUME NEW b \in sent, StoreRows(b)
       PROVE  TypeOK' /\ LogBounded'
  BY <1>17 DEF StoreRows
<1>18. ASSUME NEW b \in stored, InsertDone(b)
       PROVE  TypeOK' /\ LogBounded'
  BY <1>18 DEF InsertDone, Resolve
<1>19. ASSUME NEW b \in pending \cup sent \cup stored, InsertFails(b)
       PROVE  TypeOK' /\ LogBounded'
  BY <1>19 DEF InsertFails, Resolve
<1>20. CASE RequestStop
  BY <1>20 DEF RequestStop
<1>21. CASE JoinReturns
  BY <1>21 DEF JoinReturns
<1>22. CASE Exit \/ Crash \/ KillUnhealthy
  BY <1>22 DEF Exit, Crash, KillUnhealthy, ProcessEnds
<1>23. CASE Restart
  BY <1>23 DEF Restart
<1>24. CASE UNCHANGED vars
  BY <1>24 DEF vars
<1> QED
  BY <1>1, <1>2, <1>3, <1>4, <1>5, <1>6, <1>7, <1>8, <1>9, <1>10, <1>11, <1>12, <1>13,
     <1>14, <1>15, <1>16, <1>17, <1>18, <1>19, <1>20, <1>21, <1>22, <1>23, <1>24
     DEF Next, PollThread, Coroutines, Process

\* Every variable of the worker keeps its type in every reachable state, whatever
\* fails: in particular a batch handed to Postgres is never empty.
THEOREM TypeCorrect == Spec => []TypeOK
<1>1. TypeInv /\ [Next]_vars => TypeInv'
  BY TypeStep
<1>2. TypeInv => TypeOK
  BY DEF TypeInv
<1> QED BY TypeInit, <1>1, <1>2, PTL DEF Spec

-----------------------------------------------------------------------------
(***************************************************************************)
(* Bookkeeping: offsets are ordered, whatever the worker holds in memory   *)
(* was read from below its positions, the batcher is empty while a flush   *)
(* is awaited, and a process that has ended holds nothing.                 *)
(***************************************************************************)

Polled(s) == s[2] < position[s[1]]

OffsetsOrdered == \A p \in Partitions : /\ committed[p] <= position[p]
                                        /\ position[p] <= Len(log[p])

HeldWasPolled == \A s \in Slots :
    (s \in buffer \cup batch \/ \E b \in pending \cup sent \cup stored : s \in b) => Polled(s)

ThreadShape == /\ batch # {} => pc \in {"flush", "commit"}
               /\ pc \in {"flush", "commit"} => buffer = {}

DownIsEmpty == proc = "down" => /\ pc = "dead"
                                /\ buffer = {}
                                /\ pending = {} /\ sent = {} /\ stored = {}

Bookkeeping == OffsetsOrdered /\ HeldWasPolled /\ ThreadShape /\ DownIsEmpty

\* What the type invariant says of one slot and of one partition.
LEMMA SlotFacts == ASSUME TypeInv
                   PROVE  /\ \A s \in Slots : s[1] \in Partitions /\ s[2] \in Nat /\ s = <<s[1], s[2]>>
                          /\ \A p \in Partitions : /\ position[p] \in Nat
                                                   /\ committed[p] \in Nat
                                                   /\ Len(log[p]) \in Nat
BY BoundsAssumption DEF TypeInv, TypeOK, Slots, Offsets

LEMMA BookkeepingInit == Init => Bookkeeping
BY DEF Init, Bookkeeping, OffsetsOrdered, HeldWasPolled, ThreadShape, DownIsEmpty, Polled

LEMMA BookkeepingStep == TypeInv /\ TypeInv' /\ Bookkeeping /\ [Next]_vars => Bookkeeping'
<1> SUFFICES ASSUME TypeInv, TypeInv', Bookkeeping, [Next]_vars
             PROVE  Bookkeeping'
  OBVIOUS
<1> USE DEF kafkaVars, threadVars, loopVars, procVars, historyVars,
            Bookkeeping, OffsetsOrdered, HeldWasPolled, ThreadShape, DownIsEmpty, Polled
<1>a. /\ \A s \in Slots : s[1] \in Partitions /\ s[2] \in Nat /\ s = <<s[1], s[2]>>
      /\ \A p \in Partitions : position[p] \in Nat /\ committed[p] \in Nat /\ Len(log[p]) \in Nat
  BY SlotFacts
<1>b. /\ position \in [Partitions -> Nat]
      /\ committed \in [Partitions -> Nat]
      /\ log \in [Partitions -> Seq(Kinds)]
      /\ buffer \in SUBSET Slots
      /\ batch \in SUBSET Slots
      /\ pending \cup sent \cup stored \in SUBSET SUBSET Slots
  BY DEF TypeInv, TypeOK, Batches
<1>1. ASSUME NEW p \in Partitions, NEW k \in Kinds, Publish(p, k)
      PROVE  Bookkeeping'
  <2>1. \A q \in Partitions : Len(log'[q]) >= Len(log[q])
    BY <1>1, <1>b DEF Publish
  <2>2. OffsetsOrdered'
    BY <1>1, <1>a, <1>b, <2>1 DEF Publish
  <2> QED BY <1>1, <2>2 DEF Publish
<1>2. ASSUME NEW p \in Partitions, PollClick(p)
      PROVE  Bookkeeping'
  <2>1. /\ position' = [position EXCEPT ![p] = @ + 1]
        /\ pc = "poll" /\ position[p] < Len(log[p])
        /\ UNCHANGED <<log, batch, loopVars, procVars>>
    BY <1>2 DEF PollClick, CanPoll
  <2>2. OffsetsOrdered'
    <3>1. \/ committed' = committed
          \/ committed' = [committed EXCEPT ![p] = position[p] + 1]
      BY <1>2 DEF PollClick
    <3> QED BY <1>a, <1>b, <2>1, <3>1
  <2>3. \A s \in Slots : Polled(s) => Polled(s)'
    BY <1>a, <1>b, <2>1
  <2>4. HeldWasPolled'
    BY <1>2, <1>a, <1>b, <2>1, <2>3 DEF PollClick
  <2> QED BY <1>2, <1>b, <2>1, <2>2, <2>4 DEF PollClick
<1>3. ASSUME NEW p \in Partitions, PollPoison(p)
      PROVE  Bookkeeping'
  <2>1. /\ position' = [position EXCEPT ![p] = @ + 1]
        /\ pc = "poll" /\ position[p] < Len(log[p])
        /\ UNCHANGED <<log, batch, loopVars, procVars>>
    BY <1>3 DEF PollPoison, CanPoll
  <2>2. OffsetsOrdered'
    <3>1. \/ committed' = committed
          \/ committed' = [committed EXCEPT ![p] = position[p] + 1]
      BY <1>3 DEF PollPoison
    <3> QED BY <1>a, <1>b, <2>1, <3>1
  <2>3. \A s \in Slots : Polled(s) => Polled(s)'
    BY <1>a, <1>b, <2>1
  <2>4. HeldWasPolled'
    BY <1>3, <1>a, <1>b, <2>1, <2>3 DEF PollPoison
  <2> QED BY <1>3, <1>b, <2>1, <2>2, <2>4 DEF PollPoison
<1>4. ASSUME NEW p \in Partitions, PollPoisonCommitFails(p)
      PROVE  Bookkeeping'
  <2>1. /\ position' = [position EXCEPT ![p] = @ + 1]
        /\ pc = "poll" /\ position[p] < Len(log[p])
        /\ UNCHANGED <<log, batch, loopVars, procVars>>
    BY <1>4 DEF PollPoisonCommitFails, CanPoll
  <2>2. OffsetsOrdered'
    <3>1. \/ committed' = committed
          \/ committed' = [committed EXCEPT ![p] = position[p] + 1]
      BY <1>4 DEF PollPoisonCommitFails
    <3> QED BY <1>a, <1>b, <2>1, <3>1
  <2>3. \A s \in Slots : Polled(s) => Polled(s)'
    BY <1>a, <1>b, <2>1
  <2>4. HeldWasPolled'
    BY <1>4, <1>a, <1>b, <2>1, <2>3 DEF PollPoisonCommitFails
  <2> QED BY <1>4, <1>b, <2>1, <2>2, <2>4 DEF PollPoisonCommitFails
<1>5. CASE PollEmpty
  BY <1>5, <1>a, <1>b DEF PollEmpty
<1>6. CASE SubmitFlush
  BY <1>6, <1>a, <1>b DEF SubmitFlush, Submit, ShouldFlush
<1>7. CASE SkipFlush
  BY <1>7, <1>a, <1>b DEF SkipFlush
<1>8. CASE FlushOk
  BY <1>8, <1>a, <1>b DEF FlushOk
<1>9. CASE FlushFailed
  BY <1>9, <1>a, <1>b DEF FlushFailed, GiveUp
<1>10. CASE FlushTimesOut
  BY <1>10, <1>a, <1>b DEF FlushTimesOut, GiveUp
<1>11. CASE CommitOffsets
  BY <1>11, <1>a, <1>b DEF CommitOffsets
<1>12. CASE CommitFails
  BY <1>12, <1>a, <1>b DEF CommitFails
<1>13. CASE DrainAtStop
  BY <1>13, <1>a, <1>b DEF DrainAtStop, Submit
<1>14. CASE CloseAtStop
  BY <1>14, <1>a, <1>b DEF CloseAtStop
<1>15. CASE LingerElapses
  BY <1>15, <1>a, <1>b DEF LingerElapses
<1>16. ASSUME NEW b \in pending, SendInsert(b)
       PROVE  Bookkeeping'
  BY <1>16, <1>a, <1>b DEF SendInsert, LoopRuns
<1>17. ASSUME NEW b \in sent, StoreRows(b)
       PROVE  Bookkeeping'
  BY <1>17, <1>a, <1>b DEF StoreRows
<1>18. ASSUME NEW b \in stored, InsertDone(b)
       PROVE  Bookkeeping'
  BY <1>18, <1>a, <1>b DEF InsertDone, Resolve, LoopRuns
<1>19. ASSUME NEW b \in pending \cup sent \cup stored, InsertFails(b)
       PROVE  Bookkeeping'
  BY <1>19, <1>a, <1>b DEF InsertFails, Resolve, LoopRuns
<1>20. CASE RequestStop
  BY <1>20, <1>a, <1>b DEF RequestStop
<1>21. CASE JoinReturns
  BY <1>21, <1>a, <1>b DEF JoinReturns
<1>22. CASE Exit \/ Crash \/ KillUnhealthy
  BY <1>22, <1>a, <1>b DEF Exit, Crash, KillUnhealthy, ProcessEnds
<1>23. CASE Restart
  BY <1>23, <1>a, <1>b DEF Restart
<1>24. CASE UNCHANGED vars
  BY <1>24, <1>a, <1>b DEF vars
<1> QED
  BY <1>1, <1>2, <1>3, <1>4, <1>5, <1>6, <1>7, <1>8, <1>9, <1>10, <1>11, <1>12, <1>13,
     <1>14, <1>15, <1>16, <1>17, <1>18, <1>19, <1>20, <1>21, <1>22, <1>23, <1>24
     DEF Next, PollThread, Coroutines, Process

\* The worker's bookkeeping is consistent in every state: the types, and which slots the
\* position, the batcher, the batches on the loop and the rows may hold.
THEOREM BookkeepingCorrect == Spec => [](TypeInv /\ Bookkeeping)
<1>1. Init => TypeInv /\ Bookkeeping
  BY TypeInit, BookkeepingInit
<1>2. TypeInv /\ Bookkeeping /\ [Next]_vars => (TypeInv /\ Bookkeeping)'
  BY TypeStep, BookkeepingStep
<1> QED BY <1>1, <1>2, PTL DEF Spec

\* The committed offset of a partition never moves back, and only a living worker
\* moves it: commit(message=msg) and commit() both commit a position, and no
\* position is behind the committed offset.
THEOREM OnlyForward == Spec => CommittedOnlyForward
<1> DEFINE Forward == /\ \A p \in Partitions : committed'[p] >= committed[p]
                      /\ committed' # committed => proc # "down"
<1>1. TypeInv /\ Bookkeeping /\ [Next]_vars => [Forward]_vars
  <2> SUFFICES ASSUME TypeInv, Bookkeeping, [Next]_vars
               PROVE  Forward
    OBVIOUS
  <2>1. /\ \A p \in Partitions : position[p] \in Nat /\ committed[p] \in Nat
        /\ committed \in [Partitions -> Nat]
        /\ \A p \in Partitions : committed[p] <= position[p]
    BY SlotFacts DEF TypeInv, TypeOK, Bookkeeping, OffsetsOrdered
  <2>2. proc = "down" => pc = "dead"
    BY DEF Bookkeeping, DownIsEmpty
  <2>3. \/ committed' = committed
        \/ /\ pc # "dead"
           /\ \/ committed' = position
              \/ \E p \in Partitions : committed' = [committed EXCEPT ![p] = position[p] + 1]
    BY DEF Next, PollThread, Coroutines, Process, Publish, PollClick, PollPoison, CanPoll,
           PollPoisonCommitFails, PollEmpty, SubmitFlush, SkipFlush, FlushOk, FlushFailed,
           FlushTimesOut, GiveUp, CommitOffsets, CommitFails, DrainAtStop, CloseAtStop,
           LingerElapses, SendInsert, StoreRows, InsertDone, InsertFails, RequestStop,
           JoinReturns, Exit, Crash, KillUnhealthy, ProcessEnds, Restart, vars, kafkaVars
  <2> QED BY <2>1, <2>2, <2>3
<1> QED BY BookkeepingCorrect, <1>1, PTL DEF CommittedOnlyForward, Spec

-----------------------------------------------------------------------------
(***************************************************************************)
(* Where a click can be. Every click below the position has a row, or is   *)
(* in the batcher, or is in the batch the thread waits for, or was given   *)
(* up; the last three are what a commit must not pass. commit() is called  *)
(* with an empty batcher and after the batch got its rows; commit(message) *)
(* is not, and records what it overtakes.                                  *)
(***************************************************************************)

PolledAccounted == \A s \in Slots :
    IsClick(s) /\ Polled(s) => rows[s] > 0 \/ s \in buffer \cup batch \cup abandoned \cup overtaken

StoredHaveRows == \A s \in Slots : \A b \in stored : s \in b => rows[s] > 0

OkHasRows == pc = "commit" \/ result = "ok" => \A s \in batch : rows[s] > 0

Accounting == PolledAccounted /\ StoredHaveRows /\ OkHasRows /\ Accounted

LEMMA AccountingInit == Init => Accounting
<1> SUFFICES ASSUME Init PROVE Accounting
  OBVIOUS
<1> USE DEF Init, Accounting, PolledAccounted, StoredHaveRows, OkHasRows, Accounted,
            Polled, Passed, IsClick
<1>1. \A s \in Slots : s[1] \in Partitions /\ s[2] \in Nat
  BY BoundsAssumption DEF Slots, Offsets
<1> QED BY <1>1

\* A message that was published stays where it is.
LEMMA PublishKeepsClicks ==
    ASSUME TypeInv, NEW p \in Partitions, NEW k \in Kinds, Publish(p, k),
           NEW s \in Slots, s[2] < Len(log[s[1]])
    PROVE  log'[s[1]][s[2] + 1] = log[s[1]][s[2] + 1] /\ s[2] < Len(log'[s[1]])
<1>1. s[1] \in Partitions /\ s[2] \in Nat
  BY SlotFacts
<1>2. log \in [Partitions -> Seq(Kinds)]
  BY DEF TypeInv, TypeOK
<1>3. CASE s[1] = p
  <2>1. log'[p] = Append(log[p], k)
    BY <1>2 DEF Publish
  <2>2. log[p] \in Seq(Kinds)
    BY <1>2
  <2> QED BY <1>1, <1>3, <2>1, <2>2
<1>4. CASE s[1] # p
  BY <1>1, <1>2, <1>4 DEF Publish
<1> QED BY <1>3, <1>4

LEMMA AccountingStep ==
    TypeInv /\ Bookkeeping /\ Accounting /\ [Next]_vars => Accounting'
<1> SUFFICES ASSUME TypeInv, Bookkeeping, Accounting, [Next]_vars
             PROVE  Accounting'
  OBVIOUS
<1> USE DEF kafkaVars, threadVars, loopVars, procVars, historyVars, Accounting,
            PolledAccounted, StoredHaveRows, OkHasRows, Accounted, Polled, Passed, IsClick
<1>a. /\ \A s \in Slots : s[1] \in Partitions /\ s[2] \in Nat /\ s = <<s[1], s[2]>>
      /\ \A p \in Partitions : position[p] \in Nat /\ committed[p] \in Nat /\ Len(log[p]) \in Nat
  BY SlotFacts
<1>b. /\ position \in [Partitions -> Nat]
      /\ committed \in [Partitions -> Nat]
      /\ rows \in [Slots -> Nat]
      /\ buffer \in SUBSET Slots
      /\ batch \in SUBSET Slots
      /\ pending \cup sent \cup stored \in SUBSET SUBSET Slots
  BY DEF TypeInv, TypeOK, Batches
<1>c. /\ \A p \in Partitions : committed[p] <= position[p] /\ position[p] <= Len(log[p])
      /\ batch # {} => pc \in {"flush", "commit"}
      /\ pc \in {"flush", "commit"} => buffer = {}
      /\ proc = "down" => pc = "dead"
  BY DEF Bookkeeping, OffsetsOrdered, ThreadShape, DownIsEmpty
<1>1. ASSUME NEW p \in Partitions, NEW k \in Kinds, Publish(p, k)
      PROVE  Accounting'
  <2>1. \A s \in Slots : Polled(s) => (IsClick(s)' <=> IsClick(s))
    BY <1>1, <1>a, <1>b, <1>c, PublishKeepsClicks
  <2>2. \A s \in Slots : Passed(s) => Polled(s)
    BY <1>a, <1>c
  <2> QED BY <1>1, <2>1, <2>2 DEF Publish
<1>2. ASSUME NEW p \in Partitions, PollClick(p)
      PROVE  Accounting'
  <2>1. /\ position' = [position EXCEPT ![p] = @ + 1]
        /\ buffer' = buffer \cup {<<p, position[p]>>}
    BY <1>2 DEF PollClick
  <2>2. \A s \in Slots : Polled(s)' => Polled(s) \/ s = <<p, position[p]>>
    BY <1>a, <1>b, <2>1
  <2> QED BY <1>2, <2>1, <2>2 DEF PollClick
<1>3. ASSUME NEW p \in Partitions, PollPoison(p)
      PROVE  Accounting'
  <2>1. /\ position' = [position EXCEPT ![p] = @ + 1]
        /\ log[p][position[p] + 1] = "poison" /\ batch = {} /\ pc' # "commit"
        /\ UNCHANGED <<log, rows, buffer, batch, result, loopVars, abandoned>>
        /\ overtaken \subseteq overtaken'
    BY <1>3, <1>c DEF PollPoison, CanPoll, NextKind
  <2>2. \A s \in Slots : IsClick(s) /\ Polled(s)' => Polled(s)
    BY <1>a, <1>b, <2>1
  <2>3. \A s \in Slots : IsClick(s) /\ Passed(s)' =>
            Passed(s) \/ (Polled(s) /\ (s \in buffer => s \in overtaken'))
    <3>1. \/ committed' = committed
          \/ /\ committed' = [committed EXCEPT ![p] = position[p] + 1]
             /\ \A s \in buffer : s[1] = p => s \in overtaken'
      BY <1>3 DEF PollPoison
    <3>2. CASE committed' = committed
      BY <3>2
    <3>3. CASE committed' # committed
      <4> SUFFICES ASSUME NEW s \in Slots, IsClick(s), Passed(s)'
                   PROVE  Passed(s) \/ (s[1] = p /\ Polled(s))
        BY <3>1, <3>3
      <4>1. CASE s[1] = p
        BY <1>a, <1>b, <2>1, <2>2, <3>1, <3>3, <4>1
      <4>2. CASE s[1] # p
        BY <1>a, <1>b, <3>1, <3>3, <4>2
      <4> QED BY <4>1, <4>2
    <3> QED BY <3>2, <3>3
  <2>4. PolledAccounted'
    BY <2>1, <2>2
  <2>5. Accounted'
    BY <2>1, <2>3
  <2> QED BY <2>1, <2>4, <2>5
<1>4. ASSUME NEW p \in Partitions, PollPoisonCommitFails(p)
      PROVE  Accounting'
  <2>1. /\ position' = [position EXCEPT ![p] = @ + 1]
        /\ log[p][position[p] + 1] = "poison" /\ batch = {} /\ pc' # "commit"
        /\ UNCHANGED <<log, rows, buffer, batch, result, loopVars, abandoned>>
        /\ overtaken \subseteq overtaken'
    BY <1>4, <1>c DEF PollPoisonCommitFails, CanPoll, NextKind
  <2>2. \A s \in Slots : IsClick(s) /\ Polled(s)' => Polled(s)
    BY <1>a, <1>b, <2>1
  <2>3. \A s \in Slots : IsClick(s) /\ Passed(s)' =>
            Passed(s) \/ (Polled(s) /\ (s \in buffer => s \in overtaken'))
    <3>1. \/ committed' = committed
          \/ /\ committed' = [committed EXCEPT ![p] = position[p] + 1]
             /\ \A s \in buffer : s[1] = p => s \in overtaken'
      BY <1>4 DEF PollPoisonCommitFails
    <3>2. CASE committed' = committed
      BY <3>2
    <3>3. CASE committed' # committed
      <4> SUFFICES ASSUME NEW s \in Slots, IsClick(s), Passed(s)'
                   PROVE  Passed(s) \/ (s[1] = p /\ Polled(s))
        BY <3>1, <3>3
      <4>1. CASE s[1] = p
        BY <1>a, <1>b, <2>1, <2>2, <3>1, <3>3, <4>1
      <4>2. CASE s[1] # p
        BY <1>a, <1>b, <3>1, <3>3, <4>2
      <4> QED BY <4>1, <4>2
    <3> QED BY <3>2, <3>3
  <2>4. PolledAccounted'
    BY <2>1, <2>2
  <2>5. Accounted'
    BY <2>1, <2>3
  <2> QED BY <2>1, <2>4, <2>5
<1>5. CASE PollEmpty
  BY <1>5, <1>a, <1>b, <1>c DEF PollEmpty
<1>6. CASE SubmitFlush
  BY <1>6, <1>a, <1>b, <1>c DEF SubmitFlush, Submit, ShouldFlush
<1>7. CASE SkipFlush
  BY <1>7, <1>a, <1>b, <1>c DEF SkipFlush
<1>8. CASE FlushOk
  BY <1>8, <1>a, <1>b, <1>c DEF FlushOk
<1>9. CASE FlushFailed
  BY <1>9, <1>a, <1>b, <1>c DEF FlushFailed, GiveUp
<1>10. CASE FlushTimesOut
  BY <1>10, <1>a, <1>b, <1>c DEF FlushTimesOut, GiveUp
<1>11. CASE CommitOffsets
  BY <1>11, <1>a, <1>b, <1>c DEF CommitOffsets
<1>12. CASE CommitFails
  BY <1>12, <1>a, <1>b, <1>c DEF CommitFails
<1>13. CASE DrainAtStop
  BY <1>13, <1>a, <1>b, <1>c DEF DrainAtStop, Submit
<1>14. CASE CloseAtStop
  BY <1>14, <1>a, <1>b, <1>c DEF CloseAtStop
<1>15. CASE LingerElapses
  BY <1>15, <1>a, <1>b, <1>c DEF LingerElapses
<1>16. ASSUME NEW b \in pending, SendInsert(b)
       PROVE  Accounting'
  BY <1>16, <1>a, <1>b, <1>c DEF SendInsert, LoopRuns
<1>17. ASSUME NEW b \in sent, StoreRows(b)
       PROVE  Accounting'
  <2>1. \A s \in Slots : /\ rows'[s] >= rows[s]
                         /\ s \in b => rows'[s] > 0
    BY <1>17, <1>b DEF StoreRows
  <2>2. \A s \in Slots : rows[s] \in Nat /\ rows'[s] \in Nat
    BY <1>17, <1>b DEF StoreRows
  <2> QED BY <1>17, <1>b, <2>1, <2>2 DEF StoreRows
<1>18. ASSUME NEW b \in stored, InsertDone(b)
       PROVE  Accounting'
  BY <1>18, <1>a, <1>b, <1>c DEF InsertDone, Resolve, LoopRuns
<1>19. ASSUME NEW b \in pending \cup sent \cup stored, InsertFails(b)
       PROVE  Accounting'
  BY <1>19, <1>a, <1>b, <1>c DEF InsertFails, Resolve, LoopRuns
<1>20. CASE RequestStop
  BY <1>20, <1>a, <1>b, <1>c DEF RequestStop
<1>21. CASE JoinReturns
  BY <1>21, <1>a, <1>b, <1>c DEF JoinReturns
<1>22. CASE Exit \/ Crash \/ KillUnhealthy
  BY <1>22, <1>a, <1>b, <1>c DEF Exit, Crash, KillUnhealthy, ProcessEnds
<1>23. CASE Restart
  BY <1>23, <1>a, <1>b, <1>c DEF Restart
<1>24. CASE UNCHANGED vars
  BY <1>24, <1>a, <1>b, <1>c DEF vars
<1> QED
  BY <1>1, <1>2, <1>3, <1>4, <1>5, <1>6, <1>7, <1>8, <1>9, <1>10, <1>11, <1>12, <1>13,
     <1>14, <1>15, <1>16, <1>17, <1>18, <1>19, <1>20, <1>21, <1>22, <1>23, <1>24
     DEF Next, PollThread, Coroutines, Process

\* Under every fault of the model, a click whose offset is committed has a row, or
\* was given up by a failed or late flush, or was overtaken by a malformed message.
THEOREM ClicksAccounted == Spec => []Accounted
<1>1. Init => Accounting
  BY AccountingInit
<1>2. TypeInv /\ Bookkeeping /\ Accounting /\ [Next]_vars => Accounting'
  BY AccountingStep
<1>3. Accounting => Accounted
  BY DEF Accounting
<1> QED BY BookkeepingCorrect, <1>1, <1>2, <1>3, PTL DEF Spec

-----------------------------------------------------------------------------
(***************************************************************************)
(* At most one row per click and life. A slot whose INSERT is still to     *)
(* come in this life (not polled, in the batcher, or in a coroutine that   *)
(* Postgres has not committed) has rows of earlier lives only; the batcher *)
(* and those coroutines are pairwise disjoint, so a commit of one of them  *)
(* takes its slots out of that set.                                        *)
(***************************************************************************)

Unsent(s) == \/ ~Polled(s)
             \/ s \in buffer
             \/ \E b \in pending \cup sent : s \in b

UnsentRows == proc # "down" => \A s \in Slots : Unsent(s) => rows[s] <= restarts

BatchesDisjoint == /\ pending \cap sent = {}
                   /\ \A b \in pending \cup sent : b \cap buffer = {}
                   /\ \A b, c \in pending \cup sent : b # c => b \cap c = {}

OnceInv == UnsentRows /\ BatchesDisjoint /\ AtMostOncePerStart

LEMMA OnceInit == Init => OnceInv
BY DEF Init, OnceInv, UnsentRows, BatchesDisjoint, AtMostOncePerStart

LEMMA OnceStep == TypeInv /\ Bookkeeping /\ OnceInv /\ [Next]_vars => OnceInv'
<1> SUFFICES ASSUME TypeInv, Bookkeeping, OnceInv, [Next]_vars
             PROVE  OnceInv'
  OBVIOUS
<1> USE DEF kafkaVars, threadVars, loopVars, procVars, historyVars, OnceInv,
            UnsentRows, BatchesDisjoint, AtMostOncePerStart, Unsent, Polled
<1>a. /\ \A s \in Slots : s[1] \in Partitions /\ s[2] \in Nat /\ s = <<s[1], s[2]>>
      /\ \A p \in Partitions : position[p] \in Nat /\ committed[p] \in Nat /\ Len(log[p]) \in Nat
  BY SlotFacts
<1>b. /\ position \in [Partitions -> Nat]
      /\ rows \in [Slots -> Nat]
      /\ restarts \in Nat
      /\ buffer \in SUBSET Slots
      /\ pending \in SUBSET Batches /\ sent \in SUBSET Batches
  BY DEF TypeInv, TypeOK
<1>c. /\ \A s \in Slots : (s \in buffer \/ \E b \in pending \cup sent : s \in b) => Polled(s)
      /\ pc \in {"flush", "commit"} => buffer = {}
      /\ proc = "down" => pc = "dead" /\ pending = {} /\ sent = {} /\ buffer = {}
  BY DEF Bookkeeping, HeldWasPolled, ThreadShape, DownIsEmpty
<1>d. \A b \in Batches : b \in SUBSET Slots /\ b # {}
  BY DEF Batches
<1>1. ASSUME NEW p \in Partitions, NEW k \in Kinds, Publish(p, k)
      PROVE  OnceInv'
  BY <1>1, <1>b DEF Publish
<1>2. ASSUME NEW p \in Partitions, PollClick(p)
      PROVE  OnceInv'
  <2>1. /\ position' = [position EXCEPT ![p] = @ + 1]
        /\ buffer' = buffer \cup {<<p, position[p]>>}
        /\ UNCHANGED <<rows, pending, sent, proc, restarts>>
    BY <1>2 DEF PollClick
  <2>2. \A s \in Slots : /\ Polled(s) => Polled(s)'
                         /\ s = <<p, position[p]>> => ~Polled(s)
    BY <1>a, <1>b, <2>1
  <2>3. UnsentRows'
    BY <1>a, <1>b, <2>1, <2>2
  <2>4. BatchesDisjoint'
    BY <1>b, <1>c, <1>d, <2>1, <2>2
  <2> QED BY <2>1, <2>3, <2>4
<1>3. ASSUME NEW p \in Partitions, PollPoison(p)
      PROVE  OnceInv'
  <2>1. /\ position' = [position EXCEPT ![p] = @ + 1]
        /\ UNCHANGED <<rows, buffer, pending, sent, proc, restarts>>
    BY <1>3 DEF PollPoison
  <2>2. \A s \in Slots : Polled(s) => Polled(s)'
    BY <1>a, <1>b, <2>1
  <2> QED BY <2>1, <2>2
<1>4. ASSUME NEW p \in Partitions, PollPoisonCommitFails(p)
      PROVE  OnceInv'
  <2>1. /\ position' = [position EXCEPT ![p] = @ + 1]
        /\ UNCHANGED <<rows, buffer, pending, sent, proc, restarts>>
    BY <1>4 DEF PollPoisonCommitFails
  <2>2. \A s \in Slots : Polled(s) => Polled(s)'
    BY <1>a, <1>b, <2>1
  <2> QED BY <2>1, <2>2
<1>5. CASE PollEmpty
  BY <1>5, <1>b DEF PollEmpty
<1>6. CASE SubmitFlush
  <2>1. /\ buffer # {} /\ buffer' = {} /\ pending' = pending \cup {buffer}
        /\ UNCHANGED <<rows, position, sent, proc, restarts>>
    BY <1>6 DEF SubmitFlush, Submit, ShouldFlush
  <2>2. buffer \notin pending \cup sent
    BY <2>1
  <2>3. UnsentRows'
    BY <2>1
  <2>4. BatchesDisjoint'
    BY <2>1, <2>2
  <2> QED BY <2>1, <2>3, <2>4
<1>7. CASE SkipFlush
  BY <1>7, <1>b DEF SkipFlush
<1>8. CASE FlushOk
  BY <1>8, <1>b DEF FlushOk
<1>9. CASE FlushFailed
  BY <1>9, <1>b DEF FlushFailed, GiveUp
<1>10. CASE FlushTimesOut
  BY <1>10, <1>b DEF FlushTimesOut, GiveUp
<1>11. CASE CommitOffsets
  BY <1>11, <1>b DEF CommitOffsets
<1>12. CASE CommitFails
  BY <1>12, <1>b DEF CommitFails
<1>13. CASE DrainAtStop
  <2>1. /\ buffer # {} /\ buffer' = {} /\ pending' = pending \cup {buffer}
        /\ UNCHANGED <<rows, position, sent, proc, restarts>>
    BY <1>13 DEF DrainAtStop, Submit
  <2>2. buffer \notin pending \cup sent
    BY <2>1
  <2>3. UnsentRows'
    BY <2>1
  <2>4. BatchesDisjoint'
    BY <2>1, <2>2
  <2> QED BY <2>1, <2>3, <2>4
<1>14. CASE CloseAtStop
  BY <1>14, <1>b DEF CloseAtStop
<1>15. CASE LingerElapses
  BY <1>15, <1>b DEF LingerElapses
<1>16. ASSUME NEW b \in pending, SendInsert(b)
       PROVE  OnceInv'
  <2>1. /\ pending' = pending \ {b} /\ sent' = sent \cup {b}
        /\ UNCHANGED <<rows, position, buffer, proc, restarts>>
    BY <1>16 DEF SendInsert
  <2>2. pending' \cup sent' = pending \cup sent
    BY <2>1
  <2> QED BY <2>1, <2>2
<1>17. ASSUME NEW b \in sent, StoreRows(b)
       PROVE  OnceInv'
  <2>1. /\ sent' = sent \ {b}
        /\ rows' = [s \in Slots |-> IF s \in b THEN rows[s] + 1 ELSE rows[s]]
        /\ UNCHANGED <<position, buffer, pending, proc, restarts>>
    BY <1>17 DEF StoreRows
  <2>2. proc # "down"
    BY <1>c
  <2>3. AtMostOncePerStart'
    <3> SUFFICES ASSUME NEW s \in Slots
                 PROVE  rows'[s] <= restarts + 1
      BY <2>1
    <3>1. CASE s \in b
      <4>1. rows[s] <= restarts
        BY <2>2, <3>1
      <4> QED BY <1>b, <2>1, <3>1, <4>1
    <3>2. CASE s \notin b
      BY <2>1, <3>2
    <3> QED BY <3>1, <3>2
  <2>4. UnsentRows'
    <3> SUFFICES ASSUME NEW s \in Slots, Unsent(s)'
                 PROVE  rows'[s] <= restarts
      BY <2>1
    <3>1. s \notin b
      BY <1>c, <1>b, <2>1
    <3>2. Unsent(s)
      BY <2>1
    <3> QED BY <2>1, <2>2, <3>1, <3>2
  <2>5. BatchesDisjoint'
    BY <2>1
  <2> QED BY <2>3, <2>4, <2>5
<1>18. ASSUME NEW b \in stored, InsertDone(b)
       PROVE  OnceInv'
  BY <1>18, <1>b DEF InsertDone, Resolve, LoopRuns
<1>19. ASSUME NEW b \in pending \cup sent \cup stored, InsertFails(b)
       PROVE  OnceInv'
  BY <1>19, <1>b DEF InsertFails, Resolve, LoopRuns
<1>20. CASE RequestStop
  BY <1>20, <1>b DEF RequestStop
<1>21. CASE JoinReturns
  BY <1>21, <1>b DEF JoinReturns
<1>22. CASE Exit \/ Crash \/ KillUnhealthy
  <2>1. proc' = "down" /\ pending' = {} /\ sent' = {} /\ UNCHANGED <<rows, restarts>>
    BY <1>22 DEF Exit, Crash, KillUnhealthy, ProcessEnds
  <2> QED BY <2>1
<1>23. CASE Restart
  <2>1. restarts' = restarts + 1 /\ UNCHANGED <<rows, pending, sent, buffer, position>>
    BY <1>23 DEF Restart
  <2> QED BY <1>b, <2>1
<1>24. CASE UNCHANGED vars
  BY <1>24, <1>b DEF vars
<1> QED
  BY <1>1, <1>2, <1>3, <1>4, <1>5, <1>6, <1>7, <1>8, <1>9, <1>10, <1>11, <1>12, <1>13,
     <1>14, <1>15, <1>16, <1>17, <1>18, <1>19, <1>20, <1>21, <1>22, <1>23, <1>24
     DEF Next, PollThread, Coroutines, Process

\* In a worker that was started again restarts times, no click has more than
\* restarts + 1 rows: only a new start inserts a click again, never a failed flush,
\* a coroutine that outlived its timeout or an answer that was lost.
THEOREM OnceStarted == Spec => []AtMostOncePerStart
<1>1. Init => OnceInv
  BY OnceInit
<1>2. TypeInv /\ Bookkeeping /\ OnceInv /\ [Next]_vars => OnceInv'
  BY OnceStep
<1>3. OnceInv => AtMostOncePerStart
  BY DEF OnceInv
<1> QED BY BookkeepingCorrect, <1>1, <1>2, <1>3, PTL DEF Spec

-----------------------------------------------------------------------------
(***************************************************************************)
(* One insert at a time. While the thread polls the batcher is not full,   *)
(* so a batch it drains fits; and while no flush times out a coroutine is  *)
(* on the loop only as long as the thread waits for it.                    *)
(***************************************************************************)

BufferFits == /\ IsFiniteSet(buffer)
              /\ Cardinality(buffer) <= BatchSize
              /\ pc = "poll" => Cardinality(buffer) < BatchSize

InOnePlace == pending \cap sent = {} /\ pending \cap stored = {} /\ sent \cap stored = {}

TurnsInv == BufferFits /\ InOnePlace /\ OneInsertAtATime

LEMMA EmptyBufferFits == ASSUME buffer' = {} PROVE BufferFits'
<1>1. IsFiniteSet(buffer') /\ Cardinality(buffer') = 0
  BY FS_EmptySet
<1> QED BY <1>1, BoundsAssumption DEF BufferFits

LEMMA TurnsInit == Init => TurnsInv
<1> SUFFICES ASSUME Init PROVE TurnsInv
  OBVIOUS
<1>1. IsFiniteSet(buffer) /\ Cardinality(buffer) = 0
  BY FS_EmptySet DEF Init
<1> QED BY <1>1, BoundsAssumption DEF Init, TurnsInv, BufferFits, InOnePlace, OneInsertAtATime

\* drain() hands over what the batcher holds while no coroutine is on the loop.
LEMMA SubmitTakesTurn ==
    ASSUME TypeInv, TurnsInv, pc # "flush", buffer # {}, Submit,
           UNCHANGED <<sent, stored>>
    PROVE  TurnsInv'
<1>1. pending = {} /\ sent = {} /\ stored = {}
  BY DEF TurnsInv, OneInsertAtATime
<1>2. OneInsertAtATime' /\ InOnePlace'
  BY <1>1 DEF OneInsertAtATime, InOnePlace, Submit, TurnsInv, BufferFits
<1>3. BufferFits'
  BY EmptyBufferFits DEF Submit
<1> QED BY <1>2, <1>3 DEF TurnsInv

LEMMA TurnsStep ==
    ~FlushMayTimeOut /\ TypeInv /\ Bookkeeping /\ TurnsInv /\ [Next]_vars => TurnsInv'
<1> SUFFICES ASSUME ~FlushMayTimeOut, TypeInv, Bookkeeping, TurnsInv, [Next]_vars
             PROVE  TurnsInv'
  OBVIOUS
\* The batcher and the coroutines stay as they are; the thread was not waiting.
<1>1. ASSUME UNCHANGED <<buffer, loopVars>>, pc # "flush",
             pc' = "poll" => pc = "poll" \/ Cardinality(buffer) < BatchSize
      PROVE  TurnsInv'
  BY <1>1 DEF TurnsInv, BufferFits, OneInsertAtATime, InOnePlace, loopVars
\* Nor does the thread move.
<1>2. ASSUME UNCHANGED <<buffer, loopVars, pc, batch, result>>
      PROVE  TurnsInv'
  BY <1>2 DEF TurnsInv, BufferFits, OneInsertAtATime, InOnePlace, loopVars
\* The thread has its answer, and no coroutine is left.
<1>3. ASSUME UNCHANGED <<buffer, loopVars>>, result # "none", pc = "flush"
      PROVE  TurnsInv'
  <2>1. pending = {} /\ sent = {} /\ stored = {}
    BY <1>3 DEF TurnsInv, OneInsertAtATime
  <2>2. buffer' = {}
    BY <1>3 DEF Bookkeeping, ThreadShape
  <2> QED BY <1>3, <2>1, <2>2, EmptyBufferFits DEF TurnsInv, OneInsertAtATime, InOnePlace, loopVars
<1>4. CASE \E p \in Partitions, k \in Kinds : Publish(p, k)
  BY <1>4, <1>2 DEF Publish, threadVars
<1>5. CASE \E p \in Partitions : PollClick(p)
  <2>1. PICK p \in Partitions : PollClick(p)
    BY <1>5
  <2>2. /\ pc = "poll" /\ pc' = "check"
        /\ buffer' = buffer \cup {<<p, position[p]>>}
        /\ UNCHANGED loopVars
    BY <2>1 DEF PollClick, CanPoll
  <2>3. IsFiniteSet(buffer) /\ Cardinality(buffer) \in Nat /\ Cardinality(buffer) < BatchSize
    BY <2>2, FS_CardinalityType DEF TurnsInv, BufferFits
  <2>4. IsFiniteSet(buffer') /\ Cardinality(buffer') <= Cardinality(buffer) + 1
    <3> DEFINE s == <<p, position[p]>>
    <3>1. /\ IsFiniteSet(buffer \cup {s})
          /\ Cardinality(buffer \cup {s}) =
                IF s \in buffer THEN Cardinality(buffer) ELSE Cardinality(buffer) + 1
      <4> HIDE DEF s
      <4> QED BY <2>3, FS_AddElement, Zenon
    <3> QED BY <2>2, <2>3, <3>1
  <2>5. Cardinality(buffer') \in Nat
    BY <2>4, FS_CardinalityType
  <2>6. BufferFits'
    BY <2>2, <2>3, <2>4, <2>5, BoundsAssumption DEF BufferFits
  <2> QED BY <2>2, <2>6 DEF TurnsInv, OneInsertAtATime, InOnePlace, loopVars
<1>6. CASE \E p \in Partitions : PollPoison(p) \/ PollPoisonCommitFails(p)
  BY <1>6, <1>1 DEF PollPoison, PollPoisonCommitFails, CanPoll
<1>7. CASE PollEmpty
  BY <1>7, <1>1 DEF PollEmpty
<1>8. CASE SubmitFlush
  BY <1>8, SubmitTakesTurn DEF SubmitFlush, ShouldFlush
<1>9. CASE SkipFlush
  <2>1. Cardinality({}) < BatchSize
    BY FS_EmptySet, BoundsAssumption
  <2>2. Cardinality(buffer) \in Nat
    BY FS_CardinalityType DEF TurnsInv, BufferFits
  <2>3. Cardinality(buffer) < BatchSize
    BY <1>9, <2>1, <2>2, BoundsAssumption DEF SkipFlush, ShouldFlush
  <2> QED BY <1>9, <1>1, <2>3 DEF SkipFlush
<1>10. CASE FlushOk \/ FlushFailed \/ FlushTimesOut
  BY <1>10, <1>3 DEF FlushOk, FlushFailed, FlushTimesOut, GiveUp
<1>11. CASE CommitOffsets \/ CommitFails
  <2>1. buffer = {}
    BY <1>11 DEF CommitOffsets, CommitFails, Bookkeeping, ThreadShape
  <2>2. Cardinality(buffer) < BatchSize
    BY <2>1, FS_EmptySet, BoundsAssumption
  <2> QED BY <1>11, <1>1, <2>2 DEF CommitOffsets, CommitFails
<1>12. CASE DrainAtStop
  BY <1>12, SubmitTakesTurn DEF DrainAtStop
<1>13. CASE CloseAtStop
  BY <1>13, <1>1 DEF CloseAtStop
<1>14. CASE LingerElapses
  BY <1>14, <1>2 DEF LingerElapses
<1>15. CASE Coroutines
  <2>1. UNCHANGED <<pc, buffer, batch>>
    BY <1>15 DEF Coroutines, SendInsert, StoreRows, InsertDone, InsertFails, threadVars
  <2>2. BufferFits'
    BY <2>1 DEF TurnsInv, BufferFits
  <2>3. PICK b \in pending \cup sent \cup stored :
            \/ SendInsert(b) \/ StoreRows(b) \/ InsertDone(b) \/ InsertFails(b)
    BY <1>15 DEF Coroutines
  <2>4. pc = "flush" /\ batch = b /\ result = "none" /\ Cardinality(b) <= BatchSize
        /\ \A d \in pending \cup sent \cup stored : d = b
    BY DEF TurnsInv, OneInsertAtATime
  <2>5. \A d \in pending' \cup sent' \cup stored' : d = b /\ result' = "none"
    <3>1. CASE SendInsert(b) \/ StoreRows(b)
      <4>1. /\ result' = result
            /\ pending' \cup sent' \cup stored' \subseteq pending \cup sent \cup stored \cup {b}
        BY <3>1 DEF SendInsert, StoreRows, threadVars
      <4> QED BY <4>1, <2>4
    <3>2. CASE InsertDone(b)
      <4>1. b \in stored /\ pending' = pending /\ sent' = sent /\ stored' = stored \ {b}
        BY <3>2 DEF InsertDone
      <4>2. b \notin pending /\ b \notin sent
        BY <4>1 DEF TurnsInv, InOnePlace
      <4>3. pending = {} /\ sent = {} /\ stored \subseteq {b}
        BY <4>2, <2>4
      <4>4. pending' \cup sent' \cup stored' = {}
        BY <4>1, <4>3
      <4> QED BY <4>4
    <3>3. CASE InsertFails(b)
      BY <3>3, <2>4 DEF InsertFails
    <3> QED BY <2>3, <3>1, <3>2, <3>3
  <2>6. InOnePlace'
    BY <2>3 DEF TurnsInv, InOnePlace, SendInsert, StoreRows, InsertDone, InsertFails
  <2> QED BY <2>1, <2>2, <2>4, <2>5, <2>6 DEF TurnsInv, OneInsertAtATime
<1>16. CASE RequestStop \/ JoinReturns
  BY <1>16, <1>2 DEF RequestStop, JoinReturns, threadVars
<1>17. CASE Exit \/ Crash \/ KillUnhealthy
  <2>1. buffer' = {} /\ pending' = {} /\ sent' = {} /\ stored' = {}
    BY <1>17 DEF Exit, Crash, KillUnhealthy, ProcessEnds
  <2> QED BY <2>1, EmptyBufferFits DEF TurnsInv, OneInsertAtATime, InOnePlace
<1>18. CASE Restart
  <2>1. buffer' = {} /\ pending' = {} /\ sent' = {} /\ stored' = {}
    BY <1>18 DEF Restart, Bookkeeping, DownIsEmpty, loopVars
  <2> QED BY <2>1, EmptyBufferFits DEF TurnsInv, OneInsertAtATime, InOnePlace
<1>19. CASE UNCHANGED vars
  BY <1>19, <1>2 DEF vars, threadVars
<1> QED
  BY <1>4, <1>5, <1>6, <1>7, <1>8, <1>9, <1>10, <1>11, <1>12, <1>13, <1>14, <1>15, <1>16,
     <1>17, <1>18, <1>19 DEF Next, PollThread, Process

\* Unless a flush times out, no two inserts of one worker run at the same time and none
\* is larger than the batch size, through failing inserts and commits, crashes and stops.
THEOREM InsertsTakeTurns == ~FlushMayTimeOut => (Spec => []OneInsertAtATime)
<1> SUFFICES ASSUME ~FlushMayTimeOut
             PROVE  Spec => []OneInsertAtATime
  OBVIOUS
<1>1. TypeInv /\ Bookkeeping /\ TurnsInv /\ [Next]_vars => TurnsInv'
  BY TurnsStep
<1>2. TurnsInv => OneInsertAtATime
  BY DEF TurnsInv
<1> QED BY BookkeepingCorrect, TurnsInit, <1>1, <1>2, PTL DEF Spec

-----------------------------------------------------------------------------
(***************************************************************************)
(* The docstring's promise. When inserts neither fail nor time out and     *)
(* every message is a click of an existing url, no click is given up, so   *)
(* the accounting above leaves only "has a row".                           *)
(***************************************************************************)

FaultFree == Kinds = {"click"} /\ ~InsertMayFail /\ ~FlushMayTimeOut

NoneLost == abandoned = {} /\ overtaken = {} /\ result # "failed"

LEMMA NoneLostInit == Init => NoneLost
BY DEF Init, NoneLost

\* Every message below the end of its partition is a click.
LEMMA OnlyClicks ==
    ASSUME FaultFree, TypeInv, NEW p \in Partitions, NEW o \in Nat, o < Len(log[p])
    PROVE  log[p][o + 1] = "click"
<1>1. log[p] \in Seq({"click"})
  BY DEF FaultFree, TypeInv, TypeOK
<1> QED BY <1>1

LEMMA NoneLostStep ==
    FaultFree /\ TypeInv /\ Bookkeeping /\ NoneLost /\ [Next]_vars => NoneLost'
<1> SUFFICES ASSUME FaultFree, TypeInv, Bookkeeping, NoneLost, [Next]_vars
             PROVE  NoneLost'
  OBVIOUS
<1> USE DEF kafkaVars, threadVars, loopVars, procVars, historyVars, NoneLost
<1>a. /\ \A s \in Slots : s[1] \in Partitions /\ s[2] \in Nat
      /\ \A p \in Partitions : position[p] \in Nat /\ position[p] <= Len(log[p]) /\ Len(log[p]) \in Nat
  BY SlotFacts DEF Bookkeeping, OffsetsOrdered
<1>b. \A p \in Partitions : CanPoll(p) => NextKind(p) = "click"
  BY <1>a, OnlyClicks DEF CanPoll, NextKind
<1>1. ASSUME NEW p \in Partitions, NEW k \in Kinds, Publish(p, k)
      PROVE  NoneLost'
  BY <1>1 DEF Publish
<1>2. ASSUME NEW p \in Partitions, PollClick(p)
      PROVE  NoneLost'
  BY <1>2 DEF PollClick, CanPoll
<1>3. ASSUME NEW p \in Partitions, PollPoison(p)
      PROVE  NoneLost'
  BY <1>3, <1>b DEF PollPoison
<1>4. ASSUME NEW p \in Partitions, PollPoisonCommitFails(p)
      PROVE  NoneLost'
  BY <1>4, <1>b DEF PollPoisonCommitFails
<1>5. CASE PollEmpty
  BY <1>5 DEF PollEmpty
<1>6. CASE SubmitFlush
  BY <1>6 DEF SubmitFlush, Submit, ShouldFlush
<1>7. CASE SkipFlush
  BY <1>7 DEF SkipFlush
<1>8. CASE FlushOk
  BY <1>8 DEF FlushOk
<1>9. CASE FlushFailed
  BY <1>9 DEF FlushFailed, GiveUp
<1>10. CASE FlushTimesOut
  BY <1>10 DEF FlushTimesOut, FaultFree
<1>11. CASE CommitOffsets
  BY <1>11 DEF CommitOffsets
<1>12. CASE CommitFails
  BY <1>12 DEF CommitFails
<1>13. CASE DrainAtStop
  BY <1>13 DEF DrainAtStop, Submit
<1>14. CASE CloseAtStop
  BY <1>14 DEF CloseAtStop
<1>15. CASE LingerElapses
  BY <1>15 DEF LingerElapses
<1>16. ASSUME NEW b \in pending, SendInsert(b)
       PROVE  NoneLost'
  BY <1>16 DEF SendInsert, LoopRuns
<1>17. ASSUME NEW b \in sent, StoreRows(b)
       PROVE  NoneLost'
  BY <1>17 DEF StoreRows
<1>18. ASSUME NEW b \in stored, InsertDone(b)
       PROVE  NoneLost'
  BY <1>18 DEF InsertDone, Resolve, LoopRuns
<1>19. ASSUME NEW b \in pending \cup sent \cup stored, InsertFails(b)
       PROVE  NoneLost'
  <2>1. HasOrphan(b) /\ b \in pending
    BY <1>19 DEF InsertFails, FaultFree
  <2>2. PICK s \in b : log[s[1]][s[2] + 1] = "orphan"
    BY <2>1 DEF HasOrphan
  <2>3. s \in Slots
    BY <2>1 DEF TypeInv, TypeOK, Batches
  <2>4. s[2] < position[s[1]]
    BY <2>1, <2>3 DEF Bookkeeping, HeldWasPolled, Polled
  <2>5. log[s[1]][s[2] + 1] = "click"
    BY <1>a, <2>3, <2>4, OnlyClicks
  <2> QED BY <2>2, <2>5
<1>20. CASE RequestStop
  BY <1>20 DEF RequestStop
<1>21. CASE JoinReturns
  BY <1>21 DEF JoinReturns
<1>22. CASE Exit \/ Crash \/ KillUnhealthy
  BY <1>22 DEF Exit, Crash, KillUnhealthy, ProcessEnds
<1>23. CASE Restart
  BY <1>23 DEF Restart
<1>24. CASE UNCHANGED vars
  BY <1>24 DEF vars
<1> QED
  BY <1>1, <1>2, <1>3, <1>4, <1>5, <1>6, <1>7, <1>8, <1>9, <1>10, <1>11, <1>12, <1>13,
     <1>14, <1>15, <1>16, <1>17, <1>18, <1>19, <1>20, <1>21, <1>22, <1>23, <1>24
     DEF Next, PollThread, Coroutines, Process

\* At-least-once: a click whose offset is committed has a row, through crashes at
\* any step, stops, and commits that fail or whose answer is lost.
THEOREM NoClickLost == FaultFree => (Spec => []AtLeastOnce)
<1> SUFFICES ASSUME FaultFree
             PROVE  Spec => []AtLeastOnce
  OBVIOUS
<1>1. Init => Accounting /\ NoneLost
  BY AccountingInit, NoneLostInit
<1>2. TypeInv /\ Bookkeeping /\ (Accounting /\ NoneLost) /\ [Next]_vars
        => (Accounting /\ NoneLost)'
  BY AccountingStep, NoneLostStep
<1>3. Accounting /\ NoneLost => AtLeastOnce
  BY DEF Accounting, Accounted, NoneLost, AtLeastOnce, IsCountable
<1> QED BY BookkeepingCorrect, <1>1, <1>2, <1>3, PTL DEF Spec

-----------------------------------------------------------------------------
(***************************************************************************)
(* Refinement: StoreRows delivers, a commit acknowledges, and every other  *)
(* step of the worker is invisible to ClickDelivery.                       *)
(***************************************************************************)

\* Only a published message has a row.
RowsOfPublished == \A s \in Slots : rows[s] > 0 => s[2] < Len(log[s[1]])

LEMMA RowsOfPublishedInit == Init => RowsOfPublished
BY DEF Init, RowsOfPublished

LEMMA RowsOfPublishedStep ==
    TypeInv /\ Bookkeeping /\ RowsOfPublished /\ [Next]_vars => RowsOfPublished'
<1> SUFFICES ASSUME TypeInv, Bookkeeping, RowsOfPublished, [Next]_vars
             PROVE  RowsOfPublished'
  OBVIOUS
<1> USE DEF kafkaVars, threadVars, loopVars, procVars, historyVars, RowsOfPublished
<1>a. /\ \A s \in Slots : s[1] \in Partitions /\ s[2] \in Nat
      /\ \A p \in Partitions : position[p] \in Nat /\ position[p] <= Len(log[p]) /\ Len(log[p]) \in Nat
  BY SlotFacts DEF Bookkeeping, OffsetsOrdered
<1>1. ASSUME NEW p \in Partitions, NEW k \in Kinds, Publish(p, k)
      PROVE  RowsOfPublished'
  BY <1>1, PublishKeepsClicks DEF Publish
<1>2. ASSUME NEW p \in Partitions, PollClick(p)
      PROVE  RowsOfPublished'
  BY <1>2 DEF PollClick, CanPoll
<1>3. ASSUME NEW p \in Partitions, PollPoison(p)
      PROVE  RowsOfPublished'
  BY <1>3 DEF PollPoison, CanPoll
<1>4. ASSUME NEW p \in Partitions, PollPoisonCommitFails(p)
      PROVE  RowsOfPublished'
  BY <1>4 DEF PollPoisonCommitFails, CanPoll
<1>5. CASE PollEmpty
  BY <1>5 DEF PollEmpty
<1>6. CASE SubmitFlush
  BY <1>6 DEF SubmitFlush, Submit, ShouldFlush
<1>7. CASE SkipFlush
  BY <1>7 DEF SkipFlush
<1>8. CASE FlushOk
  BY <1>8 DEF FlushOk
<1>9. CASE FlushFailed
  BY <1>9 DEF FlushFailed, GiveUp
<1>10. CASE FlushTimesOut
  BY <1>10 DEF FlushTimesOut, GiveUp
<1>11. CASE CommitOffsets
  BY <1>11 DEF CommitOffsets
<1>12. CASE CommitFails
  BY <1>12 DEF CommitFails
<1>13. CASE DrainAtStop
  BY <1>13 DEF DrainAtStop, Submit
<1>14. CASE CloseAtStop
  BY <1>14 DEF CloseAtStop
<1>15. CASE LingerElapses
  BY <1>15 DEF LingerElapses
<1>16. ASSUME NEW b \in pending, SendInsert(b)
       PROVE  RowsOfPublished'
  BY <1>16 DEF SendInsert, LoopRuns
<1>17. ASSUME NEW b \in sent, StoreRows(b)
       PROVE  RowsOfPublished'
  <2>1. \A s \in b : s \in Slots /\ s[2] < Len(log[s[1]])
    <3>1. b \in SUBSET Slots
      BY <1>17 DEF TypeInv, TypeOK, Batches
    <3>2. \A s \in b : s[2] < position[s[1]]
      BY <1>17, <3>1 DEF Bookkeeping, HeldWasPolled, Polled
    <3> QED BY <1>a, <3>1, <3>2
  <2>2. /\ rows' = [s \in Slots |-> IF s \in b THEN rows[s] + 1 ELSE rows[s]]
        /\ log' = log
    BY <1>17 DEF StoreRows
  <2>3. ASSUME NEW s \in Slots, rows'[s] > 0
        PROVE  s[2] < Len(log[s[1]])
    <3>1. CASE s \in b
      BY <2>1, <3>1
    <3>2. CASE s \notin b
      BY <2>2, <2>3, <3>2
    <3> QED BY <3>1, <3>2
  <2> QED BY <2>2, <2>3
<1>18. ASSUME NEW b \in stored, InsertDone(b)
       PROVE  RowsOfPublished'
  BY <1>18 DEF InsertDone, Resolve, LoopRuns
<1>19. ASSUME NEW b \in pending \cup sent \cup stored, InsertFails(b)
       PROVE  RowsOfPublished'
  BY <1>19 DEF InsertFails, Resolve, LoopRuns
<1>20. CASE RequestStop
  BY <1>20 DEF RequestStop
<1>21. CASE JoinReturns
  BY <1>21 DEF JoinReturns
<1>22. CASE Exit \/ Crash \/ KillUnhealthy
  BY <1>22 DEF Exit, Crash, KillUnhealthy, ProcessEnds
<1>23. CASE Restart
  BY <1>23 DEF Restart
<1>24. CASE UNCHANGED vars
  BY <1>24 DEF vars
<1> QED
  BY <1>1, <1>2, <1>3, <1>4, <1>5, <1>6, <1>7, <1>8, <1>9, <1>10, <1>11, <1>12, <1>13,
     <1>14, <1>15, <1>16, <1>17, <1>18, <1>19, <1>20, <1>21, <1>22, <1>23, <1>24
     DEF Next, PollThread, Coroutines, Process

LEMMA RefinesInit == Init => Delivery!DeliveryInit
<1> SUFFICES ASSUME Init PROVE Delivery!DeliveryInit
  OBVIOUS
<1>1. [p \in Partitions |-> Len(log[p])] = [p \in Partitions |-> 0]
  BY DEF Init
<1>2. {s \in Slots : rows[s] > 0} = {}
  BY DEF Init
<1> QED BY <1>1, <1>2 DEF Init, Delivery!DeliveryInit

LEMMA RefinesStep ==
    ASSUME FaultFree, TypeInv, Bookkeeping, Accounting, NoneLost,
           RowsOfPublished, TypeInv', Bookkeeping', Accounting', NoneLost', [Next]_vars
    PROVE  [Delivery!DeliveryNext]_Delivery!deliveryVars
<1> USE DEF kafkaVars, threadVars, loopVars, procVars, historyVars
<1> DEFINE published == [p \in Partitions |-> Len(log[p])]
           Stutter == UNCHANGED <<log, rows, committed>>
<1>a. /\ \A s \in Slots : s[1] \in Partitions /\ s[2] \in Nat
      /\ \A p \in Partitions : /\ position[p] \in Nat /\ committed[p] \in Nat
                               /\ position[p] <= Len(log[p]) /\ Len(log[p]) <= MaxLog
                               /\ committed[p] <= position[p]
                               /\ Len(log[p]) \in Nat
      /\ committed \in [Partitions -> Nat] /\ position \in [Partitions -> Nat]
      /\ rows \in [Slots -> Nat]
      /\ MaxLog \in Nat
  BY SlotFacts, BoundsAssumption
     DEF Bookkeeping, OffsetsOrdered, TypeInv, LogBounded, TypeOK
<1>0. Stutter => UNCHANGED Delivery!deliveryVars
  <2> SUFFICES ASSUME Stutter PROVE UNCHANGED Delivery!deliveryVars
    OBVIOUS
  <2> QED BY DEF Delivery!deliveryVars
<1>1. ASSUME NEW p \in Partitions, NEW k \in Kinds, Publish(p, k)
      PROVE  Delivery!PublishClick(p)
  <2>1. published[p] < MaxLog
    BY <1>1 DEF Publish
  <2>2. published' = [published EXCEPT ![p] = @ + 1]
    <3>1. ASSUME NEW q \in Partitions
          PROVE  Len(log'[q]) = IF q = p THEN Len(log[q]) + 1 ELSE Len(log[q])
      <4>1. log \in [Partitions -> Seq(Kinds)] /\ log' = [log EXCEPT ![p] = Append(@, k)]
        BY <1>1 DEF Publish, TypeInv, TypeOK
      <4>2. log[q] \in Seq(Kinds)
        BY <4>1
      <4> QED BY <4>1, <4>2
    <3> QED BY <3>1
  <2> QED BY <1>1, <2>1, <2>2 DEF Publish, Delivery!PublishClick
<1>2. ASSUME NEW b \in sent, StoreRows(b)
      PROVE  Delivery!DeliverBatch
  <2>1. \A s \in Slots : /\ rows'[s] > 0 => s \in b \/ rows[s] > 0
                         /\ rows[s] > 0 => rows'[s] > 0
    BY <1>2, <1>a DEF StoreRows
  <2>2. \A s \in Slots : s \in b => s[2] < Len(log[s[1]])
    BY <1>a, <1>2 DEF Bookkeeping, HeldWasPolled, Polled
  <2>3. \A s \in Slots : rows[s] > 0 => s[2] < Len(log[s[1]])
    BY DEF RowsOfPublished
  <2>4. {s \in Slots : rows[s] > 0}' \in SUBSET Delivery!Clicks
    <3> SUFFICES ASSUME NEW s \in Slots, rows'[s] > 0
                 PROVE  s \in Delivery!Clicks
      OBVIOUS
    <3>1. s[2] < Len(log[s[1]])
      BY <2>1, <2>2, <2>3
    <3> QED BY <1>a, <3>1 DEF Delivery!Clicks, Slots, Offsets
  <2>5. {s \in Slots : rows[s] > 0} \subseteq {s \in Slots : rows[s] > 0}'
    BY <2>1
  <2>6. UNCHANGED <<log, committed>>
    BY <1>2 DEF StoreRows
  <2> QED BY <2>4, <2>5, <2>6 DEF Delivery!DeliverBatch
<1>3. ASSUME committed' \in {committed, position}, UNCHANGED <<log, rows>>
      PROVE  Delivery!Acknowledge
  <2>1. committed' \in [Partitions -> 0 .. MaxLog]
    <3>1. \A p \in Partitions : committed[p] \in 0 .. MaxLog /\ position[p] \in 0 .. MaxLog
      BY <1>a
    <3> QED BY <1>3, <1>a, <3>1
  <2>2. \A p \in Partitions : committed[p] <= committed'[p]
    BY <1>3, <1>a
  <2>3. \A p \in Partitions : \A o \in 0 .. committed'[p] - 1 :
            <<p, o>> \in {s \in Slots : rows[s] > 0}
    <3> SUFFICES ASSUME NEW p \in Partitions, NEW o \in 0 .. committed'[p] - 1
                 PROVE  <<p, o>> \in Slots /\ rows[<<p, o>>] > 0
      OBVIOUS
    <3>1. o \in Nat /\ o < committed'[p] /\ committed'[p] <= Len(log[p])
      <4>1. committed'[p] \in Nat /\ committed'[p] <= Len(log[p])
        <5>1. committed'[p] = committed[p] \/ committed'[p] = position[p]
          BY <1>3
        <5>2. /\ committed[p] \in Nat /\ position[p] \in Nat /\ Len(log[p]) \in Nat
              /\ committed[p] <= position[p] /\ position[p] <= Len(log[p])
          BY <1>a
        <5> QED BY <5>1, <5>2
      <4> QED BY <4>1
    <3>2. <<p, o>> \in Slots
      <4>1. Len(log[p]) \in Nat /\ Len(log[p]) <= MaxLog /\ MaxLog \in Nat /\ committed'[p] \in Nat
        BY <1>a, <2>1
      <4>2. o \in 0 .. MaxLog - 1
        BY <3>1, <4>1
      <4> QED BY <4>2 DEF Slots, Offsets
    <3>3. IsClick(<<p, o>>)
      <4>1. o < Len(log[p])
        BY <1>a, <2>1, <3>1
      <4>2. log[p][o + 1] = "click"
        BY <3>1, <4>1, OnlyClicks
      <4> QED BY <4>1, <4>2 DEF IsClick
    <3>4. IsClick(<<p, o>>)' /\ Passed(<<p, o>>)'
      BY <1>3, <3>1, <3>3 DEF IsClick, Passed
    <3>5. rows'[<<p, o>>] > 0
      BY <3>2, <3>4 DEF Accounting, Accounted, NoneLost
    <3> QED BY <1>3, <3>2, <3>5
  <2> QED BY <1>3, <2>1, <2>2, <2>3 DEF Delivery!Acknowledge
<1>4. CASE CommitOffsets
  BY <1>3, <1>4 DEF CommitOffsets, Delivery!DeliveryNext
<1>5. CASE CommitFails
  BY <1>3, <1>5 DEF CommitFails, Delivery!DeliveryNext
<1>6. \A p \in Partitions : ~PollPoison(p) /\ ~PollPoisonCommitFails(p)
  BY <1>a, OnlyClicks DEF PollPoison, PollPoisonCommitFails, CanPoll, NextKind
<1>7. \/ \E p \in Partitions, k \in Kinds : Publish(p, k)
      \/ \E b \in sent : StoreRows(b)
      \/ CommitOffsets
      \/ CommitFails
      \/ Stutter
  BY <1>6 DEF Next, PollThread, Coroutines, Process, PollClick, PollEmpty, SubmitFlush,
     SkipFlush, FlushOk, FlushFailed, FlushTimesOut, GiveUp, DrainAtStop, CloseAtStop,
     LingerElapses, SendInsert, InsertDone, InsertFails, RequestStop, JoinReturns,
     Exit, Crash, KillUnhealthy, ProcessEnds, Restart, vars
<1> QED BY <1>0, <1>1, <1>2, <1>4, <1>5, <1>7 DEF Delivery!DeliveryNext

\* Every behaviour of the worker without failing, late or undecodable work is a
\* behaviour of ClickDelivery: the poll thread, the coroutines, crashes and restarts
\* together keep the promise of at-least-once delivery.
THEOREM WorkerImplementsDelivery == FaultFree => (Spec => ImplementsDelivery)
<1> SUFFICES ASSUME FaultFree
             PROVE  Spec => ImplementsDelivery
  OBVIOUS
<1> DEFINE Inv == TypeInv /\ Bookkeeping /\ Accounting /\ NoneLost /\ RowsOfPublished
<1>1. Init => Inv
  BY TypeInit, BookkeepingInit, AccountingInit, NoneLostInit, RowsOfPublishedInit
<1>2. Inv /\ [Next]_vars => Inv'
  BY TypeStep, BookkeepingStep, AccountingStep, NoneLostStep, RowsOfPublishedStep
<1>3. Inv /\ Inv' /\ [Next]_vars => [Delivery!DeliveryNext]_Delivery!deliveryVars
  BY RefinesStep
<1> QED BY RefinesInit, <1>1, <1>2, <1>3, PTL DEF Spec, ImplementsDelivery, Delivery!DeliverySpec
=============================================================================
