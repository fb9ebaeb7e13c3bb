----------------------------- MODULE ClickWorker -----------------------------
(***************************************************************************)
(* The click worker (src/src/worker): one process in which a poll thread   *)
(* reads click messages from Kafka into a batcher, hands every batch to a  *)
(* coroutine on the asyncio loop that inserts it into Postgres, and, when  *)
(* the coroutine has succeeded, commits the consumer's positions.          *)
(*                                                                         *)
(* A message is identified by its slot <<partition, offset>>; its content  *)
(* is its kind: "click" (decodes, its url exists), "orphan" (decodes, its  *)
(* url row is gone, so the INSERT breaks the foreign key), or "poison"     *)
(* (does not decode).                                                      *)
(***************************************************************************)
EXTENDS Integers, Sequences, FiniteSets

CONSTANTS
    Partitions,         \* the partitions of the clicks topic
    Kinds,              \* the kinds of message that producers may publish
    BatchSize,          \* KAFKA_CONSUMER_BATCH_SIZE
    MaxLog,             \* bound: messages per partition
    MaxRestarts,        \* bound: how often the process is started again
    InsertMayFail,      \* Postgres or its connection may fail an insert
    FlushMayTimeOut,    \* an insert may outlast flush_timeout_seconds
    CommitMayFail       \* the broker may fail an offset commit

ASSUME KindsAssumption == Kinds \subseteq {"click", "orphan", "poison"}
ASSUME BoundsAssumption == /\ BatchSize \in Nat \ {0}
                           /\ MaxLog \in Nat
                           /\ MaxRestarts \in Nat
ASSUME FaultsAssumption == /\ InsertMayFail \in BOOLEAN
                           /\ FlushMayTimeOut \in BOOLEAN
                           /\ CommitMayFail \in BOOLEAN

VARIABLES
    \* Kafka
    log,            \* the messages of each partition, the one at offset o is log[p][o + 1]
    committed,      \* the group's committed offset of each partition
    \* Postgres
    rows,           \* how many url_stats rows each slot has
    \* the poll thread
    pc,             \* where it is: "poll", "check", "flush", "commit" or "dead"
    position,       \* the consumer's position: the next offset poll returns
    buffer,         \* the slots in the batcher
    lingerDue,      \* max_linger_seconds have passed since the first add
    batch,          \* the slots of the flush the thread waits for
    result,         \* the future of that flush: "none", "ok" or "failed"
    \* coroutines _flush_batch on the loop, each one named by its batch
    pending,        \* created, COMMIT not sent yet
    sent,           \* COMMIT sent, Postgres has not committed
    stored,         \* Postgres has committed, the coroutine has not seen the answer
    \* the process
    proc,           \* "up", "joining", "stopping" or "down"
    stop,           \* the stop event
    restarts,       \* how often the process was started again
    \* history: clicks the worker stopped to care for before they had a row
    abandoned,      \* members of a batch whose flush failed or timed out
    overtaken       \* still buffered when a poison message's offset was committed

kafkaVars == <<log, committed>>
threadVars == <<pc, position, buffer, lingerDue, batch, result>>
loopVars == <<pending, sent, stored>>
procVars == <<proc, stop, restarts>>
historyVars == <<abandoned, overtaken>>
vars == <<kafkaVars, rows, threadVars, loopVars, procVars, historyVars>>

Offsets == 0 .. MaxLog - 1
Slots == Partitions \X Offsets
Batches == (SUBSET Slots) \ {{}}

\* Slot s holds a message that decode_click_event accepts.
IsClick(s) == /\ s[2] < Len(log[s[1]])
              /\ log[s[1]][s[2] + 1] # "poison"

\* The click in slot s can have a row: its url exists.
IsCountable(s) == IsClick(s) /\ log[s[1]][s[2] + 1] = "click"

\* The INSERT of batch b breaks the foreign key of url_stats.
HasOrphan(b) == \E s \in b : log[s[1]][s[2] + 1] = "orphan"

Init == /\ log = [p \in Partitions |-> << >>]
        /\ committed = [p \in Partitions |-> 0]
        /\ rows = [s \in Slots |-> 0]
        /\ pc = "poll"
        /\ position = [p \in Partitions |-> 0]
        /\ buffer = {}
        /\ lingerDue = FALSE
        /\ batch = {}
        /\ result = "none"
        /\ pending = {} /\ sent = {} /\ stored = {}
        /\ proc = "up"
        /\ stop = FALSE
        /\ restarts = 0
        /\ abandoned = {} /\ overtaken = {}

-----------------------------------------------------------------------------
(***************************************************************************)
(* The producers.                                                          *)
(***************************************************************************)

Publish(p, k) == /\ Len(log[p]) < MaxLog
                 /\ log' = [log EXCEPT ![p] = Append(@, k)]
                 /\ UNCHANGED <<committed, rows, threadVars, loopVars, procVars, historyVars>>

-----------------------------------------------------------------------------
(***************************************************************************)
(* The poll thread: run_poll_loop, _decode_or_skip and _submit_flush.      *)
(***************************************************************************)

\* poll() may return the next message of p: the stop event was not set at the loop's head.
CanPoll(p) == /\ pc = "poll"
              /\ ~stop
              /\ position[p] < Len(log[p])

NextKind(p) == log[p][position[p] + 1]

PollClick(p) == /\ CanPoll(p)
                /\ NextKind(p) # "poison"
                /\ position' = [position EXCEPT ![p] = @ + 1]
                /\ buffer' = buffer \cup {<<p, position[p]>>}
                /\ pc' = "check"
                /\ UNCHANGED <<kafkaVars, rows, lingerDue, batch, result,
                               loopVars, procVars, historyVars>>

\* MUTANT: the malformed message is not skipped, poll() returns it again.
PollPoison_Retries(p) == /\ CanPoll(p)
                         /\ NextKind(p) = "poison"
                         /\ pc' = "check"
                         /\ UNCHANGED <<kafkaVars, rows, position, buffer, lingerDue, batch, result,
                                        loopVars, procVars, historyVars>>

\* The poison message is committed and skipped, whatever is still in the batcher.
PollPoison(p) == /\ CanPoll(p)
                 /\ NextKind(p) = "poison"
                 /\ position' = [position EXCEPT ![p] = @ + 1]
                 /\ committed' = [committed EXCEPT ![p] = position[p] + 1]
                 /\ overtaken' = overtaken \cup {s \in buffer : s[1] = p}
                 /\ pc' = "check"
                 /\ UNCHANGED <<log, rows, buffer, lingerDue, batch, result,
                                loopVars, procVars, abandoned>>

\* poll() timed out, or returned an error.
PollEmpty == /\ pc = "poll"
             /\ ~stop
             /\ pc' = "check"
             /\ UNCHANGED <<kafkaVars, rows, position, buffer, lingerDue, batch, result,
                            loopVars, procVars, historyVars>>

LingerElapses == /\ buffer # {}
                 /\ ~lingerDue
                 /\ lingerDue' = TRUE
                 /\ UNCHANGED <<kafkaVars, rows, pc, position, buffer, batch, result,
                                loopVars, procVars, historyVars>>

\* MUTANT: the linger is forgotten.
ShouldFlush_NoLinger == Cardinality(buffer) >= BatchSize

ShouldFlush == /\ buffer # {}
               /\ \/ Cardinality(buffer) >= BatchSize
                  \/ lingerDue

\* drain() and run_coroutine_threadsafe(_flush_batch(batch)).
Submit == /\ batch' = buffer
          /\ buffer' = {}
          /\ lingerDue' = FALSE
          /\ pending' = pending \cup {buffer}
          /\ result' = "none"
          /\ pc' = "flush"

SubmitFlush == /\ pc = "check"
               /\ ShouldFlush
               /\ Submit
               /\ UNCHANGED <<kafkaVars, rows, position, sent, stored, procVars, historyVars>>

SkipFlush == /\ pc = "check"
             /\ ~ShouldFlush
             /\ pc' = "poll"
             /\ UNCHANGED <<kafkaVars, rows, position, buffer, lingerDue, batch, result,
                            loopVars, procVars, historyVars>>

\* MUTANT: the thread does not wait for the future of the insert.
FlushOk_NoWait == /\ pc = "flush"
                  /\ result # "failed"
                  /\ pc' = "commit"
                  /\ UNCHANGED <<kafkaVars, rows, position, buffer, lingerDue, batch, result,
                                 loopVars, procVars, historyVars>>

FlushOk == /\ pc = "flush"
           /\ result = "ok"
           /\ pc' = "commit"
           /\ UNCHANGED <<kafkaVars, rows, position, buffer, lingerDue, batch, result,
                          loopVars, procVars, historyVars>>

\* MUTANT: a batch that failed goes back to the batcher.
GiveUp_Requeues == /\ buffer' = buffer \cup batch
                   /\ batch' = {}
                   /\ result' = "none"
                   /\ pc' = "poll"
                   /\ UNCHANGED <<kafkaVars, rows, position, lingerDue,
                                  loopVars, procVars, historyVars>>

\* The thread returns to its loop; the position is not moved back.
GiveUp == /\ abandoned' = abandoned \cup batch
          /\ batch' = {}
          /\ result' = "none"
          /\ pc' = "poll"
          /\ UNCHANGED <<kafkaVars, rows, position, buffer, lingerDue,
                         loopVars, procVars, overtaken>>

FlushFailed == /\ pc = "flush"
               /\ result = "failed"
               /\ GiveUp

\* The coroutine is not cancelled: it stays on the loop.
FlushTimesOut == /\ FlushMayTimeOut
                 /\ pc = "flush"
                 /\ result = "none"
                 /\ GiveUp

\* MUTANT: the offset committed is one too far.
CommitOffsets_OffByOne == /\ pc = "commit"
                          /\ committed' = [p \in Partitions |-> position[p] + 1]
                          /\ batch' = {}
                          /\ result' = "none"
                          /\ pc' = "poll"
                          /\ UNCHANGED <<log, rows, position, buffer, lingerDue,
                                         loopVars, procVars, historyVars>>

\* commit() without arguments commits the position of every assigned partition.
CommitOffsets == /\ pc = "commit"
                 /\ committed' = position
                 /\ batch' = {}
                 /\ result' = "none"
                 /\ pc' = "poll"
                 /\ UNCHANGED <<log, rows, position, buffer, lingerDue,
                                loopVars, procVars, historyVars>>

\* Nothing catches the exception of a commit: the thread ends. Only the answer
\* may be lost, so the offsets may have been committed all the same.
CommitFails == /\ CommitMayFail
               /\ restarts < MaxRestarts
               /\ pc = "commit"
               /\ committed' \in {committed, position}
               /\ batch' = {}
               /\ result' = "none"
               /\ pc' = "dead"
               /\ UNCHANGED <<log, rows, position, buffer, lingerDue,
                              loopVars, procVars, historyVars>>

PollPoisonCommitFails(p) ==
    /\ CommitMayFail
    /\ restarts < MaxRestarts
    /\ CanPoll(p)
    /\ NextKind(p) = "poison"
    /\ position' = [position EXCEPT ![p] = @ + 1]
    /\ \/ UNCHANGED <<committed, overtaken>>
       \/ /\ committed' = [committed EXCEPT ![p] = position[p] + 1]
          /\ overtaken' = overtaken \cup {s \in buffer : s[1] = p}
    /\ pc' = "dead"
    /\ UNCHANGED <<log, rows, buffer, lingerDue, batch, result,
                   loopVars, procVars, abandoned>>

\* The loop's head sees the stop event: flush what is left, or close and end.
DrainAtStop == /\ pc = "poll"
               /\ stop
               /\ buffer # {}
               /\ Submit
               /\ UNCHANGED <<kafkaVars, rows, position, sent, stored, procVars, historyVars>>

CloseAtStop == /\ pc = "poll"
               /\ stop
               /\ buffer = {}
               /\ pc' = "dead"
               /\ UNCHANGED <<kafkaVars, rows, position, buffer, lingerDue, batch, result,
                              loopVars, procVars, historyVars>>

-----------------------------------------------------------------------------
(***************************************************************************)
(* The coroutines: _flush_batch and UrlStatsBulkRepository.insert_many.    *)
(***************************************************************************)

\* poll_thread.join() is called on the loop's own thread and stops the loop.
LoopRuns == proc \in {"up", "stopping"}

\* The future of coroutine b is done; the thread sees it if it still waits for b.
Resolve(b, r) ==
    result' = IF pc = "flush" /\ batch = b /\ result = "none" THEN r ELSE result

SendInsert(b) == /\ LoopRuns
                 /\ b \in pending
                 /\ ~HasOrphan(b)
                 /\ pending' = pending \ {b}
                 /\ sent' = sent \cup {b}
                 /\ UNCHANGED <<kafkaVars, rows, pc, position, buffer, lingerDue, batch, result,
                                stored, procVars, historyVars>>

\* Postgres commits the transaction: all rows of the batch at once.
StoreRows(b) == /\ b \in sent
                /\ sent' = sent \ {b}
                /\ stored' = stored \cup {b}
                /\ rows' = [s \in Slots |-> IF s \in b THEN rows[s] + 1 ELSE rows[s]]
                /\ UNCHANGED <<kafkaVars, threadVars, pending, procVars, historyVars>>

InsertDone(b) == /\ LoopRuns
                 /\ b \in stored
                 /\ stored' = stored \ {b}
                 /\ Resolve(b, "ok")
                 /\ UNCHANGED <<kafkaVars, rows, pc, position, buffer, lingerDue, batch,
                                pending, sent, procVars, historyVars>>

\* The INSERT breaks the foreign key, or the database or its connection fails,
\* perhaps after Postgres has committed.
InsertFails(b) == /\ LoopRuns
                  /\ \/ InsertMayFail /\ b \in pending \cup sent \cup stored
                     \/ HasOrphan(b) /\ b \in pending
                  /\ pending' = pending \ {b}
                  /\ sent' = sent \ {b}
                  /\ stored' = stored \ {b}
                  /\ Resolve(b, "failed")
                  /\ UNCHANGED <<kafkaVars, rows, pc, position, buffer, lingerDue, batch,
                                 procVars, historyVars>>

-----------------------------------------------------------------------------
(***************************************************************************)
(* The process: _async_main, and the platform that kills and starts it.    *)
(***************************************************************************)

RequestStop == /\ proc = "up"
               /\ restarts < MaxRestarts
               /\ proc' = "joining"
               /\ stop' = TRUE
               /\ UNCHANGED <<kafkaVars, rows, threadVars, loopVars, restarts, historyVars>>

\* join(timeout=15) returns: the thread has ended, or the time is over while the
\* thread is inside one of its long blocking calls.
JoinReturns == /\ proc = "joining"
               /\ pc \in {"dead", "flush", "commit"}
               /\ proc' = "stopping"
               /\ UNCHANGED <<kafkaVars, rows, threadVars, loopVars, stop, restarts, historyVars>>

\* MUTANT: a new consumer starts at the beginning of its partitions.
ProcessEnds_FromStart == /\ proc' = "down"
                         /\ stop' = FALSE
                         /\ pc' = "dead"
                         /\ position' = [p \in Partitions |-> 0]
                         /\ buffer' = {}
                         /\ lingerDue' = FALSE
                         /\ batch' = {}
                         /\ result' = "none"
                         /\ pending' = {} /\ sent' = {} /\ stored' = {}
                         /\ UNCHANGED <<kafkaVars, rows, restarts, historyVars>>

\* The process ends with its daemon thread, its tasks and its memory.
ProcessEnds == /\ proc' = "down"
               /\ stop' = FALSE
               /\ pc' = "dead"
               /\ position' = committed
               /\ buffer' = {}
               /\ lingerDue' = FALSE
               /\ batch' = {}
               /\ result' = "none"
               /\ pending' = {} /\ sent' = {} /\ stored' = {}
               /\ UNCHANGED <<kafkaVars, rows, restarts, historyVars>>

Exit == /\ proc = "stopping"
        /\ ProcessEnds

Crash == /\ proc # "down"
         /\ restarts < MaxRestarts
         /\ ProcessEnds

\* /health answers 503 once the poll thread has ended; the platform restarts the pod.
KillUnhealthy == /\ proc = "up"
                 /\ pc = "dead"
                 /\ ProcessEnds

\* MUTANT: auto.offset.reset is "latest": without a committed offset, start at the end.
Restart_Latest == /\ proc = "down"
                  /\ restarts < MaxRestarts
                  /\ proc' = "up"
                  /\ restarts' = restarts + 1
                  /\ pc' = "poll"
                  /\ position' = [p \in Partitions |->
                                    IF committed[p] = 0 THEN Len(log[p]) ELSE committed[p]]
                  /\ UNCHANGED <<kafkaVars, rows, buffer, lingerDue, batch, result,
                                 loopVars, stop, historyVars>>

Restart == /\ proc = "down"
           /\ restarts < MaxRestarts
           /\ proc' = "up"
           /\ restarts' = restarts + 1
           /\ pc' = "poll"
           /\ UNCHANGED <<kafkaVars, rows, position, buffer, lingerDue, batch, result,
                          loopVars, stop, historyVars>>

-----------------------------------------------------------------------------
PollThread == \/ \E p \in Partitions : \/ PollClick(p)
                                       \/ PollPoison(p)
                                       \/ PollPoisonCommitFails(p)
              \/ PollEmpty
              \/ SubmitFlush
              \/ SkipFlush
              \/ FlushOk
              \/ FlushFailed
              \/ FlushTimesOut
              \/ CommitOffsets
              \/ CommitFails
              \/ DrainAtStop
              \/ CloseAtStop

Coroutines == \/ \E b \in pending : SendInsert(b)
              \/ \E b \in sent : StoreRows(b)
              \/ \E b \in stored : InsertDone(b)
              \/ \E b \in pending \cup sent \cup stored : InsertFails(b)

Process == RequestStop \/ JoinReturns \/ Exit \/ Crash \/ KillUnhealthy \/ Restart

Next == \/ \E p \in Partitions, k \in Kinds : Publish(p, k)
        \/ PollThread
        \/ LingerElapses
        \/ Coroutines
        \/ Process

Spec == Init /\ [][Next]_vars

\* The thread and the loop are scheduled by the operating system, the linger is
\* measured by a clock, the platform restarts what has died, and a consumer that
\* polls again and again is given the messages of each of its partitions.
Fairness == /\ WF_vars(SubmitFlush \/ SkipFlush \/ FlushOk \/ FlushFailed
                         \/ CommitOffsets \/ DrainAtStop \/ CloseAtStop)
            /\ WF_vars(PollEmpty)
            /\ \A p \in Partitions : SF_vars(PollClick(p)) /\ SF_vars(PollPoison(p))
            /\ WF_vars(LingerElapses)
            /\ WF_vars(Coroutines)
            /\ WF_vars(JoinReturns \/ Exit \/ KillUnhealthy \/ Restart)

FairSpec == Spec /\ Fairness
-----------------------------------------------------------------------------
(***************************************************************************)
(* Properties.                                                             *)
(***************************************************************************)

\* Every variable keeps its type. Batches are never empty: _submit_flush is
\* called after should_flush or after a length test.
TypeOK == /\ log \in [Partitions -> Seq(Kinds)]
          /\ committed \in [Partitions -> Nat]
          /\ rows \in [Slots -> Nat]
          /\ pc \in {"poll", "check", "flush", "commit", "dead"}
          /\ position \in [Partitions -> Nat]
          /\ buffer \in SUBSET Slots
          /\ lingerDue \in BOOLEAN
          /\ batch \in SUBSET Slots
          /\ result \in {"none", "ok", "failed"}
          /\ pending \in SUBSET Batches
          /\ sent \in SUBSET Batches
          /\ stored \in SUBSET Batches
          /\ proc \in {"up", "joining", "stopping", "down"}
          /\ stop \in BOOLEAN
          /\ restarts \in Nat
          /\ abandoned \in SUBSET Slots
          /\ overtaken \in SUBSET Slots

\* The group has committed past slot s: no worker will read it again.
Passed(s) == s[2] < committed[s[1]]

\* At-least-once, as the docstring of consumer.py promises it: a click of an
\* existing url whose offset is committed has a row. It holds while no insert fails
\* or times out and every message is such a click, through crashes, stops and
\* commits that fail.
AtLeastOnce == \A s \in Slots : IsCountable(s) /\ Passed(s) => rows[s] > 0

\* What the code does keep under every fault: a click whose offset is committed
\* has a row, or its flush failed or timed out (the next successful commit goes
\* past it), or a malformed message behind it was committed while the click was
\* still in the batcher. No other interleaving loses a click.
Accounted == \A s \in Slots :
    IsClick(s) /\ Passed(s) => rows[s] > 0 \/ s \in abandoned \cup overtaken

\* A click is inserted again only by a process that was started later: within one
\* life of the worker, failed flushes, timed-out coroutines that finish late and
\* lost answers never give a slot a second row.
AtMostOncePerStart == \A s \in Slots : rows[s] <= restarts + 1

\* Unless a flush times out, no insert runs beside the one the thread waits for:
\* batches reach Postgres in the order they were read, none above batch_size.
OneInsertAtATime == \A b \in pending \cup sent \cup stored :
    /\ pc = "flush" /\ batch = b /\ result = "none"
    /\ Cardinality(b) <= BatchSize

\* The committed offset of a partition never moves back, and only the poll thread
\* of a living process moves it.
CommittedOnlyForward ==
    [][/\ \A p \in Partitions : committed'[p] >= committed[p]
       /\ committed' # committed => proc # "down"]_vars

\* The poll thread ends only after a stop was requested: what the loop catches in
\* _submit_flush never ends it.
PollThreadEndsOnRequest == pc = "dead" /\ proc = "up" => stop

\* A worker that leaves without a crash has inserted and committed what it read:
\* main.py says of its shutdown "flush any pending batch, commit, close consumer".
StopFlushes ==
    [][Exit => buffer = {} /\ batch = {} /\ committed = position]_vars

\* Nothing blocks a partition: every message is read at last and the thread goes on
\* to the next one, through malformed messages, failed flushes, timeouts and crashes.
EveryMessageRead ==
    \A s \in Slots : (s[2] < Len(log[s[1]])) ~> (s[2] < position[s[1]])

\* Every click is inserted at last, through crashes, stops and commits that fail.
EveryClickStored ==
    \A s \in Slots : IsClick(s) ~> (rows[s] > 0)
-----------------------------------------------------------------------------
\* The worker implements the promise of at-least-once delivery: a click is delivered
\* when it has a row, and acknowledged when its offset is committed.
Delivery == INSTANCE ClickDelivery
              WITH published <- [p \in Partitions |-> Len(log[p])],
                   delivered <- {s \in Slots : rows[s] > 0},
                   acked <- committed

\* Refinement: every behaviour of the worker in which inserts neither fail nor time
\* out and every message decodes is one of ClickDelivery.
ImplementsDelivery == Delivery!DeliverySpec
=============================================================================
