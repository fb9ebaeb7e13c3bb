---------------------------- MODULE ConsumerGroup ----------------------------
(***************************************************************************)
(* Several click workers in one Kafka consumer group.  src/src/worker      *)
(* subscribes without rebalance callbacks (main.py), so librdkafka takes   *)
(* partitions away and hands them out behind the poll thread's back: the   *)
(* batcher keeps clicks of partitions that are gone, and a commit() fails  *)
(* when it comes too late or has nothing left to commit.                   *)
(*                                                                         *)
(* ClickWorker has one worker with all its faults; here inserts succeed,   *)
(* every message is a click, and the members of the group come and go.     *)
(***************************************************************************)
EXTENDS Integers, Sequences, FiniteSets

CONSTANTS
    Workers,            \* the worker processes of the group
    Partitions,         \* the partitions of the clicks topic
    BatchSize,          \* KAFKA_CONSUMER_BATCH_SIZE
    MaxLog,             \* bound: messages per partition
    MaxGeneration       \* bound: rebalances

ASSUME BoundsAssumption == /\ BatchSize \in Nat \ {0}
                           /\ MaxLog \in Nat
                           /\ MaxGeneration \in Nat

VARIABLES
    \* Kafka
    published,      \* how many clicks each partition holds
    committed,      \* the group's committed offset of each partition
    generation,     \* how many rebalances the group has completed
    target,         \* the partitions that the last rebalance gave each worker
    standing,       \* each worker in that generation: "out", "invited" or "joined"
    \* Postgres
    rows,           \* how many url_stats rows each slot has
    \* the workers
    pc,             \* the poll thread: "poll", "commit" or "dead"
    assigned,       \* the partitions that its librdkafka fetches
    position,       \* the next offset that poll returns
    buffer          \* the slots in the batcher, a list: a slot may be in it twice

kafkaVars == <<published, committed>>
groupVars == <<generation, target>>
workerVars == <<pc, assigned, position, buffer>>
vars == <<kafkaVars, groupVars, standing, rows, workerVars>>

Slots == Partitions \X (0 .. MaxLog - 1)

Init == /\ published = [p \in Partitions |-> 0]
        /\ committed = [p \in Partitions |-> 0]
        /\ generation = 0
        /\ target = [w \in Workers |-> {}]
        /\ standing = [w \in Workers |-> "out"]
        /\ rows = [s \in Slots |-> 0]
        /\ pc = [w \in Workers |-> "poll"]
        /\ assigned = [w \in Workers |-> {}]
        /\ position = [w \in Workers |-> [p \in Partitions |-> 0]]
        /\ buffer = [w \in Workers |-> << >>]

Publish(p) == /\ published[p] < MaxLog
              /\ published' = [published EXCEPT ![p] = @ + 1]
              /\ UNCHANGED <<committed, groupVars, standing, rows, workerVars>>

-----------------------------------------------------------------------------
(***************************************************************************)
(* The group protocol, which librdkafka runs in the background.            *)
(***************************************************************************)

\* The worker learns that a rebalance goes on, or that the coordinator has
\* evicted it: it gives up its partitions and asks to join again.
Revoke(w) == /\ generation < MaxGeneration
             /\ pc[w] # "dead"
             /\ assigned[w] # {} \/ standing[w] # "out"
             /\ standing' = [standing EXCEPT ![w] = "out"]
             /\ assigned' = [assigned EXCEPT ![w] = {}]
             /\ UNCHANGED <<kafkaVars, groupVars, rows, pc, position, buffer>>

\* Workers that have asked to join.
Joining == {w \in Workers : pc[w] # "dead" /\ standing[w] = "out" /\ assigned[w] = {}}

\* Some of them form the next generation. Whoever else was in the group is out,
\* but a worker that has not heard of it goes on with the partitions it had.
Rebalance == /\ generation < MaxGeneration
             /\ \E members \in SUBSET Joining : \E owner \in [Partitions -> members] :
                   /\ target' = [w \in Workers |-> {p \in Partitions : owner[p] = w}]
                   /\ standing' = [w \in Workers |-> IF w \in members THEN "invited" ELSE "out"]
             /\ generation' = generation + 1
             /\ UNCHANGED <<kafkaVars, rows, workerVars>>

\* MUTANT: the partitions are read from their end.
Join_Latest(w) == /\ standing[w] = "invited"
                  /\ standing' = [standing EXCEPT ![w] = "joined"]
                  /\ assigned' = [assigned EXCEPT ![w] = target[w]]
                  /\ position' = [position EXCEPT ![w] = published]
                  /\ UNCHANGED <<kafkaVars, groupVars, rows, pc, buffer>>

\* The worker receives its partitions and fetches from the committed offsets, from
\* the earliest where there is none; the batcher is not told.
Join(w) == /\ standing[w] = "invited"
           /\ standing' = [standing EXCEPT ![w] = "joined"]
           /\ assigned' = [assigned EXCEPT ![w] = target[w]]
           /\ position' = [position EXCEPT ![w] = committed]
           /\ UNCHANGED <<kafkaVars, groupVars, rows, pc, buffer>>

-----------------------------------------------------------------------------
(***************************************************************************)
(* The poll thread.                                                        *)
(***************************************************************************)

\* poll() returns the next message of p. The batcher has room: should_flush is
\* asked after every poll, and a full batch is drained before the next one.
Poll(w, p) == /\ pc[w] = "poll"
              /\ p \in assigned[w]
              /\ position[w][p] < published[p]
              /\ Len(buffer[w]) < BatchSize
              /\ buffer' = [buffer EXCEPT ![w] = Append(@, <<p, position[w][p]>>)]
              /\ position' = [position EXCEPT ![w][p] = @ + 1]
              /\ UNCHANGED <<kafkaVars, groupVars, standing, rows, pc, assigned>>

\* How often the batch holds slot s.
Copies(batch, s) == Cardinality({i \in 1 .. Len(batch) : batch[i] = s})

\* MUTANT: only a full batch is flushed.
Flush_NoLinger(w) ==
    /\ pc[w] = "poll"
    /\ Len(buffer[w]) = BatchSize
    /\ rows' = [s \in Slots |-> rows[s] + Copies(buffer[w], s)]
    /\ buffer' = [buffer EXCEPT ![w] = << >>]
    /\ pc' = [pc EXCEPT ![w] = "commit"]
    /\ UNCHANGED <<kafkaVars, groupVars, standing, assigned, position>>

\* The batch is full or its linger is over, which it may be at any time. The thread
\* waits for the insert, so that nothing of its own happens between draining the
\* batcher and the rows.
Flush(w) == /\ pc[w] = "poll"
            /\ buffer[w] # << >>
            /\ rows' = [s \in Slots |-> rows[s] + Copies(buffer[w], s)]
            /\ buffer' = [buffer EXCEPT ![w] = << >>]
            /\ pc' = [pc EXCEPT ![w] = "commit"]
            /\ UNCHANGED <<kafkaVars, groupVars, standing, assigned, position>>

\* What commit() without arguments would commit: the positions of the partitions
\* the worker has now, where it has read anything.
Advanced(w) == {p \in assigned[w] : position[w][p] > committed[p]}

\* The broker takes offsets only from members of the current generation.
MayCommit(w) == standing[w] = "joined" /\ Advanced(w) # {}

Commit(w) == /\ pc[w] = "commit"
             /\ MayCommit(w)
             /\ committed' = [p \in Partitions |-> IF p \in Advanced(w) THEN position[w][p]
                                                                       ELSE committed[p]]
             /\ pc' = [pc EXCEPT ![w] = "poll"]
             /\ UNCHANGED <<published, groupVars, standing, rows, assigned, position, buffer>>

\* MUTANT: a worker that starts again is still a member of the generation.
Dies_StillMember(w) == /\ pc' = [pc EXCEPT ![w] = "dead"]
                       /\ buffer' = [buffer EXCEPT ![w] = << >>]
                       /\ assigned' = [assigned EXCEPT ![w] = {}]
                       /\ standing' = [standing EXCEPT ![w] = IF @ = "joined" THEN "invited" ELSE @]
                       /\ UNCHANGED <<kafkaVars, groupVars, rows, position>>

Dies(w) == /\ pc' = [pc EXCEPT ![w] = "dead"]
           /\ buffer' = [buffer EXCEPT ![w] = << >>]
           /\ assigned' = [assigned EXCEPT ![w] = {}]
           /\ standing' = [standing EXCEPT ![w] = "out"]
           /\ UNCHANGED <<kafkaVars, groupVars, rows, position>>

\* commit() raises: the worker is out of the generation, or all that it has just
\* inserted is of partitions it has lost or must read again. Nothing in the poll
\* loop catches the exception.
CommitRaises(w) == /\ pc[w] = "commit"
                   /\ ~MayCommit(w)
                   /\ Dies(w)

\* The process is killed or told to stop: what is in the batcher is not flushed.
Crash(w) == pc[w] # "dead" /\ Dies(w)

Restart(w) == /\ pc[w] = "dead"
              /\ pc' = [pc EXCEPT ![w] = "poll"]
              /\ UNCHANGED <<kafkaVars, groupVars, standing, rows, assigned, position, buffer>>

-----------------------------------------------------------------------------
PollThread(w) == \/ \E p \in Partitions : Poll(w, p)
                 \/ Flush(w)
                 \/ Commit(w)
                 \/ CommitRaises(w)

Next == \/ \E p \in Partitions : Publish(p)
        \/ Rebalance
        \/ \E w \in Workers : \/ Revoke(w)
                              \/ Join(w)
                              \/ PollThread(w)
                              \/ Crash(w)
                              \/ Restart(w)

Spec == Init /\ [][Next]_vars

\* The threads are scheduled, the linger is measured by a clock, and poll() gives
\* each partition its turn. Nothing is assumed of crashes and rebalances.
Fairness == \A w \in Workers : /\ WF_vars(Flush(w))
                               /\ WF_vars(Commit(w) \/ CommitRaises(w))
                               /\ \A p \in Partitions : SF_vars(Poll(w, p))

FairSpec == Spec /\ Fairness
-----------------------------------------------------------------------------
\* Every variable keeps its type.
TypeOK == /\ published \in [Partitions -> 0 .. MaxLog]
          /\ committed \in [Partitions -> 0 .. MaxLog]
          /\ generation \in 0 .. MaxGeneration
          /\ target \in [Workers -> SUBSET Partitions]
          /\ standing \in [Workers -> {"out", "invited", "joined"}]
          /\ rows \in [Slots -> Nat]
          /\ pc \in [Workers -> {"poll", "commit", "dead"}]
          /\ assigned \in [Workers -> SUBSET Partitions]
          /\ position \in [Workers -> [Partitions -> 0 .. MaxLog]]
          /\ buffer \in [Workers -> Seq(Slots)]

\* At-least-once in a group: a committed click has a row, however partitions move
\* between poll, insert and commit.
AtLeastOnce == \A s \in Slots : s[2] < committed[s[1]] => rows[s] > 0

\* Duplicates come from rebalances and nothing else: a click has at most one row per
\* generation, although the batcher keeps what it read before a rebalance, evicted
\* workers go on reading, and workers die between insert and commit.
AtMostOncePerGeneration == \A s \in Slots : rows[s] <= generation

\* Each partition is read by a member of the current generation.
Stable == \A p \in Partitions : \E w \in Workers : standing[w] = "joined" /\ p \in assigned[w]

\* When the group settles every click is inserted at last, also those that workers
\* read and lost, or read from partitions that were taken from them.
EveryClickStored ==
    <>[]Stable => \A s \in Slots : (s[2] < published[s[1]]) ~> (rows[s] > 0)

-----------------------------------------------------------------------------
\* The group keeps the promise that ClickDelivery makes for one worker.
Delivery == INSTANCE ClickDelivery
              WITH delivered <- {s \in Slots : rows[s] > 0}, acked <- committed

\* Refinement: offsets are acknowledged forward only, and only past stored clicks,
\* whichever worker of the group commits them.
ImplementsDelivery == Delivery!DeliverySpec
=============================================================================
