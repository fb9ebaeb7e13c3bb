---------------------------- MODULE ClickProducer ----------------------------
(***************************************************************************)
(* The API's side of the click topic: ClickProducer                        *)
(* (src/src/kafka/producer.py) over librdkafka's bounded queue, the task   *)
(* that polls it, and the application's lifespan (src/src/api/app.py) that *)
(* starts the task, and at shutdown ends it, flushes and stops.            *)
(* librdkafka is external: a background thread delivers what is queued,    *)
(* with retries and without idempotence, and a message keeps its place in  *)
(* the queue until its delivery report has been polled.                    *)
(***************************************************************************)
EXTENDS Naturals, FiniteSets

CONSTANTS
    Clicks,             \* redirects that send a click
    Capacity,           \* queue.buffering.max.messages
    MaxCopies           \* bound: copies of one click in the topic

ASSUME ProducerAssumption ==
    Capacity \in Nat \ {0} /\ MaxCopies \in Nat \ {0}

VARIABLES
    app,                \* the lifespan: serving, stopping, flushing, flushed, down
    pollTask,           \* _poll_loop
    click,              \* where each click is
    copies,             \* the topic: how often it holds each click
    produced,           \* clicks_produced_total
    dropped,            \* clicks_dropped_total, by reason
    cutShort            \* history: flush ran out of time

vars == <<app, pollTask, click, copies, produced, dropped, cutShort>>

\* A queued click is to be delivered; delivered and failed ones wait for poll to serve
\* their reports; reported and lost ones were served; flush abandons what it leaves.
Places == {"unsent", "refused", "queued", "delivered", "failed", "reported", "lost", "abandoned"}
Waiting == {"delivered", "failed"}
InQueue == {"queued"} \cup Waiting

Init == /\ app = "serving"
        /\ pollTask = "running"
        /\ click = [c \in Clicks |-> "unsent"]
        /\ copies = [c \in Clicks |-> 0]
        /\ produced = 0
        /\ dropped = [buffer_full |-> 0, delivery_failed |-> 0]
        /\ cutShort = FALSE

At(place) == {c \in Clicks : click[c] = place}
Occupied == {c \in Clicks : click[c] \in InQueue}

Full == Cardinality(Occupied) >= Capacity

-----------------------------------------------------------------------------
\* MUTANT: the click is counted before produce() is called.
Send_CountsFirst(c) ==
    /\ app = "serving"
    /\ click[c] = "unsent"
    /\ produced' = produced + 1
    /\ IF Full
       THEN /\ click' = [click EXCEPT ![c] = "refused"]
            /\ dropped' = [dropped EXCEPT !.buffer_full = @ + 1]
       ELSE /\ click' = [click EXCEPT ![c] = "queued"]
            /\ UNCHANGED dropped
    /\ UNCHANGED <<app, pollTask, copies, cutShort>>

\* send: produce() queues the click, or raises BufferError and the click is dropped.
Send(c) ==
    /\ app = "serving"
    /\ click[c] = "unsent"
    /\ IF Full
       THEN /\ click' = [click EXCEPT ![c] = "refused"]
            /\ dropped' = [dropped EXCEPT !.buffer_full = @ + 1]
            /\ UNCHANGED produced
       ELSE /\ click' = [click EXCEPT ![c] = "queued"]
            /\ produced' = produced + 1
            /\ UNCHANGED dropped
    /\ UNCHANGED <<app, pollTask, copies, cutShort>>

\* The broker's leader appends a queued click; its answer may be lost, and the click is
\* then retried or given up.
Append(c) == /\ app # "down"
             /\ click[c] = "queued"
             /\ copies[c] < MaxCopies
             /\ copies' = [copies EXCEPT ![c] = @ + 1]
             /\ \E place \in {"queued", "delivered"} : click' = [click EXCEPT ![c] = place]
             /\ UNCHANGED <<app, pollTask, produced, dropped, cutShort>>

\* Retries or message.timeout.ms are used up.
GiveUp(c) == /\ app # "down"
             /\ click[c] = "queued"
             /\ click' = [click EXCEPT ![c] = "failed"]
             /\ UNCHANGED <<app, pollTask, copies, produced, dropped, cutShort>>

\* MUTANT: only failures are served.
ServeReports_FailuresOnly ==
    /\ click' = [c \in Clicks |-> IF click[c] = "failed" THEN "lost" ELSE click[c]]
    /\ dropped' = [dropped EXCEPT !.delivery_failed = @ + Cardinality(At("failed"))]

\* _on_delivery for every report that waits.
ServeReports ==
    /\ click' = [c \in Clicks |-> CASE click[c] = "delivered" -> "reported"
                                    [] click[c] = "failed" -> "lost"
                                    [] OTHER -> click[c]]
    /\ dropped' = [dropped EXCEPT !.delivery_failed = @ + Cardinality(At("failed"))]

\* A round of the poll loop; an exception of poll changes nothing and the loop goes on.
Poll == /\ pollTask = "running"
        /\ \E c \in Clicks : click[c] \in Waiting
        /\ ServeReports
        /\ UNCHANGED <<app, pollTask, copies, produced, cutShort>>

\* uvicorn has finished the requests; the lifespan sets poll_stop.
Shutdown == /\ app = "serving"
            /\ app' = "stopping"
            /\ UNCHANGED <<pollTask, click, copies, produced, dropped, cutShort>>

\* MUTANT: the loop does not look at poll_stop, it ends with the process.
PollTaskEnds_IgnoresStop == /\ app = "down"
                            /\ pollTask = "running"
                            /\ pollTask' = "ended"
                            /\ UNCHANGED <<app, click, copies, produced, dropped, cutShort>>

PollTaskEnds == /\ app = "stopping"
                /\ pollTask = "running"
                /\ pollTask' = "ended"
                /\ UNCHANGED <<app, click, copies, produced, dropped, cutShort>>

\* MUTANT: the lifespan forgets to flush.
JoinPollTask_NoFlush == /\ app = "stopping"
                        /\ pollTask = "ended"
                        /\ app' = "flushed"
                        /\ UNCHANGED <<pollTask, click, copies, produced, dropped, cutShort>>

JoinPollTask == /\ app = "stopping"
                /\ pollTask = "ended"
                /\ app' = "flushing"
                /\ UNCHANGED <<pollTask, click, copies, produced, dropped, cutShort>>

\* flush polls until nothing is left in the queue.
FlushServes == /\ app = "flushing"
               /\ \E c \in Clicks : click[c] \in Waiting
               /\ ServeReports
               /\ UNCHANGED <<app, pollTask, copies, produced, cutShort>>

FlushDone == /\ app = "flushing"
             /\ Occupied = {}
             /\ app' = "flushed"
             /\ UNCHANGED <<pollTask, click, copies, produced, dropped, cutShort>>

\* Five seconds are over; how many messages flush left is not looked at.
FlushTimesOut == /\ app = "flushing"
                 /\ Occupied # {}
                 /\ app' = "flushed"
                 /\ cutShort' = TRUE
                 /\ UNCHANGED <<pollTask, click, copies, produced, dropped>>

\* db.stop, and the process ends with what the queue still holds.
Exit == /\ app = "flushed"
        /\ app' = "down"
        /\ click' = [c \in Clicks |-> IF c \in Occupied THEN "abandoned" ELSE click[c]]
        /\ UNCHANGED <<pollTask, copies, produced, dropped, cutShort>>

Delivery(c) == Append(c) \/ GiveUp(c)
Lifespan == PollTaskEnds \/ JoinPollTask \/ FlushServes \/ FlushDone \/ FlushTimesOut \/ Exit

Terminated == app = "down" /\ UNCHANGED vars

Next == \/ \E c \in Clicks : Send(c) \/ Delivery(c)
        \/ Poll \/ Shutdown \/ Lifespan \/ Terminated

Spec == Init /\ [][Next]_vars

\* The loop polls every tenth of a second, librdkafka never keeps a message for longer
\* than message.timeout.ms, and the lifespan's steps follow one another.
Fairness == /\ WF_vars(Poll)
            /\ \A c \in Clicks : WF_vars(Delivery(c))
            /\ WF_vars(Lifespan)

FairSpec == Spec /\ Fairness

-----------------------------------------------------------------------------
\* Every variable keeps its type, and librdkafka never holds more than its queue may.
TypeOK == /\ app \in {"serving", "stopping", "flushing", "flushed", "down"}
          /\ pollTask \in {"running", "ended"}
          /\ click \in [Clicks -> Places]
          /\ copies \in [Clicks -> 0 .. MaxCopies]
          /\ produced \in Nat
          /\ dropped \in [buffer_full : Nat, delivery_failed : Nat]
          /\ cutShort \in BOOLEAN
          /\ Cardinality(Occupied) <= Capacity

\* What the counters say of the topic: clicks dropped as buffer_full never reached it;
\* the produced ones have, each once however often it was appended, or are counted as
\* delivery_failed, wait in the queue, or were abandoned by a flush that timed out. A
\* click that is counted as delivery_failed may be in the topic all the same.
CountersTell ==
    LET inTopic == {c \in Clicks : copies[c] > 0}
    IN /\ dropped.buffer_full = Cardinality(At("refused") \ inTopic)
       /\ dropped.delivery_failed = Cardinality(At("lost"))
       /\ produced = Cardinality(inTopic \cup At("lost") \cup Occupied \cup At("abandoned"))

\* A shutdown whose flush finishes loses no click silently: whatever was sent is in the
\* topic or counted as dropped.
NoSilentLoss == app = "down" /\ ~cutShort => \A c \in Clicks :
    copies[c] > 0 \/ click[c] \in {"unsent", "refused", "lost"}

\* Every click that was enqueued is reported, one way or the other, or the shutdown's
\* flush ran out of time.
EveryClickReported == \A c \in Clicks :
    click[c] = "queued" ~> click[c] \in {"reported", "lost", "abandoned"}

\* A shutdown ends.
ShutdownEnds == app = "stopping" ~> app = "down"
=============================================================================
