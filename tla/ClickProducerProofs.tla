------------------------- MODULE ClickProducerProofs -------------------------
(***************************************************************************)
(* Machine-checked proofs about ClickProducer, for every set of clicks and *)
(* every size of librdkafka's queue.                                       *)
(***************************************************************************)
EXTENDS ClickProducer, FiniteSetTheorems, TLAPS

-----------------------------------------------------------------------------
(***************************************************************************)
(* Types.                                                                  *)
(***************************************************************************)

LEMMA DisjointUnion ==
  ASSUME NEW S, NEW T, IsFiniteSet(S), IsFiniteSet(T), S \cap T = {}
  PROVE  /\ IsFiniteSet(S \cup T)
         /\ Cardinality(S \cup T) = Cardinality(S) + Cardinality(T)
         /\ Cardinality(S) \in Nat /\ Cardinality(T) \in Nat
         /\ Cardinality(S \cup T) \in Nat
<1>1. Cardinality(S) \in Nat /\ Cardinality(T) \in Nat
  BY FS_CardinalityType
<1>2. Cardinality(S \cap T) = 0
  BY FS_EmptySet
<1>3. /\ IsFiniteSet(S \cup T)
      /\ Cardinality(S \cup T) = Cardinality(S) + Cardinality(T) - Cardinality(S \cap T)
  BY FS_Union, Zenon
<1> QED BY <1>1, <1>2, <1>3

\* Clicks that send was called with, and those of them that produce() took.
Sent == {c \in Clicks : click[c] # "unsent"}
Enqueued == {c \in Clicks : click[c] \notin {"unsent", "refused"}}

\* Only finitely many redirects have sent a click so far, so all counts are numbers.
TypeInv == TypeOK /\ IsFiniteSet(Sent)

LEMMA PlacesAreFinite ==
  ASSUME TypeInv
  PROVE  /\ \A S \in SUBSET Sent : IsFiniteSet(S) /\ Cardinality(S) \in Nat
         /\ Occupied \in SUBSET Sent /\ Enqueued \in SUBSET Sent
         /\ \A place \in Places \ {"unsent"} : At(place) \in SUBSET Sent
<1>1. IsFiniteSet(Sent)
  BY DEF TypeInv
<1>2. ASSUME NEW S \in SUBSET Sent
      PROVE  IsFiniteSet(S) /\ Cardinality(S) \in Nat
  BY <1>1, FS_Subset, FS_CardinalityType
<1>3. Occupied \in SUBSET Sent /\ Enqueued \in SUBSET Sent
  BY DEF Occupied, Enqueued, Sent, InQueue, Waiting
<1>4. ASSUME NEW place \in Places \ {"unsent"}
      PROVE  At(place) \in SUBSET Sent
  BY DEF At, Sent
<1> QED BY <1>2, <1>3, <1>4

\* Serving reports moves clicks, but neither sends nor queues any.
LEMMA ReportsServed ==
  ASSUME TypeInv, ServeReports
  PROVE  /\ click' \in [Clicks -> Places]
         /\ dropped' \in [buffer_full : Nat, delivery_failed : Nat]
         /\ dropped'.buffer_full = dropped.buffer_full
         /\ dropped'.delivery_failed = dropped.delivery_failed + Cardinality(At("failed"))
         /\ Sent' = Sent /\ Enqueued' = Enqueued /\ At("refused")' = At("refused")
         /\ At("lost")' = At("lost") \cup At("failed")
         /\ Occupied' \in SUBSET Occupied
<1> USE DEF TypeInv, TypeOK
<1>1. \A c \in Clicks : click'[c] = CASE click[c] = "delivered" -> "reported"
                                      [] click[c] = "failed" -> "lost"
                                      [] OTHER -> click[c]
  BY DEF ServeReports
<1>2. click' \in [Clicks -> Places]
  <2>1. click' = [c \in Clicks |-> click'[c]]
    BY DEF ServeReports
  <2>2. ASSUME NEW c \in Clicks PROVE click'[c] \in Places
    BY <1>1 DEF Places
  <2> QED BY <2>1, <2>2
<1>3. Cardinality(At("failed")) \in Nat
  BY PlacesAreFinite DEF Places
<1>4. /\ dropped' \in [buffer_full : Nat, delivery_failed : Nat]
      /\ dropped'.buffer_full = dropped.buffer_full
      /\ dropped'.delivery_failed = dropped.delivery_failed + Cardinality(At("failed"))
  BY <1>3 DEF ServeReports
<1>5. Sent' = Sent
  BY <1>1 DEF Sent
<1>6. Enqueued' = Enqueued
  BY <1>1 DEF Enqueued
<1>7. At("refused")' = At("refused")
  BY <1>1 DEF At
<1>8. At("lost")' = At("lost") \cup At("failed")
  BY <1>1 DEF At
<1>9. Occupied' \in SUBSET Occupied
  BY <1>1 DEF Occupied, InQueue, Waiting
<1> QED BY <1>2, <1>4, <1>5, <1>6, <1>7, <1>8, <1>9

LEMMA TypeInit == Init => TypeInv
<1> SUFFICES ASSUME Init PROVE TypeInv
  OBVIOUS
<1>1. Sent = {} /\ Occupied = {}
  BY DEF Init, Sent, Occupied, InQueue, Waiting
<1>2. IsFiniteSet(Sent) /\ Cardinality(Occupied) = 0
  BY <1>1, FS_EmptySet
<1>3. Cardinality(Occupied) <= Capacity
  BY <1>2, ProducerAssumption
<1>4. copies \in [Clicks -> 0 .. MaxCopies]
  BY ProducerAssumption DEF Init
<1> QED BY <1>2, <1>3, <1>4 DEF Init, TypeInv, TypeOK, Places

\* Fewer clicks in the queue never break its bound.
LEMMA SmallerQueue ==
  ASSUME TypeInv, NEW S \in SUBSET Occupied
  PROVE  Cardinality(S) <= Capacity
<1>1. IsFiniteSet(Occupied)
  BY PlacesAreFinite
<1>2. Cardinality(S) <= Cardinality(Occupied) /\ Cardinality(S) \in Nat
  BY <1>1, FS_Subset, FS_CardinalityType
<1>3. Cardinality(Occupied) \in Nat
  BY PlacesAreFinite
<1> QED BY <1>2, <1>3, ProducerAssumption DEF TypeInv, TypeOK

LEMMA SendKeepsTypes ==
  ASSUME TypeInv, NEW c \in Clicks, Send(c)
  PROVE  TypeInv'
<1> USE DEF TypeInv, TypeOK
<1>1. /\ click' \in [Clicks -> Places] /\ produced' \in Nat
      /\ dropped' \in [buffer_full : Nat, delivery_failed : Nat]
  BY DEF Send, Places
<1>2. Sent' = Sent \cup {c}
  BY DEF Send, Sent
<1>3. IsFiniteSet(Sent')
  BY <1>2, FS_AddElement
<1>4. IsFiniteSet(Occupied) /\ Cardinality(Occupied) \in Nat
  BY PlacesAreFinite
<1>5. Cardinality(Occupied') <= Capacity
  <2>1. CASE Full
    <3>1. Occupied' = Occupied
      BY <2>1 DEF Send, Occupied, InQueue, Waiting
    <3> QED BY <3>1
  <2>2. CASE ~Full
    <3>1. Occupied' = Occupied \cup {c} /\ c \notin Occupied
      BY <2>2 DEF Send, Occupied, InQueue, Waiting
    <3>2. Cardinality(Occupied') = Cardinality(Occupied) + 1
      BY <1>4, <3>1, FS_AddElement
    <3>3. Cardinality(Occupied) < Capacity
      BY <2>2, <1>4, ProducerAssumption DEF Full
    <3> QED BY <3>2, <3>3, <1>4, ProducerAssumption
  <2> QED BY <2>1, <2>2
<1> QED BY <1>1, <1>3, <1>5 DEF Send

\* Append, GiveUp and Exit: clicks change places, and no more are sent or queued.
LEMMA MovesKeepTypes ==
  ASSUME TypeInv, (\E c \in Clicks : Delivery(c)) \/ Exit
  PROVE  TypeInv' /\ Sent' = Sent /\ Enqueued' = Enqueued /\ At("refused")' = At("refused")
         /\ At("lost")' = At("lost")
<1> USE DEF TypeInv, TypeOK
<1>1. /\ click' \in [Clicks -> Places] /\ copies' \in [Clicks -> 0 .. MaxCopies]
      /\ app' \in {"serving", "stopping", "flushing", "flushed", "down"}
      /\ UNCHANGED <<pollTask, produced, dropped, cutShort>>
      /\ \A c \in Clicks : \/ click'[c] = click[c]
                           \/ click[c] = "queued" /\ click'[c] \in InQueue
                           \/ click[c] \in InQueue /\ click'[c] = "abandoned"
  <2>1. ASSUME NEW c \in Clicks, Append(c)
        PROVE  <1>1!:
    BY <2>1, ProducerAssumption DEF Append, Places, InQueue, Waiting
  <2>2. ASSUME NEW c \in Clicks, GiveUp(c)
        PROVE  <1>1!:
    BY <2>2 DEF GiveUp, Places, InQueue, Waiting
  <2>3. CASE Exit
    BY <2>3 DEF Exit, Places, Occupied
  <2> QED BY <2>1, <2>2, <2>3 DEF Delivery
<1>2. Sent' = Sent /\ Enqueued' = Enqueued /\ At("refused")' = At("refused")
      /\ At("lost")' = At("lost") /\ Occupied' \in SUBSET Occupied
  BY <1>1 DEF Sent, Enqueued, At, Occupied, InQueue, Waiting
<1>3. Cardinality(Occupied') <= Capacity
  BY <1>2, SmallerQueue
<1> QED BY <1>1, <1>2, <1>3

\* The lifespan's other steps move no click.
Quiet == Shutdown \/ PollTaskEnds \/ JoinPollTask \/ FlushDone \/ FlushTimesOut
             \/ UNCHANGED vars

LEMMA QuietSteps ==
  ASSUME TypeInv, Quiet
  PROVE  TypeInv' /\ UNCHANGED <<click, copies, produced, dropped>>
<1> USE DEF TypeInv, TypeOK
<1>1. /\ UNCHANGED <<click, copies, produced, dropped>>
      /\ app' \in {"serving", "stopping", "flushing", "flushed", "down"}
      /\ pollTask' \in {"running", "ended"} /\ cutShort' \in BOOLEAN
  BY DEF Quiet, Shutdown, PollTaskEnds, JoinPollTask, FlushDone, FlushTimesOut, vars
<1>2. Sent' = Sent /\ Occupied' = Occupied
  BY <1>1 DEF Sent, Occupied
<1> QED BY <1>1, <1>2

\* What a step of the specification is.
LEMMA StepCases ==
  ASSUME [Next]_vars
  PROVE  \/ \E c \in Clicks : Send(c)
         \/ (\E c \in Clicks : Delivery(c)) \/ Exit
         \/ Poll \/ FlushServes
         \/ Quiet
BY DEF Next, Lifespan, Terminated, Quiet

LEMMA ServingKeepsTypes ==
  ASSUME TypeInv, Poll \/ FlushServes
  PROVE  TypeInv'
<1>1. ServeReports /\ UNCHANGED <<app, pollTask, copies, produced, cutShort>>
  BY DEF Poll, FlushServes
<1>2. Cardinality(Occupied') <= Capacity
  BY <1>1, ReportsServed, SmallerQueue
<1>3. IsFiniteSet(Sent')
  BY <1>1, ReportsServed DEF TypeInv
<1> QED BY <1>1, <1>2, <1>3, ReportsServed DEF TypeInv, TypeOK

LEMMA TypeStep == TypeInv /\ [Next]_vars => TypeInv'
BY StepCases, SendKeepsTypes, MovesKeepTypes, ServingKeepsTypes, QuietSteps

\* Every variable of the producer keeps its type, and librdkafka never holds more
\* messages than queue.buffering.max.messages.
THEOREM TypeCorrect == Spec => []TypeOK
<1>1. TypeInv => TypeOK
  BY DEF TypeInv
<1> QED BY <1>1, TypeInit, TypeStep, PTL DEF Spec

LEMMA TypeInvCorrect == Spec => []TypeInv
BY TypeInit, TypeStep, PTL DEF Spec

-----------------------------------------------------------------------------
(***************************************************************************)
(* The counters.                                                           *)
(***************************************************************************)

\* clicks_produced_total counts what was enqueued, wherever it is by now.
Counts == /\ dropped.buffer_full = Cardinality(At("refused"))
          /\ dropped.delivery_failed = Cardinality(At("lost"))
          /\ produced = Cardinality(Enqueued)

LEMMA CountsInit == Init => Counts
<1> SUFFICES ASSUME Init PROVE Counts
  OBVIOUS
<1>1. At("refused") = {} /\ At("lost") = {} /\ Enqueued = {}
  BY DEF Init, At, Enqueued
<1> QED BY <1>1, FS_EmptySet DEF Counts, Init

LEMMA SendCounts ==
  ASSUME TypeInv, Counts, NEW c \in Clicks, Send(c)
  PROVE  Counts'
<1> USE DEF TypeInv, TypeOK
<1>1. /\ IsFiniteSet(Enqueued) /\ IsFiniteSet(At("refused"))
      /\ Cardinality(Enqueued) \in Nat /\ Cardinality(At("refused")) \in Nat
  BY PlacesAreFinite DEF Places
<1>2. At("lost")' = At("lost") /\ dropped'.delivery_failed = dropped.delivery_failed
  BY DEF Send, At
<1>3. CASE Full
  <2>1. At("refused")' = At("refused") \cup {c} /\ c \notin At("refused") /\ Enqueued' = Enqueued
    BY <1>3 DEF Send, At, Enqueued
  <2>2. dropped'.buffer_full = dropped.buffer_full + 1 /\ produced' = produced
    BY <1>3 DEF Send
  <2>3. Cardinality(At("refused")') = Cardinality(At("refused")) + 1
    BY <1>1, <2>1, FS_AddElement
  <2> QED BY <1>2, <2>1, <2>2, <2>3 DEF Counts
<1>4. CASE ~Full
  <2>1. Enqueued' = Enqueued \cup {c} /\ c \notin Enqueued /\ At("refused")' = At("refused")
    BY <1>4 DEF Send, At, Enqueued
  <2>2. dropped' = dropped /\ produced' = produced + 1
    BY <1>4 DEF Send
  <2>3. Cardinality(Enqueued') = Cardinality(Enqueued) + 1
    BY <1>1, <2>1, FS_AddElement
  <2> QED BY <1>2, <2>1, <2>2, <2>3 DEF Counts
<1> QED BY <1>3, <1>4

LEMMA ServingCounts ==
  ASSUME TypeInv, Counts, Poll \/ FlushServes
  PROVE  Counts'
<1>1. ServeReports /\ produced' = produced
  BY DEF Poll, FlushServes
<1>2. /\ IsFiniteSet(At("lost")) /\ IsFiniteSet(At("failed"))
      /\ Cardinality(At("lost")) \in Nat /\ Cardinality(At("failed")) \in Nat
  BY PlacesAreFinite DEF Places
<1>3. At("lost") \cap At("failed") = {}
  BY DEF At
<1>4. Cardinality(At("lost") \cup At("failed")) = Cardinality(At("lost")) + Cardinality(At("failed"))
  BY <1>2, <1>3, DisjointUnion, Zenon
<1> QED BY <1>1, <1>4, ReportsServed DEF Counts

LEMMA CountsStep == TypeInv /\ Counts /\ [Next]_vars => Counts'
<1> SUFFICES ASSUME TypeInv, Counts, [Next]_vars PROVE Counts'
  OBVIOUS
<1>1. ASSUME (\E c \in Clicks : Delivery(c)) \/ Exit PROVE Counts'
  <2>1. produced' = produced /\ dropped' = dropped
    BY <1>1 DEF Delivery, Append, GiveUp, Exit
  <2> QED BY <1>1, <2>1, MovesKeepTypes DEF Counts
<1>2. ASSUME Quiet PROVE Counts'
  <2>1. UNCHANGED <<click, produced, dropped>>
    BY <1>2, QuietSteps
  <2> QED BY <2>1 DEF Counts, At, Enqueued
<1> QED BY <1>1, <1>2, StepCases, SendCounts, ServingCounts

\* The topic has no click that was refused, and every click that was delivered.
TopicInv == \A c \in Clicks :
    /\ click[c] \in {"unsent", "refused"} => copies[c] = 0
    /\ click[c] \in {"delivered", "reported"} => copies[c] > 0

LEMMA TopicInit == Init => TopicInv
BY DEF Init, TopicInv

LEMMA TopicStep == TypeInv /\ TopicInv /\ [Next]_vars => TopicInv'
<1> SUFFICES ASSUME TypeInv, TopicInv, [Next]_vars PROVE TopicInv'
  OBVIOUS
<1> USE DEF TopicInv, TypeInv, TypeOK
<1>1. ASSUME NEW c \in Clicks, Send(c) PROVE TopicInv'
  <2>1. /\ click[c] = "unsent" /\ click'[c] \in {"refused", "queued"}
        /\ \A d \in Clicks : d # c => click'[d] = click[d]
        /\ copies' = copies
    BY <1>1 DEF Send
  <2> QED BY <2>1
<1>2. ASSUME NEW c \in Clicks, Append(c) PROVE TopicInv'
  <2>1. /\ copies'[c] > 0 /\ click'[c] \in {"queued", "delivered"}
        /\ \A d \in Clicks \ {c} : copies'[d] = copies[d] /\ click'[d] = click[d]
    BY <1>2 DEF Append
  <2> QED BY <2>1
<1>3. ASSUME NEW c \in Clicks, GiveUp(c) PROVE TopicInv'
  <2>1. /\ click'[c] = "failed" /\ copies' = copies
        /\ \A d \in Clicks \ {c} : click'[d] = click[d]
    BY <1>3 DEF GiveUp
  <2> QED BY <2>1
<1>4. CASE Exit
  <2>1. /\ copies' = copies
        /\ \A c \in Clicks : click'[c] \in {click[c], "abandoned"}
    BY <1>4 DEF Exit
  <2> QED BY <2>1
<1>5. CASE Poll \/ FlushServes
  <2>1. /\ copies' = copies
        /\ \A c \in Clicks : click'[c] = CASE click[c] = "delivered" -> "reported"
                                           [] click[c] = "failed" -> "lost"
                                           [] OTHER -> click[c]
    BY <1>5 DEF Poll, FlushServes, ServeReports
  <2> QED BY <2>1
<1>6. CASE Quiet
  BY <1>6, QuietSteps
<1> QED BY <1>1, <1>2, <1>3, <1>4, <1>5, <1>6, StepCases DEF Delivery

LEMMA TopicCorrect == Spec => []TopicInv
BY TypeInvCorrect, TopicInit, TopicStep, PTL DEF Spec

\* For every number of clicks and every queue the counters say what became of the clicks
\* in the topic, through refused clicks, retries, lost acknowledgements and a shutdown.
THEOREM CountersTellTheTruth == Spec => []CountersTell
<1>1. TypeInv /\ TopicInv /\ Counts => CountersTell
  <2> SUFFICES ASSUME TypeInv, TopicInv, Counts PROVE CountersTell
    OBVIOUS
  <2> DEFINE inTopic == {c \in Clicks : copies[c] > 0}
  <2>1. At("refused") \ inTopic = At("refused")
    BY DEF TopicInv, At
  <2>2. Enqueued = inTopic \cup At("lost") \cup Occupied \cup At("abandoned")
    <3>1. ASSUME NEW c \in Enqueued
          PROVE  c \in inTopic \cup At("lost") \cup Occupied \cup At("abandoned")
      <4>1. c \in Clicks /\ click[c] \in Places \ {"unsent", "refused"}
        BY DEF Enqueued, TypeInv, TypeOK
      <4> QED BY <4>1 DEF TopicInv, Places, At, Occupied, InQueue, Waiting
    <3>2. ASSUME NEW c \in inTopic \cup At("lost") \cup Occupied \cup At("abandoned")
          PROVE  c \in Enqueued
      <4>1. CASE c \in inTopic
        BY <4>1 DEF TopicInv, Enqueued
      <4>2. CASE c \notin inTopic
        BY <4>2 DEF Enqueued, At, Occupied, InQueue, Waiting
      <4> QED BY <4>1, <4>2
    <3> QED BY <3>1, <3>2
  <2> QED BY <2>1, <2>2 DEF Counts, CountersTell
<1> QED BY <1>1, TypeInvCorrect, TopicCorrect, CountsInit, CountsStep, PTL DEF Spec

-----------------------------------------------------------------------------
(***************************************************************************)
(* The shutdown.                                                           *)
(***************************************************************************)

\* Only a flush out of time leaves clicks in the queue, and only clicks in the queue are
\* abandoned.
ShutdownInv ==
    /\ app \in {"flushed", "down"} /\ ~cutShort => Occupied = {}
    /\ app = "down" => Occupied = {}
    /\ (\E c \in Clicks : click[c] = "abandoned") => app = "down" /\ cutShort

LEMMA ShutdownInit == Init => ShutdownInv
BY DEF Init, ShutdownInv

LEMMA ShutdownStep == TypeInv /\ ShutdownInv /\ [Next]_vars => ShutdownInv'
<1> SUFFICES ASSUME TypeInv, ShutdownInv, [Next]_vars PROVE ShutdownInv'
  OBVIOUS
<1> USE DEF ShutdownInv, TypeInv, TypeOK, Occupied, InQueue, Waiting
<1>1. ASSUME NEW c \in Clicks, Send(c) PROVE ShutdownInv'
  <2>1. click'[c] \in {"refused", "queued"} /\ app = "serving" /\ app' = app
    BY <1>1 DEF Send
  <2>2. \A d \in Clicks : d # c => click'[d] = click[d]
    BY <1>1 DEF Send
  <2>3. UNCHANGED cutShort
    BY <1>1 DEF Send
  <2> QED BY <2>1, <2>2, <2>3
<1>2. ASSUME NEW c \in Clicks, Append(c) PROVE ShutdownInv'
  <2>1. /\ click[c] = "queued" /\ app # "down"
        /\ click'[c] \in {"queued", "delivered"}
        /\ \A d \in Clicks \ {c} : click'[d] = click[d]
        /\ UNCHANGED <<app, cutShort>>
    BY <1>2 DEF Append
  <2> QED BY <2>1
<1>3. ASSUME NEW c \in Clicks, GiveUp(c) PROVE ShutdownInv'
  <2>1. /\ click[c] = "queued" /\ app # "down" /\ click'[c] = "failed"
        /\ \A d \in Clicks \ {c} : click'[d] = click[d]
        /\ UNCHANGED <<app, cutShort>>
    BY <1>3 DEF GiveUp
  <2> QED BY <2>1
<1>4. CASE Exit
  <2>1. /\ app = "flushed" /\ app' = "down" /\ UNCHANGED cutShort
        /\ \A c \in Clicks : click'[c] = IF c \in Occupied THEN "abandoned" ELSE click[c]
    BY <1>4 DEF Exit
  <2> QED BY <2>1
<1>5. CASE Poll \/ FlushServes
  <2>1. /\ UNCHANGED <<app, cutShort>>
        /\ \A c \in Clicks : click'[c] = CASE click[c] = "delivered" -> "reported"
                                           [] click[c] = "failed" -> "lost"
                                           [] OTHER -> click[c]
    BY <1>5 DEF Poll, FlushServes, ServeReports
  <2> QED BY <2>1
<1>6. CASE Quiet
  BY <1>6 DEF Quiet, Shutdown, PollTaskEnds, JoinPollTask, FlushDone, FlushTimesOut, vars
<1> QED BY <1>1, <1>2, <1>3, <1>4, <1>5, <1>6, StepCases DEF Delivery

\* For every number of clicks and every queue, a shutdown whose flush finishes in time
\* has lost no click that is not counted as dropped.
THEOREM NothingLostSilently == Spec => []NoSilentLoss
<1>1. TypeInv /\ TopicInv /\ ShutdownInv => NoSilentLoss
  BY DEF TypeInv, TypeOK, TopicInv, ShutdownInv, NoSilentLoss, Places, Occupied, InQueue, Waiting
<1> QED BY <1>1, TypeInvCorrect, TopicCorrect, ShutdownInit, ShutdownStep, PTL DEF Spec
=============================================================================
