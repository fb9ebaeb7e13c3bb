------------------------- MODULE ConsumerGroupProofs -------------------------
(***************************************************************************)
(* Machine-checked proofs about ConsumerGroup, for every set of workers    *)
(* and partitions, every batch size and every number of rebalances.        *)
(***************************************************************************)
EXTENDS ConsumerGroup, FiniteSetTheorems, TLAPS

-----------------------------------------------------------------------------
(***************************************************************************)
(* How often a batch holds a slot.                                         *)
(***************************************************************************)

\* Where in the batch slot s is.
Places(batch, s) == {i \in 1 .. Len(batch) : batch[i] = s}

LEMMA PlacesFinite ==
  ASSUME NEW batch \in Seq(Slots), NEW s
  PROVE  /\ IsFiniteSet(Places(batch, s))
         /\ Copies(batch, s) = Cardinality(Places(batch, s))
         /\ Copies(batch, s) \in Nat
         /\ Places(batch, s) # {} => Copies(batch, s) > 0
<1>1. Len(batch) \in Nat
  OBVIOUS
<1>2. IsFiniteSet(1 .. Len(batch))
  BY <1>1, FS_Interval
<1>3. Places(batch, s) \in SUBSET (1 .. Len(batch))
  BY DEF Places
<1>4. IsFiniteSet(Places(batch, s))
  BY <1>2, <1>3, FS_Subset
<1>5. Copies(batch, s) = Cardinality(Places(batch, s))
  BY DEF Copies, Places
<1>6. Copies(batch, s) \in Nat
  BY <1>4, <1>5, FS_CardinalityType
<1>7. Cardinality(Places(batch, s)) = 0 <=> Places(batch, s) = {}
  BY <1>4, FS_EmptySet
<1> QED BY <1>4, <1>5, <1>6, <1>7

-----------------------------------------------------------------------------
(***************************************************************************)
(* Type correctness.                                                       *)
(***************************************************************************)

LEMMA TypeInit == Init => TypeOK
<1> SUFFICES ASSUME Init PROVE TypeOK
  OBVIOUS
<1> USE BoundsAssumption DEF Init
<1>1. rows \in [Slots -> Nat]
  OBVIOUS
<1>2. buffer \in [Workers -> Seq(Slots)]
  OBVIOUS
<1>3. position \in [Workers -> [Partitions -> 0 .. MaxLog]]
  OBVIOUS
<1> QED BY <1>1, <1>2, <1>3 DEF TypeOK

LEMMA TypeStep == TypeOK /\ [Next]_vars => TypeOK'
<1> SUFFICES ASSUME TypeOK, [Next]_vars
             PROVE  TypeOK'
  OBVIOUS
<1> USE BoundsAssumption DEF TypeOK, kafkaVars, groupVars, workerVars
<1>1. ASSUME NEW p \in Partitions, Publish(p)
      PROVE  TypeOK'
  BY <1>1 DEF Publish
<1>2. CASE Rebalance
  <2>1. PICK members \in SUBSET Joining : \E owner \in [Partitions -> members] :
           /\ target' = [w \in Workers |-> {p \in Partitions : owner[p] = w}]
           /\ standing' = [w \in Workers |-> IF w \in members THEN "invited" ELSE "out"]
    BY <1>2 DEF Rebalance
  <2>2. target' \in [Workers -> SUBSET Partitions]
    BY <2>1
  <2>3. standing' \in [Workers -> {"out", "invited", "joined"}]
    BY <2>1
  <2>4. generation' \in 0 .. MaxGeneration
    BY <1>2 DEF Rebalance
  <2> QED BY <1>2, <2>2, <2>3, <2>4 DEF Rebalance
<1>3. ASSUME NEW w \in Workers, Revoke(w)
      PROVE  TypeOK'
  BY <1>3 DEF Revoke
<1>4. ASSUME NEW w \in Workers, Join(w)
      PROVE  TypeOK'
  BY <1>4 DEF Join
<1>5. ASSUME NEW w \in Workers, NEW p \in Partitions, Poll(w, p)
      PROVE  TypeOK'
  <2>1. position[w][p] \in 0 .. MaxLog - 1
    BY <1>5 DEF Poll
  <2>2. <<p, position[w][p]>> \in Slots
    BY <2>1 DEF Slots
  <2>3. buffer' \in [Workers -> Seq(Slots)]
    BY <1>5, <2>2 DEF Poll
  <2>4. position' \in [Workers -> [Partitions -> 0 .. MaxLog]]
    BY <1>5, <2>1 DEF Poll
  <2> QED BY <1>5, <2>3, <2>4 DEF Poll
<1>6. ASSUME NEW w \in Workers, Flush(w)
      PROVE  TypeOK'
  <2>1. \A s \in Slots : Copies(buffer[w], s) \in Nat
    BY PlacesFinite
  <2>2. rows' \in [Slots -> Nat]
    BY <1>6, <2>1 DEF Flush
  <2>3. buffer' \in [Workers -> Seq(Slots)] /\ pc' \in [Workers -> {"poll", "commit", "dead"}]
    BY <1>6 DEF Flush
  <2> QED BY <1>6, <2>2, <2>3 DEF Flush
<1>7. ASSUME NEW w \in Workers, Commit(w)
      PROVE  TypeOK'
  <2>1. committed' \in [Partitions -> 0 .. MaxLog]
    BY <1>7 DEF Commit
  <2> QED BY <1>7, <2>1 DEF Commit
<1>8. ASSUME NEW w \in Workers, Dies(w)
      PROVE  TypeOK'
  BY <1>8 DEF Dies
<1>9. ASSUME NEW w \in Workers, Restart(w)
      PROVE  TypeOK'
  BY <1>9 DEF Restart
<1>10. CASE UNCHANGED vars
  BY <1>10 DEF vars
<1> QED
  BY <1>1, <1>2, <1>3, <1>4, <1>5, <1>6, <1>7, <1>8, <1>9, <1>10
     DEF Next, PollThread, CommitRaises, Crash

\* Every variable of the group keeps its type.
THEOREM TypeCorrect == Spec => []TypeOK
<1> QED BY TypeInit, TypeStep, PTL DEF Spec

-----------------------------------------------------------------------------
(***************************************************************************)
(* Duplicates. A worker that is invited to partition p, or has it and has  *)
(* not read slot s yet, may still read s once; each copy of s in a batch   *)
(* may still become a row. A rebalance lets one more worker read s, and no *)
(* other step lets anyone.                                                 *)
(***************************************************************************)

\* Worker w may still read slot s.
MayRead(w, s) == \/ standing[w] = "invited" /\ s[1] \in target[w]
                 \/ s[1] \in assigned[w] /\ position[w][s[1]] <= s[2]

\* The rows that slot s may still get: <<w, 0>> for one that w may still read, and
\* <<w, i>> for that in place i of its batch.
Owed(s) == {t \in Workers \X Nat : IF t[2] = 0 THEN MayRead(t[1], s)
                                               ELSE t[2] \in Places(buffer[t[1]], s)}

InvitedHasNone == \A w \in Workers : standing[w] = "invited" => assigned[w] = {}

OncePerRebalance == \A s \in Slots : /\ IsFiniteSet(Owed(s))
                                     /\ rows[s] + Cardinality(Owed(s)) <= generation

DuplicatesInv == TypeOK /\ InvitedHasNone /\ OncePerRebalance

LEMMA DuplicatesInit == Init => DuplicatesInv
<1> SUFFICES ASSUME Init PROVE DuplicatesInv
  OBVIOUS
<1>1. TypeOK
  BY TypeInit
<1>2. InvitedHasNone
  BY DEF InvitedHasNone, Init
<1>3. ASSUME NEW s \in Slots
      PROVE  IsFiniteSet(Owed(s)) /\ rows[s] + Cardinality(Owed(s)) <= generation
  <2>1. Owed(s) = {}
    BY DEF Owed, Places, MayRead, Init, Slots
  <2> QED BY <1>3, <2>1, FS_EmptySet DEF Init
<1> QED BY <1>1, <1>2, <1>3 DEF DuplicatesInv, OncePerRebalance

LEMMA InvitedStep == TypeOK /\ InvitedHasNone /\ [Next]_vars => InvitedHasNone'
<1> SUFFICES ASSUME TypeOK, InvitedHasNone, [Next]_vars, NEW v \in Workers,
                    standing'[v] = "invited"
             PROVE  assigned'[v] = {}
  BY DEF InvitedHasNone
<1> USE DEF TypeOK, InvitedHasNone, kafkaVars, groupVars, workerVars
<1>1. ASSUME NEW p \in Partitions, Publish(p)
      PROVE  assigned'[v] = {}
  BY <1>1 DEF Publish
<1>2. CASE Rebalance
  <2>1. PICK members \in SUBSET Joining :
           standing' = [w \in Workers |-> IF w \in members THEN "invited" ELSE "out"]
    BY <1>2 DEF Rebalance
  <2>2. v \in members
    BY <2>1
  <2> QED BY <1>2, <2>2 DEF Rebalance, Joining
<1>3. ASSUME NEW w \in Workers, Revoke(w)
      PROVE  assigned'[v] = {}
  BY <1>3 DEF Revoke
<1>4. ASSUME NEW w \in Workers, Join(w)
      PROVE  assigned'[v] = {}
  BY <1>4 DEF Join
<1>5. ASSUME NEW w \in Workers, NEW p \in Partitions, Poll(w, p)
      PROVE  assigned'[v] = {}
  BY <1>5 DEF Poll
<1>6. ASSUME NEW w \in Workers, Flush(w) \/ Commit(w) \/ Restart(w)
      PROVE  assigned'[v] = {}
  BY <1>6 DEF Flush, Commit, Restart
<1>7. ASSUME NEW w \in Workers, Dies(w)
      PROVE  assigned'[v] = {}
  BY <1>7 DEF Dies
<1>8. CASE UNCHANGED vars
  BY <1>8 DEF vars
<1> QED
  BY <1>1, <1>2, <1>3, <1>4, <1>5, <1>6, <1>7, <1>8
     DEF Next, PollThread, CommitRaises, Crash

\* What is owed shrinks, and no rows are added: nothing to do.
LEMMA OwedShrinks ==
  ASSUME DuplicatesInv, TypeOK', NEW s \in Slots,
         rows'[s] = rows[s], generation' >= generation, Owed(s)' \subseteq Owed(s)
  PROVE  IsFiniteSet(Owed(s)') /\ rows'[s] + Cardinality(Owed(s)') <= generation'
<1>1. IsFiniteSet(Owed(s)) /\ rows[s] + Cardinality(Owed(s)) <= generation
  BY DEF DuplicatesInv, OncePerRebalance
<1>2. IsFiniteSet(Owed(s)') /\ Cardinality(Owed(s)') <= Cardinality(Owed(s))
  BY <1>1, FS_Subset
<1>3. Cardinality(Owed(s)) \in Nat /\ Cardinality(Owed(s)') \in Nat
  BY <1>1, <1>2, FS_CardinalityType
<1>4. rows[s] \in Nat /\ generation \in Nat /\ generation' \in Nat
  BY DEF DuplicatesInv, TypeOK
<1> QED BY <1>1, <1>2, <1>3, <1>4

LEMMA OwedAfterRebalance ==
  ASSUME DuplicatesInv, TypeOK', Rebalance, NEW s \in Slots
  PROVE  IsFiniteSet(Owed(s)') /\ rows'[s] + Cardinality(Owed(s)') <= generation'
<1> USE DEF kafkaVars, workerVars
<1>1. IsFiniteSet(Owed(s)) /\ rows[s] + Cardinality(Owed(s)) <= generation
  BY DEF DuplicatesInv, OncePerRebalance
<1> PICK members \in SUBSET Joining : \E owner \in [Partitions -> members] :
        /\ target' = [w \in Workers |-> {p \in Partitions : owner[p] = w}]
        /\ standing' = [w \in Workers |-> IF w \in members THEN "invited" ELSE "out"]
  BY DEF Rebalance
<1>2. PICK owner \in [Partitions -> members] :
         /\ target' = [w \in Workers |-> {p \in Partitions : owner[p] = w}]
         /\ standing' = [w \in Workers |-> IF w \in members THEN "invited" ELSE "out"]
  OBVIOUS
<1> DEFINE new == <<owner[s[1]], 0>>
<1>3. UNCHANGED <<rows, buffer, position, assigned>> /\ generation' = generation + 1
  BY DEF Rebalance
<1>4. Owed(s)' \subseteq Owed(s) \cup {new}
  <2> SUFFICES ASSUME NEW t \in Owed(s)', t \notin Owed(s)
               PROVE  t = new
    OBVIOUS
  <2>1. t \in Workers \X Nat /\ t[2] = 0 /\ MayRead(t[1], s)' /\ ~MayRead(t[1], s)
    BY <1>3 DEF Owed, Places
  <2>2. s[1] \in target'[t[1]]
    BY <1>3, <2>1 DEF MayRead
  <2>3. owner[s[1]] = t[1]
    BY <1>2, <2>1, <2>2
  <2> QED BY <2>1, <2>3
<1>5. /\ IsFiniteSet(Owed(s) \cup {new})
      /\ Cardinality(Owed(s) \cup {new}) \in {Cardinality(Owed(s)), Cardinality(Owed(s)) + 1}
  BY <1>1, FS_AddElement
<1>6. IsFiniteSet(Owed(s)') /\ Cardinality(Owed(s)') <= Cardinality(Owed(s) \cup {new})
  BY <1>4, <1>5, FS_Subset
<1>7. Cardinality(Owed(s)) \in Nat /\ Cardinality(Owed(s)') \in Nat
  BY <1>1, <1>6, FS_CardinalityType
<1>8. rows[s] \in Nat /\ generation \in Nat
  BY DEF DuplicatesInv, TypeOK
<1> QED BY <1>1, <1>3, <1>5, <1>6, <1>7, <1>8

LEMMA OwedAfterPoll ==
  ASSUME DuplicatesInv, TypeOK', NEW w \in Workers, NEW p \in Partitions, Poll(w, p),
         NEW s \in Slots
  PROVE  IsFiniteSet(Owed(s)') /\ rows'[s] + Cardinality(Owed(s)') <= generation'
<1> USE DEF kafkaVars, groupVars
<1>1. IsFiniteSet(Owed(s)) /\ rows[s] + Cardinality(Owed(s)) <= generation
  BY DEF DuplicatesInv, OncePerRebalance
<1>2. TypeOK
  BY DEF DuplicatesInv
<1> DEFINE place == Len(buffer[w]) + 1
           read == <<p, position[w][p]>>
<1>3. /\ UNCHANGED <<rows, generation, standing, target, assigned>>
      /\ p \in assigned[w]
      /\ buffer' = [buffer EXCEPT ![w] = Append(@, read)]
      /\ position' = [position EXCEPT ![w][p] = @ + 1]
  BY DEF Poll
<1>4. \A v \in Workers, i \in Nat : i \in Places(buffer'[v], s) =>
         \/ i \in Places(buffer[v], s)
         \/ v = w /\ i = place /\ s = read
  <2> SUFFICES ASSUME NEW v \in Workers, NEW i \in Nat, i \in Places(buffer'[v], s),
                      i \notin Places(buffer[v], s)
               PROVE  v = w /\ i = place /\ s = read
    OBVIOUS
  <2>1. v = w
    BY <1>2, <1>3 DEF Places, TypeOK
  <2>2. buffer'[w] = Append(buffer[w], read) /\ buffer[w] \in Seq(Slots)
    BY <1>2, <1>3 DEF TypeOK
  <2>3. i \in 1 .. Len(buffer'[w]) /\ buffer'[w][i] = s
    BY <2>1 DEF Places
  <2>4. Len(buffer'[w]) = place
    BY <2>2
  <2>5. i # place => i \in Places(buffer[w], s)
    BY <2>2, <2>3, <2>4 DEF Places
  <2> QED BY <2>1, <2>2, <2>3, <2>4, <2>5
<1>5. \A v \in Workers : MayRead(v, s)' => MayRead(v, s)
  <2> SUFFICES ASSUME NEW v \in Workers, MayRead(v, s)'
               PROVE  MayRead(v, s)
    OBVIOUS
  <2>1. s[1] \in Partitions /\ s[2] \in Nat
    BY BoundsAssumption DEF Slots
  <2>2. position[v][s[1]] \in Nat
    BY <1>2, <2>1, BoundsAssumption DEF TypeOK
  <2>3. position'[v][s[1]] \in {position[v][s[1]], position[v][s[1]] + 1}
    <3>1. CASE v = w /\ s[1] = p
      BY <1>2, <1>3, <3>1 DEF TypeOK
    <3>2. CASE v # w \/ s[1] # p
      BY <1>2, <1>3, <2>1, <3>2 DEF TypeOK
    <3> QED BY <3>1, <3>2
  <2>4. CASE standing'[v] = "invited" /\ s[1] \in target'[v]
    BY <1>3, <2>4 DEF MayRead
  <2>5. CASE s[1] \in assigned'[v] /\ position'[v][s[1]] <= s[2]
    BY <1>3, <2>1, <2>2, <2>3, <2>5 DEF MayRead
  <2> QED BY <2>4, <2>5 DEF MayRead
<1>6. CASE s # read
  <2>1. Owed(s)' \subseteq Owed(s)
    BY <1>4, <1>5, <1>6 DEF Owed
  <2>2. generation \in Nat /\ generation' = generation /\ rows'[s] = rows[s]
    BY <1>2, <1>3 DEF TypeOK
  <2>3. generation' >= generation
    BY <2>2
  <2> QED BY <2>1, <2>2, <2>3, OwedShrinks
<1>7. CASE s = read
  <2>1. MayRead(w, s)
    BY <1>2, <1>3, <1>7, BoundsAssumption DEF MayRead, TypeOK
  <2>2. ~MayRead(w, s)'
    <3>1. standing[w] # "invited"
      BY <1>3 DEF DuplicatesInv, InvitedHasNone
    <3>2. position'[w][p] = position[w][p] + 1 /\ position[w][p] \in Nat
      BY <1>2, <1>3, BoundsAssumption DEF TypeOK
    <3>3. s[1] = p /\ s[2] = position[w][p]
      BY <1>7
    <3> QED BY <1>3, <3>1, <3>2, <3>3 DEF MayRead
  <2> DEFINE rest == Owed(s) \ {<<w, 0>>}
  <2>3. <<w, 0>> \in Owed(s)
    BY <2>1 DEF Owed
  <2>4. Owed(s)' \subseteq rest \cup {<<w, place>>}
    <3> SUFFICES ASSUME NEW t \in Owed(s)', t \notin rest
                 PROVE  t = <<w, place>>
      OBVIOUS
    <3>1. t \in Workers \X Nat /\ t = <<t[1], t[2]>>
      BY DEF Owed
    <3>2. CASE t[2] = 0
      <4>1. MayRead(t[1], s)'
        BY <3>2 DEF Owed
      <4>2. t[1] # w
        BY <2>2, <4>1
      <4>3. t \in Owed(s)
        BY <1>5, <3>1, <3>2, <4>1 DEF Owed
      <4> QED BY <3>1, <4>2, <4>3
    <3>3. CASE t[2] # 0
      <4>1. t[2] \in Places(buffer'[t[1]], s)
        BY <3>3 DEF Owed
      <4>2. t[2] \notin Places(buffer[t[1]], s)
        BY <3>1, <3>3 DEF Owed
      <4> QED BY <1>4, <3>1, <4>1, <4>2
    <3> QED BY <3>2, <3>3
  <2>5. IsFiniteSet(rest) /\ Cardinality(rest) = Cardinality(Owed(s)) - 1
    BY <1>1, <2>3, FS_RemoveElement
  <2>6. /\ IsFiniteSet(rest \cup {<<w, place>>})
        /\ Cardinality(rest \cup {<<w, place>>}) \in {Cardinality(rest), Cardinality(rest) + 1}
    BY <2>5, FS_AddElement
  <2>7. IsFiniteSet(Owed(s)') /\ Cardinality(Owed(s)') <= Cardinality(rest \cup {<<w, place>>})
    BY <2>4, <2>6, FS_Subset
  <2>8. Cardinality(Owed(s)) \in Nat /\ Cardinality(Owed(s)') \in Nat
    BY <1>1, <2>7, FS_CardinalityType
  <2>9. rows[s] \in Nat /\ generation \in Nat
    BY <1>2 DEF TypeOK
  <2>10. Cardinality(Owed(s)') <= Cardinality(Owed(s))
    BY <2>5, <2>6, <2>7, <2>8
  <2> HIDE DEF rest
  <2> QED BY <1>1, <1>3, <2>7, <2>8, <2>9, <2>10
<1> QED BY <1>6, <1>7

LEMMA OwedAfterFlush ==
  ASSUME DuplicatesInv, TypeOK', NEW w \in Workers, Flush(w), NEW s \in Slots
  PROVE  IsFiniteSet(Owed(s)') /\ rows'[s] + Cardinality(Owed(s)') <= generation'
<1> USE DEF kafkaVars, groupVars
<1>1. IsFiniteSet(Owed(s)) /\ rows[s] + Cardinality(Owed(s)) <= generation
  BY DEF DuplicatesInv, OncePerRebalance
<1>2. TypeOK
  BY DEF DuplicatesInv
<1> DEFINE places == Places(buffer[w], s)
           flushed == {w} \X places
<1>3. /\ IsFiniteSet(places)
      /\ Copies(buffer[w], s) = Cardinality(places)
      /\ Copies(buffer[w], s) \in Nat
  BY <1>2, PlacesFinite DEF TypeOK
<1>4. IsFiniteSet(flushed) /\ Cardinality(flushed) = Copies(buffer[w], s)
  <2>1. IsFiniteSet({w}) /\ Cardinality({w}) = 1
    BY FS_Singleton
  <2>2. IsFiniteSet(flushed) /\ Cardinality(flushed) = 1 * Cardinality(places)
    BY <1>3, <2>1, FS_Product
  <2> QED BY <1>3, <2>2
<1>5. flushed \subseteq Owed(s)
  <2> SUFFICES ASSUME NEW i \in places
               PROVE  <<w, i>> \in Owed(s)
    OBVIOUS
  <2>1. i \in Nat /\ i # 0
    BY <1>2 DEF Places, TypeOK
  <2> QED BY <2>1 DEF Owed
<1>6. /\ rows'[s] = rows[s] + Copies(buffer[w], s)
      /\ buffer' = [buffer EXCEPT ![w] = << >>]
      /\ UNCHANGED <<generation, standing, target, assigned, position>>
  BY DEF Flush
<1>7. Owed(s)' \subseteq Owed(s) \ flushed
  <2> SUFFICES ASSUME NEW t \in Owed(s)'
               PROVE  t \in Owed(s) /\ t \notin flushed
    OBVIOUS
  <2>1. t \in Workers \X Nat
    BY DEF Owed
  <2>2. CASE t[2] = 0
    <3>1. t \in Owed(s)
      BY <1>6, <2>1, <2>2 DEF Owed, MayRead
    <3>2. 0 \notin places
      BY DEF Places
    <3> QED BY <2>2, <3>1, <3>2
  <2>3. CASE t[2] # 0
    <3>1. t[2] \in Places(buffer'[t[1]], s)
      BY <2>3 DEF Owed
    <3>2. t[1] # w
      BY <1>2, <1>6, <3>1 DEF Places, TypeOK
    <3>3. buffer'[t[1]] = buffer[t[1]]
      BY <1>2, <1>6, <2>1, <3>2 DEF TypeOK
    <3> QED BY <2>1, <2>3, <3>1, <3>2, <3>3 DEF Owed
  <2> QED BY <2>2, <2>3
<1>8. /\ IsFiniteSet(Owed(s) \ flushed)
      /\ Cardinality(Owed(s) \ flushed) = Cardinality(Owed(s)) - Cardinality(Owed(s) \cap flushed)
  BY <1>1, FS_Difference
<1>9. Owed(s) \cap flushed = flushed
  BY <1>5
<1>10. IsFiniteSet(Owed(s)') /\ Cardinality(Owed(s)') <= Cardinality(Owed(s) \ flushed)
  BY <1>7, <1>8, FS_Subset
<1>11. Cardinality(Owed(s)) \in Nat /\ Cardinality(Owed(s)') \in Nat
  BY <1>1, <1>10, FS_CardinalityType
<1>12. Cardinality(Owed(s)') <= Cardinality(Owed(s)) - Copies(buffer[w], s)
  BY <1>4, <1>8, <1>9, <1>10
<1>13. rows[s] \in Nat /\ generation \in Nat
  BY <1>2 DEF TypeOK
<1> HIDE DEF flushed, places
<1> QED BY <1>1, <1>3, <1>6, <1>10, <1>11, <1>12, <1>13

LEMMA DuplicatesStep == DuplicatesInv /\ [Next]_vars => DuplicatesInv'
<1> SUFFICES ASSUME DuplicatesInv, [Next]_vars
             PROVE  OncePerRebalance'
  BY TypeStep, InvitedStep DEF DuplicatesInv
<1> SUFFICES ASSUME NEW s \in Slots
             PROVE  IsFiniteSet(Owed(s)') /\ rows'[s] + Cardinality(Owed(s)') <= generation'
  BY DEF OncePerRebalance
<1> DEFINE Goal == IsFiniteSet(Owed(s)') /\ rows'[s] + Cardinality(Owed(s)') <= generation'
<1>1. TypeOK /\ TypeOK'
  BY TypeStep DEF DuplicatesInv
<1>2. generation \in Nat /\ s[1] \in Partitions
  BY <1>1 DEF TypeOK, Slots
<1> USE DEF kafkaVars, groupVars, workerVars
<1>3. CASE UNCHANGED <<rows, generation, standing, target, assigned, position, buffer>>
  <2>1. Owed(s)' \subseteq Owed(s)
    BY <1>3 DEF Owed, MayRead, Places
  <2> QED BY <1>1, <1>2, <1>3, <2>1, OwedShrinks
<1>4. CASE Rebalance
  BY <1>1, <1>4, OwedAfterRebalance
<1>5. ASSUME NEW w \in Workers, NEW p \in Partitions, Poll(w, p)
      PROVE  Goal
  BY <1>1, <1>5, OwedAfterPoll
<1>6. ASSUME NEW w \in Workers, Flush(w)
      PROVE  Goal
  BY <1>1, <1>6, OwedAfterFlush
<1>7. ASSUME NEW w \in Workers, Revoke(w) \/ Dies(w)
      PROVE  Goal
  <2>1. /\ UNCHANGED <<rows, generation, target, position>>
        /\ standing' = [standing EXCEPT ![w] = "out"]
        /\ assigned' = [assigned EXCEPT ![w] = {}]
        /\ buffer' \in {buffer, [buffer EXCEPT ![w] = << >>]}
    BY <1>7 DEF Revoke, Dies
  <2>2. \A v \in Workers : MayRead(v, s)' => MayRead(v, s)
    BY <1>1, <1>2, <2>1 DEF MayRead, TypeOK
  <2>3. \A v \in Workers : Places(buffer'[v], s) \subseteq Places(buffer[v], s)
    <3> SUFFICES ASSUME NEW v \in Workers
                 PROVE  Places(buffer'[v], s) \subseteq Places(buffer[v], s)
      OBVIOUS
    <3>1. CASE buffer'[v] = buffer[v]
      BY <3>1
    <3>2. CASE buffer'[v] = << >>
      BY <3>2 DEF Places
    <3> QED BY <1>1, <2>1, <3>1, <3>2 DEF TypeOK
  <2>4. Owed(s)' \subseteq Owed(s)
    BY <2>2, <2>3 DEF Owed
  <2> QED BY <1>1, <1>2, <2>1, <2>4, OwedShrinks
<1>8. ASSUME NEW w \in Workers, Join(w)
      PROVE  Goal
  <2>1. /\ UNCHANGED <<rows, generation, target, buffer>>
        /\ standing[w] = "invited"
        /\ standing' = [standing EXCEPT ![w] = "joined"]
        /\ assigned' = [assigned EXCEPT ![w] = target[w]]
        /\ position' = [position EXCEPT ![w] = committed]
    BY <1>8 DEF Join
  <2>2. \A v \in Workers : MayRead(v, s)' => MayRead(v, s)
    BY <1>1, <1>2, <2>1 DEF MayRead, TypeOK
  <2>3. Owed(s)' \subseteq Owed(s)
    BY <2>1, <2>2 DEF Owed
  <2> QED BY <1>1, <1>2, <2>1, <2>3, OwedShrinks
<1>9. ASSUME NEW p \in Partitions, Publish(p)
      PROVE  Goal
  BY <1>3, <1>9 DEF Publish
<1>10. ASSUME NEW w \in Workers, Commit(w) \/ Restart(w)
       PROVE  Goal
  BY <1>3, <1>10 DEF Commit, Restart
<1>11. CASE UNCHANGED vars
  BY <1>3, <1>11 DEF vars
<1> QED
  BY <1>4, <1>5, <1>6, <1>7, <1>8, <1>9, <1>10, <1>11
     DEF Next, PollThread, CommitRaises, Crash

\* However partitions move between poll, insert and commit, and whoever dies in between,
\* a click has at most one row for each rebalance.
THEOREM OncePerGeneration == Spec => []AtMostOncePerGeneration
<1>1. DuplicatesInv => AtMostOncePerGeneration
  <2> SUFFICES ASSUME DuplicatesInv, NEW s \in Slots
               PROVE  rows[s] <= generation
    BY DEF AtMostOncePerGeneration
  <2>1. IsFiniteSet(Owed(s)) /\ rows[s] + Cardinality(Owed(s)) <= generation
    BY DEF DuplicatesInv, OncePerRebalance
  <2>2. Cardinality(Owed(s)) \in Nat
    BY <2>1, FS_CardinalityType
  <2>3. rows[s] \in Nat /\ generation \in Nat
    BY DEF DuplicatesInv, TypeOK
  <2> QED BY <2>1, <2>2, <2>3
<1> QED BY DuplicatesInit, DuplicatesStep, <1>1, PTL DEF Spec

-----------------------------------------------------------------------------
(***************************************************************************)
(* Losses. What a worker has read of the partitions it has is stored or in *)
(* its batch, and its batch is empty when it commits.                      *)
(***************************************************************************)

Holds(w, s) == Places(buffer[w], s) # {}

ReadIsHeld == \A w \in Workers : \A s \in Slots :
    s[1] \in assigned[w] /\ s[2] < position[w][s[1]] => rows[s] > 0 \/ Holds(w, s)

EmptyWhileCommitting == \A w \in Workers : pc[w] = "commit" => buffer[w] = << >>

OnlyPublished == \A s \in Slots :
    rows[s] > 0 \/ (\E w \in Workers : Holds(w, s)) => s[2] < published[s[1]]

LossInv == AtLeastOnce /\ ReadIsHeld /\ EmptyWhileCommitting /\ OnlyPublished

LEMMA LossInit == Init => LossInv
<1> SUFFICES ASSUME Init PROVE LossInv
  OBVIOUS
<1>1. \A w \in Workers, s \in Slots : ~Holds(w, s)
  BY DEF Init, Holds, Places
<1>2. AtLeastOnce
  BY DEF Init, AtLeastOnce, Slots
<1>3. ReadIsHeld /\ EmptyWhileCommitting
  BY DEF Init, ReadIsHeld, EmptyWhileCommitting
<1>4. OnlyPublished
  BY <1>1 DEF Init, OnlyPublished
<1> QED BY <1>2, <1>3, <1>4 DEF LossInv

LEMMA PlacesInAppend ==
  ASSUME NEW batch \in Seq(Slots), NEW e \in Slots, NEW s
  PROVE  Places(Append(batch, e), s) # {} <=> Places(batch, s) # {} \/ s = e
<1>1. Len(Append(batch, e)) = Len(batch) + 1 /\ Len(batch) \in Nat
  OBVIOUS
<1>2. Append(batch, e)[Len(batch) + 1] = e
  OBVIOUS
<1>3. \A i \in 1 .. Len(batch) : Append(batch, e)[i] = batch[i]
  OBVIOUS
<1>4. ASSUME NEW i \in Places(batch, s)
      PROVE  i \in Places(Append(batch, e), s)
  BY <1>1, <1>3 DEF Places
<1>5. s = e => Len(batch) + 1 \in Places(Append(batch, e), s)
  BY <1>1, <1>2 DEF Places
<1>6. ASSUME NEW i \in Places(Append(batch, e), s), s # e
      PROVE  i \in Places(batch, s)
  BY <1>1, <1>2, <1>3, <1>6 DEF Places
<1> QED BY <1>4, <1>5, <1>6

LEMMA SlotType == \A s \in Slots : s[1] \in Partitions /\ s[2] \in 0 .. MaxLog - 1 /\ s[2] \in Nat
BY BoundsAssumption DEF Slots

LEMMA LossAfterPoll ==
  ASSUME TypeOK, LossInv, NEW w \in Workers, NEW p \in Partitions, Poll(w, p)
  PROVE  LossInv'
<1> DEFINE read == <<p, position[w][p]>>
<1>1. /\ UNCHANGED <<rows, published, committed, assigned, pc>>
      /\ pc[w] = "poll"
      /\ position[w][p] < published[p]
      /\ buffer' = [buffer EXCEPT ![w] = Append(@, read)]
      /\ position' = [position EXCEPT ![w][p] = @ + 1]
  BY DEF Poll, kafkaVars
<1>2. position[w][p] \in Nat /\ position[w][p] <= MaxLog - 1
  BY <1>1, BoundsAssumption DEF TypeOK
<1>3. read \in Slots
  BY <1>2, BoundsAssumption DEF Slots
<1>4. \A v \in Workers, s \in Slots : Holds(v, s)' <=> Holds(v, s) \/ (v = w /\ s = read)
  <2> SUFFICES ASSUME NEW v \in Workers, NEW s \in Slots
               PROVE  Holds(v, s)' <=> Holds(v, s) \/ (v = w /\ s = read)
    OBVIOUS
  <2>1. CASE v # w
    BY <1>1, <2>1 DEF Holds, TypeOK
  <2>2. CASE v = w
    <3>1. buffer'[w] = Append(buffer[w], read) /\ buffer[w] \in Seq(Slots)
      BY <1>1 DEF TypeOK
    <3> HIDE DEF read
    <3>2. Places(Append(buffer[w], read), s) # {} <=> Places(buffer[w], s) # {} \/ s = read
      BY <1>3, <3>1, PlacesInAppend
    <3> QED BY <2>2, <3>1, <3>2 DEF Holds
  <2> QED BY <2>1, <2>2
<1>5. AtLeastOnce'
  BY <1>1 DEF LossInv, AtLeastOnce
<1>6. ReadIsHeld'
  <2> SUFFICES ASSUME NEW v \in Workers, NEW s \in Slots,
                      s[1] \in assigned'[v], s[2] < position'[v][s[1]]
               PROVE  rows'[s] > 0 \/ Holds(v, s)'
    BY DEF ReadIsHeld
  <2>1. CASE v = w /\ s[1] = p
    <3>1. position'[w][p] = position[w][p] + 1
      BY <1>1 DEF TypeOK
    <3>2. s[2] < position[w][p] \/ s[2] = position[w][p]
      BY <1>2, <2>1, <3>1, SlotType
    <3>3. s = <<s[1], s[2]>>
      BY DEF Slots
    <3> QED BY <1>1, <1>4, <2>1, <3>2, <3>3 DEF LossInv, ReadIsHeld
  <2>2. CASE v # w \/ s[1] # p
    <3>1. position'[v][s[1]] = position[v][s[1]]
      BY <1>1, <2>2, SlotType DEF TypeOK
    <3> QED BY <1>1, <1>4, <3>1 DEF LossInv, ReadIsHeld
  <2> QED BY <2>1, <2>2
<1>7. EmptyWhileCommitting'
  BY <1>1 DEF LossInv, EmptyWhileCommitting, TypeOK
<1>8. OnlyPublished'
  BY <1>1, <1>4 DEF LossInv, OnlyPublished
<1> QED BY <1>5, <1>6, <1>7, <1>8 DEF LossInv

LEMMA LossAfterFlush ==
  ASSUME TypeOK, LossInv, NEW w \in Workers, Flush(w)
  PROVE  /\ LossInv'
         /\ \A s \in Slots : rows[s] > 0 => rows'[s] > 0
<1>1. /\ UNCHANGED <<published, committed, assigned, position>>
      /\ rows' = [s \in Slots |-> rows[s] + Copies(buffer[w], s)]
      /\ buffer' = [buffer EXCEPT ![w] = << >>]
      /\ pc' = [pc EXCEPT ![w] = "commit"]
  BY DEF Flush, kafkaVars
<1>2. \A s \in Slots : rows'[s] > 0 <=> rows[s] > 0 \/ Holds(w, s)
  <2> SUFFICES ASSUME NEW s \in Slots
               PROVE  rows'[s] > 0 <=> rows[s] > 0 \/ Holds(w, s)
    OBVIOUS
  <2>1. rows'[s] = rows[s] + Copies(buffer[w], s) /\ rows[s] \in Nat
    BY <1>1 DEF TypeOK
  <2>2. buffer[w] \in Seq(Slots)
    BY DEF TypeOK
  <2>3. Copies(buffer[w], s) \in Nat /\ (Holds(w, s) => Copies(buffer[w], s) > 0)
    BY <2>2, PlacesFinite DEF Holds
  <2>4. ~Holds(w, s) => Copies(buffer[w], s) = 0
    BY <2>2, PlacesFinite, FS_EmptySet DEF Holds
  <2> QED BY <2>1, <2>3, <2>4
<1>3. \A v \in Workers, s \in Slots : Holds(v, s)' <=> Holds(v, s) /\ v # w
  <2> SUFFICES ASSUME NEW v \in Workers, NEW s \in Slots
               PROVE  Holds(v, s)' <=> Holds(v, s) /\ v # w
    OBVIOUS
  <2>1. CASE v = w
    <3>1. buffer'[v] = << >>
      BY <1>1, <2>1 DEF TypeOK
    <3> QED BY <2>1, <3>1 DEF Holds, Places
  <2>2. CASE v # w
    BY <1>1, <2>2 DEF Holds, TypeOK
  <2> QED BY <2>1, <2>2
<1>4. AtLeastOnce'
  BY <1>1, <1>2 DEF LossInv, AtLeastOnce
<1>5. ReadIsHeld'
  BY <1>1, <1>2, <1>3 DEF LossInv, ReadIsHeld
<1>6. EmptyWhileCommitting'
  BY <1>1 DEF LossInv, EmptyWhileCommitting, TypeOK
<1>7. OnlyPublished'
  BY <1>1, <1>2, <1>3 DEF LossInv, OnlyPublished
<1> QED BY <1>2, <1>4, <1>5, <1>6, <1>7 DEF LossInv

LEMMA LossAfterCommit ==
  ASSUME TypeOK, LossInv, NEW w \in Workers, Commit(w)
  PROVE  LossInv'
<1>1. /\ UNCHANGED <<published, rows, assigned, position, buffer>>
      /\ pc[w] = "commit"
      /\ committed' = [p \in Partitions |-> IF p \in Advanced(w) THEN position[w][p]
                                                              ELSE committed[p]]
      /\ pc' = [pc EXCEPT ![w] = "poll"]
  BY DEF Commit
<1>2. \A v \in Workers, s \in Slots : Holds(v, s)' <=> Holds(v, s)
  BY <1>1 DEF Holds
<1>3. AtLeastOnce'
  <2> SUFFICES ASSUME NEW s \in Slots, s[2] < committed'[s[1]]
               PROVE  rows'[s] > 0
    BY DEF AtLeastOnce
  <2>1. CASE s[1] \in Advanced(w)
    <3>1. s[1] \in assigned[w] /\ s[2] < position[w][s[1]]
      BY <1>1, <2>1, SlotType DEF Advanced
    <3>2. buffer[w] = << >>
      BY <1>1 DEF LossInv, EmptyWhileCommitting
    <3>3. ~Holds(w, s)
      BY <3>2 DEF Holds, Places
    <3> QED BY <1>1, <3>1, <3>3 DEF LossInv, ReadIsHeld
  <2>2. CASE s[1] \notin Advanced(w)
    BY <1>1, <2>2, SlotType DEF LossInv, AtLeastOnce
  <2> QED BY <2>1, <2>2
<1>4. ReadIsHeld'
  BY <1>1, <1>2 DEF LossInv, ReadIsHeld
<1>5. EmptyWhileCommitting'
  BY <1>1 DEF LossInv, EmptyWhileCommitting, TypeOK
<1>6. OnlyPublished'
  BY <1>1, <1>2 DEF LossInv, OnlyPublished
<1> QED BY <1>3, <1>4, <1>5, <1>6 DEF LossInv

LEMMA LossStep == TypeOK /\ LossInv /\ [Next]_vars => LossInv'
<1> SUFFICES ASSUME TypeOK, LossInv, [Next]_vars
             PROVE  LossInv'
  OBVIOUS
<1> USE DEF kafkaVars, groupVars, workerVars
<1>1. ASSUME NEW p \in Partitions, Publish(p)
      PROVE  LossInv'
  <2>1. /\ UNCHANGED <<committed, rows, pc, assigned, position, buffer>>
        /\ published' = [published EXCEPT ![p] = @ + 1]
    BY <1>1 DEF Publish
  <2>2. \A v \in Workers, s \in Slots : Holds(v, s)' <=> Holds(v, s)
    BY <2>1 DEF Holds
  <2>3. AtLeastOnce' /\ ReadIsHeld' /\ EmptyWhileCommitting'
    BY <2>1, <2>2 DEF LossInv, AtLeastOnce, ReadIsHeld, EmptyWhileCommitting
  <2>4. OnlyPublished'
    <3> SUFFICES ASSUME NEW s \in Slots, rows[s] > 0 \/ (\E w \in Workers : Holds(w, s))
                 PROVE  s[2] < published'[s[1]]
      BY <2>1, <2>2 DEF OnlyPublished
    <3>1. s[2] < published[s[1]]
      BY DEF LossInv, OnlyPublished
    <3>2. published[s[1]] \in Nat /\ published'[s[1]] \in {published[s[1]], published[s[1]] + 1}
      BY <2>1, SlotType, BoundsAssumption DEF TypeOK
    <3> QED BY <3>1, <3>2, SlotType
  <2> QED BY <2>3, <2>4 DEF LossInv
<1>2. CASE UNCHANGED <<published, committed, rows, pc, assigned, position, buffer>>
  <2>1. \A v \in Workers, s \in Slots : Holds(v, s)' <=> Holds(v, s)
    BY <1>2 DEF Holds
  <2> QED BY <1>2, <2>1
          DEF LossInv, AtLeastOnce, ReadIsHeld, EmptyWhileCommitting, OnlyPublished
<1>3. ASSUME NEW w \in Workers, Revoke(w) \/ Dies(w)
      PROVE  LossInv'
  <2>1. /\ UNCHANGED <<published, committed, rows, position>>
        /\ assigned' = [assigned EXCEPT ![w] = {}]
        /\ \/ UNCHANGED <<buffer, pc>>
           \/ /\ buffer' = [buffer EXCEPT ![w] = << >>]
              /\ pc' = [pc EXCEPT ![w] = "dead"]
    BY <1>3 DEF Revoke, Dies
  <2>2. \A v \in Workers, s \in Slots : Holds(v, s)' => Holds(v, s)
    <3> SUFFICES ASSUME NEW v \in Workers, NEW s \in Slots, Holds(v, s)'
                 PROVE  Holds(v, s)
      OBVIOUS
    <3>1. buffer'[v] = buffer[v] \/ buffer'[v] = << >>
      BY <2>1 DEF TypeOK
    <3> QED BY <3>1 DEF Holds, Places
  <2>3. \A v \in Workers, s \in Slots : Holds(v, s) => Holds(v, s)' \/ assigned'[v] = {}
    <3> SUFFICES ASSUME NEW v \in Workers, NEW s \in Slots, Holds(v, s), assigned'[v] # {}
                 PROVE  Holds(v, s)'
      OBVIOUS
    <3>1. v # w
      BY <2>1 DEF TypeOK
    <3>2. buffer'[v] = buffer[v]
      BY <2>1, <3>1 DEF TypeOK
    <3> QED BY <3>2 DEF Holds
  <2>4. \A v \in Workers : assigned'[v] \subseteq assigned[v]
    BY <2>1 DEF TypeOK
  <2>5. AtLeastOnce'
    BY <2>1 DEF LossInv, AtLeastOnce
  <2>6. ReadIsHeld'
    BY <2>1, <2>3, <2>4 DEF LossInv, ReadIsHeld
  <2>7. EmptyWhileCommitting'
    BY <2>1 DEF LossInv, EmptyWhileCommitting, TypeOK
  <2>8. OnlyPublished'
    BY <2>1, <2>2 DEF LossInv, OnlyPublished
  <2> QED BY <2>5, <2>6, <2>7, <2>8 DEF LossInv
<1>4. ASSUME NEW w \in Workers, Join(w)
      PROVE  LossInv'
  <2>1. /\ UNCHANGED <<published, committed, rows, pc, buffer>>
        /\ assigned' = [assigned EXCEPT ![w] = target[w]]
        /\ position' = [position EXCEPT ![w] = committed]
    BY <1>4 DEF Join
  <2>2. \A v \in Workers, s \in Slots : Holds(v, s)' <=> Holds(v, s)
    BY <2>1 DEF Holds
  <2>3. ReadIsHeld'
    <3> SUFFICES ASSUME NEW v \in Workers, NEW s \in Slots,
                        s[1] \in assigned'[v], s[2] < position'[v][s[1]]
                 PROVE  rows[s] > 0 \/ Holds(v, s)
      BY <2>1, <2>2 DEF ReadIsHeld
    <3>1. CASE v = w
      <4>1. position'[v] = committed
        BY <2>1, <3>1 DEF TypeOK
      <4> QED BY <4>1 DEF LossInv, AtLeastOnce
    <3>2. CASE v # w
      BY <2>1, <3>2 DEF LossInv, ReadIsHeld, TypeOK
    <3> QED BY <3>1, <3>2
  <2>4. AtLeastOnce' /\ EmptyWhileCommitting' /\ OnlyPublished'
    BY <2>1, <2>2 DEF LossInv, AtLeastOnce, EmptyWhileCommitting, OnlyPublished
  <2> QED BY <2>3, <2>4 DEF LossInv
<1>5. ASSUME NEW w \in Workers, Restart(w)
      PROVE  LossInv'
  <2>1. /\ UNCHANGED <<published, committed, rows, assigned, position, buffer>>
        /\ pc' = [pc EXCEPT ![w] = "poll"]
    BY <1>5 DEF Restart
  <2>2. \A v \in Workers, s \in Slots : Holds(v, s)' <=> Holds(v, s)
    BY <2>1 DEF Holds
  <2>3. EmptyWhileCommitting'
    BY <2>1 DEF LossInv, EmptyWhileCommitting, TypeOK
  <2> QED BY <2>1, <2>2, <2>3 DEF LossInv, AtLeastOnce, ReadIsHeld, OnlyPublished
<1>6. ASSUME NEW w \in Workers, NEW p \in Partitions, Poll(w, p)
      PROVE  LossInv'
  BY <1>6, LossAfterPoll
<1>7. ASSUME NEW w \in Workers, Flush(w)
      PROVE  LossInv'
  BY <1>7, LossAfterFlush
<1>8. ASSUME NEW w \in Workers, Commit(w)
      PROVE  LossInv'
  BY <1>8, LossAfterCommit
<1>9. CASE Rebalance
  BY <1>2, <1>9 DEF Rebalance
<1>10. CASE UNCHANGED vars
  BY <1>2, <1>10 DEF vars
<1> QED
  BY <1>1, <1>3, <1>4, <1>5, <1>6, <1>7, <1>8, <1>9, <1>10
     DEF Next, PollThread, CommitRaises, Crash

\* A committed click has a row, whichever worker committed it and whoever has had its
\* partition in between.
THEOREM NoClickLost == Spec => []AtLeastOnce
<1>1. TypeOK /\ LossInv /\ [Next]_vars => (TypeOK /\ LossInv)'
  BY TypeStep, LossStep
<1>2. LossInv => AtLeastOnce
  BY DEF LossInv
<1> QED BY TypeInit, LossInit, <1>1, <1>2, PTL DEF Spec

-----------------------------------------------------------------------------
(***************************************************************************)
(* The group implements ClickDelivery.                                     *)
(***************************************************************************)

LEMMA RefinesInit == Init => Delivery!DeliveryInit
<1> SUFFICES ASSUME Init PROVE Delivery!DeliveryInit
  OBVIOUS
<1>1. {s \in Slots : rows[s] > 0} = {}
  BY DEF Init
<1> QED BY <1>1 DEF Init, Delivery!DeliveryInit

LEMMA RefinesStep ==
  ASSUME TypeOK, LossInv, TypeOK', LossInv', [Next]_vars
  PROVE  [Delivery!DeliveryNext]_Delivery!deliveryVars
<1> USE DEF kafkaVars, groupVars, workerVars
<1>1. CASE UNCHANGED <<published, rows, committed>>
  BY <1>1 DEF Delivery!deliveryVars
<1>2. ASSUME NEW p \in Partitions, Publish(p)
      PROVE  Delivery!PublishClick(p)
  BY <1>2 DEF Publish, Delivery!PublishClick
<1>3. ASSUME NEW w \in Workers, Flush(w)
      PROVE  Delivery!DeliverBatch
  <2>1. UNCHANGED <<published, committed>>
    BY <1>3 DEF Flush
  <2>2. {s \in Slots : rows[s] > 0} \subseteq {s \in Slots : rows'[s] > 0}
    BY <1>3, LossAfterFlush
  <2>3. {s \in Slots : rows'[s] > 0} \in SUBSET Delivery!Clicks
    BY <2>1 DEF LossInv, OnlyPublished, Delivery!Clicks, Slots
  <2> QED BY <2>1, <2>2, <2>3 DEF Delivery!DeliverBatch
<1>4. ASSUME NEW w \in Workers, Commit(w)
      PROVE  Delivery!Acknowledge
  <2>1. /\ UNCHANGED <<published, rows>>
        /\ committed' = [p \in Partitions |-> IF p \in Advanced(w) THEN position[w][p]
                                                                ELSE committed[p]]
    BY <1>4 DEF Commit
  <2>2. \A p \in Partitions : committed[p] <= committed'[p]
    BY <2>1, BoundsAssumption DEF Advanced, TypeOK
  <2>3. \A p \in Partitions : \A o \in 0 .. committed'[p] - 1 :
           <<p, o>> \in {s \in Slots : rows[s] > 0}
    <3> SUFFICES ASSUME NEW p \in Partitions, NEW o \in 0 .. committed'[p] - 1
                 PROVE  <<p, o>> \in Slots /\ rows[<<p, o>>] > 0
      OBVIOUS
    <3>1. committed'[p] \in 0 .. MaxLog
      BY DEF TypeOK
    <3>2. <<p, o>> \in Slots /\ o < committed'[p]
      BY <3>1, BoundsAssumption DEF Slots
    <3> QED BY <2>1, <3>2 DEF LossInv, AtLeastOnce
  <2>4. committed' \in [Partitions -> 0 .. MaxLog]
    BY DEF TypeOK
  <2> QED BY <2>1, <2>2, <2>3, <2>4 DEF Delivery!Acknowledge
<1>5. CASE Rebalance
  BY <1>1, <1>5 DEF Rebalance
<1>6. ASSUME NEW w \in Workers,
             \/ Revoke(w) \/ Join(w) \/ Dies(w) \/ Restart(w)
             \/ \E p \in Partitions : Poll(w, p)
      PROVE  UNCHANGED <<published, rows, committed>>
  BY <1>6 DEF Revoke, Join, Dies, Restart, Poll
<1>7. CASE UNCHANGED vars
  BY <1>1, <1>7 DEF vars
<1> QED
  BY <1>1, <1>2, <1>3, <1>4, <1>5, <1>6, <1>7
     DEF Next, PollThread, CommitRaises, Crash, Delivery!DeliveryNext

\* Whatever the group does with its partitions, what it does to the topic and the table
\* is the at-least-once delivery that ClickDelivery describes.
THEOREM GroupImplementsDelivery == Spec => ImplementsDelivery
<1>1. TypeOK /\ LossInv /\ [Next]_vars => (TypeOK /\ LossInv)'
  BY TypeStep, LossStep
<1>2. TypeOK /\ LossInv /\ (TypeOK /\ LossInv)' /\ [Next]_vars
         => [Delivery!DeliveryNext]_Delivery!deliveryVars
  BY RefinesStep
<1> QED
  BY TypeInit, LossInit, RefinesInit, <1>1, <1>2, PTL
     DEF Spec, ImplementsDelivery, Delivery!DeliverySpec
=============================================================================
