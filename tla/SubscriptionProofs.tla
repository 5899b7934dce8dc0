------------------------- MODULE SubscriptionProofs -------------------------
(***************************************************************************)
(* Machine-checked proofs about Subscription: its types and                *)
(* DeliveredOrCounted, for every ring, every number of receivers, accounts *)
(* and messages, and for each plant.                                       *)
(***************************************************************************)
EXTENDS Subscription, SequenceTheorems, FiniteSetTheorems, TLAPS

(***************************************************************************)
(* The inductive invariant, receiver by receiver.                          *)
(***************************************************************************)

\* what a receiver has passed lies between where it began and the tail
Bounds(r) ==
  IF Open(r)
  THEN /\ start[r] \in 1..next[r]
       /\ next[r] \in 1..(Len(log) + 1)
       /\ skipped[r] \subseteq start[r]..(next[r] - 1)
  ELSE got[r] = <<>> /\ skipped[r] = {} /\ lag_told[r] = 0

\* the positions it passed, did not miss and was to forward
Due(r) ==
  {p \in (start[r]..(next[r] - 1)) \ skipped[r] :
     Filtered => log[p] \in {account[r], "untagged", "stop"}}

Delivered(r) ==
  Open(r) =>
    /\ {got[r][k] : k \in 1..Len(got[r])} = Due(r)
    /\ \A j, k \in 1..Len(got[r]) : j < k => got[r][j] < got[r][k]
    /\ lag_told[r] = Cardinality(skipped[r])

ReceiverInv(r) == Bounds(r) /\ Delivered(r)

IInv == TypeOK /\ \A r \in Receiver : ReceiverInv(r)

-----------------------------------------------------------------------------
(* The constants and variables in the forms the steps need.                *)
LEMMA Facts ==
  ASSUME TypeOK
  PROVE  /\ Len(log) \in Nat
         /\ Oldest \in Nat \ {0}
         /\ \A r \in Receiver : /\ next[r] \in Nat /\ start[r] \in Nat
                                /\ Len(got[r]) \in Nat
                                /\ got[r] \in Seq(Nat)
                                /\ lag_told[r] \in Nat
<1>1. Len(log) \in Nat
  BY LenProperties DEF TypeOK
<1>2. Oldest \in Nat \ {0}
  BY <1>1, SubscriptionAssumption DEF Oldest
<1>3. ASSUME NEW r \in Receiver
      PROVE  got[r] \in Seq(Nat) /\ Len(got[r]) \in Nat
  BY LenProperties DEF TypeOK
<1> QED
  BY <1>1, <1>2, <1>3 DEF TypeOK

(* A receiver that a step leaves alone keeps its invariant, also when the  *)
(* log grows.                                                              *)
LEMMA LeftAlone ==
  ASSUME IInv, NEW r \in Receiver,
         log' = log \/ \E m \in Message : log' = Append(log, m),
         next'[r] = next[r], account'[r] = account[r], got'[r] = got[r],
         lag_told'[r] = lag_told[r], start'[r] = start[r],
         skipped'[r] = skipped[r]
  PROVE  ReceiverInv(r)'
<1> USE Facts DEF IInv, ReceiverInv
<1>1. /\ Len(log') \in Nat /\ Len(log') >= Len(log)
      /\ \A p \in 1..Len(log) : log'[p] = log[p]
  <2>1. CASE log' = log
    BY <2>1
  <2>2. ASSUME NEW m \in Message, log' = Append(log, m)
        PROVE  /\ Len(log') = Len(log) + 1
               /\ \A p \in 1..Len(log) : log'[p] = log[p]
    BY <2>2, AppendProperties DEF TypeOK
  <2> QED
    BY <2>1, <2>2
<1>2. Bounds(r)'
  BY <1>1 DEF Bounds, Open
<1>3. Open(r) => Due(r)' = Due(r)
  <2> SUFFICES ASSUME Open(r) PROVE Due(r)' = Due(r)
    OBVIOUS
  <2>1. \A p \in start[r]..(next[r] - 1) : log'[p] = log[p]
    BY <1>1 DEF Bounds
  <2> QED
    BY <2>1 DEF Due, Filtered
<1>4. Delivered(r)'
  BY <1>3 DEF Delivered, Open
<1> QED
  BY <1>2, <1>4

-----------------------------------------------------------------------------
LEMMA InitCorrect == Init => IInv
<1> SUFFICES ASSUME Init PROVE IInv
  OBVIOUS
<1>1. TypeOK
  <2>1. (CHOOSE a \in Account : TRUE) \in Account
    BY SubscriptionAssumption
  <2>2. <<>> \in Seq(Message) /\ <<>> \in Seq(Nat)
    BY EmptySeq
  <2>3. {actor_runs, plant_held, disconnected} \subseteq BOOLEAN
    BY Zenon DEF Init
  <2> QED
    BY <2>1, <2>2, <2>3 DEF Init, TypeOK
<1>2. ASSUME NEW r \in Receiver PROVE ReceiverInv(r)
  BY <1>2 DEF Init, ReceiverInv, Bounds, Delivered, Open
<1> QED
  BY <1>1, <1>2 DEF IInv

-----------------------------------------------------------------------------
(* The actions that open a receiver, publish, drop or receive.  Each keeps *)
(* the types, and the invariant of the receiver it is about.               *)

LEMMA SubscribeKeeps ==
  ASSUME IInv, NEW r \in Receiver, NEW a \in Account, Subscribe(r, a),
         handle_held' \in [Receiver -> BOOLEAN]
  PROVE  IInv'
<1> USE Facts DEF IInv
<1>1. TypeOK'
  <2>1. {actor_runs, plant_held, disconnected}' \subseteq BOOLEAN
    BY Zenon DEF Subscribe, TypeOK
  <2>2. /\ next' \in [Receiver -> Nat] /\ start' \in [Receiver -> Nat]
        /\ account' \in [Receiver -> Account]
    BY DEF Subscribe, TypeOK
  <2> QED
    BY <2>1, <2>2 DEF Subscribe, TypeOK
<1>2. ReceiverInv(r)'
  <2>1. /\ next'[r] = Len(log) + 1 /\ start'[r] = Len(log) + 1
        /\ log' = log /\ got'[r] = <<>> /\ skipped'[r] = {}
        /\ lag_told'[r] = 0
    BY DEF Subscribe, TypeOK, ReceiverInv, Bounds
  <2>2. Bounds(r)'
    BY <2>1 DEF Bounds, Open
  <2>3. Due(r)' = {}
    BY <2>1 DEF Due
  <2>4. Cardinality(skipped'[r]) = 0 /\ Len(got'[r]) = 0
    BY <2>1, FS_EmptySet
  <2> QED
    BY <2>1, <2>2, <2>3, <2>4 DEF ReceiverInv, Delivered
<1>3. ASSUME NEW s \in Receiver, s # r PROVE ReceiverInv(s)'
  BY <1>3, LeftAlone DEF Subscribe, TypeOK
<1> QED
  BY <1>1, <1>2, <1>3

LEMMA PublishKeeps ==
  ASSUME IInv, NEW m \in Message, Publish(m), UNCHANGED receivers,
         {actor_runs', plant_held', disconnected'} \subseteq BOOLEAN,
         handle_held' \in [Receiver -> BOOLEAN]
  PROVE  IInv'
<1> USE DEF IInv
<1>1. log' = Append(log, m) /\ log' \in Seq(Message)
  BY AppendProperties DEF Publish, TypeOK
<1>2. TypeOK'
  BY <1>1 DEF TypeOK, receivers
<1>3. ASSUME NEW s \in Receiver PROVE ReceiverInv(s)'
  BY <1>1, LeftAlone DEF receivers
<1> QED
  BY <1>2, <1>3

LEMMA DropKeeps ==
  ASSUME IInv, UNCHANGED <<log, receivers>>,
         {actor_runs', plant_held', disconnected'} \subseteq BOOLEAN,
         handle_held' \in [Receiver -> BOOLEAN]
  PROVE  IInv'
<1> USE DEF IInv
<1>1. TypeOK'
  BY DEF TypeOK, receivers
<1>2. ASSUME NEW s \in Receiver PROVE ReceiverInv(s)'
  BY LeftAlone DEF receivers
<1> QED
  BY <1>1, <1>2

(* The positions a receiver missed until now and those it misses now are   *)
(* different ones.                                                         *)
LEMMA LagKeeps ==
  ASSUME IInv, NEW r \in Receiver, Lag(r)
  PROVE  IInv'
<1> USE Facts DEF IInv
<1> DEFINE missed == next[r]..(Oldest - 1)
<1>1. /\ Open(r) /\ next[r] < Oldest /\ next[r] \in Nat \ {0}
      /\ log' = log /\ got'[r] = got[r] /\ start'[r] = start[r]
      /\ account'[r] = account[r]
      /\ next'[r] = Oldest
      /\ skipped'[r] = skipped[r] \cup missed
      /\ lag_told'[r] = lag_told[r] + (Oldest - next[r])
  BY DEF Lag, TypeOK, Open
<1>2. TypeOK'
  <2>1. skipped' \in [Receiver -> SUBSET Nat]
    BY <1>1 DEF Lag, TypeOK
  <2>2. lag_told' \in [Receiver -> Nat]
    BY <1>1 DEF Lag, TypeOK
  <2>3. next' \in [Receiver -> Nat]
    BY <1>1 DEF Lag, TypeOK
  <2> QED
    BY <2>1, <2>2, <2>3 DEF Lag, TypeOK, senders
<1>3. Bounds(r)'
  <2>1. Oldest \in 1..(Len(log) + 1)
    BY SubscriptionAssumption DEF Oldest
  <2>2. start[r] \in 1..next[r] /\ skipped[r] \subseteq start[r]..(next[r] - 1)
    BY <1>1 DEF ReceiverInv, Bounds
  <2>3. start'[r] \in 1..next'[r] /\ next'[r] # 0
    BY <1>1, <2>1, <2>2
  <2>4. missed \subseteq start[r]..(Oldest - 1)
    BY <1>1, <2>2
  <2>5. start[r]..(next[r] - 1) \subseteq start[r]..(Oldest - 1)
    BY <1>1, <2>2
  <2> HIDE DEF missed
  <2>6. skipped'[r] \subseteq start'[r]..(next'[r] - 1)
    BY <1>1, <2>2, <2>4, <2>5
  <2> QED
    BY <1>1, <2>1, <2>3, <2>6 DEF Bounds, Open
<1>4. Due(r)' = Due(r)
  <2>1. (start[r]..(Oldest - 1)) \ (skipped[r] \cup missed)
          = (start[r]..(next[r] - 1)) \ skipped[r]
    BY <1>1 DEF ReceiverInv, Bounds
  <2> QED
    BY <1>1, <2>1 DEF Due, Filtered
<1>5. Cardinality(skipped'[r]) = Cardinality(skipped[r]) + (Oldest - next[r])
  <2>0. /\ start[r] \in Int /\ next[r] \in Int /\ next[r] - 1 \in Int
        /\ Oldest - 1 \in Int /\ next[r] <= Oldest - 1
        /\ (Oldest - 1) - next[r] + 1 = Oldest - next[r]
    BY <1>1
  <2>1. IsFiniteSet(skipped[r])
    <3>1. IsFiniteSet(start[r]..(next[r] - 1))
      BY <2>0, FS_Interval
    <3>2. skipped[r] \subseteq start[r]..(next[r] - 1)
      BY <1>1 DEF ReceiverInv, Bounds
    <3> QED
      BY <3>1, <3>2, FS_Subset
  <2>2. IsFiniteSet(missed) /\ Cardinality(missed) = Oldest - next[r]
    BY <2>0, FS_Interval
  <2>3. skipped[r] \cap missed = {}
    BY <1>1 DEF ReceiverInv, Bounds
  <2>4. Cardinality(skipped[r]) \in Nat /\ Cardinality({}) = 0
    BY <2>1, FS_CardinalityType, FS_EmptySet
  <2> HIDE DEF missed
  <2>5. Cardinality(skipped[r] \cup missed)
          = Cardinality(skipped[r]) + Cardinality(missed)
              - Cardinality(skipped[r] \cap missed)
    BY <2>1, <2>2, FS_Union
  <2>6. skipped'[r] = skipped[r] \cup missed
    BY <1>1 DEF missed
  <2>7. Cardinality(skipped[r] \cap missed) = 0
    BY <2>3, <2>4, Zenon
  <2>8. Oldest - next[r] \in Int
    BY <2>0
  <2>9. Cardinality(skipped[r] \cup missed)
          = Cardinality(skipped[r]) + (Oldest - next[r])
    BY <2>2, <2>4, <2>5, <2>7, <2>8
  <2> QED
    BY <2>6, <2>9, Zenon
<1>6. Delivered(r)'
  <2> HIDE DEF missed
  <2> QED
    BY <1>1, <1>4, <1>5 DEF ReceiverInv, Delivered
<1>7. ASSUME NEW s \in Receiver, s # r PROVE ReceiverInv(s)'
  BY <1>7, LeftAlone DEF Lag, TypeOK
<1> QED
  BY <1>2, <1>3, <1>6, <1>7 DEF ReceiverInv

(* The position taken is later than all that were handed out before.       *)
LEMMA TakeKeeps ==
  ASSUME IInv, NEW r \in Receiver, Take(r)
  PROVE  IInv'
<1> USE Facts DEF IInv
<1>1. /\ Open(r) /\ next[r] \in Nat \ {0} /\ next[r] <= Len(log)
      /\ log' = log /\ start'[r] = start[r] /\ account'[r] = account[r]
      /\ next'[r] = next[r] + 1
      /\ skipped'[r] = skipped[r] /\ lag_told'[r] = lag_told[r]
      /\ got'[r] = IF should_forward(r, log[next[r]])
                   THEN Append(got[r], next[r]) ELSE got[r]
  BY DEF Take, TypeOK, Open
<1>2. TypeOK'
  <2>1. Append(got[r], next[r]) \in Seq(Nat)
    BY <1>1, AppendProperties
  <2>2. got' \in [Receiver -> Seq(Nat)]
    BY <2>1 DEF Take, TypeOK
  <2>3. next' \in [Receiver -> Nat]
    BY <1>1 DEF Take, TypeOK
  <2> QED
    BY <2>2, <2>3 DEF Take, TypeOK, senders
<1>3. Bounds(r)'
  <2>1. start[r] \in 1..next[r] /\ skipped[r] \subseteq start[r]..(next[r] - 1)
    BY <1>1 DEF ReceiverInv, Bounds
  <2>2. /\ start'[r] \in 1..next'[r] /\ next'[r] # 0
        /\ next'[r] \in 1..(Len(log') + 1)
    BY <1>1, <2>1
  <2>3. start[r]..(next[r] - 1) \subseteq start[r]..next[r]
    BY <1>1, <2>1
  <2>4. next'[r] - 1 = next[r]
    BY <1>1
  <2>5. skipped'[r] \subseteq start'[r]..(next'[r] - 1)
    BY <1>1, <2>1, <2>3, <2>4
  <2> QED
    BY <2>2, <2>5 DEF Bounds, Open
<1>4. Due(r)' = IF should_forward(r, log[next[r]])
                THEN Due(r) \cup {next[r]} ELSE Due(r)
  <2>1. (start[r]..((next[r] + 1) - 1)) \ skipped[r]
          = ((start[r]..(next[r] - 1)) \ skipped[r]) \cup {next[r]}
    BY <1>1 DEF ReceiverInv, Bounds
  <2>2. should_forward(r, log[next[r]])
          <=> (Filtered => log[next[r]] \in {account[r], "untagged", "stop"})
    BY DEF should_forward, Untagged
  <2> QED
    BY <1>1, <2>1, <2>2 DEF Due, Filtered
<1>5. Delivered(r)'
  <2>1. CASE ~should_forward(r, log[next[r]])
    BY <1>1, <1>4, <2>1 DEF ReceiverInv, Delivered
  <2>2. CASE should_forward(r, log[next[r]])
    <3> DEFINE old == got[r]  p == next[r]
    <3>1. /\ got'[r] = Append(old, p) /\ old \in Seq(Nat) /\ p \in Nat
          /\ Len(Append(old, p)) = Len(old) + 1 /\ Len(old) \in Nat
          /\ \A k \in 1..Len(old) : Append(old, p)[k] = old[k]
          /\ Append(old, p)[Len(old) + 1] = p
      BY <1>1, <2>2, AppendProperties
    <3>2. /\ {old[k] : k \in 1..Len(old)} = Due(r)
          /\ \A j, k \in 1..Len(old) : j < k => old[j] < old[k]
          /\ lag_told[r] = Cardinality(skipped[r])
      BY <1>1 DEF ReceiverInv, Delivered
    <3>3. \A k \in 1..Len(old) : old[k] \in Due(r)
      BY <3>2
    <3>4. \A k \in 1..Len(old) : old[k] < p /\ old[k] \in Nat
      BY <3>3, <1>1 DEF Due
    <3> HIDE DEF old, p
    <3>5. \A k \in 1..Len(got'[r]) :
            IF k = Len(old) + 1 THEN got'[r][k] = p
            ELSE k \in 1..Len(old) /\ got'[r][k] = old[k]
      BY <3>1
    <3>6. {got'[r][k] : k \in 1..Len(got'[r])} = Due(r) \cup {p}
      <4>1. ASSUME NEW k \in 1..Len(got'[r])
            PROVE  got'[r][k] \in Due(r) \cup {p}
        BY <3>3, <3>5
      <4>2. p \in {got'[r][k] : k \in 1..Len(got'[r])}
        BY <3>1
      <4>3. ASSUME NEW q \in Due(r)
            PROVE  q \in {got'[r][k] : k \in 1..Len(got'[r])}
        <5>1. PICK k \in 1..Len(old) : old[k] = q
          BY <3>2
        <5>2. k \in 1..Len(got'[r]) /\ got'[r][k] = q
          BY <3>1, <5>1
        <5> QED
          BY <5>2
      <4> QED
        BY <4>1, <4>2, <4>3
    <3>7. \A j, k \in 1..Len(got'[r]) : j < k => got'[r][j] < got'[r][k]
      <4> SUFFICES ASSUME NEW j \in 1..Len(got'[r]), NEW k \in 1..Len(got'[r]),
                          j < k
                   PROVE  got'[r][j] < got'[r][k]
        OBVIOUS
      <4>1. j \in 1..Len(old) /\ got'[r][j] = old[j]
        BY <3>1, <3>5
      <4>2. CASE k = Len(old) + 1
        BY <4>1, <4>2, <3>4, <3>5
      <4>3. CASE k \in 1..Len(old)
        BY <4>1, <4>3, <3>1, <3>2, <3>5
      <4> QED
        BY <4>2, <4>3, <3>5
    <3> QED
      BY <1>1, <1>4, <2>2, <3>2, <3>6, <3>7 DEF Delivered, p
  <2> QED
    BY <2>1, <2>2
<1>6. ASSUME NEW s \in Receiver, s # r PROVE ReceiverInv(s)'
  BY <1>6, LeftAlone DEF Take, TypeOK
<1> QED
  BY <1>2, <1>3, <1>5, <1>6 DEF ReceiverInv

-----------------------------------------------------------------------------
LEMMA StepKeeps ==
  ASSUME IInv, [Next]_vars
  PROVE  IInv'
<1> USE DEF IInv
<1>0. /\ {actor_runs, plant_held, disconnected} \subseteq BOOLEAN
      /\ handle_held \in [Receiver -> BOOLEAN]
  BY DEF TypeOK
<1>1. ASSUME NEW r \in Receiver, NEW a \in Account, get_handle(r, a)
      PROVE  IInv'
  BY <1>0, <1>1, SubscribeKeeps DEF get_handle
<1>2. ASSUME NEW r \in Receiver, NEW s \in Receiver, CloneHandle(r, s)
      PROVE  IInv'
  <2>1. account[s] \in Account /\ Subscribe(r, account[s])
    BY <1>2 DEF CloneHandle, TypeOK
  <2> QED
    BY <1>0, <1>2, <2>1, SubscribeKeeps DEF CloneHandle
<1>3. ASSUME NEW r \in Receiver, NEW s \in Receiver, resubscribe(r, s)
      PROVE  IInv'
  <2>1. account[s] \in Account /\ Subscribe(r, account[s])
    BY <1>3 DEF resubscribe, TypeOK
  <2> QED
    BY <1>0, <1>3, <2>1, SubscribeKeeps DEF resubscribe
<1>4. ASSUME NEW r \in Receiver, DropHandle(r)
      PROVE  IInv'
  BY <1>0, <1>4, DropKeeps DEF DropHandle
<1>5. ASSUME NEW r \in Receiver, DisconnectPublishes(r)
      PROVE  IInv'
  <2>1. {actor_runs', plant_held', disconnected'} \subseteq BOOLEAN
    BY <1>0, <1>5, Zenon DEF DisconnectPublishes
  <2> QED
    BY <1>0, <1>5, <2>1, PublishKeeps DEF DisconnectPublishes, Message, Untagged
<1>6. ASSUME NEW r \in Receiver, recv(r)
      PROVE  IInv'
  <2>1. CASE SeeClosed(r)
    <3>1. TypeOK'
      BY <2>1 DEF SeeClosed, TypeOK, senders
    <3>2. ASSUME NEW s \in Receiver PROVE ReceiverInv(s)'
      BY <2>1, LeftAlone DEF SeeClosed
    <3> QED
      BY <3>1, <3>2
  <2> QED
    BY <1>6, <2>1, LagKeeps, TakeKeeps DEF recv
<1>7. CASE DropPlant
  <2>1. {actor_runs', plant_held', disconnected'} \subseteq BOOLEAN
    BY <1>0, <1>7, Zenon DEF DropPlant
  <2> QED
    BY <1>0, <1>7, <2>1, DropKeeps DEF DropPlant
<1>8. ASSUME NEW m \in Account \cup {"untagged"}, ActorPublishes(m)
      PROVE  IInv'
  BY <1>0, <1>8, PublishKeeps DEF ActorPublishes, senders, Message, Untagged
<1>9. CASE ActorStops
  <2>1. {actor_runs', plant_held', disconnected'} \subseteq BOOLEAN
    BY <1>0, <1>9, Zenon DEF ActorStops
  <2> QED
    BY <1>0, <1>9, <2>1, PublishKeeps DEF ActorStops, Message, Untagged
<1>10. CASE ActorStopsSilently
  <2>1. {actor_runs', plant_held', disconnected'} \subseteq BOOLEAN
    BY <1>0, <1>10, Zenon DEF ActorStopsSilently
  <2> QED
    BY <1>0, <1>10, <2>1, DropKeeps DEF ActorStopsSilently
<1>11. CASE UNCHANGED vars
  BY <1>0, <1>11, DropKeeps DEF vars, senders
<1> QED
  BY <1>1, <1>2, <1>3, <1>4, <1>5, <1>6, <1>7, <1>8, <1>9, <1>10, <1>11 DEF Next

LEMMA Invariance == Spec => []IInv
<1>1. IInv /\ [Next]_vars => IInv'
  BY StepKeeps
<1> QED
  BY <1>1, InitCorrect, PTL DEF Spec

-----------------------------------------------------------------------------
(* Every variable of Subscription keeps its type: above all, the count of  *)
(* Lagged never runs backwards.                                            *)
THEOREM TypeCorrect == Spec => []TypeOK
<1>1. IInv => TypeOK
  BY DEF IInv
<1> QED
  BY <1>1, Invariance, PTL

(* A consumer gets each message for it once and in order, none of another  *)
(* account, and misses only what Lagged counted (SubscriptionFilter::recv).*)
THEOREM DeliveryCorrect == Spec => []DeliveredOrCounted
<1>1. IInv => DeliveredOrCounted
  BY DEF IInv, ReceiverInv, Delivered, Due, DeliveredOrCounted
<1> QED
  BY <1>1, Invariance, PTL

=============================================================================
