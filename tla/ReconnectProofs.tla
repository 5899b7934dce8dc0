-------------------------- MODULE ReconnectProofs --------------------------
(***************************************************************************)
(* Machine-checked proofs about Reconnect: its types and LossIsHeard, for  *)
(* every set of strategies, every ring and every number of faults.         *)
(***************************************************************************)
EXTENDS Reconnect, SequenceTheorems, TLAPS

Message == Ending \cup {"update"}

\* from get_handle on the client's receiver belongs to the latest plant
ListensWhileUsing == pc \in {"login", "subscribe", "recv"} => listening

IInv == TypeOK /\ ListensWhileUsing /\ LossIsHeard

-----------------------------------------------------------------------------
(* Taking the first message off a receiver shifts the others by one.       *)
LEMMA TakeHead ==
  ASSUME NEW s \in Seq(Message), s # <<>>
  PROVE  /\ Len(s) \in Nat \ {0}
         /\ Head(s) = s[1]
         /\ Tail(s) \in Seq(Message)
         /\ Len(Tail(s)) = Len(s) - 1
         /\ \A k \in 1..Len(Tail(s)) : Tail(s)[k] = s[k + 1]
<1>1. Len(s) \in Nat \ {0}
  BY EmptySeq, LenProperties
<1> QED
  BY <1>1, HeadTailProperties

(* A published message is the last one in the receiver.                    *)
LEMMA PutLast ==
  ASSUME NEW s \in Seq(Message), NEW m \in Message
  PROVE  /\ Len(s) \in Nat
         /\ Append(s, m) \in Seq(Message)
         /\ Len(Append(s, m)) = Len(s) + 1
         /\ Append(s, m)[Len(s) + 1] = m
  BY AppendProperties, LenProperties

(* publish keeps the receiver's type; whoever listens then holds m.        *)
LEMMA PublishKeeps ==
  ASSUME TypeOK, NEW m \in Message, publish(m)
  PROVE  /\ inbox' \in Seq(Message)
         /\ Len(inbox') <= Ring
         /\ lagged' \in BOOLEAN
         /\ listening => \E k \in 1..Len(inbox') : inbox'[k] = m
<1> USE ReconnectAssumption
<1>1. /\ inbox \in Seq(Message) /\ Len(inbox) \in Nat /\ Len(inbox) <= Ring
      /\ listening \in BOOLEAN
  BY LenProperties DEF TypeOK, Message
<1>2. lagged' \in BOOLEAN
  BY DEF publish, TypeOK
<1>3. CASE ~listening
  BY <1>1, <1>2, <1>3 DEF publish
<1>4. CASE listening /\ Len(inbox) < Ring
  <2>1. inbox' = Append(inbox, m)
    BY <1>4 DEF publish
  <2> QED
    BY <2>1, <1>1, <1>2, <1>4, PutLast
<1>5. CASE listening /\ ~(Len(inbox) < Ring)
  <2>1. inbox' = Append(Tail(inbox), m)
    BY <1>5 DEF publish
  <2>2. Len(inbox) = Ring /\ inbox # <<>>
    BY <1>1, <1>5, EmptySeq
  <2>3. Tail(inbox) \in Seq(Message) /\ Len(Tail(inbox)) = Ring - 1
    BY <1>1, <2>2, TakeHead
  <2> QED
    BY <2>1, <2>3, <1>2, PutLast
<1> QED
  BY <1>1, <1>3, <1>4, <1>5

-----------------------------------------------------------------------------
LEMMA InitCorrect == Init => IInv
<1> SUFFICES ASSUME Init PROVE IInv
  OBVIOUS
<1>1. <<>> \in Seq(Ending \cup {"update"}) /\ Len(<<>>) = 0
  BY EmptySeq
<1>2. {listening, lagged, subscribed} \subseteq BOOLEAN
  BY Zenon DEF Init
<1>3. TypeOK
  BY <1>1, <1>2, ReconnectAssumption DEF Init, TypeOK
<1> QED
  BY <1>3 DEF Init, IInv, ListensWhileUsing, LossIsHeard

(* The variables the types bound by the constants.                         *)
LEMMA StepKeepsTypes ==
  ASSUME TypeOK, [Next]_vars
  PROVE  TypeOK'
<1> USE ReconnectAssumption
<1>1. CASE Connecting
  <2>1. CASE connect
    BY <2>1 DEF connect, TypeOK, world
  <2>2. CASE AttemptSucceeds
    <3>1. inbox' \in Seq(Ending \cup {"update"}) /\ Len(inbox') <= Ring
      BY <2>2, EmptySeq DEF AttemptSucceeds
    <3> QED
      BY <2>2, <3>1 DEF AttemptSucceeds, TypeOK, world
  <2>3. CASE AttemptFails
    BY <2>3 DEF AttemptFails, TypeOK, world
  <2>4. CASE backoff
    BY <2>4 DEF backoff, TypeOK, world
  <2> QED
    BY <1>1, <2>1, <2>2, <2>3, <2>4 DEF Connecting
<1>2. CASE Running
  <2>1. CASE get_handle
    BY <2>1 DEF get_handle, TypeOK, world
  <2>2. CASE login
    BY <2>2 DEF login, TypeOK, world
  <2>3. CASE login_fails
    BY <2>3 DEF login_fails, Fault, TypeOK
  <2>4. CASE subscribe
    BY <2>4 DEF subscribe, TypeOK, world
  <2>5. CASE subscribe_fails
    BY <2>5 DEF subscribe_fails, Fault, TypeOK
  <2>6. ASSUME inbox # <<>>, inbox' = Tail(inbox)
        PROVE  inbox' \in Seq(Message) /\ Len(inbox') <= Ring
    <3>1. inbox \in Seq(Message) /\ Len(inbox) <= Ring
      BY DEF TypeOK, Message
    <3> QED
      BY <2>6, <3>1, TakeHead
  <2>7. CASE recv_update
    BY <2>6, <2>7 DEF recv_update, TypeOK, client, world, Message
  <2>8. CASE recv_ending
    BY <2>6, <2>8 DEF recv_ending, TypeOK, world, Message
  <2>9. CASE recv_lagged
    BY <2>9 DEF recv_lagged, TypeOK, world
  <2> QED
    BY <1>2, <2>1, <2>2, <2>3, <2>4, <2>5, <2>7, <2>8, <2>9 DEF Running
<1>3. CASE PublishUpdate
  BY <1>3, PublishKeeps
  DEF PublishUpdate, Fault, TypeOK, client, Message
<1>4. ASSUME NEW m \in {"ConnectionError", "HeartbeatTimeout"}, Stop(m)
      PROVE  TypeOK'
  BY <1>4, PublishKeeps DEF Stop, Fault, TypeOK, client, Message, Ending
<1>5. CASE StopSilently
  BY <1>5 DEF StopSilently, Fault, TypeOK, client
<1>6. CASE ForcedLogout
  <2>1. /\ inbox' \in Seq(Message) /\ Len(inbox') <= Ring
        /\ lagged' \in BOOLEAN
    BY <1>6, PublishKeeps DEF ForcedLogout, Message, Ending
  <2>2. {listening', lagged', subscribed'} \subseteq BOOLEAN
    BY <1>6, <2>1, Zenon DEF ForcedLogout, TypeOK
  <2> QED
    BY <1>6, <2>1, <2>2 DEF ForcedLogout, Fault, TypeOK, client, Message
<1>7. ASSUME NEW u \in Url, NEW s \in {"up", "down", "slow"}, UrlChanges(u, s)
      PROVE  TypeOK'
  BY <1>7 DEF UrlChanges, Fault, TypeOK, client
<1>8. CASE UNCHANGED vars
  BY <1>8 DEF vars, client, world, TypeOK
<1> QED
  BY <1>1, <1>2, <1>3, <1>4, <1>5, <1>6, <1>7, <1>8 DEF Next

LEMMA StepKeepsListening ==
  ASSUME ListensWhileUsing, [Next]_vars
  PROVE  ListensWhileUsing'
<1>1. CASE Connecting
  BY <1>1
  DEF Connecting, connect, AttemptSucceeds, AttemptFails, backoff,
      ListensWhileUsing
<1>2. CASE Running
  BY <1>2
  DEF Running, get_handle, login, login_fails, subscribe, subscribe_fails,
      recv_update, recv_ending, recv_lagged, ListensWhileUsing, client
<1>3. CASE /\ ~Connecting /\ ~Running
           /\ Next \/ UNCHANGED vars
  BY <1>3
  DEF Next, PublishUpdate, Stop, StopSilently, ForcedLogout, UrlChanges, vars,
      client, ListensWhileUsing
<1> QED
  BY <1>1, <1>2, <1>3

(* A loss is put into the receiver by the step that stops the plant, and   *)
(* the client takes it out only to connect again.                          *)
LEMMA StepKeepsLoss ==
  ASSUME IInv, [Next]_vars
  PROVE  LossIsHeard'
<1> USE DEF IInv
<1>1. CASE Connecting
  BY <1>1
  DEF Connecting, connect, AttemptSucceeds, AttemptFails, backoff, LossIsHeard
<1>2. CASE Running
  <2>1. CASE recv_update
    <3>1. inbox \in Seq(Message) /\ inbox # <<>> /\ inbox' = Tail(inbox)
      BY <2>1 DEF recv_update, TypeOK, Message
    <3>2. SUFFICES ASSUME plant' = "stopped"
                   PROVE  \E k \in 1..Len(inbox') : inbox'[k] \in Ending
      BY DEF LossIsHeard
    <3>3. PICK k \in 1..Len(inbox) : inbox[k] \in Ending
      BY <2>1, <3>2 DEF recv_update, LossIsHeard
    <3>4. k # 1
      BY <2>1, <3>1, <3>3, TakeHead DEF recv_update, Ending
    <3>5. k - 1 \in 1..Len(inbox') /\ inbox'[k - 1] = inbox[k]
      BY <3>1, <3>3, <3>4, TakeHead
    <3> QED
      BY <3>3, <3>5
  <2>2. CASE get_handle \/ login \/ login_fails \/ recv_ending \/ recv_lagged
    BY <2>2
    DEF get_handle, login, login_fails, recv_ending, recv_lagged, LossIsHeard
  <2>3. CASE subscribe \/ subscribe_fails
    BY <2>3 DEF subscribe, subscribe_fails, LossIsHeard
  <2> QED
    BY <1>2, <2>1, <2>2, <2>3 DEF Running
<1>3. ASSUME NEW m \in {"ConnectionError", "HeartbeatTimeout"}, Stop(m)
      PROVE  LossIsHeard'
  <2>1. pc' = pc /\ m \in Message /\ m \in Ending /\ publish(m)
    BY <1>3 DEF Stop, client, Message, Ending
  <2>2. listening => \E k \in 1..Len(inbox') : inbox'[k] = m
    BY <2>1, PublishKeeps
  <2> QED
    BY <2>1, <2>2 DEF ListensWhileUsing, LossIsHeard
<1>4. CASE PublishUpdate \/ StopSilently \/ ForcedLogout
  BY <1>4 DEF PublishUpdate, StopSilently, ForcedLogout, LossIsHeard
<1>5. ASSUME NEW u \in Url, NEW s \in {"up", "down", "slow"}, UrlChanges(u, s)
      PROVE  LossIsHeard'
  BY <1>5 DEF UrlChanges, LossIsHeard, client
<1>6. CASE UNCHANGED vars
  BY <1>6 DEF vars, client, LossIsHeard
<1> QED
  BY <1>1, <1>2, <1>3, <1>4, <1>5, <1>6 DEF Next

LEMMA Invariance == Spec => []IInv
<1>1. IInv /\ [Next]_vars => IInv'
  BY StepKeepsTypes, StepKeepsListening, StepKeepsLoss DEF IInv
<1> QED
  BY <1>1, InitCorrect, PTL DEF Spec

-----------------------------------------------------------------------------
(* Every variable of Reconnect keeps its type: above all, the receiver     *)
(* never holds more than the ring does.                                    *)
THEOREM TypeCorrect == Spec => []TypeOK
<1>1. IInv => TypeOK
  BY DEF IInv
<1> QED
  BY <1>1, Invariance, PTL

(* A loss the plant reported to a client that has its handle is there to   *)
(* be read, however small the ring is (get_handle before login).           *)
THEOREM LossHeard == Spec => []LossIsHeard
<1>1. IInv => LossIsHeard
  BY DEF IInv
<1> QED
  BY <1>1, Invariance, PTL

=============================================================================
