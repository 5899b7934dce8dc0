-------------------------- MODULE PlantActorProofs --------------------------
(***************************************************************************)
(* Machine-checked proofs about PlantActor, for every number of calls,     *)
(* every capacity of the command channel and for each plant: its types,    *)
(* where the callers are held, the order of the two-step protocols, the    *)
(* silent stop, and that it implements RequestService.                     *)
(***************************************************************************)
EXTENDS PlantActor, SequenceTheorems, TLAPS

(***************************************************************************)
(* The inductive invariant.                                                *)
(***************************************************************************)

Distinct(q) ==
  \A j, k \in 1..Len(q) : q[j] = q[k] /\ j # k => q[j] \in Control

\* a call that has not begun is nowhere
IdleNowhere ==
  \A c \in Call : outcome[c] = "idle" => c \notin Queued \cup handle_map

WriteHasCall == pc = "write" => current \in Call

\* the commands still to be sent, and those in the queue, are of calls that
\* were answered
FollowUpsAfterAnswer ==
  /\ \A c \in Call : \A k \in 1..Len(todo[c]) :
       /\ outcome[c] = "Ok"
       /\ todo[c][k] = "SetLogin" => c \in LoginCall
       /\ todo[c][k] = "Close" => c \in LogoutCall
  /\ "SetLogin" \in Queued => \E c \in LoginCall : outcome[c] = "Ok"
  /\ "Close" \in Queued => \E c \in LogoutCall : outcome[c] = "Ok"

CloseFrameFromServer ==
  \A k \in 1..Len(wire) : wire[k] = "Close" => server_closed

IInv ==
  /\ TypeOK
  /\ CallersAccounted /\ IdleNowhere
  /\ WriteHasCall
  /\ ControlFollowsAnswer /\ FollowUpsAfterAnswer
  /\ SilentStopOnlyOnClose /\ CloseFrameFromServer

-----------------------------------------------------------------------------
(* Queues.                                                                 *)

LEMMA PutLast ==
  ASSUME NEW S, NEW s \in Seq(S), NEW m \in S
  PROVE  /\ Append(s, m) \in Seq(S)
         /\ Len(s) \in Nat /\ Len(Append(s, m)) = Len(s) + 1
         /\ \A k \in 1..Len(s) : Append(s, m)[k] = s[k]
         /\ Append(s, m)[Len(s) + 1] = m
         /\ ToSet(Append(s, m)) = ToSet(s) \cup {m}
         /\ Distinct(s) /\ (m \in Control \/ m \notin ToSet(s))
              => Distinct(Append(s, m))
<1> DEFINE t == Append(s, m)
<1>1. /\ t \in Seq(S) /\ Len(s) \in Nat /\ Len(t) = Len(s) + 1
      /\ \A k \in 1..Len(s) : t[k] = s[k]
      /\ t[Len(s) + 1] = m
      /\ DOMAIN s = 1..Len(s) /\ DOMAIN t = 1..(Len(s) + 1)
  BY AppendProperties, LenProperties
<1> HIDE DEF t
<1>2. ToSet(t) = ToSet(s) \cup {m}
  BY <1>1 DEF ToSet
<1>3. ASSUME Distinct(s), m \in Control \/ m \notin ToSet(s)
      PROVE  Distinct(t)
  <2> SUFFICES ASSUME NEW j \in 1..Len(t), NEW k \in 1..Len(t),
                      t[j] = t[k], j # k
               PROVE  t[j] \in Control
    BY DEF Distinct
  <2>1. CASE j \in 1..Len(s) /\ k \in 1..Len(s)
    BY <1>1, <1>3, <2>1 DEF Distinct
  <2>2. CASE j = Len(s) + 1 \/ k = Len(s) + 1
    BY <1>1, <1>3, <2>2 DEF ToSet
  <2> QED
    BY <1>1, <2>1, <2>2
<1> QED
  BY <1>1, <1>2, <1>3 DEF t

LEMMA TakeHead ==
  ASSUME NEW S, NEW s \in Seq(S), s # <<>>
  PROVE  /\ Head(s) \in S /\ Tail(s) \in Seq(S)
         /\ Len(s) \in Nat \ {0} /\ Head(s) = s[1]
         /\ Len(Tail(s)) = Len(s) - 1
         /\ \A k \in 1..Len(Tail(s)) : Tail(s)[k] = s[k + 1]
         /\ ToSet(s) = ToSet(Tail(s)) \cup {Head(s)}
         /\ Distinct(s) =>
              /\ Distinct(Tail(s))
              /\ Head(s) \in Control \/ Head(s) \notin ToSet(Tail(s))
<1> DEFINE t == Tail(s)
<1>1. /\ Head(s) \in S /\ t \in Seq(S)
      /\ Len(s) \in Nat \ {0} /\ Head(s) = s[1]
      /\ Len(t) = Len(s) - 1
      /\ \A k \in 1..Len(t) : t[k] = s[k + 1]
      /\ DOMAIN s = 1..Len(s) /\ DOMAIN t = 1..(Len(s) - 1)
  <2>1. Len(s) \in Nat \ {0}
    BY EmptySeq, LenProperties
  <2> QED
    BY <2>1, HeadTailProperties, LenProperties
<1> HIDE DEF t
<1>2. ToSet(s) = ToSet(t) \cup {Head(s)}
  <2>1. ASSUME NEW k \in 1..Len(s)
        PROVE  s[k] \in ToSet(t) \cup {Head(s)}
    <3>1. CASE k = 1
      BY <1>1, <3>1
    <3>2. CASE k # 1
      <4>1. k - 1 \in DOMAIN t /\ t[k - 1] = s[k]
        BY <1>1, <3>2
      <4> QED
        BY <4>1 DEF ToSet
    <3> QED
      BY <3>1, <3>2
  <2>2. ASSUME NEW k \in DOMAIN t
        PROVE  t[k] \in ToSet(s)
    <3>1. k + 1 \in DOMAIN s /\ t[k] = s[k + 1]
      BY <1>1, <2>2
    <3> QED
      BY <3>1 DEF ToSet
  <2>3. Head(s) \in ToSet(s)
    BY <1>1 DEF ToSet
  <2> QED
    BY <1>1, <2>1, <2>2, <2>3 DEF ToSet
<1>3. ASSUME Distinct(s) PROVE Distinct(t)
  <2> SUFFICES ASSUME NEW j \in 1..Len(t), NEW k \in 1..Len(t),
                      t[j] = t[k], j # k
               PROVE  t[j] \in Control
    BY DEF Distinct
  <2>1. j + 1 \in 1..Len(s) /\ k + 1 \in 1..Len(s) /\ j + 1 # k + 1
    BY <1>1
  <2> QED
    BY <1>1, <1>3, <2>1 DEF Distinct
<1>4. ASSUME Distinct(s), Head(s) \in ToSet(t) PROVE Head(s) \in Control
  <2>1. PICK k \in DOMAIN t : t[k] = Head(s)
    BY <1>4 DEF ToSet
  <2>2. s[k + 1] = s[1] /\ k + 1 \in 1..Len(s) /\ 1 \in 1..Len(s) /\ k + 1 # 1
    BY <1>1, <2>1
  <2> QED
    BY <1>1, <1>4, <2>2 DEF Distinct
<1> QED
  BY <1>1, <1>2, <1>3, <1>4 DEF t

(* What is left of a queue from which a blocked sender withdraws.          *)
LEMMA TakeOut ==
  ASSUME NEW S, NEW s \in Seq(S), NEW i \in 1..Len(s)
  PROVE  /\ RemoveAt(s, i) \in Seq(S)
         /\ ToSet(s) = ToSet(RemoveAt(s, i)) \cup {s[i]}
         /\ Distinct(s) =>
              /\ Distinct(RemoveAt(s, i))
              /\ s[i] \in Control \/ s[i] \notin ToSet(RemoveAt(s, i))
<1> DEFINE t == RemoveAt(s, i)
           a == SubSeq(s, 1, i - 1)
           b == SubSeq(s, i + 1, Len(s))
           old(k) == IF k < i THEN k ELSE k + 1
<1>1. /\ Len(s) \in Nat /\ DOMAIN s = 1..Len(s)
      /\ \A k \in 1..Len(s) : s[k] \in S
  BY LenProperties, ElementOfSeq
<1>2. /\ a \in Seq(S) /\ Len(a) = i - 1
      /\ \A k \in 1..(i - 1) : a[k] = s[k]
  BY <1>1, SubSeqProperties
<1>3. /\ b \in Seq(S) /\ Len(b) = Len(s) - i
      /\ \A k \in 1..(Len(s) - i) : b[k] = s[i + k]
  <2>1. i + 1 \in Int /\ Len(s) \in Int /\ \A k \in (i + 1)..Len(s) : s[k] \in S
    BY <1>1
  <2>2. /\ b \in Seq(S)
        /\ Len(b) = IF i + 1 <= Len(s) THEN Len(s) - (i + 1) + 1 ELSE 0
        /\ \A k \in 1..(Len(s) - (i + 1) + 1) : b[k] = s[(i + 1) + k - 1]
    BY <2>1, SubSeqProperties
  <2> HIDE DEF b
  <2>3. Len(b) = Len(s) - i
    <3>1. i \in Int /\ Len(s) \in Int /\ i <= Len(s)
      BY <1>1
    <3>2. CASE i + 1 <= Len(s)
      BY <2>2, <3>1, <3>2
    <3>3. CASE ~(i + 1 <= Len(s))
      BY <2>2, <3>1, <3>3
    <3> QED
      BY <3>2, <3>3
  <2>4. \A k \in 1..(Len(s) - i) : b[k] = s[i + k]
    <3> SUFFICES ASSUME NEW k \in 1..(Len(s) - i) PROVE b[k] = s[i + k]
      OBVIOUS
    <3>1. k \in 1..(Len(s) - (i + 1) + 1) /\ (i + 1) + k - 1 = i + k
      BY <1>1
    <3> QED
      BY <2>2, <3>1
  <2> QED
    BY <2>2, <2>3, <2>4
<1>4. /\ t \in Seq(S) /\ Len(t) = Len(s) - 1
      /\ \A k \in 1..Len(t) : t[k] = IF k <= Len(a) THEN a[k] ELSE b[k - Len(a)]
      /\ DOMAIN t = 1..Len(t)
  <2> HIDE DEF a, b
  <2>1. /\ a \o b \in Seq(S) /\ Len(a \o b) = Len(a) + Len(b)
        /\ \A k \in 1..(Len(a) + Len(b)) :
             (a \o b)[k] = IF k <= Len(a) THEN a[k] ELSE b[k - Len(a)]
    BY <1>2, <1>3, ConcatProperties
  <2>2. t = a \o b
    BY DEF RemoveAt, a, b
  <2>3. Len(a) + Len(b) = Len(s) - 1
    BY <1>1, <1>2, <1>3
  <2> HIDE DEF t
  <2>4. t \in Seq(S) /\ Len(t) = Len(s) - 1
    BY <2>1, <2>2, <2>3
  <2>5. DOMAIN t = 1..Len(t)
    BY <2>4, LenProperties
  <2> QED
    BY <2>1, <2>2, <2>3, <2>4, <2>5
<1> HIDE DEF t, a, b
<1>5. \A k \in 1..Len(t) : old(k) \in (1..Len(s)) \ {i} /\ t[k] = s[old(k)]
  <2> SUFFICES ASSUME NEW k \in 1..Len(t)
               PROVE  old(k) \in (1..Len(s)) \ {i} /\ t[k] = s[old(k)]
    OBVIOUS
  <2>1. CASE k < i
    <3>1. k \in 1..(i - 1) /\ k <= Len(a) /\ k \in (1..Len(s)) \ {i}
      BY <1>1, <1>2, <2>1
    <3>2. t[k] = s[k]
      BY <1>2, <1>4, <3>1
    <3> QED
      BY <2>1, <3>1, <3>2
  <2>2. CASE ~(k < i)
    <3>1. k - (i - 1) \in 1..(Len(s) - i) /\ i + (k - (i - 1)) = k + 1
      BY <1>1, <1>4, <2>2
    <3> QED
      BY <1>1, <1>2, <1>3, <1>4, <2>2, <3>1
  <2> QED
    BY <2>1, <2>2
<1>6. \A j \in (1..Len(s)) \ {i} : \E k \in 1..Len(t) : old(k) = j
  <2> SUFFICES ASSUME NEW j \in (1..Len(s)) \ {i}
               PROVE  \E k \in 1..Len(t) : old(k) = j
    OBVIOUS
  <2>1. CASE j < i
    BY <1>1, <1>4, <2>1
  <2>2. CASE j > i
    <3>1. j - 1 \in 1..Len(t) /\ old(j - 1) = j
      BY <1>1, <1>4, <2>2
    <3> QED
      BY <3>1
  <2> QED
    BY <1>1, <2>1, <2>2
<1>7. \A j, k \in 1..Len(t) : j # k => old(j) # old(k)
  <2> SUFFICES ASSUME NEW j \in 1..Len(t), NEW k \in 1..Len(t), j # k
               PROVE  old(j) # old(k)
    OBVIOUS
  <2>1. j \in Int /\ k \in Int /\ i \in Int
    BY <1>1, <1>4
  <2> QED
    BY <2>1
<1> HIDE DEF old
<1>8. ToSet(s) = ToSet(t) \cup {s[i]}
  <2>1. ASSUME NEW j \in DOMAIN s PROVE s[j] \in ToSet(t) \cup {s[i]}
    <3>1. CASE j = i
      BY <3>1
    <3>2. CASE j # i
      <4>1. PICK k \in 1..Len(t) : old(k) = j
        BY <1>1, <1>6, <3>2
      <4> QED
        BY <1>4, <1>5, <4>1 DEF ToSet
    <3> QED
      BY <3>1, <3>2
  <2>2. ASSUME NEW k \in DOMAIN t PROVE t[k] \in ToSet(s)
    BY <1>1, <1>4, <1>5 DEF ToSet
  <2>3. s[i] \in ToSet(s)
    BY <1>1 DEF ToSet
  <2> QED
    BY <2>1, <2>2, <2>3 DEF ToSet
<1>9. ASSUME Distinct(s) PROVE Distinct(t)
  <2> SUFFICES ASSUME NEW j \in 1..Len(t), NEW k \in 1..Len(t),
                      t[j] = t[k], j # k
               PROVE  t[j] \in Control
    BY DEF Distinct
  <2> QED
    BY <1>5, <1>7, <1>9 DEF Distinct
<1>10. ASSUME Distinct(s), s[i] \in ToSet(t) PROVE s[i] \in Control
  <2>1. PICK k \in DOMAIN t : t[k] = s[i]
    BY <1>10 DEF ToSet
  <2> QED
    BY <1>4, <1>5, <1>10, <2>1 DEF Distinct
<1> QED
  BY <1>4, <1>8, <1>9, <1>10 DEF t

-----------------------------------------------------------------------------
(* The steps, sorted by what they do to the callers.                       *)

\* no caller, no command and no responder is touched
Quiet ==
  \/ HeartbeatTick \/ PingTick \/ UntimedWriteReturns
  \/ RequestWritten \/ PingWritten
  \/ \E c \in Call : ReadUndecodable(c)
  \/ ReadPong \/ ReadOtherError
  \/ running /\ Environment
  \/ UNCHANGED vars

Stops == HandleAbort \/ PingDeadline \/ PingNotWritten \/ ReadClose \/ ReadError

TakesControl == HandleSetLogin \/ HandleUpdateHeartbeat \/ HandleClose

LEMMA Cases ==
  ASSUME [Next]_vars
  PROVE  \/ \E c \in Call : \/ StartCall(c) \/ CallRefused(c)
                           \/ CallerGivesUp(c) \/ FollowUp(c)
                           \/ HandleRequest(c) \/ ReadAnswer(c)
         \/ Abort
         \/ TakesControl
         \/ RequestNotWritten
         \/ Stops
         \/ Quiet
BY Zenon DEF Next, Handles, Recv, Read, TimedWriteReturns, Quiet, Stops,
  TakesControl

LEMMA QuietTouchesNobody ==
  ASSUME Quiet
  PROVE  /\ UNCHANGED <<outcome, todo, queue, handle_map>>
         /\ running' = running
<1>1. CASE HeartbeatTick \/ PingTick \/ UntimedWriteReturns
  BY <1>1 DEF HeartbeatTick, PingTick, UntimedWriteReturns, handles, running
<1>2. CASE RequestWritten \/ PingWritten
  BY <1>2 DEF RequestWritten, PingWritten, handles, running
<1>3. CASE (\E c \in Call : ReadUndecodable(c)) \/ ReadPong \/ ReadOtherError
  BY <1>3 DEF ReadUndecodable, ReadPong, ReadOtherError, handles, actor, running
<1>4. CASE Environment
  BY <1>4 DEF Environment, ServerAnswers, ServerPongs, ServerMalformed,
    ServerCloses, LinkStalls, LinkRecovers, LinkBreaks, Delivers, handles,
    actor, running
<1>5. CASE UNCHANGED vars
  BY <1>5 DEF vars, handles, actor, running
<1> QED
  BY <1>1, <1>2, <1>3, <1>4, <1>5 DEF Quiet

LEMMA StopsStop ==
  ASSUME Stops
  PROVE  /\ \E b \in {"none", "ConnectionError", "HeartbeatTimeout"} : Stop(b)
         /\ pc \in {"select", "ping"}
         /\ UNCHANGED <<todo, abort, logged_in, reader_ended, closing>>
<1>1. CASE HandleAbort
  BY <1>1 DEF HandleAbort, Takes
<1>2. CASE PingDeadline
  BY <1>2 DEF PingDeadline
<1>3. CASE PingNotWritten
  BY <1>3 DEF PingNotWritten
<1>4. CASE ReadClose \/ ReadError
  BY <1>4 DEF ReadClose, ReadError, Reads
<1> QED
  BY <1>1, <1>2, <1>3, <1>4 DEF Stops

\* an environment step leaves the actor alone
LEMMA EnvironmentLeavesActor ==
  ASSUME Environment
  PROVE  UNCHANGED <<handles, queue, actor, lost>>
BY DEF Environment, ServerAnswers, ServerPongs, ServerMalformed, ServerCloses,
  LinkStalls, LinkRecovers, LinkBreaks, Delivers, actor, handles

-----------------------------------------------------------------------------
(* Types.                                                                  *)

LEMMA ControlAndCalls ==
  /\ Control \cap Call = {} /\ Control \subseteq Command /\ Call \subseteq Command
  /\ Call \subseteq Frame
BY CallsAreRequests DEF Command, Frame

LEMMA ScriptType ==
  ASSUME NEW c \in Call, NEW refused \in BOOLEAN
  PROVE  Script(c, refused) \in Seq(Control)
<1>1. /\ <<>> \in Seq(Control)
      /\ <<"Close">> \in Seq(Control)
      /\ <<"SetLogin", "UpdateHeartbeat">> \in Seq(Control)
  <2> DEFINE S == Control
  <2>1. "Close" \in S /\ "SetLogin" \in S /\ "UpdateHeartbeat" \in S
    BY DEF Control
  <2> HIDE DEF S
  <2>2. /\ <<>> \in Seq(S) /\ <<"Close">> \in Seq(S)
        /\ <<"SetLogin", "UpdateHeartbeat">> \in Seq(S)
    BY <2>1
  <2> QED
    BY <2>2 DEF S
<1> QED
  BY <1>1 DEF Script

\* frames are added at the end and taken from the front, and a Close frame is
\* the server's
LEMMA WireStep ==
  ASSUME TypeOK, [Next]_vars
  PROVE  /\ \/ wire' = wire
            \/ wire' = <<>>
            \/ wire # <<>> /\ wire' = Tail(wire)
            \/ \E f \in Frame : /\ wire' = Append(wire, f)
                                /\ f = "Close" => server_closed'
         /\ server_closed' \in BOOLEAN
         /\ server_closed => server_closed'
<1> DEFINE Goal == /\ \/ wire' = wire
                      \/ wire' = <<>>
                      \/ wire # <<>> /\ wire' = Tail(wire)
                      \/ \E f \in Frame : /\ wire' = Append(wire, f)
                                          /\ f = "Close" => server_closed'
                   /\ server_closed' \in BOOLEAN
                   /\ server_closed => server_closed'
<1> SUFFICES Goal
  OBVIOUS
<1>1. server_closed \in BOOLEAN
  BY DEF TypeOK
<1>2. ASSUME UNCHANGED <<wire, server_closed>> PROVE Goal
  BY <1>1, <1>2
<1>3. ASSUME NEW f, Reads(f) PROVE Goal
  BY <1>1, <1>3 DEF Reads
<1>4. CASE ServerAnswers
  <2>1. PICK c \in server : Delivers(c) /\ UNCHANGED server_closed
    BY <1>4 DEF ServerAnswers
  <2>2. c \in Frame /\ c # "Close"
    BY ControlAndCalls DEF TypeOK, Control
  <2> QED
    BY <1>1, <2>1, <2>2 DEF Delivers, Arrives
<1>5. CASE ServerPongs
  BY <1>1, <1>5 DEF ServerPongs, Delivers, Arrives, Frame
<1>6. CASE ServerMalformed
  BY <1>1, <1>6 DEF ServerMalformed, Delivers, Arrives, Frame
<1>7. CASE ServerCloses
  BY <1>1, <1>7 DEF ServerCloses, Delivers, Arrives, Frame
<1>8. CASE LinkStalls \/ LinkRecovers
  BY <1>2, <1>8 DEF LinkStalls, LinkRecovers
<1>9. CASE LinkBreaks
  BY <1>1, <1>9 DEF LinkBreaks, Arrives, Frame
<1>10. CASE Read
  BY <1>3, <1>10 DEF Read, ReadAnswer, ReadUndecodable, ReadPong, ReadClose,
    ReadError, ReadOtherError
<1>11. CASE Recv
  BY <1>2, <1>11 DEF Recv, HandleRequest, HandleSetLogin,
    HandleUpdateHeartbeat, HandleClose, HandleAbort, peer
<1>12. CASE HeartbeatTick \/ PingTick \/ PingDeadline \/ UntimedWriteReturns
  BY <1>2, <1>12 DEF HeartbeatTick, PingTick, PingDeadline,
    UntimedWriteReturns, peer
<1>13. CASE TimedWriteReturns
  BY <1>2, <1>13 DEF TimedWriteReturns, RequestWritten, RequestNotWritten,
    PingWritten, PingNotWritten, peer
<1>14. CASE Handles
  BY <1>2, <1>14 DEF Handles, StartCall, CallRefused, CallerGivesUp, FollowUp,
    Abort, peer
<1>15. CASE UNCHANGED vars
  BY <1>2, <1>15 DEF vars, peer
<1> HIDE DEF Goal
<1> QED
  BY <1>4, <1>5, <1>6, <1>7, <1>8, <1>9, <1>10, <1>11, <1>12, <1>13, <1>14,
    <1>15 DEF Next, Environment

LEMMA WireKept ==
  ASSUME TypeOK, CloseFrameFromServer, [Next]_vars
  PROVE  wire' \in Seq(Frame) /\ CloseFrameFromServer'
<1> USE DEF CloseFrameFromServer
<1>1. wire \in Seq(Frame) /\ Len(wire) \in Nat
  BY LenProperties DEF TypeOK
<1>2. server_closed => server_closed'
  BY WireStep
<1>3. CASE wire' = wire
  BY <1>1, <1>2, <1>3
<1>4. CASE wire' = <<>>
  BY <1>4, EmptySeq
<1>5. CASE wire # <<>> /\ wire' = Tail(wire)
  BY <1>1, <1>2, <1>5, TakeHead
<1>6. ASSUME NEW f \in Frame, wire' = Append(wire, f),
             f = "Close" => server_closed'
      PROVE  wire' \in Seq(Frame) /\ CloseFrameFromServer'
  BY <1>1, <1>2, <1>6, PutLast
<1> QED
  BY <1>3, <1>4, <1>5, <1>6, WireStep

\* the Boolean variables
LEMMA FlagsKept ==
  ASSUME TypeOK, [Next]_vars
  PROVE  /\ {logged_in, ping_pending, reader_ended, closing}' \subseteq BOOLEAN
         /\ {pong_owed, server_closed}' \subseteq BOOLEAN
<1> DEFINE Goal == /\ logged_in' \in BOOLEAN /\ ping_pending' \in BOOLEAN
                   /\ reader_ended' \in BOOLEAN /\ closing' \in BOOLEAN
                   /\ pong_owed' \in BOOLEAN /\ server_closed' \in BOOLEAN
<1>1. /\ logged_in \in BOOLEAN /\ ping_pending \in BOOLEAN
      /\ reader_ended \in BOOLEAN /\ closing \in BOOLEAN
      /\ pong_owed \in BOOLEAN /\ server_closed \in BOOLEAN
  BY Zenon DEF TypeOK
<1>2. Goal
  <2>1. CASE Handles
    BY <1>1, <2>1 DEF Handles, StartCall, CallRefused, CallerGivesUp, FollowUp,
      Abort, actor, peer
  <2>2. CASE Recv
    BY <1>1, <2>2 DEF Recv, HandleRequest, HandleSetLogin,
      HandleUpdateHeartbeat, HandleClose, HandleAbort, actor, peer
  <2>3. CASE HeartbeatTick \/ PingTick \/ PingDeadline \/ UntimedWriteReturns
    BY <1>1, <2>3 DEF HeartbeatTick, PingTick, PingDeadline,
      UntimedWriteReturns, peer
  <2>4. CASE TimedWriteReturns
    BY <1>1, <2>4 DEF TimedWriteReturns, RequestWritten, RequestNotWritten,
      PingWritten, PingNotWritten, peer
  <2>5. CASE Read
    BY <1>1, <2>5 DEF Read, ReadAnswer, ReadUndecodable, ReadPong, ReadClose,
      ReadError, ReadOtherError, Reads, actor
  <2>6. CASE Environment
    BY <1>1, <2>6 DEF Environment, ServerAnswers, ServerPongs, ServerMalformed,
      ServerCloses, LinkStalls, LinkRecovers, LinkBreaks, Delivers, actor
  <2>7. CASE UNCHANGED vars
    BY <1>1, <2>7 DEF vars, actor, peer
  <2> QED
    BY <2>1, <2>2, <2>3, <2>4, <2>5, <2>6, <2>7, Zenon DEF Next
<1> QED
  BY <1>2, Zenon

\* the variables that name commands, calls and frames
LEMMA HandlesTyped ==
  ASSUME TypeOK, WriteHasCall, [Next]_vars
  PROVE  /\ outcome' \in [Call -> {"idle", "waiting", "dropped", "Ok",
                                   "SendFailed", "ConnectionClosed"}]
         /\ todo' \in [Call -> Seq(Control)]
         /\ queue' \in Seq(Command)
         /\ handle_map' \subseteq Call
<1> DEFINE Outcome == {"idle", "waiting", "dropped", "Ok", "SendFailed",
                       "ConnectionClosed"}
           Goal == /\ outcome' \in [Call -> Outcome]
                   /\ todo' \in [Call -> Seq(Control)]
                   /\ queue' \in Seq(Command)
                   /\ handle_map' \subseteq Call
<1> SUFFICES Goal
  OBVIOUS
<1>1. /\ outcome \in [Call -> Outcome] /\ todo \in [Call -> Seq(Control)]
      /\ queue \in Seq(Command) /\ handle_map \subseteq Call
      /\ {"waiting", "dropped", "Ok", "SendFailed", "ConnectionClosed"}
           \subseteq Outcome
      /\ Call \subseteq Command /\ Control \subseteq Command
  BY ControlAndCalls DEF TypeOK
<1> HIDE DEF Outcome
<1>2. ASSUME NEW c \in Call, StartCall(c) \/ CallRefused(c) PROVE Goal
  <2>1. Append(queue, c) \in Seq(Command)
    BY <1>1, PutLast
  <2> QED
    BY <1>1, <1>2, <2>1 DEF StartCall, CallRefused, Send, actor
<1>3. ASSUME NEW c \in Call, CallerGivesUp(c) PROVE Goal
  <2>1. queue' \in Seq(Command)
    <3>1. CASE Blocked(c)
      <4>1. PICK k \in (Cap + 1)..Len(queue) : queue' = RemoveAt(queue, k)
        BY <1>3, <3>1 DEF CallerGivesUp
      <4>2. k \in 1..Len(queue)
        BY <1>1, LenProperties, PlantActorAssumption
      <4> QED
        BY <1>1, <4>1, <4>2, TakeOut
    <3> QED
      BY <1>1, <1>3, <3>1 DEF CallerGivesUp
  <2> QED
    BY <1>1, <1>3, <2>1 DEF CallerGivesUp, actor
<1>4. ASSUME NEW c \in Call, FollowUp(c) PROVE Goal
  <2>1. Head(todo[c]) \in Control /\ Tail(todo[c]) \in Seq(Control)
    BY <1>1, <1>4, TakeHead DEF FollowUp
  <2>2. Append(queue, Head(todo[c])) \in Seq(Command)
    BY <1>1, <2>1, PutLast
  <2> QED
    BY <1>1, <1>4, <2>1, <2>2 DEF FollowUp, Send, actor
<1>5. CASE Abort
  <2>1. "Abort" \in Command
    BY <1>1 DEF Control
  <2> QED
    BY <1>1, <1>5, <2>1, PutLast DEF Abort, Send, actor
<1>6. ASSUME NEW c \in Call, HandleRequest(c) PROVE Goal
  <2>1. Tail(queue) \in Seq(Command)
    BY <1>1, <1>6, TakeHead DEF HandleRequest, Takes
  <2> QED
    BY <1>1, <1>6, <2>1 DEF HandleRequest, handles
<1>7. CASE TakesControl
  <2>1. Tail(queue) \in Seq(Command)
    BY <1>1, <1>7, TakeHead DEF TakesControl, HandleSetLogin,
      HandleUpdateHeartbeat, HandleClose, Takes
  <2> QED
    BY <1>1, <1>7, <2>1 DEF TakesControl, HandleSetLogin,
      HandleUpdateHeartbeat, HandleClose, handles, actor
<1>8. CASE RequestNotWritten
  BY <1>1, <1>8 DEF RequestNotWritten, fail_request
<1>9. CASE Stops
  <2>1. \E b : Stop(b)
    BY <1>9, StopsStop
  <2>2. todo' = todo
    BY <1>9, StopsStop
  <2> QED
    BY <1>1, <2>1, <2>2, EmptySeq DEF Stop
<1>10. ASSUME NEW c \in Call, ReadAnswer(c) PROVE Goal
  <2>1. todo' \in [Call -> Seq(Control)]
    BY <1>1, <1>10, ScriptType DEF ReadAnswer
  <2> QED
    BY <1>1, <1>10, <2>1 DEF ReadAnswer
<1>11. CASE Quiet
  BY <1>1, <1>11, QuietTouchesNobody
<1> QED
  BY <1>2, <1>3, <1>4, <1>5, <1>6, <1>7, <1>8, <1>9, <1>10, <1>11, Cases

LEMMA ActorTyped ==
  ASSUME TypeOK, WriteHasCall, [Next]_vars
  PROVE  /\ abort' \in {"none", "queued", "lost"}
         /\ pc' \in {"select", "write", "ping", "heartbeat", "close", "stopped"}
         /\ current' \in Call \cup {NoCall}
         /\ notice' \in {"none", "ConnectionError", "HeartbeatTimeout"}
         /\ link' \in {"up", "stalled", "broken"}
         /\ server' \subseteq Call
         /\ lost' \subseteq Call
         /\ WriteHasCall'
<1> USE DEF TypeOK, WriteHasCall
<1>1. CASE Handles
  BY <1>1 DEF Handles, StartCall, CallRefused, CallerGivesUp, FollowUp, Abort,
    actor, peer
<1>2. CASE Recv
  BY <1>2 DEF Recv, HandleRequest, HandleSetLogin, HandleUpdateHeartbeat,
    HandleClose, HandleAbort, Stop, handles, actor, peer
<1>3. CASE HeartbeatTick \/ PingTick \/ PingDeadline \/ UntimedWriteReturns
  BY <1>3 DEF HeartbeatTick, PingTick, PingDeadline, UntimedWriteReturns, Stop,
    handles, peer
<1>4. CASE TimedWriteReturns
  BY <1>4 DEF TimedWriteReturns, RequestWritten, RequestNotWritten, PingWritten,
    PingNotWritten, Stop, handles, peer
<1>5. CASE Read
  BY <1>5 DEF Read, ReadAnswer, ReadUndecodable, ReadPong, ReadClose, ReadError,
    ReadOtherError, Reads, Stop, handles, actor
<1>6. CASE Environment
  BY <1>6 DEF Environment, ServerAnswers, ServerPongs, ServerMalformed,
    ServerCloses, LinkStalls, LinkRecovers, LinkBreaks, Delivers, handles, actor
<1>7. CASE UNCHANGED vars
  BY <1>7 DEF vars, handles, actor, peer
<1> QED
  BY <1>1, <1>2, <1>3, <1>4, <1>5, <1>6, <1>7 DEF Next

LEMMA TypesKept ==
  ASSUME TypeOK, WriteHasCall, CloseFrameFromServer, [Next]_vars
  PROVE  TypeOK' /\ WriteHasCall' /\ CloseFrameFromServer'
BY WireKept, FlagsKept, HandlesTyped, ActorTyped DEF TypeOK

-----------------------------------------------------------------------------
(* Where the callers are.                                                  *)

Accounting == CallersAccounted /\ IdleNowhere

\* the commands a step puts into the queue or takes from it
LEMMA QueueGrows ==
  ASSUME TypeOK, CallersAccounted, NEW m \in Command,
         m \in Control \/ m \notin Queued, Send(m)
  PROVE  Queued' = Queued \cup {m} /\ Distinct(queue')
<1>1. queue \in Seq(Command) /\ Distinct(queue)
  BY DEF TypeOK, CallersAccounted, Distinct
<1>2. /\ ToSet(Append(queue, m)) = ToSet(queue) \cup {m}
      /\ Distinct(Append(queue, m))
  BY <1>1, PutLast DEF Queued
<1> QED
  BY <1>2 DEF Send, Queued

LEMMA QueueShrinks ==
  ASSUME TypeOK, CallersAccounted, NEW m, Takes(m), queue' = Tail(queue)
  PROVE  /\ m \in Command
         /\ Queued = Queued' \cup {m} /\ Distinct(queue')
         /\ m \in Control \/ m \notin Queued'
<1>1. queue \in Seq(Command) /\ Distinct(queue) /\ queue # <<>> /\ m = Head(queue)
  BY DEF TypeOK, CallersAccounted, Distinct, Takes
<1>2. /\ m \in Command
      /\ ToSet(queue) = ToSet(Tail(queue)) \cup {m}
      /\ Distinct(Tail(queue))
      /\ m \in Control \/ m \notin ToSet(Tail(queue))
  BY <1>1, TakeHead
<1> QED
  BY <1>2 DEF Queued

\* a caller that gives up takes at most its own command along
LEMMA QueueWithdraws ==
  ASSUME TypeOK, CallersAccounted, NEW c \in Call, CallerGivesUp(c)
  PROVE  /\ Queued' \subseteq Queued /\ Queued \subseteq Queued' \cup {c}
         /\ Distinct(queue')
<1>1. queue \in Seq(Command) /\ Distinct(queue) /\ Len(queue) \in Nat
  BY LenProperties DEF TypeOK, CallersAccounted, Distinct
<1>2. CASE Blocked(c)
  <2>1. PICK k \in (Cap + 1)..Len(queue) :
          queue[k] = c /\ queue' = RemoveAt(queue, k)
    BY <1>2 DEF CallerGivesUp
  <2>2. k \in 1..Len(queue)
    BY <1>1, PlantActorAssumption
  <2>3. /\ ToSet(queue) = ToSet(RemoveAt(queue, k)) \cup {c}
        /\ Distinct(RemoveAt(queue, k))
    BY <1>1, <2>1, <2>2, TakeOut
  <2> QED
    BY <2>1, <2>3 DEF Queued
<1>3. CASE ~Blocked(c)
  BY <1>1, <1>3 DEF CallerGivesUp, Queued
<1> QED
  BY <1>2, <1>3

LEMMA AccountingKept ==
  ASSUME TypeOK, Accounting, WriteHasCall, [Next]_vars
  PROVE  Accounting'
<1> DEFINE Parts == /\ \A c \in Call : outcome[c] = "waiting" =>
                         /\ running
                         /\ c \in Queued \/ c \in handle_map
                    /\ handle_map \cap Queued = {}
                    /\ Distinct(queue)
                    /\ IdleNowhere
<1>1. Parts /\ CallersAccounted
  BY DEF Accounting, CallersAccounted, Distinct
<1>2. SUFFICES Parts'
  BY DEF Accounting, CallersAccounted, Distinct
<1>3. \A c \in Call : c \in Command /\ c \notin Control
  BY ControlAndCalls
<1>4. outcome \in [Call -> {"idle", "waiting", "dropped", "Ok", "SendFailed",
                            "ConnectionClosed"}]
      /\ handle_map \subseteq Call
  BY DEF TypeOK
<1> USE DEF IdleNowhere
<1>5. ASSUME NEW c \in Call, StartCall(c) PROVE Parts'
  <2>1. Queued' = Queued \cup {c} /\ Distinct(queue')
    BY <1>1, <1>3, <1>5, QueueGrows DEF StartCall
  <2> QED
    BY <1>1, <1>4, <1>5, <2>1 DEF StartCall, actor, running
<1>6. ASSUME NEW c \in Call, CallRefused(c) PROVE Parts'
  <2>1. Queued' = Queued
    BY <1>6 DEF CallRefused, Queued
  <2> QED
    BY <1>1, <1>4, <1>6, <2>1 DEF CallRefused, actor, running, Distinct
<1>7. ASSUME NEW c \in Call, CallerGivesUp(c) PROVE Parts'
  <2>1. /\ Queued' \subseteq Queued /\ Queued \subseteq Queued' \cup {c}
        /\ Distinct(queue')
    BY <1>1, <1>7, QueueWithdraws
  <2> QED
    BY <1>1, <1>4, <1>7, <2>1 DEF CallerGivesUp, actor, running
<1>8. ASSUME NEW c \in Call, FollowUp(c) PROVE Parts'
  <2>1. UNCHANGED <<outcome, handle_map>> /\ running' = running
    BY <1>8 DEF FollowUp, actor, running
  <2>2. CASE running
    <3>1. Head(todo[c]) \in Control /\ Head(todo[c]) \in Command
      BY <1>8, TakeHead, ControlAndCalls DEF FollowUp, TypeOK
    <3>2. Queued' = Queued \cup {Head(todo[c])} /\ Distinct(queue')
      BY <1>1, <1>8, <2>2, <3>1, QueueGrows DEF FollowUp
    <3> QED
      BY <1>1, <1>3, <1>4, <2>1, <3>1, <3>2
  <2>3. CASE ~running
    BY <1>1, <1>8, <2>1, <2>3 DEF FollowUp, Queued
  <2> QED
    BY <2>2, <2>3
<1>9. CASE Abort
  <2>1. UNCHANGED <<outcome, handle_map>> /\ running' = running
    BY <1>9 DEF Abort, actor, running
  <2>2. CASE Send("Abort")
    <3>1. "Abort" \in Control /\ "Abort" \in Command
      BY DEF Control, Command
    <3>2. Queued' = Queued \cup {"Abort"} /\ Distinct(queue')
      BY <1>1, <2>2, <3>1, QueueGrows
    <3> QED
      BY <1>1, <1>3, <1>4, <2>1, <3>1, <3>2
  <2>3. CASE UNCHANGED queue
    BY <1>1, <2>1, <2>3 DEF Queued
  <2> QED
    BY <1>9, <2>2, <2>3 DEF Abort
<1>10. ASSUME NEW c \in Call, HandleRequest(c) PROVE Parts'
  <2>1. Queued = Queued' \cup {c} /\ Distinct(queue') /\ c \notin Queued'
    BY <1>1, <1>3, <1>10, QueueShrinks DEF HandleRequest
  <2>2. running /\ running'
    BY <1>10 DEF HandleRequest, Takes, running
  <2> QED
    BY <1>1, <1>4, <1>10, <2>1, <2>2 DEF HandleRequest, handles
<1>11. CASE TakesControl
  <2>1. PICK m \in Control : Takes(m)
    BY <1>11 DEF TakesControl, HandleSetLogin, HandleUpdateHeartbeat,
      HandleClose, Control
  <2>2. /\ UNCHANGED <<outcome, handle_map>> /\ queue' = Tail(queue)
        /\ running /\ running'
    BY <1>11 DEF TakesControl, HandleSetLogin, HandleUpdateHeartbeat,
      HandleClose, Takes, handles, actor, running
  <2>3. Queued = Queued' \cup {m} /\ Distinct(queue')
    BY <1>1, <2>1, <2>2, QueueShrinks
  <2> QED
    BY <1>1, <1>3, <1>4, <2>2, <2>3
<1>12. CASE RequestNotWritten
  <2>1. queue' = queue /\ running /\ running' /\ fail_request(current)
    BY <1>12 DEF RequestNotWritten, running
  <2> QED
    BY <1>1, <1>4, <2>1 DEF fail_request, Queued
<1>13. CASE Stops
  <2>1. PICK b : Stop(b)
    BY <1>13, StopsStop
  <2>2. \A c \in Call : outcome'[c] # "waiting"
    BY <1>1, <1>4, <2>1 DEF Stop
  <2>3. queue' = <<>> /\ handle_map' = {}
    BY <2>1 DEF Stop
  <2>4. Queued' = {} /\ Distinct(queue')
    BY <2>3 DEF Queued, ToSet, Distinct
  <2> QED
    BY <2>2, <2>3, <2>4
<1>14. ASSUME NEW c \in Call, ReadAnswer(c) PROVE Parts'
  <2>1. queue' = queue /\ running' = running
    BY <1>14 DEF ReadAnswer, running
  <2> QED
    BY <1>1, <1>4, <1>14, <2>1 DEF ReadAnswer, Queued
<1>15. CASE Quiet
  BY <1>1, <1>15, QuietTouchesNobody DEF Queued
<1> QED
  BY <1>5, <1>6, <1>7, <1>8, <1>9, <1>10, <1>11, <1>12, <1>13, <1>14,
    <1>15, Cases

-----------------------------------------------------------------------------
(* The two-step protocols.                                                 *)

\* an answer is final
LEMMA OkStays ==
  ASSUME TypeOK, [Next]_vars, NEW c \in Call, outcome[c] = "Ok"
  PROVE  outcome'[c] = "Ok"
<1>1. outcome \in [Call -> {"idle", "waiting", "dropped", "Ok", "SendFailed",
                            "ConnectionClosed"}]
  BY DEF TypeOK
<1>2. ASSUME NEW d \in Call, \/ StartCall(d) \/ CallRefused(d)
                             \/ CallerGivesUp(d) \/ FollowUp(d)
                             \/ HandleRequest(d) \/ ReadAnswer(d)
      PROVE  outcome'[c] = "Ok"
  BY <1>1, <1>2 DEF StartCall, CallRefused, CallerGivesUp, FollowUp,
    HandleRequest, ReadAnswer, handles
<1>3. CASE Abort \/ TakesControl \/ RequestNotWritten
  BY <1>1, <1>3 DEF Abort, TakesControl, HandleSetLogin, HandleUpdateHeartbeat,
    HandleClose, RequestNotWritten, fail_request, handles
<1>4. CASE Stops
  <2>1. PICK b : Stop(b)
    BY <1>4, StopsStop
  <2> QED
    BY <1>1, <2>1 DEF Stop
<1>5. CASE Quiet
  BY <1>5, QuietTouchesNobody
<1> QED
  BY <1>2, <1>3, <1>4, <1>5, Cases

Flags == <<pc, logged_in, closing>>

\* what raises a flag that starts heartbeats or closes the connection
LEMMA FlagSources ==
  ASSUME [Next]_vars
  PROVE  /\ logged_in' => logged_in \/ "SetLogin" \in Queued
         /\ pc' = "heartbeat" => pc = "heartbeat" \/ logged_in
         /\ closing' => closing \/ pc = "close"
         /\ pc' = "close" => pc = "close" \/ "Close" \in Queued
<1> DEFINE Goal == /\ logged_in' => logged_in \/ "SetLogin" \in Queued
                   /\ pc' = "heartbeat" => pc = "heartbeat" \/ logged_in
                   /\ closing' => closing \/ pc = "close"
                   /\ pc' = "close" => pc = "close" \/ "Close" \in Queued
<1> SUFFICES Goal
  OBVIOUS
<1>1. ASSUME UNCHANGED Flags PROVE Goal
  BY <1>1 DEF Flags
<1>2. ASSUME NEW c \in Call, \/ StartCall(c) \/ CallRefused(c)
                             \/ CallerGivesUp(c) \/ FollowUp(c)
      PROVE  Goal
  BY <1>1, <1>2 DEF StartCall, CallRefused, CallerGivesUp, FollowUp, actor, Flags
<1>3. CASE Abort
  BY <1>1, <1>3 DEF Abort, actor, Flags
<1>4. ASSUME NEW c \in Call, HandleRequest(c) \/ ReadAnswer(c) PROVE Goal
  BY <1>4 DEF HandleRequest, ReadAnswer
<1>5. CASE TakesControl
  BY <1>5 DEF TakesControl, HandleSetLogin, HandleUpdateHeartbeat, HandleClose,
    Takes, actor, Queued, ToSet
<1>6. CASE RequestNotWritten \/ RequestWritten \/ PingWritten
  BY <1>6 DEF RequestNotWritten, RequestWritten, PingWritten
<1>7. CASE Stops
  <2>1. PICK b : Stop(b)
    BY <1>7, StopsStop
  <2>2. pc' = "stopped" /\ UNCHANGED <<logged_in, closing>>
    BY <1>7, <2>1, StopsStop DEF Stop
  <2> QED
    BY <2>2
<1>8. CASE HeartbeatTick \/ PingTick \/ UntimedWriteReturns
  <2>1. CASE HeartbeatTick
    BY <2>1 DEF HeartbeatTick
  <2>2. CASE PingTick
    BY <2>2 DEF PingTick
  <2>3. CASE UntimedWriteReturns
    <3>1. (closing' <=> (closing \/ pc = "close")) /\ pc' = "select"
          /\ (logged_in' <=> logged_in)
      BY <2>3, Zenon DEF UntimedWriteReturns
    <3> QED
      BY <3>1
  <2> QED
    BY <1>8, <2>1, <2>2, <2>3
<1>9. CASE (\E c \in Call : ReadUndecodable(c)) \/ ReadPong \/ ReadOtherError
  BY <1>9 DEF ReadUndecodable, ReadPong, ReadOtherError, actor
<1>10. CASE Environment \/ UNCHANGED vars
  BY <1>1, <1>10, EnvironmentLeavesActor DEF vars, actor, Flags
<1> QED
  BY <1>2, <1>3, <1>4, <1>5, <1>6, <1>7, <1>8, <1>9, <1>10, Cases DEF Quiet

\* SetLogin and Close enter the queue from the follow-ups of a call
LEMMA QueueSources ==
  ASSUME TypeOK, CallersAccounted, [Next]_vars,
         NEW m \in {"SetLogin", "Close"}, m \in Queued'
  PROVE  m \in Queued \/ \E c \in Call : todo[c] # <<>> /\ Head(todo[c]) = m
<1>1. m \in Control /\ m # "Abort" /\ m \notin Call
  BY ControlAndCalls DEF Control
<1>2. queue \in Seq(Command)
  BY DEF TypeOK
<1>3. ASSUME NEW x \in Command, Send(x) PROVE m \in Queued \/ m = x
  <2>1. ToSet(Append(queue, x)) = ToSet(queue) \cup {x}
    BY <1>2, PutLast
  <2> QED
    BY <1>3, <2>1 DEF Send, Queued
<1>4. ASSUME NEW x, Takes(x), queue' = Tail(queue) PROVE m \in Queued
  BY <1>4, QueueShrinks
<1>5. ASSUME queue' = queue PROVE m \in Queued
  BY <1>5 DEF Queued
<1>6. ASSUME NEW c \in Call, StartCall(c) PROVE m \in Queued
  BY <1>1, <1>3, <1>6, ControlAndCalls DEF StartCall
<1>7. ASSUME NEW c \in Call, CallRefused(c) \/ ReadAnswer(c) PROVE m \in Queued
  BY <1>5, <1>7 DEF CallRefused, ReadAnswer
<1>8. ASSUME NEW c \in Call, CallerGivesUp(c) PROVE m \in Queued
  BY <1>8, QueueWithdraws
<1>9. ASSUME NEW c \in Call, FollowUp(c)
      PROVE  m \in Queued \/ (todo[c] # <<>> /\ Head(todo[c]) = m)
  <2>1. todo[c] # <<>> /\ Head(todo[c]) \in Command
    BY <1>9, TakeHead, ControlAndCalls DEF FollowUp, TypeOK
  <2> QED
    BY <1>3, <1>5, <1>9, <2>1 DEF FollowUp
<1>10. CASE Abort
  <2>1. "Abort" \in Command
    BY DEF Command, Control
  <2> QED
    BY <1>1, <1>3, <1>5, <1>10, <2>1 DEF Abort
<1>11. ASSUME NEW c \in Call, HandleRequest(c) PROVE m \in Queued
  BY <1>4, <1>11 DEF HandleRequest
<1>12. CASE TakesControl
  BY <1>4, <1>12 DEF TakesControl, HandleSetLogin, HandleUpdateHeartbeat,
    HandleClose
<1>13. CASE RequestNotWritten
  BY <1>5, <1>13 DEF RequestNotWritten
<1>14. CASE Stops
  <2>1. PICK b : Stop(b)
    BY <1>14, StopsStop
  <2> QED
    BY <2>1 DEF Stop, Queued, ToSet
<1>15. CASE Quiet
  BY <1>5, <1>15, QuietTouchesNobody
<1> QED
  BY <1>6, <1>7, <1>8, <1>9, <1>10, <1>11, <1>12, <1>13, <1>14, <1>15, Cases

LEMMA FollowUpsKept ==
  ASSUME TypeOK, CallersAccounted, ControlFollowsAnswer, FollowUpsAfterAnswer,
         [Next]_vars
  PROVE  ControlFollowsAnswer' /\ FollowUpsAfterAnswer'
<1> DEFINE Goes(c, s) == \A k \in 1..Len(s) :
             /\ s[k] = "SetLogin" => c \in LoginCall
             /\ s[k] = "Close" => c \in LogoutCall
<1>1. /\ todo \in [Call -> Seq(Control)]
      /\ LoginCall \subseteq Call /\ LogoutCall \subseteq Call
      /\ outcome \in [Call -> {"idle", "waiting", "dropped", "Ok", "SendFailed",
                               "ConnectionClosed"}]
  BY PlantActorAssumption DEF TypeOK
<1>2. \A c \in Call : /\ Goes(c, todo[c])
                      /\ 1..Len(todo[c]) # {} => outcome[c] = "Ok"
  BY DEF FollowUpsAfterAnswer
<1>3. \A c \in Call : outcome[c] = "Ok" => outcome'[c] = "Ok"
  BY OkStays
<1>4. ASSUME NEW c \in Call, todo[c] # <<>>
      PROVE  /\ outcome[c] = "Ok"
             /\ Head(todo[c]) = "SetLogin" => c \in LoginCall
             /\ Head(todo[c]) = "Close" => c \in LogoutCall
             /\ Goes(c, Tail(todo[c]))
  <2>1. /\ Len(todo[c]) \in Nat \ {0} /\ Head(todo[c]) = todo[c][1]
        /\ Len(Tail(todo[c])) = Len(todo[c]) - 1
        /\ \A k \in 1..Len(Tail(todo[c])) : Tail(todo[c])[k] = todo[c][k + 1]
    BY <1>1, <1>4, TakeHead
  <2>2. 1 \in 1..Len(todo[c])
    BY <2>1
  <2>3. Goes(c, Tail(todo[c]))
    <3> SUFFICES ASSUME NEW k \in 1..Len(Tail(todo[c]))
                 PROVE  /\ Tail(todo[c])[k] = "SetLogin" => c \in LoginCall
                        /\ Tail(todo[c])[k] = "Close" => c \in LogoutCall
      OBVIOUS
    <3>1. k + 1 \in 1..Len(todo[c]) /\ Tail(todo[c])[k] = todo[c][k + 1]
      BY <2>1
    <3> QED
      BY <1>2, <3>1
  <2> QED
    BY <1>2, <2>1, <2>2, <2>3
<1>5. ASSUME NEW c \in Call, NEW refused \in BOOLEAN
      PROVE  Goes(c, Script(c, refused))
  BY PlantActorAssumption DEF Script
<1>6. /\ "SetLogin" \in Queued' => \E c \in LoginCall : outcome'[c] = "Ok"
      /\ "Close" \in Queued' => \E c \in LogoutCall : outcome'[c] = "Ok"
  <2>1. ASSUME "SetLogin" \in Queued'
        PROVE  \E c \in LoginCall : outcome'[c] = "Ok"
    <3>1. CASE "SetLogin" \in Queued
      BY <1>1, <1>3, <3>1 DEF FollowUpsAfterAnswer
    <3>2. CASE \E c \in Call : todo[c] # <<>> /\ Head(todo[c]) = "SetLogin"
      BY <1>3, <1>4, <3>2
    <3> QED
      BY <2>1, <3>1, <3>2, QueueSources
  <2>2. ASSUME "Close" \in Queued'
        PROVE  \E c \in LogoutCall : outcome'[c] = "Ok"
    <3>1. CASE "Close" \in Queued
      BY <1>1, <1>3, <3>1 DEF FollowUpsAfterAnswer
    <3>2. CASE \E c \in Call : todo[c] # <<>> /\ Head(todo[c]) = "Close"
      BY <1>3, <1>4, <3>2
    <3> QED
      BY <2>2, <3>1, <3>2, QueueSources
  <2> QED
    BY <2>1, <2>2
<1>7. ControlFollowsAnswer'
  <2>1. /\ logged_in' => logged_in \/ "SetLogin" \in Queued
        /\ pc' = "heartbeat" => pc = "heartbeat" \/ logged_in
        /\ closing' => closing \/ pc = "close"
        /\ pc' = "close" => pc = "close" \/ "Close" \in Queued
    BY FlagSources
  <2>2. (logged_in \/ pc = "heartbeat" \/ "SetLogin" \in Queued)
          => \E c \in LoginCall : outcome'[c] = "Ok"
    BY <1>1, <1>3 DEF ControlFollowsAnswer, FollowUpsAfterAnswer
  <2>3. (closing \/ pc = "close" \/ "Close" \in Queued)
          => \E c \in LogoutCall : outcome'[c] = "Ok"
    BY <1>1, <1>3 DEF ControlFollowsAnswer, FollowUpsAfterAnswer
  <2> QED
    BY <2>1, <2>2, <2>3 DEF ControlFollowsAnswer
<1>8. \A c \in Call : /\ Goes(c, todo'[c])
                      /\ 1..Len(todo'[c]) # {} => outcome'[c] = "Ok"
  <2> DEFINE Goal == \A c \in Call :
               /\ Goes(c, todo'[c])
               /\ 1..Len(todo'[c]) # {} => outcome'[c] = "Ok"
  <2> HIDE DEF Goes
  <2> SUFFICES Goal
    OBVIOUS
  <2>1. ASSUME todo' = todo PROVE Goal
    BY <1>2, <1>3, <2>1
  <2>2. ASSUME NEW c \in Call, FollowUp(c) PROVE Goal
    <3>1. /\ todo' = [todo EXCEPT ![c] = Tail(@)]
          /\ outcome[c] = "Ok" /\ Goes(c, Tail(todo[c]))
      BY <1>4, <2>2 DEF FollowUp
    <3> QED
      BY <1>1, <1>2, <1>3, <3>1
  <2>3. ASSUME NEW c \in Call, ReadAnswer(c) PROVE Goal
    <3>1. CASE UNCHANGED todo
      BY <2>1, <3>1
    <3>2. CASE ~UNCHANGED todo
      <4>1. PICK refused \in BOOLEAN :
              /\ todo' = [todo EXCEPT ![c] = Script(c, refused)]
              /\ outcome' = [outcome EXCEPT ![c] = "Ok"]
        BY <2>3, <3>2 DEF ReadAnswer
      <4> QED
        BY <1>1, <1>2, <1>5, <4>1
    <3> QED
      BY <3>1, <3>2
  <2>4. ASSUME NEW c \in Call, \/ StartCall(c) \/ CallRefused(c)
                               \/ CallerGivesUp(c) \/ HandleRequest(c)
        PROVE  Goal
    BY <2>1, <2>4 DEF StartCall, CallRefused, CallerGivesUp, HandleRequest,
      handles
  <2>5. CASE Abort \/ TakesControl \/ RequestNotWritten
    BY <2>1, <2>5 DEF Abort, TakesControl, HandleSetLogin,
      HandleUpdateHeartbeat, HandleClose, RequestNotWritten, handles
  <2>6. CASE Stops \/ Quiet
    BY <2>1, <2>6, StopsStop, QuietTouchesNobody
  <2> QED
    BY <2>2, <2>3, <2>4, <2>5, <2>6, Cases
<1>9. FollowUpsAfterAnswer'
  <2>1. ASSUME NEW c \in Call, NEW k \in 1..Len(todo'[c])
        PROVE  /\ outcome'[c] = "Ok"
               /\ todo'[c][k] = "SetLogin" => c \in LoginCall
               /\ todo'[c][k] = "Close" => c \in LogoutCall
    BY <1>8
  <2> QED
    BY <1>6, <2>1 DEF FollowUpsAfterAnswer
<1> QED
  BY <1>7, <1>9

-----------------------------------------------------------------------------
(* The silent stop.                                                        *)

LEMMA SilenceKept ==
  ASSUME TypeOK, CloseFrameFromServer, SilentStopOnlyOnClose, [Next]_vars
  PROVE  SilentStopOnlyOnClose'
<1>1. server_closed => server_closed'
  BY WireStep
<1>2. ASSUME running' = running, notice' = notice
      PROVE  SilentStopOnlyOnClose'
  BY <1>1, <1>2 DEF SilentStopOnlyOnClose
<1>3. ASSUME running' PROVE SilentStopOnlyOnClose'
  BY <1>3 DEF SilentStopOnlyOnClose
<1>4. ASSUME NEW c \in Call, \/ StartCall(c) \/ CallRefused(c)
                             \/ CallerGivesUp(c) \/ FollowUp(c)
      PROVE  SilentStopOnlyOnClose'
  BY <1>2, <1>4 DEF StartCall, CallRefused, CallerGivesUp, FollowUp, actor, running
<1>5. ASSUME NEW c \in Call, HandleRequest(c) \/ ReadAnswer(c)
      PROVE  SilentStopOnlyOnClose'
  BY <1>3, <1>5 DEF HandleRequest, ReadAnswer, Reads, running
<1>6. CASE Abort \/ TakesControl \/ RequestNotWritten
  BY <1>2, <1>6 DEF Abort, TakesControl, HandleSetLogin, HandleUpdateHeartbeat,
    HandleClose, Takes, RequestNotWritten, actor, running
<1>7. CASE Quiet
  <2>1. notice' = notice
    BY <1>7, EnvironmentLeavesActor DEF Quiet, HeartbeatTick, PingTick,
      UntimedWriteReturns, RequestWritten, PingWritten, ReadUndecodable,
      ReadPong, ReadOtherError, actor, vars
  <2> QED
    BY <1>2, <1>7, <2>1, QuietTouchesNobody
<1>8. CASE HandleAbort \/ PingDeadline \/ ReadError
  BY <1>8 DEF HandleAbort, PingDeadline, ReadError, Stop, SilentStopOnlyOnClose
<1>9. CASE PingNotWritten
  BY <1>9 DEF PingNotWritten, Stop, SilentStopOnlyOnClose
<1>10. CASE ReadClose
  <2>1. wire \in Seq(Frame) /\ wire # <<>> /\ Head(wire) = "Close"
    BY <1>10 DEF ReadClose, Reads, TypeOK
  <2>2. 1 \in 1..Len(wire) /\ wire[1] = "Close"
    BY <2>1, TakeHead
  <2> QED
    BY <1>1, <2>2 DEF CloseFrameFromServer, SilentStopOnlyOnClose
<1> QED
  BY <1>4, <1>5, <1>6, <1>7, <1>8, <1>9, <1>10, Cases DEF Stops

-----------------------------------------------------------------------------
(* The invariant, and the theorems it gives.                               *)

LEMMA InitCorrect == Init => IInv
<1> SUFFICES ASSUME Init PROVE IInv
  OBVIOUS
<1>1. /\ <<>> \in Seq(Command) /\ <<>> \in Seq(Frame) /\ <<>> \in Seq(Control)
      /\ Len(<<>>) = 0
  BY EmptySeq
<1>2. /\ {logged_in, ping_pending, reader_ended, closing} \subseteq BOOLEAN
      /\ {pong_owed, server_closed} \subseteq BOOLEAN
  BY Zenon DEF Init
<1>3. TypeOK
  BY <1>1, <1>2 DEF Init, TypeOK
<1>4. Queued = {}
  BY DEF Init, Queued, ToSet
<1>5. CallersAccounted /\ IdleNowhere /\ WriteHasCall
  BY <1>1, <1>4 DEF Init, CallersAccounted, IdleNowhere, WriteHasCall
<1>6. ControlFollowsAnswer /\ FollowUpsAfterAnswer
  BY <1>1, <1>4 DEF Init, ControlFollowsAnswer, FollowUpsAfterAnswer
<1>7. SilentStopOnlyOnClose /\ CloseFrameFromServer
  BY <1>1 DEF Init, SilentStopOnlyOnClose, CloseFrameFromServer, running
<1> QED
  BY <1>3, <1>5, <1>6, <1>7 DEF IInv

LEMMA StepCorrect == IInv /\ [Next]_vars => IInv'
BY TypesKept, AccountingKept, FollowUpsKept, SilenceKept DEF IInv, Accounting

LEMMA Inductive == Spec => []IInv
BY InitCorrect, StepCorrect, PTL DEF Spec

(* The variables of a plant keep their types; only while the actor writes  *)
(* a request has it a current call.                                        *)
THEOREM TypeCorrect == Spec => []TypeOK
<1>1. IInv => TypeOK
  BY DEF IInv
<1> QED
  BY <1>1, Inductive, PTL

(***************************************************************************)
(* However many calls, givers-up and failures: who waits is held in the    *)
(* queue or in handle_map, never in both, so the drop of the actor wakes   *)
(* everybody (send_or_fail, fail_request, drain_and_drop).                 *)
(***************************************************************************)
THEOREM CallersHeld == Spec => []CallersAccounted
<1>1. IInv => CallersAccounted
  BY DEF IInv
<1> QED
  BY <1>1, Inductive, PTL

(***************************************************************************)
(* No heartbeat before an answered login, no Close frame before an         *)
(* answered logout (login_with_config, disconnect).                        *)
(***************************************************************************)
THEOREM ControlInOrder == Spec => []ControlFollowsAnswer
<1>1. IInv => ControlFollowsAnswer
  BY DEF IInv
<1> QED
  BY <1>1, Inductive, PTL

(***************************************************************************)
(* A plant that stops without a broadcast was told Close by the server, or *)
(* is history_plant.                                                       *)
(***************************************************************************)
THEOREM SilenceExplained == Spec => []SilentStopOnlyOnClose
<1>1. IInv => SilentStopOnlyOnClose
  BY DEF IInv
<1> QED
  BY <1>1, Inductive, PTL

-----------------------------------------------------------------------------
(* The promise to the callers.                                             *)

LEMMA StepRefines ==
  ASSUME IInv, [Next]_vars
  PROVE  [Service!Next]_(Service!svars)
<1> USE DEF Service!svars, Service!Next, Service!Becomes
<1> DEFINE Goal == [Service!Next]_(Service!svars)
<1>1. /\ TypeOK /\ CallersAccounted /\ WriteHasCall
      /\ outcome \in [Call -> {"idle", "waiting", "dropped", "Ok", "SendFailed",
                               "ConnectionClosed"}]
  BY DEF IInv, TypeOK
<1>2. ASSUME outcome' = outcome, running' = running PROVE Goal
  BY <1>2
<1>3. ASSUME NEW c \in Call, StartCall(c) PROVE Service!Accept(c)
  BY <1>3 DEF StartCall, Service!Accept, actor, running
<1>4. ASSUME NEW c \in Call, CallRefused(c) PROVE Service!Refuse(c)
  BY <1>4 DEF CallRefused, Service!Refuse, actor, running
<1>5. ASSUME NEW c \in Call, CallerGivesUp(c) PROVE Service!GiveUp(c)
  BY <1>5 DEF CallerGivesUp, Service!GiveUp, actor, running
<1>6. ASSUME NEW c \in Call, FollowUp(c) PROVE Goal
  BY <1>2, <1>6 DEF FollowUp, actor, running
<1>7. ASSUME NEW c \in Call, HandleRequest(c) PROVE Goal
  BY <1>2, <1>7 DEF HandleRequest, Takes, handles, running
<1>8. CASE Abort \/ TakesControl
  BY <1>2, <1>8 DEF Abort, TakesControl, HandleSetLogin, HandleUpdateHeartbeat,
    HandleClose, Takes, handles, actor, running
<1>9. CASE RequestNotWritten
  <2>1. running /\ running' /\ fail_request(current) /\ current \in Call
    BY <1>1, <1>9 DEF RequestNotWritten, WriteHasCall, running
  <2>2. CASE outcome[current] = "waiting"
    <3>1. Service!Fail(current)
      BY <1>1, <2>1, <2>2 DEF fail_request, Service!Fail
    <3> QED
      BY <2>1, <3>1
  <2>3. CASE outcome[current] # "waiting"
    BY <1>1, <1>2, <2>1, <2>3 DEF fail_request
  <2> QED
    BY <2>2, <2>3
<1>10. ASSUME NEW c \in Call, ReadAnswer(c) PROVE Goal
  <2>1. running /\ running'
    BY <1>10 DEF ReadAnswer, Reads, running
  <2>2. CASE c \in handle_map /\ outcome[c] = "waiting"
    <3>1. Service!Answer(c)
      BY <1>10, <2>1, <2>2 DEF ReadAnswer, Service!Answer
    <3> QED
      BY <3>1
  <2>3. CASE ~(c \in handle_map /\ outcome[c] = "waiting")
    BY <1>2, <1>10, <2>1, <2>3 DEF ReadAnswer
  <2> QED
    BY <2>2, <2>3
<1>11. CASE Stops
  <2>1. PICK b : Stop(b)
    BY <1>11, StopsStop
  <2>2. running /\ ~running'
    BY <1>11, <2>1, StopsStop DEF Stop, running
  <2>3. \A c \in Call : outcome[c] = "waiting" => c \in handle_map \/ c \in Queued
    BY <1>1 DEF CallersAccounted
  <2>4. outcome' = [c \in Call |->
          IF outcome[c] = "waiting" THEN "ConnectionClosed" ELSE outcome[c]]
    BY <2>1, <2>3 DEF Stop
  <2>5. Service!Close
    BY <2>2, <2>4 DEF Service!Close
  <2> QED
    BY <2>5
<1>12. CASE Quiet
  BY <1>2, <1>12, QuietTouchesNobody
<1> QED
  BY <1>3, <1>4, <1>5, <1>6, <1>7, <1>8, <1>9, <1>10, <1>11, <1>12, Cases

(***************************************************************************)
(* A plant implements RequestService: one outcome for each call, and       *)
(* whatever stops the actor, everybody who waits learns of it.             *)
(***************************************************************************)
THEOREM PlantImplementsService == Spec => ImplementsService
<1>1. Init => Service!Init
  BY DEF Init, Service!Init, running
<1>2. IInv /\ [Next]_vars => [Service!Next]_(Service!svars)
  BY StepRefines
<1> QED
  BY <1>1, <1>2, Inductive, PTL DEF Spec, ImplementsService, Service!Spec

=============================================================================
