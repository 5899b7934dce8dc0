-------------------------- MODULE PingMonitorProofs --------------------------
(***************************************************************************)
(* Machine-checked proofs about PingMonitor: its types and what the        *)
(* watchdog promises, for every interval, timeout, limit of writes and     *)
(* patience of select! that PingMonitorAssumption admits.                  *)
(***************************************************************************)
EXTENDS PingMonitor, SequenceTheorems, TLAPS

Pong == [ping : Nat, in_time : BOOLEAN]

\* the last pong or the like lies behind, and the tick keeps its distance
Order ==
  /\ freed <= calm /\ calm <= now
  /\ next_ping = scheduled + Interval
  /\ next_ping <= now + Interval
  /\ pending = None => next_ping <= calm + Interval
  /\ pending # None => pending <= calm + Interval + Slack
  /\ pc = "ping" => pending # None

\* until when select! must have served the timer that matters
Limit ==
  IF pending = None THEN calm + Interval + Slack
  ELSE Later(pending + Timeout + 1, calm) + Slack

(* Neither the loop nor a write that ends in time gets beyond Limit.       *)
Prompt ==
  /\ pc = "select" => now <= Limit
  /\ pc \in {"ping", "request", "untimed"} => since + WriteLimit <= Limit
  /\ pc \in {"ping", "request"} => now <= since + WriteLimit

(* The loop stands at a deadline that is over only if it has just come, or *)
(* came during a write.                                                    *)
AtDeadline ==
  (pc = "select" /\ check_timeout) => (overrun \/ now = pending + Timeout + 1)

AnswerWaits ==
  \E k \in 1..Len(wire) : wire[k].ping = pending /\ wire[k].in_time

(* A pong in time is left unread beyond the deadline only during a write.  *)
LateOnlyInWrite ==
  /\ (AnswerWaits /\ check_timeout)
       => (overrun \/ pc \in {"ping", "request", "untimed"} \/ cause = "write")
  /\ cause = "timeout" => check_timeout
  /\ cause # "none" <=> ~running

\* no pong is under way while the only ping is being written
PingAlone == (pc = "ping" /\ ~replaced) => (flight = <<>> /\ wire = <<>>)

IInv ==
  /\ TypeOK
  /\ Order /\ Prompt
  /\ AtDeadline /\ LateOnlyInWrite
  /\ PongIsForPending /\ PingAlone

-----------------------------------------------------------------------------
LEMMA Constants ==
  /\ Interval \in Nat /\ Timeout \in Nat /\ WriteLimit \in Nat /\ Slack \in Nat
  /\ MaxTime \in Nat /\ 0 < Timeout /\ Timeout + 1 < Interval
  /\ WriteLimit <= Slack /\ None \notin Nat
BY PingMonitorAssumption

LEMMA LaterIs ==
  ASSUME NEW a \in Nat, NEW b \in Nat
  PROVE  /\ Later(a, b) \in Nat
         /\ a <= Later(a, b) /\ b <= Later(a, b)
         /\ Later(a, b) = a \/ Later(a, b) = b
BY DEF Later

\* the variables in the forms the steps need
LEMMA Facts ==
  ASSUME TypeOK
  PROVE  /\ now \in Nat /\ since \in Nat /\ next_ping \in Nat /\ freed \in Nat
         /\ scheduled \in Nat /\ calm \in Nat
         /\ pending # None => pending \in Nat
         /\ Len(flight) \in Nat /\ Len(wire) \in Nat
BY Constants, LenProperties DEF TypeOK

LEMMA TakeHead ==
  ASSUME NEW S, NEW s \in Seq(S), s # <<>>
  PROVE  /\ Head(s) \in S /\ Tail(s) \in Seq(S)
         /\ Len(s) \in Nat \ {0} /\ Head(s) = s[1]
         /\ Len(Tail(s)) = Len(s) - 1
         /\ \A k \in 1..Len(Tail(s)) : Tail(s)[k] = s[k + 1]
<1>1. Len(s) \in Nat \ {0}
  BY EmptySeq, LenProperties
<1> QED
  BY <1>1, HeadTailProperties

-----------------------------------------------------------------------------
(* Types.                                                                  *)

LEMMA QueuesKept ==
  ASSUME TypeOK, Order, [Next]_vars
  PROVE  flight' \in Seq(Nat) /\ wire' \in Seq(Pong)
<1>1. flight \in Seq(Nat) /\ wire \in Seq(Pong)
  BY DEF TypeOK, Pong
<1>2. CASE PingWritten
  <2>1. pending \in Nat
    BY <1>2, Facts DEF PingWritten, WriteReturns, Order
  <2> QED
    BY <1>1, <1>2, <2>1, AppendProperties DEF PingWritten
<1>3. CASE PongArrives
  <2>1. Head(flight) \in Nat /\ Tail(flight) \in Seq(Nat)
    BY <1>1, <1>3, TakeHead DEF PongArrives
  <2>2. [ping |-> Head(flight), in_time |-> now <= Head(flight) + Timeout] \in Pong
    BY <2>1 DEF Pong
  <2> QED
    BY <1>1, <1>3, <2>1, <2>2, AppendProperties DEF PongArrives
<1>4. CASE ReadPong
  BY <1>1, <1>4, TakeHead DEF ReadPong
<1>5. CASE UNCHANGED <<flight, wire>>
  BY <1>1, <1>5
<1> QED
  BY <1>2, <1>3, <1>4, <1>5 DEF Next, PingTick, PingDeadline, HandleRequest,
    HandleUntimed, PingNotWritten, RequestReturns, UntimedReturns, Tick, vars

LEMMA TypesKept ==
  ASSUME TypeOK, Order, [Next]_vars
  PROVE  TypeOK'
<1> DEFINE Goal ==
      /\ now' \in 0..MaxTime
      /\ pc' \in {"select", "ping", "request", "untimed", "stopped"}
      /\ pending' \in Nat \cup {None}
      /\ since' \in Nat /\ next_ping' \in Nat /\ freed' \in Nat
      /\ scheduled' \in Nat /\ calm' \in Nat
      /\ overrun' \in BOOLEAN /\ replaced' \in BOOLEAN
      /\ cause' \in {"none", "timeout", "write"}
<1>1. /\ overrun \in BOOLEAN /\ replaced \in BOOLEAN
      /\ now \in 0..MaxTime /\ pending \in Nat \cup {None}
      /\ pc \in {"select", "ping", "request", "untimed", "stopped"}
      /\ cause \in {"none", "timeout", "write"}
  BY Zenon DEF TypeOK
<1>2. Goal
  <2> USE <1>1, Facts, Constants DEF StartWrite, WriteReturns, history
  <2>1. CASE PingTick
    <3>1. /\ now' = now /\ pc' = "ping" /\ since' = now /\ pending' = now
          /\ scheduled' = next_ping /\ next_ping' = next_ping + Interval
          /\ UNCHANGED <<freed, cause>> /\ calm' \in {calm, now}
      BY <2>1 DEF PingTick, sent
    <3>2. overrun' \in BOOLEAN /\ replaced' \in BOOLEAN
      BY <2>1, Zenon DEF PingTick, sent
    <3> QED
      BY <3>1, <3>2
  <2>2. CASE HandleRequest \/ HandleUntimed
    BY <2>2 DEF HandleRequest, HandleUntimed
  <2>3. CASE PingDeadline \/ PingNotWritten
    BY <2>3 DEF PingDeadline, PingNotWritten, Stop
  <2>4. CASE ReadPong
    <3>1. overrun' \in BOOLEAN
      BY <2>4, Zenon DEF ReadPong, received
    <3> QED
      BY <2>4, <3>1 DEF ReadPong, received
  <2>5. CASE PingWritten \/ RequestReturns
    <3>1. overrun' \in BOOLEAN
      BY <2>5, Zenon DEF PingWritten, RequestReturns
    <3>2. /\ pc' = "select" /\ since' = 0
          /\ UNCHANGED <<now, next_ping, pending, freed, scheduled, replaced,
                         calm, cause>>
      BY <2>5 DEF PingWritten, RequestReturns
    <3> QED
      BY <3>1, <3>2
  <2>6. CASE UntimedReturns
    BY <2>6 DEF UntimedReturns
  <2>7. CASE PongArrives
    BY <2>7 DEF PongArrives
  <2>8. CASE Tick
    <3>1. now < MaxTime => now + 1 \in 0..MaxTime
      OBVIOUS
    <3> HIDE Constants
    <3> QED
      BY <2>8, <3>1 DEF Tick
  <2>9. CASE UNCHANGED vars
    BY <2>9 DEF vars
  <2> QED
    BY <2>1, <2>2, <2>3, <2>4, <2>5, <2>6, <2>7, <2>8, <2>9, Zenon DEF Next
<1>3. {overrun, replaced}' \subseteq BOOLEAN
  BY <1>2, Zenon
<1>4. {since, next_ping, freed, scheduled, calm}' \subseteq Nat
  BY <1>2
<1> QED
  BY <1>2, <1>3, <1>4, QueuesKept DEF TypeOK, Pong

-----------------------------------------------------------------------------
(* Time.                                                                   *)

\* a write that may start by a deadline counted from an earlier instant
LEMMA LaterWaits ==
  ASSUME NEW due \in Nat, NEW f \in Nat, NEW c \in Nat, NEW n \in Nat,
         NEW w \in Nat, NEW s \in Nat,
         f <= c, n + w <= Later(due, f) + s
  PROVE  n + w <= Later(due, c) + s
BY DEF Later

\* a write that starts before the deadline
LEMMA NotYetDue ==
  ASSUME NEW due \in Nat, NEW c \in Nat, NEW n \in Nat,
         NEW w \in Nat, NEW s \in Nat,
         n < due, w <= s
  PROVE  n + w <= Later(due, c) + s
BY DEF Later

\* the timer of the next ping
LEMMA PingTimer ==
  ASSUME NEW due \in Nat, NEW f \in Nat, NEW c \in Nat, NEW n \in Nat,
         NEW w \in Nat, NEW s \in Nat, NEW i \in Nat,
         f <= c, c <= n, due <= c + i, w <= s,
         n >= due => n + w <= Later(due, f) + s
  PROVE  n + w <= c + i + s
BY DEF Later

\* the deadline of the latest ping there can be
LEMMA LastMoment ==
  ASSUME NEW p \in Nat, NEW t \in Nat, NEW c \in Nat, NEW n \in Nat,
         NEW i \in Nat, NEW s \in Nat,
         p <= c + i + s, n <= Later(p + t + 1, c) + s
  PROVE  n <= c + i + t + 1 + 2 * s
BY DEF Later

\* what the two ways into a write leave of Limit
LEMMA WritesFit ==
  ASSUME TypeOK, Order, Prompt, pc = "select", MayWrite
  PROVE  now + WriteLimit <= Limit
<1>1. CASE pending = None
  <2>1. now >= next_ping => now + WriteLimit <= Later(next_ping, freed) + Slack
    BY DEF MayWrite, PingReady
  <2>2. freed <= calm /\ calm <= now /\ next_ping <= calm + Interval
    BY <1>1 DEF Order
  <2>3. now + WriteLimit <= calm + Interval + Slack
    BY <2>1, <2>2, PingTimer, Facts, Constants
  <2> QED
    BY <1>1, <2>3 DEF Limit
<1>2. CASE pending # None
  <2> DEFINE due == pending + Timeout + 1
  <2>1. due \in Nat /\ Limit = Later(due, calm) + Slack
    BY <1>2, Facts, Constants DEF Limit
  <2>2. CASE now > pending + Timeout
    <3>1. now + WriteLimit <= Later(due, freed) + Slack
      BY <1>2, <2>2 DEF MayWrite, check_timeout
    <3>2. freed <= calm
      BY DEF Order
    <3> HIDE DEF due
    <3>3. now + WriteLimit <= Later(due, calm) + Slack
      BY <2>1, <3>1, <3>2, LaterWaits, Facts, Constants
    <3> QED
      BY <2>1, <3>3
  <2>3. CASE ~(now > pending + Timeout)
    <3>1. now < due
      BY <1>2, <2>3, Facts, Constants
    <3> HIDE DEF due
    <3>2. now + WriteLimit <= Later(due, calm) + Slack
      BY <2>1, <3>1, NotYetDue, Facts, Constants
    <3> QED
      BY <2>1, <3>2
  <2> QED
    BY <2>2, <2>3
<1> QED
  BY <1>1, <1>2

\* a plant that runs and does not hang has not passed Limit
LEMMA NotPassed ==
  ASSUME TypeOK, Prompt, running, ~Hung
  PROVE  now <= Limit
<1> USE Facts, Constants
<1>1. Limit \in Nat
  <2>1. CASE pending = None
    BY <2>1 DEF Limit
  <2>2. CASE pending # None
    <3>1. pending + Timeout + 1 \in Nat
      BY <2>2
    <3>2. Later(pending + Timeout + 1, calm) \in Nat
      BY <3>1, LaterIs
    <3> QED
      BY <2>2, <3>2 DEF Limit
  <2> QED
    BY <2>1, <2>2
<1>2. pc \in {"select", "ping", "request", "untimed"}
  BY DEF TypeOK, running
<1>3. CASE pc = "untimed"
  BY <1>1, <1>3 DEF Hung, Prompt
<1> QED
  BY <1>1, <1>2, <1>3 DEF Prompt

LEMMA OrderKept ==
  ASSUME TypeOK, Order, Prompt, [Next]_vars
  PROVE  Order'
<1> USE Facts, Constants DEF history
<1>1. CASE PingTick
  <2>1. now <= Limit
    BY <1>1 DEF PingTick, StartWrite, Prompt
  <2>2. /\ now' = now /\ freed' = freed /\ pending' = now
        /\ scheduled' = next_ping /\ next_ping' = next_ping + Interval
        /\ IF pending = None THEN calm' = calm ELSE calm' = now
        /\ next_ping <= now
    BY <1>1 DEF PingTick, PingReady, sent
  <2>3. CASE pending = None
    <3>1. now <= calm + Interval + Slack
      BY <2>1, <2>3 DEF Limit
    <3>2. freed <= calm /\ calm <= now
      BY DEF Order
    <3>3. next_ping' <= now' + Interval
      BY <2>2
    <3>4. pending' # None
      BY <2>2
    <3> HIDE Facts, Constants
    <3> QED
      BY <2>2, <2>3, <3>1, <3>2, <3>3, <3>4 DEF Order
  <2>4. CASE pending # None
    <3>1. pending' # None /\ pending' <= calm' + Interval + Slack
      BY <2>2, <2>4
    <3>2. freed' <= calm' /\ calm' <= now'
      <4>1. calm' = now
        BY <2>2, <2>4
      <4>2. freed <= now
        BY DEF Order
      <4> QED
        BY <2>2, <4>1, <4>2
    <3>3. next_ping' = scheduled' + Interval /\ next_ping' <= now' + Interval
      BY <2>2
    <3> QED
      BY <3>1, <3>2, <3>3 DEF Order
  <2> QED
    BY <2>3, <2>4
<1>2. CASE HandleRequest \/ HandleUntimed
  BY <1>2 DEF HandleRequest, HandleUntimed, StartWrite, Order
<1>3. CASE PingDeadline \/ PingNotWritten
  BY <1>3 DEF PingDeadline, PingNotWritten, Stop, Order
<1>4. CASE ReadPong
  BY <1>4 DEF ReadPong, received, Order
<1>5. CASE PingWritten \/ RequestReturns
  BY <1>5 DEF PingWritten, RequestReturns, WriteReturns, Order
<1>6. CASE UntimedReturns
  <2>1. ASSUME calm <= now
        PROVE  /\ next_ping <= calm + Interval => next_ping <= now + Interval
               /\ pending # None => (pending <= calm + Interval + Slack
                                       => pending <= now + Interval + Slack)
    BY <2>1
  <2>2. now <= now /\ calm' \in {calm, now} /\ freed' \in {freed, calm'}
    BY <1>6 DEF UntimedReturns
  <2> HIDE Facts, Constants
  <2> QED
    BY <1>6, <2>1, <2>2 DEF UntimedReturns, WriteReturns, Order
<1>7. CASE PongArrives
  BY <1>7 DEF PongArrives, Order
<1>8. CASE Tick
  <2>1. /\ calm <= now => calm <= now + 1
        /\ next_ping <= now + Interval => next_ping <= (now + 1) + Interval
    OBVIOUS
  <2> HIDE Facts, Constants
  <2> QED
    BY <1>8, <2>1 DEF Tick, Order
<1>9. CASE UNCHANGED vars
  BY <1>9 DEF vars, Order
<1> QED
  BY <1>1, <1>2, <1>3, <1>4, <1>5, <1>6, <1>7, <1>8, <1>9 DEF Next

LEMMA PromptKept ==
  ASSUME TypeOK, Order, Prompt, [Next]_vars
  PROVE  Prompt'
<1> USE Facts, Constants DEF history
<1>1. CASE PingTick
  <2>1. now' = now /\ pc' = "ping" /\ since' = now /\ pending' = now
        /\ calm' \in {calm, now}
    BY <1>1 DEF PingTick, StartWrite, sent
  <2> DEFINE due == now + Timeout + 1
  <2>2. due \in Nat /\ now < due /\ calm' \in Nat
    BY <2>1
  <2>3. Limit' = Later(due, calm') + Slack
    BY <2>1 DEF Limit
  <2> HIDE Facts DEF due
  <2>4. now + WriteLimit <= Later(due, calm') + Slack
    BY <2>2, NotYetDue, Facts
  <2> QED
    <3>1. since' + WriteLimit <= Limit'
      BY <2>1, <2>3, <2>4
    <3>2. now' <= since' + WriteLimit
      BY <2>1, Facts
    <3> QED
      BY <2>1, <3>1, <3>2 DEF Prompt
<1>2. CASE HandleRequest \/ HandleUntimed
  <2>1. now + WriteLimit <= Limit
    BY <1>2, WritesFit DEF HandleRequest, HandleUntimed, StartWrite
  <2>2. Limit' = Limit
    BY <1>2 DEF HandleRequest, HandleUntimed, Limit
  <2> QED
    BY <1>2, <2>1, <2>2 DEF HandleRequest, HandleUntimed, StartWrite, Prompt
<1>3. CASE PingDeadline \/ PingNotWritten
  BY <1>3 DEF PingDeadline, PingNotWritten, Stop, Prompt
<1>4. CASE ReadPong
  BY <1>4 DEF ReadPong, received, Prompt, Limit
<1>5. CASE PingWritten \/ RequestReturns
  <2>1. Limit' = Limit /\ now' = now /\ pc' = "select"
    BY <1>5 DEF PingWritten, RequestReturns, WriteReturns, Limit
  <2>2. now <= Limit
    BY <1>5, NotPassed DEF PingWritten, RequestReturns, WriteReturns, running,
      Hung
  <2> QED
    BY <2>1, <2>2 DEF Prompt
<1>6. CASE UntimedReturns
  <2>1. now' = now /\ pc' = "select" /\ pending' = pending
    BY <1>6 DEF UntimedReturns, WriteReturns
  <2>2. CASE Hung
    <3>1. calm' = now
      BY <1>6, <2>2 DEF UntimedReturns
    <3>2. now <= Limit'
      <4>1. CASE pending = None
        <5>1. now <= now + Interval + Slack
          OBVIOUS
        <5> QED
          BY <2>1, <3>1, <4>1, <5>1 DEF Limit
      <4>2. CASE pending # None
        <5> DEFINE due == pending + Timeout + 1
        <5>1. due \in Nat
          BY <4>2
        <5>2. Limit' = Later(due, now) + Slack
          BY <2>1, <3>1, <4>2 DEF Limit
        <5> HIDE DEF due
        <5>3. Later(due, now) \in Nat /\ now <= Later(due, now)
          BY <5>1, LaterIs
        <5> QED
          BY <5>2, <5>3
      <4> QED
        BY <4>1, <4>2
    <3> QED
      BY <2>1, <3>2 DEF Prompt
  <2>3. CASE ~Hung
    <3>1. calm' = calm
      BY <1>6, <2>3 DEF UntimedReturns
    <3>2. Limit' = Limit
      BY <2>1, <3>1 DEF Limit
    <3>3. now <= Limit
      BY <1>6, <2>3, NotPassed DEF UntimedReturns, WriteReturns, running
    <3> QED
      BY <2>1, <3>2, <3>3 DEF Prompt
  <2> QED
    BY <2>2, <2>3
<1>7. CASE PongArrives
  BY <1>7 DEF PongArrives, Prompt, Limit
<1>8. CASE Tick
  <2>1. /\ now' = now + 1 /\ pc' = pc /\ since' = since /\ Limit' = Limit
    BY <1>8 DEF Tick, Limit
  <2>2. pc = "select" => now + 1 <= Limit
    <3> SUFFICES ASSUME pc = "select" PROVE now + 1 <= Limit
      OBVIOUS
    <3>1. ~PingReady /\ ~check_timeout
      BY <1>8 DEF Tick
    <3>2. CASE pending = None
      <4>1. now < next_ping /\ next_ping <= calm + Interval
        BY <3>1, <3>2 DEF PingReady, Order
      <4>2. now + 1 <= calm + Interval + Slack
        BY <4>1
      <4> QED
        BY <3>2, <4>2 DEF Limit
    <3>3. CASE pending # None
      BY <3>1, <3>3 DEF check_timeout, Limit, Later
    <3> QED
      BY <3>2, <3>3
  <2> QED
    BY <1>8, <2>1, <2>2 DEF Tick, Prompt
<1>9. CASE UNCHANGED vars
  BY <1>9 DEF vars, Prompt, Limit
<1> QED
  BY <1>1, <1>2, <1>3, <1>4, <1>5, <1>6, <1>7, <1>8, <1>9 DEF Next

LEMMA AtDeadlineKept ==
  ASSUME TypeOK, AtDeadline, [Next]_vars
  PROVE  AtDeadline'
<1> USE Facts, Constants DEF history, AtDeadline, check_timeout
<1>1. CASE PingTick
  BY <1>1 DEF PingTick, StartWrite
<1>2. CASE HandleRequest \/ HandleUntimed
  BY <1>2 DEF HandleRequest, HandleUntimed, StartWrite
<1>3. CASE PingDeadline \/ PingNotWritten
  BY <1>3 DEF PingDeadline, PingNotWritten, Stop
<1>4. CASE ReadPong
  BY <1>4 DEF ReadPong, received
<1>5. CASE PingWritten \/ RequestReturns \/ UntimedReturns
  BY <1>5 DEF PingWritten, RequestReturns, UntimedReturns, WriteReturns
<1>6. CASE PongArrives
  BY <1>6 DEF PongArrives
<1>7. CASE Tick
  <2>1. /\ now' = now + 1 /\ pc' = pc /\ pending' = pending
        /\ pc = "select" => ~(pending # None /\ now > pending + Timeout)
    BY <1>7 DEF Tick
  <2> SUFFICES ASSUME pc = "select", pending # None, now + 1 > pending + Timeout
               PROVE  now + 1 = pending + Timeout + 1
    BY <2>1
  <2> QED
    BY <2>1
<1>8. CASE UNCHANGED vars
  BY <1>8 DEF vars
<1> QED
  BY <1>1, <1>2, <1>3, <1>4, <1>5, <1>6, <1>7, <1>8 DEF Next

-----------------------------------------------------------------------------
(* Pongs.                                                                  *)

\* while no ping was replaced and none is pending, nothing is under way
LEMMA NothingUnderWay ==
  ASSUME TypeOK, PongIsForPending, ~replaced, pending = None
  PROVE  flight = <<>> /\ wire = <<>>
<1>1. flight \in Seq(Nat) /\ wire \in Seq(Pong)
  BY DEF TypeOK, Pong
<1>2. CASE flight # <<>>
  <2>1. Head(flight) \in Nat /\ Head(flight) = flight[1] /\ 1 \in 1..Len(flight)
    BY <1>1, <1>2, TakeHead
  <2> QED
    BY <2>1, Constants DEF PongIsForPending
<1>3. CASE wire # <<>>
  <2>1. wire[1] \in Pong /\ 1 \in 1..Len(wire)
    BY <1>1, <1>3, TakeHead
  <2>2. wire[1].ping \in Nat
    BY <2>1 DEF Pong
  <2> QED
    BY <2>1, <2>2, Constants DEF PongIsForPending
<1> QED
  BY <1>2, <1>3

LEMMA PongsKept ==
  ASSUME TypeOK, Order, PongIsForPending, PingAlone, [Next]_vars
  PROVE  PongIsForPending' /\ PingAlone'
<1> USE DEF history
<1>1. flight \in Seq(Nat) /\ wire \in Seq(Pong)
      /\ Len(flight) \in Nat /\ Len(wire) \in Nat
  BY Facts DEF TypeOK, Pong
<1>2. CASE PingTick
  <2>1. CASE pending = None /\ ~replaced
    <3>1. flight' = <<>> /\ wire' = <<>>
      BY <1>2, <2>1, NothingUnderWay DEF PingTick
    <3> QED
      BY <3>1, EmptySeq DEF PongIsForPending, PingAlone
  <2>2. CASE ~(pending = None /\ ~replaced)
    <3>1. replaced'
      BY <1>2, <2>2 DEF PingTick, sent
    <3> QED
      BY <3>1 DEF PongIsForPending, PingAlone
  <2> QED
    BY <2>1, <2>2
<1>3. ASSUME UNCHANGED <<flight, wire, pending, replaced>>, pc' # "ping"
      PROVE  PongIsForPending' /\ PingAlone'
  BY <1>3 DEF PongIsForPending, PingAlone
<1>4. CASE HandleRequest \/ HandleUntimed
  BY <1>3, <1>4 DEF HandleRequest, HandleUntimed, StartWrite
<1>5. CASE PingDeadline \/ PingNotWritten
  BY <1>3, <1>5 DEF PingDeadline, PingNotWritten, Stop
<1>6. CASE RequestReturns \/ UntimedReturns
  BY <1>3, <1>6 DEF RequestReturns, UntimedReturns, WriteReturns
<1>7. CASE Tick \/ UNCHANGED vars
  <2>1. UNCHANGED <<flight, wire, pending, replaced, pc>>
    BY <1>7 DEF Tick, vars
  <2> QED
    BY <2>1 DEF PongIsForPending, PingAlone
<1>8. CASE ReadPong
  <2>1. pc' = "select" /\ flight' = flight /\ wire' = Tail(wire)
        /\ replaced' = replaced /\ wire # <<>>
    BY <1>8 DEF ReadPong
  <2>2. Len(wire) \in Nat \ {0} /\ Len(Tail(wire)) = Len(wire) - 1
    BY <1>1, <2>1, TakeHead
  <2>3. ~replaced => Len(flight) = 0 /\ Len(wire') = 0
    BY <1>1, <2>1, <2>2 DEF PongIsForPending
  <2> QED
    BY <2>1, <2>3 DEF PongIsForPending, PingAlone
<1>9. CASE PingWritten
  <2>1. /\ pc = "ping" /\ pc' = "select" /\ flight' = Append(flight, pending)
        /\ UNCHANGED <<pending, wire, replaced>>
    BY <1>9 DEF PingWritten, WriteReturns
  <2>2. CASE replaced
    BY <2>1, <2>2 DEF PongIsForPending, PingAlone
  <2>3. CASE ~replaced
    <3>1. flight' = <<pending>> /\ wire' = <<>>
      BY <2>1, <2>3 DEF PingAlone
    <3> QED
      BY <2>1, <3>1 DEF PongIsForPending, PingAlone
  <2> QED
    BY <2>2, <2>3
<1>10. CASE PongArrives
  <2>1. /\ flight # <<>> /\ flight' = Tail(flight)
        /\ wire' = Append(wire, [ping |-> Head(flight),
                                 in_time |-> now <= Head(flight) + Timeout])
        /\ UNCHANGED <<pc, pending, replaced>>
    BY <1>10 DEF PongArrives
  <2>2. CASE replaced
    BY <2>1, <2>2 DEF PongIsForPending, PingAlone
  <2>3. CASE ~replaced
    <3>1. /\ Len(flight) \in Nat \ {0} /\ Head(flight) = flight[1]
          /\ Head(flight) \in Nat /\ Len(Tail(flight)) = Len(flight) - 1
      BY <1>1, <2>1, TakeHead
    <3>2. Len(flight) = 1 /\ Len(wire) = 0 /\ Head(flight) = pending
      BY <1>1, <2>3, <3>1 DEF PongIsForPending
    <3>3. wire = <<>>
      BY <1>1, <3>2, EmptySeq
    <3>4. /\ Len(flight') = 0
          /\ wire' = <<[ping |-> pending,
                        in_time |-> now <= Head(flight) + Timeout]>>
      BY <2>1, <3>1, <3>2, <3>3
    <3>5. PongIsForPending'
      BY <2>1, <3>4 DEF PongIsForPending
    <3>6. PingAlone'
      BY <2>1, <2>3 DEF PingAlone
    <3> QED
      BY <3>5, <3>6
  <2> QED
    BY <2>2, <2>3
<1> QED
  BY <1>2, <1>4, <1>5, <1>6, <1>7, <1>8, <1>9, <1>10 DEF Next

\* the stop records its cause, and the cause of a timeout stays true
LEMMA LateKept ==
  ASSUME TypeOK, LateOnlyInWrite, [Next]_vars
  PROVE  LateOnlyInWrite'
<1> USE Facts, Constants DEF history, check_timeout, running
<1>1. wire \in Seq(Pong) /\ Len(wire) \in Nat
  BY DEF TypeOK, Pong
<1>2. CASE PingTick
  BY <1>2 DEF PingTick, StartWrite, LateOnlyInWrite
<1>3. CASE HandleRequest \/ HandleUntimed
  BY <1>3 DEF HandleRequest, HandleUntimed, StartWrite, LateOnlyInWrite
<1>4. CASE PingDeadline
  BY <1>4 DEF PingDeadline, Stop, LateOnlyInWrite, AnswerWaits
<1>5. CASE PingNotWritten
  BY <1>5 DEF PingNotWritten, Stop, LateOnlyInWrite
<1>6. CASE ReadPong
  BY <1>6 DEF ReadPong, received, LateOnlyInWrite
<1>7. CASE PingWritten \/ RequestReturns \/ UntimedReturns
  BY <1>7 DEF PingWritten, RequestReturns, UntimedReturns, WriteReturns,
    LateOnlyInWrite
<1>8. CASE PongArrives
  <2> DEFINE new == [ping |-> Head(flight),
                     in_time |-> now <= Head(flight) + Timeout]
  <2>1. /\ UNCHANGED <<now, pc, pending, overrun, cause>>
        /\ wire' = Append(wire, new)
    BY <1>8 DEF PongArrives
  <2>2. Head(flight) \in Nat
    BY <1>8, TakeHead DEF PongArrives, TypeOK
  <2>3. new \in Pong
    BY <2>2 DEF Pong
  <2>4. /\ Len(wire') = Len(wire) + 1 /\ wire'[Len(wire) + 1] = new
        /\ \A k \in 1..Len(wire) : wire'[k] = wire[k]
    <3> HIDE DEF new
    <3> QED
      BY <1>1, <2>1, <2>3, AppendProperties
  <2>5. (AnswerWaits' /\ check_timeout) => AnswerWaits
    <3> SUFFICES ASSUME check_timeout, NEW k \in 1..Len(wire'),
                        wire'[k].ping = pending', wire'[k].in_time
                 PROVE  AnswerWaits
      BY DEF AnswerWaits
    <3>1. CASE k = Len(wire) + 1
      <4>1. wire'[k] = new
        BY <2>4, <3>1
      <4>2. new.ping = Head(flight) /\ new.in_time = (now <= Head(flight) + Timeout)
        BY Zenon DEF new
      <4>3. Head(flight) = pending /\ now <= Head(flight) + Timeout
        <5> HIDE DEF new
        <5> QED
          BY <2>1, <4>1, <4>2, Zenon
      <4> QED
        BY <2>2, <4>3
    <3>2. CASE k # Len(wire) + 1
      <4>1. k \in 1..Len(wire) /\ wire'[k] = wire[k]
        BY <1>1, <2>4, <3>2
      <4> QED
        BY <2>1, <4>1 DEF AnswerWaits
    <3> QED
      BY <3>1, <3>2
  <2> QED
    BY <2>1, <2>5 DEF LateOnlyInWrite
<1>9. CASE Tick
  <2>1. UNCHANGED <<pc, wire, pending, overrun, cause>> /\ running
    BY <1>9 DEF Tick
  <2>2. CASE pc = "select"
    <3>1. Len(wire') = 0
      BY <1>9, <2>1, <2>2 DEF Tick
    <3> QED
      BY <1>9, <2>1, <2>2, <3>1 DEF LateOnlyInWrite, AnswerWaits
  <2>3. CASE pc # "select"
    BY <2>1, <2>3 DEF LateOnlyInWrite, TypeOK
  <2> QED
    BY <2>2, <2>3
<1>10. CASE UNCHANGED vars
  BY <1>10 DEF vars, LateOnlyInWrite, AnswerWaits
<1> QED
  BY <1>2, <1>3, <1>4, <1>5, <1>6, <1>7, <1>8, <1>9, <1>10 DEF Next

-----------------------------------------------------------------------------
(* The invariant, and the theorems it gives.                               *)

LEMMA InitCorrect == Init => IInv
<1> SUFFICES ASSUME Init PROVE IInv
  OBVIOUS
<1> USE Constants
<1>1. <<>> \in Seq(Nat) /\ <<>> \in Seq(Pong) /\ Len(<<>>) = 0
  BY EmptySeq
<1>2. {overrun, replaced} \subseteq BOOLEAN
  BY Zenon DEF Init
<1>3. TypeOK
  BY <1>1, <1>2 DEF Init, TypeOK, Pong
<1>4. Order /\ Prompt
  BY DEF Init, Order, Prompt, Limit
<1>5. AtDeadline /\ LateOnlyInWrite
  BY DEF Init, AtDeadline, LateOnlyInWrite, check_timeout, running
<1>6. PongIsForPending /\ PingAlone
  BY <1>1 DEF Init, PongIsForPending, PingAlone
<1> QED
  BY <1>3, <1>4, <1>5, <1>6 DEF IInv

LEMMA StepCorrect == IInv /\ [Next]_vars => IInv'
BY TypesKept, OrderKept, PromptKept, AtDeadlineKept, LateKept, PongsKept DEF IInv

LEMMA Inductive == Spec => []IInv
BY InitCorrect, StepCorrect, PTL DEF Spec

(* The clock, the ping manager and the connection keep their types.        *)
THEOREM TypeCorrect == Spec => []TypeOK
<1>1. IInv => TypeOK
  BY DEF IInv
<1> QED
  BY <1>1, Inductive, PTL

(***************************************************************************)
(* The watchdog of a plant is never silent for longer than one interval,   *)
(* one timeout and twice what select! may take, outside untimed writes     *)
(* that hang (the ping interval, next_timeout_at and check_timeout).       *)
(***************************************************************************)
THEOREM WatchdogWorks == Spec => []SilenceBounded
<1>1. ASSUME IInv PROVE SilenceBounded
  <2> SUFFICES ASSUME running, ~Hung
               PROVE  now <= calm + Interval + Timeout + 1 + 2 * Slack
    BY DEF SilenceBounded
  <2>1. TypeOK /\ Order /\ now <= Limit
    BY <1>1, NotPassed DEF IInv
  <2>2. /\ now \in Nat /\ calm \in Nat
        /\ Interval \in Nat /\ Timeout \in Nat /\ Slack \in Nat
    BY <2>1, Facts, Constants
  <2>3. CASE pending = None
    <3>1. now <= calm + Interval + Slack
      BY <2>1, <2>3 DEF Limit
    <3> QED
      BY <2>2, <3>1
  <2>4. CASE pending # None
    <3>1. pending \in Nat /\ pending <= calm + Interval + Slack
      BY <2>1, <2>4, Facts DEF Order
    <3>2. now <= Later(pending + Timeout + 1, calm) + Slack
      BY <2>1, <2>4 DEF Limit
    <3> QED
      BY <2>2, <3>1, <3>2, LastMoment
  <2> QED
    BY <2>3, <2>4
<1> QED
  BY <1>1, Inductive, PTL

(***************************************************************************)
(* PingManager's "any pong is for the latest ping" is right as long as no  *)
(* pending ping was replaced (sent, received).                             *)
(***************************************************************************)
THEOREM PongsAttributed == Spec => []PongIsForPending
<1>1. IInv => PongIsForPending
  BY DEF IInv
<1> QED
  BY <1>1, Inductive, PTL

(***************************************************************************)
(* A timeout although the pong was there in time takes a write that kept   *)
(* the loop from both the pong and the deadline (the select! of run).      *)
(***************************************************************************)
THEOREM TimeoutsHonest == Spec => []TimeoutWithPongOnlyAfterWrite
<1>1. ASSUME IInv PROVE TimeoutWithPongOnlyAfterWrite
  <2> SUFFICES ASSUME cause = "timeout", AnswerWaits PROVE overrun
    BY DEF TimeoutWithPongOnlyAfterWrite, AnswerWaits
  <2>1. check_timeout /\ pc = "stopped"
    BY <1>1 DEF IInv, LateOnlyInWrite, running
  <2> QED
    BY <1>1, <2>1 DEF IInv, LateOnlyInWrite
<1> QED
  BY <1>1, Inductive, PTL

(***************************************************************************)
(* Only a loop that was held up lets a ping replace a pending one and so   *)
(* puts off the timeout (the ping arm of run, 50 s against 60 s).          *)
(***************************************************************************)
THEOREM ReplacementExplained == Spec => ReplacedOnlyWhenHeldUp
<1> DEFINE Allowed == (scheduled' # scheduled /\ pending # None) =>
             \/ pending + Timeout + 1 >= scheduled + Interval
             \/ overrun
<1>1. ASSUME IInv, [Next]_vars PROVE [Allowed]_vars
  <2> USE Facts, Constants
  <2>1. TypeOK /\ Order /\ AtDeadline
    BY <1>1 DEF IInv
  <2>2. CASE PingTick
    <3>1. pc = "select" /\ now >= scheduled + Interval
      BY <2>1, <2>2 DEF PingTick, PingReady, StartWrite, Order
    <3> SUFFICES ASSUME pending # None, ~overrun
                 PROVE  pending + Timeout + 1 >= scheduled + Interval
      OBVIOUS
    <3>2. ~check_timeout \/ now = pending + Timeout + 1
      BY <2>1, <3>1 DEF AtDeadline
    <3> QED
      BY <2>1, <3>1, <3>2 DEF check_timeout
  <2>3. CASE ~PingTick
    <3>1. scheduled' = scheduled
      BY <1>1, <2>3 DEF Next, HandleRequest, HandleUntimed, PingDeadline,
        ReadPong, PingWritten, PingNotWritten, RequestReturns, UntimedReturns,
        PongArrives, Tick, history, vars
    <3> QED
      BY <3>1
  <2> QED
    BY <2>2, <2>3
<1> QED
  BY <1>1, Inductive, PTL DEF Spec, ReplacedOnlyWhenHeldUp

=============================================================================
