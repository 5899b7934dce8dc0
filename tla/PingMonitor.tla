---------------------------- MODULE PingMonitor ----------------------------
(***************************************************************************)
(* The watchdog of a plant in discrete time: the ping interval, the ping   *)
(* manager and the select! loop that serves them only between writes.      *)
(* PlantActor has the rest of the loop and no clock.                       *)
(***************************************************************************)
EXTENDS Naturals, Sequences

CONSTANTS
  Interval,    \* PING_INTERVAL_SECS (60 s)
  Timeout,     \* PING_TIMEOUT_SECS (50 s)
  WriteLimit,  \* limit of a request's or a ping's write (10 s)
  Slack,       \* bound: select! serves a timer arm that is ready within Slack
  MaxTime,     \* bound on the clock
  None

ASSUME PingMonitorAssumption ==
  /\ {Interval, Timeout, WriteLimit, Slack, MaxTime} \subseteq Nat
  /\ 0 < Timeout /\ Timeout + 1 < Interval
  /\ WriteLimit <= Slack
  /\ None \notin Nat

VARIABLES
  now,
  pc,         \* select, or the write it waits for: ping, request, untimed
  since,      \* when that write began, 0 in select
  next_ping,  \* when the ping interval ticks next
  pending,    \* PingManager: when the ping without a pong was sent, or None
  flight,     \* pings the server has not answered, by their time
  wire,       \* pongs not read yet: the ping, and whether they came in time
  freed,      \* when an untimed write longer than WriteLimit last returned
  \* history
  scheduled,  \* the tick that sent the last ping
  overrun,    \* a write went on past the deadline of the pending ping
  replaced,   \* a ping has replaced a pending one
  calm,       \* last pong read, ping replaced, or hang ended
  cause       \* why the plant stopped: none, timeout, write

history == <<scheduled, overrun, replaced, calm, cause>>
vars == <<now, pc, since, next_ping, pending, flight, wire, freed, history>>

running == pc # "stopped"

TypeOK ==
  /\ now \in 0..MaxTime
  /\ pc \in {"select", "ping", "request", "untimed", "stopped"}
  /\ pending \in Nat \cup {None}
  /\ {since, next_ping, freed, scheduled, calm} \subseteq Nat
  /\ flight \in Seq(Nat)
  /\ wire \in Seq([ping : Nat, in_time : BOOLEAN])
  /\ {overrun, replaced} \subseteq BOOLEAN
  /\ cause \in {"none", "timeout", "write"}

(* The interval starts one period after the plant.                         *)
Init ==
  /\ now = 0
  /\ pc = "select"
  /\ since = 0
  /\ next_ping = Interval
  /\ pending = None
  /\ flight = <<>>
  /\ wire = <<>>
  /\ freed = 0
  /\ scheduled = 0
  /\ overrun = FALSE
  /\ replaced = FALSE
  /\ calm = 0
  /\ cause = "none"

-----------------------------------------------------------------------------
(* PingManager.                                                            *)

\* mutant: the ping is not recorded
SentUnrecorded ==
  /\ pending' = pending
  /\ overrun' = FALSE
  /\ UNCHANGED <<replaced, calm>>

sent ==
  /\ pending' = now
  /\ overrun' = FALSE
  /\ IF pending = None
     THEN UNCHANGED <<replaced, calm>>
     ELSE replaced' = TRUE /\ calm' = now

received ==
  /\ pending' = None
  /\ overrun' = FALSE
  /\ calm' = now

\* mutant: counted from the tick of the interval, not from the sending
CheckTimeoutFromTick == pending # None /\ now > scheduled + Timeout

\* mutant: with the interval in place of the timeout
CheckTimeoutInterval == pending # None /\ now > pending + Interval

check_timeout == pending # None /\ now > pending + Timeout

-----------------------------------------------------------------------------
(* The arms of select!.  A ready arm may lose to a write that starts, but  *)
(* a timer arm is not kept waiting longer than Slack (time spent hanging   *)
(* in an untimed write not counted).                                       *)

Later(a, b) == IF a < b THEN b ELSE a

PingReady == now >= next_ping

MayWrite ==
  /\ PingReady => now + WriteLimit <= Later(next_ping, freed) + Slack
  /\ check_timeout =>
       now + WriteLimit <= Later(pending + Timeout + 1, freed) + Slack

StartWrite(kind) ==
  /\ pc = "select"
  /\ pc' = kind
  /\ since' = now

(* A late tick does not move the following ones (MissedTickBehavior Burst).*)
PingTick ==
  /\ PingReady
  /\ StartWrite("ping")
  /\ sent
  /\ scheduled' = next_ping
  /\ next_ping' = next_ping + Interval
  /\ UNCHANGED <<now, flight, wire, freed, cause>>

(* A command that writes a request.                                        *)
HandleRequest ==
  /\ MayWrite
  /\ StartWrite("request")
  /\ UNCHANGED <<now, next_ping, pending, flight, wire, freed, history>>

(* SendHeartbeat or Close.                                                 *)
HandleUntimed ==
  /\ MayWrite
  /\ StartWrite("untimed")
  /\ UNCHANGED <<now, next_ping, pending, flight, wire, freed, history>>

Stop(why) == pc' = "stopped" /\ cause' = why

\* mutant: the pending ping is given up, the plant goes on
DeadlineGoesOn ==
  /\ pc = "select"
  /\ check_timeout
  /\ pending' = None
  /\ overrun' = FALSE
  /\ UNCHANGED <<now, pc, since, next_ping, flight, wire, freed, scheduled,
                 replaced, calm, cause>>

(* Woken exactly at the deadline, check_timeout still says no: then the    *)
(* arm does nothing and is ready again.                                    *)
PingDeadline ==
  /\ pc = "select"
  /\ check_timeout
  /\ Stop("timeout")
  /\ UNCHANGED <<now, since, next_ping, pending, flight, wire, freed,
                 scheduled, overrun, replaced, calm>>

ReadPong ==
  /\ pc = "select"
  /\ wire # <<>>
  /\ wire' = Tail(wire)
  /\ received
  /\ UNCHANGED <<now, pc, since, next_ping, flight, freed, scheduled,
                 replaced, cause>>

-----------------------------------------------------------------------------
(* The ends of writes.                                                     *)

WriteReturns(kind) ==
  /\ pc = kind
  /\ pc' = "select"
  /\ since' = 0
  /\ overrun' = (overrun \/ check_timeout)

PingWritten ==
  /\ WriteReturns("ping")
  /\ flight' = Append(flight, pending)
  /\ UNCHANGED <<now, next_ping, pending, wire, freed, scheduled, replaced,
                 calm, cause>>

(* An error at once, or WriteLimit without success.                        *)
PingNotWritten ==
  /\ pc = "ping"
  /\ Stop("write")
  /\ UNCHANGED <<now, since, next_ping, pending, flight, wire, freed,
                 scheduled, overrun, replaced, calm>>

(* Written, failed or timed out: the loop goes on.                         *)
RequestReturns ==
  /\ WriteReturns("request")
  /\ UNCHANGED <<now, next_ping, pending, flight, wire, freed, scheduled,
                 replaced, calm, cause>>

Hung == pc = "untimed" /\ now > since + WriteLimit

UntimedReturns ==
  /\ WriteReturns("untimed")
  /\ IF Hung THEN freed' = now /\ calm' = now ELSE UNCHANGED <<freed, calm>>
  /\ UNCHANGED <<now, next_ping, pending, flight, wire, scheduled, replaced,
                 cause>>

-----------------------------------------------------------------------------
(* The server answers pings in order, at any time or never.                *)
PongArrives ==
  /\ running
  /\ flight # <<>>
  /\ flight' = Tail(flight)
  /\ wire' = Append(wire, [ping |-> Head(flight),
                           in_time |-> now <= Head(flight) + Timeout])
  /\ UNCHANGED <<now, pc, since, next_ping, pending, freed, history>>

(* Time passes while no arm is ready and no write is at its limit.         *)
Tick ==
  /\ running
  /\ now < MaxTime
  /\ pc = "select" => ~(PingReady \/ check_timeout \/ wire # <<>>)
  /\ pc \in {"ping", "request"} => now < since + WriteLimit
  /\ now' = now + 1
  /\ UNCHANGED <<pc, since, next_ping, pending, flight, wire, freed, history>>

Next ==
  \/ PingTick \/ PingDeadline \/ ReadPong
  \/ HandleRequest \/ HandleUntimed
  \/ PingWritten \/ PingNotWritten \/ RequestReturns \/ UntimedReturns
  \/ PongArrives \/ Tick

Spec == Init /\ [][Next]_vars

-----------------------------------------------------------------------------
(* Properties.                                                             *)

(***************************************************************************)
(* The watchdog works: a plant that runs and does not hang in an untimed   *)
(* write has, within one interval, one timeout and the time select! may    *)
(* keep each of the two timers waiting, read a pong, replaced a pending    *)
(* ping, or come out of such a hang.  A dead connection gives no pong.     *)
(***************************************************************************)
SilenceBounded ==
  (running /\ ~Hung) => now <= calm + Interval + Timeout + 1 + 2 * Slack

(***************************************************************************)
(* A ping replaces a pending one, which puts off the timeout, only if the  *)
(* actor was held up: the pending ping left so long after its tick that    *)
(* its time was not over before the next tick, or a write was under way    *)
(* when its time was over.                                                 *)
(***************************************************************************)
ReplacedOnlyWhenHeldUp ==
  [][(scheduled' # scheduled /\ pending # None) =>
       \/ pending + Timeout + 1 >= scheduled + Interval
       \/ overrun]_vars

(***************************************************************************)
(* A plant times out although the pong had arrived in time only if a write *)
(* kept it from reading the pong and from looking at its deadline.         *)
(***************************************************************************)
TimeoutWithPongOnlyAfterWrite ==
  (cause = "timeout" /\ \E k \in 1..Len(wire) : wire[k].ping = pending
                                            /\ wire[k].in_time)
    => overrun

(***************************************************************************)
(* PingManager takes any pong for that of its latest ping.  This is right  *)
(* as long as no ping has replaced a pending one.                          *)
(***************************************************************************)
PongIsForPending ==
  ~replaced =>
    /\ Len(flight) + Len(wire) <= 1
    /\ \A k \in 1..Len(flight) : flight[k] = pending
    /\ \A k \in 1..Len(wire) : wire[k].ping = pending

=============================================================================
