----------------------------- MODULE Reconnect -----------------------------
(***************************************************************************)
(* A client that wants to stay connected: the connection strategies of     *)
(* ws.rs and the loop of examples/reconnect.rs around them (connect, login,*)
(* subscribe, recv until something ends it), over a plant that is only     *)
(* seen from outside: it runs, stops with a last broadcast, or stops       *)
(* without one (PlantActor), and its broadcasts go through a ring          *)
(* (Subscription).                                                         *)
(***************************************************************************)
EXTENDS Naturals, Sequences, SequencesExt

CONSTANTS
  Strategy,    \* the strategies the client may be configured with
  Ring,        \* messages the broadcast ring keeps
  MaxAttempt,  \* bound: attempts counted apart; further ones keep the parity
  MaxFault     \* bound: what goes wrong in all

ASSUME ReconnectAssumption ==
  /\ Strategy \subseteq {"Simple", "Retry", "AlternateWithRetry"}
  /\ Ring \in Nat \ {0}
  /\ MaxAttempt \in Nat /\ MaxAttempt > 1
  /\ MaxFault \in Nat

VARIABLES
  strategy,
  pc,         \* where the client is
  attempt,    \* the counter of the running connect_with_strategy
  plant,      \* the latest plant: none, running, stopped, closed (no broadcast)
  listening,  \* the client has a handle, with a receiver, of that plant
  inbox,      \* what that receiver has still to read
  lagged,     \* the ring has overtaken it
  subscribed, \* the server streams to that plant
  url,        \* how each server takes connections: up, down, slow
  faults      \* faults left to happen

client == <<strategy, pc, attempt>>
world == <<url, faults>>
vars == <<client, plant, listening, inbox, lagged, subscribed, world>>

Url == {"primary", "beta"}
Ending == {"ConnectionError", "HeartbeatTimeout", "ForcedLogout"}

TypeOK ==
  /\ strategy \in Strategy
  /\ pc \in {"connect", "attempt", "backoff", "connected", "login", "subscribe",
             "recv"}
  /\ attempt \in 1..MaxAttempt
  /\ plant \in {"none", "running", "stopped", "closed"}
  /\ inbox \in Seq(Ending \cup {"update"}) /\ Len(inbox) <= Ring
  /\ {listening, lagged, subscribed} \subseteq BOOLEAN
  /\ url \in [Url -> {"up", "down", "slow"}]
  /\ faults \in 0..MaxFault

Init ==
  /\ strategy \in Strategy
  /\ pc = "connect"
  /\ attempt = 1
  /\ plant = "none"
  /\ listening = FALSE
  /\ inbox = <<>>
  /\ lagged = FALSE
  /\ subscribed = FALSE
  /\ url \in [Url -> {"up", "down", "slow"}]
  /\ faults = MaxFault

Fault == faults > 0 /\ faults' = faults - 1

-----------------------------------------------------------------------------
(* connect_with_strategy.                                                  *)

Retries == strategy # "Simple"

selected_url ==
  IF strategy = "AlternateWithRetry" /\ attempt % 2 = 0 THEN "beta"
  ELSE "primary"

\* mutant: the attempts are counted from 0, so the second server comes first
connect_from_zero ==
  /\ pc = "connect"
  /\ attempt' = 0
  /\ pc' = "attempt"
  /\ UNCHANGED <<strategy, plant, listening, inbox, lagged, subscribed, world>>

connect ==
  /\ pc = "connect"
  /\ attempt' = 1
  /\ pc' = "attempt"
  /\ UNCHANGED <<strategy, plant, listening, inbox, lagged, subscribed, world>>

\* the new plant's actor is spawned; what is left of the old one is dropped,
\* its actor may run on.  Only the attempts of the retry loops have a timeout.
AttemptSucceeds ==
  /\ pc = "attempt"
  /\ url[selected_url] \in IF Retries THEN {"up"} ELSE {"up", "slow"}
  /\ pc' = "connected"
  /\ plant' = "running"
  /\ listening' = FALSE
  /\ inbox' = <<>>
  /\ lagged' = FALSE
  /\ subscribed' = FALSE
  /\ UNCHANGED <<strategy, attempt, world>>

\* the loop of the client calls connect again at once
AttemptFails ==
  /\ pc = "attempt"
  /\ url[selected_url] \in IF Retries THEN {"down", "slow"} ELSE {"down"}
  /\ pc' = IF Retries THEN "backoff" ELSE "connect"
  /\ UNCHANGED <<strategy, attempt, plant, listening, inbox, lagged, subscribed,
                 world>>

\* mutant: the counter is not incremented
backoff_alone ==
  /\ pc = "backoff"
  /\ pc' = "attempt"
  /\ UNCHANGED <<strategy, attempt, plant, listening, inbox, lagged, subscribed,
                 world>>

\* sleep(500 ms * attempt, at most 60 s)
backoff ==
  /\ pc = "backoff"
  /\ attempt' = IF attempt < MaxAttempt THEN attempt + 1 ELSE MaxAttempt - 1
  /\ pc' = "attempt"
  /\ UNCHANGED <<strategy, plant, listening, inbox, lagged, subscribed, world>>

-----------------------------------------------------------------------------
(* The loop of examples/reconnect.rs.                                      *)

\* mutant: the receiver is made when the client starts to read
get_handle_deaf ==
  /\ pc = "connected"
  /\ pc' = "login"
  /\ UNCHANGED <<strategy, attempt, plant, listening, inbox, lagged, subscribed,
                 world>>

get_handle ==
  /\ pc = "connected"
  /\ listening' = TRUE
  /\ pc' = "login"
  /\ UNCHANGED <<strategy, attempt, plant, inbox, lagged, subscribed, world>>

login ==
  /\ pc = "login"
  /\ plant = "running"
  /\ pc' = "subscribe"
  /\ UNCHANGED <<strategy, attempt, plant, listening, inbox, lagged, subscribed,
                 world>>

\* ConnectionClosed; or, with the plant running on, SendFailed or a rejection
login_fails ==
  /\ pc = "login"
  /\ \/ plant # "running" /\ UNCHANGED faults
     \/ plant = "running" /\ Fault
  /\ pc' = "connect"
  /\ UNCHANGED <<strategy, attempt, plant, listening, inbox, lagged, subscribed,
                 url>>

subscribe ==
  /\ pc = "subscribe"
  /\ plant = "running"
  /\ subscribed' = TRUE
  /\ pc' = "recv"
  /\ UNCHANGED <<strategy, attempt, plant, listening, inbox, lagged, world>>

\* ConnectionClosed, SendFailed, or an Ok with the server's rejection in it:
\* the break ends the loop over the subscriptions, nothing more
subscribe_fails ==
  /\ pc = "subscribe"
  /\ \/ plant # "running" /\ UNCHANGED faults
     \/ plant = "running" /\ Fault
  /\ pc' = "recv"
  /\ UNCHANGED <<strategy, attempt, plant, listening, inbox, lagged, subscribed,
                 url>>

recv_update ==
  /\ pc = "recv" /\ ~lagged
  /\ inbox # <<>> /\ Head(inbox) = "update"
  /\ inbox' = Tail(inbox)
  /\ UNCHANGED <<client, plant, listening, lagged, subscribed, world>>

recv_ending ==
  /\ pc = "recv" /\ ~lagged
  /\ inbox # <<>> /\ Head(inbox) \in Ending
  /\ inbox' = Tail(inbox)
  /\ pc' = "connect"
  /\ UNCHANGED <<strategy, attempt, plant, listening, lagged, subscribed, world>>

\* Err(Lagged) ends the while let; Err(Closed) cannot come, the handle holds
\* a sender
recv_lagged ==
  /\ pc = "recv" /\ lagged
  /\ pc' = "connect"
  /\ lagged' = FALSE
  /\ UNCHANGED <<strategy, attempt, plant, listening, inbox, subscribed, world>>

-----------------------------------------------------------------------------
(* The plant and the servers.                                              *)

publish(m) ==
  /\ inbox' = IF ~listening THEN inbox
              ELSE IF Len(inbox) < Ring THEN Append(inbox, m)
              ELSE Append(Tail(inbox), m)
  /\ lagged' = (lagged \/ (listening /\ Len(inbox) = Ring))

PublishUpdate ==
  /\ plant = "running" /\ subscribed
  /\ publish("update")
  /\ IF Len(inbox) < Ring THEN UNCHANGED faults ELSE Fault
  /\ UNCHANGED <<client, plant, listening, subscribed, url>>

Stop(m) ==
  /\ plant = "running"
  /\ Fault
  /\ publish(m)
  /\ plant' = "stopped"
  /\ UNCHANGED <<client, listening, subscribed, url>>

\* a Close frame of the server, or history's ping that could not be written
StopSilently ==
  /\ plant = "running"
  /\ Fault
  /\ plant' = "closed"
  /\ UNCHANGED <<client, listening, inbox, lagged, subscribed, url>>

\* the actor runs on after it
ForcedLogout ==
  /\ plant = "running"
  /\ Fault
  /\ publish("ForcedLogout")
  /\ subscribed' = FALSE
  /\ UNCHANGED <<client, plant, listening, url>>

UrlChanges(u, s) ==
  /\ url[u] # s
  /\ Fault
  /\ url' = [url EXCEPT ![u] = s]
  /\ UNCHANGED <<client, plant, listening, inbox, lagged, subscribed>>

-----------------------------------------------------------------------------
Connecting == connect \/ AttemptSucceeds \/ AttemptFails \/ backoff

Running ==
  \/ get_handle \/ login \/ login_fails \/ subscribe \/ subscribe_fails
  \/ recv_update \/ recv_ending \/ recv_lagged

Next ==
  \/ Connecting
  \/ Running
  \/ PublishUpdate
  \/ \E m \in {"ConnectionError", "HeartbeatTimeout"} : Stop(m)
  \/ StopSilently
  \/ ForcedLogout
  \/ \E u \in Url, s \in {"up", "down", "slow"} : UrlChanges(u, s)

Spec == Init /\ [][Next]_vars

(* Timers fire, a server that is up answers, and the client reads what is  *)
(* there to read.                                                          *)
FairSpec == Spec /\ WF_vars(Connecting) /\ WF_vars(Running)

-----------------------------------------------------------------------------
(* Properties.                                                             *)

Streaming == pc = "recv" /\ plant = "running" /\ subscribed

\* nothing more goes wrong, and a server the strategy tries takes connections
Calm ==
  /\ faults = 0
  /\ \/ url["primary"] = "up"
     \/ strategy = "Simple" /\ url["primary"] = "slow"
     \/ strategy = "AlternateWithRetry" /\ url["beta"] = "up"

\* the client waits, or is going to, for a message nobody will send
Stuck ==
  /\ pc \in {"subscribe", "recv"}
  /\ ~lagged
  /\ \A k \in 1..Len(inbox) : inbox[k] \notin Ending
  /\ plant = "closed" \/ (pc = "recv" /\ ~subscribed)

(* A loss the plant reported after the client had its handle is still      *)
(* there to be read, through login and the subscriptions, although nobody  *)
(* reads meanwhile: get_handle comes before login, and whoever lost it has *)
(* been told Lagged.                                                       *)
LossIsHeard ==
  pc \in {"subscribe", "recv"} /\ plant = "stopped"
    => \E k \in 1..Len(inbox) : inbox[k] \in Ending

(* Once servers and network behave again, the client streams again,        *)
(* whichever server takes connections and whatever state the faults left   *)
(* it in, but for those where it waits for a message nobody will send      *)
(* (alternation of connect_with_retry, loop of examples/reconnect.rs).     *)
Recovers == (Calm /\ ~Stuck) ~> Streaming

(* Not so.  examples/reconnect.rs:1 promises "Persistent connection with   *)
(* automatic reconnection and re-subscription": after a silent stop, and   *)
(* after a subscribe that failed, the client stays in recv().              *)
PersistentConnection == Calm ~> Streaming

=============================================================================
