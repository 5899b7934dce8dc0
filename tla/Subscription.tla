---------------------------- MODULE Subscription ----------------------------
(***************************************************************************)
(* The subscription channel of a plant: a tokio broadcast channel that the *)
(* actor publishes to, the receivers in the handles, and the filter that   *)
(* order and pnl handles put before theirs.                                *)
(*                                                                         *)
(* The ring buffer keeps the last Capacity messages; log is all that was   *)
(* ever published, so a message is its position in log.                    *)
(***************************************************************************)
EXTENDS Naturals, Sequences, FiniteSets

CONSTANTS
  Receiver,     \* broadcast receivers, in handles and from resubscribe()
  Account,
  Plant,        \* ticker, history, order or pnl
  Capacity,     \* messages the ring keeps (16384, history 32768)
  MaxPublished  \* bound: messages published

ASSUME SubscriptionAssumption ==
  /\ Plant \in {"ticker", "history", "order", "pnl"}
  /\ Account # {}
  /\ Capacity \in Nat \ {0}
  /\ MaxPublished \in Nat

\* receivers are filtered by account, and the handles hold no sender
Filtered == Plant \in {"order", "pnl"}

\* account updates, messages without account_id, and the plant's last word
\* (ConnectionError or HeartbeatTimeout)
Untagged == {"untagged", "stop"}
Message == Account \cup Untagged

ASSUME AccountsAreTags == Account \cap Untagged = {}

VARIABLES
  log,          \* what was published, in order
  next,         \* receiver -> position it reads next, 0 before it exists
  account,      \* receiver -> the account of its filter
  got,          \* receiver -> positions recv() returned
  lag_told,     \* receiver -> sum of the n in Lagged(n)
  told_closed,  \* receiver -> recv() returned Closed
  actor_runs,   \* the actor's sender
  plant_held,   \* the plant's sender
  handle_held,  \* receiver -> it belongs to a handle that is alive
  disconnected, \* a disconnect() has published the logout response
  start,        \* history: receiver -> the first position it was to read
  skipped       \* history: receiver -> positions overwritten before it read

receivers == <<next, account, got, lag_told, told_closed, start, skipped>>
senders == <<actor_runs, plant_held, handle_held, disconnected>>
vars == <<log, receivers, senders>>

Open(r) == next[r] # 0

TypeOK ==
  /\ log \in Seq(Message)
  /\ next \in [Receiver -> Nat]
  /\ account \in [Receiver -> Account]
  /\ got \in [Receiver -> Seq(Nat)]
  /\ lag_told \in [Receiver -> Nat]
  /\ told_closed \in [Receiver -> BOOLEAN]
  /\ {actor_runs, plant_held, disconnected} \subseteq BOOLEAN
  /\ handle_held \in [Receiver -> BOOLEAN]
  /\ start \in [Receiver -> Nat]
  /\ skipped \in [Receiver -> SUBSET Nat]

Init ==
  /\ log = <<>>
  /\ next = [r \in Receiver |-> 0]
  /\ account = [r \in Receiver |-> CHOOSE a \in Account : TRUE]
  /\ got = [r \in Receiver |-> <<>>]
  /\ lag_told = [r \in Receiver |-> 0]
  /\ told_closed = [r \in Receiver |-> FALSE]
  /\ actor_runs = TRUE
  /\ plant_held = TRUE
  /\ handle_held = [r \in Receiver |-> FALSE]
  /\ disconnected = FALSE
  /\ start = [r \in Receiver |-> 0]
  /\ skipped = [r \in Receiver |-> {}]

-----------------------------------------------------------------------------
(* Opening a receiver.  Every way of doing so starts at the tail.          *)

Subscribe(r, a) ==
  /\ ~Open(r)
  /\ next' = [next EXCEPT ![r] = Len(log) + 1]
  /\ start' = [start EXCEPT ![r] = Len(log) + 1]
  /\ account' = [account EXCEPT ![r] = a]
  /\ UNCHANGED <<log, got, lag_told, told_closed, skipped, actor_runs,
                 plant_held, disconnected>>

get_handle(r, a) ==
  /\ plant_held
  /\ Subscribe(r, a)
  /\ handle_held' = [handle_held EXCEPT ![r] = TRUE]

\* only the handles of ticker and history can be cloned
CloneHandle(r, s) ==
  /\ ~Filtered /\ handle_held[s]
  /\ Subscribe(r, account[s])
  /\ handle_held' = [handle_held EXCEPT ![r] = TRUE]

resubscribe(r, s) ==
  /\ Open(s)
  /\ Subscribe(r, account[s])
  /\ UNCHANGED handle_held

\* the rest of a handle is dropped, its receiver lives on
DropHandle(r) ==
  /\ handle_held[r]
  /\ handle_held' = [handle_held EXCEPT ![r] = FALSE]
  /\ UNCHANGED <<log, receivers, actor_runs, plant_held, disconnected>>

DropPlant ==
  /\ plant_held
  /\ plant_held' = FALSE
  /\ UNCHANGED <<log, receivers, actor_runs, handle_held, disconnected>>

-----------------------------------------------------------------------------
(* Publishing.                                                             *)

Publish(m) == Len(log) < MaxPublished /\ log' = Append(log, m)

\* an update from the server, or the actor's report of a heartbeat error
ActorPublishes(m) ==
  /\ actor_runs
  /\ Publish(m)
  /\ UNCHANGED <<receivers, senders>>

\* the actor's last word; then its sender is dropped with it
ActorStops ==
  /\ actor_runs
  /\ Publish("stop")
  /\ actor_runs' = FALSE
  /\ UNCHANGED <<receivers, plant_held, handle_held, disconnected>>

\* a Close frame ends the actor without a word
ActorStopsSilently ==
  /\ actor_runs
  /\ actor_runs' = FALSE
  /\ UNCHANGED <<log, receivers, plant_held, handle_held, disconnected>>

\* disconnect() of ticker publishes the logout response, once the plant has
\* been told to close; history's does not.  Bound: one disconnect.
DisconnectPublishes(r) ==
  /\ Plant = "ticker" /\ handle_held[r] /\ ~disconnected
  /\ Publish("untagged")
  /\ disconnected' = TRUE
  /\ UNCHANGED <<receivers, actor_runs, plant_held, handle_held>>

-----------------------------------------------------------------------------
(* Receiving: one round of the loop in SubscriptionFilter::recv.           *)

\* mutant: the account is not looked at
ForwardAll(r, m) == TRUE

should_forward(r, m) == ~Filtered \/ m \in Untagged \/ m = account[r]

\* the oldest position the ring still holds
Oldest == IF Len(log) <= Capacity THEN 1 ELSE Len(log) - Capacity + 1

HasSender ==
  \/ actor_runs
  \/ plant_held
  \/ ~Filtered /\ \E r \in Receiver : handle_held[r]

\* mutant: the filter goes on with the newest message instead of the oldest
LagToTail(r) ==
  /\ Open(r) /\ next[r] < Oldest
  /\ lag_told' = [lag_told EXCEPT ![r] = @ + (Oldest - next[r])]
  /\ skipped' = [skipped EXCEPT ![r] = @ \cup (next[r]..(Oldest - 1))]
  /\ next' = [next EXCEPT ![r] = Len(log)]
  /\ UNCHANGED <<log, account, got, told_closed, start, senders>>

\* mutant: the operands of the difference swapped
LagCountsBackwards(r) ==
  /\ Open(r) /\ next[r] < Oldest
  /\ lag_told' = [lag_told EXCEPT ![r] = @ + (next[r] - Oldest)]
  /\ skipped' = [skipped EXCEPT ![r] = @ \cup (next[r]..(Oldest - 1))]
  /\ next' = [next EXCEPT ![r] = Oldest]
  /\ UNCHANGED <<log, account, got, told_closed, start, senders>>

\* recv() returns Lagged(n), whoever the n messages were for
Lag(r) ==
  /\ Open(r) /\ next[r] < Oldest
  /\ lag_told' = [lag_told EXCEPT ![r] = @ + (Oldest - next[r])]
  /\ skipped' = [skipped EXCEPT ![r] = @ \cup (next[r]..(Oldest - 1))]
  /\ next' = [next EXCEPT ![r] = Oldest]
  /\ UNCHANGED <<log, account, got, told_closed, start, senders>>

Take(r) ==
  /\ Open(r) /\ next[r] \in Oldest..Len(log)
  /\ next' = [next EXCEPT ![r] = @ + 1]
  /\ got' = IF should_forward(r, log[next[r]])
            THEN [got EXCEPT ![r] = Append(@, next[r])]
            ELSE got
  /\ UNCHANGED <<log, account, lag_told, told_closed, start, skipped, senders>>

\* mutant: recv() waits for another message instead of reporting the end
SeeClosedNever(r) == FALSE /\ UNCHANGED vars

SeeClosed(r) ==
  /\ Open(r) /\ next[r] > Len(log) /\ ~HasSender
  /\ told_closed' = [told_closed EXCEPT ![r] = TRUE]
  /\ UNCHANGED <<log, next, account, got, lag_told, start, skipped, senders>>

recv(r) == Lag(r) \/ Take(r) \/ SeeClosed(r)

-----------------------------------------------------------------------------
Next ==
  \/ \E r \in Receiver, a \in Account : get_handle(r, a)
  \/ \E r, s \in Receiver : CloneHandle(r, s) \/ resubscribe(r, s)
  \/ \E r \in Receiver : DropHandle(r) \/ DisconnectPublishes(r) \/ recv(r)
  \/ DropPlant
  \/ \E m \in Account \cup {"untagged"} : ActorPublishes(m)
  \/ ActorStops
  \/ ActorStopsSilently

Spec == Init /\ [][Next]_vars

\* the consumers keep calling recv(); nothing else has to happen
FairSpec == Spec /\ \A r \in Receiver : WF_vars(recv(r))

-----------------------------------------------------------------------------
(* Properties.                                                             *)

(***************************************************************************)
(* A consumer gets each message meant for it exactly once and in order,    *)
(* none meant for another account, and misses only what Lagged counted     *)
(* (SubscriptionFilter::recv over the broadcast ring).                     *)
(***************************************************************************)
DeliveredOrCounted ==
  \A r \in Receiver : Open(r) =>
    LET due == {p \in (start[r]..(next[r] - 1)) \ skipped[r] :
                  Filtered => log[p] \in {account[r], "untagged", "stop"}}
    IN  /\ {got[r][k] : k \in 1..Len(got[r])} = due
        /\ \A j, k \in 1..Len(got[r]) : j < k => got[r][j] < got[r][k]
        /\ lag_told[r] = Cardinality(skipped[r])

(***************************************************************************)
(* The plant's last word reaches every receiver that was open, however far *)
(* behind it is and whatever its account: nothing that is published later  *)
(* pushes it out of the ring.                                              *)
(***************************************************************************)
LastWordReachesAll ==
  \A r \in Receiver :
    (Open(r) /\ \E p \in 1..Len(log) : log[p] = "stop" /\ start[r] <= p)
      ~> \E k \in 1..Len(got[r]) : log[got[r][k]] = "stop"

(***************************************************************************)
(* Once the actor, the plant and, in ticker and history, every handle are  *)
(* gone, recv() ends with Closed.                                          *)
(***************************************************************************)
ClosedWhenAllGone ==
  \A r \in Receiver : (Open(r) /\ ~HasSender) ~> told_closed[r]

=============================================================================
