----------------------------- MODULE PlantActor -----------------------------
(***************************************************************************)
(* One plant: the actor task that owns a WebSocket connection, the handles *)
(* that send it commands, and the connection with the server behind it.    *)
(* The four plants (ticker, order, pnl, history) run the same select! loop *)
(* over the same six commands; history differs in NotifyPing.              *)
(*                                                                         *)
(* A write does not return at once: pc says which one the actor is in, and *)
(* no arm of select! runs meanwhile.  The correlation of ids and the parts *)
(* of an answer are RequestHandler's; here an answer is one frame.         *)
(***************************************************************************)
EXTENDS Naturals, Sequences, SequencesExt

CONSTANTS
  Call,        \* calls of handle methods that send a request
  LoginCall,   \* those that are login(): SetLogin, UpdateHeartbeat follow
  LogoutCall,  \* those that are disconnect(): Close follows
  NoCall,
  Cap,         \* capacity of the command channel (64 in the code, history 32)
  NotifyPing   \* a failed ping write is broadcast (FALSE in history_plant)

ASSUME PlantActorAssumption ==
  /\ LoginCall \subseteq Call
  /\ LogoutCall \subseteq Call
  /\ LoginCall \cap LogoutCall = {}
  /\ NoCall \notin Call
  /\ Cap \in Nat \ {0}
  /\ NotifyPing \in BOOLEAN

Control == {"SetLogin", "UpdateHeartbeat", "Close", "Abort"}

ASSUME CallsAreRequests == Call \cap Control = {}

\* a call stands for the request command it sends, and for its answer
Command == Call \cup Control
Frame == Call \cup {"Pong", "Close", "Malformed", "Io"}

VARIABLES
  \* the handles
  outcome,      \* call -> where it stands (RequestService)
  todo,         \* call -> commands its future sends after the answer
  abort,        \* what became of abort(): none, queued, lost
  \* the actor
  queue,        \* commands in the channel, then those of blocked senders
  pc,           \* select, write, ping, heartbeat, close, stopped
  current,      \* the call whose request is being written
  handle_map,   \* calls registered for an answer
  logged_in,
  ping_pending, \* PingManager: a ping without a pong
  reader_ended, \* the reader stream yields None from now on
  closing,      \* the client's Close frame is out: tungstenite refuses writes
  notice,       \* what the plant broadcast when it stopped
  \* the connection and the server
  link,         \* up, stalled (nothing moves, maybe for ever), broken
  wire,         \* frames on their way to a reader that still reads
  server,       \* calls whose answer the server owes
  pong_owed,
  server_closed,\* the server has sent its Close frame
  lost          \* history: calls whose answer did not decode

handles == <<outcome, todo, abort>>
actor == <<pc, current, handle_map, logged_in, ping_pending, reader_ended,
           closing, notice>>
peer == <<link, wire, server, pong_owed, server_closed, lost>>
vars == <<handles, queue, actor, peer>>

Queued == ToSet(queue)
running == pc # "stopped"

TypeOK ==
  /\ outcome \in [Call -> {"idle", "waiting", "dropped", "Ok", "SendFailed",
                           "ConnectionClosed"}]
  /\ todo \in [Call -> Seq(Control)]
  /\ abort \in {"none", "queued", "lost"}
  /\ queue \in Seq(Command)
  /\ pc \in {"select", "write", "ping", "heartbeat", "close", "stopped"}
  /\ current \in Call \cup {NoCall}
  /\ handle_map \subseteq Call
  /\ {logged_in, ping_pending, reader_ended, closing} \subseteq BOOLEAN
  /\ notice \in {"none", "ConnectionError", "HeartbeatTimeout"}
  /\ link \in {"up", "stalled", "broken"}
  /\ wire \in Seq(Frame)
  /\ server \subseteq Call
  /\ {pong_owed, server_closed} \subseteq BOOLEAN
  /\ lost \subseteq Call

Init ==
  /\ outcome = [c \in Call |-> "idle"]
  /\ todo = [c \in Call |-> <<>>]
  /\ abort = "none"
  /\ queue = <<>>
  /\ pc = "select"
  /\ current = NoCall
  /\ handle_map = {}
  /\ logged_in = FALSE
  /\ ping_pending = FALSE
  /\ reader_ended = FALSE
  /\ closing = FALSE
  /\ notice = "none"
  /\ link = "up"
  /\ wire = <<>>
  /\ server = {}
  /\ pong_owed = FALSE
  /\ server_closed = FALSE
  /\ lost = {}

-----------------------------------------------------------------------------
(* The handles.  A bounded mpsc channel lets blocked senders in first come *)
(* first served: the commands beyond the first Cap of queue are theirs.    *)

Send(command) == queue' = Append(queue, command)

Blocked(command) == \E k \in (Cap + 1)..Len(queue) : queue[k] = command

(* login_with_config and disconnect go on after their answer.              *)
Script(c, refused) ==
  IF c \in LoginCall
  THEN IF refused THEN <<>> ELSE <<"SetLogin", "UpdateHeartbeat">>
  ELSE IF c \in LogoutCall THEN <<"Close">> ELSE <<>>

\* mutant: login queues SetLogin together with its request
StartCallLogsIn(c) ==
  /\ running
  /\ outcome[c] = "idle"
  /\ Send(c)
  /\ outcome' = [outcome EXCEPT ![c] = "waiting"]
  /\ todo' = [todo EXCEPT ![c] = Script(c, FALSE)]
  /\ UNCHANGED <<abort, actor, peer>>

StartCall(c) ==
  /\ running
  /\ outcome[c] = "idle"
  /\ Send(c)
  /\ outcome' = [outcome EXCEPT ![c] = "waiting"]
  /\ UNCHANGED <<todo, abort, actor, peer>>

\* mutant: the command is kept when the channel is closed
CallKept(c) ==
  /\ ~running
  /\ outcome[c] = "idle"
  /\ outcome' = [outcome EXCEPT ![c] = "waiting"]
  /\ UNCHANGED <<todo, abort, queue, actor, peer>>

(* The channel is closed: the send fails, its error is ignored, and the    *)
(* oneshot sender inside the command is dropped.                           *)
CallRefused(c) ==
  /\ ~running
  /\ outcome[c] = "idle"
  /\ outcome' = [outcome EXCEPT ![c] = "ConnectionClosed"]
  /\ UNCHANGED <<todo, abort, queue, actor, peer>>

(* The future is dropped.  A sender still blocked withdraws its command,   *)
(* one in the channel stays there.                                         *)
CallerGivesUp(c) ==
  /\ running
  /\ outcome[c] = "waiting"
  /\ outcome' = [outcome EXCEPT ![c] = "dropped"]
  /\ IF Blocked(c)
     THEN \E k \in (Cap + 1)..Len(queue) :
            queue[k] = c /\ queue' = RemoveAt(queue, k)
     ELSE UNCHANGED queue
  /\ UNCHANGED <<todo, abort, actor, peer>>

FollowUp(c) ==
  /\ todo[c] # <<>>
  /\ todo' = [todo EXCEPT ![c] = Tail(@)]
  /\ IF running THEN Send(Head(todo[c])) ELSE UNCHANGED queue
  /\ UNCHANGED <<outcome, abort, actor, peer>>

(* abort(): try_send, the result ignored.  It is called once here.         *)
Abort ==
  /\ abort = "none"
  /\ IF running /\ Len(queue) < Cap
     THEN abort' = "queued" /\ Send("Abort")
     ELSE abort' = "lost" /\ UNCHANGED queue
  /\ UNCHANGED <<outcome, todo, actor, peer>>

-----------------------------------------------------------------------------
(* Leaving the loop drops the actor: its receiver with the commands in it  *)
(* and its request handler with the responders.                            *)

\* mutant: the commands still queued are forgotten
StopForgetsQueue(broadcast) ==
  /\ pc' = "stopped"
  /\ notice' = broadcast
  /\ outcome' = [c \in Call |->
       IF outcome[c] = "waiting" /\ c \in handle_map
       THEN "ConnectionClosed"
       ELSE outcome[c]]
  /\ queue' = <<>>
  /\ handle_map' = {}
  /\ current' = NoCall

Stop(broadcast) ==
  /\ pc' = "stopped"
  /\ notice' = broadcast
  /\ outcome' = [c \in Call |->
       IF outcome[c] = "waiting" /\ (c \in handle_map \/ c \in Queued)
       THEN "ConnectionClosed"
       ELSE outcome[c]]
  /\ queue' = <<>>
  /\ handle_map' = {}
  /\ current' = NoCall

(* The request_receiver arm and handle_command.                            *)
Takes(command) ==
  /\ pc = "select"
  /\ queue # <<>>
  /\ Head(queue) = command

\* mutant: the request written before is registered, not this one
HandleRequestRegistersCurrent(c) ==
  /\ Takes(c)
  /\ queue' = Tail(queue)
  /\ handle_map' = handle_map \cup {current}
  /\ current' = c
  /\ pc' = "write"
  /\ UNCHANGED <<handles, logged_in, ping_pending, reader_ended, closing,
                 notice, peer>>

HandleRequest(c) ==
  /\ Takes(c)
  /\ queue' = Tail(queue)
  /\ handle_map' = handle_map \cup {c}
  /\ current' = c
  /\ pc' = "write"
  /\ UNCHANGED <<handles, logged_in, ping_pending, reader_ended, closing,
                 notice, peer>>

HandleSetLogin ==
  /\ Takes("SetLogin")
  /\ queue' = Tail(queue)
  /\ logged_in' = TRUE
  /\ UNCHANGED <<handles, pc, current, handle_map, ping_pending, reader_ended,
                 closing, notice, peer>>

\* replaces the heartbeat timer; time is not in this model
HandleUpdateHeartbeat ==
  /\ Takes("UpdateHeartbeat")
  /\ queue' = Tail(queue)
  /\ UNCHANGED <<handles, actor, peer>>

HandleClose ==
  /\ Takes("Close")
  /\ queue' = Tail(queue)
  /\ pc' = "close"
  /\ UNCHANGED <<handles, current, handle_map, logged_in, ping_pending,
                 reader_ended, closing, notice, peer>>

\* mutant: abort answers the callers but does not leave the loop
HandleAbortStays ==
  /\ Takes("Abort")
  /\ queue' = Tail(queue)
  /\ handle_map' = {}
  /\ outcome' = [c \in Call |->
       IF outcome[c] = "waiting" /\ c \in handle_map
       THEN "ConnectionClosed"
       ELSE outcome[c]]
  /\ UNCHANGED <<todo, abort, pc, current, logged_in, ping_pending,
                 reader_ended, closing, notice, peer>>

HandleAbort ==
  /\ Takes("Abort")
  /\ Stop("ConnectionError")
  /\ UNCHANGED <<todo, abort, logged_in, ping_pending, reader_ended, closing,
                 peer>>

Recv ==
  \/ \E c \in Call : HandleRequest(c)
  \/ HandleSetLogin
  \/ HandleUpdateHeartbeat
  \/ HandleClose
  \/ HandleAbort

(* The timer arms.                                                         *)
HeartbeatTick ==
  /\ pc = "select"
  /\ logged_in
  /\ pc' = "heartbeat"
  /\ UNCHANGED <<handles, queue, current, handle_map, logged_in, ping_pending,
                 reader_ended, closing, notice, peer>>

\* mutant: the ping manager is not told of the ping
PingTickUnrecorded ==
  /\ pc = "select"
  /\ pc' = "ping"
  /\ UNCHANGED <<handles, queue, current, handle_map, logged_in, ping_pending,
                 reader_ended, closing, notice, peer>>

\* mutant: no pings once the Close frame is out
PingTickUnlessClosing ==
  /\ pc = "select" /\ ~closing
  /\ pc' = "ping"
  /\ ping_pending' = TRUE
  /\ UNCHANGED <<handles, queue, current, handle_map, logged_in, reader_ended,
                 closing, notice, peer>>

PingTick ==
  /\ pc = "select"
  /\ pc' = "ping"
  /\ ping_pending' = TRUE
  /\ UNCHANGED <<handles, queue, current, handle_map, logged_in, reader_ended,
                 closing, notice, peer>>

PingDeadline ==
  /\ pc = "select"
  /\ ping_pending
  /\ ping_pending' = FALSE
  /\ Stop("HeartbeatTimeout")
  /\ UNCHANGED <<todo, abort, logged_in, reader_ended, closing, peer>>

-----------------------------------------------------------------------------
(* Writes.  tungstenite accepts a frame when the link is up, or stalled    *)
(* with room left in the socket's buffer; it refuses one when the link is  *)
(* broken or its own Close frame is out.                                   *)

Accepted == link # "broken" /\ ~closing
Refused == link = "broken" \/ closing

fail_request(c) ==
  /\ handle_map' = handle_map \ {c}
  /\ outcome' = [outcome EXCEPT ![c] = IF @ = "waiting" THEN "SendFailed" ELSE @]

(* send_or_fail: ten seconds, then the request is failed, though its bytes *)
(* may have left or may leave later.                                       *)
RequestWritten ==
  /\ pc = "write" /\ Accepted
  /\ server' = server \cup {current}
  /\ pc' = "select" /\ current' = NoCall
  /\ UNCHANGED <<handles, queue, handle_map, logged_in, ping_pending,
                 reader_ended, closing, notice, link, wire, pong_owed,
                 server_closed, lost>>

\* mutant: the timeout of a write does not fail the request
RequestTimeoutIgnored ==
  /\ pc = "write"
  /\ \/ Refused /\ UNCHANGED server /\ fail_request(current)
     \/ /\ link = "stalled" /\ server' \in {server, server \cup {current}}
        /\ UNCHANGED <<handle_map, outcome>>
  /\ pc' = "select" /\ current' = NoCall
  /\ UNCHANGED <<todo, abort, queue, logged_in, ping_pending, reader_ended,
                 closing, notice, link, wire, pong_owed, server_closed, lost>>

RequestNotWritten ==
  /\ pc = "write"
  /\ \/ Refused /\ UNCHANGED server
     \/ link = "stalled" /\ server' \in {server, server \cup {current}}
  /\ fail_request(current)
  /\ pc' = "select" /\ current' = NoCall
  /\ UNCHANGED <<todo, abort, queue, logged_in, ping_pending, reader_ended,
                 closing, notice, link, wire, pong_owed, server_closed, lost>>

PingWritten ==
  /\ pc = "ping" /\ Accepted
  /\ pong_owed' = TRUE
  /\ pc' = "select"
  /\ UNCHANGED <<handles, queue, current, handle_map, logged_in, ping_pending,
                 reader_ended, closing, notice, link, wire, server,
                 server_closed, lost>>

(* An error or ten seconds without progress: the plant gives up.           *)
PingNotWritten ==
  /\ pc = "ping"
  /\ Refused \/ link = "stalled"
  /\ Stop(IF NotifyPing THEN "HeartbeatTimeout" ELSE "none")
  /\ UNCHANGED <<todo, abort, logged_in, ping_pending, reader_ended, closing,
                 peer>>

(* SendHeartbeat and Close write without a time limit and ignore errors.   *)
UntimedWriteReturns ==
  /\ pc \in {"heartbeat", "close"}
  /\ closing' = (closing \/ pc = "close")
  /\ pc' = "select"
  /\ UNCHANGED <<handles, queue, current, handle_map, logged_in, ping_pending,
                 reader_ended, notice, peer>>

TimedWriteReturns ==
  RequestWritten \/ RequestNotWritten \/ PingWritten \/ PingNotWritten

-----------------------------------------------------------------------------
(* The rithmic_reader arm and handle_rithmic_message.  Updates and         *)
(* heartbeat responses change no state of the plant and are left out.      *)

Reads(f) ==
  /\ pc = "select"
  /\ wire # <<>>
  /\ Head(wire) = f
  /\ wire' = IF f = "Malformed" THEN <<>> ELSE Tail(wire)
  /\ UNCHANGED <<link, server, pong_owed, server_closed>>

(* The answer goes to its responder, if there is one and it is listening.  *)
ReadAnswer(c) ==
  /\ Reads(c)
  /\ handle_map' = handle_map \ {c}
  /\ IF c \in handle_map /\ outcome[c] = "waiting"
     THEN /\ outcome' = [outcome EXCEPT ![c] = "Ok"]
          /\ \E refused \in BOOLEAN :
               todo' = [todo EXCEPT ![c] = Script(c, refused)]
     ELSE UNCHANGED <<outcome, todo>>
  /\ UNCHANGED <<abort, queue, pc, current, logged_in, ping_pending,
                 reader_ended, closing, notice, lost>>

(* An answer that does not decode carries no id: nobody gets it.           *)
ReadUndecodable(c) ==
  /\ Reads(c)
  /\ lost' = lost \cup {c}
  /\ UNCHANGED <<handles, queue, actor>>

ReadPong ==
  /\ Reads("Pong")
  /\ ping_pending' = FALSE
  /\ UNCHANGED <<handles, queue, pc, current, handle_map, logged_in,
                 reader_ended, closing, notice, lost>>

ReadClose ==
  /\ Reads("Close")
  /\ Stop("none")
  /\ UNCHANGED <<todo, abort, logged_in, ping_pending, reader_ended, closing,
                 lost>>

\* mutant: the broadcast is left out
ReadErrorSilently ==
  /\ Reads("Io")
  /\ Stop("none")
  /\ UNCHANGED <<todo, abort, logged_in, ping_pending, reader_ended, closing,
                 lost>>

(* ConnectionClosed, AlreadyClosed, Io, ResetWithoutClosingHandshake, ...  *)
ReadError ==
  /\ Reads("Io")
  /\ Stop("ConnectionError")
  /\ UNCHANGED <<todo, abort, logged_in, ping_pending, reader_ended, closing,
                 lost>>

(* Any other error: a warning, the loop goes on.  The stream is over.      *)
ReadOtherError ==
  /\ Reads("Malformed")
  /\ reader_ended' = TRUE
  /\ UNCHANGED <<handles, queue, pc, current, handle_map, logged_in,
                 ping_pending, closing, notice, lost>>

Read ==
  \/ \E c \in Call : ReadAnswer(c) \/ ReadUndecodable(c)
  \/ ReadPong
  \/ ReadClose
  \/ ReadError
  \/ ReadOtherError

-----------------------------------------------------------------------------
(* The connection and the server.                                          *)

Arrives(f) == wire' = IF reader_ended THEN wire ELSE Append(wire, f)

Delivers(f) ==
  /\ link = "up" /\ ~server_closed
  /\ Arrives(f)
  /\ UNCHANGED <<handles, queue, actor, link, lost>>

ServerAnswers ==
  \E c \in server :
    /\ Delivers(c)
    /\ server' = server \ {c}
    /\ UNCHANGED <<pong_owed, server_closed>>

\* bound: one pong, one malformed frame on the wire at a time
ServerPongs ==
  /\ pong_owed
  /\ ~Contains(wire, "Pong")
  /\ Delivers("Pong")
  /\ pong_owed' = FALSE
  /\ UNCHANGED <<server, server_closed>>

ServerMalformed ==
  /\ ~Contains(wire, "Malformed")
  /\ Delivers("Malformed")
  /\ UNCHANGED <<server, pong_owed, server_closed>>

\* on its own initiative, or to complete the client's close handshake
ServerCloses ==
  /\ Delivers("Close")
  /\ server_closed' = TRUE
  /\ UNCHANGED <<server, pong_owed>>

LinkStalls ==
  /\ link = "up" /\ link' = "stalled"
  /\ UNCHANGED <<handles, queue, actor, wire, server, pong_owed,
                 server_closed, lost>>

LinkRecovers ==
  /\ link = "stalled" /\ link' = "up"
  /\ UNCHANGED <<handles, queue, actor, wire, server, pong_owed,
                 server_closed, lost>>

LinkBreaks ==
  /\ link # "broken" /\ link' = "broken"
  /\ Arrives("Io")
  /\ UNCHANGED <<handles, queue, actor, server, pong_owed, server_closed,
                 lost>>

Environment ==
  \/ ServerAnswers \/ ServerPongs \/ ServerMalformed \/ ServerCloses
  \/ LinkStalls \/ LinkRecovers \/ LinkBreaks

-----------------------------------------------------------------------------
Handles ==
  \/ \E c \in Call : \/ StartCall(c) \/ CallRefused(c) \/ CallerGivesUp(c)
                     \/ FollowUp(c)
  \/ Abort

Next ==
  \/ Handles
  \/ Recv
  \/ HeartbeatTick \/ PingTick \/ PingDeadline
  \/ TimedWriteReturns \/ UntimedWriteReturns
  \/ Read
  \/ running /\ Environment

Spec == Init /\ [][Next]_vars

(***************************************************************************)
(* tokio::select! picks at random among the arms that are ready, so an arm *)
(* ready again and again is taken: strong fairness per arm.  The deadline  *)
(* of a ping (50 s) comes before the next ping (60 s), so a ping that no   *)
(* pong can answer any more runs into it.  A timed write ends; an untimed  *)
(* one ends unless the link stalls.  The server answers while the link     *)
(* lets it.  Nothing is assumed of the link or of the callers.             *)
(***************************************************************************)
PongComing == ~reader_ended /\ (pong_owed \/ Contains(wire, "Pong"))

Fairness ==
  /\ SF_vars(Recv)
  /\ SF_vars(Read)
  /\ SF_vars(PingTick)
  /\ SF_vars(PingDeadline /\ ~PongComing)
  /\ []<>(link = "up") \/ SF_vars(PingDeadline)
  /\ WF_vars(TimedWriteReturns)
  /\ SF_vars(UntimedWriteReturns /\ link # "stalled")
  /\ SF_vars(ServerAnswers)

FairSpec == Spec /\ Fairness

-----------------------------------------------------------------------------
(* Properties.                                                             *)

(***************************************************************************)
(* Every caller that waits is held in exactly one place, the command in    *)
(* the queue or the responder in handle_map, and no responder outlives the *)
(* actor: the drop of the actor is what wakes the callers up.              *)
(***************************************************************************)
CallersAccounted ==
  /\ \A c \in Call : outcome[c] = "waiting" =>
       /\ running
       /\ (c \in Queued) # (c \in handle_map)
  /\ handle_map \cap Queued = {}
  /\ \A j, k \in 1..Len(queue) : queue[j] = queue[k] /\ j # k => queue[j] \in Control

(***************************************************************************)
(* Heartbeats are sent only after a login was answered, and the client's   *)
(* Close frame only after a logout was: the two-step protocols of          *)
(* login_with_config and disconnect, across the queue, the answer and the  *)
(* follow-up commands.                                                     *)
(***************************************************************************)
ControlFollowsAnswer ==
  /\ (logged_in \/ pc = "heartbeat") => \E c \in LoginCall : outcome[c] = "Ok"
  /\ (closing \/ pc = "close") => \E c \in LogoutCall : outcome[c] = "Ok"

(***************************************************************************)
(* A plant stops without a broadcast only when the server closed the       *)
(* WebSocket; in history_plant also when a ping cannot be written.         *)
(***************************************************************************)
SilentStopOnlyOnClose ==
  (~running /\ notice = "none") => (server_closed \/ ~NotifyPing)

(* The promise to the callers, whatever the connection does.               *)
Service == INSTANCE RequestService WITH closed <- ~running
ImplementsService == Service!Spec

\* the actor sits in a write without a time limit that makes no progress
Hung == pc \in {"heartbeat", "close"} /\ link = "stalled"

(***************************************************************************)
(* Unless it hangs, a plant notices that its connection is lost and stops: *)
(* on a Close frame, a broken link, a reader that ended after an unlisted  *)
(* error (only the pings tell), and a link that stalls for ever.           *)
(***************************************************************************)
ConnectionLossStops ==
  []<>~Hung =>
    /\ (server_closed \/ reader_ended \/ link = "broken") ~> ~running
    /\ <>[](link = "stalled") => <>~running

(***************************************************************************)
(* Unless the actor hangs or the answer was garbled, every call ends.      *)
(***************************************************************************)
EveryCallEnds ==
  []<>~Hung =>
    \A c \in Call :
      outcome[c] = "waiting" ~> (outcome[c] # "waiting" \/ c \in lost)

(***************************************************************************)
(* Unless it hangs, a plant whose Close frame is out stops: the server's   *)
(* Close frame ends it, or else the first ping that tungstenite refuses.   *)
(***************************************************************************)
DisconnectStops ==
  []<>~Hung => (closing ~> ~running)

(* An abort that got into the queue stops the plant, unless it hangs.      *)
QueuedAbortStops ==
  []<>~Hung => (abort = "queued" ~> ~running)

-----------------------------------------------------------------------------
(* What the documentation says and the code does not do.                   *)

(***************************************************************************)
(* The docs of the plants: WebSocket ping/pong "reliably detects dead      *)
(* connections 24/7".                                                      *)
(***************************************************************************)
DeadConnectionStops ==
  <>[](link = "stalled") => <>~running

=============================================================================
