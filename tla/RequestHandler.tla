--------------------------- MODULE RequestHandler ---------------------------
(***************************************************************************)
(* Correlation of requests and responses inside one plant actor.           *)
(*                                                                         *)
(* A plant draws a request id from RithmicSenderApi's counter, registers   *)
(* the caller's oneshot sender under it (handle_map), writes the request   *)
(* to the WebSocket and, when the write fails, fails the request again.    *)
(* Responses come back in one ordered stream in which the answers to       *)
(* different requests interleave; a multi-part answer is collected in      *)
(* response_vec_map until its final part arrives.                          *)
(*                                                                         *)
(* The Rithmic server and the ordered byte stream from it (server, wire)   *)
(* are the environment: what the code in src/ expects of them.             *)
(***************************************************************************)
EXTENDS Naturals, Sequences

CONSTANTS
  Call,        \* calls of handle methods; each owns one oneshot channel
  NoCall,      \* "no responder registered under this id"
  MultiCall,   \* the calls whose answer comes in several parts
  MaxId,       \* bound: request ids one connection draws
  MaxParts     \* bound: parts of one answer

ASSUME RequestHandlerAssumption ==
  /\ NoCall \notin Call
  /\ MultiCall \subseteq Call
  /\ MaxId \in Nat
  /\ MaxParts \in Nat \ {0}

Id == 0..MaxId    \* the string of the counter; 0 stands for the empty id ""

(***************************************************************************)
(* A decoded response: the id it echoes in user_msg, multi_response,       *)
(* has_more, and its content, abstracted to its position in the answer.    *)
(***************************************************************************)
Response == [id : Id, multi : BOOLEAN, more : BOOLEAN, part : 1..MaxParts]

\* what buf_to_message makes of a frame it cannot decode: no id, no parts
Undecodable == [id |-> 0, multi |-> FALSE, more |-> FALSE, part |-> 1]

Outcome == {"idle", "waiting", "dropped", "Ok", "SendFailed", "ConnectionClosed"}

VARIABLES
  message_id_counter, \* RithmicSenderApi: the last id drawn
  handle_map,         \* id -> the call whose oneshot sender is stored
  response_vec_map,   \* id -> parts collected so far (<<>>: no entry)
  outcome,            \* call -> where it stands: the state of its oneshot
  answer,             \* call -> the parts delivered with "Ok"
  running,            \* the actor's loop has not been aborted
  server,             \* id -> the next part the server will send, 0 for none
  wire,               \* decodable frames between server and reader, in order
  id_of,              \* history: the id drawn for each call, 0 before
  damaged             \* history: ids whose request or answer was cut

vars == <<message_id_counter, handle_map, response_vec_map, outcome, answer,
          running, server, wire, id_of, damaged>>

Registered(i) == handle_map[i] # NoCall

\* what is kept under an id are parts of its own answer, never the last one
KeptParts ==
  \A i \in Id : \A k \in 1..Len(response_vec_map[i]) :
    LET r == response_vec_map[i][k] IN r.id = i /\ r.multi /\ r.more

TypeOK ==
  /\ message_id_counter \in Id
  /\ handle_map \in [Id -> Call \cup {NoCall}]
  /\ response_vec_map \in [Id -> Seq(Response)]
  /\ KeptParts
  /\ outcome \in [Call -> Outcome]
  /\ answer \in [Call -> Seq(Response)]
  /\ running \in BOOLEAN
  /\ server \in [Id -> 0..MaxParts]
  /\ wire \in Seq(Response)
  /\ id_of \in [Call -> Id]
  /\ damaged \in SUBSET Id

Init ==
  /\ message_id_counter = 0
  /\ handle_map = [i \in Id |-> NoCall]
  /\ response_vec_map = [i \in Id |-> <<>>]
  /\ outcome = [c \in Call |-> "idle"]
  /\ answer = [c \in Call |-> <<>>]
  /\ running = TRUE
  /\ server = [i \in Id |-> 0]
  /\ wire = <<>>
  /\ id_of = [c \in Call |-> 0]
  /\ damaged = {}

-----------------------------------------------------------------------------
(* The two halves of a request: RithmicSenderApi and register_request.     *)

\* mutant: the counter is returned before it is incremented the first time
MessageIdNotIncremented == message_id_counter

get_next_message_id == message_id_counter + 1

DrawId ==
  /\ get_next_message_id \in Id
  /\ message_id_counter' = get_next_message_id

register_request(i, c) == [handle_map EXCEPT ![i] = c]

\* the server has the request and owes an answer starting with part 1
Accept(i) == [server EXCEPT ![i] = 1]

(* handle_command: draw an id, register the caller, write the request.     *)
SendRequest(c) ==
  /\ running
  /\ outcome[c] = "idle"
  /\ DrawId
  /\ id_of' = [id_of EXCEPT ![c] = get_next_message_id]
  /\ handle_map' = register_request(get_next_message_id, c)
  /\ outcome' = [outcome EXCEPT ![c] = "waiting"]
  /\ server' = Accept(get_next_message_id)
  /\ UNCHANGED <<response_vec_map, answer, running, wire, damaged>>

(***************************************************************************)
(* fail_request: forget the responder and answer it with the error.  The   *)
(* parts collected under the id, if any, stay where they are.              *)
(***************************************************************************)
fail_request(map, i) == [map EXCEPT ![i] = NoCall]

(***************************************************************************)
(* The same handler when the write fails or takes longer than 10 s:        *)
(* send_or_fail then fails the request it has just registered.  A write    *)
(* given up on after the timeout can still have reached the server.        *)
(***************************************************************************)
SendFails(c) ==
  /\ running
  /\ outcome[c] = "idle"
  /\ DrawId
  /\ id_of' = [id_of EXCEPT ![c] = get_next_message_id]
  /\ handle_map' = fail_request(register_request(get_next_message_id, c),
                                get_next_message_id)
  /\ outcome' = [outcome EXCEPT ![c] = "SendFailed"]
  /\ \/ server' = Accept(get_next_message_id)
     \/ UNCHANGED server
  /\ damaged' = damaged \cup {get_next_message_id}
  /\ UNCHANGED <<response_vec_map, answer, running, wire>>

(* A heartbeat draws an id too; nobody is registered under it.             *)
SendHeartbeat ==
  /\ running
  /\ DrawId
  /\ UNCHANGED <<handle_map, response_vec_map, outcome, answer, running,
                 server, wire, id_of, damaged>>

(* The future waiting on the oneshot is dropped (a caller's own timeout).  *)
CallerGivesUp(c) ==
  /\ outcome[c] = "waiting"
  /\ outcome' = [outcome EXCEPT ![c] = "dropped"]
  /\ UNCHANGED <<message_id_counter, handle_map, response_vec_map, answer,
                 running, server, wire, id_of, damaged>>

-----------------------------------------------------------------------------
(* handle_response.                                                        *)

\* a oneshot whose receiver is gone swallows the value (the error is logged)
send_to_responder(c, responses) ==
  IF outcome[c] = "waiting"
  THEN /\ outcome' = [outcome EXCEPT ![c] = "Ok"]
       /\ answer' = [answer EXCEPT ![c] = responses]
  ELSE UNCHANGED <<outcome, answer>>

\* mutant: the responder is looked up instead of removed
HandleSingleKeepsResponder(r) ==
  /\ ~r.multi
  /\ Registered(r.id)
  /\ send_to_responder(handle_map[r.id], <<r>>)
  /\ UNCHANGED <<handle_map, response_vec_map>>

(* One part says it all: ResponseHeartbeat and every single response.      *)
HandleSingle(r) ==
  /\ ~r.multi
  /\ Registered(r.id)
  /\ handle_map' = [handle_map EXCEPT ![r.id] = NoCall]
  /\ send_to_responder(handle_map[r.id], <<r>>)
  /\ UNCHANGED response_vec_map

\* mutant: parts pushed at the front
HandleMorePrepends(r) ==
  /\ r.multi /\ r.more
  /\ response_vec_map' = [response_vec_map EXCEPT ![r.id] = <<r>> \o @]
  /\ UNCHANGED <<handle_map, outcome, answer>>

\* mutant: every part of a multi-part answer is kept, has_more is not asked
HandleMoreOfAnyPart(r) ==
  /\ r.multi
  /\ response_vec_map' = [response_vec_map EXCEPT ![r.id] = Append(@, r)]
  /\ UNCHANGED <<handle_map, outcome, answer>>

(* More to come: the part is kept, whether or not somebody waits for it.   *)
HandleMore(r) ==
  /\ r.multi /\ r.more
  /\ response_vec_map' = [response_vec_map EXCEPT ![r.id] = Append(@, r)]
  /\ UNCHANGED <<handle_map, outcome, answer>>

\* mutant: the collected parts are thrown away
HandleFinalAlone(r) ==
  /\ r.multi /\ ~r.more
  /\ Registered(r.id)
  /\ handle_map' = [handle_map EXCEPT ![r.id] = NoCall]
  /\ response_vec_map' = [response_vec_map EXCEPT ![r.id] = <<>>]
  /\ send_to_responder(handle_map[r.id], <<r>>)

\* mutant: the collected parts are copied out, the entry stays
HandleFinalKeepsParts(r) ==
  /\ r.multi /\ ~r.more
  /\ Registered(r.id)
  /\ handle_map' = [handle_map EXCEPT ![r.id] = NoCall]
  /\ send_to_responder(handle_map[r.id], Append(response_vec_map[r.id], r))
  /\ UNCHANGED response_vec_map

\* mutant: an answer that consists of its final part only is not delivered
HandleFinalNeedsParts(r) ==
  /\ r.multi /\ ~r.more
  /\ Registered(r.id)
  /\ handle_map' = [handle_map EXCEPT ![r.id] = NoCall]
  /\ response_vec_map' = [response_vec_map EXCEPT ![r.id] = <<>>]
  /\ IF response_vec_map[r.id] = <<>>
     THEN UNCHANGED <<outcome, answer>>
     ELSE send_to_responder(handle_map[r.id], Append(response_vec_map[r.id], r))

(* The last part: the collected parts and this one go to the caller.       *)
HandleFinal(r) ==
  /\ r.multi /\ ~r.more
  /\ Registered(r.id)
  /\ handle_map' = [handle_map EXCEPT ![r.id] = NoCall]
  /\ response_vec_map' = [response_vec_map EXCEPT ![r.id] = <<>>]
  /\ send_to_responder(handle_map[r.id], Append(response_vec_map[r.id], r))

(* "No responder found for response": logged, nothing else.                *)
HandleUnknown(r) ==
  /\ ~(r.multi /\ r.more)
  /\ ~Registered(r.id)
  /\ UNCHANGED <<handle_map, response_vec_map, outcome, answer>>

handle_response(r) ==
  \/ HandleSingle(r)
  \/ HandleMore(r)
  \/ HandleFinal(r)
  \/ HandleUnknown(r)

(* The reader takes the next frame off the stream and it decodes.          *)
ReadResponse ==
  /\ running
  /\ wire # <<>>
  /\ wire' = Tail(wire)
  /\ handle_response(Head(wire))
  /\ UNCHANGED <<message_id_counter, running, server, id_of, damaged>>

(* It does not decode: what is left of it carries the empty id.            *)
ReadUndecodable ==
  /\ running
  /\ wire # <<>>
  /\ wire' = Tail(wire)
  /\ handle_response(Undecodable)
  /\ damaged' = damaged \cup {Head(wire).id}
  /\ UNCHANGED <<message_id_counter, running, server, id_of>>

\* mutant: the loop ends and nobody is told
LeaveWithoutDrain ==
  /\ running
  /\ running' = FALSE
  /\ UNCHANGED <<message_id_counter, handle_map, response_vec_map, outcome,
                 answer, server, wire, id_of, damaged>>

(* Abort: every registered caller gets ConnectionClosed, then all state    *)
(* is dropped and the loop ends.                                           *)
drain_and_drop ==
  /\ running
  /\ running' = FALSE
  /\ outcome' = [c \in Call |->
       IF outcome[c] = "waiting" /\ (\E i \in Id : handle_map[i] = c)
       THEN "ConnectionClosed"
       ELSE outcome[c]]
  /\ handle_map' = [i \in Id |-> NoCall]
  /\ response_vec_map' = [i \in Id |-> <<>>]
  /\ UNCHANGED <<message_id_counter, answer, server, wire, id_of, damaged>>

-----------------------------------------------------------------------------
(* The server: it answers the requests it has in any interleaving.         *)

\* the template of the request tells the server how it is answered
AsksForParts(i) == \E c \in MultiCall : id_of[c] = i

PartOf(i, more) ==
  [id |-> i, multi |-> AsksForParts(i), more |-> more, part |-> server[i]]

ServerSendsPart(i) ==
  /\ AsksForParts(i)
  /\ server[i] \in 1..(MaxParts - 1)
  /\ wire' = Append(wire, PartOf(i, TRUE))
  /\ server' = [server EXCEPT ![i] = @ + 1]
  /\ UNCHANGED <<message_id_counter, handle_map, response_vec_map, outcome,
                 answer, running, id_of, damaged>>

ServerSendsFinal(i) ==
  /\ server[i] # 0
  /\ wire' = Append(wire, PartOf(i, FALSE))
  /\ server' = [server EXCEPT ![i] = 0]
  /\ UNCHANGED <<message_id_counter, handle_map, response_vec_map, outcome,
                 answer, running, id_of, damaged>>

(* A Reject (template 75) is a single response to any kind of request.     *)
RejectOf(i) == [id |-> i, multi |-> FALSE, more |-> FALSE, part |-> 1]

ServerRejects(i) ==
  /\ server[i] = 1
  /\ wire' = Append(wire, RejectOf(i))
  /\ server' = [server EXCEPT ![i] = 0]
  /\ UNCHANGED <<message_id_counter, handle_map, response_vec_map, outcome,
                 answer, running, id_of, damaged>>

-----------------------------------------------------------------------------
Next ==
  \/ \E c \in Call : SendRequest(c) \/ SendFails(c) \/ CallerGivesUp(c)
  \/ SendHeartbeat
  \/ ReadResponse
  \/ ReadUndecodable
  \/ drain_and_drop
  \/ \E i \in Id : ServerSendsPart(i) \/ ServerSendsFinal(i) \/ ServerRejects(i)

Spec == Init /\ [][Next]_vars

(***************************************************************************)
(* The actor's select! loop polls the reader as long as it runs; the       *)
(* server is assumed to finish every answer it owes.                       *)
(***************************************************************************)
Fairness ==
  /\ WF_vars(ReadResponse \/ ReadUndecodable)
  /\ \A i \in Id : WF_vars(ServerSendsFinal(i) \/ ServerRejects(i))

FairSpec == Spec /\ Fairness

-----------------------------------------------------------------------------
(* Properties.                                                             *)

(***************************************************************************)
(* The bookkeeping of handle_map: a responder is stored under the id drawn *)
(* for its own call and only while that call has not been answered.        *)
(***************************************************************************)
RegistrationMatches ==
  \A i \in Id : Registered(i) =>
    /\ id_of[handle_map[i]] = i
    /\ outcome[handle_map[i]] \in {"waiting", "dropped"}

(***************************************************************************)
(* No caller is forgotten: whoever still waits on its oneshot is           *)
(* registered, so a response, a failed write or the drain on abort can     *)
(* still reach it (register_request, fail_request, drain_and_drop).        *)
(***************************************************************************)
NoCallerForgotten ==
  \A c \in Call : outcome[c] = "waiting" => handle_map[id_of[c]] = c

(***************************************************************************)
(* An answer holds parts of the caller's own request only, in the order    *)
(* the server produced them, and ends with the part without has_more: the  *)
(* parts that interleave on the wire, and those left over from requests    *)
(* that failed, never leak into another call (handle_response).            *)
(***************************************************************************)
AnswersOwnPartsInOrder ==
  \A c \in Call : outcome[c] = "Ok" =>
    LET vec == answer[c] IN
    /\ \A k \in 1..Len(vec) : vec[k].id = id_of[c]
    /\ \A j, k \in 1..Len(vec) : j < k => vec[j].part < vec[k].part
    /\ \A k \in 1..Len(vec) : vec[k].more <=> k < Len(vec)

(***************************************************************************)
(* An answer none of whose frames was lost in decoding is complete: it     *)
(* holds every part from the first to the final one (the multi-part        *)
(* branches of handle_response).                                           *)
(***************************************************************************)
UndamagedAnswersComplete ==
  \A c \in Call : (outcome[c] = "Ok" /\ id_of[c] \notin damaged) =>
    /\ answer[c] # <<>>
    /\ \A k \in 1..Len(answer[c]) : answer[c][k].part = k

(***************************************************************************)
(* response_vec_map keeps parts nobody waits for only under ids whose      *)
(* request failed to send or whose answer lost a frame; those stay until   *)
(* the abort (fail_request does not clear them).                           *)
(***************************************************************************)
OrphanPartsOnlyAfterDamage ==
  \A i \in Id : response_vec_map[i] # <<>> => (Registered(i) \/ i \in damaged)

(***************************************************************************)
(* The handler keeps the promise RequestService makes to the callers: one  *)
(* outcome each, and with the abort everybody who waits learns of it in    *)
(* the same step (drain_and_drop).                                         *)
(***************************************************************************)
Service == INSTANCE RequestService WITH closed <- ~running
ImplementsService == Service!Spec

(***************************************************************************)
(* A request whose id is intact is answered sooner or later, as long as    *)
(* the server answers and the reader is polled; there is no other way out  *)
(* for the caller, the client library has no request timeout.              *)
(***************************************************************************)
IntactCallsAreAnswered ==
  \A c \in Call :
    outcome[c] = "waiting"
      ~> (outcome[c] # "waiting" \/ id_of[c] \in damaged)

=============================================================================
