------------------------ MODULE RequestHandlerProofs ------------------------
(***************************************************************************)
(* Machine-checked proofs about RequestHandler: its safety properties for  *)
(* every set of calls, every number of ids and every length of an answer.  *)
(***************************************************************************)
EXTENDS RequestHandler, SequenceTheorems, TLAPS

(***************************************************************************)
(* The inductive invariant.                                                *)
(***************************************************************************)

\* ids above the counter, and the empty id, are unused everywhere
FreshIdsUnused ==
  /\ \A i \in Id : (i = 0 \/ i > message_id_counter) =>
       /\ ~Registered(i)
       /\ server[i] = 0
       /\ response_vec_map[i] = <<>>
       /\ \A k \in 1..Len(wire) : wire[k].id # i
  /\ \A c \in Call : /\ id_of[c] <= message_id_counter
                     /\ outcome[c] = "idle" => id_of[c] = 0

\* the frames of one answer are on the wire in the order of their parts, only
\* the last of them is final, and nothing follows the final one
WireOrdered ==
  /\ \A j, k \in 1..Len(wire) :
       j < k /\ wire[j].id = wire[k].id =>
         wire[j].more /\ wire[j].part < wire[k].part
  /\ \A k \in 1..Len(wire) :
       server[wire[k].id] # 0 =>
         wire[k].more /\ wire[k].part < server[wire[k].id]
  /\ \A k \in 1..Len(wire) : ~wire[k].multi => ~wire[k].more /\ wire[k].part = 1
  /\ \A i \in Id : server[i] > 1 => AsksForParts(i)

\* the parts collected under an id are its own, in order, none of them final,
\* and older than everything still to come
PartsOrdered ==
  \A i \in Id :
    LET parts == response_vec_map[i] IN
    /\ \A k \in 1..Len(parts) : parts[k].id = i /\ parts[k].more
    /\ \A j, k \in 1..Len(parts) : j < k => parts[j].part < parts[k].part
    /\ \A k \in 1..Len(parts) :
         /\ \A m \in 1..Len(wire) :
              wire[m].id = i => parts[k].part < wire[m].part
         /\ server[i] # 0 => parts[k].part < server[i]

IInv ==
  /\ TypeOK
  /\ RegistrationMatches
  /\ NoCallerForgotten
  /\ AnswersOwnPartsInOrder
  /\ FreshIdsUnused
  /\ WireOrdered
  /\ PartsOrdered

\* ids whose frames all arrived: the parts collected and those on the wire
\* leave no gap up to what the server will send next
NoGap(i) ==
  /\ \A k \in 1..Len(response_vec_map[i]) : response_vec_map[i][k].part = k
  /\ \A k \in 1..Len(wire) : wire[k].id = i =>
       \/ wire[k].part = Len(response_vec_map[i]) + 1
       \/ \E j \in 1..(k - 1) : wire[j].id = i /\ wire[j].part + 1 = wire[k].part
  /\ server[i] # 0 =>
       \/ server[i] = Len(response_vec_map[i]) + 1
       \/ \E j \in 1..Len(wire) : wire[j].id = i /\ wire[j].part + 1 = server[i]

\* an answered id has nothing left
Spent(i) ==
  /\ response_vec_map[i] = <<>>
  /\ server[i] = 0
  /\ \A k \in 1..Len(wire) : wire[k].id # i

GapInv ==
  /\ \A i \in Id : (running /\ i \notin damaged) =>
       IF Registered(i) THEN NoGap(i) ELSE Spent(i)
  /\ ~running => \A i \in Id : response_vec_map[i] = <<>> /\ ~Registered(i)

CompleteInv == IInv /\ GapInv /\ UndamagedAnswersComplete

-----------------------------------------------------------------------------
(* Lemmas about the operators the actions are built from.                  *)

(* Taking the first frame off the stream shifts the others by one.         *)
LEMMA TakeHead ==
  ASSUME NEW s \in Seq(Response), s # <<>>
  PROVE  /\ Len(s) \in Nat \ {0}
         /\ Head(s) = s[1]
         /\ s[1] \in Response
         /\ Tail(s) \in Seq(Response)
         /\ Len(Tail(s)) = Len(s) - 1
         /\ \A k \in 1..Len(Tail(s)) : Tail(s)[k] = s[k + 1]
<1>1. Len(s) \in Nat \ {0}
  BY EmptySeq, LenProperties
<1>2. s[1] \in Response
  BY <1>1, ElementOfSeq
<1> QED
  BY <1>1, <1>2, HeadTailProperties

(* Appending a frame leaves the others in place.                           *)
LEMMA PutLast ==
  ASSUME NEW s \in Seq(Response), NEW r \in Response
  PROVE  /\ Len(s) \in Nat
         /\ Append(s, r) \in Seq(Response)
         /\ Append(s, r) # <<>>
         /\ Len(Append(s, r)) = Len(s) + 1
         /\ \A k \in 1..Len(s) : Append(s, r)[k] = s[k]
         /\ Append(s, r)[Len(s) + 1] = r
         /\ \A k \in 1..Len(Append(s, r)) : k \in 1..Len(s) \/ k = Len(s) + 1
<1>1. Len(s) \in Nat /\ Len(Append(s, r)) = Len(s) + 1
  BY AppendProperties, LenProperties
<1>2. \A k \in 1..Len(Append(s, r)) : k \in 1..Len(s) \/ k = Len(s) + 1
  BY <1>1
<1> QED
  BY <1>1, <1>2, AppendProperties

(* A response is a record with these fields.                               *)
LEMMA ResponseFields ==
  ASSUME NEW r \in Response
  PROVE  /\ r.id \in Id
         /\ r.multi \in BOOLEAN
         /\ r.more \in BOOLEAN
         /\ r.part \in 1..MaxParts
BY DEF Response

LEMMA UndecodableIsResponse == Undecodable \in Response
BY RequestHandlerAssumption DEF Undecodable, Response, Id

(* The frame the server builds is a response.                              *)
LEMMA PartIsResponse ==
  ASSUME TypeOK, NEW i \in Id, server[i] # 0, NEW more \in BOOLEAN
  PROVE  /\ server[i] \in 1..MaxParts
         /\ PartOf(i, more) \in Response
<1>1. server[i] \in 1..MaxParts
  BY RequestHandlerAssumption DEF TypeOK
<1>2. AsksForParts(i) \in BOOLEAN
  BY DEF AsksForParts
<1> QED
  BY <1>1, <1>2 DEF PartOf, Response

LEMMA RejectIsResponse ==
  ASSUME NEW i \in Id
  PROVE  RejectOf(i) \in Response
BY RequestHandlerAssumption DEF RejectOf, Response

-----------------------------------------------------------------------------
(* Type correctness.                                                       *)

LEMMA DrawIdType ==
  ASSUME TypeOK, DrawId
  PROVE  /\ get_next_message_id \in Id
         /\ message_id_counter' \in Id
         /\ message_id_counter' = message_id_counter + 1
         /\ message_id_counter \in Nat
BY RequestHandlerAssumption DEF TypeOK, DrawId, get_next_message_id, Id

(* The parts kept under the ids: none added, one added, an id cleared.     *)
LEMMA KeptFrame ==
  ASSUME KeptParts, response_vec_map' = response_vec_map
  PROVE  KeptParts'
  BY DEF KeptParts

LEMMA KeptCleared ==
  ASSUME TypeOK, NEW i \in Id,
         response_vec_map' = [response_vec_map EXCEPT ![i] = <<>>]
  PROVE  KeptParts'
<1>1. \A j \in Id : response_vec_map'[j] \in {<<>>, response_vec_map[j]}
  BY DEF TypeOK
<1> QED BY <1>1 DEF TypeOK, KeptParts

LEMMA KeptMore ==
  ASSUME TypeOK, NEW r \in Response, HandleMore(r)
  PROVE  KeptParts'
<1>1. /\ r.id \in Id /\ r.multi /\ r.more
      /\ response_vec_map' = [response_vec_map EXCEPT ![r.id] =
                                Append(response_vec_map[r.id], r)]
  BY ResponseFields DEF HandleMore
<1>2. ASSUME NEW i \in Id, NEW k \in 1..Len(response_vec_map'[i])
      PROVE  LET p == response_vec_map'[i][k] IN p.id = i /\ p.multi /\ p.more
  <2>1. response_vec_map \in [Id -> Seq(Response)] /\ KeptParts
    BY DEF TypeOK
  <2>2. CASE i # r.id
    <3>1. response_vec_map'[i] = response_vec_map[i]
      BY <1>1, <2>1, <2>2
    <3> QED BY <1>2, <2>1, <3>1 DEF KeptParts
  <2>3. CASE i = r.id
    <3> PICK old : old = response_vec_map[i]
      OBVIOUS
    <3>1. old \in Seq(Response) /\ response_vec_map'[i] = Append(old, r)
      BY <1>1, <2>1, <2>3
    <3>2. k \in 1..Len(old) \/ Append(old, r)[k] = r
      BY <1>2, <3>1
    <3>3. ASSUME k \in 1..Len(old)
          PROVE  Append(old, r)[k] = response_vec_map[i][k]
      BY <3>1, <3>3
    <3> QED BY <1>1, <2>1, <2>3, <3>1, <3>2, <3>3 DEF KeptParts
  <2> QED BY <2>2, <2>3
<1> QED BY <1>2 DEF KeptParts

(* handle_response keeps the types of what it writes.                      *)
LEMMA HandleType ==
  ASSUME TypeOK, NEW r \in Response, handle_response(r)
  PROVE  /\ handle_map' \in [Id -> Call \cup {NoCall}]
         /\ response_vec_map' \in [Id -> Seq(Response)]
         /\ KeptParts'
         /\ outcome' \in [Call -> Outcome] /\ answer' \in [Call -> Seq(Response)]
<1>1. r.id \in Id
  BY ResponseFields
<1>2. ASSUME NEW c \in Call, NEW vec \in Seq(Response), send_to_responder(c, vec)
      PROVE  outcome' \in [Call -> Outcome] /\ answer' \in [Call -> Seq(Response)]
  BY <1>2 DEF send_to_responder, TypeOK, Outcome
<1>3. Registered(r.id) => handle_map[r.id] \in Call
  BY <1>1 DEF TypeOK, Registered
<1>4. response_vec_map[r.id] \in Seq(Response)
  BY <1>1 DEF TypeOK
<1>5. CASE HandleSingle(r)
  <2>1. <<r>> \in Seq(Response)
    OBVIOUS
  <2> QED
    BY <1>1, <1>2, <1>3, <1>5, <2>1, KeptFrame DEF HandleSingle, TypeOK
<1>6. CASE HandleMore(r)
  <2>1. Append(response_vec_map[r.id], r) \in Seq(Response)
    BY <1>4, PutLast
  <2> QED
    BY <1>1, <1>6, <2>1, KeptMore DEF HandleMore, TypeOK
<1>7. CASE HandleFinal(r)
  <2>1. <<>> \in Seq(Response)
    OBVIOUS
  <2>2. Append(response_vec_map[r.id], r) \in Seq(Response)
    BY <1>4, PutLast
  <2> QED
    BY <1>1, <1>2, <1>3, <1>7, <2>1, <2>2, KeptCleared DEF HandleFinal, TypeOK
<1>8. CASE HandleUnknown(r)
  BY <1>8, KeptFrame DEF HandleUnknown, TypeOK
<1> QED
  BY <1>5, <1>6, <1>7, <1>8 DEF handle_response

LEMMA TypeInit == Init => TypeOK
<1> SUFFICES ASSUME Init PROVE TypeOK
  OBVIOUS
<1>1. <<>> \in Seq(Response)
  OBVIOUS
<1> QED
  BY <1>1, RequestHandlerAssumption DEF Init, TypeOK, KeptParts, Id, Outcome

LEMMA TypeStep == TypeOK /\ [Next]_vars => TypeOK'
<1> SUFFICES ASSUME TypeOK, [Next]_vars PROVE TypeOK'
  OBVIOUS
<1>1. ASSUME NEW c \in Call, SendRequest(c) PROVE TypeOK'
  <2>1. get_next_message_id \in Id /\ message_id_counter' \in Id
    BY <1>1, DrawIdType DEF SendRequest
  <2>2. 1 \in 0..MaxParts
    BY RequestHandlerAssumption
  <2>3. server' \in [Id -> 0..MaxParts]
    BY <1>1, <2>1, <2>2 DEF SendRequest, Accept, TypeOK
  <2>4. outcome' \in [Call -> Outcome] /\ answer' \in [Call -> Seq(Response)]
    BY <1>1 DEF SendRequest, TypeOK, Outcome
  <2> QED
    BY <1>1, <2>1, <2>3, <2>4, KeptFrame DEF SendRequest, TypeOK, register_request
<1>2. ASSUME NEW c \in Call, SendFails(c) PROVE TypeOK'
  <2>1. get_next_message_id \in Id /\ message_id_counter' \in Id
    BY <1>2, DrawIdType DEF SendFails
  <2>2. 1 \in 0..MaxParts
    BY RequestHandlerAssumption
  <2>3. server' \in [Id -> 0..MaxParts]
    BY <1>2, <2>1, <2>2 DEF SendFails, Accept, TypeOK
  <2>4. outcome' \in [Call -> Outcome] /\ answer' \in [Call -> Seq(Response)]
    BY <1>2 DEF SendFails, TypeOK, Outcome
  <2> QED
    BY <1>2, <2>1, <2>3, <2>4, KeptFrame DEF SendFails, TypeOK, register_request, fail_request
<1>3. ASSUME NEW c \in Call, CallerGivesUp(c) PROVE TypeOK'
  BY <1>3, KeptFrame DEF CallerGivesUp, TypeOK, Outcome
<1>4. CASE SendHeartbeat
  BY <1>4, DrawIdType, KeptFrame DEF SendHeartbeat, TypeOK
<1>5. CASE ReadResponse
  <2>1. Head(wire) \in Response /\ Tail(wire) \in Seq(Response)
    BY <1>5, TakeHead DEF ReadResponse, TypeOK
  <2> QED
    BY <1>5, <2>1, HandleType DEF ReadResponse, TypeOK
<1>6. CASE ReadUndecodable
  <2>1. Head(wire) \in Response /\ Tail(wire) \in Seq(Response)
    BY <1>6, TakeHead DEF ReadUndecodable, TypeOK
  <2>2. Head(wire).id \in Id
    BY <2>1, ResponseFields
  <2> QED
    BY <1>6, <2>1, <2>2, HandleType, UndecodableIsResponse DEF ReadUndecodable, TypeOK
<1>7. CASE drain_and_drop
  <2>1. outcome' \in [Call -> Outcome] /\ answer' \in [Call -> Seq(Response)]
    BY <1>7 DEF drain_and_drop, TypeOK, Outcome
  <2>2. response_vec_map' \in [Id -> Seq(Response)]
    BY <1>7 DEF drain_and_drop
  <2>3. KeptParts'
    BY <1>7 DEF drain_and_drop, KeptParts
  <2> QED
    BY <1>7, <2>1, <2>2, <2>3 DEF drain_and_drop, TypeOK
<1>8. ASSUME NEW i \in Id, ServerSendsPart(i) PROVE TypeOK'
  <2>1. server[i] # 0 /\ server[i] + 1 \in 0..MaxParts
    BY <1>8, RequestHandlerAssumption DEF ServerSendsPart
  <2>2. wire' \in Seq(Response)
    BY <1>8, <2>1, PartIsResponse, PutLast DEF ServerSendsPart, TypeOK
  <2>3. server' \in [Id -> 0..MaxParts]
    BY <1>8, <2>1 DEF ServerSendsPart, TypeOK
  <2> QED
    BY <1>8, <2>2, <2>3, KeptFrame DEF ServerSendsPart, TypeOK
<1>9. ASSUME NEW i \in Id, ServerSendsFinal(i) PROVE TypeOK'
  <2>1. wire' \in Seq(Response)
    BY <1>9, PartIsResponse, PutLast DEF ServerSendsFinal, TypeOK
  <2>2. server' \in [Id -> 0..MaxParts]
    BY <1>9, RequestHandlerAssumption DEF ServerSendsFinal, TypeOK
  <2> QED
    BY <1>9, <2>1, <2>2, KeptFrame DEF ServerSendsFinal, TypeOK
<1>10. ASSUME NEW i \in Id, ServerRejects(i) PROVE TypeOK'
  <2>1. wire' \in Seq(Response)
    BY <1>10, RejectIsResponse, PutLast DEF ServerRejects, TypeOK
  <2>2. server' \in [Id -> 0..MaxParts]
    BY <1>10, RequestHandlerAssumption DEF ServerRejects, TypeOK
  <2> QED
    BY <1>10, <2>1, <2>2, KeptFrame DEF ServerRejects, TypeOK
<1>11. CASE UNCHANGED vars
  BY <1>11, KeptFrame DEF vars, TypeOK
<1> QED
  BY <1>1, <1>2, <1>3, <1>4, <1>5, <1>6, <1>7, <1>8, <1>9, <1>10, <1>11 DEF Next

(***************************************************************************)
(* Every reachable state is well typed: in particular the drawn id fits    *)
(* the id space, everything delivered to a caller is a response, and       *)
(* everything kept for one a part of its own answer that is not the last.  *)
(***************************************************************************)
THEOREM TypeCorrect == Spec => []TypeOK
<1>1. Init => TypeOK
  BY TypeInit
<1>2. TypeOK /\ [Next]_vars => TypeOK'
  BY TypeStep
<1> QED
  BY <1>1, <1>2, PTL DEF Spec

-----------------------------------------------------------------------------
(* Registration.                                                           *)

RegInv == RegistrationMatches /\ NoCallerForgotten

(* The step of handle_response that answers a registered caller.           *)
LEMMA AnswerKeepsRegistration ==
  ASSUME TypeOK, RegInv,
         NEW i \in Id, NEW vec, Registered(i),
         handle_map' = [handle_map EXCEPT ![i] = NoCall],
         send_to_responder(handle_map[i], vec),
         UNCHANGED id_of
  PROVE  RegInv'
<1>1. handle_map[i] \in Call /\ id_of[handle_map[i]] = i
  BY DEF TypeOK, Registered, RegInv, RegistrationMatches
<1>2. \A c \in Call : outcome'[c] = IF c = handle_map[i] /\ outcome[c] = "waiting"
                                    THEN "Ok" ELSE outcome[c]
  BY <1>1 DEF send_to_responder, TypeOK
<1>3. RegistrationMatches'
  <2> SUFFICES ASSUME NEW j \in Id, Registered(j)'
               PROVE  /\ id_of'[handle_map'[j]] = j
                      /\ outcome'[handle_map'[j]] \in {"waiting", "dropped"}
    BY DEF RegistrationMatches
  <2>1. j # i /\ handle_map'[j] = handle_map[j] /\ Registered(j)
    BY DEF Registered, TypeOK
  <2>2. handle_map[j] \in Call /\ id_of[handle_map[j]] = j
    BY <2>1 DEF TypeOK, Registered, RegInv, RegistrationMatches
  <2>3. handle_map[j] # handle_map[i]
    BY <1>1, <2>1, <2>2
  <2> QED
    BY <1>2, <2>1, <2>2, <2>3 DEF RegInv, RegistrationMatches
<1>4. NoCallerForgotten'
  <2> SUFFICES ASSUME NEW c \in Call, outcome'[c] = "waiting"
               PROVE  handle_map'[id_of'[c]] = c
    BY DEF NoCallerForgotten
  <2>1. outcome[c] = "waiting" /\ c # handle_map[i]
    BY <1>2
  <2>2. handle_map[id_of[c]] = c /\ id_of[c] \in Id
    BY <2>1 DEF RegInv, NoCallerForgotten, TypeOK
  <2> QED
    BY <2>1, <2>2 DEF TypeOK
<1> QED
  BY <1>3, <1>4 DEF RegInv

LEMMA HandleKeepsRegistration ==
  ASSUME TypeOK, RegInv, NEW r \in Response, handle_response(r), UNCHANGED id_of
  PROVE  RegInv'
<1>1. r.id \in Id
  BY ResponseFields
<1>2. CASE HandleSingle(r)
  BY <1>1, <1>2, AnswerKeepsRegistration DEF HandleSingle
<1>3. CASE HandleFinal(r)
  BY <1>1, <1>3, AnswerKeepsRegistration DEF HandleFinal
<1>4. CASE HandleMore(r) \/ HandleUnknown(r)
  BY <1>4 DEF HandleMore, HandleUnknown, RegInv, RegistrationMatches,
              NoCallerForgotten, Registered
<1> QED
  BY <1>2, <1>3, <1>4 DEF handle_response

LEMMA RegistrationStep ==
  TypeOK /\ RegInv /\ FreshIdsUnused /\ [Next]_vars => RegInv'
<1> SUFFICES ASSUME TypeOK, RegInv, FreshIdsUnused, [Next]_vars PROVE RegInv'
  OBVIOUS
<1>1. ASSUME NEW c \in Call, SendRequest(c) PROVE RegInv'
  <2> DEFINE n == message_id_counter + 1
  <2>1. n \in Id /\ n > message_id_counter /\ get_next_message_id = n
    BY <1>1, DrawIdType DEF SendRequest, get_next_message_id
  <2>2. /\ handle_map' = [handle_map EXCEPT ![n] = c]
        /\ id_of' = [id_of EXCEPT ![c] = n]
        /\ outcome' = [outcome EXCEPT ![c] = "waiting"]
        /\ outcome[c] = "idle"
    BY <1>1, <2>1 DEF SendRequest, register_request
  <2>3. \A i \in Id : Registered(i) => handle_map[i] # c /\ handle_map[i] \in Call
    BY <2>2 DEF RegInv, RegistrationMatches, TypeOK, Registered
  <2>4. \A d \in Call : outcome[d] = "waiting" => id_of[d] # n /\ id_of[d] \in Id
    BY <2>1 DEF FreshIdsUnused, TypeOK, Id
  <2>5. RegistrationMatches'
    BY <2>1, <2>2, <2>3 DEF RegInv, RegistrationMatches, Registered, TypeOK
  <2>6. NoCallerForgotten'
    BY <2>1, <2>2, <2>4 DEF RegInv, NoCallerForgotten, TypeOK
  <2> QED
    BY <2>5, <2>6 DEF RegInv
<1>2. ASSUME NEW c \in Call, SendFails(c) PROVE RegInv'
  <2> DEFINE n == message_id_counter + 1
  <2>1. n \in Id /\ n > message_id_counter /\ get_next_message_id = n
    BY <1>2, DrawIdType DEF SendFails, get_next_message_id
  <2>2. /\ handle_map' = [[handle_map EXCEPT ![n] = c] EXCEPT ![n] = NoCall]
        /\ id_of' = [id_of EXCEPT ![c] = n]
        /\ outcome' = [outcome EXCEPT ![c] = "SendFailed"]
        /\ outcome[c] = "idle"
    BY <1>2, <2>1 DEF SendFails, register_request, fail_request
  <2>3. \A i \in Id : Registered(i) => handle_map[i] # c /\ handle_map[i] \in Call
    BY <2>2 DEF RegInv, RegistrationMatches, TypeOK, Registered
  <2>4. \A d \in Call : outcome[d] = "waiting" => id_of[d] # n /\ id_of[d] \in Id
    BY <2>1 DEF FreshIdsUnused, TypeOK, Id
  <2>5. RegistrationMatches'
    BY <2>1, <2>2, <2>3 DEF RegInv, RegistrationMatches, Registered, TypeOK
  <2>6. NoCallerForgotten'
    BY <2>1, <2>2, <2>4 DEF RegInv, NoCallerForgotten, TypeOK
  <2> QED
    BY <2>5, <2>6 DEF RegInv
<1>3. ASSUME NEW c \in Call, CallerGivesUp(c) PROVE RegInv'
  BY <1>3 DEF CallerGivesUp, RegInv, RegistrationMatches, NoCallerForgotten,
              Registered, TypeOK
<1>4. CASE ReadResponse
  <2>1. Head(wire) \in Response
    BY <1>4, TakeHead DEF ReadResponse, TypeOK
  <2> QED
    BY <1>4, <2>1, HandleKeepsRegistration DEF ReadResponse
<1>5. CASE ReadUndecodable
  BY <1>5, HandleKeepsRegistration, UndecodableIsResponse DEF ReadUndecodable
<1>6. CASE drain_and_drop
  <2>1. RegistrationMatches'
    BY <1>6 DEF drain_and_drop, RegistrationMatches, Registered
  <2>2. \A c \in Call : outcome[c] = "waiting" => \E i \in Id : handle_map[i] = c
    BY DEF RegInv, NoCallerForgotten, TypeOK
  <2>3. NoCallerForgotten'
    BY <1>6, <2>2 DEF drain_and_drop, NoCallerForgotten
  <2> QED
    BY <2>1, <2>3 DEF RegInv
<1>7. CASE SendHeartbeat \/ UNCHANGED vars
  BY <1>7 DEF SendHeartbeat, vars, RegInv, RegistrationMatches, NoCallerForgotten,
              Registered
<1>8. ASSUME NEW i \in Id,
             ServerSendsPart(i) \/ ServerSendsFinal(i) \/ ServerRejects(i)
      PROVE  RegInv'
  BY <1>8 DEF ServerSendsPart, ServerSendsFinal, ServerRejects, RegInv,
              RegistrationMatches, NoCallerForgotten, Registered
<1> QED
  BY <1>1, <1>2, <1>3, <1>4, <1>5, <1>6, <1>7, <1>8 DEF Next

-----------------------------------------------------------------------------
(* Fresh ids and the order of the frames on the wire.                      *)

(* What handle_response can do to the collected parts.                     *)
LEMMA HandleParts ==
  ASSUME TypeOK, NEW r \in Response, handle_response(r), NEW i \in Id
  PROVE  /\ i # r.id => response_vec_map'[i] = response_vec_map[i]
         /\ \/ response_vec_map'[i] = response_vec_map[i]
            \/ response_vec_map'[i] = <<>>
            \/ /\ i = r.id /\ r.multi /\ r.more
               /\ response_vec_map'[i] = Append(response_vec_map[i], r)
         /\ handle_map'[i] \in {handle_map[i], NoCall}
         /\ i # r.id => handle_map'[i] = handle_map[i]
         /\ \A c \in Call : outcome'[c] = outcome[c]
                            \/ (outcome[c] = "waiting" /\ outcome'[c] = "Ok")
<1>1. r.id \in Id
  BY ResponseFields
<1>2. Registered(r.id) => handle_map[r.id] \in Call
  BY <1>1 DEF TypeOK, Registered
<1>3. CASE HandleSingle(r)
  BY <1>1, <1>2, <1>3 DEF HandleSingle, send_to_responder, TypeOK
<1>4. CASE HandleMore(r)
  BY <1>1, <1>4 DEF HandleMore, TypeOK
<1>5. CASE HandleFinal(r)
  BY <1>1, <1>2, <1>5 DEF HandleFinal, send_to_responder, TypeOK
<1>6. CASE HandleUnknown(r)
  BY <1>6 DEF HandleUnknown
<1> QED
  BY <1>3, <1>4, <1>5, <1>6 DEF handle_response

LEMMA FreshStep ==
  TypeOK /\ FreshIdsUnused /\ [Next]_vars => FreshIdsUnused'
<1> SUFFICES ASSUME TypeOK, FreshIdsUnused, [Next]_vars PROVE FreshIdsUnused'
  OBVIOUS
<1>0. 0 \in Id /\ message_id_counter \in Nat /\ Id \subseteq Nat
  BY RequestHandlerAssumption DEF TypeOK, Id
<1>1. ASSUME NEW c \in Call, SendRequest(c) \/ SendFails(c) PROVE FreshIdsUnused'
  <2> DEFINE n == message_id_counter + 1
  <2>1. n \in Id /\ get_next_message_id = n /\ message_id_counter' = n
    BY <1>1, DrawIdType DEF SendRequest, SendFails, get_next_message_id
  <2>2. ASSUME NEW i \in Id, i = 0 \/ i > n
        PROVE  /\ ~Registered(i)'
               /\ server'[i] = 0
               /\ response_vec_map'[i] = <<>>
               /\ \A k \in 1..Len(wire') : wire'[k].id # i
    <3>1. i # n /\ (i = 0 \/ i > message_id_counter)
      BY <1>0, <2>2
    <3>2. ~Registered(i)'
      BY <1>1, <2>1, <3>1 DEF SendRequest, SendFails, register_request,
                              fail_request, FreshIdsUnused, Registered, TypeOK
    <3>3. server'[i] = 0
      BY <1>1, <2>1, <3>1 DEF SendRequest, SendFails, Accept, FreshIdsUnused, TypeOK
    <3> QED
      BY <1>1, <3>1, <3>2, <3>3 DEF SendRequest, SendFails, FreshIdsUnused
  <2>3. ASSUME NEW d \in Call
        PROVE  /\ id_of'[d] <= n
               /\ outcome'[d] = "idle" => id_of'[d] = 0
    <3>1. id_of' = [id_of EXCEPT ![c] = n]
      BY <1>1, <2>1 DEF SendRequest, SendFails
    <3>2. outcome'[c] # "idle" /\ (d # c => outcome'[d] = outcome[d])
      BY <1>1 DEF SendRequest, SendFails, TypeOK
    <3>3. id_of[d] <= message_id_counter /\ id_of[d] \in Nat
      BY <1>0 DEF FreshIdsUnused, TypeOK
    <3> QED
      BY <1>0, <3>1, <3>2, <3>3 DEF FreshIdsUnused, TypeOK
  <2> QED
    BY <2>1, <2>2, <2>3 DEF FreshIdsUnused
<1>2. ASSUME NEW c \in Call, CallerGivesUp(c) PROVE FreshIdsUnused'
  BY <1>2 DEF CallerGivesUp, FreshIdsUnused, Registered, TypeOK
<1>3. CASE SendHeartbeat
  <2>1. message_id_counter' = message_id_counter + 1
    BY <1>3, DrawIdType DEF SendHeartbeat
  <2>2. \A i \in Id : i > message_id_counter' => i > message_id_counter
    BY <1>0, <2>1
  <2>3. \A c \in Call : id_of[c] <= message_id_counter'
    <3> TAKE c \in Call
    <3>1. id_of[c] \in Nat /\ id_of[c] <= message_id_counter
      BY <1>0 DEF FreshIdsUnused, TypeOK
    <3> QED
      BY <1>0, <2>1, <3>1
  <2> QED
    BY <1>3, <2>2, <2>3 DEF SendHeartbeat, FreshIdsUnused, Registered
<1>4. ASSUME NEW r \in Response, handle_response(r), wire # <<>>, wire' = Tail(wire),
             UNCHANGED <<message_id_counter, server, id_of>>,
             \/ ~r.multi
             \/ \E k \in 1..Len(wire) : wire[k].id = r.id
      PROVE  FreshIdsUnused'
  <2>1. ASSUME NEW i \in Id, i = 0 \/ i > message_id_counter
        PROVE  /\ ~Registered(i)'
               /\ response_vec_map'[i] = <<>>
               /\ \A k \in 1..Len(wire') : wire'[k].id # i
    <3>1. /\ ~Registered(i)
          /\ response_vec_map[i] = <<>>
          /\ \A k \in 1..Len(wire) : wire[k].id # i
      BY <2>1 DEF FreshIdsUnused
    <3>2. i # r.id \/ ~r.multi
      BY <1>4, <3>1
    <3>3. ~Registered(i)' /\ response_vec_map'[i] = <<>>
      BY <1>4, <3>1, <3>2, HandleParts DEF Registered
    <3>4. \A k \in 1..Len(wire') : k + 1 \in 1..Len(wire) /\ wire'[k] = wire[k + 1]
      BY <1>4, TakeHead DEF TypeOK
    <3> QED
      BY <3>1, <3>3, <3>4
  <2>2. \A c \in Call : outcome'[c] = "idle" => outcome[c] = "idle"
    BY <1>4, HandleParts, <1>0
  <2> QED
    BY <1>4, <2>1, <2>2 DEF FreshIdsUnused
<1>5. CASE ReadResponse
  <2>1. /\ Head(wire) \in Response
        /\ 1 \in 1..Len(wire)
        /\ wire[1].id = Head(wire).id
    BY <1>5, TakeHead DEF ReadResponse, TypeOK
  <2>2. /\ handle_response(Head(wire))
        /\ wire # <<>> /\ wire' = Tail(wire)
        /\ UNCHANGED <<message_id_counter, server, id_of>>
    BY <1>5 DEF ReadResponse
  <2> QED
    BY <1>4, <2>1, <2>2
<1>6. CASE ReadUndecodable
  <2>1. ~Undecodable.multi
    BY DEF Undecodable
  <2>2. /\ handle_response(Undecodable)
        /\ wire # <<>> /\ wire' = Tail(wire)
        /\ UNCHANGED <<message_id_counter, server, id_of>>
    BY <1>6 DEF ReadUndecodable
  <2> QED
    BY <1>4, <2>1, <2>2, UndecodableIsResponse
<1>7. CASE drain_and_drop
  <2>1. \A c \in Call : outcome'[c] = "idle" => outcome[c] = "idle"
    BY <1>7 DEF drain_and_drop
  <2> QED
    BY <1>7, <2>1 DEF drain_and_drop, FreshIdsUnused, Registered
<1>8. ASSUME NEW j \in Id, NEW r \in Response, r.id = j, server[j] # 0,
             wire' = Append(wire, r), NEW s, server' = [server EXCEPT ![j] = s],
             UNCHANGED <<message_id_counter, handle_map, response_vec_map, outcome,
                         id_of>>
      PROVE  FreshIdsUnused'
  <2>1. ASSUME NEW i \in Id, i = 0 \/ i > message_id_counter
        PROVE  server'[i] = 0 /\ \A k \in 1..Len(wire') : wire'[k].id # i
    <3>1. i # j /\ server[i] = 0 /\ \A k \in 1..Len(wire) : wire[k].id # i
      BY <1>8, <2>1 DEF FreshIdsUnused
    <3>2. \A k \in 1..Len(wire') : wire'[k] = r \/ (k \in 1..Len(wire) /\ wire'[k] = wire[k])
      BY <1>8, PutLast DEF TypeOK
    <3> QED
      BY <1>8, <3>1, <3>2 DEF TypeOK
  <2> QED
    BY <1>8, <2>1 DEF FreshIdsUnused, Registered
<1>9. ASSUME NEW i \in Id,
             ServerSendsPart(i) \/ ServerSendsFinal(i) \/ ServerRejects(i)
      PROVE  FreshIdsUnused'
  <2>1. server[i] # 0
    <3>1. CASE ServerSendsPart(i)
      BY <3>1, RequestHandlerAssumption DEF ServerSendsPart
    <3>2. CASE ServerSendsFinal(i)
      BY <3>2 DEF ServerSendsFinal
    <3>3. CASE ServerRejects(i)
      BY <3>3 DEF ServerRejects
    <3> QED
      BY <1>9, <3>1, <3>2, <3>3
  <2>2. /\ PartOf(i, TRUE) \in Response /\ PartOf(i, TRUE).id = i
        /\ PartOf(i, FALSE) \in Response /\ PartOf(i, FALSE).id = i
        /\ RejectOf(i) \in Response /\ RejectOf(i).id = i
    <3>1. PartOf(i, TRUE).id = i /\ PartOf(i, FALSE).id = i /\ RejectOf(i).id = i
      BY DEF PartOf, RejectOf
    <3> QED
      BY <2>1, <3>1, PartIsResponse, RejectIsResponse
  <2> QED
    BY <1>8, <1>9, <2>1, <2>2 DEF ServerSendsPart, ServerSendsFinal, ServerRejects
<1>10. CASE UNCHANGED vars
  BY <1>10 DEF vars, FreshIdsUnused, Registered
<1> QED
  BY <1>1, <1>2, <1>3, <1>5, <1>6, <1>7, <1>9, <1>10 DEF Next

(* The frames left after the reader has taken one.                         *)
LEMMA ReadShift ==
  ASSUME TypeOK, wire # <<>>, wire' = Tail(wire)
  PROVE  /\ 1 \in 1..Len(wire) /\ wire[1] = Head(wire) /\ wire[1] \in Response
         /\ Len(wire) \in Nat /\ Len(wire') = Len(wire) - 1
         /\ \A k \in 1..Len(wire') : k + 1 \in 1..Len(wire) /\ wire'[k] = wire[k + 1]
<1>1. wire \in Seq(Response)
  BY DEF TypeOK
<1> QED
  BY <1>1, TakeHead

(* The frames after the server has sent one.                               *)
LEMMA SendShift ==
  ASSUME TypeOK, NEW r \in Response, wire' = Append(wire, r)
  PROVE  /\ Len(wire) \in Nat /\ Len(wire') = Len(wire) + 1
         /\ wire'[Len(wire) + 1] = r
         /\ \A k \in 1..Len(wire') : \/ k \in 1..Len(wire) /\ wire'[k] = wire[k]
                                     \/ k = Len(wire) + 1 /\ wire'[k] = r
<1>1. wire \in Seq(Response)
  BY DEF TypeOK
<1> QED
  BY <1>1, PutLast

(* Which ids ask for parts is settled when they are drawn.                 *)
LEMMA AsksIsStable ==
  ASSUME TypeOK, FreshIdsUnused, [Next]_vars, NEW i \in Id, i # 0, AsksForParts(i)
  PROVE  AsksForParts(i)'
<1>1. PICK d \in MultiCall : id_of[d] = i
  BY DEF AsksForParts
<1>2. d \in Call
  BY <1>1, RequestHandlerAssumption
<1>3. outcome[d] # "idle"
  BY <1>1, <1>2 DEF FreshIdsUnused
<1>4. ASSUME NEW c \in Call, SendRequest(c) \/ SendFails(c) PROVE id_of'[d] = id_of[d]
  <2>1. c # d
    BY <1>3, <1>4 DEF SendRequest, SendFails
  <2>2. id_of' = [id_of EXCEPT ![c] = get_next_message_id]
    BY <1>4 DEF SendRequest, SendFails
  <2> QED
    BY <1>2, <2>1, <2>2 DEF TypeOK
<1>5. id_of'[d] = id_of[d]
  BY <1>2, <1>4 DEF Next, vars, CallerGivesUp, SendHeartbeat, ReadResponse,
       ReadUndecodable, drain_and_drop, ServerSendsPart, ServerSendsFinal, ServerRejects
<1> QED
  BY <1>1, <1>5 DEF AsksForParts

(* What the three server actions have in common.                           *)
ServerSends(i, r, s) ==
  /\ server[i] # 0
  /\ r \in Response /\ r.id = i /\ r.part = server[i]
  /\ ~r.multi => ~r.more /\ r.part = 1
  /\ s = 0 \/ (s = server[i] + 1 /\ r.more /\ AsksForParts(i))
  /\ wire' = Append(wire, r)
  /\ server' = [server EXCEPT ![i] = s]
  /\ UNCHANGED <<message_id_counter, handle_map, response_vec_map, outcome,
                 answer, running, id_of, damaged>>

LEMMA ServerStep ==
  ASSUME TypeOK, WireOrdered, NEW i \in Id,
         ServerSendsPart(i) \/ ServerSendsFinal(i) \/ ServerRejects(i)
  PROVE  \E r \in Response, s \in Nat : ServerSends(i, r, s)
<1>1. ~AsksForParts(i) => ~(server[i] > 1)
  BY DEF WireOrdered
<1>2. server[i] \in Nat
  BY DEF TypeOK
<1>3. CASE ServerSendsPart(i)
  <2>1. server[i] # 0 /\ AsksForParts(i)
    BY <1>3, RequestHandlerAssumption DEF ServerSendsPart
  <2>2. PartOf(i, TRUE) \in Response
    BY <2>1, PartIsResponse
  <2>3. ServerSends(i, PartOf(i, TRUE), server[i] + 1)
    BY <1>2, <1>3, <2>1, <2>2 DEF ServerSendsPart, ServerSends, PartOf
  <2>4. server[i] + 1 \in Nat
    BY <1>2
  <2> QED
    BY <2>2, <2>3, <2>4
<1>4. CASE ServerSendsFinal(i)
  <2>1. server[i] # 0
    BY <1>4 DEF ServerSendsFinal
  <2>2. PartOf(i, FALSE) \in Response
    BY <2>1, PartIsResponse
  <2>3. ~AsksForParts(i) => server[i] = 1
    BY <1>1, <1>2, <2>1
  <2>4. ServerSends(i, PartOf(i, FALSE), 0)
    BY <1>4, <2>1, <2>2, <2>3 DEF ServerSendsFinal, ServerSends, PartOf
  <2>5. 0 \in Nat
    OBVIOUS
  <2> QED
    BY <2>2, <2>4, <2>5
<1>5. CASE ServerRejects(i)
  <2>1. RejectOf(i) \in Response
    BY RejectIsResponse
  <2>2. server[i] # 0
    BY <1>5 DEF ServerRejects
  <2>3. ServerSends(i, RejectOf(i), 0)
    BY <1>5, <2>1, <2>2 DEF ServerRejects, ServerSends, RejectOf
  <2>4. 0 \in Nat
    OBVIOUS
  <2> QED
    BY <2>1, <2>3, <2>4
<1> QED
  BY <1>3, <1>4, <1>5

LEMMA WireStep ==
  TypeOK /\ FreshIdsUnused /\ WireOrdered /\ [Next]_vars => WireOrdered'
<1> SUFFICES ASSUME TypeOK, FreshIdsUnused, WireOrdered, [Next]_vars PROVE WireOrdered'
  OBVIOUS
<1>0. /\ \A i \in Id : server[i] \in Nat
      /\ \A k \in 1..Len(wire) : wire[k] \in Response /\ wire[k].id \in Id
  BY ResponseFields, ElementOfSeq DEF TypeOK
<1>1. ASSUME wire # <<>>, wire' = Tail(wire), UNCHANGED <<server, id_of>>
      PROVE  WireOrdered'
  BY <1>1, ReadShift DEF WireOrdered, AsksForParts
<1>2. ASSUME UNCHANGED <<wire, server, id_of>> PROVE WireOrdered'
  BY <1>2 DEF WireOrdered, AsksForParts
<1>3. ASSUME NEW c \in Call, SendRequest(c) \/ SendFails(c) PROVE WireOrdered'
  <2> DEFINE n == message_id_counter + 1
  <2>1. /\ n \in Id /\ get_next_message_id = n /\ n > message_id_counter
    BY <1>3, DrawIdType DEF SendRequest, SendFails, get_next_message_id
  <2>2. UNCHANGED wire /\ (server' = [server EXCEPT ![n] = 1] \/ UNCHANGED server)
    BY <1>3, <2>1 DEF SendRequest, SendFails, Accept
  <2>3. \A k \in 1..Len(wire) : wire[k].id # n
    BY <2>1 DEF FreshIdsUnused
  <2>4. \A k \in 1..Len(wire) : server'[wire[k].id] = server[wire[k].id]
    BY <1>0, <2>2, <2>3 DEF TypeOK
  <2>5. ASSUME NEW i \in Id, server'[i] > 1 PROVE AsksForParts(i)'
    <3>1. i # n
      BY <2>1, <2>2, <2>5, <1>0 DEF TypeOK, FreshIdsUnused
    <3>2. server'[i] = server[i]
      BY <2>2, <3>1 DEF TypeOK
    <3>3. AsksForParts(i) /\ i # 0
      BY <2>5, <3>2 DEF WireOrdered, FreshIdsUnused
    <3> QED
      BY <3>3, AsksIsStable
  <2> QED
    BY <2>2, <2>4, <2>5 DEF WireOrdered
<1>4. ASSUME NEW i \in Id, NEW r \in Response, NEW s \in Nat, ServerSends(i, r, s)
      PROVE  WireOrdered'
  <2>1. /\ r.id = i /\ r.part = server[i] /\ server[i] # 0
        /\ server' = [server EXCEPT ![i] = s] /\ wire' = Append(wire, r)
        /\ s = 0 \/ (s = server[i] + 1 /\ r.more /\ AsksForParts(i))
        /\ ~r.multi => ~r.more /\ r.part = 1
        /\ UNCHANGED id_of
    BY <1>4 DEF ServerSends
  <2>2. \A k \in 1..Len(wire) :
          wire[k].id = i => wire[k].more /\ wire[k].part < server[i]
    BY <2>1 DEF WireOrdered
  <2>3. \A j, k \in 1..Len(wire') :
          j < k /\ wire'[j].id = wire'[k].id =>
            wire'[j].more /\ wire'[j].part < wire'[k].part
    BY <2>1, <2>2, SendShift DEF WireOrdered
  <2>4. \A k \in 1..Len(wire') :
          server'[wire'[k].id] # 0 =>
            wire'[k].more /\ wire'[k].part < server'[wire'[k].id]
    <3> SUFFICES ASSUME NEW k \in 1..Len(wire'), server'[wire'[k].id] # 0
                 PROVE  wire'[k].more /\ wire'[k].part < server'[wire'[k].id]
      OBVIOUS
    <3>1. CASE k \in 1..Len(wire) /\ wire'[k] = wire[k]
      <4>1. wire[k].id \in Id /\ wire[k].part \in Nat /\ server[i] \in Nat
        BY <1>0, <3>1, ResponseFields
      <4>2. CASE wire[k].id = i
        BY <2>1, <2>2, <3>1, <4>1, <4>2 DEF TypeOK
      <4>3. CASE wire[k].id # i
        BY <2>1, <3>1, <4>1, <4>3 DEF TypeOK, WireOrdered
      <4> QED
        BY <4>2, <4>3
    <3>2. CASE wire'[k] = r
      BY <1>0, <2>1, <3>2 DEF TypeOK
    <3> QED
      BY <2>1, <3>1, <3>2, SendShift
  <2>5. \A k \in 1..Len(wire') : ~wire'[k].multi => ~wire'[k].more /\ wire'[k].part = 1
    BY <2>1, SendShift DEF WireOrdered
  <2>6. \A j \in Id : server'[j] > 1 => AsksForParts(j)'
    BY <1>0, <2>1 DEF TypeOK, WireOrdered, AsksForParts
  <2> QED
    BY <2>3, <2>4, <2>5, <2>6 DEF WireOrdered
<1>5. ASSUME NEW i \in Id,
             ServerSendsPart(i) \/ ServerSendsFinal(i) \/ ServerRejects(i)
      PROVE  WireOrdered'
  BY <1>4, <1>5, ServerStep
<1>6. CASE ReadResponse \/ ReadUndecodable
  BY <1>1, <1>6 DEF ReadResponse, ReadUndecodable
<1>7. CASE SendHeartbeat \/ drain_and_drop \/ UNCHANGED vars
  BY <1>2, <1>7 DEF SendHeartbeat, drain_and_drop, vars
<1>8. ASSUME NEW c \in Call, CallerGivesUp(c) PROVE WireOrdered'
  BY <1>2, <1>8 DEF CallerGivesUp
<1> QED
  BY <1>3, <1>5, <1>6, <1>7, <1>8 DEF Next

-----------------------------------------------------------------------------
(* The collected parts.                                                    *)

LEMMA PartsStep ==
  IInv /\ [Next]_vars => PartsOrdered'
<1> SUFFICES ASSUME IInv, [Next]_vars PROVE PartsOrdered'
  OBVIOUS
<1> USE DEF IInv
<1>0. /\ \A i \in Id : server[i] \in Nat /\ response_vec_map[i] \in Seq(Response)
      /\ \A i \in Id : \A k \in 1..Len(response_vec_map[i]) :
           response_vec_map[i][k] \in Response /\ response_vec_map[i][k].part \in Nat
  BY ResponseFields, ElementOfSeq DEF TypeOK
<1>1. ASSUME NEW r \in Response, handle_response(r), wire # <<>>, wire' = Tail(wire),
             UNCHANGED server, ~r.multi \/ r = Head(wire)
      PROVE  PartsOrdered'
  <2> SUFFICES
        ASSUME NEW i \in Id
        PROVE  LET parts == response_vec_map'[i] IN
               /\ \A k \in 1..Len(parts) : parts[k].id = i /\ parts[k].more
               /\ \A j, k \in 1..Len(parts) : j < k => parts[j].part < parts[k].part
               /\ \A k \in 1..Len(parts) :
                    /\ \A m \in 1..Len(wire') :
                         wire'[m].id = i => parts[k].part < wire'[m].part
                    /\ server'[i] # 0 => parts[k].part < server'[i]
    BY DEF PartsOrdered
  <2>1. CASE response_vec_map'[i] = response_vec_map[i]
    BY <1>1, <2>1, ReadShift DEF PartsOrdered
  <2>2. CASE response_vec_map'[i] = <<>>
    BY <2>2
  <2>3. CASE /\ i = r.id /\ r.multi /\ r.more
             /\ response_vec_map'[i] = Append(response_vec_map[i], r)
    <3> DEFINE old == response_vec_map[i]
               new == response_vec_map'[i]
    <3>1. r = wire[1] /\ 1 \in 1..Len(wire)
      BY <1>1, <2>3, ReadShift
    <3>2. /\ Len(old) \in Nat /\ Len(new) = Len(old) + 1
          /\ \A k \in 1..Len(new) : \/ k \in 1..Len(old) /\ new[k] = old[k]
                                    \/ k = Len(old) + 1 /\ new[k] = r
      BY <1>0, <1>1, <2>3, PutLast
    <3>3. \A k \in 1..Len(old) : old[k].part < r.part
      BY <2>3, <3>1 DEF PartsOrdered
    <3>4. \A k \in 1..Len(new) : new[k].id = i /\ new[k].more
      BY <2>3, <3>2 DEF PartsOrdered
    <3>5. \A j, k \in 1..Len(new) : j < k => new[j].part < new[k].part
      <4> SUFFICES ASSUME NEW j \in 1..Len(new), NEW k \in 1..Len(new), j < k
                   PROVE  new[j].part < new[k].part
        OBVIOUS
      <4>1. j \in 1..Len(old) /\ new[j] = old[j]
        BY <3>2
      <4>2. CASE k \in 1..Len(old) /\ new[k] = old[k]
        BY <4>1, <4>2 DEF PartsOrdered
      <4>3. CASE new[k] = r
        BY <3>3, <4>1, <4>3
      <4> QED
        BY <3>2, <4>2, <4>3
    <3>6. \A m \in 1..Len(wire') : wire'[m].id = i =>
            /\ r.part < wire'[m].part
            /\ \A k \in 1..Len(old) : old[k].part < wire'[m].part
      <4> TAKE m \in 1..Len(wire')
      <4>1. m + 1 \in 1..Len(wire) /\ wire'[m] = wire[m + 1] /\ 1 < m + 1
        BY <1>1, ReadShift
      <4> QED
        <5>1. wire[m + 1].id = i => r.part < wire[m + 1].part
          BY <2>3, <3>1, <4>1 DEF WireOrdered
        <5>2. wire[m + 1].id = i =>
                \A k \in 1..Len(old) : old[k].part < wire[m + 1].part
          BY <4>1 DEF PartsOrdered
        <5> QED
          BY <4>1, <5>1, <5>2
    <3>7. server'[i] # 0 => /\ r.part < server'[i]
                            /\ \A k \in 1..Len(old) : old[k].part < server'[i]
      BY <1>1, <2>3, <3>1 DEF WireOrdered, PartsOrdered
    <3> QED
      BY <3>2, <3>4, <3>5, <3>6, <3>7
  <2> QED
    BY <1>1, <2>1, <2>2, <2>3, HandleParts
<1>2. CASE ReadResponse
  <2>1. /\ handle_response(Head(wire)) /\ wire # <<>> /\ wire' = Tail(wire)
        /\ UNCHANGED server
    BY <1>2 DEF ReadResponse
  <2> QED
    BY <1>1, <2>1, ReadShift
<1>3. CASE ReadUndecodable
  <2>1. /\ handle_response(Undecodable) /\ wire # <<>> /\ wire' = Tail(wire)
        /\ UNCHANGED server /\ ~Undecodable.multi
    BY <1>3 DEF ReadUndecodable, Undecodable
  <2> QED
    BY <1>1, <2>1, UndecodableIsResponse
<1>4. ASSUME NEW c \in Call, SendRequest(c) \/ SendFails(c) PROVE PartsOrdered'
  <2> DEFINE n == message_id_counter + 1
  <2>1. /\ n \in Id /\ get_next_message_id = n /\ n > message_id_counter
    BY <1>4, DrawIdType DEF SendRequest, SendFails, get_next_message_id
  <2>2. /\ UNCHANGED <<wire, response_vec_map>>
        /\ server' = [server EXCEPT ![n] = 1] \/ UNCHANGED server
    BY <1>4, <2>1 DEF SendRequest, SendFails, Accept
  <2>3. response_vec_map[n] = <<>>
    BY <2>1 DEF FreshIdsUnused
  <2>4. \A i \in Id : i # n => server'[i] = server[i]
    BY <2>2 DEF TypeOK
  <2> QED
    BY <2>2, <2>3, <2>4 DEF PartsOrdered
<1>5. CASE drain_and_drop
  BY <1>5 DEF drain_and_drop, PartsOrdered
<1>6. ASSUME NEW i \in Id, NEW r \in Response, NEW s \in Nat, ServerSends(i, r, s)
      PROVE  PartsOrdered'
  <2>1. /\ r.id = i /\ r.part = server[i] /\ server[i] # 0
        /\ server' = [server EXCEPT ![i] = s] /\ wire' = Append(wire, r)
        /\ s = 0 \/ s = server[i] + 1
        /\ UNCHANGED response_vec_map
    BY <1>6 DEF ServerSends
  <2>2. ASSUME NEW j \in Id, NEW k \in 1..Len(response_vec_map[j])
        PROVE  /\ \A m \in 1..Len(wire') :
                    wire'[m].id = j => response_vec_map[j][k].part < wire'[m].part
               /\ server'[j] # 0 => response_vec_map[j][k].part < server'[j]
    <3>1. \A m \in 1..Len(wire') :
            wire'[m].id = j => response_vec_map[j][k].part < wire'[m].part
      BY <2>1, <2>2, SendShift DEF PartsOrdered
    <3>2. server'[j] # 0 => response_vec_map[j][k].part < server'[j]
      <4> HIDE DEF IInv
      <4>1. server[j] # 0 => response_vec_map[j][k].part < server[j]
        BY <2>2 DEF IInv, PartsOrdered
      <4>2. /\ DOMAIN server = Id
            /\ server[i] \in Nat /\ response_vec_map[j][k].part \in Nat
        BY <1>0, <2>2 DEF IInv, TypeOK
      <4>3. server'[i] = s /\ \A h \in Id : h # i => server'[h] = server[h]
        BY <2>1, <4>2
      <4>4. CASE j = i
        BY <2>1, <4>1, <4>2, <4>3, <4>4
      <4>5. CASE j # i
        BY <4>1, <4>3, <4>5
      <4> QED
        BY <4>4, <4>5
    <3> QED
      BY <3>1, <3>2
  <2> QED
    BY <2>1, <2>2 DEF PartsOrdered
<1>7. ASSUME NEW i \in Id,
             ServerSendsPart(i) \/ ServerSendsFinal(i) \/ ServerRejects(i)
      PROVE  PartsOrdered'
  BY <1>6, <1>7, ServerStep
<1>8. CASE SendHeartbeat \/ UNCHANGED vars
  BY <1>8 DEF SendHeartbeat, vars, PartsOrdered
<1>9. ASSUME NEW c \in Call, CallerGivesUp(c) PROVE PartsOrdered'
  BY <1>9 DEF CallerGivesUp, PartsOrdered
<1> QED
  BY <1>2, <1>3, <1>4, <1>5, <1>7, <1>8, <1>9 DEF Next

-----------------------------------------------------------------------------
(* The answers.                                                            *)

\* what AnswersOwnPartsInOrder says of one call
OwnPartsInOrder(vec, i) ==
  /\ \A k \in 1..Len(vec) : vec[k].id = i
  /\ \A j, k \in 1..Len(vec) : j < k => vec[j].part < vec[k].part
  /\ \A k \in 1..Len(vec) : vec[k].more <=> k < Len(vec)

(* Delivering a vector of that kind under a registered id is enough.       *)
LEMMA DeliverOwnParts ==
  ASSUME IInv, NEW i \in Id, Registered(i), NEW vec, OwnPartsInOrder(vec, i),
         send_to_responder(handle_map[i], vec), UNCHANGED id_of
  PROVE  AnswersOwnPartsInOrder'
<1> USE DEF IInv
<1>1. handle_map[i] \in Call /\ id_of[handle_map[i]] = i
  BY DEF RegistrationMatches, TypeOK, Registered
<1>2. ASSUME NEW c \in Call, outcome'[c] = "Ok"
      PROVE  OwnPartsInOrder(answer'[c], id_of'[c])
  <2>1. CASE c = handle_map[i] /\ outcome[c] = "waiting"
    BY <1>1, <2>1 DEF send_to_responder, TypeOK
  <2>2. CASE ~(c = handle_map[i] /\ outcome[c] = "waiting")
    <3>1. outcome[c] = "Ok" /\ answer'[c] = answer[c]
      BY <1>1, <1>2, <2>2 DEF send_to_responder, TypeOK
    <3> QED
      BY <3>1 DEF AnswersOwnPartsInOrder, OwnPartsInOrder
  <2> QED
    BY <2>1, <2>2
<1> QED
  BY <1>2 DEF AnswersOwnPartsInOrder, OwnPartsInOrder

LEMMA AnswersStep ==
  IInv /\ [Next]_vars => AnswersOwnPartsInOrder'
<1> SUFFICES ASSUME IInv, [Next]_vars PROVE AnswersOwnPartsInOrder'
  OBVIOUS
<1> USE DEF IInv
<1>1. ASSUME UNCHANGED <<answer, id_of>>,
             \A c \in Call : outcome'[c] = "Ok" => outcome[c] = "Ok"
      PROVE  AnswersOwnPartsInOrder'
  BY <1>1 DEF AnswersOwnPartsInOrder
<1>2. ASSUME NEW c \in Call, SendRequest(c) \/ SendFails(c)
      PROVE  AnswersOwnPartsInOrder'
  <2>1. outcome[c] = "idle" /\ UNCHANGED answer
    BY <1>2 DEF SendRequest, SendFails
  <2>2. \A d \in Call : outcome'[d] = "Ok" => d # c /\ outcome[d] = "Ok"
    BY <1>2, <2>1 DEF SendRequest, SendFails, TypeOK
  <2>3. \A d \in Call : d # c => id_of'[d] = id_of[d]
    BY <1>2 DEF SendRequest, SendFails, TypeOK
  <2> QED
    BY <2>1, <2>2, <2>3 DEF AnswersOwnPartsInOrder
<1>3. ASSUME NEW c \in Call, CallerGivesUp(c) PROVE AnswersOwnPartsInOrder'
  BY <1>1, <1>3 DEF CallerGivesUp, TypeOK
<1>4. CASE ReadResponse
  <2> DEFINE r == Head(wire)
  <2>1. /\ handle_response(r) /\ wire # <<>> /\ UNCHANGED id_of
        /\ r = wire[1] /\ 1 \in 1..Len(wire) /\ r \in Response /\ r.id \in Id
    BY <1>4, ReadShift, ResponseFields DEF ReadResponse
  <2>2. CASE HandleSingle(r)
    <3>1. OwnPartsInOrder(<<r>>, r.id)
      BY <2>1, <2>2 DEF OwnPartsInOrder, HandleSingle, WireOrdered
    <3> QED
      BY <2>1, <2>2, <3>1, DeliverOwnParts DEF HandleSingle
  <2>3. CASE HandleFinal(r)
    <3> DEFINE old == response_vec_map[r.id]
               new == Append(old, r)
    <3>1. old \in Seq(Response)
      BY <2>1 DEF TypeOK
    <3>2. /\ Len(old) \in Nat /\ Len(new) = Len(old) + 1
          /\ \A k \in 1..Len(new) : \/ k \in 1..Len(old) /\ new[k] = old[k]
                                    \/ k = Len(old) + 1 /\ new[k] = r
      BY <2>1, <3>1, PutLast
    <3>3. \A k \in 1..Len(old) : old[k].part < r.part /\ old[k].id = r.id /\ old[k].more
      BY <2>1 DEF PartsOrdered
    <3>4. ~r.more
      BY <2>3 DEF HandleFinal
    <3>5. \A j, k \in 1..Len(new) : j < k => new[j].part < new[k].part
      <4> SUFFICES ASSUME NEW j \in 1..Len(new), NEW k \in 1..Len(new), j < k
                   PROVE  new[j].part < new[k].part
        OBVIOUS
      <4>1. j \in 1..Len(old) /\ new[j] = old[j]
        BY <3>2
      <4>2. CASE k \in 1..Len(old) /\ new[k] = old[k]
        BY <2>1, <4>1, <4>2 DEF PartsOrdered
      <4>3. CASE new[k] = r
        BY <3>3, <4>1, <4>3
      <4> QED
        BY <3>2, <4>2, <4>3
    <3>6. \A k \in 1..Len(new) : new[k].id = r.id /\ (new[k].more <=> k < Len(new))
      BY <3>2, <3>3, <3>4
    <3>7. OwnPartsInOrder(new, r.id)
      BY <3>5, <3>6 DEF OwnPartsInOrder
    <3> QED
      BY <2>1, <2>3, <3>7, DeliverOwnParts DEF HandleFinal
  <2>4. CASE HandleMore(r) \/ HandleUnknown(r)
    BY <1>1, <2>1, <2>4 DEF HandleMore, HandleUnknown
  <2> QED
    BY <2>1, <2>2, <2>3, <2>4 DEF handle_response
<1>5. CASE ReadUndecodable
  <2>1. 0 \in Id /\ ~Registered(0)
    BY RequestHandlerAssumption DEF Id, FreshIdsUnused
  <2>2. HandleUnknown(Undecodable)
    BY <1>5, <2>1 DEF ReadUndecodable, handle_response, HandleSingle, HandleMore,
                      HandleFinal, Undecodable
  <2> QED
    BY <1>1, <1>5, <2>2 DEF ReadUndecodable, HandleUnknown
<1>6. CASE drain_and_drop
  <2>1. \A c \in Call : outcome'[c] = "Ok" => outcome[c] = "Ok"
    BY <1>6 DEF drain_and_drop
  <2> QED
    BY <1>1, <1>6, <2>1 DEF drain_and_drop
<1>7. CASE SendHeartbeat \/ UNCHANGED vars
  BY <1>1, <1>7 DEF SendHeartbeat, vars
<1>8. ASSUME NEW i \in Id,
             ServerSendsPart(i) \/ ServerSendsFinal(i) \/ ServerRejects(i)
      PROVE  AnswersOwnPartsInOrder'
  BY <1>1, <1>8 DEF ServerSendsPart, ServerSendsFinal, ServerRejects
<1> QED
  BY <1>2, <1>3, <1>4, <1>5, <1>6, <1>7, <1>8 DEF Next

-----------------------------------------------------------------------------
(* The theorems.                                                           *)

LEMMA InductiveInit == Init => IInv
<1> SUFFICES ASSUME Init PROVE IInv
  OBVIOUS
<1>1. TypeOK
  BY TypeInit
<1>2. RegistrationMatches /\ NoCallerForgotten /\ AnswersOwnPartsInOrder
  BY DEF Init, RegistrationMatches, NoCallerForgotten, AnswersOwnPartsInOrder, Registered
<1>3. FreshIdsUnused
  BY RequestHandlerAssumption DEF Init, FreshIdsUnused, Registered, Id
<1>4. WireOrdered
  BY DEF Init, WireOrdered
<1>5. PartsOrdered
  BY DEF Init, PartsOrdered
<1> QED
  BY <1>1, <1>2, <1>3, <1>4, <1>5 DEF IInv

LEMMA InductiveStep == IInv /\ [Next]_vars => IInv'
<1> SUFFICES ASSUME IInv, [Next]_vars PROVE IInv'
  OBVIOUS
<1>1. TypeOK'
  BY TypeStep DEF IInv
<1>2. RegistrationMatches' /\ NoCallerForgotten'
  BY RegistrationStep DEF IInv, RegInv
<1>3. FreshIdsUnused'
  BY FreshStep DEF IInv
<1>4. WireOrdered'
  BY WireStep DEF IInv
<1> QED
  BY <1>1, <1>2, <1>3, <1>4, PartsStep, AnswersStep DEF IInv

LEMMA Inductive == Spec => []IInv
BY InductiveInit, InductiveStep, PTL DEF Spec

(***************************************************************************)
(* A responder is stored under its own call's id and only as long as that  *)
(* call is unanswered (register_request, handle_response, fail_request).   *)
(***************************************************************************)
THEOREM RegistrationCorrect == Spec => []RegistrationMatches
<1>1. IInv => RegistrationMatches
  BY DEF IInv
<1> QED
  BY <1>1, Inductive, PTL

(***************************************************************************)
(* Whoever waits is registered, until it is answered, failed or drained.   *)
(***************************************************************************)
THEOREM NobodyForgotten == Spec => []NoCallerForgotten
<1>1. IInv => NoCallerForgotten
  BY DEF IInv
<1> QED
  BY <1>1, Inductive, PTL

(***************************************************************************)
(* An answer holds the caller's own parts, in order, up to the final one:  *)
(* for any number of calls whose parts interleave, with failed sends,      *)
(* frames that do not decode, callers that give up and an abort.           *)
(***************************************************************************)
THEOREM AnswersCorrect == Spec => []AnswersOwnPartsInOrder
<1>1. IInv => AnswersOwnPartsInOrder
  BY DEF IInv
<1> QED
  BY <1>1, Inductive, PTL

-----------------------------------------------------------------------------
(* Completeness of the answers whose frames all arrived.                   *)

(* Reading a frame of another id leaves an id as it was.                   *)
LEMMA ReadOther ==
  ASSUME IInv, NEW i \in Id, wire # <<>>, wire' = Tail(wire), Head(wire).id # i,
         UNCHANGED server, response_vec_map'[i] = response_vec_map[i]
  PROVE  /\ NoGap(i) => NoGap(i)'
         /\ Spent(i) => Spent(i)'
<1>1. /\ wire[1].id # i /\ Len(wire) \in Nat /\ Len(wire') = Len(wire) - 1
      /\ \A k \in 1..Len(wire') : k + 1 \in 1..Len(wire) /\ wire'[k] = wire[k + 1]
  BY ReadShift DEF IInv
<1>2. Spent(i) => Spent(i)'
  BY <1>1 DEF Spent
<1>3. \A m \in Nat, p \in Nat : m <= Len(wire) =>
        ((\E j \in 1..m : wire[j].id = i /\ wire[j].part + 1 = p)
           => \E j \in 1..(m - 1) : wire'[j].id = i /\ wire'[j].part + 1 = p)
  <2> TAKE m \in Nat, p \in Nat
  <2> HAVE m <= Len(wire)
  <2> SUFFICES ASSUME NEW j \in 1..m, wire[j].id = i, wire[j].part + 1 = p
               PROVE  \E h \in 1..(m - 1) : wire'[h].id = i /\ wire'[h].part + 1 = p
    OBVIOUS
  <2>1. j # 1 /\ j - 1 \in 1..(m - 1) /\ j - 1 \in 1..Len(wire') /\ (j - 1) + 1 = j
    BY <1>1
  <2>2. wire'[j - 1] = wire[j]
    BY <1>1, <2>1
  <2> QED
    BY <2>1, <2>2
<1>4. ASSUME NoGap(i) PROVE NoGap(i)'
  <2>1. ASSUME NEW k \in 1..Len(wire'), wire'[k].id = i
        PROVE  \/ wire'[k].part = Len(response_vec_map'[i]) + 1
               \/ \E j \in 1..(k - 1) : wire'[j].id = i /\ wire'[j].part + 1 = wire'[k].part
    <3>1. k + 1 \in 1..Len(wire) /\ wire'[k] = wire[k + 1] /\ (k + 1) - 1 = k
          /\ k \in Nat /\ k <= Len(wire)
      BY <1>1
    <3>2. wire[k + 1].part \in Nat
      <4>1. wire[k + 1] \in Response
        BY <3>1, ElementOfSeq DEF IInv, TypeOK
      <4> QED
        BY <4>1, ResponseFields
    <3>3. \/ wire[k + 1].part = Len(response_vec_map[i]) + 1
          \/ \E j \in 1..k : wire[j].id = i /\ wire[j].part + 1 = wire[k + 1].part
      BY <1>4, <2>1, <3>1 DEF NoGap
    <3>4. \A p \in Nat :
            (\E j \in 1..k : wire[j].id = i /\ wire[j].part + 1 = p)
              => \E j \in 1..(k - 1) : wire'[j].id = i /\ wire'[j].part + 1 = p
      BY <1>3, <3>1
    <3>5. CASE wire[k + 1].part = Len(response_vec_map[i]) + 1
      BY <3>1, <3>5
    <3>6. CASE \E j \in 1..k : wire[j].id = i /\ wire[j].part + 1 = wire[k + 1].part
      <4>1. \E j \in 1..(k - 1) : wire'[j].id = i /\ wire'[j].part + 1 = wire[k + 1].part
        BY <3>2, <3>4, <3>6
      <4> QED
        BY <3>1, <4>1
    <3> QED
      BY <3>3, <3>5, <3>6
  <2>2. server'[i] # 0 =>
          \/ server'[i] = Len(response_vec_map'[i]) + 1
          \/ \E j \in 1..Len(wire') : wire'[j].id = i /\ wire'[j].part + 1 = server'[i]
    <3>1. server[i] \in Nat /\ Len(wire') = Len(wire) - 1 /\ Len(wire) <= Len(wire)
      BY <1>1 DEF IInv, TypeOK
    <3> QED
      BY <1>1, <1>3, <1>4, <3>1 DEF NoGap
  <2> QED
    BY <1>4, <2>1, <2>2 DEF NoGap
<1> QED
  BY <1>2, <1>4

(* The next frame of an intact registered id is the next part, and when it *)
(* is final nothing follows it.                                            *)
LEMMA HeadIsNext ==
  ASSUME IInv, NEW i \in Id, wire # <<>>, Head(wire).id = i, NoGap(i)
  PROVE  /\ Head(wire).part = Len(response_vec_map[i]) + 1
         /\ ~Head(wire).more => /\ server[i] = 0
                                /\ \A k \in 1..Len(Tail(wire)) : Tail(wire)[k].id # i
<1>1. /\ wire[1] = Head(wire) /\ 1 \in 1..Len(wire)
      /\ \A k \in 1..Len(Tail(wire)) :
           k + 1 \in 1..Len(wire) /\ Tail(wire)[k] = wire[k + 1] /\ 1 < k + 1
  BY TakeHead DEF IInv, TypeOK
<1>2. wire[1].part = Len(response_vec_map[i]) + 1
  BY <1>1 DEF NoGap
<1>3. ASSUME ~wire[1].more PROVE server[i] = 0
  BY <1>1, <1>3 DEF IInv, WireOrdered
<1>4. ASSUME ~wire[1].more, NEW k \in 1..Len(Tail(wire)) PROVE Tail(wire)[k].id # i
  BY <1>1, <1>4 DEF IInv, WireOrdered
<1> QED
  BY <1>1, <1>2, <1>3, <1>4

(* Collecting that part leaves no gap.                                     *)
LEMMA CollectNext ==
  ASSUME IInv, NEW i \in Id, wire # <<>>, wire' = Tail(wire), Head(wire).id = i,
         NoGap(i), UNCHANGED server,
         response_vec_map'[i] = Append(response_vec_map[i], Head(wire))
  PROVE  NoGap(i)'
<1> DEFINE old == response_vec_map[i]
           new == response_vec_map'[i]
           r == Head(wire)
<1>1. /\ wire[1] = r /\ 1 \in 1..Len(wire) /\ r \in Response
      /\ Len(wire) \in Nat /\ Len(wire') = Len(wire) - 1
      /\ \A k \in 1..Len(wire') : k + 1 \in 1..Len(wire) /\ wire'[k] = wire[k + 1]
  BY ReadShift DEF IInv
<1>2. old \in Seq(Response)
  BY DEF IInv, TypeOK
<1>3. /\ Len(old) \in Nat /\ Len(new) = Len(old) + 1
      /\ \A k \in 1..Len(new) : \/ k \in 1..Len(old) /\ new[k] = old[k]
                                \/ k = Len(old) + 1 /\ new[k] = r
  BY <1>1, <1>2, PutLast
<1>4. r.part = Len(old) + 1
  BY HeadIsNext
<1>5. \A k \in 1..Len(new) : new[k].part = k
  BY <1>3, <1>4 DEF NoGap
<1>6. \A m \in Nat, p \in Nat : m <= Len(wire) =>
        ((\E j \in 1..m : wire[j].id = i /\ wire[j].part + 1 = p)
           => \/ p = Len(new) + 1
              \/ \E j \in 1..(m - 1) : wire'[j].id = i /\ wire'[j].part + 1 = p)
  <2> TAKE m \in Nat, p \in Nat
  <2> HAVE m <= Len(wire)
  <2> SUFFICES ASSUME NEW j \in 1..m, wire[j].id = i, wire[j].part + 1 = p, j # 1
               PROVE  \E h \in 1..(m - 1) : wire'[h].id = i /\ wire'[h].part + 1 = p
    BY <1>1, <1>3, <1>4
  <2>1. j - 1 \in 1..(m - 1) /\ j - 1 \in 1..Len(wire') /\ (j - 1) + 1 = j
    BY <1>1
  <2>2. wire'[j - 1] = wire[j]
    BY <1>1, <2>1
  <2> QED
    BY <2>1, <2>2
<1>7. ASSUME NEW k \in 1..Len(wire'), wire'[k].id = i
      PROVE  \/ wire'[k].part = Len(new) + 1
             \/ \E j \in 1..(k - 1) : wire'[j].id = i /\ wire'[j].part + 1 = wire'[k].part
  <2>1. k + 1 \in 1..Len(wire) /\ wire'[k] = wire[k + 1] /\ (k + 1) - 1 = k
        /\ k \in Nat /\ k <= Len(wire) /\ 1 < k + 1
    BY <1>1
  <2>2. wire[k + 1].part \in Nat
    BY <2>1, ResponseFields, ElementOfSeq DEF IInv, TypeOK
  <2>3. r.part < wire[k + 1].part
    BY <1>1, <1>7, <2>1 DEF IInv, WireOrdered
  <2>4. \E j \in 1..k : wire[j].id = i /\ wire[j].part + 1 = wire[k + 1].part
    <3> HIDE DEF IInv
    <3>1. wire[k + 1].id = i /\ wire[k + 1].part # Len(old) + 1
      BY <1>4, <1>7, <2>1, <2>2, <2>3, <1>3
    <3>2. \/ wire[k + 1].part = Len(old) + 1
          \/ \E j \in 1..((k + 1) - 1) : /\ wire[j].id = i
                                       /\ wire[j].part + 1 = wire[k + 1].part
      BY <2>1, <3>1 DEF NoGap
    <3> QED
      BY <2>1, <3>1, <3>2
  <2>5. \A p \in Nat :
          (\E j \in 1..k : wire[j].id = i /\ wire[j].part + 1 = p)
            => \/ p = Len(new) + 1
               \/ \E j \in 1..(k - 1) : wire'[j].id = i /\ wire'[j].part + 1 = p
    BY <1>6, <2>1
  <2>6. \/ wire[k + 1].part = Len(new) + 1
        \/ \E j \in 1..(k - 1) : wire'[j].id = i /\ wire'[j].part + 1 = wire[k + 1].part
    BY <2>2, <2>4, <2>5
  <2> QED
    BY <2>1, <2>6
<1>8. ASSUME server[i] # 0
      PROVE  \/ server[i] = Len(new) + 1
             \/ \E j \in 1..Len(wire') : wire'[j].id = i /\ wire'[j].part + 1 = server[i]
  <2>1. server[i] \in Nat /\ Len(wire) <= Len(wire)
    BY <1>1 DEF IInv, TypeOK
  <2>2. r.part < server[i]
    BY <1>1, <1>8 DEF IInv, WireOrdered
  <2>3. \E j \in 1..Len(wire) : wire[j].id = i /\ wire[j].part + 1 = server[i]
    BY <1>3, <1>4, <1>8, <2>1, <2>2 DEF NoGap
  <2> QED
    BY <1>1, <1>6, <2>1, <2>3
<1> QED
  BY <1>5, <1>7, <1>8 DEF NoGap

(* What the reader does to the ids whose frames all arrive.                *)
LEMMA ReadKeepsGapInv ==
  ASSUME IInv, GapInv, running, ReadResponse
  PROVE  GapInv'
<1> DEFINE r == Head(wire)
<1>1. /\ wire[1] = r /\ 1 \in 1..Len(wire) /\ r \in Response /\ r.id \in Id
      /\ wire # <<>> /\ wire' = Tail(wire) /\ handle_response(r)
      /\ UNCHANGED <<server, running, damaged>>
  BY ReadShift, ResponseFields DEF IInv, ReadResponse
<1>2. SUFFICES ASSUME NEW i \in Id, i \notin damaged
               PROVE  IF Registered(i)' THEN NoGap(i)' ELSE Spent(i)'
  BY <1>1 DEF GapInv
<1>3. IF Registered(i) THEN NoGap(i) ELSE Spent(i)
  BY <1>2 DEF GapInv
<1>4. CASE i # r.id
  <2>1. response_vec_map'[i] = response_vec_map[i] /\ handle_map'[i] = handle_map[i]
    BY <1>1, <1>4, HandleParts DEF IInv
  <2> QED
    BY <1>1, <1>3, <1>4, <2>1, ReadOther DEF Registered
<1>5. CASE i = r.id
  <2>1. Registered(i) /\ NoGap(i)
    BY <1>1, <1>3, <1>5 DEF Spent
  <2>2. r.part = Len(response_vec_map[i]) + 1 /\ response_vec_map[i] \in Seq(Response)
    BY <1>1, <1>5, <2>1, HeadIsNext DEF IInv, TypeOK
  <2>3. ~r.more => server[i] = 0 /\ \A k \in 1..Len(wire') : wire'[k].id # i
    BY <1>1, <1>5, <2>1, HeadIsNext
  <2>4. CASE HandleSingle(r)
    <3>1. ~r.more /\ r.part = 1
      BY <1>1, <2>4 DEF HandleSingle, IInv, WireOrdered
    <3>2. Len(response_vec_map[i]) = 0
      BY <2>2, <3>1, LenProperties
    <3>3. response_vec_map[i] = <<>>
      BY <2>2, <3>2, EmptySeq
    <3>4. ~Registered(i)' /\ response_vec_map' = response_vec_map
      BY <1>5, <2>4 DEF HandleSingle, Registered, IInv, TypeOK
    <3> QED
      BY <1>1, <2>3, <3>1, <3>3, <3>4 DEF Spent
  <2>5. CASE HandleMore(r)
    <3>1. Registered(i)' /\ response_vec_map'[i] = Append(response_vec_map[i], r)
      BY <1>5, <2>1, <2>5 DEF HandleMore, Registered, IInv, TypeOK
    <3> QED
      BY <1>1, <1>5, <2>1, <3>1, CollectNext
  <2>6. CASE HandleFinal(r)
    <3>1. ~Registered(i)' /\ response_vec_map'[i] = <<>> /\ ~r.more
      BY <1>5, <2>6 DEF HandleFinal, Registered, IInv, TypeOK
    <3> QED
      BY <1>1, <2>3, <3>1 DEF Spent
  <2>7. CASE HandleUnknown(r)
    BY <1>5, <2>1, <2>7 DEF HandleUnknown
  <2> QED
    BY <1>1, <2>4, <2>5, <2>6, <2>7 DEF handle_response
<1> QED
  BY <1>4, <1>5

(* An undecodable frame marks its id and leaves the others alone.          *)
LEMMA UndecodableIsUnknown ==
  ASSUME IInv, ReadUndecodable
  PROVE  UNCHANGED <<handle_map, response_vec_map, outcome, answer>>
<1>1. 0 \in Id /\ ~Registered(0)
  BY RequestHandlerAssumption DEF Id, IInv, FreshIdsUnused
<1> QED
  BY <1>1 DEF ReadUndecodable, handle_response, HandleSingle, HandleMore,
              HandleFinal, HandleUnknown, Undecodable

(* The server continues each answer where it left it.                      *)
LEMMA SendKeepsNoGap ==
  ASSUME IInv, NEW i \in Id, NEW r \in Response, NEW s \in Nat, ServerSends(i, r, s),
         NEW j \in Id
  PROVE  /\ NoGap(j) => NoGap(j)'
         /\ Spent(j) => Spent(j)'
<1>1. /\ r.id = i /\ r.part = server[i] /\ server[i] # 0
      /\ server' = [server EXCEPT ![i] = s]
      /\ s = 0 \/ s = server[i] + 1
      /\ UNCHANGED response_vec_map
      /\ wire' = Append(wire, r)
  BY DEF ServerSends
<1>2. /\ Len(wire) \in Nat /\ Len(wire') = Len(wire) + 1
      /\ wire'[Len(wire) + 1] = r
      /\ \A k \in 1..Len(wire') : \/ k \in 1..Len(wire) /\ wire'[k] = wire[k]
                                  \/ k = Len(wire) + 1 /\ wire'[k] = r
  BY <1>1, SendShift DEF IInv
<1>3. \A k \in 1..Len(wire) : k \in 1..Len(wire') /\ wire'[k] = wire[k]
  BY <1>2
<1>4. server'[i] = s /\ \A h \in Id : h # i => server'[h] = server[h]
  BY <1>1 DEF IInv, TypeOK
<1>5. ASSUME Spent(j) PROVE Spent(j)'
  <2>1. j # i
    BY <1>1, <1>5 DEF Spent
  <2> QED
    BY <1>1, <1>2, <1>4, <1>5, <2>1 DEF Spent
<1>6. ASSUME NoGap(j) PROVE NoGap(j)'
  <2>1. ASSUME NEW k \in 1..Len(wire'), wire'[k].id = j
        PROVE  \/ wire'[k].part = Len(response_vec_map'[j]) + 1
               \/ \E h \in 1..(k - 1) : wire'[h].id = j /\ wire'[h].part + 1 = wire'[k].part
    <3>1. CASE k \in 1..Len(wire) /\ wire'[k] = wire[k]
      <4>1. \A h \in 1..(k - 1) : wire'[h] = wire[h]
        BY <1>2, <1>3, <3>1
      <4> QED
        BY <1>1, <1>6, <2>1, <3>1, <4>1 DEF NoGap
    <3>2. CASE k = Len(wire) + 1 /\ wire'[k] = r
      <4>1. j = i /\ k - 1 = Len(wire)
        BY <1>1, <1>2, <2>1, <3>2
      <4> QED
        BY <1>1, <1>3, <1>6, <3>2, <4>1 DEF NoGap
    <3> QED
      BY <1>2, <3>1, <3>2
  <2>2. ASSUME server'[j] # 0
        PROVE  \/ server'[j] = Len(response_vec_map'[j]) + 1
               \/ \E h \in 1..Len(wire') : wire'[h].id = j /\ wire'[h].part + 1 = server'[j]
    <3>1. CASE j = i
      <4>1. s = server[i] + 1 /\ Len(wire) + 1 \in 1..Len(wire')
        BY <1>1, <1>2, <1>4, <2>2, <3>1
      <4> QED
        BY <1>1, <1>2, <1>4, <3>1, <4>1
    <3>2. CASE j # i
      BY <1>1, <1>3, <1>4, <1>6, <2>2, <3>2 DEF NoGap
    <3> QED
      BY <3>1, <3>2
  <2> QED
    BY <1>1, <1>6, <2>1, <2>2 DEF NoGap
<1> QED
  BY <1>5, <1>6

LEMMA GapStep ==
  IInv /\ GapInv /\ [Next]_vars => GapInv'
<1> SUFFICES ASSUME IInv, GapInv, [Next]_vars PROVE GapInv'
  OBVIOUS
<1>1. ASSUME NEW c \in Call, SendRequest(c) \/ SendFails(c) PROVE GapInv'
  <2> DEFINE n == message_id_counter + 1
  <2>1. /\ n \in Id /\ get_next_message_id = n /\ n > message_id_counter
    BY <1>1, DrawIdType DEF SendRequest, SendFails, get_next_message_id, IInv
  <2>2. /\ running /\ running' /\ UNCHANGED <<wire, response_vec_map>>
        /\ damaged \subseteq damaged'
    BY <1>1 DEF SendRequest, SendFails
  <2>3. ASSUME NEW i \in Id, i # n, i \notin damaged'
        PROVE  IF Registered(i)' THEN NoGap(i)' ELSE Spent(i)'
    <3>1. server'[i] = server[i]
      BY <1>1, <2>1, <2>3 DEF SendRequest, SendFails, Accept, IInv, TypeOK
    <3>2. handle_map'[i] = handle_map[i]
      BY <1>1, <2>1, <2>3 DEF SendRequest, SendFails, register_request, fail_request,
                              IInv, TypeOK
    <3>3. IF Registered(i) THEN NoGap(i) ELSE Spent(i)
      BY <2>2, <2>3 DEF GapInv
    <3> QED
      BY <2>2, <3>1, <3>2, <3>3 DEF Registered, NoGap, Spent
  <2>4. ASSUME NEW i \in Id, i = n, i \notin damaged'
        PROVE  Registered(i)' /\ NoGap(i)'
    <3>1. SendRequest(c)
      BY <1>1, <2>1, <2>4 DEF SendFails
    <3>2. handle_map'[i] = c /\ server'[i] = 1
      BY <2>1, <2>4, <3>1 DEF SendRequest, register_request, Accept, IInv, TypeOK
    <3>3. response_vec_map'[i] = <<>> /\ \A k \in 1..Len(wire') : wire'[k].id # i
      BY <2>1, <2>2, <2>4 DEF IInv, FreshIdsUnused
    <3>4. Len(response_vec_map'[i]) = 0 /\ server'[i] = Len(response_vec_map'[i]) + 1
      BY <3>2, <3>3
    <3>5. NoGap(i)'
      BY <3>3, <3>4 DEF NoGap
    <3> QED
      BY <3>2, <3>5, RequestHandlerAssumption DEF Registered
  <2> QED
    BY <2>1, <2>2, <2>3, <2>4 DEF GapInv
<1>2. CASE ReadResponse
  BY <1>2, ReadKeepsGapInv DEF ReadResponse
<1>3. CASE ReadUndecodable
  <2>1. /\ running /\ running' /\ UNCHANGED <<handle_map, response_vec_map, server>>
        /\ damaged' = damaged \cup {Head(wire).id}
        /\ wire # <<>> /\ wire' = Tail(wire)
    BY <1>3, UndecodableIsUnknown DEF ReadUndecodable
  <2>2. ASSUME NEW i \in Id, i \notin damaged'
        PROVE  IF Registered(i)' THEN NoGap(i)' ELSE Spent(i)'
    <3>1. i # Head(wire).id /\ i \notin damaged
      BY <2>1, <2>2
    <3>2. IF Registered(i) THEN NoGap(i) ELSE Spent(i)
      BY <2>1, <3>1 DEF GapInv
    <3>3. (NoGap(i) => NoGap(i)') /\ (Spent(i) => Spent(i)')
      BY <2>1, <3>1, ReadOther
    <3> QED
      BY <2>1, <3>2, <3>3 DEF Registered
  <2> QED
    BY <2>1, <2>2 DEF GapInv
<1>4. CASE drain_and_drop
  BY <1>4 DEF drain_and_drop, GapInv, Registered
<1>5. ASSUME NEW i \in Id, NEW r \in Response, NEW s \in Nat, ServerSends(i, r, s)
      PROVE  GapInv'
  <2>1. UNCHANGED <<running, handle_map, response_vec_map, damaged>>
    BY <1>5 DEF ServerSends
  <2>2. \A j \in Id : (NoGap(j) => NoGap(j)') /\ (Spent(j) => Spent(j)')
    BY <1>5, SendKeepsNoGap
  <2> QED
    BY <2>1, <2>2 DEF GapInv, Registered
<1>6. ASSUME NEW i \in Id,
             ServerSendsPart(i) \/ ServerSendsFinal(i) \/ ServerRejects(i)
      PROVE  GapInv'
  BY <1>5, <1>6, ServerStep DEF IInv
<1>7. CASE SendHeartbeat \/ UNCHANGED vars
  BY <1>7 DEF SendHeartbeat, vars, GapInv, Registered, NoGap, Spent
<1>8. ASSUME NEW c \in Call, CallerGivesUp(c) PROVE GapInv'
  BY <1>8 DEF CallerGivesUp, GapInv, Registered, NoGap, Spent
<1> QED
  BY <1>1, <1>2, <1>3, <1>4, <1>6, <1>7, <1>8 DEF Next

\* every part of the vector, from the first one
Whole(vec) == vec # <<>> /\ \A k \in 1..Len(vec) : vec[k].part = k

(* Delivering a whole vector under a registered id is enough.              *)
LEMMA DeliverWhole ==
  ASSUME IInv, UndamagedAnswersComplete, NEW i \in Id, Registered(i), NEW vec,
         i \notin damaged => Whole(vec),
         send_to_responder(handle_map[i], vec), UNCHANGED <<id_of, damaged>>
  PROVE  UndamagedAnswersComplete'
<1>1. handle_map[i] \in Call /\ id_of[handle_map[i]] = i
  BY DEF IInv, RegistrationMatches, TypeOK, Registered
<1>2. ASSUME NEW c \in Call, outcome'[c] = "Ok", id_of'[c] \notin damaged'
      PROVE  Whole(answer'[c])
  <2>1. CASE c = handle_map[i] /\ outcome[c] = "waiting"
    <3>1. answer'[c] = vec
      BY <1>1, <2>1 DEF send_to_responder, IInv, TypeOK
    <3> QED
      BY <1>1, <1>2, <2>1, <3>1
  <2>2. CASE ~(c = handle_map[i] /\ outcome[c] = "waiting")
    <3>1. outcome[c] = "Ok" /\ answer'[c] = answer[c]
      BY <1>1, <1>2, <2>2 DEF send_to_responder, IInv, TypeOK
    <3> QED
      BY <1>2, <3>1 DEF UndamagedAnswersComplete, Whole
  <2> QED
    BY <2>1, <2>2
<1> QED
  BY <1>2 DEF UndamagedAnswersComplete, Whole

LEMMA CompleteStep ==
  CompleteInv /\ [Next]_vars => UndamagedAnswersComplete'
<1> SUFFICES ASSUME IInv, GapInv, UndamagedAnswersComplete, [Next]_vars
             PROVE  UndamagedAnswersComplete'
  BY DEF CompleteInv
<1>1. ASSUME UNCHANGED <<answer, id_of>>, damaged \subseteq damaged',
             \A c \in Call : outcome'[c] = "Ok" => outcome[c] = "Ok"
      PROVE  UndamagedAnswersComplete'
  BY <1>1 DEF UndamagedAnswersComplete
<1>2. ASSUME NEW c \in Call, SendRequest(c) \/ SendFails(c)
      PROVE  UndamagedAnswersComplete'
  <2>1. UNCHANGED answer /\ damaged \subseteq damaged'
    BY <1>2 DEF SendRequest, SendFails
  <2>2. \A d \in Call : outcome'[d] = "Ok" => d # c /\ outcome[d] = "Ok"
    BY <1>2 DEF SendRequest, SendFails, IInv, TypeOK
  <2>3. \A d \in Call : d # c => id_of'[d] = id_of[d]
    BY <1>2 DEF SendRequest, SendFails, IInv, TypeOK
  <2> QED
    BY <2>1, <2>2, <2>3 DEF UndamagedAnswersComplete
<1>3. ASSUME NEW c \in Call, CallerGivesUp(c) PROVE UndamagedAnswersComplete'
  BY <1>1, <1>3 DEF CallerGivesUp, IInv, TypeOK
<1>4. CASE ReadResponse
  <2> DEFINE r == Head(wire)
             old == response_vec_map[r.id]
             new == Append(old, r)
  <2>1. /\ handle_response(r) /\ wire # <<>> /\ UNCHANGED <<id_of, damaged>> /\ running
        /\ wire[1] = r /\ 1 \in 1..Len(wire) /\ r \in Response /\ r.id \in Id
    BY <1>4, ReadShift, ResponseFields DEF ReadResponse, IInv
  <2>2. old \in Seq(Response)
    BY <2>1 DEF IInv, TypeOK
  <2>3. (r.id \notin damaged /\ Registered(r.id)) =>
          NoGap(r.id) /\ r.part = Len(old) + 1
    BY <2>1, HeadIsNext DEF GapInv
  <2>4. CASE HandleSingle(r)
    <3>1. r.part = 1
      BY <2>1, <2>4 DEF HandleSingle, IInv, WireOrdered
    <3>2. Whole(<<r>>)
      BY <3>1 DEF Whole
    <3> QED
      BY <2>1, <2>4, <3>2, DeliverWhole DEF HandleSingle
  <2>5. CASE HandleFinal(r)
    <3>1. /\ Len(old) \in Nat /\ Len(new) = Len(old) + 1 /\ new # <<>>
          /\ \A k \in 1..Len(new) : \/ k \in 1..Len(old) /\ new[k] = old[k]
                                    \/ k = Len(old) + 1 /\ new[k] = r
      BY <2>1, <2>2, PutLast
    <3>2. ASSUME r.id \notin damaged PROVE Whole(new)
      <4>1. r.part = Len(old) + 1 /\ \A k \in 1..Len(old) : old[k].part = k
        BY <2>3, <2>5, <3>2 DEF HandleFinal, NoGap
      <4> QED
        BY <3>1, <4>1 DEF Whole
    <3> QED
      BY <2>1, <2>5, <3>2, DeliverWhole DEF HandleFinal
  <2>6. CASE HandleMore(r) \/ HandleUnknown(r)
    BY <1>1, <2>1, <2>6 DEF HandleMore, HandleUnknown
  <2> QED
    BY <2>1, <2>4, <2>5, <2>6 DEF handle_response
<1>5. CASE ReadUndecodable
  BY <1>1, <1>5, UndecodableIsUnknown DEF ReadUndecodable
<1>6. CASE drain_and_drop
  <2>1. \A c \in Call : outcome'[c] = "Ok" => outcome[c] = "Ok"
    BY <1>6 DEF drain_and_drop
  <2> QED
    BY <1>1, <1>6, <2>1 DEF drain_and_drop
<1>7. CASE SendHeartbeat \/ UNCHANGED vars
  BY <1>1, <1>7 DEF SendHeartbeat, vars
<1>8. ASSUME NEW i \in Id,
             ServerSendsPart(i) \/ ServerSendsFinal(i) \/ ServerRejects(i)
      PROVE  UndamagedAnswersComplete'
  BY <1>1, <1>8 DEF ServerSendsPart, ServerSendsFinal, ServerRejects
<1> QED
  BY <1>2, <1>3, <1>4, <1>5, <1>6, <1>7, <1>8 DEF Next

LEMMA CompleteInit == Init => CompleteInv
<1> SUFFICES ASSUME Init PROVE CompleteInv
  OBVIOUS
<1>1. GapInv
  BY DEF Init, GapInv, Registered, Spent
<1>2. UndamagedAnswersComplete
  BY DEF Init, UndamagedAnswersComplete
<1> QED
  BY <1>1, <1>2, InductiveInit DEF CompleteInv

LEMMA CompleteInductive == Spec => []CompleteInv
<1>1. Init => CompleteInv
  BY CompleteInit
<1>2. CompleteInv /\ [Next]_vars => CompleteInv'
  <2> SUFFICES ASSUME CompleteInv, [Next]_vars PROVE CompleteInv'
    OBVIOUS
  <2>1. IInv' /\ GapInv'
    BY InductiveStep, GapStep DEF CompleteInv
  <2> QED
    BY <2>1, CompleteStep DEF CompleteInv
<1> QED
  BY <1>1, <1>2, PTL DEF Spec

(***************************************************************************)
(* An answer none of whose frames was lost holds every part, from the      *)
(* first to the final one (handle_response collects all of them).          *)
(***************************************************************************)
THEOREM AnswersComplete == Spec => []UndamagedAnswersComplete
<1>1. CompleteInv => UndamagedAnswersComplete
  BY DEF CompleteInv
<1> QED
  BY <1>1, CompleteInductive, PTL

(***************************************************************************)
(* Parts nobody waits for are left only where a send failed or a frame was *)
(* lost: response_vec_map does not grow over an undisturbed session.       *)
(***************************************************************************)
THEOREM OrphansOnlyAfterDamage == Spec => []OrphanPartsOnlyAfterDamage
<1>1. CompleteInv => OrphanPartsOnlyAfterDamage
  BY DEF CompleteInv, GapInv, Spent, OrphanPartsOnlyAfterDamage
<1> QED
  BY <1>1, CompleteInductive, PTL

-----------------------------------------------------------------------------
(* The refinement: every step is a step of RequestService or a stutter.    *)

\* delivering is an Answer for the one call, or nothing
LEMMA DeliverRefines ==
  ASSUME TypeOK, NEW r \in Response, running, UNCHANGED running,
         handle_response(r)
  PROVE  [Service!Next]_(Service!svars)
<1> USE DEF Service!svars, Service!Next
<1>1. ASSUME NEW responses, Registered(r.id),
             send_to_responder(handle_map[r.id], responses)
      PROVE  [Service!Next]_(Service!svars)
  <2>1. handle_map[r.id] \in Call
    BY <1>1, ResponseFields DEF TypeOK, Registered
  <2>2. CASE outcome[handle_map[r.id]] = "waiting"
    <3>1. Service!Answer(handle_map[r.id])
      BY <1>1, <2>2 DEF send_to_responder, Service!Answer, Service!Becomes
    <3> QED
      BY <2>1, <3>1
  <2>3. CASE outcome[handle_map[r.id]] # "waiting"
    BY <1>1, <2>3 DEF send_to_responder
  <2> QED
    BY <2>2, <2>3
<1>2. CASE HandleSingle(r)
  BY <1>1, <1>2 DEF HandleSingle
<1>3. CASE HandleFinal(r)
  BY <1>1, <1>3 DEF HandleFinal
<1>4. CASE HandleMore(r) \/ HandleUnknown(r)
  BY <1>4 DEF HandleMore, HandleUnknown
<1> QED
  BY <1>2, <1>3, <1>4 DEF handle_response

\* the drain reaches everybody who waits, because nobody is forgotten
LEMMA DrainRefines ==
  ASSUME TypeOK, NoCallerForgotten, drain_and_drop
  PROVE  Service!Close
<1>1. \A c \in Call : outcome[c] = "waiting" =>
        \E i \in Id : handle_map[i] = c
  BY DEF TypeOK, NoCallerForgotten
<1>2. outcome' = [c \in Call |->
        IF outcome[c] = "waiting" THEN "ConnectionClosed" ELSE outcome[c]]
  BY <1>1 DEF drain_and_drop
<1> QED
  BY <1>2 DEF drain_and_drop, Service!Close

LEMMA StepRefines == IInv /\ [Next]_vars => [Service!Next]_(Service!svars)
<1> SUFFICES ASSUME IInv, [Next]_vars PROVE [Service!Next]_(Service!svars)
  OBVIOUS
<1> USE DEF Service!svars, Service!Next
<1>1. TypeOK /\ NoCallerForgotten
  BY DEF IInv
<1>2. ASSUME NEW c \in Call, SendRequest(c)
      PROVE  Service!Accept(c)
  BY <1>2 DEF SendRequest, Service!Accept, Service!Becomes
<1>3. ASSUME NEW c \in Call, SendFails(c)
      PROVE  Service!Fail(c)
  BY <1>3 DEF SendFails, Service!Fail, Service!Becomes
<1>4. ASSUME NEW c \in Call, CallerGivesUp(c)
      PROVE  Service!GiveUp(c)
  BY <1>4 DEF CallerGivesUp, Service!GiveUp, Service!Becomes
<1>5. CASE ReadResponse
  <2>1. Head(wire) \in Response
    BY <1>1, <1>5, TakeHead DEF ReadResponse, TypeOK
  <2> QED
    BY <1>1, <1>5, <2>1, DeliverRefines DEF ReadResponse
<1>6. CASE ReadUndecodable
  BY <1>1, <1>6, UndecodableIsResponse, DeliverRefines DEF ReadUndecodable
<1>7. CASE drain_and_drop
  BY <1>1, <1>7, DrainRefines
<1>8. CASE SendHeartbeat \/ UNCHANGED vars
  BY <1>8 DEF SendHeartbeat, vars
<1>9. ASSUME NEW i \in Id,
             ServerSendsPart(i) \/ ServerSendsFinal(i) \/ ServerRejects(i)
      PROVE  [Service!Next]_(Service!svars)
  <2>1. UNCHANGED <<outcome, running>>
    BY <1>9 DEF ServerSendsPart, ServerSendsFinal, ServerRejects
  <2> QED
    BY <2>1
<1> QED
  BY <1>2, <1>3, <1>4, <1>5, <1>6, <1>7, <1>8, <1>9 DEF Next

(***************************************************************************)
(* The handler implements RequestService: one outcome for each call, and   *)
(* with the abort everybody who waits learns of it (drain_and_drop).       *)
(***************************************************************************)
THEOREM HandlerImplementsService == Spec => ImplementsService
<1>1. Init => Service!Init
  BY DEF Init, Service!Init
<1>2. IInv /\ [Next]_vars => [Service!Next]_(Service!svars)
  BY StepRefines
<1> QED
  BY <1>1, <1>2, Inductive, PTL DEF Spec, ImplementsService, Service!Spec

=============================================================================
