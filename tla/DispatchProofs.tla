--------------------------- MODULE DispatchProofs ---------------------------
(***************************************************************************)
(* Machine-checked proofs about Dispatch: its invariants for every set of  *)
(* calls and accounts, every repertoire and every length of an answer.     *)
(* The tables enter through EveryMethodFits and EveryUpdateFits alone.     *)
(***************************************************************************)
EXTENDS DispatchRoutes, SequenceTheorems

Verdict == Refusal \cup {"accepted"}

Messages ==
  Answers \cup (UNION {MessagesOf[feed] : feed \in DOMAIN UpdatesOf})
          \cup {"Reject", "Unknown", "ResponseHeartbeat"}

Response ==
  [request_id : Call \cup {NoId}, message : Messages,
   is_update : BOOLEAN, multi_response : BOOLEAN, has_more : BOOLEAN,
   error : {NoError, "decode", "forced_logout", "7", "no_data"}, part : Nat]

\* an element of response_vec_map
Part ==
  [request_id : Call, message : Answers, is_update : {FALSE},
   multi_response : {TRUE}, has_more : {TRUE}, error : {NoError},
   part : 1..MaxParts]

-----------------------------------------------------------------------------
(* The inductive invariant.                                                *)

Types ==
  /\ TypeOK
  /\ asked \in [Call -> [method : Methods[plant] \cup {None},
                         account : Account \cup {NoAccount}, switch : Switch]]
  /\ published \in Seq(Response)
  /\ result \in [Call -> Seq(Response)]
  /\ server \in [Call -> Nat]
  /\ verdict \in [Call -> Verdict \cup {None}]
  /\ accepted \in Seq(Call)
  /\ damaged \subseteq Call
  /\ pushed \in Seq(DOMAIN UpdatesOf)

\* nothing has been done about the call beyond its method
Fresh(c) ==
  /\ c \notin handle_map /\ c \notin damaged
  /\ server[c] = 0 /\ served[c] = 0 /\ verdict[c] = None
  /\ response_vec_map[c] = <<>> /\ result[c] = <<>>

Invoked(c) == outcome[c] \notin {"idle", "InvalidArgument"}

\* a call in the server's hands: its parts so far are its own, in order and
\* complete, and it has more than none only if its answer comes in parts
Collected(c) ==
  LET parts == response_vec_map[c] IN
  /\ Len(parts) = served[c]
  /\ \A k \in 1..Len(parts) : parts[k].part = k
                              /\ parts[k].message = Promised[asked[c].method]
  /\ served[c] # 0 => server[c] + 1 \in InParts

\* AnswersFitMethods, NothingLost and RefusalsAreVisible of one call
Answered(c) ==
  /\ Len(result[c]) = served[c]
  /\ \A k \in 1..Len(result[c]) :
       /\ result[c][k].part = k
       /\ ~result[c][k].is_update
       /\ result[c][k].message =
            IF verdict[c] = "reject" THEN "Reject"
            ELSE Promised[asked[c].method]
       /\ result[c][k].error =
            IF verdict[c] = "accepted" \/ k < Len(result[c]) THEN NoError
            ELSE Last(rp_code_of(verdict[c]))

\* the parts collected for a call came with its id
OwnParts(c) ==
  \A k \in 1..Len(response_vec_map[c]) : response_vec_map[c][k].request_id = c

\* what disconnect is about to publish is its own answer
Closing(c) ==
  /\ ShowsAnswer(c) /\ Len(result[c]) # 0
  /\ result[c][1].request_id = c /\ ~result[c][1].is_update

\* the life of a call
Life(c) ==
  /\ OwnParts(c)
  /\ outcome[c] = "closing" => Closing(c)
  /\ ~Invoked(c) => Fresh(c)
  /\ Invoked(c) => /\ asked[c].method \in Methods[plant]
                   /\ asked[c].switch \in Switches(asked[c].method)
  /\ c \in handle_map => outcome[c] = "waiting"
  /\ server[c] # 0 => /\ c \in handle_map
                      /\ server[c] = Template(plant, asked[c].method)
                      /\ verdict[c] \in Verdict
                      /\ served[c] < MaxParts
                      /\ c \notin damaged => Collected(c)
  /\ c \notin damaged /\ outcome[c] \in {"closing", "Ok", "ServerError"} =>
       Answered(c)

\* each queued call waits once, untouched by the server
QueuedFresh ==
  /\ \A k \in 1..Len(queue) : outcome[queue[k]] = "waiting" /\ Fresh(queue[k])
  /\ \A j, k \in 1..Len(queue) : queue[j] = queue[k] => j = k

AcceptedInvoked == \A k \in 1..Len(accepted) : Invoked(accepted[k])

\* k is the last accepted call about its feed and account
Latest(k) ==
  \A j \in FeedCalls : About(accepted[j]) = About(accepted[k]) => j <= k

\* the latest call about a feed and an account decides whether it is streamed
StreamsOfLatest ==
  /\ \A s \in streams : s.feed \in DOMAIN UpdatesOf
  /\ \A k \in FeedCalls :
       \E l \in FeedCalls : About(accepted[l]) = About(accepted[k]) /\ Latest(l)
  /\ \A s \in streams : \E k \in FeedCalls :
       About(accepted[k]) = s /\ Latest(k) /\ Wanted(accepted[k]) = "subscribe"
  /\ \A k \in FeedCalls : Latest(k) /\ Wanted(accepted[k]) = "subscribe" =>
                            About(accepted[k]) \in streams

IInv ==
  /\ Types
  /\ \A c \in Call : Life(c)
  /\ QueuedFresh
  /\ AcceptedInvoked
  /\ WaitersAreOwed
  /\ StreamsOfLatest
  /\ UpdatesReachSubscribers
  /\ OnlyLogoutsShown

-----------------------------------------------------------------------------
(* What buf_to_message makes of the frames of the server.                  *)

\* the error of a response that ends an answer
ErrorOf(v) == IF v = "accepted" THEN NoError ELSE Last(rp_code_of(v))

\* a refusal shows as an error, an acceptance does not (get_error)
LEMMA ErrorCodes ==
  ASSUME NEW v \in Verdict
  PROVE  /\ get_error(rp_code_of(v)) = ErrorOf(v)
         /\ ErrorOf(v) \in {NoError, "7", "no_data"}
         /\ v # "accepted" => ErrorOf(v) # NoError
<1>1. v \in {"accepted", "code", "text", "reject"}
  BY DEF Verdict, Refusal
<1>2. /\ get_error(<<"0">>) = NoError /\ get_error(<<"7">>) = "7"
      /\ get_error(<<"7", "no_data">>) = "no_data"
  BY DEF get_error
<1>3. Last(<<"7">>) = "7" /\ Last(<<"7", "no_data">>) = "no_data"
  BY DEF Last
<1> QED BY <1>1, <1>2, <1>3 DEF rp_code_of, ErrorOf, NoError

\* a part of an answer
PartOf(c, message, part) ==
  [request_id |-> c, message |-> message, is_update |-> FALSE,
   multi_response |-> TRUE, has_more |-> TRUE, error |-> NoError,
   part |-> part]

\* the fields of a frame
LEMMA FrameFields ==
  ASSUME NEW t, NEW id, NEW codes, NEW handler_codes, NEW readable, NEW part,
         NEW f, f = Frame(t, id, codes, handler_codes, readable, part)
  PROVE  /\ f.template = t /\ f.user_msg = id /\ f.rp_code = codes
         /\ f.rq_handler_rp_code = handler_codes /\ f.readable = readable
         /\ f.part = part
  BY DEF Frame

\* a frame with more to come is a part of an answer
LEMMA PartDecodes ==
  ASSUME NEW t, NEW message, NEW c, NEW part, arm(t) = Parts(message),
         message # "Unknown"
  PROVE  buf_to_message(Frame(t, c, <<>>, <<"0">>, "all", part)) =
           PartOf(c, message, part)
<1> DEFINE f == Frame(t, c, <<>>, <<"0">>, "all", part)
<1>1. /\ f.template = t /\ f.user_msg = c /\ f.rp_code = <<>>
      /\ f.rq_handler_rp_code = <<"0">> /\ f.readable = "all" /\ f.part = part
  BY FrameFields
<1>2. /\ arm(t).message = message /\ arm(t).is_update = FALSE
      /\ arm(t).coded = TRUE /\ arm(t).multi = TRUE /\ arm(t).listed = TRUE
      /\ arm(t) # NoArm
  BY DEF Parts, Arm, NoArm
<1>3. has_multiple(<<"0">>) /\ get_error(<<>>) = NoError
  BY DEF has_multiple, get_error
<1> HIDE DEF f
<1>4. buf_to_message(f) = Decoded(f, arm(t))
  BY <1>1, <1>2 DEF buf_to_message
<1>5. Decoded(f, arm(t)) = PartOf(c, message, part)
  BY <1>1, <1>2, <1>3 DEF Decoded, PartOf
<1> QED BY <1>4, <1>5 DEF f

\* the response that ends an answer
EndOf(c, message, multi, v, part) ==
  [request_id |-> c, message |-> message, is_update |-> FALSE,
   multi_response |-> multi, has_more |-> FALSE, error |-> ErrorOf(v),
   part |-> part]

\* the arm of the template takes a frame for an answer
Ends(t, message, multi) ==
  /\ arm(t) # NoArm /\ arm(t).message = message /\ arm(t).multi = multi
  /\ arm(t).is_update = FALSE /\ arm(t).coded = TRUE

\* a frame without rq_handler_rp_code ends an answer
LEMMA EndDecodes ==
  ASSUME NEW t, NEW message, NEW c, NEW v \in Verdict, NEW part,
         NEW multi, Ends(t, message, multi)
  PROVE  buf_to_message(Frame(t, c, rp_code_of(v), <<>>, "all", part)) =
           EndOf(c, message, multi, v, part)
<1> DEFINE f == Frame(t, c, rp_code_of(v), <<>>, "all", part)
<1>1. /\ f.template = t /\ f.user_msg = c /\ f.rp_code = rp_code_of(v)
      /\ f.rq_handler_rp_code = <<>> /\ f.readable = "all" /\ f.part = part
  BY FrameFields
<1>2. /\ arm(t).message = message /\ arm(t).is_update = FALSE
      /\ arm(t).coded = TRUE /\ arm(t).multi = multi /\ arm(t) # NoArm
  BY DEF Ends
<1>3. ~has_multiple(<<>>)
  BY DEF has_multiple
<1> HIDE DEF f
<1>4. buf_to_message(f) = Decoded(f, arm(t))
  BY <1>1, <1>2 DEF buf_to_message
<1>5. Decoded(f, arm(t)) = EndOf(c, message, multi, v, part)
  BY <1>1, <1>2, <1>3, ErrorCodes DEF Decoded, EndOf
<1> QED BY <1>4, <1>5 DEF f

\* a frame that does not decode keeps at most its destination
LEMMA NotDecoded ==
  ASSUME NEW f, f.readable \in {"template", "nothing"}
  PROVE  \/ buf_to_message(f) = decode_error(FALSE)
         \/ buf_to_message(f) = decode_error(arm(f.template).is_update)
  BY DEF buf_to_message

\* a response for the subscribers
UpdateOf(message, error, part) ==
  [request_id |-> NoId, message |-> message, is_update |-> TRUE,
   multi_response |-> FALSE, has_more |-> FALSE, error |-> error,
   part |-> part]

\* a frame of a feed is an update of that feed
LEMMA UpdateDecodes ==
  ASSUME NEW feed \in DOMAIN UpdatesOf, NEW t \in UpdatesOf[feed], NEW part
  PROVE  \E message \in MessagesOf[feed], error \in {NoError, "forced_logout"} :
           /\ message # "ResponseHeartbeat"
           /\ buf_to_message(Frame(t, NoId, <<>>, <<>>, "all", part)) =
                UpdateOf(message, error, part)
<1>1. PICK message \in MessagesOf[feed] :
        arm(t) = Update(message) /\ message # "ResponseHeartbeat"
  BY EveryUpdateFits, Zenon
<1> DEFINE f == Frame(t, NoId, <<>>, <<>>, "all", part)
           error == IF message = "ForcedLogout" THEN "forced_logout"
                    ELSE NoError
<1>2. /\ f.template = t /\ f.readable = "all" /\ f.part = part
  BY FrameFields
<1>3. /\ arm(t).message = message /\ arm(t).is_update = TRUE
      /\ arm(t).coded = FALSE /\ arm(t).multi = FALSE /\ arm(t).listed = FALSE
  BY <1>1 DEF Update, Arm
<1>4. arm(t) # NoArm
  BY <1>1 DEF Update, Arm, NoArm
<1> HIDE DEF f
<1>5. buf_to_message(f) = Decoded(f, arm(t))
  BY <1>2, <1>4 DEF buf_to_message
<1>6. Decoded(f, arm(t)) = UpdateOf(message, error, part)
  BY <1>2, <1>3 DEF Decoded, UpdateOf
<1> QED BY <1>1, <1>5, <1>6 DEF f

\* the answer to a heartbeat is taken for an update
LEMMA HeartbeatDecodes ==
  ASSUME NEW v \in Verdict
  PROVE  buf_to_message(Frame(19, NoId, rp_code_of(v), <<>>, "all", 0)) =
           UpdateOf("ResponseHeartbeat", ErrorOf(v), 0)
<1> DEFINE f == Frame(19, NoId, rp_code_of(v), <<>>, "all", 0)
<1>1. /\ f.template = 19 /\ f.user_msg = NoId /\ f.rp_code = rp_code_of(v)
      /\ f.readable = "all" /\ f.part = 0
  BY FrameFields
<1>2. /\ arm(19).message = "ResponseHeartbeat" /\ arm(19).is_update = TRUE
      /\ arm(19).coded = TRUE /\ arm(19).multi = FALSE
      /\ arm(19).listed = FALSE /\ arm(19) # NoArm
  BY OtherArms DEF Health, Arm, NoArm
<1> HIDE DEF f
<1>3. buf_to_message(f) = Decoded(f, arm(19))
  BY <1>1, <1>2 DEF buf_to_message
<1>4. Decoded(f, arm(19)) = UpdateOf("ResponseHeartbeat", ErrorOf(v), 0)
  BY <1>1, <1>2, ErrorCodes DEF Decoded, UpdateOf
<1> QED BY <1>3, <1>4 DEF f

-----------------------------------------------------------------------------
(* What the actor makes of them.                                           *)

\* an answer goes to the request handler
LEMMA AnswerHandled ==
  ASSUME NEW f, NEW r, buf_to_message(f) = r, r.is_update = FALSE,
         r.message # "ResponseHeartbeat", handle_rithmic_message(f)
  PROVE  handle_response(r) /\ UNCHANGED <<plant, asked, queue>>
  BY DEF handle_rithmic_message

\* an update goes to the subscribers
LEMMA UpdateHandled ==
  ASSUME NEW f, NEW r, buf_to_message(f) = r, r.is_update = TRUE,
         r.message # "ResponseHeartbeat", handle_rithmic_message(f)
  PROVE  publish(r) /\ UNCHANGED <<plant, asked, queue>>
  BY DEF handle_rithmic_message

\* only an error among the heartbeat responses is published
LEMMA HeartbeatHandled ==
  ASSUME NEW f, NEW r, buf_to_message(f) = r, r.is_update = TRUE,
         r.message = "ResponseHeartbeat", handle_rithmic_message(f)
  PROVE  /\ publish(r) \/ UNCHANGED <<handle_map, response_vec_map, outcome,
                                      result, published>>
         /\ UNCHANGED <<plant, asked, queue>>
  BY DEF handle_rithmic_message, IsErr

\* an answer that does not decode is lost
LEMMA LostAnswer ==
  ASSUME Types, NEW f, buf_to_message(f) = decode_error(FALSE),
         handle_rithmic_message(f)
  PROVE  UNCHANGED <<plant, asked, queue, handle_map, response_vec_map, outcome,
                     result, published>>
<1> DEFINE r == decode_error(FALSE)
<1>1. /\ r.request_id = NoId /\ r.is_update = FALSE
      /\ r.multi_response = FALSE /\ r.message = "Unknown"
  BY DEF decode_error
<1>2. buf_to_message(f) = r
  OBVIOUS
<1> HIDE DEF r
<1>3. handle_response(r) /\ UNCHANGED <<plant, asked, queue>>
  BY <1>1, <1>2, AnswerHandled
<1>4. r.request_id \notin handle_map
  BY <1>1, DispatchAssumption DEF Types, TypeOK
<1>5. UNCHANGED <<handle_map, response_vec_map, outcome, result, published>>
  BY <1>1, <1>3, <1>4 DEF handle_response
<1> QED BY <1>3, <1>5

\* a call the server works on waits, and its answer has an arm that fits
LEMMA ServerAsked ==
  ASSUME Types, NEW c \in Call, Life(c), server[c] # 0
  PROVE  /\ c \in handle_map /\ outcome[c] = "waiting"
         /\ asked[c].method \in DOMAIN Promised
         /\ Promised[asked[c].method] \notin {"ResponseHeartbeat", "Unknown"}
         /\ server[c] \in Nat
         /\ verdict[c] \in Verdict
         /\ served[c] + 1 \in 1..MaxParts
         /\ \/ /\ arm(server[c] + 1) = Parts(Promised[asked[c].method])
               /\ method(plant, asked[c].method).returns = "all"
            \/ /\ \/ arm(server[c] + 1) = Single(Promised[asked[c].method])
                  \/ arm(server[c] + 1) = LastPart(Promised[asked[c].method])
               /\ server[c] + 1 \notin InParts
<1>1. /\ c \in handle_map /\ outcome[c] = "waiting" /\ verdict[c] \in Verdict
      /\ asked[c].method \in Methods[plant]
      /\ server[c] = Template(plant, asked[c].method)
  BY DEF Life, Invoked
<1>2. AnswerFits(plant, asked[c].method)
  BY <1>1, EveryMethodFits DEF Types, TypeOK, Fits
<1>3. served[c] + 1 \in 1..MaxParts
  BY DispatchAssumption DEF Life, Types, TypeOK
<1> QED BY <1>1, <1>2, <1>3 DEF AnswerFits, Types

\* a part that decodes is collected, any other lost
LEMMA PartEffect ==
  ASSUME Types, NEW c \in Call, Life(c), NEW readable \in Readable,
         ServerSendsPart(c, readable)
  PROVE  /\ UNCHANGED <<plant, asked, queue, handle_map, outcome, result,
                        published, server, streams, verdict, accepted, pushed>>
         /\ server[c] # 0 /\ server[c] + 1 \in InParts
         /\ served[c] + 1 \in 1..MaxParts /\ served[c] + 1 < MaxParts
         /\ served' = [served EXCEPT ![c] = served[c] + 1]
         /\ damaged' = IF readable = "all" THEN damaged ELSE damaged \cup {c}
         /\ response_vec_map' =
              IF readable = "all"
              THEN [response_vec_map EXCEPT ![c] = Append(response_vec_map[c],
                      PartOf(c, Promised[asked[c].method], served[c] + 1))]
              ELSE response_vec_map
<1> DEFINE f == Frame(server[c] + 1, c, <<>>, <<"0">>, readable, served[c] + 1)
           message == Promised[asked[c].method]
           r == PartOf(c, message, served[c] + 1)
<1>1. /\ server[c] # 0 /\ server[c] + 1 \in InParts
      /\ served[c] + 1 < MaxParts
      /\ handle_rithmic_message(f)
      /\ served' = [served EXCEPT ![c] = f.part]
      /\ damaged' = IF f.readable = "all" THEN damaged ELSE damaged \cup {c}
      /\ UNCHANGED <<streams, verdict, accepted, pushed, server>>
  BY DEF ServerSendsPart, Serve
<1>2. /\ f.template = server[c] + 1 /\ f.readable = readable
      /\ f.part = served[c] + 1
  BY FrameFields
<1>3. arm(server[c] + 1) = Parts(message) /\ message \in Answers
      /\ message \notin {"ResponseHeartbeat", "Unknown"}
  BY <1>1, ServerAsked DEF Answers
<1>4. served[c] + 1 \in 1..MaxParts
  BY <1>1, ServerAsked
<1>5. CASE readable = "all"
  <2>1. buf_to_message(f) = r
    BY <1>3, <1>5, PartDecodes
  <2>2. /\ r.request_id = c /\ r.message = message /\ r.is_update = FALSE
        /\ r.multi_response = TRUE /\ r.has_more = TRUE
    BY DEF PartOf
  <2> HIDE DEF f, r, message
  <2>3. handle_response(r) /\ UNCHANGED <<plant, asked, queue>>
    BY <1>1, <1>3, <2>1, <2>2, AnswerHandled
  <2>4. /\ response_vec_map' = [response_vec_map EXCEPT ![c] =
                                  Append(response_vec_map[c], r)]
        /\ UNCHANGED <<handle_map, outcome, result, published>>
    BY <2>2, <2>3 DEF handle_response
  <2> QED BY <1>1, <1>2, <1>4, <1>5, <2>3, <2>4 DEF r, message
<1>6. CASE readable # "all"
  <2> HIDE DEF f, r, message
  <2>1. readable \in {"template", "nothing"}
    BY <1>6 DEF Readable
  <2>2. arm(f.template) = Parts(message)
    BY <1>2, <1>3, Zenon
  <2>3. arm(f.template).is_update = FALSE
    BY <2>2 DEF Parts, Arm
  <2>4. buf_to_message(f) = decode_error(FALSE)
    BY <1>2, <2>1, <2>3, NotDecoded DEF decode_error
  <2>5. UNCHANGED <<plant, asked, queue, handle_map, response_vec_map,
                    outcome, result, published>>
    BY <1>1, <2>4, LostAnswer
  <2> QED BY <1>1, <1>2, <1>4, <1>6, <2>5
<1> QED BY <1>5, <1>6

\* the message that ends an answer
AnswerOf(c) ==
  IF verdict[c] = "reject" THEN "Reject" ELSE Promised[asked[c].method]

\* the response it is in, and what the caller's oneshot carries
Ending(c, multi) == EndOf(c, AnswerOf(c), multi, verdict[c], served[c] + 1)

Whole(c, multi) ==
  IF multi THEN Append(response_vec_map[c], Ending(c, multi))
  ELSE <<Ending(c, multi)>>

\* whether earlier parts belong to it and the method returns them
Complete(c, multi) ==
  \/ multi /\ method(plant, asked[c].method).returns = "all"
  \/ verdict[c] = "reject"
  \/ server[c] + 1 \notin InParts

\* the arm of the frame that ends the answer of a call
LEMMA EndArm ==
  ASSUME Types, NEW c \in Call, Life(c), server[c] # 0
  PROVE  \E multi \in BOOLEAN :
           /\ Ends(IF verdict[c] = "reject" THEN 75 ELSE server[c] + 1,
                   AnswerOf(c), multi)
           /\ Complete(c, multi)
<1>1. CASE verdict[c] = "reject"
  <2>1. Ends(75, "Reject", FALSE)
    BY OtherArms DEF Ends, Single, Arm, NoArm
  <2> QED BY <1>1, <2>1 DEF AnswerOf, Complete
<1> DEFINE message == Promised[asked[c].method]
<1>2. message # "Unknown"
  BY ServerAsked
<1>3. CASE /\ verdict[c] # "reject" /\ arm(server[c] + 1) = Parts(message)
           /\ method(plant, asked[c].method).returns = "all"
  <2>1. Ends(server[c] + 1, message, TRUE)
    BY <1>2, <1>3 DEF Ends, Parts, Arm, NoArm
  <2> QED BY <1>3, <2>1 DEF AnswerOf, Complete
<1>4. CASE /\ verdict[c] # "reject" /\ server[c] + 1 \notin InParts
           /\ arm(server[c] + 1) = Single(message)
  <2>1. Ends(server[c] + 1, message, FALSE)
    BY <1>2, <1>4 DEF Ends, Single, Arm, NoArm
  <2> QED BY <1>4, <2>1 DEF AnswerOf, Complete
<1>5. CASE /\ verdict[c] # "reject" /\ server[c] + 1 \notin InParts
           /\ arm(server[c] + 1) = LastPart(message)
  <2>1. Ends(server[c] + 1, message, TRUE)
    BY <1>2, <1>5 DEF Ends, LastPart, Arm, NoArm
  <2> QED BY <1>5, <2>1 DEF AnswerOf, Complete
<1> QED BY <1>1, <1>3, <1>4, <1>5, ServerAsked

\* the answer of a call whose last frame decodes is settled, any other lost
LEMMA EndEffect ==
  ASSUME Types, NEW c \in Call, Life(c), NEW readable \in Readable,
         ServerEndsAnswer(c, readable)
  PROVE  /\ UNCHANGED <<plant, asked, queue, published, streams, verdict,
                        accepted, pushed>>
         /\ server[c] # 0 /\ (verdict[c] = "reject" => served[c] = 0)
         /\ server' = [server EXCEPT ![c] = 0]
         /\ served' = [served EXCEPT ![c] = served[c] + 1]
         /\ damaged' = IF readable = "all" THEN damaged ELSE damaged \cup {c}
         /\ readable # "all" =>
              UNCHANGED <<handle_map, response_vec_map, outcome, result>>
         /\ readable = "all" =>
              \E multi \in BOOLEAN :
                /\ Complete(c, multi)
                /\ handle_map' = handle_map \ {c}
                /\ response_vec_map' = [response_vec_map EXCEPT ![c] =
                     IF multi THEN <<>> ELSE response_vec_map[c]]
                /\ outcome' = [outcome EXCEPT ![c] =
                                 Settled(c, Whole(c, multi)).outcome]
                /\ result' = [result EXCEPT ![c] =
                                Settled(c, Whole(c, multi)).result]
<1> DEFINE t == IF verdict[c] = "reject" THEN 75 ELSE server[c] + 1
           f == Frame(t, c, rp_code_of(verdict[c]), <<>>, readable,
                      served[c] + 1)
<1>1. /\ server[c] # 0 /\ (verdict[c] = "reject" => served[c] = 0)
      /\ handle_rithmic_message(f)
      /\ served' = [served EXCEPT ![c] = f.part]
      /\ damaged' = IF f.readable = "all" THEN damaged ELSE damaged \cup {c}
      /\ server' = [server EXCEPT ![c] = 0]
      /\ UNCHANGED <<streams, verdict, accepted, pushed>>
  BY DEF ServerEndsAnswer, Serve
<1>2. f.template = t /\ f.readable = readable /\ f.part = served[c] + 1
  BY FrameFields
<1>3. PICK multi \in BOOLEAN :
        Ends(t, AnswerOf(c), multi) /\ Complete(c, multi)
  BY <1>1, EndArm
<1>4. verdict[c] \in Verdict /\ c \in handle_map
      /\ AnswerOf(c) \notin {"ResponseHeartbeat", "Unknown"}
  BY <1>1, ServerAsked DEF AnswerOf
<1>5. CASE readable = "all"
  <2> DEFINE r == Ending(c, multi)
  <2> HIDE DEF t
  <2>1. buf_to_message(f) = r
    <3>1. f = Frame(t, c, rp_code_of(verdict[c]), <<>>, "all", served[c] + 1)
      BY <1>5
    <3>2. Ends(t, AnswerOf(c), multi)
      BY <1>3
    <3>4. verdict[c] \in Verdict
      BY <1>4
    <3> HIDE DEF f
    <3>3. buf_to_message(f) =
            EndOf(c, AnswerOf(c), multi, verdict[c], served[c] + 1)
      BY <3>1, <3>2, <3>4, EndDecodes
    <3> QED BY <3>3 DEF Ending
  <2>2. /\ r.request_id = c /\ r.message = AnswerOf(c) /\ r.is_update = FALSE
        /\ r.multi_response = multi /\ r.has_more = FALSE
    BY DEF Ending, EndOf
  <2> HIDE DEF f, r
  <2>3. handle_response(r) /\ UNCHANGED <<plant, asked, queue>>
    BY <1>1, <1>4, <2>1, <2>2, AnswerHandled
  <2>4. Answer(c, IF multi THEN Append(response_vec_map[c], r) ELSE <<r>>)
    BY <1>4, <2>2, <2>3 DEF handle_response
  <2>5. Answer(c, Whole(c, multi))
    BY <2>4 DEF Whole, r
  <2>6. Last(Whole(c, multi)).multi_response = multi
    <3>1. response_vec_map[c] \in Seq(Part)
      BY DEF Types, TypeOK, Part, Answers
    <3>2. Last(Append(response_vec_map[c], r)) = r
      BY <3>1, AppendProperties DEF Last
    <3>3. Last(<<r>>) = r
      BY DEF Last
    <3> QED BY <2>2, <3>2, <3>3 DEF Whole, r
  <2> QED BY <1>1, <1>2, <1>3, <1>5, <2>3, <2>5, <2>6 DEF Answer
<1>6. CASE readable # "all"
  <2> HIDE DEF f, t
  <2>1. readable \in {"template", "nothing"}
    BY <1>6 DEF Readable
  <2>2. arm(f.template).is_update = FALSE
    BY <1>2, <1>3 DEF Ends
  <2>3. buf_to_message(f) = decode_error(FALSE)
    BY <1>2, <2>1, <2>2, NotDecoded DEF decode_error
  <2>4. UNCHANGED <<plant, asked, queue, handle_map, response_vec_map,
                    outcome, result, published>>
    BY <1>1, <2>3, LostAnswer
  <2> QED BY <1>1, <1>2, <1>6, <2>4
<1> QED BY <1>5, <1>6
\* how the updates reach the subscribers: none, one that answers to no frame
\* of a feed, or the next one of a feed
Published ==
  \/ UNCHANGED <<published, pushed>>
  \/ \E r \in Response :
       /\ r.is_update = TRUE /\ published' = Append(published, r)
       /\ \/ r.part = 0 /\ pushed' = pushed
          \/ /\ r.part = Len(pushed) + 1
             /\ \E feed \in DOMAIN UpdatesOf :
                  /\ r.message \in MessagesOf[feed]
                  /\ pushed' = Append(pushed, feed)

\* an update changes nothing else
LEMMA PushEffect ==
  ASSUME Types, NEW feed \in DOMAIN UpdatesOf, NEW t \in UpdatesOf[feed],
         NEW readable \in Readable, ServerPushes(feed, t, readable)
  PROVE  /\ UNCHANGED <<plant, asked, queue, handle_map, response_vec_map,
                        outcome, result, server, streams, served, verdict,
                        accepted, damaged>>
         /\ Published
<1> DEFINE f == Frame(t, NoId, <<>>, <<>>, readable, Len(pushed) + 1)
<1>1. /\ handle_rithmic_message(f)
      /\ pushed' = IF readable = "all" THEN Append(pushed, feed) ELSE pushed
      /\ UNCHANGED <<server, streams, served, verdict, accepted, damaged>>
  BY DEF ServerPushes
<1>2. f.template = t /\ f.readable = readable
  BY FrameFields
<1>3. CASE readable = "all"
  <2> PICK part : part = Len(pushed) + 1
    OBVIOUS
  <2>1. PICK message \in MessagesOf[feed],
             error \in {NoError, "forced_logout"} :
          /\ message # "ResponseHeartbeat"
          /\ buf_to_message(Frame(t, NoId, <<>>, <<>>, "all", part)) =
               UpdateOf(message, error, part)
    BY UpdateDecodes
  <2> DEFINE r == UpdateOf(message, error, part)
  <2>2. buf_to_message(f) = r
    BY <1>3, <2>1
  <2>3. /\ r.is_update = TRUE /\ r.message = message
        /\ r.part = Len(pushed) + 1
    BY DEF UpdateOf
  <2>4. r \in Response
    <3>1. part \in Nat
      BY DEF Types
    <3>2. /\ message \in Messages
          /\ error \in {NoError, "decode", "forced_logout", "7", "no_data"}
      BY DEF Messages
    <3> QED BY <3>1, <3>2 DEF Response, UpdateOf
  <2> HIDE DEF f, r
  <2>5. publish(r) /\ UNCHANGED <<plant, asked, queue>>
    BY <1>1, <2>1, <2>2, <2>3, UpdateHandled
  <2>6. Published
    BY <1>1, <1>3, <2>3, <2>4, <2>5 DEF publish, Published
  <2> QED BY <1>1, <2>5, <2>6 DEF publish
<1>4. CASE readable # "all"
  <2>1. readable \in {"template", "nothing"}
    BY <1>4 DEF Readable
  <2> HIDE DEF f
  <2>2. arm(t).is_update = TRUE
    <3>1. PICK message \in MessagesOf[feed] : arm(t) = Update(message)
      BY EveryUpdateFits, Zenon
    <3> QED BY <3>1 DEF Update, Arm
  <2>3. CASE buf_to_message(f) = decode_error(FALSE)
    BY <1>1, <1>4, <2>3, LostAnswer DEF Published
  <2>4. CASE buf_to_message(f) = decode_error(TRUE)
    <3> DEFINE r == decode_error(TRUE)
    <3>1. /\ r.is_update = TRUE /\ r.message # "ResponseHeartbeat"
          /\ r.part = 0
      BY DEF decode_error
    <3>2. r \in Response
      <4>1. "Unknown" \in Messages
        BY DEF Messages
      <4> QED BY <4>1 DEF decode_error, Response
    <3>3. buf_to_message(f) = r
      BY <2>4
    <3> HIDE DEF r
    <3>4. publish(r) /\ UNCHANGED <<plant, asked, queue>>
      BY <1>1, <3>1, <3>3, UpdateHandled
    <3>5. Published
      BY <1>1, <1>4, <3>1, <3>2, <3>4 DEF publish, Published
    <3> QED BY <1>1, <3>4, <3>5 DEF publish
  <2>5. decode_error(arm(f.template).is_update) = decode_error(TRUE)
    BY <1>2, <2>2 DEF decode_error
  <2>6. \/ buf_to_message(f) = decode_error(FALSE)
        \/ buf_to_message(f) = decode_error(arm(f.template).is_update)
    BY <1>2, <2>1 DEF buf_to_message
  <2>7. \/ buf_to_message(f) = decode_error(FALSE)
        \/ buf_to_message(f) = decode_error(TRUE)
    BY <2>5, <2>6, Zenon
  <2> QED BY <2>3, <2>4, <2>7
<1> QED BY <1>3, <1>4

\* the answer to a heartbeat changes at most what is published
LEMMA HeartbeatEffect ==
  ASSUME Types, NEW v \in Verdict, ServerAnswersHeartbeat(v)
  PROVE  /\ UNCHANGED <<plant, asked, queue, handle_map, response_vec_map,
                        outcome, result, server, streams, served, verdict,
                        accepted, damaged>>
         /\ Published
<1> DEFINE f == Frame(19, NoId, rp_code_of(v), <<>>, "all", 0)
           r == UpdateOf("ResponseHeartbeat", ErrorOf(v), 0)
<1>1. /\ handle_rithmic_message(f)
      /\ UNCHANGED <<server, streams, served, verdict, accepted, damaged,
                     pushed>>
  BY DEF ServerAnswersHeartbeat
<1>2. buf_to_message(f) = r
  BY HeartbeatDecodes
<1>3. /\ r.is_update = TRUE /\ r.message = "ResponseHeartbeat" /\ r.part = 0
  BY DEF UpdateOf
<1>4. r \in Response
  <2>1. ErrorOf(v) \in {NoError, "decode", "forced_logout", "7", "no_data"}
    BY ErrorCodes
  <2>2. "ResponseHeartbeat" \in Messages
    BY DEF Messages
  <2> QED BY <2>1, <2>2 DEF Response, UpdateOf
<1> HIDE DEF f, r
<1>5. /\ publish(r) \/ UNCHANGED <<handle_map, response_vec_map, outcome,
                                   result, published>>
      /\ UNCHANGED <<plant, asked, queue>>
  BY <1>1, <1>2, <1>3, HeartbeatHandled
<1> QED BY <1>1, <1>3, <1>4, <1>5 DEF publish, Published

-----------------------------------------------------------------------------
(* The request of a call and the feeds it leaves streamed.                 *)

\* template, account and switch of the request of a call
LEMMA RequestFields ==
  ASSUME NEW c
  PROVE  /\ Request(c).template = Template(plant, asked[c].method)
         /\ Request(c).account =
              IF builder(BuilderOf(plant, asked[c].method)).names_account
              THEN asked[c].account ELSE NoAccount
         /\ Request(c).switch =
              Switched(plant, asked[c].method, asked[c].switch)
  BY DEF Request, Built, Template, BuilderOf, Switched

\* a call of a feed method leaves its feed as it wants it, any other call
\* leaves the feeds alone
LEMMA RequestStreams ==
  ASSUME Types, NEW c \in Call, asked[c].method \in Methods[plant],
         asked[c].switch \in Switches(asked[c].method)
  PROVE  /\ asked[c].method \notin DOMAIN FeedPromised =>
              Streams(Request(c)) = streams
         /\ asked[c].method \in DOMAIN FeedPromised =>
              /\ About(c).feed \in DOMAIN UpdatesOf
              /\ Wanted(c) \in {"subscribe", "unsubscribe", "none"}
              /\ Wanted(c) = "subscribe" =>
                   Streams(Request(c)) = streams \cup {About(c)}
              /\ Wanted(c) = "unsubscribe" =>
                   Streams(Request(c)) = streams \ {About(c)}
              /\ Wanted(c) = "none" => Streams(Request(c)) = streams
<1> DEFINE m == asked[c].method
           s == asked[c].switch
           a == asked[c].account
           request == Request(c)
           q == FeedPromised[m]
<1>1. FeedFits(plant, m)
  BY EveryMethodFits DEF Types, TypeOK, Fits
<1>2. /\ request.template = Template(plant, m)
      /\ request.account = IF builder(BuilderOf(plant, m)).names_account
                           THEN a ELSE NoAccount
      /\ request.switch = Switched(plant, m, s)
  BY RequestFields
<1>3. s \in Switch /\ method(plant, m).switch \in {s, "asked", "flag"}
  BY DEF Types, TypeOK, Switches
<1>4. /\ About(c) = [feed |-> q.feed,
                      account |-> IF q.own THEN a ELSE NoAccount]
      /\ Wanted(c) = IF q.switch = "asked" THEN s ELSE q.switch
  BY DEF About, Wanted
<1> HIDE DEF m, s, a, request
<1>5. CASE m \notin DOMAIN FeedPromised
  <2>1. FeedOf(request.template) = NoFeed
    BY <1>1, <1>2, <1>5 DEF FeedFits
  <2> QED BY <1>5, <2>1 DEF Streams, m, request
<1>6. CASE m \in DOMAIN FeedPromised
  <2> HIDE DEF q
  <2>1. /\ q.feed # NoFeed /\ q.feed \in DOMAIN UpdatesOf
        /\ FeedOf(request.template) = q.feed
        /\ builder(BuilderOf(plant, m)).names_account <=> q.own
        /\ request.switch = IF q.switch = "asked" THEN s ELSE q.switch
    BY <1>1, <1>2, <1>3, <1>6 DEF FeedFits, q
  <2>2. request.account = IF q.own THEN a ELSE NoAccount
    BY <1>2, <2>1, Zenon
  <2>3. /\ About(c) = [feed |-> FeedOf(request.template),
                       account |-> request.account]
        /\ Wanted(c) = request.switch
    BY <1>4, <2>1, <2>2
  <2>4. About(c).feed = q.feed
    BY <2>1, <2>3
  <2>5. Streams(request) =
          CASE request.switch = "subscribe" -> streams \cup {About(c)}
            [] request.switch = "unsubscribe" -> streams \ {About(c)}
            [] OTHER -> streams
    BY <2>1, <2>3, Zenon DEF Streams
  <2>6. q.switch \in {"subscribe", "unsubscribe", "asked"}
    BY <1>6 DEF FeedPromised, q
  <2>7. Wanted(c) \in {"subscribe", "unsubscribe", "none"}
    BY <1>3, <1>4, <2>6 DEF Switch
  <2> QED BY <1>6, <2>1, <2>3, <2>4, <2>5, <2>7 DEF m, request
<1> QED BY <1>5, <1>6

-----------------------------------------------------------------------------
(* What a step leaves alone.                                               *)

\* the step is about other calls
Untouched(c) ==
  /\ plant' = plant /\ asked'[c] = asked[c] /\ outcome'[c] = outcome[c]
  /\ c \in handle_map' <=> c \in handle_map
  /\ c \in damaged' <=> c \in damaged
  /\ server'[c] = server[c] /\ served'[c] = served[c]
  /\ verdict'[c] = verdict[c] /\ result'[c] = result[c]
  /\ response_vec_map'[c] = response_vec_map[c]

\* a call the step is not about is where it was
LEMMA LifeFrame ==
  ASSUME NEW c, Untouched(c)
  PROVE  /\ Life(c) => Life(c)'
         /\ Fresh(c) => Fresh(c)'
         /\ Invoked(c) => Invoked(c)'
<1>1. Fresh(c) <=> Fresh(c)'
  BY DEF Untouched, Fresh
<1>2. Invoked(c) <=> Invoked(c)'
  BY DEF Untouched, Invoked
<1>3. Collected(c) <=> Collected(c)'
  BY DEF Untouched, Collected
<1>4. Answered(c) <=> Answered(c)'
  BY DEF Untouched, Answered
<1>5. Switches(asked[c].method)' = Switches(asked[c].method)
  BY DEF Untouched, Switches
<1>6. (OwnParts(c) <=> OwnParts(c)') /\ (Closing(c) <=> Closing(c)')
  BY DEF Untouched, OwnParts, Closing, ShowsAnswer
<1> QED BY <1>1, <1>2, <1>3, <1>4, <1>5, <1>6 DEF Untouched, Life

\* queued calls stay as they are in a step about none of them
LEMMA QueuedFrame ==
  ASSUME QueuedFresh, queue \in Seq(Call), queue' = queue,
         \A k \in 1..Len(queue) : Untouched(queue[k])
  PROVE  QueuedFresh'
<1>1. SUFFICES ASSUME NEW k \in 1..Len(queue)
               PROVE  (outcome[queue[k]] = "waiting" /\ Fresh(queue[k]))'
  BY DEF QueuedFresh
<1>2. outcome'[queue[k]] = "waiting"
  BY DEF QueuedFresh, Untouched
<1>3. /\ queue[k] \notin handle_map' /\ queue[k] \notin damaged'
      /\ server'[queue[k]] = 0 /\ served'[queue[k]] = 0
      /\ verdict'[queue[k]] = None
      /\ response_vec_map'[queue[k]] = <<>> /\ result'[queue[k]] = <<>>
  BY DEF QueuedFresh, Untouched, Fresh
<1> QED BY <1>2, <1>3 DEF Fresh

\* no new call about a feed
LEMMA StreamsSame ==
  ASSUME StreamsOfLatest, streams' = streams, FeedCalls' = FeedCalls,
         \A k \in FeedCalls : /\ About(accepted[k])' = About(accepted[k])
                              /\ Wanted(accepted[k])' = Wanted(accepted[k])
  PROVE  StreamsOfLatest'
<1>1. \A k \in FeedCalls : Latest(k)' <=> Latest(k)
  BY DEF Latest
<1>2. (\A s \in streams : s.feed \in DOMAIN UpdatesOf)'
  BY DEF StreamsOfLatest
<1>3. (\A k \in FeedCalls : \E l \in FeedCalls :
         About(accepted[l]) = About(accepted[k]) /\ Latest(l))'
  BY <1>1 DEF StreamsOfLatest
<1>4. (\A s \in streams : \E k \in FeedCalls :
         /\ About(accepted[k]) = s /\ Latest(k)
         /\ Wanted(accepted[k]) = "subscribe")'
  BY <1>1 DEF StreamsOfLatest
<1>5. (\A k \in FeedCalls :
         Latest(k) /\ Wanted(accepted[k]) = "subscribe" =>
           About(accepted[k]) \in streams)'
  BY <1>1 DEF StreamsOfLatest
<1> QED BY <1>2, <1>3, <1>4, <1>5 DEF StreamsOfLatest

\* nothing is accepted and no accepted call is changed
LEMMA StreamsFrame ==
  ASSUME StreamsOfLatest, accepted' = accepted, streams' = streams,
         \A k \in 1..Len(accepted) : asked'[accepted[k]] = asked[accepted[k]]
  PROVE  StreamsOfLatest'
<1>1. \A k \in 1..Len(accepted) : /\ About(accepted[k])' = About(accepted[k])
                                  /\ Wanted(accepted[k])' = Wanted(accepted[k])
  BY DEF About, Wanted
<1>2. FeedCalls' = FeedCalls /\ FeedCalls \subseteq 1..Len(accepted)
  BY <1>1 DEF FeedCalls
<1> QED BY <1>1, <1>2, StreamsSame

\* nobody starts to wait, and whoever waits is owed what he was
LEMMA OwedFrame ==
  ASSUME WaitersAreOwed, queue' = queue,
         \A c \in Call \ damaged' : outcome'[c] = "waiting" =>
           /\ c \notin damaged /\ outcome[c] = "waiting"
           /\ server'[c] = server[c]
  PROVE  WaitersAreOwed'
  BY DEF WaitersAreOwed

\* nothing is published
LEMMA UpdatesFrame ==
  ASSUME UpdatesReachSubscribers, published' = published, pushed' = pushed
  PROVE  UpdatesReachSubscribers'
  BY DEF UpdatesReachSubscribers, Updates, Forwarded

\* nothing is published, and what calls the step is about have not ended a
\* disconnect
LEMMA ShownFrame ==
  ASSUME OnlyLogoutsShown, published' = published, NEW c,
         \A d \in Call \ {c} : Untouched(d),
         c \notin Disconnected, c \notin Disconnected'
  PROVE  OnlyLogoutsShown'
<1>1. Disconnected' = Disconnected
  BY DEF Disconnected, ShowsAnswer, Untouched
<1>2. \A d \in Disconnected : result'[d] = result[d]
  BY DEF Disconnected, Untouched
<1>3. Shown' = Shown
  BY DEF Shown, Forwarded
<1> QED BY <1>1, <1>2, <1>3 DEF OnlyLogoutsShown

-----------------------------------------------------------------------------
(* The steps of the handles.                                               *)

\* a method puts its command into the channel
LEMMA InvokeStep ==
  ASSUME IInv, NEW c \in Idle, NEW m \in Methods[plant],
         NEW a \in HandleAccount, NEW s \in Switch, Invoke(c, m, a, s)
  PROVE  IInv'
<1> DEFINE call == [method |-> m, account |-> a, switch |-> s]
<1>1. /\ c \in Call /\ outcome[c] = "idle" /\ s \in Switches(m)
      /\ asked' = [asked EXCEPT ![c] = call]
      /\ outcome' = [outcome EXCEPT ![c] = "waiting"]
      /\ queue' = Append(queue, c)
      /\ UNCHANGED <<plant, handle_map, response_vec_map, result, published,
                     server, streams, served, verdict, accepted, damaged,
                     pushed>>
  BY DEF Invoke, Idle
<1>2. Types /\ StreamsOfLatest /\ UpdatesReachSubscribers /\ QueuedFresh
      /\ AcceptedInvoked /\ WaitersAreOwed /\ OnlyLogoutsShown
      /\ \A d \in Call : Life(d)
  BY DEF IInv
<1>3. queue \in Seq(Call) /\ accepted \in Seq(Call)
      /\ outcome \in [Call -> Outcome]
      /\ DOMAIN asked = Call
  BY <1>2 DEF Types, TypeOK
<1>4. ~Invoked(c) /\ Fresh(c)
  BY <1>1, <1>2 DEF Invoked, Life
<1>5. /\ asked'[c] = call /\ outcome'[c] = "waiting"
      /\ \A d \in Call \ {c} : asked'[d] = asked[d] /\ outcome'[d] = outcome[d]
  BY <1>1, <1>3
<1>6. \A d \in Call \ {c} : Untouched(d)
  BY <1>1, <1>5 DEF Untouched
<1>7. Types'
  <2>1. call \in [method : Methods[plant] \cup {None},
                  account : Account \cup {NoAccount}, switch : Switch]
    BY DEF HandleAccount
  <2> HIDE DEF call
  <2>2. (asked \in [Call -> [method : Methods[plant] \cup {None},
                             account : Account \cup {NoAccount},
                             switch : Switch]])'
    BY <1>1, <1>2, <2>1 DEF Types
  <2>3. (outcome \in [Call -> Outcome])'
    BY <1>1, <1>3 DEF Outcome
  <2>4. queue' \in Seq(Call)
    BY <1>1, <1>3
  <2> QED BY <1>1, <1>2, <2>2, <2>3, <2>4 DEF Types, TypeOK
<1>8. ASSUME NEW d \in Call PROVE Life(d)'
  <2>1. CASE d = c
    <3>1. Fresh(c)'
      BY <1>1, <1>4 DEF Fresh
    <3>2. asked'[c].method = m /\ asked'[c].switch = s
      BY <1>5
    <3>3. Switches(m)' = Switches(m)
      BY <1>1 DEF Switches
    <3>4. OwnParts(c)'
      BY <3>1 DEF Fresh, OwnParts
    <3> QED BY <1>1, <1>4, <1>5, <2>1, <3>1, <3>2, <3>3, <3>4
        DEF Life, Fresh, Invoked
  <2> QED BY <1>2, <1>6, <2>1, LifeFrame
<1>9. QueuedFresh'
  <2>1. ASSUME NEW k \in 1..Len(queue) PROVE queue[k] \in Call \ {c}
    <3>1. outcome[queue[k]] = "waiting"
      BY <1>2 DEF QueuedFresh
    <3>2. queue[k] \in Call
      BY <1>3
    <3> QED BY <1>1, <3>1, <3>2
  <2>2. ASSUME NEW k \in 1..Len(queue')
        PROVE  (outcome[queue[k]] = "waiting" /\ Fresh(queue[k]))'
    <3>1. CASE k \in 1..Len(queue)
      <4>1. queue'[k] = queue[k] /\ queue[k] \in Call \ {c}
        BY <1>1, <1>3, <2>1, <3>1
      <4>2. outcome'[queue[k]] = "waiting"
        BY <1>2, <1>5, <3>1, <4>1 DEF QueuedFresh
      <4>3. Fresh(queue[k])
        BY <1>2, <3>1 DEF QueuedFresh
      <4> QED BY <1>1, <4>1, <4>2, <4>3 DEF Fresh
    <3>2. CASE k = Len(queue) + 1
      <4>1. queue'[k] = c
        BY <1>1, <1>3, <3>2
      <4> QED BY <1>1, <1>4, <1>5, <4>1 DEF Fresh
    <3> QED BY <1>1, <1>3, <3>1, <3>2
  <2>3. (\A j, k \in 1..Len(queue) : queue[j] = queue[k] => j = k)'
    <3>1. /\ Len(queue') = Len(queue) + 1 /\ Len(queue) \in Nat
          /\ queue'[Len(queue) + 1] = c
          /\ \A k \in 1..Len(queue) : queue'[k] = queue[k]
      BY <1>1, <1>3
    <3>2. \A j, k \in 1..Len(queue) : queue[j] = queue[k] => j = k
      BY <1>2 DEF QueuedFresh
    <3> QED BY <2>1, <3>1, <3>2
  <2> QED BY <2>2, <2>3 DEF QueuedFresh
<1>10. \A k \in 1..Len(accepted) : accepted[k] \in Call \ {c}
  BY <1>2, <1>3, <1>4 DEF AcceptedInvoked
<1>11. AcceptedInvoked'
  BY <1>1, <1>2, <1>5, <1>10 DEF AcceptedInvoked, Invoked
<1>12. StreamsOfLatest'
  BY <1>1, <1>2, <1>5, <1>10, StreamsFrame
<1>13. UpdatesReachSubscribers' /\ OnlyLogoutsShown'
  BY <1>1, <1>2, <1>5, <1>6, UpdatesFrame, ShownFrame DEF Disconnected
<1>14. WaitersAreOwed'
  <2>1. /\ Len(queue') = Len(queue) + 1 /\ Len(queue) \in Nat
        /\ queue'[Len(queue) + 1] = c
        /\ \A k \in 1..Len(queue) : queue'[k] = queue[k]
    BY <1>1, <1>3
  <2>2. c \in ToSet(queue') /\ \A d \in ToSet(queue) : d \in ToSet(queue')
    BY <2>1 DEF ToSet
  <2> QED BY <1>1, <1>2, <1>5, <2>2 DEF WaitersAreOwed
<1> QED BY <1>7, <1>8, <1>9, <1>11, <1>12, <1>13, <1>14 DEF IInv

\* load_tick_bars refuses a bar length of 0
LEMMA InvokeInvalidStep ==
  ASSUME IInv, NEW c \in Idle, InvokeInvalid(c)
  PROVE  IInv'
<1>1. /\ c \in Call /\ outcome[c] = "idle"
      /\ outcome' = [outcome EXCEPT ![c] = "InvalidArgument"]
      /\ UNCHANGED <<plant, asked, queue, handle_map, response_vec_map, result,
                     published, server, streams, served, verdict, accepted,
                     damaged, pushed>>
  BY DEF InvokeInvalid, Idle
<1>2. Types /\ StreamsOfLatest /\ UpdatesReachSubscribers /\ QueuedFresh
      /\ AcceptedInvoked /\ WaitersAreOwed /\ OnlyLogoutsShown
      /\ \A d \in Call : Life(d)
  BY DEF IInv
<1>3. queue \in Seq(Call) /\ accepted \in Seq(Call)
      /\ outcome \in [Call -> Outcome]
  BY <1>2 DEF Types, TypeOK
<1>4. ~Invoked(c) /\ Fresh(c)
  BY <1>1, <1>2 DEF Invoked, Life
<1>5. /\ outcome'[c] = "InvalidArgument"
      /\ \A d \in Call \ {c} : outcome'[d] = outcome[d]
  BY <1>1, <1>3
<1>6. \A d \in Call \ {c} : Untouched(d)
  BY <1>1, <1>5 DEF Untouched
<1>7. Types'
  <2>1. (outcome \in [Call -> Outcome])'
    BY <1>1, <1>3 DEF Outcome
  <2> QED BY <1>1, <1>2, <2>1 DEF Types, TypeOK
<1>8. ASSUME NEW d \in Call PROVE Life(d)'
  <2>1. CASE d = c
    <3>1. Fresh(c)'
      BY <1>1, <1>4 DEF Fresh
    <3>2. OwnParts(c)'
      BY <3>1 DEF Fresh, OwnParts
    <3> QED BY <1>1, <1>4, <1>5, <2>1, <3>1, <3>2 DEF Life, Fresh, Invoked
  <2> QED BY <1>2, <1>6, <2>1, LifeFrame
<1>9. QueuedFresh'
  <2>1. \A k \in 1..Len(queue) : queue[k] \in Call \ {c}
    BY <1>1, <1>2, <1>3 DEF QueuedFresh
  <2> QED BY <1>1, <1>2, <1>3, <1>6, <2>1, QueuedFrame
<1>10. AcceptedInvoked'
  BY <1>1, <1>2, <1>3, <1>4, <1>5 DEF AcceptedInvoked, Invoked
<1>11. StreamsOfLatest'
  BY <1>1, <1>2, StreamsFrame
<1>12. UpdatesReachSubscribers' /\ OnlyLogoutsShown'
  BY <1>1, <1>2, <1>5, <1>6, UpdatesFrame, ShownFrame DEF Disconnected
<1>13. WaitersAreOwed'
  BY <1>1, <1>2, <1>5, OwedFrame
<1> QED BY <1>7, <1>8, <1>9, <1>10, <1>11, <1>12, <1>13 DEF IInv

-----------------------------------------------------------------------------
(* The steps of the actor and the server.                                  *)

\* a call of a feed method becomes the latest about its feed
LEMMA AcceptedStreams ==
  ASSUME Types, StreamsOfLatest, NEW c \in Call,
         asked[c].method \in Methods[plant],
         asked[c].switch \in Switches(asked[c].method),
         accepted' = Append(accepted, c), streams' = Streams(Request(c)),
         asked' = asked
  PROVE  StreamsOfLatest'
<1> PICK n : n = Len(accepted) + 1
  OBVIOUS
<1> DEFINE FeedCall == asked[c].method \in DOMAIN FeedPromised
                       /\ Wanted(c) # "none"
<1>1. /\ accepted \in Seq(Call) /\ Len(accepted) \in Nat
      /\ Len(accepted') = n /\ accepted'[n] = c
      /\ \A k \in 1..Len(accepted) : accepted'[k] = accepted[k]
  BY DEF Types
<1>2. /\ About(c)' = About(c) /\ Wanted(c)' = Wanted(c)
      /\ \A k \in 1..Len(accepted) :
           /\ About(accepted[k])' = About(accepted[k])
           /\ Wanted(accepted[k])' = Wanted(accepted[k])
  BY <1>1 DEF About, Wanted
<1>3. About(accepted[n])' = About(c) /\ Wanted(accepted[n])' = Wanted(c)
  BY <1>1 DEF About, Wanted
<1>4. FeedCalls \subseteq 1..Len(accepted) /\ n \notin FeedCalls
  BY <1>1 DEF FeedCalls
<1>5. /\ FeedCalls' \subseteq FeedCalls \cup {n}
      /\ FeedCalls \subseteq FeedCalls'
      /\ n \in FeedCalls' <=> FeedCall
  <2>1. FeedCalls' = {k \in 1..n : k \in FeedCalls \/ (k = n /\ FeedCall)}
    BY <1>1, <1>2, <1>3 DEF FeedCalls
  <2> HIDE DEF FeedCall
  <2>2. n \in 1..n /\ \A k \in FeedCalls : k \in 1..n
    BY <1>1, <1>4
  <2> QED BY <1>4, <2>1, <2>2
<1>6. CASE ~FeedCall
  <2>1. FeedCalls' = FeedCalls
    <3> HIDE DEF FeedCall
    <3> QED BY <1>5, <1>6
  <2>2. streams' = streams
    BY <1>6, RequestStreams
  <2> QED BY <1>2, <1>4, <2>1, <2>2, StreamsSame
<1>7. CASE FeedCall
  <2> DEFINE s == About(c)
  <2>1. FeedCalls' = FeedCalls \cup {n}
    <3> HIDE DEF FeedCall
    <3> QED BY <1>5, <1>7
  <2>2. /\ s.feed \in DOMAIN UpdatesOf
        /\ \/ Wanted(c) = "subscribe" /\ streams' = streams \cup {s}
           \/ Wanted(c) = "unsubscribe" /\ streams' = streams \ {s}
    BY <1>7, RequestStreams
  <2> HIDE DEF s, FeedCall
  <2>3. \A k \in FeedCalls : k \in Nat /\ k < n
    BY <1>1, <1>4
  <2>4. n \in Nat
    BY <1>1
  <2>5. \A k \in FeedCalls : /\ About(accepted[k])' = About(accepted[k])
                             /\ Wanted(accepted[k])' = Wanted(accepted[k])
    BY <1>2, <1>4
  <2>6. About(accepted[n])' = s /\ Wanted(accepted[n])' = Wanted(c)
    BY <1>3 DEF s
  <2>7. Latest(n)'
    BY <2>1, <2>3, <2>4 DEF Latest
  <2>8. \A k \in FeedCalls :
          Latest(k)' <=> Latest(k) /\ About(accepted[k]) # s
    <3> TAKE k \in FeedCalls
    <3>1. Latest(k)' <=> \A j \in FeedCalls \cup {n} :
                           About(accepted[j])' = About(accepted[k])' => j <= k
      BY <2>1 DEF Latest
    <3>2. Latest(k) <=> \A j \in FeedCalls :
                          About(accepted[j])' = About(accepted[k])' => j <= k
      BY <2>5 DEF Latest
    <3>3. (About(accepted[n])' = About(accepted[k])' => n <= k)
            <=> About(accepted[k]) # s
      <4>1. ~(n <= k)
        BY <2>3, <2>4
      <4>2. /\ About(accepted[k])' = About(accepted[k])
            /\ About(accepted[n])' = s
        BY <2>5, <2>6
      <4> QED BY <4>1, <4>2, Zenon
    <3> QED BY <3>1, <3>2, <3>3
  <2>9. (\A x \in streams : x.feed \in DOMAIN UpdatesOf)'
    BY <2>2 DEF StreamsOfLatest
  <2>10. (\A k \in FeedCalls : \E l \in FeedCalls :
            About(accepted[l]) = About(accepted[k]) /\ Latest(l))'
    <3>1. ASSUME NEW k \in FeedCalls, About(accepted[k]) # s
          PROVE  \E l \in FeedCalls' :
                   /\ About(accepted[l])' = About(accepted[k])'
                   /\ Latest(l)'
      <4>1. PICK l \in FeedCalls :
              About(accepted[l]) = About(accepted[k]) /\ Latest(l)
        BY DEF StreamsOfLatest
      <4> QED BY <2>1, <2>5, <2>8, <3>1, <4>1
    <3> QED BY <2>1, <2>5, <2>6, <2>7, <3>1
  <2>11. (\A x \in streams : \E k \in FeedCalls :
            /\ About(accepted[k]) = x /\ Latest(k)
            /\ Wanted(accepted[k]) = "subscribe")'
    <3>1. ASSUME NEW x \in streams', x # s
          PROVE  \E k \in FeedCalls' :
                   /\ About(accepted[k])' = x /\ Latest(k)'
                   /\ Wanted(accepted[k])' = "subscribe"
      <4>1. PICK k \in FeedCalls : About(accepted[k]) = x /\ Latest(k)
                                  /\ Wanted(accepted[k]) = "subscribe"
        BY <2>2, <3>1 DEF StreamsOfLatest
      <4> QED BY <2>1, <2>5, <2>8, <3>1, <4>1
    <3>2. s \in streams' => Wanted(c) = "subscribe"
      BY <2>2
    <3> QED BY <2>1, <2>6, <2>7, <3>1, <3>2
  <2>12. (\A k \in FeedCalls :
            Latest(k) /\ Wanted(accepted[k]) = "subscribe" =>
              About(accepted[k]) \in streams)'
    <3>1. ASSUME NEW k \in FeedCalls, Latest(k)',
                 Wanted(accepted[k])' = "subscribe"
          PROVE  About(accepted[k])' \in streams'
      BY <2>2, <2>5, <2>8, <3>1 DEF StreamsOfLatest
    <3>2. Wanted(accepted[n])' = "subscribe" => About(accepted[n])' \in streams'
      BY <2>2, <2>6
    <3> QED BY <2>1, <3>1, <3>2
  <2> QED BY <2>9, <2>10, <2>11, <2>12 DEF StreamsOfLatest
<1> QED BY <1>6, <1>7

\* the actor sends the request of the next command
LEMMA CommandStep ==
  ASSUME IInv, NEW v \in Verdict, handle_command(v)
  PROVE  IInv'
<1>1. Types /\ StreamsOfLatest /\ UpdatesReachSubscribers /\ QueuedFresh
      /\ AcceptedInvoked /\ WaitersAreOwed /\ OnlyLogoutsShown
      /\ \A d \in Call : Life(d)
  BY DEF IInv
<1>2. queue \in Seq(Call) /\ accepted \in Seq(Call)
      /\ server \in [Call -> Nat] /\ verdict \in [Call -> Verdict \cup {None}]
      /\ handle_map \subseteq Call
  BY <1>1 DEF Types, TypeOK
<1> PICK c : c = Head(queue)
  OBVIOUS
<1>3. /\ queue # <<>> /\ queue' = Tail(queue)
      /\ handle_map' = handle_map \cup {c}
      /\ server' = [server EXCEPT ![c] = Request(c).template]
      /\ verdict' = [verdict EXCEPT ![c] = v]
      /\ streams' = IF v = "accepted" THEN Streams(Request(c)) ELSE streams
      /\ accepted' = IF v = "accepted" THEN Append(accepted, c) ELSE accepted
      /\ UNCHANGED <<plant, asked, response_vec_map, outcome, result, published,
                     served, damaged, pushed>>
  BY DEF handle_command
<1>4. /\ c \in Call /\ c = queue[1] /\ Len(queue) \in Nat \ {0}
      /\ outcome[c] = "waiting" /\ Fresh(c)
      /\ Len(queue') = Len(queue) - 1 /\ queue' \in Seq(Call)
      /\ \A k \in 1..Len(queue') : /\ k + 1 \in 1..Len(queue)
                                   /\ queue'[k] = queue[k + 1]
                                   /\ queue[k + 1] \in Call
  BY <1>1, <1>2, <1>3 DEF QueuedFresh
<1>5. /\ Invoked(c) /\ asked[c].method \in Methods[plant]
      /\ asked[c].switch \in Switches(asked[c].method)
  BY <1>1, <1>4 DEF Invoked, Life
<1>6. Request(c).template = Template(plant, asked[c].method)
      /\ Request(c).template \in Nat \ {0}
  BY <1>1, <1>5, RequestFields, EveryMethodFits
  DEF Types, TypeOK, Fits, AnswerFits
<1>7. /\ server'[c] = Template(plant, asked[c].method) /\ server'[c] # 0
      /\ verdict'[c] = v
      /\ \A d \in Call \ {c} : /\ server'[d] = server[d]
                               /\ verdict'[d] = verdict[d]
  BY <1>2, <1>3, <1>4, <1>6
<1>8. \A d \in Call \ {c} : Untouched(d)
  BY <1>3, <1>7 DEF Untouched
<1>9. Types'
  <2>1. (server \in [Call -> Nat])'
    BY <1>2, <1>3, <1>6
  <2>2. (verdict \in [Call -> Verdict \cup {None}])'
    BY <1>2, <1>3
  <2>3. handle_map' \subseteq Call
    BY <1>2, <1>3, <1>4
  <2>4. accepted' \in Seq(Call) /\ ToSet(accepted') \subseteq Call
    BY <1>2, <1>3, <1>4 DEF ToSet
  <2>5. \A s \in streams' : s.feed \in DOMAIN UpdatesOf
    <3>1. CASE v = "accepted"
      <4>1. StreamsOfLatest'
        BY <1>1, <1>3, <1>4, <1>5, <3>1, AcceptedStreams
      <4> QED BY <4>1 DEF StreamsOfLatest
    <3> QED BY <1>1, <1>3, <3>1 DEF StreamsOfLatest
  <2> QED BY <1>1, <1>3, <1>4, <2>1, <2>2, <2>3, <2>4, <2>5 DEF Types, TypeOK
<1>10. ASSUME NEW d \in Call PROVE Life(d)'
  <2>1. CASE d = c
    <3>1. /\ server'[c] = Template(plant', asked'[c].method)
          /\ asked'[c].method \in Methods[plant']
          /\ asked'[c].switch \in Switches(asked[c].method)'
      BY <1>3, <1>5, <1>7 DEF Switches
    <3>2. served'[c] = 0 /\ response_vec_map'[c] = <<>>
          /\ outcome'[c] = "waiting" /\ c \in handle_map'
      BY <1>3, <1>4 DEF Fresh
    <3>3. Collected(c)' /\ OwnParts(c)'
      BY <3>2 DEF Collected, OwnParts
    <3>4. served'[c] < MaxParts'
      BY <3>2, DispatchAssumption
    <3> QED BY <1>7, <2>1, <3>1, <3>2, <3>3, <3>4 DEF Life, Invoked
  <2> QED BY <1>1, <1>8, <2>1, LifeFrame
<1>11. QueuedFresh'
  <2>1. ASSUME NEW k \in 1..Len(queue')
        PROVE  /\ (outcome[queue[k]] = "waiting" /\ Fresh(queue[k]))'
               /\ queue'[k] \in Call \ {c}
    <3>1. queue[k + 1] \in Call \ {c} /\ queue'[k] = queue[k + 1]
      <4>1. 1 \in 1..Len(queue) /\ k + 1 \in 1..Len(queue) /\ k + 1 # 1
        BY <1>4, <2>1
      <4>2. queue[k + 1] # queue[1]
        BY <1>1, <4>1 DEF QueuedFresh
      <4> QED BY <1>4, <2>1, <4>2
    <3>2. outcome[queue[k + 1]] = "waiting" /\ Fresh(queue[k + 1])
      BY <1>1, <1>4 DEF QueuedFresh
    <3>3. server'[queue[k + 1]] = server[queue[k + 1]]
          /\ verdict'[queue[k + 1]] = verdict[queue[k + 1]]
          /\ (queue[k + 1] \in handle_map' <=> queue[k + 1] \in handle_map)
      BY <1>3, <1>7, <3>1
    <3> QED BY <1>3, <3>1, <3>2, <3>3 DEF Fresh
  <2>2. (\A j, k \in 1..Len(queue) : queue[j] = queue[k] => j = k)'
    BY <1>1, <1>4 DEF QueuedFresh
  <2> QED BY <2>1, <2>2 DEF QueuedFresh
<1>12. AcceptedInvoked'
  <2>1. \A k \in 1..Len(accepted') :
          \/ accepted'[k] = c
          \/ k \in 1..Len(accepted) /\ accepted'[k] = accepted[k]
    BY <1>2, <1>3
  <2> QED BY <1>1, <1>3, <1>5, <2>1 DEF AcceptedInvoked, Invoked
<1>13. StreamsOfLatest'
  <2>1. CASE v = "accepted"
    BY <1>1, <1>3, <1>4, <1>5, <2>1, AcceptedStreams
  <2>2. CASE v # "accepted"
    BY <1>1, <1>3, <2>2, StreamsFrame
  <2> QED BY <2>1, <2>2
<1>14. UpdatesReachSubscribers' /\ OnlyLogoutsShown'
  BY <1>1, <1>3, <1>4, <1>8, UpdatesFrame, ShownFrame DEF Disconnected
<1>15. WaitersAreOwed'
  <2>1. ASSUME NEW d \in ToSet(queue) PROVE d = c \/ d \in ToSet(queue')
    <3>1. PICK k \in 1..Len(queue) : d = queue[k]
      BY <2>1 DEF ToSet
    <3>2. CASE k = 1
      BY <1>4, <3>1, <3>2
    <3>3. CASE k # 1
      <4>1. k - 1 \in 1..Len(queue') /\ queue'[k - 1] = d
        BY <1>4, <3>1, <3>3
      <4> QED BY <4>1 DEF ToSet
    <3> QED BY <3>2, <3>3
  <2> QED BY <1>1, <1>3, <1>7, <2>1 DEF WaitersAreOwed
<1> QED BY <1>9, <1>10, <1>11, <1>12, <1>13, <1>14, <1>15 DEF IInv

\* one more response is published
LEMMA PublishedTypes ==
  ASSUME Types, NEW r \in Response, published' = Append(published, r),
         r.is_update \/ r.request_id \in Call
  PROVE  /\ published' \in Seq(Response)
         /\ \A k \in 1..Len(published') :
              published'[k].is_update \/ published'[k].request_id \in Call
<1>1. /\ published \in Seq(Response)
      /\ \A k \in 1..Len(published) :
           published[k].is_update \/ published[k].request_id \in Call
  BY DEF Types, TypeOK
<1> PICK n : n = Len(published) + 1
  OBVIOUS
<1>2. /\ published' \in Seq(Response) /\ published'[n] = r
      /\ \A k \in 1..Len(published) : published'[k] = published[k]
      /\ 1..Len(published') = 1..Len(published) \cup {n}
  BY <1>1
<1> QED BY <1>1, <1>2

\* what is published is no update of a feed
LEMMA NoUpdatePublished ==
  ASSUME Types, UpdatesReachSubscribers, NEW r \in Response,
         published' = Append(published, r), pushed' = pushed,
         r.part = 0 \/ ~r.is_update
  PROVE  UpdatesReachSubscribers'
<1>1. published \in Seq(Response)
  BY DEF Types
<1> PICK n : n = Len(published) + 1
  OBVIOUS
<1>2. /\ Len(published) \in Nat /\ Len(published') = n /\ published'[n] = r
      /\ \A k \in 1..Len(published) : published'[k] = published[k]
  BY <1>1
<1>3. Updates \subseteq 1..Len(published) /\ Updates \subseteq 1..n
      /\ 1..Len(published') = 1..Len(published) \cup {n}
  BY <1>2 DEF Updates, Forwarded
<1>4. \A k \in Updates : published'[k] = published[k]
  BY <1>2, <1>3
<1>5. ~(published'[n].is_update /\ published'[n].part > 0)
  BY <1>2
<1>6. ASSUME NEW k \in 1..Len(published) PROVE k \in Updates' <=> k \in Updates
  BY <1>2, <1>3 DEF Updates, Forwarded
<1>7. n \notin Updates' /\ Updates' \subseteq 1..Len(published) \cup {n}
  BY <1>3, <1>5 DEF Updates, Forwarded
<1>8. \A k : k \in Updates' <=> k \in Updates
  BY <1>3, <1>6, <1>7
<1> QED BY <1>4, <1>8 DEF UpdatesReachSubscribers

\* the updates, whatever brings them
LEMMA PublishedUpdates ==
  ASSUME Types, UpdatesReachSubscribers, Published
  PROVE  /\ UpdatesReachSubscribers'
         /\ published' \in Seq(Response)
         /\ \A k \in 1..Len(published') :
              published'[k].is_update \/ published'[k].request_id \in Call
         /\ pushed' \in Seq(DOMAIN UpdatesOf)
<1>1. /\ published \in Seq(Response) /\ pushed \in Seq(DOMAIN UpdatesOf)
      /\ \A k \in 1..Len(published) :
           published[k].is_update \/ published[k].request_id \in Call
  BY DEF Types, TypeOK
<1>2. CASE UNCHANGED <<published, pushed>>
  BY <1>1, <1>2, UpdatesFrame
<1>3. ASSUME NEW r \in Response, r.is_update = TRUE,
             published' = Append(published, r)
      PROVE  /\ published' \in Seq(Response)
             /\ \A k \in 1..Len(published') :
                  published'[k].is_update \/ published'[k].request_id \in Call
  BY <1>3, PublishedTypes
<1>4. ASSUME NEW r \in Response, published' = Append(published, r),
             r.part = 0, pushed' = pushed
      PROVE  UpdatesReachSubscribers'
  BY <1>4, NoUpdatePublished
<1>5. ASSUME NEW r \in Response, NEW feed \in DOMAIN UpdatesOf,
             r.is_update = TRUE, published' = Append(published, r), r.part = Len(pushed) + 1,
             r.message \in MessagesOf[feed], pushed' = Append(pushed, feed)
      PROVE  UpdatesReachSubscribers'
  <2> PICK n, p : n = Len(published) + 1 /\ p = Len(pushed) + 1
    OBVIOUS
  <2>1. /\ Len(pushed) \in Nat /\ Len(pushed') = p /\ p \in Nat
        /\ pushed'[p] = feed
        /\ \A i \in 1..Len(pushed) : pushed'[i] = pushed[i]
    BY <1>1, <1>5
  <2>2. /\ Len(published) \in Nat /\ Len(published') = n /\ published'[n] = r
        /\ \A k \in 1..Len(published) : published'[k] = published[k]
    BY <1>1, <1>5
  <2>3. Updates' = Updates \cup {n} /\ Updates \subseteq 1..Len(published)
    BY <1>5, <2>1, <2>2 DEF Updates, Forwarded
  <2>4. \A k \in Updates : /\ published'[k] = published[k] /\ k < n
                           /\ published[k].part \in 1..Len(pushed)
                           /\ published[k].message \in
                                MessagesOf[pushed[published[k].part]]
    BY <2>2, <2>3 DEF UpdatesReachSubscribers
  <2>5. (\A k \in Updates : /\ published[k].part \in 1..Len(pushed)
                            /\ published[k].message \in
                                 MessagesOf[pushed[published[k].part]])'
    BY <1>5, <2>1, <2>2, <2>3, <2>4
  <2>6. (\A j, k \in Updates : j < k => published[j].part < published[k].part)'
    BY <1>5, <2>1, <2>2, <2>3, <2>4 DEF UpdatesReachSubscribers
  <2>7. (\A i \in 1..Len(pushed) : \E k \in Updates : published[k].part = i)'
    BY <1>5, <2>1, <2>2, <2>3, <2>4 DEF UpdatesReachSubscribers
  <2> QED BY <2>5, <2>6, <2>7 DEF UpdatesReachSubscribers
<1>6. ASSUME NEW feed \in DOMAIN UpdatesOf, pushed' = Append(pushed, feed)
      PROVE  pushed' \in Seq(DOMAIN UpdatesOf)
  BY <1>1, <1>6
<1> QED BY <1>1, <1>2, <1>3, <1>4, <1>5, <1>6 DEF Published

\* the actor shows the subscribers no answer to a request
LEMMA PublishedShown ==
  ASSUME Types, OnlyLogoutsShown, Published,
         UNCHANGED <<plant, asked, outcome, result>>
  PROVE  OnlyLogoutsShown'
<1>1. Disconnected' = Disconnected
  BY DEF Disconnected, ShowsAnswer
<1>2. published \in Seq(Response)
  BY DEF Types
<1>3. CASE UNCHANGED published
  BY <1>1, <1>3 DEF OnlyLogoutsShown, Shown, Forwarded
<1>4. ASSUME NEW r \in Response, r.is_update = TRUE,
             published' = Append(published, r)
      PROVE  OnlyLogoutsShown'
  <2> PICK n : n = Len(published) + 1
    OBVIOUS
  <2>1. /\ 1..Len(published') = 1..Len(published) \cup {n}
        /\ published'[n] = r
        /\ \A k \in 1..Len(published) : published'[k] = published[k]
    BY <1>2, <1>4
  <2>2. Shown' = Shown /\ Shown \subseteq 1..Len(published)
    BY <1>4, <2>1 DEF Shown, Forwarded
  <2>3. \A k \in Shown : published'[k] = published[k]
    BY <2>1, <2>2
  <2>4. (\A k \in Shown :
           /\ published[k].request_id \in Disconnected
           /\ published[k] = Head(result[published[k].request_id]))'
    <3>1. result' = result
      OBVIOUS
    <3> QED BY <1>1, <2>2, <2>3, <3>1 DEF OnlyLogoutsShown
  <2>5. (\A j, k \in Shown :
           published[j].request_id = published[k].request_id => j = k)'
    BY <2>2, <2>3 DEF OnlyLogoutsShown
  <2>6. (\A d \in Disconnected : \E k \in Shown :
           published[k].request_id = d)'
    BY <1>1, <2>2, <2>3 DEF OnlyLogoutsShown
  <2> QED BY <2>4, <2>5, <2>6 DEF OnlyLogoutsShown
<1> QED BY <1>3, <1>4 DEF Published

\* a step that touches the subscribers only
LEMMA PublishedStep ==
  ASSUME IInv, Published,
         UNCHANGED <<plant, asked, queue, handle_map, response_vec_map, outcome,
                     result, server, streams, served, verdict, accepted,
                     damaged>>
  PROVE  IInv'
<1>1. Types /\ StreamsOfLatest /\ UpdatesReachSubscribers /\ QueuedFresh
      /\ AcceptedInvoked /\ WaitersAreOwed /\ OnlyLogoutsShown
      /\ \A d \in Call : Life(d)
  BY DEF IInv
<1>2. \A d : Untouched(d)
  BY DEF Untouched
<1>3. Types'
  BY <1>1, PublishedUpdates DEF Types, TypeOK
<1>4. \A d \in Call : Life(d)'
  BY <1>1, <1>2, LifeFrame
<1>5. QueuedFresh'
  BY <1>1, <1>2, QueuedFrame DEF Types, TypeOK
<1>6. AcceptedInvoked'
  BY <1>1 DEF AcceptedInvoked, Invoked
<1>7. StreamsOfLatest'
  BY <1>1, StreamsFrame
<1>8. UpdatesReachSubscribers' /\ OnlyLogoutsShown'
  BY <1>1, PublishedUpdates, PublishedShown
<1>9. WaitersAreOwed'
  BY <1>1, OwedFrame
<1> QED BY <1>3, <1>4, <1>5, <1>6, <1>7, <1>8, <1>9 DEF IInv

\* a frame with more to come
LEMMA PartStep ==
  ASSUME IInv, NEW c \in Call, NEW readable \in Readable,
         ServerSendsPart(c, readable)
  PROVE  IInv'
<1>1. Types /\ StreamsOfLatest /\ UpdatesReachSubscribers /\ QueuedFresh
      /\ AcceptedInvoked /\ WaitersAreOwed /\ OnlyLogoutsShown
      /\ \A d \in Call : Life(d)
  BY DEF IInv
<1> DEFINE r == PartOf(c, Promised[asked[c].method], served[c] + 1)
<1>2. /\ UNCHANGED <<plant, asked, queue, handle_map, outcome, result,
                     published, server, streams, verdict, accepted, pushed>>
      /\ server[c] # 0 /\ server[c] + 1 \in InParts
      /\ served[c] + 1 \in 1..MaxParts /\ served[c] + 1 < MaxParts
      /\ served' = [served EXCEPT ![c] = served[c] + 1]
      /\ damaged' = IF readable = "all" THEN damaged ELSE damaged \cup {c}
      /\ response_vec_map' =
           IF readable = "all"
           THEN [response_vec_map EXCEPT ![c] = Append(response_vec_map[c], r)]
           ELSE response_vec_map
  BY <1>1, PartEffect
<1>3. /\ queue \in Seq(Call) /\ damaged \subseteq Call
      /\ served \in [Call -> 0..MaxParts]
      /\ response_vec_map \in [Call -> Seq(Part)]
  BY <1>1 DEF Types, TypeOK, Part, Answers
<1>4. r \in Part /\ r.part = served[c] + 1 /\ r.request_id = c
      /\ r.message = Promised[asked[c].method]
  <2>1. Promised[asked[c].method] \in Answers
    BY <1>1, <1>2, ServerAsked DEF Answers
  <2> QED BY <1>2, <2>1 DEF PartOf, Part
<1> HIDE DEF r
<1>5. /\ served'[c] = served[c] + 1
      /\ \A d \in Call \ {c} : /\ served'[d] = served[d]
                               /\ response_vec_map'[d] = response_vec_map[d]
                               /\ (d \in damaged' <=> d \in damaged)
  BY <1>2, <1>3
<1>6. \A d \in Call \ {c} : Untouched(d)
  BY <1>2, <1>5 DEF Untouched
<1>7. Types'
  <2>1. (served \in [Call -> 0..MaxParts])'
    BY <1>2, <1>3, DispatchAssumption
  <2>2. (response_vec_map \in [Call -> Seq(Part)])'
    BY <1>2, <1>3, <1>4
  <2>3. damaged' \subseteq Call
    BY <1>2, <1>3
  <2> QED BY <1>1, <1>2, <2>1, <2>2, <2>3 DEF Types, TypeOK, Part, Answers
<1>8. ASSUME NEW d \in Call PROVE Life(d)'
  <2>1. CASE d = c
    <3>1. /\ c \in handle_map /\ outcome[c] = "waiting"
          /\ server[c] = Template(plant, asked[c].method)
          /\ verdict[c] \in Verdict
      BY <1>1, <1>2 DEF Life
    <3>2. ASSUME c \notin damaged' PROVE Collected(c)'
      <4>1. readable = "all" /\ Collected(c)
        BY <1>1, <1>2, <1>3, <3>2 DEF Life
      <4> DEFINE parts == response_vec_map[c]
                 message == Promised[asked[c].method]
      <4>2. /\ parts \in Seq(Part) /\ Len(parts) = served[c]
            /\ \A k \in 1..Len(parts) :
                 parts[k].part = k /\ parts[k].message = message
        BY <1>3, <4>1 DEF Collected
      <4>3. response_vec_map'[c] = Append(parts, r)
        BY <1>2, <1>3, <4>1
      <4>4. r \in Part /\ r.part = served[c] + 1 /\ r.message = message
        BY <1>4
      <4> HIDE DEF parts, message
      <4>5. /\ Len(Append(parts, r)) = served[c] + 1
            /\ \A k \in 1..Len(Append(parts, r)) :
                 /\ Append(parts, r)[k].part = k
                 /\ Append(parts, r)[k].message = message
        BY <1>4, <4>2, <4>4
      <4> QED BY <1>2, <1>5, <4>3, <4>5 DEF Collected, message
    <3>3. OwnParts(c)'
      <4>1. CASE readable = "all"
        <5>1. response_vec_map[c] \in Seq(Part)
              /\ response_vec_map'[c] = Append(response_vec_map[c], r)
          BY <1>2, <1>3, <4>1
        <5>2. OwnParts(c)
          BY <1>1 DEF Life
        <5> QED BY <1>4, <5>1, <5>2 DEF OwnParts
      <4>2. CASE readable # "all"
        BY <1>1, <1>2, <4>2 DEF Life, OwnParts
      <4> QED BY <4>1, <4>2
    <3> QED BY <1>1, <1>2, <1>5, <2>1, <3>1, <3>2, <3>3
        DEF Life, Invoked, Switches
  <2> QED BY <1>1, <1>6, <2>1, LifeFrame
<1>9. QueuedFresh'
  <2>1. \A k \in 1..Len(queue) : queue[k] \in Call \ {c}
    BY <1>1, <1>2, <1>3 DEF QueuedFresh, Fresh
  <2> QED BY <1>1, <1>2, <1>3, <1>6, <2>1, QueuedFrame
<1>10. AcceptedInvoked'
  BY <1>1, <1>2 DEF AcceptedInvoked, Invoked
<1>11. StreamsOfLatest'
  BY <1>1, <1>2, StreamsFrame
<1>12. UpdatesReachSubscribers' /\ OnlyLogoutsShown'
  <2>1. outcome[c] = "waiting"
    BY <1>1, <1>2, ServerAsked
  <2> QED BY <1>1, <1>2, <1>6, <2>1, UpdatesFrame, ShownFrame DEF Disconnected
<1>13. WaitersAreOwed'
  BY <1>1, <1>2, OwedFrame
<1> QED BY <1>7, <1>8, <1>9, <1>10, <1>11, <1>12, <1>13 DEF IInv

\* what a settled call returns: the responses of every frame of its answer
LEMMA WholeAnswer ==
  ASSUME Types, NEW c \in Call, Life(c), server[c] # 0, NEW multi \in BOOLEAN,
         Complete(c, multi), verdict[c] = "reject" => served[c] = 0,
         NEW answer, answer = Settled(c, Whole(c, multi)).result
  PROVE  /\ answer \in Seq(Response)
         /\ \A k \in 1..Len(answer) : ~answer[k].is_update
         /\ Len(answer) # 0 /\ answer[1].request_id = c
         /\ c \notin damaged =>
              /\ Len(answer) = served[c] + 1
              /\ \A k \in 1..Len(answer) :
                   /\ answer[k].part = k
                   /\ answer[k].message = AnswerOf(c)
                   /\ answer[k].error = IF k < Len(answer) THEN NoError
                                        ELSE ErrorOf(verdict[c])
<1> DEFINE r == Ending(c, multi)
           parts == response_vec_map[c]
           whole == Whole(c, multi)
<1>1. /\ verdict[c] \in Verdict /\ served[c] + 1 \in 1..MaxParts
      /\ asked[c].method \in DOMAIN Promised
      /\ c \in Call
  BY ServerAsked
<1>2. /\ r.part = served[c] + 1 /\ r.message = AnswerOf(c)
      /\ r.error = ErrorOf(verdict[c]) /\ r.is_update = FALSE
      /\ r.request_id = c /\ r \in Response
  <2>1. AnswerOf(c) \in Messages
    BY <1>1 DEF AnswerOf, Messages, Answers
  <2>2. /\ ErrorOf(verdict[c]) \in
             {NoError, "decode", "forced_logout", "7", "no_data"}
        /\ served[c] + 1 \in Nat
    BY <1>1, ErrorCodes
  <2> QED BY <2>1, <2>2 DEF Ending, EndOf, Response
<1>3. /\ parts \in Seq(Part) /\ parts \in Seq(Response)
      /\ served[c] \in Nat
      /\ \A k \in 1..Len(parts) : /\ parts[k].is_update = FALSE
                                  /\ parts[k].error = NoError
  <2>1. Part \subseteq Response
    <3>1. Answers \subseteq Messages
      BY DEF Messages
    <3>2. 1..MaxParts \subseteq Nat
      BY DispatchAssumption
    <3> SUFFICES ASSUME NEW p \in Part PROVE p \in Response
      OBVIOUS
    <3> PICK id, message, part :
          id = p.request_id /\ message = p.message /\ part = p.part
      OBVIOUS
    <3>3. p = PartOf(id, message, part)
      BY DEF Part, PartOf
    <3>4. id \in Call /\ message \in Messages /\ part \in Nat
      BY <3>1, <3>2 DEF Part
    <3> HIDE DEF Messages
    <3>5. PartOf(id, message, part) \in Response
      BY <3>4 DEF PartOf, Response
    <3> QED BY <3>3, <3>5
  <2>2. served[c] \in Nat /\ response_vec_map \in [Call -> Seq(Part)]
    <3>1. served[c] \in 0..MaxParts /\ MaxParts \in Nat
      BY DispatchAssumption DEF Types, TypeOK
    <3>2. response_vec_map \in [Call -> Seq(Part)]
      BY DEF Types, TypeOK, Part, Answers
    <3> QED BY <3>1, <3>2
  <2>4. parts \in Seq(Part)
    BY <2>2
  <2> HIDE DEF parts
  <2>3. \A p \in Part : p.is_update = FALSE /\ p.error = NoError
    BY DEF Part
  <2> QED BY <2>1, <2>2, <2>3, <2>4
<1>4. whole = IF multi THEN Append(parts, r) ELSE <<r>>
  BY DEF Whole
<1>5. \/ answer = whole
      \/ /\ answer = <<Head(whole)>>
         /\ method(plant, asked[c].method).returns # "all"
  BY DEF Settled
<1>6. \A k \in 1..Len(parts) : parts[k].request_id = c
  BY DEF Life, OwnParts
<1> HIDE DEF r, parts, whole
<1>7. /\ whole \in Seq(Response) /\ Len(whole) \in Nat \ {0}
      /\ \A k \in 1..Len(whole) : whole[k].is_update = FALSE
  BY <1>2, <1>3, <1>4
<1>8. /\ answer \in Seq(Response)
      /\ \A k \in 1..Len(answer) : answer[k].is_update = FALSE
  <2>1. CASE answer = whole
    BY <1>7, <2>1
  <2>2. CASE answer = <<Head(whole)>>
    <3> PICK head : head = whole[1]
      OBVIOUS
    <3>1. head \in Response /\ head.is_update = FALSE /\ answer = <<head>>
      BY <1>7, <2>2
    <3> QED BY <3>1
  <2> QED BY <1>5, <2>1, <2>2
<1>9. Len(answer) # 0 /\ answer[1].request_id = c
  <2>1. whole[1].request_id = c
    <3>1. CASE multi /\ Len(parts) # 0
      <4>1. whole[1] = parts[1] /\ 1 \in 1..Len(parts)
        BY <1>2, <1>3, <1>4, <3>1
      <4> QED BY <1>6, <4>1
    <3>2. CASE ~multi \/ Len(parts) = 0
      BY <1>2, <1>3, <1>4, <3>2
    <3> QED BY <3>1, <3>2
  <2>2. Head(whole) = whole[1]
    BY <1>7
  <2>3. CASE answer = whole
    BY <1>7, <2>1, <2>3
  <2>4. CASE answer = <<Head(whole)>>
    <3>1. Len(answer) = 1 /\ answer[1] = whole[1]
      BY <2>2, <2>4
    <3> QED BY <2>1, <3>1
  <2> QED BY <1>5, <2>3, <2>4
<1>10. ASSUME c \notin damaged
      PROVE  /\ Len(answer) = served[c] + 1
             /\ \A k \in 1..Len(answer) :
                  /\ answer[k].part = k
                  /\ answer[k].message = AnswerOf(c)
                  /\ answer[k].error = IF k < Len(answer) THEN NoError
                                       ELSE ErrorOf(verdict[c])
  <2>1. /\ Len(parts) = served[c]
        /\ \A k \in 1..Len(parts) :
             parts[k].part = k /\ parts[k].message = Promised[asked[c].method]
        /\ served[c] # 0 => server[c] + 1 \in InParts
    BY <1>10 DEF Life, Collected, parts
  <2>2. CASE served[c] = 0
    <3>1. whole = <<r>>
      BY <1>3, <1>4, <2>1, <2>2
    <3>2. answer = <<r>>
      BY <1>5, <3>1
    <3> QED BY <1>2, <2>2, <3>2
  <2>3. CASE served[c] # 0
    <3>1. /\ multi /\ method(plant, asked[c].method).returns = "all"
          /\ verdict[c] # "reject"
      BY <2>1, <2>3 DEF Complete
    <3>2. answer = Append(parts, r)
      BY <1>4, <1>5, <3>1
    <3>3. AnswerOf(c) = Promised[asked[c].method]
      BY <3>1 DEF AnswerOf
    <3> QED BY <1>2, <1>3, <2>1, <3>2, <3>3
  <2> QED BY <2>2, <2>3
<1> QED BY <1>8, <1>10, <1>9

\* the frame that ends an answer, or a Reject
LEMMA EndStep ==
  ASSUME IInv, NEW c \in Call, NEW readable \in Readable,
         ServerEndsAnswer(c, readable)
  PROVE  IInv'
<1>1. Types /\ StreamsOfLatest /\ UpdatesReachSubscribers /\ QueuedFresh
      /\ AcceptedInvoked /\ WaitersAreOwed /\ OnlyLogoutsShown
      /\ \A d \in Call : Life(d)
  BY DEF IInv
<1>2. /\ UNCHANGED <<plant, asked, queue, published, streams, verdict,
                     accepted, pushed>>
      /\ server[c] # 0 /\ (verdict[c] = "reject" => served[c] = 0)
      /\ server' = [server EXCEPT ![c] = 0]
      /\ served' = [served EXCEPT ![c] = served[c] + 1]
      /\ damaged' = IF readable = "all" THEN damaged ELSE damaged \cup {c}
      /\ readable # "all" =>
           UNCHANGED <<handle_map, response_vec_map, outcome, result>>
      /\ readable = "all" =>
           \E multi \in BOOLEAN :
             /\ Complete(c, multi)
             /\ handle_map' = handle_map \ {c}
             /\ response_vec_map' = [response_vec_map EXCEPT ![c] =
                  IF multi THEN <<>> ELSE response_vec_map[c]]
             /\ outcome' = [outcome EXCEPT ![c] =
                              Settled(c, Whole(c, multi)).outcome]
             /\ result' = [result EXCEPT ![c] =
                             Settled(c, Whole(c, multi)).result]
  BY <1>1, EndEffect
<1>3. /\ queue \in Seq(Call) /\ damaged \subseteq Call
      /\ served \in [Call -> 0..MaxParts] /\ server \in [Call -> Nat]
      /\ response_vec_map \in [Call -> Seq(Part)]
      /\ outcome \in [Call -> Outcome]
      /\ result \in [Call -> Seq(Response)] /\ handle_map \subseteq Call
  BY <1>1 DEF Types, TypeOK, Part, Answers
<1>4. /\ c \in handle_map /\ outcome[c] = "waiting" /\ verdict[c] \in Verdict
      /\ served[c] + 1 \in 1..MaxParts
      /\ asked[c].method \in Methods[plant]
      /\ asked[c].switch \in Switches(asked[c].method)
  BY <1>1, <1>2, ServerAsked DEF Life, Invoked
<1>5. /\ (served \in [Call -> 0..MaxParts])'
      /\ (server \in [Call -> Nat])'
      /\ damaged' \subseteq Call
      /\ served'[c] = served[c] + 1 /\ server'[c] = 0
      /\ \A d \in Call \ {c} : /\ served'[d] = served[d]
                               /\ server'[d] = server[d]
                               /\ (d \in damaged' <=> d \in damaged)
  BY <1>2, <1>3, <1>4
<1> DEFINE Settles == /\ c \in damaged' \/ outcome'[c] # "waiting"
                      /\ ShowsAnswer(c)' => outcome'[c] # "Ok"
<1>6. ASSUME readable # "all"
      PROVE  /\ Types' /\ Life(c)' /\ Invoked(c)' /\ Settles
             /\ \A d \in Call \ {c} : Untouched(d)
  <2>1. \A d \in Call \ {c} : Untouched(d)
    BY <1>2, <1>5, <1>6 DEF Untouched
  <2>2. Types'
    BY <1>1, <1>2, <1>5, <1>6 DEF Types, TypeOK
  <2>3. c \in damaged' /\ outcome'[c] = "waiting" /\ OwnParts(c)'
    BY <1>1, <1>2, <1>4, <1>6 DEF Life, OwnParts
  <2>4. asked'[c].method \in Methods[plant']
        /\ asked'[c].switch \in Switches(asked[c].method)'
    BY <1>2, <1>4 DEF Switches
  <2> QED BY <1>5, <2>1, <2>2, <2>3, <2>4 DEF Life, Invoked
<1>7. ASSUME readable = "all"
      PROVE  /\ Types' /\ Life(c)' /\ Invoked(c)' /\ Settles
             /\ \A d \in Call \ {c} : Untouched(d)
  <2>1. PICK multi \in BOOLEAN :
          /\ Complete(c, multi)
          /\ handle_map' = handle_map \ {c}
          /\ response_vec_map' = [response_vec_map EXCEPT ![c] =
               IF multi THEN <<>> ELSE response_vec_map[c]]
          /\ outcome' = [outcome EXCEPT ![c] =
                           Settled(c, Whole(c, multi)).outcome]
          /\ result' = [result EXCEPT ![c] =
                          Settled(c, Whole(c, multi)).result]
    BY <1>2, <1>7
  <2> PICK answer : answer = Settled(c, Whole(c, multi)).result
    OBVIOUS
  <2> PICK ending : ending = Settled(c, Whole(c, multi)).outcome
    OBVIOUS
  <2>2. /\ answer \in Seq(Response)
        /\ \A k \in 1..Len(answer) : ~answer[k].is_update
        /\ Len(answer) # 0 /\ answer[1].request_id = c
        /\ c \notin damaged =>
             /\ Len(answer) = served[c] + 1
             /\ \A k \in 1..Len(answer) :
                  /\ answer[k].part = k
                  /\ answer[k].message = AnswerOf(c)
                  /\ answer[k].error = IF k < Len(answer) THEN NoError
                                       ELSE ErrorOf(verdict[c])
    BY <1>1, <1>2, <2>1, WholeAnswer
  <2>3. /\ ending \in {"closing", "Ok", "ServerError"}
        /\ ending = "closing" <=> ShowsAnswer(c)
    BY DEF Settled
  <2>4. /\ outcome'[c] = ending /\ result'[c] = answer /\ c \notin handle_map'
        /\ damaged' = damaged
        /\ \A d \in Call \ {c} :
             /\ outcome'[d] = outcome[d] /\ result'[d] = result[d]
             /\ response_vec_map'[d] = response_vec_map[d]
             /\ (d \in handle_map' <=> d \in handle_map)
    BY <1>2, <1>3, <1>7, <2>1
  <2>5. \A d \in Call \ {c} : Untouched(d)
    BY <1>2, <1>5, <2>4 DEF Untouched
  <2>6. Types'
    <3>1. (outcome \in [Call -> Outcome])'
      BY <1>3, <2>1, <2>3 DEF Outcome
    <3>2. (result \in [Call -> Seq(Response)])'
      BY <1>3, <2>1, <2>2
    <3>3. (response_vec_map \in [Call -> Seq(Part)])'
      BY <1>3, <2>1
    <3>4. handle_map' \subseteq Call
      BY <1>3, <2>1
    <3>5. (\A d \in Call, k \in 1..MaxParts :
             k <= Len(result[d]) => ~result[d][k].is_update)'
      <4>1. ASSUME NEW d \in Call, NEW k \in 1..MaxParts,
                   k <= Len(result'[d])
            PROVE  ~result'[d][k].is_update
        <5>1. CASE d = c
          BY <2>2, <2>4, <4>1, <5>1, DispatchAssumption
        <5>2. CASE d # c
          BY <1>1, <2>4, <4>1, <5>2 DEF Types, TypeOK
        <5> QED BY <5>1, <5>2
      <4> QED BY <4>1
    <3> QED BY <1>1, <1>2, <1>5, <3>1, <3>2, <3>3, <3>4, <3>5
        DEF Types, TypeOK, Part, Answers
  <2>7. ASSUME c \notin damaged' PROVE Answered(c)'
    <3>1. /\ verdict'[c] = verdict[c] /\ asked' = asked
          /\ served'[c] = Len(answer)
      BY <1>2, <1>5, <2>2, <2>4, <2>7
    <3>2. \A k \in 1..Len(answer) :
            /\ answer[k].part = k /\ ~answer[k].is_update
            /\ answer[k].message = IF verdict[c] = "reject" THEN "Reject"
                                   ELSE Promised[asked[c].method]
            /\ answer[k].error =
                 IF verdict[c] = "accepted" \/ k < Len(answer) THEN NoError
                 ELSE Last(rp_code_of(verdict[c]))
      BY <2>2, <2>4, <2>7 DEF AnswerOf, ErrorOf
    <3> QED BY <2>4, <3>1, <3>2 DEF Answered
  <2>8. asked'[c].method \in Methods[plant']
        /\ asked'[c].switch \in Switches(asked[c].method)'
    BY <1>2, <1>4 DEF Switches
  <2>9. OwnParts(c)'
    <3>1. response_vec_map'[c] \in {<<>>, response_vec_map[c]}
      BY <1>3, <2>1
    <3> QED BY <1>1, <3>1 DEF Life, OwnParts
  <2>10. ShowsAnswer(c)' <=> ShowsAnswer(c)
    BY <1>2 DEF ShowsAnswer
  <2>11. outcome'[c] = "closing" => Closing(c)'
    BY <2>2, <2>3, <2>4, <2>10 DEF Closing
  <2>12. Settles
    BY <2>3, <2>4, <2>10
  <2> QED BY <1>5, <2>3, <2>4, <2>5, <2>6, <2>7, <2>8, <2>9, <2>11, <2>12
      DEF Life, Invoked
<1>8. /\ Types' /\ Life(c)' /\ Invoked(c)' /\ Settles
      /\ \A d \in Call \ {c} : Untouched(d)
  BY <1>6, <1>7
<1>9. \A d \in Call : Life(d)' /\ (Invoked(d) => Invoked(d)')
  BY <1>1, <1>8, LifeFrame
<1>10. QueuedFresh'
  <2>1. ASSUME NEW k \in 1..Len(queue) PROVE queue[k] \in Call \ {c}
    <3>1. server[c] # 0
      BY <1>2
    <3>2. queue[k] \in Call
      BY <1>3
    <3>3. Fresh(queue[k])
      BY <1>1 DEF QueuedFresh
    <3> QED BY <3>1, <3>2, <3>3 DEF Fresh
  <2> QED BY <1>1, <1>2, <1>3, <1>8, <2>1, QueuedFrame
<1>11. AcceptedInvoked'
  <2>1. \A k \in 1..Len(accepted) : accepted[k] \in Call
    BY <1>1 DEF Types
  <2>2. accepted' = accepted
    BY <1>2
  <2>3. \A k \in 1..Len(accepted) :
          outcome'[accepted[k]] \notin {"idle", "InvalidArgument"}
    BY <1>1, <1>9, <2>1 DEF AcceptedInvoked, Invoked
  <2> QED BY <2>2, <2>3 DEF AcceptedInvoked, Invoked
<1>12. StreamsOfLatest'
  BY <1>1, <1>2, StreamsFrame
<1>13. UpdatesReachSubscribers' /\ OnlyLogoutsShown'
  BY <1>1, <1>2, <1>4, <1>8, UpdatesFrame, ShownFrame DEF Disconnected
<1>14. WaitersAreOwed'
  BY <1>1, <1>2, <1>8, OwedFrame DEF Untouched
<1> QED BY <1>8, <1>9, <1>10, <1>11, <1>12, <1>13, <1>14 DEF IInv

\* disconnect shows its answer to the subscribers
LEMMA DisconnectStep ==
  ASSUME IInv, NEW c \in Call, DisconnectPublishes(c)
  PROVE  IInv'
<1>1. Types /\ StreamsOfLatest /\ UpdatesReachSubscribers /\ QueuedFresh
      /\ AcceptedInvoked /\ WaitersAreOwed /\ OnlyLogoutsShown
      /\ \A d \in Call : Life(d)
  BY DEF IInv
<1> PICK r : r = result[c][1]
  OBVIOUS
<1>2. /\ outcome[c] = "closing" /\ published' = Append(published, r)
      /\ outcome' = [outcome EXCEPT ![c] = "Ok"]
      /\ UNCHANGED <<plant, asked, queue, handle_map, response_vec_map, result,
                     server, streams, served, verdict, accepted, damaged, pushed>>
  BY DEF DisconnectPublishes
<1>3. /\ queue \in Seq(Call) /\ accepted \in Seq(Call)
      /\ outcome \in [Call -> Outcome] /\ published \in Seq(Response)
      /\ result \in [Call -> Seq(Response)]
  BY <1>1 DEF Types, TypeOK
<1>4. ShowsAnswer(c) /\ r \in Response /\ r.request_id = c /\ ~r.is_update
  <2>1. Closing(c)
    BY <1>1, <1>2 DEF Life
  <2> QED BY <1>3, <2>1 DEF Closing
<1>5. /\ outcome'[c] = "Ok"
      /\ \A d \in Call \ {c} : outcome'[d] = outcome[d]
  BY <1>2, <1>3
<1>6. \A d \in Call \ {c} : Untouched(d)
  BY <1>2, <1>5 DEF Untouched
<1>7. Types'
  <2>1. (outcome \in [Call -> Outcome])'
    BY <1>2, <1>3 DEF Outcome
  <2>2. /\ published' \in Seq(Response)
        /\ \A k \in 1..Len(published') :
             published'[k].is_update \/ published'[k].request_id \in Call
    BY <1>1, <1>2, <1>4, PublishedTypes
  <2> QED BY <1>1, <1>2, <2>1, <2>2 DEF Types, TypeOK
<1>8. ASSUME NEW d \in Call PROVE Life(d)'
  <2>1. CASE d = c
    <3>1. c \notin damaged => Answered(c)'
      <4>1. c \notin damaged => Answered(c)
        BY <1>1, <1>2 DEF Life
      <4> QED BY <1>2, <4>1 DEF Answered
    <3>2. OwnParts(c)' /\ c \notin handle_map /\ server[c] = 0
      BY <1>1, <1>2 DEF Life, OwnParts
    <3>3. asked'[c].method \in Methods[plant']
          /\ asked'[c].switch \in Switches(asked[c].method)'
      BY <1>1, <1>2 DEF Life, Invoked, Switches
    <3> QED BY <1>2, <1>5, <2>1, <3>1, <3>2, <3>3 DEF Life, Invoked
  <2> QED BY <1>1, <1>6, <2>1, LifeFrame
<1>9. QueuedFresh'
  <2>1. \A k \in 1..Len(queue) : queue[k] \in Call \ {c}
    BY <1>1, <1>2, <1>3 DEF QueuedFresh
  <2> QED BY <1>1, <1>2, <1>3, <1>6, <2>1, QueuedFrame
<1>10. AcceptedInvoked'
  BY <1>1, <1>2, <1>3, <1>5 DEF AcceptedInvoked, Invoked
<1>11. StreamsOfLatest'
  BY <1>1, <1>2, StreamsFrame
<1>12. UpdatesReachSubscribers'
  BY <1>1, <1>2, <1>4, NoUpdatePublished
<1>13. OnlyLogoutsShown'
  <2> PICK n : n = Len(published) + 1
    OBVIOUS
  <2>1. /\ 1..Len(published') = 1..Len(published) \cup {n}
        /\ published'[n] = r /\ n \notin 1..Len(published)
        /\ \A k \in 1..Len(published) : published'[k] = published[k]
    BY <1>2, <1>3, <1>4
  <2>2. Shown' = Shown \cup {n} /\ Shown \subseteq 1..Len(published)
    BY <1>4, <2>1 DEF Shown, Forwarded
  <2>3. \A k \in Shown : published'[k] = published[k]
    BY <2>1, <2>2
  <2>4. Disconnected' = Disconnected \cup {c} /\ c \notin Disconnected
    BY <1>2, <1>4, <1>5 DEF Disconnected, ShowsAnswer
  <2>5. r = Head(result'[c])
    BY <1>2
  <2>6. (\A k \in Shown :
           /\ published[k].request_id \in Disconnected
           /\ published[k] = Head(result[published[k].request_id]))'
    BY <1>1, <1>2, <1>4, <2>1, <2>2, <2>3, <2>4, <2>5 DEF OnlyLogoutsShown
  <2>7. \A k \in Shown : published[k].request_id # c
    BY <1>1, <2>4 DEF OnlyLogoutsShown
  <2>8. (\A j, k \in Shown :
           published[j].request_id = published[k].request_id => j = k)'
    BY <1>1, <1>4, <2>1, <2>2, <2>3, <2>7 DEF OnlyLogoutsShown
  <2>9. (\A d \in Disconnected : \E k \in Shown :
           published[k].request_id = d)'
    BY <1>1, <1>4, <2>1, <2>2, <2>3, <2>4 DEF OnlyLogoutsShown
  <2> QED BY <2>6, <2>8, <2>9 DEF OnlyLogoutsShown
<1>14. WaitersAreOwed'
  BY <1>1, <1>2, <1>5, OwedFrame
<1> QED BY <1>7, <1>8, <1>9, <1>10, <1>11, <1>12, <1>13, <1>14 DEF IInv

-----------------------------------------------------------------------------
(* The theorems.                                                           *)

\* the inductive invariant holds at first ...
LEMMA InitIInv == Init => IInv
<1> SUFFICES ASSUME Init PROVE IInv
  OBVIOUS
<1>1. MaxParts \in Nat \ {0}
  BY DispatchAssumption
<1>2. Types
  <2>1. asked \in [Call -> [method : Methods[plant] \cup {None},
                            account : Account \cup {NoAccount},
                            switch : Switch]]
    BY DEF Init, None, Switch
  <2>2. /\ accepted = <<>> /\ ToSet(accepted) \subseteq Call
        /\ accepted \in Seq(Call) /\ queue \in Seq(Call)
        /\ pushed \in Seq(DOMAIN UpdatesOf)
        /\ published = <<>> /\ published \in Seq(Response)
    BY DEF Init, ToSet
  <2>3. /\ response_vec_map \in [Call -> Seq(Part)]
        /\ result \in [Call -> Seq(Response)]
        /\ \A c \in Call : result[c] = <<>>
    BY DEF Init
  <2>4. /\ outcome \in [Call -> Outcome] /\ "idle" \in Outcome
        /\ served \in [Call -> 0..MaxParts] /\ server \in [Call -> Nat]
        /\ verdict \in [Call -> Verdict \cup {None}]
        /\ handle_map = {} /\ damaged = {} /\ streams = {} /\ plant \in Plant
    BY <1>1 DEF Init, Outcome
  <2>5. TypeOK
    <3>1. \A c \in Call : /\ asked[c].method \in Methods[plant] \cup {None}
                          /\ asked[c].account \in Account \cup {NoAccount}
                          /\ asked[c].switch \in Switch
      BY <2>1
    <3>2. \A c \in Call, k \in 1..MaxParts :
            k <= Len(result[c]) => ~result[c][k].is_update
      BY <1>1, <2>3
    <3>3. \A k \in 1..Len(published) :
            published[k].is_update \/ published[k].request_id \in Call
      BY <2>2
    <3>4. \A s \in streams : s.feed \in DOMAIN UpdatesOf
      BY <2>4
    <3> QED BY <2>2, <2>3, <2>4, <3>1, <3>2, <3>3, <3>4
        DEF TypeOK, Part, Answers
  <2> QED BY <2>1, <2>2, <2>3, <2>4, <2>5 DEF Types
<1>3. \A c \in Call : Life(c)
  BY DEF Init, Life, Invoked, Fresh, OwnParts
<1>4. QueuedFresh /\ AcceptedInvoked
  BY DEF Init, QueuedFresh, AcceptedInvoked
<1>5. StreamsOfLatest
  BY DEF Init, StreamsOfLatest, FeedCalls
<1>6. UpdatesReachSubscribers
  BY DEF Init, UpdatesReachSubscribers, Updates, Forwarded
<1>7. WaitersAreOwed
  BY DEF Init, WaitersAreOwed
<1>8. OnlyLogoutsShown
  BY DEF Init, OnlyLogoutsShown, Shown, Disconnected
<1> QED BY <1>2, <1>3, <1>4, <1>5, <1>6, <1>7, <1>8 DEF IInv

\* ... and every step keeps it
LEMMA NextIInv == IInv /\ [Next]_vars => IInv'
<1> SUFFICES ASSUME IInv, [Next]_vars PROVE IInv'
  OBVIOUS
<1>1. CASE \E c \in Idle, m \in Methods[plant], a \in HandleAccount,
             s \in Switch : Invoke(c, m, a, s)
  BY <1>1, InvokeStep
<1>2. CASE \E c \in Idle : InvokeInvalid(c)
  BY <1>2, InvokeInvalidStep
<1>3. CASE \E v \in Refusal \cup {"accepted"} : handle_command(v)
  BY <1>3, CommandStep DEF Verdict
<1>4. CASE \E c \in Call, readable \in Readable : ServerSendsPart(c, readable)
  BY <1>4, PartStep
<1>5. CASE \E c \in Call, readable \in Readable : ServerEndsAnswer(c, readable)
  BY <1>5, EndStep
<1>6. CASE \E feed \in DOMAIN UpdatesOf, readable \in Readable :
             \E template \in UpdatesOf[feed] :
               ServerPushes(feed, template, readable)
  BY <1>6, PushEffect, PublishedStep DEF IInv
<1>7. CASE \E v \in {"accepted", "code"} : ServerAnswersHeartbeat(v)
  <2>1. {"accepted", "code"} \subseteq Verdict
    BY DEF Verdict, Refusal
  <2> QED BY <1>7, <2>1, HeartbeatEffect, PublishedStep DEF IInv
<1>8. CASE \E c \in Call : DisconnectPublishes(c)
  BY <1>8, DisconnectStep
<1>9. CASE UNCHANGED vars
  BY <1>9, PublishedStep DEF vars, client, Published
<1> QED BY <1>1, <1>2, <1>3, <1>4, <1>5, <1>6, <1>7, <1>8, <1>9 DEF Next

(* What every call is doing (Life), which calls are queued and accepted,   *)
(* what is streamed and what is published belong together in every state.  *)
THEOREM DispatchInductive == Spec => []IInv
  BY InitIInv, NextIInv, PTL DEF Spec

(* Every variable keeps its type; above all, what is published is an       *)
(* update or the answer to a call, never a response that is neither, and   *)
(* what a caller gets is no update (handle_rithmic_message, disconnect).   *)
THEOREM DispatchTypeCorrect == Spec => []TypeOK
<1>1. IInv => TypeOK
  BY DEF IInv, Types
<1> QED BY <1>1, DispatchInductive, PTL

(* Every method of the four plants answers its caller with the message its *)
(* documentation names, or with the server's Reject.                       *)
THEOREM AnswersFit == Spec => []AnswersFitMethods
<1>1. IInv => AnswersFitMethods
  BY DEF IInv, Life, Answered, AnswersFitMethods, Undisturbed
<1> QED BY <1>1, DispatchInductive, PTL

(* No method takes a part of an answer for the whole: its caller gets each *)
(* frame the server sent, however many there are, in the order sent.       *)
THEOREM NoPartLost == Spec => []NothingLost
<1>1. IInv => NothingLost
  <2> SUFFICES ASSUME IInv, NEW c \in Undisturbed
               PROVE  [k \in 1..Len(result[c]) |-> result[c][k].part]
                        = [k \in 1..served[c] |-> k]
    BY DEF NothingLost
  <2>1. Answered(c)
    BY DEF IInv, Life, Undisturbed
  <2> QED BY <2>1 DEF Answered
<1> QED BY <1>1, DispatchInductive, PTL

(* The caller of a refused request can tell, and no other response of a    *)
(* call carries an error (get_error).                                      *)
THEOREM RefusalsVisible == Spec => []RefusalsAreVisible
<1>1. IInv => RefusalsAreVisible
  BY DEF IInv, Life, Answered, RefusalsAreVisible, Undisturbed
<1> QED BY <1>1, DispatchInductive, PTL

(* Whoever waits is in the channel or owed frames by the server: no answer *)
(* is taken for an update, and no last response for a part.                *)
THEOREM NoAnswerAstray == Spec => []WaitersAreOwed
<1>1. IInv => WaitersAreOwed
  BY DEF IInv
<1> QED BY <1>1, DispatchInductive, PTL

(* The server streams exactly the feeds the last accepted calls left on,   *)
(* for the accounts of their handles.                                      *)
THEOREM LastCallDecides == Spec => []StreamFollowsLastCall
<1>1. ASSUME IInv PROVE StreamFollowsLastCall
  <2>1. StreamsOfLatest /\ FeedCalls \subseteq Nat
    BY <1>1 DEF IInv, FeedCalls
  <2>2. ASSUME NEW l \in FeedCalls, Latest(l)
        PROVE  LastAbout(About(accepted[l])) = {accepted[l]}
    <3>1. \A k \in FeedCalls :
            /\ About(accepted[k]) = About(accepted[l])
            /\ \A j \in FeedCalls :
                 About(accepted[j]) = About(accepted[l]) => j <= k
            <=> k = l
      BY <2>1, <2>2 DEF Latest
    <3> QED BY <3>1 DEF LastAbout
  <2>3. ASSUME NEW s \in streams
        PROVE  \E k \in FeedCalls : /\ About(accepted[k]) = s
                                    /\ \A c \in LastAbout(About(accepted[k])) :
                                         Wanted(c) = "subscribe"
    BY <2>1, <2>2 DEF StreamsOfLatest
  <2>4. ASSUME NEW k \in FeedCalls,
               \A c \in LastAbout(About(accepted[k])) : Wanted(c) = "subscribe"
        PROVE  About(accepted[k]) \in streams
    <3>1. PICK l \in FeedCalls :
            About(accepted[l]) = About(accepted[k]) /\ Latest(l)
      BY <2>1 DEF StreamsOfLatest
    <3>2. Wanted(accepted[l]) = "subscribe"
      BY <2>2, <2>4, <3>1
    <3> QED BY <2>1, <3>1, <3>2 DEF StreamsOfLatest
  <2> QED BY <2>3, <2>4 DEF StreamFollowsLastCall
<1> QED BY <1>1, DispatchInductive, PTL

(* The subscribers get every update that decodes once, in the server's     *)
(* order and as a message of its feed, whatever disconnect() publishes     *)
(* between them.                                                           *)
THEOREM SubscribersGetUpdates == Spec => []UpdatesReachSubscribers
<1>1. IInv => UpdatesReachSubscribers
  BY DEF IInv
<1> QED BY <1>1, DispatchInductive, PTL

(* The subscribers see no answer to a call but those of the ticker         *)
(* plant's disconnect(): each once, as its caller gets it, by the time it  *)
(* returns.                                                                *)
THEOREM NoAnswerShownButLogouts == Spec => []OnlyLogoutsShown
<1>1. IInv => OnlyLogoutsShown
  BY DEF IInv
<1> QED BY <1>1, DispatchInductive, PTL

=============================================================================
