------------------------------ MODULE Dispatch ------------------------------
(***************************************************************************)
(* The way of a call through a plant: handle method, command, request,     *)
(* server, frame, message, result.  The tables of the methods and commands *)
(* (PlantCommands), of the requests (SenderApi) and of the messages        *)
(* (ReceiverApi) were written one by one; here they have to fit together,  *)
(* for every method of every plant, while another call and the updates of  *)
(* its streams go the same way.                                            *)
(*                                                                         *)
(* A call stands for the id its request draws and for the oneshot of its   *)
(* answer (RequestHandler).  Writing, and reading a frame the server       *)
(* sends, are one step each (PlantActor opens them up).                    *)
(***************************************************************************)
EXTENDS PlantCommands, SenderApi, ReceiverApi, SequencesExt

CONSTANTS
  Call,        \* calls of handle methods
  Account,     \* the accounts handles are made for
  Repertoire,  \* call -> the methods it may be a call of
  MaxParts,    \* bound: parts of an answer
  MaxPushed    \* bound: frames the server sends unasked

ASSUME DispatchAssumption ==
  /\ NoId \notin Call
  /\ \A c \in Call :
       Repertoire[c] \subseteq UNION {Methods[p] : p \in Plant}
  /\ NoAccount \notin Account
  /\ MaxParts \in Nat \ {0}
  /\ MaxPushed \in Nat

VARIABLES
  plant,      \* which of the four plants this is
  asked,      \* call -> method, account of its handle, switch
  queue,      \* commands in the mpsc channel, each by its call
  handle_map, \* calls registered for an answer
  response_vec_map, \* call -> parts so far
  outcome,    \* call -> idle, waiting, closing (disconnect has its answer and
              \* is yet to publish it), Ok, ServerError, InvalidArgument
  result,     \* call -> the responses its caller gets
  published,  \* what went to subscription_sender
  server,     \* call -> the request the server works on
  streams,    \* feeds the server streams, each with its account
  served,     \* history: call -> number of frames of its answer
  verdict,    \* history: call -> accepted or a refusal
  accepted,   \* history: accepted calls in the server's order
  damaged,    \* history: calls with a frame that did not decode
  pushed      \* history: the feed of each update that decodes

client == <<plant, asked, queue, handle_map, response_vec_map, outcome, result,
            published>>
vars == <<client, server, streams, served, verdict, accepted, damaged, pushed>>

None == "none"
Outcome == {"idle", "waiting", "closing", "Ok", "ServerError", "InvalidArgument"}
Switch == {"subscribe", "unsubscribe", "none"}

-----------------------------------------------------------------------------
(* The server: requests it streams updates for, the templates of the       *)
(* updates, answers that come in parts, ways to refuse.                    *)

NoFeed == "NoFeed"

FeedOf(template) ==
  CASE template = 100 -> "market_data"
    [] template = 105 -> "by_underlying"
    [] template = 113 -> "front_month"
    [] template = 117 -> "order_book"
    [] template = 200 -> "time_bars"
    [] template = 204 -> "tick_bars"
    [] template = 308 -> "orders"
    [] template = 310 -> "trade_routes"
    [] template = 336 -> "brackets"
    [] template = 348 -> "easy_to_borrow"
    [] template = 3508 -> "account_rms"
    [] template = 400 -> "pnl"
    [] OTHER -> NoFeed

UpdatesOf == [
  market_data |-> {150, 151},
  by_underlying |-> {150, 151},
  front_month |-> {159},
  order_book |-> {160},
  time_bars |-> {250},
  tick_bars |-> {251},
  orders |-> {351, 352},
  trade_routes |-> {350},
  brackets |-> {353},
  easy_to_borrow |-> {355},
  account_rms |-> {356},
  pnl |-> {450, 451},
  unasked |-> {76, 77, 354}]

\* messages with a field rq_handler_rp_code
InParts ==
  {103, 108, 110, 112, 116, 120, 203, 207, 209, 303, 305, 307, 311, 313, 315,
   317, 319, 329, 331, 339, 341, 343, 349, 501, 503, 507, 3505}

\* how it refuses: rp_code with or without a text, or with a Reject
Refusal == {"code", "text", "reject"}

rp_code_of(v) ==
  IF v = "accepted" THEN <<"0">>
  ELSE IF v = "code" THEN <<"7">> ELSE <<"7", "no_data">>

\* a request turns at most its own feed on or off
Streams(m) ==
  IF FeedOf(m.template) = NoFeed THEN streams
  ELSE LET s == [feed |-> FeedOf(m.template), account |-> m.account]
       IN CASE m.switch = "subscribe" -> streams \cup {s}
            [] m.switch = "unsubscribe" -> streams \ {s}
            [] OTHER -> streams

-----------------------------------------------------------------------------
(* The handle: a method puts its command into the channel and waits.       *)

Switches(m) ==
  CASE method(plant, m).switch = "asked" -> {"subscribe", "unsubscribe"}
    [] method(plant, m).switch = "flag" -> {"subscribe", "none"}
    [] OTHER -> {method(plant, m).switch}

\* only the order and the pnl plant give handles an account
HandleAccount == IF plant \in {"order", "pnl"} THEN Account ELSE {NoAccount}

\* calls yet to be made
Idle == {c \in Call : outcome[c] = "idle"}

Invoke(c, m, a, s) ==
  /\ m \in Repertoire[c]
  /\ s \in Switches(m)
  /\ asked' = [asked EXCEPT ![c] = [method |-> m, account |-> a, switch |-> s]]
  /\ outcome' = [outcome EXCEPT ![c] = "waiting"]
  /\ queue' = Append(queue, c)
  /\ UNCHANGED <<plant, handle_map, response_vec_map, result, published, server,
                 streams, served, verdict, accepted, damaged, pushed>>

\* load_tick_bars with bar_length 0
InvokeInvalid(c) ==
  /\ plant = "history"
  /\ "load_tick_bars" \in Repertoire[c]
  /\ outcome' = [outcome EXCEPT ![c] = "InvalidArgument"]
  /\ UNCHANGED <<plant, asked, queue, handle_map, response_vec_map, result,
                 published, server, streams, served, verdict, accepted, damaged,
                 pushed>>

(* The actor: handle_command builds the request, registers the oneshot and *)
(* writes; the server receives the request and decides on it.              *)
Request(c) ==
  LET build == command(plant, method(plant, asked[c].method).command)
  IN Built(build.builder, asked[c].account,
           IF build.switch = "asked" THEN asked[c].switch ELSE build.switch)

handle_command(v) ==
  /\ queue # <<>>
  /\ LET c == Head(queue) IN
     /\ handle_map' = handle_map \cup {c}
     /\ server' = [server EXCEPT ![c] = Request(c).template]
     /\ verdict' = [verdict EXCEPT ![c] = v]
     /\ streams' = IF v = "accepted" THEN Streams(Request(c)) ELSE streams
     /\ accepted' = IF v = "accepted" THEN Append(accepted, c) ELSE accepted
  /\ queue' = Tail(queue)
  /\ UNCHANGED <<plant, asked, response_vec_map, outcome, result, published,
                 served, damaged, pushed>>

-----------------------------------------------------------------------------
(* The actor reads a binary frame: updates to the subscribers, responses   *)
(* to the request handler, heartbeat responses nowhere.                    *)

\* only the ticker plant's disconnect() shows its answer to the subscribers
ShowsAnswer(c) == plant = "ticker" /\ asked[c].method = "disconnect"

\* what the method makes of the answer its oneshot delivers
Settled(c, responses) ==
  LET returns == method(plant, asked[c].method).returns IN
  [outcome |-> IF ShowsAnswer(c) THEN "closing"
               ELSE IF returns = "accepted" /\ IsErr(Head(responses))
               THEN "ServerError" ELSE "Ok",
   result |-> IF returns = "all" THEN responses ELSE <<Head(responses)>>]

Answer(c, responses) ==
  /\ handle_map' = handle_map \ {c}
  /\ response_vec_map' = [response_vec_map EXCEPT ![c] =
                            IF Last(responses).multi_response THEN <<>> ELSE @]
  /\ outcome' = [outcome EXCEPT ![c] = Settled(c, responses).outcome]
  /\ result' = [result EXCEPT ![c] = Settled(c, responses).result]
  /\ UNCHANGED published

\* mutant: the caller has its answer before the subscribers have it
DisconnectReturns(c) ==
  /\ outcome[c] = "closing"
  /\ outcome' = [outcome EXCEPT ![c] = "Ok"]
  /\ UNCHANGED <<plant, asked, queue, handle_map, response_vec_map, result,
                 published, server, streams, served, verdict, accepted, damaged,
                 pushed>>

(* disconnect() goes on in the caller's task, and the actor beside it: it  *)
(* queues Close (PlantActor), publishes the logout response or the Reject  *)
(* that came instead, and returns.                                         *)
DisconnectPublishes(c) ==
  /\ outcome[c] = "closing"
  /\ published' = Append(published, Head(result[c]))
  /\ outcome' = [outcome EXCEPT ![c] = "Ok"]
  /\ UNCHANGED <<plant, asked, queue, handle_map, response_vec_map, result,
                 server, streams, served, verdict, accepted, damaged, pushed>>

handle_response(r) ==
  LET c == r.request_id IN
  \/ /\ r.multi_response /\ r.has_more
     /\ response_vec_map' = [response_vec_map EXCEPT ![c] = Append(@, r)]
     /\ UNCHANGED <<handle_map, outcome, result, published>>
  \/ /\ ~(r.multi_response /\ r.has_more) /\ c \in handle_map
     /\ Answer(c, IF r.multi_response THEN Append(response_vec_map[c], r)
                  ELSE <<r>>)
  \/ /\ ~(r.multi_response /\ r.has_more) /\ c \notin handle_map
     /\ UNCHANGED <<handle_map, response_vec_map, outcome, result, published>>

publish(r) ==
  /\ published' = Append(published, r)
  /\ UNCHANGED <<handle_map, response_vec_map, outcome, result>>

HeartbeatTimeout(r) ==
  [r EXCEPT !.message = "HeartbeatTimeout", !.is_update = TRUE,
            !.has_more = FALSE, !.multi_response = FALSE]

\* mutant: what has no caller is published
handle_rithmic_message_publishing(f) ==
  LET r == buf_to_message(f) IN
  /\ IF r.is_update \/ r.request_id \notin handle_map THEN publish(r)
     ELSE handle_response(r)
  /\ UNCHANGED <<plant, asked, queue>>

\* the heartbeat arm belongs to buf_to_message's Ok: an error never gets there
handle_rithmic_message(f) ==
  LET r == buf_to_message(f) IN
  /\ CASE ~IsErr(r) /\ r.message = "ResponseHeartbeat" ->
            IF r.error # NoError THEN publish(HeartbeatTimeout(r))
            ELSE UNCHANGED <<handle_map, response_vec_map, outcome, result,
                             published>>
       [] r.is_update /\ (IsErr(r) \/ r.message # "ResponseHeartbeat") ->
            publish(r)
       [] OTHER -> handle_response(r)
  /\ UNCHANGED <<plant, asked, queue>>

Frame(template, id, rp_code, rq_handler_rp_code, readable, part) ==
  [template |-> template, user_msg |-> id, rp_code |-> rp_code,
   rq_handler_rp_code |-> rq_handler_rp_code, readable |-> readable,
   part |-> part]

-----------------------------------------------------------------------------
(* What the server sends.  A frame may not decode.                         *)

Readable == {"all", "template", "nothing"}

\* the server's next frame for c is f; it decodes as far as readable says
Serve(c, f) ==
  /\ handle_rithmic_message(f)
  /\ served' = [served EXCEPT ![c] = f.part]
  /\ damaged' = IF f.readable = "all" THEN damaged ELSE damaged \cup {c}
  /\ UNCHANGED <<streams, verdict, accepted, pushed>>

ServerSendsPart(c, readable) ==
  /\ server[c] # 0
  /\ server[c] + 1 \in InParts
  /\ served[c] + 1 < MaxParts
  /\ Serve(c, Frame(server[c] + 1, c, <<>>, <<"0">>, readable, served[c] + 1))
  /\ UNCHANGED server

\* a Reject comes instead of an answer
ServerEndsAnswer(c, readable) ==
  /\ server[c] # 0
  /\ verdict[c] = "reject" => served[c] = 0
  /\ Serve(c, Frame(IF verdict[c] = "reject" THEN 75 ELSE server[c] + 1, c,
                    rp_code_of(verdict[c]), <<>>, readable, served[c] + 1))
  /\ server' = [server EXCEPT ![c] = 0]

\* what the actor published of the frames nobody asked for
Forwarded == {k \in 1..Len(published) : published[k].is_update}

\* an update of a feed it streams, or of no feed
ServerPushes(feed, template, readable) ==
  /\ Cardinality(Forwarded) < MaxPushed
  /\ feed = "unasked" \/ \E s \in streams : s.feed = feed
  /\ template \in UpdatesOf[feed]
  /\ pushed' = IF readable = "all" THEN Append(pushed, feed) ELSE pushed
  /\ handle_rithmic_message(
       Frame(template, NoId, <<>>, <<>>, readable, Len(pushed) + 1))
  /\ UNCHANGED <<server, streams, served, verdict, accepted, damaged>>

\* the answer to a heartbeat: nobody is registered for it
ServerAnswersHeartbeat(v) ==
  /\ Cardinality(Forwarded) < MaxPushed
  /\ handle_rithmic_message(Frame(19, NoId, rp_code_of(v), <<>>, "all", 0))
  /\ UNCHANGED <<server, streams, served, verdict, accepted, damaged, pushed>>

-----------------------------------------------------------------------------
Init ==
  /\ plant \in Plant
  /\ asked = [c \in Call |-> [method |-> None, account |-> NoAccount, switch |-> None]]
  /\ queue = <<>>
  /\ handle_map = {}
  /\ response_vec_map = [c \in Call |-> <<>>]
  /\ outcome = [c \in Call |-> "idle"]
  /\ result = [c \in Call |-> <<>>]
  /\ published = <<>>
  /\ server = [c \in Call |-> 0]
  /\ streams = {}
  /\ served = [c \in Call |-> 0]
  /\ verdict = [c \in Call |-> None]
  /\ accepted = <<>>
  /\ damaged = {}
  /\ pushed = <<>>

Next ==
  \/ \E c \in Idle, m \in Methods[plant], a \in HandleAccount, s \in Switch :
       Invoke(c, m, a, s)
  \/ \E c \in Idle : InvokeInvalid(c)
  \/ \E v \in Refusal \cup {"accepted"} : handle_command(v)
  \/ \E c \in Call, readable \in Readable : ServerSendsPart(c, readable)
  \/ \E c \in Call, readable \in Readable : ServerEndsAnswer(c, readable)
  \/ \E feed \in DOMAIN UpdatesOf, readable \in Readable :
       \E template \in UpdatesOf[feed] : ServerPushes(feed, template, readable)
  \/ \E v \in {"accepted", "code"} : ServerAnswersHeartbeat(v)
  \/ \E c \in Call : DisconnectPublishes(c)

Spec == Init /\ [][Next]_vars

-----------------------------------------------------------------------------
(* What the documentation of the methods promises: the message a method    *)
(* answers with, and the feed it turns on, off or as asked, for its        *)
(* handle's account or for everybody; and the messages of a feed.          *)

Promised == [
  list_system_info |-> "ResponseRithmicSystemInfo",
  login |-> "ResponseLogin",
  disconnect |-> "ResponseLogout",
  subscribe |-> "ResponseMarketDataUpdate",
  unsubscribe |-> "ResponseMarketDataUpdate",
  subscribe_order_book |-> "ResponseDepthByOrderUpdates",
  unsubscribe_order_book |-> "ResponseDepthByOrderUpdates",
  request_depth_by_order_snapshot |-> "ResponseDepthByOrderSnapshot",
  search_symbols |-> "ResponseSearchSymbols",
  list_exchanges |-> "ResponseListExchangePermissions",
  get_instrument_by_underlying |-> "ResponseGetInstrumentByUnderlying",
  subscribe_by_underlying |-> "ResponseMarketDataUpdateByUnderlying",
  get_tick_size_type_table |-> "ResponseGiveTickSizeTypeTable",
  get_product_codes |-> "ResponseProductCodes",
  get_volume_at_price |-> "ResponseGetVolumeAtPrice",
  get_auxilliary_reference_data |-> "ResponseAuxilliaryReferenceData",
  get_reference_data |-> "ResponseReferenceData",
  get_front_month_contract |-> "ResponseFrontMonthContract",
  get_system_gateway_info |-> "ResponseRithmicSystemGatewayInfo",
  get_account_list |-> "ResponseAccountList",
  subscribe_order_updates |-> "ResponseSubscribeForOrderUpdates",
  subscribe_bracket_updates |-> "ResponseSubscribeToBracketUpdates",
  place_bracket_order |-> "ResponseBracketOrder",
  place_advanced_bracket_order |-> "ResponseBracketOrder",
  modify_order |-> "ResponseModifyOrder",
  cancel_order |-> "ResponseCancelOrder",
  adjust_profit |-> "ResponseUpdateTargetBracketLevel",
  adjust_stop |-> "ResponseUpdateStopBracketLevel",
  show_orders |-> "ResponseShowOrders",
  cancel_all_orders |-> "ResponseCancelAllOrders",
  get_account_rms_info |-> "ResponseAccountRmsInfo",
  get_product_rms_info |-> "ResponseProductRmsInfo",
  get_trade_routes |-> "ResponseTradeRoutes",
  show_order_history_dates |-> "ResponseShowOrderHistoryDates",
  show_order_history_summary |-> "ResponseShowOrderHistorySummary",
  show_order_history_detail |-> "ResponseShowOrderHistoryDetail",
  show_order_history |-> "ResponseShowOrderHistory",
  place_order |-> "ResponseNewOrder",
  place_oco_order |-> "ResponseOcoOrder",
  show_brackets |-> "ResponseShowBrackets",
  show_bracket_stops |-> "ResponseShowBracketStops",
  exit_position |-> "ResponseExitPosition",
  link_orders |-> "ResponseLinkOrders",
  get_easy_to_borrow_list |-> "ResponseEasyToBorrowList",
  modify_order_reference_data |-> "ResponseModifyOrderReferenceData",
  get_order_session_config |-> "ResponseOrderSessionConfig",
  replay_executions |-> "ResponseReplayExecutions",
  subscribe_account_rms_updates |-> "ResponseAccountRmsUpdates",
  get_login_info |-> "ResponseLoginInfo",
  list_unaccepted_agreements |-> "ResponseListUnacceptedAgreements",
  list_accepted_agreements |-> "ResponseListAcceptedAgreements",
  accept_agreement |-> "ResponseAcceptAgreement",
  show_agreement |-> "ResponseShowAgreement",
  set_rithmic_mrkt_data_self_cert_status |-> "ResponseSetRithmicMrktDataSelfCertStatus",
  list_exchange_permissions |-> "ResponseListExchangePermissions",
  load_ticks |-> "ResponseTickBarReplay",
  load_tick_bars |-> "ResponseTickBarReplay",
  load_time_bars |-> "ResponseTimeBarReplay",
  load_volume_profile_minute_bars |-> "ResponseVolumeProfileMinuteBars",
  resume_bars |-> "ResponseResumeBars",
  subscribe_time_bar_updates |-> "ResponseTimeBarUpdate",
  subscribe_tick_bar_updates |-> "ResponseTickBarUpdate",
  subscribe_pnl_updates |-> "ResponsePnLPositionUpdates",
  pnl_position_snapshots |-> "ResponsePnLPositionSnapshot",
  unsubscribe_pnl_updates |-> "ResponsePnLPositionUpdates"]

Answers == {Promised[m] : m \in DOMAIN Promised}

FeedPromised == [
  subscribe |-> [feed |-> "market_data", switch |-> "subscribe", own |-> FALSE],
  unsubscribe |-> [feed |-> "market_data", switch |-> "unsubscribe", own |-> FALSE],
  subscribe_order_book |-> [feed |-> "order_book", switch |-> "subscribe", own |-> FALSE],
  unsubscribe_order_book |-> [feed |-> "order_book", switch |-> "unsubscribe", own |-> FALSE],
  subscribe_by_underlying |-> [feed |-> "by_underlying", switch |-> "asked", own |-> FALSE],
  get_front_month_contract |-> [feed |-> "front_month", switch |-> "asked", own |-> FALSE],
  subscribe_order_updates |-> [feed |-> "orders", switch |-> "subscribe", own |-> TRUE],
  subscribe_bracket_updates |-> [feed |-> "brackets", switch |-> "subscribe", own |-> TRUE],
  get_trade_routes |-> [feed |-> "trade_routes", switch |-> "asked", own |-> FALSE],
  get_easy_to_borrow_list |-> [feed |-> "easy_to_borrow", switch |-> "asked", own |-> FALSE],
  subscribe_account_rms_updates |-> [feed |-> "account_rms", switch |-> "asked", own |-> TRUE],
  subscribe_time_bar_updates |-> [feed |-> "time_bars", switch |-> "asked", own |-> FALSE],
  subscribe_tick_bar_updates |-> [feed |-> "tick_bars", switch |-> "asked", own |-> FALSE],
  subscribe_pnl_updates |-> [feed |-> "pnl", switch |-> "subscribe", own |-> TRUE],
  unsubscribe_pnl_updates |-> [feed |-> "pnl", switch |-> "unsubscribe", own |-> TRUE]]

MessagesOf == [
  market_data |-> {"LastTrade", "BestBidOffer"},
  by_underlying |-> {"LastTrade", "BestBidOffer"},
  front_month |-> {"FrontMonthContractUpdate"},
  order_book |-> {"DepthByOrder"},
  time_bars |-> {"TimeBar"},
  tick_bars |-> {"TickBar"},
  orders |-> {"RithmicOrderNotification", "ExchangeOrderNotification"},
  trade_routes |-> {"TradeRoute"},
  brackets |-> {"BracketUpdates"},
  easy_to_borrow |-> {"UpdateEasyToBorrowList"},
  account_rms |-> {"AccountRmsUpdates"},
  pnl |-> {"InstrumentPnLPositionUpdate", "AccountPnLPositionUpdate"},
  unasked |-> {"UserAccountUpdate", "ForcedLogout", "AccountListUpdates"}]

-----------------------------------------------------------------------------
TypeOK ==
  /\ plant \in Plant
  /\ \A c \in Call :
       /\ asked[c].method \in Methods[plant] \cup {None}
       /\ asked[c].account \in Account \cup {NoAccount}
       /\ asked[c].switch \in Switch
  /\ queue \in Seq(Call)
  /\ handle_map \subseteq Call
  /\ response_vec_map \in [Call -> Seq([request_id : Call,
       message : Answers,
       is_update : {FALSE}, multi_response : {TRUE}, has_more : {TRUE},
       error : {NoError}, part : 1..MaxParts])]
  /\ outcome \in [Call -> Outcome]
  /\ \A k \in 1..Len(published) :
       published[k].is_update \/ published[k].request_id \in Call
  /\ \A c \in Call, k \in 1..MaxParts :
       k <= Len(result[c]) => ~result[c][k].is_update
  /\ \A s \in streams : s.feed \in DOMAIN UpdatesOf
  /\ served \in [Call -> 0..MaxParts]
  /\ ToSet(accepted) \subseteq Call

\* what the caller of an undamaged, settled call can rely on
Undisturbed == {c \in Call \ damaged : outcome[c] \in {"Ok", "ServerError"}}

(* The caller of a method gets the message its documentation names, or the *)
(* server's Reject: command, builder, template and arm belong together     *)
(* (PlantCommands, SenderApi, ReceiverApi).                                *)
AnswersFitMethods ==
  \A c \in Undisturbed : \A k \in 1..Len(result[c]) :
    result[c][k].message \in
      {IF verdict[c] = "reject" THEN "Reject" ELSE Promised[asked[c].method]}

(* A caller gets every frame of its answer, in order: no method that       *)
(* returns one response asks a question the server answers in parts, and   *)
(* no arm takes a part for the whole (into_iter().next(), multi_response). *)
NothingLost ==
  \A c \in Undisturbed :
    [k \in 1..Len(result[c]) |-> result[c][k].part] = [k \in 1..served[c] |-> k]

(* The caller of a refused request can tell: the last response says why,   *)
(* with the server's text where there is one, and no other response of any *)
(* call has an error (get_error, the Reject arm).                          *)
RefusalsAreVisible ==
  \A c \in Undisturbed : \A k \in 1..Len(result[c]) :
    result[c][k].error =
      IF verdict[c] = "accepted" \/ k < Len(result[c]) THEN NoError
      ELSE Last(rp_code_of(verdict[c]))

(* No answer goes astray: whoever waits is still in the channel or owed    *)
(* frames by the server, unless a frame did not decode.  A response taken  *)
(* for an update, or a last one taken for a part, would leave its caller   *)
(* waiting (is_update, has_multiple).                                      *)
WaitersAreOwed ==
  \A c \in Call \ damaged :
    outcome[c] = "waiting" => c \in ToSet(queue) \/ server[c] # 0

(* The server streams to a handle's account exactly the feeds the handles  *)
(* asked for, as the last accepted call about a feed and an account left   *)
(* them: subscribe and unsubscribe reach the same feed, and no request     *)
(* names another account (Subscribe/Unsubscribe in commands, account).     *)
About(c) ==
  LET p == FeedPromised[asked[c].method]
  IN [feed |-> p.feed, account |-> IF p.own THEN asked[c].account ELSE NoAccount]

Wanted(c) ==
  LET p == FeedPromised[asked[c].method]
  IN IF p.switch = "asked" THEN asked[c].switch ELSE p.switch

FeedCalls ==
  {k \in 1..Len(accepted) : /\ asked[accepted[k]].method \in DOMAIN FeedPromised
                            /\ Wanted(accepted[k]) # "none"}

LastAbout(s) ==
  {accepted[k] : k \in {k \in FeedCalls :
     /\ About(accepted[k]) = s
     /\ \A j \in FeedCalls : About(accepted[j]) = s => j <= k}}

StreamFollowsLastCall ==
  streams = {About(accepted[k]) : k \in
               {k \in FeedCalls : \A c \in LastAbout(About(accepted[k])) :
                                    Wanted(c) = "subscribe"}}

Updates == {k \in Forwarded : published[k].part > 0}

(* The subscribers get every update that decodes, once, in the server's    *)
(* order, as a message of the feed it belongs to (is_update of the arms).  *)
UpdatesReachSubscribers ==
  /\ \A k \in Updates : /\ published[k].part \in 1..Len(pushed)
                        /\ published[k].message \in
                             MessagesOf[pushed[published[k].part]]
  /\ \A j, k \in Updates : j < k => published[j].part < published[k].part
  /\ \A n \in 1..Len(pushed) : \E k \in Updates : published[k].part = n

(* Of all the answers to calls, the subscribers see those of the ticker    *)
(* plant's disconnect() alone: exactly what its caller gets, once for each *)
(* call, and by the time the caller has it.  No answer that belongs to     *)
(* another call, or to nobody any more, is shown to them.                  *)
Shown == (1..Len(published)) \ Forwarded

Disconnected == {c \in Call : ShowsAnswer(c) /\ outcome[c] = "Ok"}

OnlyLogoutsShown ==
  /\ \A k \in Shown : /\ published[k].request_id \in Disconnected
                      /\ published[k] = Head(result[published[k].request_id])
  /\ \A j, k \in Shown :
       published[j].request_id = published[k].request_id => j = k
  /\ \A c \in Disconnected : \E k \in Shown : published[k].request_id = c

-----------------------------------------------------------------------------
(* Not so.  order_plant.rs:246-249 says that heartbeat errors are          *)
(* forwarded as HeartbeatTimeout messages; an error makes buf_to_message   *)
(* return Err, and that arm publishes the ResponseHeartbeat itself.        *)
HeartbeatErrorsReported ==
  \A k \in 1..Len(published) : published[k].message # "ResponseHeartbeat"

=============================================================================
