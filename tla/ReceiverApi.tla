---------------------------- MODULE ReceiverApi ----------------------------
(***************************************************************************)
(* RithmicReceiverApi: what buf_to_message makes of a frame of the server, *)
(* one row for each arm of its match on the template id.                   *)
(*                                                                         *)
(* A frame is what the protobuf message inside says: its template, the id  *)
(* in user_msg, rp_code (how a request ended) and rq_handler_rp_code (more *)
(* parts follow).  readable tells how much of it decodes: all, only the    *)
(* template, or nothing.  The other fields are its place in the answer.    *)
(***************************************************************************)
EXTENDS Naturals, Sequences

NoId == "NoId"    \* request_id "": no user_msg, or nothing decoded
NoError == "NoError"

\* An arm gives the message, where it goes, whether its id and error come
\* from user_msg and rp_code, and whether it is one of several parts, with
\* rq_handler_rp_code telling if it is the last.
Arm(message, is_update, coded, multi, listed) ==
  [message |-> message, is_update |-> is_update, coded |-> coded,
   multi |-> multi, listed |-> listed]

Single(message) == Arm(message, FALSE, TRUE, FALSE, FALSE)
Parts(message) == Arm(message, FALSE, TRUE, TRUE, TRUE)
LastPart(message) == Arm(message, FALSE, TRUE, TRUE, FALSE)
Update(message) == Arm(message, TRUE, FALSE, FALSE, FALSE)
Health(message) == Arm(message, TRUE, TRUE, FALSE, FALSE)

\* the match's last arm, for a template id it does not know
NoArm == Arm("Unknown", FALSE, FALSE, FALSE, FALSE)

-----------------------------------------------------------------------------
(* The match on the template id, its arms in groups.                       *)

ExtensionArms(template) ==
  CASE template = 3501 -> Single("ResponseModifyOrderReferenceData")
    [] template = 3503 -> Single("ResponseOrderSessionConfig")
    [] template = 3505 -> Parts("ResponseExitPosition")
    [] template = 3507 -> Single("ResponseReplayExecutions")
    [] template = 3509 -> Single("ResponseAccountRmsUpdates")
    [] OTHER -> NoArm

AgreementArms(template) ==
  CASE template = 501 -> Parts("ResponseListUnacceptedAgreements")
    [] template = 503 -> Parts("ResponseListAcceptedAgreements")
    [] template = 505 -> Single("ResponseAcceptAgreement")
    [] template = 507 -> Parts("ResponseShowAgreement")
    [] template = 509 -> Single("ResponseSetRithmicMrktDataSelfCertStatus")
    [] OTHER -> NoArm

\* mutant: an update goes the way of the responses
PnlArmsResponse(template) ==
  CASE template = 401 -> Single("ResponsePnLPositionUpdates")
    [] template = 403 -> Single("ResponsePnLPositionSnapshot")
    [] template = 450 -> Single("InstrumentPnLPositionUpdate")
    [] template = 451 -> Update("AccountPnLPositionUpdate")
    [] OTHER -> NoArm

PnlArms(template) ==
  CASE template = 401 -> Single("ResponsePnLPositionUpdates")
    [] template = 403 -> Single("ResponsePnLPositionSnapshot")
    [] template = 450 -> Update("InstrumentPnLPositionUpdate")
    [] template = 451 -> Update("AccountPnLPositionUpdate")
    [] OTHER -> NoArm

OrderUpdateArms(template) ==
  CASE template = 350 -> Update("TradeRoute")
    [] template = 351 -> Update("RithmicOrderNotification")
    [] template = 352 -> Update("ExchangeOrderNotification")
    [] template = 353 -> Update("BracketUpdates")
    [] template = 354 -> Update("AccountListUpdates")
    [] template = 355 -> Update("UpdateEasyToBorrowList")
    [] template = 356 -> Update("AccountRmsUpdates")
    [] OTHER -> NoArm

PermissionArms(template) ==
  CASE template = 343 -> Parts("ResponseListExchangePermissions")
    [] template = 345 -> Single("ResponseLinkOrders")
    [] template = 347 -> Single("ResponseCancelAllOrders")
    [] template = 349 -> Parts("ResponseEasyToBorrowList")
    [] OTHER -> NoArm

\* mutant: an answer in parts taken for a single one
BracketArmsSingle(template) ==
  CASE template = 331 -> Parts("ResponseBracketOrder")
    [] template = 333 -> Single("ResponseUpdateTargetBracketLevel")
    [] template = 335 -> Single("ResponseUpdateStopBracketLevel")
    [] template = 337 -> Single("ResponseSubscribeToBracketUpdates")
    [] template = 339 -> Single("ResponseShowBrackets")
    [] template = 341 -> Parts("ResponseShowBracketStops")
    [] OTHER -> NoArm

BracketArms(template) ==
  CASE template = 331 -> Parts("ResponseBracketOrder")
    [] template = 333 -> Single("ResponseUpdateTargetBracketLevel")
    [] template = 335 -> Single("ResponseUpdateStopBracketLevel")
    [] template = 337 -> Single("ResponseSubscribeToBracketUpdates")
    [] template = 339 -> Parts("ResponseShowBrackets")
    [] template = 341 -> Parts("ResponseShowBracketStops")
    [] OTHER -> NoArm

OrderArms(template) ==
  CASE template = 313 -> Parts("ResponseNewOrder")
    [] template = 315 -> Parts("ResponseModifyOrder")
    [] template = 317 -> Parts("ResponseCancelOrder")
    [] template = 319 -> Parts("ResponseShowOrderHistoryDates")
    [] template = 321 -> Single("ResponseShowOrders")
    [] template = 323 -> Single("ResponseShowOrderHistory")
    [] template = 325 -> Single("ResponseShowOrderHistorySummary")
    [] template = 327 -> Single("ResponseShowOrderHistoryDetail")
    [] template = 329 -> Parts("ResponseOcoOrder")
    [] OTHER -> NoArm

AccountArms(template) ==
  CASE template = 301 -> Single("ResponseLoginInfo")
    [] template = 303 -> Parts("ResponseAccountList")
    [] template = 305 -> Parts("ResponseAccountRmsInfo")
    [] template = 307 -> Parts("ResponseProductRmsInfo")
    [] template = 309 -> Single("ResponseSubscribeForOrderUpdates")
    [] template = 311 -> Parts("ResponseTradeRoutes")
    [] OTHER -> NoArm

HistoryArms(template) ==
  CASE template = 201 -> Single("ResponseTimeBarUpdate")
    [] template = 203 -> Parts("ResponseTimeBarReplay")
    [] template = 205 -> Single("ResponseTickBarUpdate")
    [] template = 207 -> Parts("ResponseTickBarReplay")
    [] template = 209 -> Parts("ResponseVolumeProfileMinuteBars")
    [] template = 211 -> Single("ResponseResumeBars")
    [] template = 250 -> Update("TimeBar")
    [] template = 251 -> Update("TickBar")
    [] OTHER -> NoArm

DepthUpdateArms(template) ==
  CASE template = 160 -> Update("DepthByOrder")
    [] template = 161 -> Update("DepthByOrderEndEvent")
    [] template = 162 -> Update("SymbolMarginRate")
    [] template = 163 -> Update("OrderPriceLimits")
    [] OTHER -> NoArm

MarketUpdateArms(template) ==
  CASE template = 150 -> Update("LastTrade")
    [] template = 151 -> Update("BestBidOffer")
    [] template = 152 -> Update("TradeStatistics")
    [] template = 153 -> Update("QuoteStatistics")
    [] template = 154 -> Update("IndicatorPrices")
    [] template = 155 -> Update("EndOfDayPrices")
    [] template = 156 -> Update("OrderBook")
    [] template = 157 -> Update("MarketMode")
    [] template = 158 -> Update("OpenInterest")
    [] template = 159 -> Update("FrontMonthContractUpdate")
    [] OTHER -> NoArm

ReferenceDataArms(template) ==
  CASE template = 112 -> Parts("ResponseProductCodes")
    [] template = 114 -> Single("ResponseFrontMonthContract")
    [] template = 116 -> Parts("ResponseDepthByOrderSnapshot")
    [] template = 118 -> LastPart("ResponseDepthByOrderUpdates")
    [] template = 120 -> Parts("ResponseGetVolumeAtPrice")
    [] template = 122 -> Single("ResponseAuxilliaryReferenceData")
    [] OTHER -> NoArm

MarketDataArms(template) ==
  CASE template = 101 -> Single("ResponseMarketDataUpdate")
    [] template = 103 -> Parts("ResponseGetInstrumentByUnderlying")
    [] template = 104 -> Single("ResponseGetInstrumentByUnderlyingKeys")
    [] template = 106 -> Single("ResponseMarketDataUpdateByUnderlying")
    [] template = 108 -> Parts("ResponseGiveTickSizeTypeTable")
    [] template = 110 -> Parts("ResponseSearchSymbols")
    [] OTHER -> NoArm

SessionArms(template) ==
  CASE template = 11 -> Single("ResponseLogin")
    [] template = 13 -> Single("ResponseLogout")
    [] template = 15 -> Single("ResponseReferenceData")
    [] template = 17 -> Single("ResponseRithmicSystemInfo")
    [] template = 19 -> Health("ResponseHeartbeat")
    [] template = 21 -> Single("ResponseRithmicSystemGatewayInfo")
    [] template = 75 -> Single("Reject")
    [] template = 76 -> Update("UserAccountUpdate")
    [] template = 77 -> Update("ForcedLogout")
    [] OTHER -> NoArm

matched(template) ==
  CASE template \in 11..77 -> SessionArms(template)
    [] template \in 101..110 -> MarketDataArms(template)
    [] template \in 112..122 -> ReferenceDataArms(template)
    [] template \in 150..159 -> MarketUpdateArms(template)
    [] template \in 160..163 -> DepthUpdateArms(template)
    [] template \in 201..251 -> HistoryArms(template)
    [] template \in 301..311 -> AccountArms(template)
    [] template \in 313..329 -> OrderArms(template)
    [] template \in 331..341 -> BracketArms(template)
    [] template \in 343..349 -> PermissionArms(template)
    [] template \in 350..356 -> OrderUpdateArms(template)
    [] template \in 401..451 -> PnlArms(template)
    [] template \in 501..509 -> AgreementArms(template)
    [] template \in 3501..3509 -> ExtensionArms(template)
    [] OTHER -> NoArm

\* the match, once for all templates
MaxTemplate == 3509

arms == [template \in 0..MaxTemplate |-> matched(template)]

arm(template) == IF template \in 0..MaxTemplate THEN arms[template] ELSE NoArm

-----------------------------------------------------------------------------
\* mutant: without rq_handler_rp_code there may be more
has_multiple_unless_ended(rq_handler_rp_code) ==
  rq_handler_rp_code = <<>> \/ Head(rq_handler_rp_code) = "0"

has_multiple(rq_handler_rp_code) ==
  rq_handler_rp_code # <<>> /\ Head(rq_handler_rp_code) = "0"

\* mutant: an rp_code without a text is no error
get_error_of_text(rp_code) ==
  IF Len(rp_code) > 1 THEN rp_code[2] ELSE NoError

get_error(rp_code) ==
  IF rp_code \in {<<>>, <<"0">>} THEN NoError
  ELSE IF Len(rp_code) > 1 THEN rp_code[2]
  ELSE rp_code[1]

\* a frame too short, one that does not decode, an unknown template
decode_error(is_update) ==
  [request_id |-> NoId, message |-> "Unknown", is_update |-> is_update,
   multi_response |-> FALSE, has_more |-> FALSE, error |-> "decode", part |-> 0]

Decoded(f, a) ==
  [request_id |-> IF a.coded THEN f.user_msg ELSE NoId,
   message |-> a.message,
   is_update |-> a.is_update,
   multi_response |-> a.multi,
   has_more |-> a.listed /\ has_multiple(f.rq_handler_rp_code),
   error |-> IF a.coded THEN get_error(f.rp_code)
             ELSE IF a.message = "ForcedLogout" THEN "forced_logout"
             ELSE NoError,
   part |-> f.part]

buf_to_message(f) ==
  LET a == arm(f.template) IN
  IF f.readable = "nothing" \/ a = NoArm THEN decode_error(FALSE)
  ELSE IF f.readable = "template" THEN decode_error(a.is_update)
  ELSE Decoded(f, a)

\* check_message_error: the response is an Err
IsErr(response) == response.error # NoError

=============================================================================
