--------------------------- MODULE PlantCommands ---------------------------
(***************************************************************************)
(* What the methods of the four plant handles ask for: the command each    *)
(* sends and what it makes of the answer, and the request the actor's      *)
(* handle_command builds for it.  Every one of these methods sends one     *)
(* command with a oneshot and awaits it; every one of these commands draws *)
(* an id, registers the oneshot and writes the request (send_or_fail).     *)
(*                                                                         *)
(* The commands that carry no oneshot (Close, Abort, SetLogin,             *)
(* UpdateHeartbeat, SendHeartbeat) are PlantActor's.                       *)
(***************************************************************************)

\* An arm of handle_command: its builder, and whether it passes on the
\* switch of the command or fixes one.
Build(builder, switch) == [builder |-> builder, switch |-> switch]
Pass(builder) == Build(builder, "asked")

\* A method: its command, what it returns of the answer, and the switch it
\* puts into the command: its caller's ("asked": Subscribe or Unsubscribe,
\* "flag": with updates or without), a fixed one or none.
Method(command, returns, switch) ==
  [command |-> command, returns |-> returns, switch |-> switch]

First(command) == Method(command, "first", "none")
All(command) == Method(command, "all", "none")
FirstAsked(command) == Method(command, "first", "asked")
AllAsked(command) == Method(command, "all", "asked")
FirstFlag(command) == Method(command, "first", "flag")
AllFlag(command) == Method(command, "all", "flag")
FirstOn(command) == Method(command, "first", "subscribe")
FirstOff(command) == Method(command, "first", "unsubscribe")
FirstUnlessError(command) == Method(command, "accepted", "none")

-----------------------------------------------------------------------------
(* Every plant                                                             *)

SessionCommands == [
  ListSystemInfo |-> Pass("request_rithmic_system_info"),
  Login |-> Pass("request_login"),
  Logout |-> Pass("request_logout")]

\* login is login_with_config; what follows their answers is PlantActor's
SessionMethods == [
  list_system_info |-> First("ListSystemInfo"),
  login |-> FirstUnlessError("Login"),
  disconnect |-> First("Logout")]

-----------------------------------------------------------------------------
(* The ticker plant                                                        *)

TickerDataCommands == [
  Subscribe |-> Pass("request_market_data_update"),
  SubscribeOrderBook |-> Pass("request_depth_by_order_update"),
  RequestDepthByOrderSnapshot |-> Pass("request_depth_by_order_snapshot"),
  SearchSymbols |-> Pass("request_search_symbols"),
  ListExchanges |-> Pass("request_list_exchanges"),
  GetInstrumentByUnderlying |-> Pass("request_get_instrument_by_underlying")]

TickerReferenceCommands == [
  SubscribeByUnderlying |-> Pass("request_market_data_update_by_underlying"),
  GetTickSizeTypeTable |-> Pass("request_give_tick_size_type_table"),
  GetProductCodes |-> Pass("request_product_codes"),
  GetVolumeAtPrice |-> Pass("request_get_volume_at_price"),
  GetAuxilliaryReferenceData |-> Pass("request_auxilliary_reference_data"),
  GetReferenceData |-> Pass("request_reference_data"),
  GetFrontMonthContract |-> Pass("request_front_month_contract"),
  GetSystemGatewayInfo |-> Pass("request_rithmic_system_gateway_info")]

TickerSubscriptionMethods == [
  subscribe |-> FirstOn("Subscribe"),
  subscribe_order_book |-> FirstOn("SubscribeOrderBook"),
  unsubscribe |-> FirstOff("Subscribe"),
  unsubscribe_order_book |-> FirstOff("SubscribeOrderBook"),
  request_depth_by_order_snapshot |-> All("RequestDepthByOrderSnapshot")]

TickerSearchMethods == [
  search_symbols |-> All("SearchSymbols"),
  list_exchanges |-> All("ListExchanges"),
  get_instrument_by_underlying |-> All("GetInstrumentByUnderlying"),
  subscribe_by_underlying |-> FirstAsked("SubscribeByUnderlying"),
  get_tick_size_type_table |-> All("GetTickSizeTypeTable")]

TickerReferenceMethods == [
  get_product_codes |-> All("GetProductCodes"),
  get_volume_at_price |-> All("GetVolumeAtPrice"),
  get_auxilliary_reference_data |-> First("GetAuxilliaryReferenceData"),
  get_reference_data |-> First("GetReferenceData"),
  get_front_month_contract |-> FirstFlag("GetFrontMonthContract"),
  get_system_gateway_info |-> First("GetSystemGatewayInfo")]

-----------------------------------------------------------------------------
(* The order plant                                                         *)

OrderEntryCommands == [
  AccountList |-> Pass("request_account_list"),
  SubscribeOrderUpdates |-> Pass("request_subscribe_for_order_updates"),
  SubscribeBracketUpdates |-> Pass("request_subscribe_to_bracket_updates"),
  PlaceBracketOrder |-> Pass("request_bracket_order"),
  PlaceAdvancedBracketOrder |-> Pass("request_advanced_bracket_order")]

\* mutant: the builders of ModifyStop and ModifyProfit swapped
OrderChangeCommandsSwapped == [
  ModifyOrder |-> Pass("request_modify_order"),
  CancelOrder |-> Pass("request_cancel_order"),
  ModifyStop |-> Pass("request_update_target_bracket_level"),
  ModifyProfit |-> Pass("request_update_stop_bracket_level"),
  ShowOrders |-> Pass("request_show_orders"),
  CancelAllOrders |-> Pass("request_cancel_all_orders"),
  GetAccountRmsInfo |-> Pass("request_account_rms_info"),
  GetProductRmsInfo |-> Pass("request_product_rms_info")]

OrderChangeCommands == [
  ModifyOrder |-> Pass("request_modify_order"),
  CancelOrder |-> Pass("request_cancel_order"),
  ModifyStop |-> Pass("request_update_stop_bracket_level"),
  ModifyProfit |-> Pass("request_update_target_bracket_level"),
  ShowOrders |-> Pass("request_show_orders"),
  CancelAllOrders |-> Pass("request_cancel_all_orders"),
  GetAccountRmsInfo |-> Pass("request_account_rms_info"),
  GetProductRmsInfo |-> Pass("request_product_rms_info")]

OrderHistoryCommands == [
  GetTradeRoutes |-> Pass("request_trade_routes"),
  ShowOrderHistoryDates |-> Pass("request_show_order_history_dates"),
  ShowOrderHistorySummary |-> Pass("request_show_order_history_summary"),
  ShowOrderHistoryDetail |-> Pass("request_show_order_history_detail"),
  ShowOrderHistory |-> Pass("request_show_order_history"),
  PlaceOrder |-> Pass("request_order")]

OrderLinkCommands == [
  PlaceOcoOrder |-> Pass("request_oco_order"),
  ShowBrackets |-> Pass("request_show_brackets"),
  ShowBracketStops |-> Pass("request_show_bracket_stops"),
  ExitPosition |-> Pass("request_exit_position"),
  LinkOrders |-> Pass("request_link_orders"),
  GetEasyToBorrowList |-> Pass("request_easy_to_borrow_list"),
  ModifyOrderReferenceData |-> Pass("request_modify_order_reference_data")]

OrderSessionCommands == [
  GetOrderSessionConfig |-> Pass("request_order_session_config"),
  ReplayExecutions |-> Pass("request_replay_executions"),
  SubscribeAccountRmsUpdates |-> Pass("request_account_rms_updates"),
  GetLoginInfo |-> Pass("request_login_info")]

OrderAgreementCommands == [
  ListUnacceptedAgreements |-> Pass("request_list_unaccepted_agreements"),
  ListAcceptedAgreements |-> Pass("request_list_accepted_agreements"),
  AcceptAgreement |-> Pass("request_accept_agreement"),
  ShowAgreement |-> Pass("request_show_agreement"),
  SetRithmicMrktDataSelfCertStatus |->
    Pass("request_set_rithmic_mrkt_data_self_cert_status"),
  ListExchangePermissions |-> Pass("request_list_exchanges")]

OrderEntryMethods == [
  get_account_list |-> All("AccountList"),
  subscribe_order_updates |-> First("SubscribeOrderUpdates"),
  subscribe_bracket_updates |-> First("SubscribeBracketUpdates"),
  place_bracket_order |-> All("PlaceBracketOrder"),
  place_advanced_bracket_order |-> All("PlaceAdvancedBracketOrder")]

OrderChangeMethods == [
  modify_order |-> All("ModifyOrder"),
  cancel_order |-> All("CancelOrder"),
  adjust_profit |-> First("ModifyProfit"),
  adjust_stop |-> First("ModifyStop"),
  show_orders |-> First("ShowOrders"),
  cancel_all_orders |-> First("CancelAllOrders")]

OrderRmsMethods == [
  get_account_rms_info |-> All("GetAccountRmsInfo"),
  get_product_rms_info |-> All("GetProductRmsInfo"),
  get_trade_routes |-> AllFlag("GetTradeRoutes"),
  show_order_history_dates |-> All("ShowOrderHistoryDates"),
  show_order_history_summary |-> All("ShowOrderHistorySummary"),
  show_order_history_detail |-> First("ShowOrderHistoryDetail")]

OrderBracketMethods == [
  show_order_history |-> All("ShowOrderHistory"),
  place_order |-> All("PlaceOrder"),
  place_oco_order |-> All("PlaceOcoOrder"),
  show_brackets |-> All("ShowBrackets"),
  show_bracket_stops |-> All("ShowBracketStops")]

OrderLinkMethods == [
  exit_position |-> All("ExitPosition"),
  link_orders |-> First("LinkOrders"),
  get_easy_to_borrow_list |-> AllAsked("GetEasyToBorrowList"),
  modify_order_reference_data |-> First("ModifyOrderReferenceData"),
  get_order_session_config |-> First("GetOrderSessionConfig")]

OrderSessionMethods == [
  replay_executions |-> All("ReplayExecutions"),
  subscribe_account_rms_updates |-> FirstAsked("SubscribeAccountRmsUpdates"),
  get_login_info |-> First("GetLoginInfo"),
  list_unaccepted_agreements |-> All("ListUnacceptedAgreements"),
  list_accepted_agreements |-> All("ListAcceptedAgreements"),
  accept_agreement |-> First("AcceptAgreement")]

OrderAgreementMethods == [
  show_agreement |-> All("ShowAgreement"),
  set_rithmic_mrkt_data_self_cert_status |->
    First("SetRithmicMrktDataSelfCertStatus"),
  list_exchange_permissions |-> All("ListExchangePermissions")]

-----------------------------------------------------------------------------
(* The history plant                                                       *)

HistoryCommands == [
  LoadTicks |-> Pass("request_tick_bar_replay"),
  LoadTimeBars |-> Pass("request_time_bar_replay"),
  LoadVolumeProfileMinuteBars |-> Pass("request_volume_profile_minute_bars"),
  ResumeBars |-> Pass("request_resume_bars")]

HistoryUpdateCommands == [
  SubscribeTimeBarUpdates |-> Pass("request_time_bar_update"),
  SubscribeTickBarUpdates |-> Pass("request_tick_bar_update")]

\* load_ticks is load_tick_bars with bars of one tick
HistoryLoadMethods == [
  load_ticks |-> All("LoadTicks"),
  load_tick_bars |-> All("LoadTicks"),
  load_time_bars |-> All("LoadTimeBars")]

HistoryUpdateMethods == [
  load_volume_profile_minute_bars |-> All("LoadVolumeProfileMinuteBars"),
  resume_bars |-> All("ResumeBars"),
  subscribe_time_bar_updates |-> FirstAsked("SubscribeTimeBarUpdates"),
  subscribe_tick_bar_updates |-> FirstAsked("SubscribeTickBarUpdates")]

-----------------------------------------------------------------------------
(* The PnL plant                                                           *)

\* mutant: the arm that unsubscribes copied without its change
PnlCommandsCopied == [
  SubscribePnlUpdates |-> Build("request_pnl_position_updates", "subscribe"),
  PnlPositionSnapshots |-> Pass("request_pnl_position_snapshot"),
  UnsubscribePnlUpdates |-> Build("request_pnl_position_updates", "subscribe")]

PnlCommands == [
  SubscribePnlUpdates |-> Build("request_pnl_position_updates", "subscribe"),
  PnlPositionSnapshots |-> Pass("request_pnl_position_snapshot"),
  UnsubscribePnlUpdates |-> Build("request_pnl_position_updates", "unsubscribe")]

PnlMethods == [
  subscribe_pnl_updates |-> First("SubscribePnlUpdates"),
  pnl_position_snapshots |-> First("PnlPositionSnapshots"),
  unsubscribe_pnl_updates |-> First("UnsubscribePnlUpdates")]

-----------------------------------------------------------------------------
Plant == {"ticker", "order", "history", "pnl"}

\* the arm of handle_command for a command
ticker_command(name) ==
  CASE name \in DOMAIN SessionCommands -> SessionCommands[name]
    [] name \in DOMAIN TickerDataCommands -> TickerDataCommands[name]
    [] name \in DOMAIN TickerReferenceCommands -> TickerReferenceCommands[name]

order_command(name) ==
  CASE name \in DOMAIN SessionCommands -> SessionCommands[name]
    [] name \in DOMAIN OrderEntryCommands -> OrderEntryCommands[name]
    [] name \in DOMAIN OrderChangeCommands -> OrderChangeCommands[name]
    [] name \in DOMAIN OrderHistoryCommands -> OrderHistoryCommands[name]
    [] name \in DOMAIN OrderLinkCommands -> OrderLinkCommands[name]
    [] name \in DOMAIN OrderSessionCommands -> OrderSessionCommands[name]
    [] name \in DOMAIN OrderAgreementCommands -> OrderAgreementCommands[name]

history_command(name) ==
  CASE name \in DOMAIN SessionCommands -> SessionCommands[name]
    [] name \in DOMAIN HistoryCommands -> HistoryCommands[name]
    [] name \in DOMAIN HistoryUpdateCommands -> HistoryUpdateCommands[name]

pnl_command(name) ==
  CASE name \in DOMAIN SessionCommands -> SessionCommands[name]
    [] name \in DOMAIN PnlCommands -> PnlCommands[name]

command(plant, name) ==
  CASE plant = "ticker" -> ticker_command(name)
    [] plant = "order" -> order_command(name)
    [] plant = "history" -> history_command(name)
    [] plant = "pnl" -> pnl_command(name)

\* what a method of a handle does
ticker_method(name) ==
  CASE name \in DOMAIN SessionMethods -> SessionMethods[name]
    [] name \in DOMAIN TickerSubscriptionMethods -> TickerSubscriptionMethods[name]
    [] name \in DOMAIN TickerSearchMethods -> TickerSearchMethods[name]
    [] name \in DOMAIN TickerReferenceMethods -> TickerReferenceMethods[name]

order_method(name) ==
  CASE name \in DOMAIN SessionMethods -> SessionMethods[name]
    [] name \in DOMAIN OrderEntryMethods -> OrderEntryMethods[name]
    [] name \in DOMAIN OrderChangeMethods -> OrderChangeMethods[name]
    [] name \in DOMAIN OrderRmsMethods -> OrderRmsMethods[name]
    [] name \in DOMAIN OrderBracketMethods -> OrderBracketMethods[name]
    [] name \in DOMAIN OrderLinkMethods -> OrderLinkMethods[name]
    [] name \in DOMAIN OrderSessionMethods -> OrderSessionMethods[name]
    [] name \in DOMAIN OrderAgreementMethods -> OrderAgreementMethods[name]

history_method(name) ==
  CASE name \in DOMAIN SessionMethods -> SessionMethods[name]
    [] name \in DOMAIN HistoryLoadMethods -> HistoryLoadMethods[name]
    [] name \in DOMAIN HistoryUpdateMethods -> HistoryUpdateMethods[name]

pnl_method(name) ==
  CASE name \in DOMAIN SessionMethods -> SessionMethods[name]
    [] name \in DOMAIN PnlMethods -> PnlMethods[name]

method(plant, name) ==
  CASE plant = "ticker" -> ticker_method(name)
    [] plant = "order" -> order_method(name)
    [] plant = "history" -> history_method(name)
    [] plant = "pnl" -> pnl_method(name)

Methods == [
  ticker |-> DOMAIN SessionMethods \cup DOMAIN TickerSubscriptionMethods
             \cup DOMAIN TickerSearchMethods \cup DOMAIN TickerReferenceMethods,
  order |-> DOMAIN SessionMethods \cup DOMAIN OrderEntryMethods
            \cup DOMAIN OrderChangeMethods \cup DOMAIN OrderRmsMethods
            \cup DOMAIN OrderBracketMethods \cup DOMAIN OrderLinkMethods
            \cup DOMAIN OrderSessionMethods \cup DOMAIN OrderAgreementMethods,
  history |-> DOMAIN SessionMethods \cup DOMAIN HistoryLoadMethods
              \cup DOMAIN HistoryUpdateMethods,
  pnl |-> DOMAIN SessionMethods \cup DOMAIN PnlMethods]

=============================================================================
