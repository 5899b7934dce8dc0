----------------------------- MODULE SenderApi -----------------------------
(***************************************************************************)
(* RithmicSenderApi: what each request_* builder puts into the message it  *)
(* encodes, as far as a server tells requests apart by it: the template    *)
(* id, the account the message names, and whether it turns a stream of     *)
(* updates on or off.  Prices, symbols and the like are left out; the id   *)
(* drawn into user_msg is RequestHandler's.                                *)
(***************************************************************************)
EXTENDS Naturals

\* which account and which switch a builder writes: its callers', a fixed
\* one or none
Builder(template, names_account, switch) ==
  [template |-> template, names_account |-> names_account, switch |-> switch]

Plain(template) == Builder(template, FALSE, "none")
ForAccount(template) == Builder(template, TRUE, "none")
Feed(template) == Builder(template, FALSE, "asked")
AccountFeed(template) == Builder(template, TRUE, "asked")
Subscribing(template) == Builder(template, TRUE, "subscribe")

SessionRequests == [
  request_rithmic_system_info |-> Plain(16),
  request_login |-> Plain(10),
  request_logout |-> Plain(12),
  request_heartbeat |-> Plain(18),
  request_rithmic_system_gateway_info |-> Plain(20)]

MarketDataRequests == [
  request_market_data_update |-> Feed(100),
  request_get_instrument_by_underlying |-> Plain(102),
  request_market_data_update_by_underlying |-> Feed(105),
  request_give_tick_size_type_table |-> Plain(107)]

ReferenceRequests == [
  request_product_codes |-> Plain(111),
  request_get_volume_at_price |-> Plain(119),
  request_auxilliary_reference_data |-> Plain(121),
  request_login_info |-> Plain(300),
  request_account_list |-> Plain(302)]

\* request_bracket_order fills in a RithmicAdvancedBracketOrder and calls
\* request_advanced_bracket_order
OrderRequests == [
  request_subscribe_for_order_updates |-> Subscribing(308),
  request_subscribe_to_bracket_updates |-> Subscribing(336),
  request_order |-> ForAccount(312),
  request_bracket_order |-> ForAccount(330)]

OrderChangeRequests == [
  request_advanced_bracket_order |-> ForAccount(330),
  request_modify_order |-> ForAccount(314),
  request_cancel_order |-> ForAccount(316)]

BracketRequests == [
  request_exit_position |-> ForAccount(3504),
  request_update_target_bracket_level |-> ForAccount(332),
  request_update_stop_bracket_level |-> ForAccount(334),
  request_show_brackets |-> ForAccount(338),
  request_show_bracket_stops |-> ForAccount(340),
  request_show_orders |-> ForAccount(320)]

PnlRequests == [
  request_pnl_position_updates |-> AccountFeed(400),
  request_pnl_position_snapshot |-> ForAccount(402)]

HistoryRequests == [
  request_tick_bar_replay |-> Plain(206),
  request_time_bar_replay |-> Plain(202),
  request_volume_profile_minute_bars |-> Plain(208),
  request_resume_bars |-> Plain(210)]

\* 304 names the account's fcm and ib, not the account
DepthAndRmsRequests == [
  request_depth_by_order_snapshot |-> Plain(115),
  request_depth_by_order_update |-> Feed(117),
  request_cancel_all_orders |-> ForAccount(346),
  request_account_rms_info |-> Plain(304),
  request_product_rms_info |-> ForAccount(306),
  request_trade_routes |-> Feed(310)]

LookupRequests == [
  request_search_symbols |-> Plain(109),
  request_list_exchanges |-> Plain(342),
  request_show_order_history_dates |-> Plain(318),
  request_show_order_history_summary |-> ForAccount(324),
  request_show_order_history_detail |-> ForAccount(326)]

ContractRequests == [
  request_show_order_history |-> ForAccount(322),
  request_reference_data |-> Plain(14),
  request_front_month_contract |-> Feed(113),
  request_time_bar_update |-> Feed(200)]

UpdateRequests == [
  request_tick_bar_update |-> Feed(204),
  request_account_rms_updates |-> AccountFeed(3508),
  request_oco_order |-> ForAccount(328)]

LinkRequests == [
  request_link_orders |-> ForAccount(344),
  request_easy_to_borrow_list |-> Feed(348),
  request_modify_order_reference_data |-> ForAccount(3500),
  request_order_session_config |-> Plain(3502)]

AgreementRequests == [
  request_replay_executions |-> ForAccount(3506),
  request_list_unaccepted_agreements |-> Plain(500),
  request_list_accepted_agreements |-> Plain(502),
  request_accept_agreement |-> Plain(504),
  request_show_agreement |-> Plain(506),
  request_set_rithmic_mrkt_data_self_cert_status |-> Plain(508)]

builder(name) ==
  CASE name \in DOMAIN SessionRequests -> SessionRequests[name]
    [] name \in DOMAIN MarketDataRequests -> MarketDataRequests[name]
    [] name \in DOMAIN ReferenceRequests -> ReferenceRequests[name]
    [] name \in DOMAIN OrderRequests -> OrderRequests[name]
    [] name \in DOMAIN OrderChangeRequests -> OrderChangeRequests[name]
    [] name \in DOMAIN BracketRequests -> BracketRequests[name]
    [] name \in DOMAIN PnlRequests -> PnlRequests[name]
    [] name \in DOMAIN HistoryRequests -> HistoryRequests[name]
    [] name \in DOMAIN DepthAndRmsRequests -> DepthAndRmsRequests[name]
    [] name \in DOMAIN LookupRequests -> LookupRequests[name]
    [] name \in DOMAIN ContractRequests -> ContractRequests[name]
    [] name \in DOMAIN UpdateRequests -> UpdateRequests[name]
    [] name \in DOMAIN LinkRequests -> LinkRequests[name]
    [] name \in DOMAIN AgreementRequests -> AgreementRequests[name]

NoAccount == "NoAccount"

\* the message a builder encodes for an account and a switch its caller asks
Built(name, account, asked) ==
  LET b == builder(name)
  IN [template |-> b.template,
      account |-> IF b.names_account THEN account ELSE NoAccount,
      switch |-> IF b.switch = "asked" THEN asked ELSE b.switch]

=============================================================================
