--------------------------- MODULE DispatchRoutes ---------------------------
(***************************************************************************)
(* The tables of Dispatch fit together: for every method of every plant,   *)
(* command, builder, template and arm lead to the message and the feed     *)
(* that the method's documentation promises, and the updates of a feed     *)
(* reach the arms of its messages.  Each table is cut into groups, so the  *)
(* first lemmas look an entry up in its group and the others check one     *)
(* group of methods each.                                                  *)
(***************************************************************************)
EXTENDS Dispatch, TLAPS

BuilderOf(p, m) == command(p, method(p, m).command).builder

Template(p, m) == builder(BuilderOf(p, m)).template

\* the switch in the request of a method whose command carries s
Switched(p, m, s) ==
  LET build == command(p, method(p, m).command)
  IN IF builder(build.builder).switch # "asked"
     THEN builder(build.builder).switch
     ELSE IF build.switch = "asked" THEN s ELSE build.switch

\* the answer of a method arrives at the arm of the promised message, and a
\* method that gets it in parts returns them all
AnswerFits(p, m) ==
  /\ m \in DOMAIN Promised
  /\ Promised[m] \notin {"ResponseHeartbeat", "Unknown"}
  /\ Template(p, m) \in Nat \ {0}
  /\ \/ /\ arm(Template(p, m) + 1) = Parts(Promised[m])
        /\ method(p, m).returns = "all"
     \/ /\ arm(Template(p, m) + 1) \in
             {Single(Promised[m]), LastPart(Promised[m])}
        /\ Template(p, m) + 1 \notin InParts

\* the request of a method turns the promised feed on or off, for the
\* promised account, or no feed at all
FeedFits(p, m) ==
  IF m \notin DOMAIN FeedPromised THEN FeedOf(Template(p, m)) = NoFeed
  ELSE LET q == FeedPromised[m] IN
       /\ q.feed # NoFeed /\ q.feed \in DOMAIN UpdatesOf
       /\ FeedOf(Template(p, m)) = q.feed
       /\ builder(BuilderOf(p, m)).names_account <=> q.own
       /\ \A s \in Switch :
            method(p, m).switch \in {s, "asked", "flag"} =>
              Switched(p, m, s) = IF q.switch = "asked" THEN s ELSE q.switch

Fits(p, m) == AnswerFits(p, m) /\ FeedFits(p, m)

-----------------------------------------------------------------------------
(* Looking an entry up in its group                                        *)

\* the builder of a request
LEMMA BuilderRows ==
  /\ \A n \in DOMAIN SessionRequests : builder(n) = SessionRequests[n]
  /\ \A n \in DOMAIN MarketDataRequests : builder(n) = MarketDataRequests[n]
  /\ \A n \in DOMAIN ReferenceRequests : builder(n) = ReferenceRequests[n]
  /\ \A n \in DOMAIN OrderRequests : builder(n) = OrderRequests[n]
  /\ \A n \in DOMAIN OrderChangeRequests : builder(n) = OrderChangeRequests[n]
  /\ \A n \in DOMAIN BracketRequests : builder(n) = BracketRequests[n]
  /\ \A n \in DOMAIN PnlRequests : builder(n) = PnlRequests[n]
  /\ \A n \in DOMAIN HistoryRequests : builder(n) = HistoryRequests[n]
  /\ \A n \in DOMAIN DepthAndRmsRequests : builder(n) = DepthAndRmsRequests[n]
  /\ \A n \in DOMAIN LookupRequests : builder(n) = LookupRequests[n]
  /\ \A n \in DOMAIN ContractRequests : builder(n) = ContractRequests[n]
  /\ \A n \in DOMAIN UpdateRequests : builder(n) = UpdateRequests[n]
  /\ \A n \in DOMAIN LinkRequests : builder(n) = LinkRequests[n]
  /\ \A n \in DOMAIN AgreementRequests : builder(n) = AgreementRequests[n]
<1> USE DEF builder, SessionRequests, MarketDataRequests, ReferenceRequests,
              OrderRequests, OrderChangeRequests, BracketRequests, PnlRequests,
              HistoryRequests, DepthAndRmsRequests, LookupRequests,
              ContractRequests, UpdateRequests, LinkRequests, AgreementRequests
<1>1. \A n \in DOMAIN SessionRequests : builder(n) = SessionRequests[n]
  OBVIOUS
<1>2. \A n \in DOMAIN MarketDataRequests : builder(n) = MarketDataRequests[n]
  OBVIOUS
<1>3. \A n \in DOMAIN ReferenceRequests : builder(n) = ReferenceRequests[n]
  OBVIOUS
<1>4. \A n \in DOMAIN OrderRequests : builder(n) = OrderRequests[n]
  OBVIOUS
<1>5. \A n \in DOMAIN OrderChangeRequests : builder(n) = OrderChangeRequests[n]
  OBVIOUS
<1>6. \A n \in DOMAIN BracketRequests : builder(n) = BracketRequests[n]
  OBVIOUS
<1>7. \A n \in DOMAIN PnlRequests : builder(n) = PnlRequests[n]
  OBVIOUS
<1>8. \A n \in DOMAIN HistoryRequests : builder(n) = HistoryRequests[n]
  OBVIOUS
<1>9. \A n \in DOMAIN DepthAndRmsRequests : builder(n) = DepthAndRmsRequests[n]
  OBVIOUS
<1>10. \A n \in DOMAIN LookupRequests : builder(n) = LookupRequests[n]
  OBVIOUS
<1>11. \A n \in DOMAIN ContractRequests : builder(n) = ContractRequests[n]
  OBVIOUS
<1>12. \A n \in DOMAIN UpdateRequests : builder(n) = UpdateRequests[n]
  OBVIOUS
<1>13. \A n \in DOMAIN LinkRequests : builder(n) = LinkRequests[n]
  OBVIOUS
<1>14. \A n \in DOMAIN AgreementRequests : builder(n) = AgreementRequests[n]
  OBVIOUS
<1> HIDE DEF builder, SessionRequests, MarketDataRequests, ReferenceRequests,
             OrderRequests, OrderChangeRequests, BracketRequests, PnlRequests,
             HistoryRequests, DepthAndRmsRequests, LookupRequests,
             ContractRequests, UpdateRequests, LinkRequests, AgreementRequests
<1> QED BY <1>1, <1>2, <1>3, <1>4, <1>5, <1>6, <1>7, <1>8, <1>9, <1>10, <1>11,
           <1>12, <1>13, <1>14

\* the arms of handle_command of the ticker plant
LEMMA TickerCommandRows ==
  /\ \A n \in DOMAIN SessionCommands :
       command("ticker", n) = SessionCommands[n]
  /\ \A n \in DOMAIN TickerDataCommands :
       command("ticker", n) = TickerDataCommands[n]
  /\ \A n \in DOMAIN TickerReferenceCommands :
       command("ticker", n) = TickerReferenceCommands[n]
  BY DEF command, ticker_command, SessionCommands, TickerDataCommands,
         TickerReferenceCommands

\* the arms of handle_command of the order plant
LEMMA OrderCommandRows ==
  /\ \A n \in DOMAIN SessionCommands :
       command("order", n) = SessionCommands[n]
  /\ \A n \in DOMAIN OrderEntryCommands :
       command("order", n) = OrderEntryCommands[n]
  /\ \A n \in DOMAIN OrderChangeCommands :
       command("order", n) = OrderChangeCommands[n]
  /\ \A n \in DOMAIN OrderHistoryCommands :
       command("order", n) = OrderHistoryCommands[n]
  /\ \A n \in DOMAIN OrderLinkCommands :
       command("order", n) = OrderLinkCommands[n]
  /\ \A n \in DOMAIN OrderSessionCommands :
       command("order", n) = OrderSessionCommands[n]
  /\ \A n \in DOMAIN OrderAgreementCommands :
       command("order", n) = OrderAgreementCommands[n]
  BY DEF command, order_command, SessionCommands, OrderEntryCommands,
         OrderChangeCommands, OrderHistoryCommands, OrderLinkCommands,
         OrderSessionCommands, OrderAgreementCommands

\* the arms of handle_command of the history plant
LEMMA HistoryCommandRows ==
  /\ \A n \in DOMAIN SessionCommands :
       command("history", n) = SessionCommands[n]
  /\ \A n \in DOMAIN HistoryCommands :
       command("history", n) = HistoryCommands[n]
  /\ \A n \in DOMAIN HistoryUpdateCommands :
       command("history", n) = HistoryUpdateCommands[n]
  BY DEF command, history_command, SessionCommands, HistoryCommands,
         HistoryUpdateCommands

\* the arms of handle_command of the pnl plant
LEMMA PnlCommandRows ==
  /\ \A n \in DOMAIN SessionCommands :
       command("pnl", n) = SessionCommands[n]
  /\ \A n \in DOMAIN PnlCommands :
       command("pnl", n) = PnlCommands[n]
  BY DEF command, pnl_command, SessionCommands, PnlCommands

\* the methods of the handle of the ticker plant
LEMMA TickerMethodRows ==
  /\ \A m \in DOMAIN SessionMethods :
       method("ticker", m) = SessionMethods[m]
  /\ \A m \in DOMAIN TickerSubscriptionMethods :
       method("ticker", m) = TickerSubscriptionMethods[m]
  /\ \A m \in DOMAIN TickerSearchMethods :
       method("ticker", m) = TickerSearchMethods[m]
  /\ \A m \in DOMAIN TickerReferenceMethods :
       method("ticker", m) = TickerReferenceMethods[m]
  BY DEF method, ticker_method, SessionMethods, TickerSubscriptionMethods,
         TickerSearchMethods, TickerReferenceMethods

\* the methods of the handle of the order plant
LEMMA OrderMethodRows ==
  /\ \A m \in DOMAIN SessionMethods :
       method("order", m) = SessionMethods[m]
  /\ \A m \in DOMAIN OrderEntryMethods :
       method("order", m) = OrderEntryMethods[m]
  /\ \A m \in DOMAIN OrderChangeMethods :
       method("order", m) = OrderChangeMethods[m]
  /\ \A m \in DOMAIN OrderRmsMethods :
       method("order", m) = OrderRmsMethods[m]
  /\ \A m \in DOMAIN OrderBracketMethods :
       method("order", m) = OrderBracketMethods[m]
  /\ \A m \in DOMAIN OrderLinkMethods :
       method("order", m) = OrderLinkMethods[m]
  /\ \A m \in DOMAIN OrderSessionMethods :
       method("order", m) = OrderSessionMethods[m]
  /\ \A m \in DOMAIN OrderAgreementMethods :
       method("order", m) = OrderAgreementMethods[m]
  BY SMTT(30) DEF method, order_method, SessionMethods, OrderEntryMethods,
         OrderChangeMethods, OrderRmsMethods, OrderBracketMethods,
         OrderLinkMethods, OrderSessionMethods, OrderAgreementMethods

\* the methods of the handle of the history plant
LEMMA HistoryMethodRows ==
  /\ \A m \in DOMAIN SessionMethods :
       method("history", m) = SessionMethods[m]
  /\ \A m \in DOMAIN HistoryLoadMethods :
       method("history", m) = HistoryLoadMethods[m]
  /\ \A m \in DOMAIN HistoryUpdateMethods :
       method("history", m) = HistoryUpdateMethods[m]
  BY DEF method, history_method, SessionMethods, HistoryLoadMethods,
         HistoryUpdateMethods

\* the methods of the handle of the pnl plant
LEMMA PnlMethodRows ==
  /\ \A m \in DOMAIN SessionMethods :
       method("pnl", m) = SessionMethods[m]
  /\ \A m \in DOMAIN PnlMethods :
       method("pnl", m) = PnlMethods[m]
  BY DEF method, pnl_method, SessionMethods, PnlMethods

\* the table of the arms is the match
LEMMA ArmsMatch == \A t \in Nat : t <= 3509 => arm(t) = matched(t)
<1>1. MaxTemplate = 3509
  BY DEF MaxTemplate
<1>2. ASSUME NEW t \in Nat, t <= MaxTemplate PROVE arm(t) = matched(t)
  BY <1>2 DEF arm, arms
<1> QED BY <1>1, <1>2

\* the arms of buf_to_message
LEMMA ArmRows ==
  /\ \A t \in 11..77 : arm(t) = SessionArms(t)
  /\ \A t \in 101..110 : arm(t) = MarketDataArms(t)
  /\ \A t \in 112..122 : arm(t) = ReferenceDataArms(t)
  /\ \A t \in 150..159 : arm(t) = MarketUpdateArms(t)
  /\ \A t \in 160..163 : arm(t) = DepthUpdateArms(t)
  /\ \A t \in 201..251 : arm(t) = HistoryArms(t)
  /\ \A t \in 301..311 : arm(t) = AccountArms(t)
  /\ \A t \in 313..329 : arm(t) = OrderArms(t)
  /\ \A t \in 331..341 : arm(t) = BracketArms(t)
  /\ \A t \in 343..349 : arm(t) = PermissionArms(t)
  /\ \A t \in 350..356 : arm(t) = OrderUpdateArms(t)
  /\ \A t \in 401..451 : arm(t) = PnlArms(t)
  /\ \A t \in 501..509 : arm(t) = AgreementArms(t)
  /\ \A t \in 3501..3509 : arm(t) = ExtensionArms(t)
<1>1. /\ \A t \in 11..77 : matched(t) = SessionArms(t)
      /\ \A t \in 101..110 : matched(t) = MarketDataArms(t)
      /\ \A t \in 112..122 : matched(t) = ReferenceDataArms(t)
      /\ \A t \in 150..159 : matched(t) = MarketUpdateArms(t)
      /\ \A t \in 160..163 : matched(t) = DepthUpdateArms(t)
      /\ \A t \in 201..251 : matched(t) = HistoryArms(t)
      /\ \A t \in 301..311 : matched(t) = AccountArms(t)
      /\ \A t \in 313..329 : matched(t) = OrderArms(t)
      /\ \A t \in 331..341 : matched(t) = BracketArms(t)
      /\ \A t \in 343..349 : matched(t) = PermissionArms(t)
      /\ \A t \in 350..356 : matched(t) = OrderUpdateArms(t)
      /\ \A t \in 401..451 : matched(t) = PnlArms(t)
      /\ \A t \in 501..509 : matched(t) = AgreementArms(t)
      /\ \A t \in 3501..3509 : matched(t) = ExtensionArms(t)
  BY DEF matched
<1> QED BY <1>1, ArmsMatch

\* the feeds a request turns on or off
LEMMA FeedRows ==
  /\ FeedOf(100) = "market_data"
  /\ FeedOf(105) = "by_underlying"
  /\ FeedOf(113) = "front_month"
  /\ FeedOf(117) = "order_book"
  /\ FeedOf(200) = "time_bars"
  /\ FeedOf(204) = "tick_bars"
  /\ FeedOf(308) = "orders"
  /\ FeedOf(310) = "trade_routes"
  /\ FeedOf(336) = "brackets"
  /\ FeedOf(348) = "easy_to_borrow"
  /\ FeedOf(3508) = "account_rms"
  /\ FeedOf(400) = "pnl"
  /\ \A t : t \notin {100, 105, 113, 117, 200, 204, 308, 310, 336, 348, 3508,
                    400} => FeedOf(t) = "NoFeed"
  BY DEF FeedOf, NoFeed

-----------------------------------------------------------------------------
(* The methods, group by group                                             *)

\* the session methods every handle has, at the ticker plant
LEMMA TickerCommonFit ==
  \A m \in DOMAIN SessionMethods : Fits("ticker", m)
<1> USE DEF SessionMethods, Method, Build, Builder
<1>1. /\ Template("ticker", "list_system_info") = 16
      /\ Template("ticker", "login") = 10
      /\ Template("ticker", "disconnect") = 12
  BY BuilderRows, TickerCommandRows, TickerMethodRows
     DEF Template, BuilderOf, SessionCommands, SessionRequests, First, Pass,
         Plain, FirstUnlessError
<1>2. \A m \in DOMAIN SessionMethods : AnswerFits("ticker", m)
  BY <1>1, TickerMethodRows, ArmRows
     DEF AnswerFits, Promised, InParts, SessionArms, First, FirstUnlessError
<1>3. \A m \in DOMAIN SessionMethods :
        m \notin DOMAIN FeedPromised => FeedFits("ticker", m)
  BY <1>1, FeedRows DEF FeedFits, FeedPromised, NoFeed
<1> QED BY <1>2, <1>3 DEF Fits, FeedPromised

\* the subscriptions of the ticker plant
LEMMA TickerSubscriptionFit ==
  \A m \in DOMAIN TickerSubscriptionMethods : Fits("ticker", m)
<1> USE DEF TickerSubscriptionMethods, Method, Build, Builder
<1>1. /\ Template("ticker", "subscribe") = 100
      /\ Template("ticker", "subscribe_order_book") = 117
      /\ Template("ticker", "unsubscribe") = 100
      /\ Template("ticker", "unsubscribe_order_book") = 117
      /\ Template("ticker", "request_depth_by_order_snapshot") = 115
  BY BuilderRows, TickerCommandRows, TickerMethodRows
     DEF Template, BuilderOf, TickerDataCommands, MarketDataRequests, FirstOn,
         Pass, Feed, DepthAndRmsRequests, FirstOff, All, Plain
<1>2. \A m \in DOMAIN TickerSubscriptionMethods : AnswerFits("ticker", m)
  BY <1>1, TickerMethodRows, ArmRows
     DEF AnswerFits, Promised, InParts, MarketDataArms, FirstOn,
         ReferenceDataArms, FirstOff, All
<1>3. \A m \in DOMAIN TickerSubscriptionMethods :
        m \notin DOMAIN FeedPromised => FeedFits("ticker", m)
  BY <1>1, FeedRows DEF FeedFits, FeedPromised, NoFeed
<1>4. FeedFits("ticker", "subscribe")
  BY <1>1, FeedRows, BuilderRows, TickerCommandRows, TickerMethodRows
     DEF FeedFits, FeedPromised, NoFeed, UpdatesOf, Switched, Switch,
         BuilderOf, TickerDataCommands, MarketDataRequests, FirstOn, Pass, Feed
<1>5. FeedFits("ticker", "subscribe_order_book")
  BY <1>1, FeedRows, BuilderRows, TickerCommandRows, TickerMethodRows
     DEF FeedFits, FeedPromised, NoFeed, UpdatesOf, Switched, Switch,
         BuilderOf, TickerDataCommands, DepthAndRmsRequests, FirstOn, Pass,
         Feed
<1>6. FeedFits("ticker", "unsubscribe")
  BY <1>1, FeedRows, BuilderRows, TickerCommandRows, TickerMethodRows
     DEF FeedFits, FeedPromised, NoFeed, UpdatesOf, Switched, Switch,
         BuilderOf, TickerDataCommands, MarketDataRequests, FirstOff, Pass,
         Feed
<1>7. FeedFits("ticker", "unsubscribe_order_book")
  BY <1>1, FeedRows, BuilderRows, TickerCommandRows, TickerMethodRows
     DEF FeedFits, FeedPromised, NoFeed, UpdatesOf, Switched, Switch,
         BuilderOf, TickerDataCommands, DepthAndRmsRequests, FirstOff, Pass,
         Feed
<1> QED BY <1>2, <1>3, <1>4, <1>5, <1>6, <1>7 DEF Fits, FeedPromised

\* its searches and lists
LEMMA TickerSearchFit ==
  \A m \in DOMAIN TickerSearchMethods : Fits("ticker", m)
<1> USE DEF TickerSearchMethods, Method, Build, Builder
<1>1. /\ Template("ticker", "search_symbols") = 109
      /\ Template("ticker", "list_exchanges") = 342
      /\ Template("ticker", "get_instrument_by_underlying") = 102
      /\ Template("ticker", "subscribe_by_underlying") = 105
      /\ Template("ticker", "get_tick_size_type_table") = 107
  BY BuilderRows, TickerCommandRows, TickerMethodRows
     DEF Template, BuilderOf, TickerDataCommands, LookupRequests, All, Pass,
         Plain, MarketDataRequests, TickerReferenceCommands, FirstAsked, Feed
<1>2. \A m \in DOMAIN TickerSearchMethods : AnswerFits("ticker", m)
  BY <1>1, TickerMethodRows, ArmRows
     DEF AnswerFits, Promised, InParts, MarketDataArms, All, PermissionArms,
         FirstAsked
<1>3. \A m \in DOMAIN TickerSearchMethods :
        m \notin DOMAIN FeedPromised => FeedFits("ticker", m)
  BY <1>1, FeedRows DEF FeedFits, FeedPromised, NoFeed
<1>4. FeedFits("ticker", "subscribe_by_underlying")
  BY <1>1, FeedRows, BuilderRows, TickerCommandRows, TickerMethodRows
     DEF FeedFits, FeedPromised, NoFeed, UpdatesOf, Switched, Switch,
         BuilderOf, TickerReferenceCommands, MarketDataRequests, FirstAsked,
         Pass, Feed
<1> QED BY <1>2, <1>3, <1>4 DEF Fits, FeedPromised

\* its reference data
LEMMA TickerReferenceFit ==
  \A m \in DOMAIN TickerReferenceMethods : Fits("ticker", m)
<1> USE DEF TickerReferenceMethods, Method, Build, Builder
<1>1. /\ Template("ticker", "get_product_codes") = 111
      /\ Template("ticker", "get_volume_at_price") = 119
      /\ Template("ticker", "get_auxilliary_reference_data") = 121
      /\ Template("ticker", "get_reference_data") = 14
      /\ Template("ticker", "get_front_month_contract") = 113
      /\ Template("ticker", "get_system_gateway_info") = 20
  BY BuilderRows, TickerCommandRows, TickerMethodRows
     DEF Template, BuilderOf, TickerReferenceCommands, ReferenceRequests, All,
         Pass, Plain, First, ContractRequests, FirstFlag, Feed, SessionRequests
<1>2. \A m \in DOMAIN TickerReferenceMethods : AnswerFits("ticker", m)
  BY <1>1, TickerMethodRows, ArmRows
     DEF AnswerFits, Promised, InParts, ReferenceDataArms, All, First,
         SessionArms, FirstFlag
<1>3. \A m \in DOMAIN TickerReferenceMethods :
        m \notin DOMAIN FeedPromised => FeedFits("ticker", m)
  BY <1>1, FeedRows DEF FeedFits, FeedPromised, NoFeed
<1>4. FeedFits("ticker", "get_front_month_contract")
  BY <1>1, FeedRows, BuilderRows, TickerCommandRows, TickerMethodRows
     DEF FeedFits, FeedPromised, NoFeed, UpdatesOf, Switched, Switch,
         BuilderOf, TickerReferenceCommands, ContractRequests, FirstFlag, Pass,
         Feed
<1> QED BY <1>2, <1>3, <1>4 DEF Fits, FeedPromised

\* the session methods at the order plant
LEMMA OrderCommonFit ==
  \A m \in DOMAIN SessionMethods : Fits("order", m)
<1> USE DEF SessionMethods, Method, Build, Builder
<1>1. /\ Template("order", "list_system_info") = 16
      /\ Template("order", "login") = 10
      /\ Template("order", "disconnect") = 12
  BY BuilderRows, OrderCommandRows, OrderMethodRows
     DEF Template, BuilderOf, SessionCommands, SessionRequests, First, Pass,
         Plain, FirstUnlessError
<1>2. \A m \in DOMAIN SessionMethods : AnswerFits("order", m)
  BY <1>1, OrderMethodRows, ArmRows
     DEF AnswerFits, Promised, InParts, SessionArms, First, FirstUnlessError
<1>3. \A m \in DOMAIN SessionMethods :
        m \notin DOMAIN FeedPromised => FeedFits("order", m)
  BY <1>1, FeedRows DEF FeedFits, FeedPromised, NoFeed
<1> QED BY <1>2, <1>3 DEF Fits, FeedPromised

\* entering orders and their subscriptions
LEMMA OrderEntryFit ==
  \A m \in DOMAIN OrderEntryMethods : Fits("order", m)
<1> USE DEF OrderEntryMethods, Method, Build, Builder
<1>1. /\ Template("order", "get_account_list") = 302
      /\ Template("order", "subscribe_order_updates") = 308
      /\ Template("order", "subscribe_bracket_updates") = 336
      /\ Template("order", "place_bracket_order") = 330
      /\ Template("order", "place_advanced_bracket_order") = 330
  BY BuilderRows, OrderCommandRows, OrderMethodRows
     DEF Template, BuilderOf, OrderEntryCommands, ReferenceRequests, All, Pass,
         Plain, OrderRequests, First, Subscribing, ForAccount,
         OrderChangeRequests
<1>2. \A m \in DOMAIN OrderEntryMethods : AnswerFits("order", m)
  BY <1>1, OrderMethodRows, ArmRows
     DEF AnswerFits, Promised, InParts, AccountArms, All, First, BracketArms
<1>3. \A m \in DOMAIN OrderEntryMethods :
        m \notin DOMAIN FeedPromised => FeedFits("order", m)
  BY <1>1, FeedRows DEF FeedFits, FeedPromised, NoFeed
<1>4. FeedFits("order", "subscribe_order_updates")
  BY <1>1, FeedRows, BuilderRows, OrderCommandRows, OrderMethodRows
     DEF FeedFits, FeedPromised, NoFeed, UpdatesOf, Switched, Switch,
         BuilderOf, OrderEntryCommands, OrderRequests, First, Pass, Subscribing
<1>5. FeedFits("order", "subscribe_bracket_updates")
  BY <1>1, FeedRows, BuilderRows, OrderCommandRows, OrderMethodRows
     DEF FeedFits, FeedPromised, NoFeed, UpdatesOf, Switched, Switch,
         BuilderOf, OrderEntryCommands, OrderRequests, First, Pass, Subscribing
<1> QED BY <1>2, <1>3, <1>4, <1>5 DEF Fits, FeedPromised

\* changing and cancelling orders
LEMMA OrderChangeFit ==
  \A m \in DOMAIN OrderChangeMethods : Fits("order", m)
<1> USE DEF OrderChangeMethods, Method, Build, Builder
<1>1. /\ Template("order", "modify_order") = 314
      /\ Template("order", "cancel_order") = 316
      /\ Template("order", "adjust_profit") = 332
      /\ Template("order", "adjust_stop") = 334
      /\ Template("order", "show_orders") = 320
      /\ Template("order", "cancel_all_orders") = 346
  BY BuilderRows, OrderCommandRows, OrderMethodRows
     DEF Template, BuilderOf, OrderChangeCommands, OrderChangeRequests, All,
         Pass, ForAccount, BracketRequests, First, DepthAndRmsRequests
<1>2. \A m \in DOMAIN OrderChangeMethods : AnswerFits("order", m)
  BY <1>1, OrderMethodRows, ArmRows
     DEF AnswerFits, Promised, InParts, OrderArms, All, BracketArms, First,
         PermissionArms
<1>3. \A m \in DOMAIN OrderChangeMethods :
        m \notin DOMAIN FeedPromised => FeedFits("order", m)
  BY <1>1, FeedRows DEF FeedFits, FeedPromised, NoFeed
<1> QED BY <1>2, <1>3 DEF Fits, FeedPromised

\* accounts, limits, routes and the order history
LEMMA OrderRmsFit ==
  \A m \in DOMAIN OrderRmsMethods : Fits("order", m)
<1> USE DEF OrderRmsMethods, Method, Build, Builder
<1>1. /\ Template("order", "get_account_rms_info") = 304
      /\ Template("order", "get_product_rms_info") = 306
      /\ Template("order", "get_trade_routes") = 310
      /\ Template("order", "show_order_history_dates") = 318
      /\ Template("order", "show_order_history_summary") = 324
      /\ Template("order", "show_order_history_detail") = 326
  BY BuilderRows, OrderCommandRows, OrderMethodRows
     DEF Template, BuilderOf, OrderChangeCommands, DepthAndRmsRequests, All,
         Pass, Plain, ForAccount, OrderHistoryCommands, AllFlag, Feed,
         LookupRequests, First
<1>2. \A m \in DOMAIN OrderRmsMethods : AnswerFits("order", m)
  BY <1>1, OrderMethodRows, ArmRows
     DEF AnswerFits, Promised, InParts, AccountArms, All, AllFlag, OrderArms,
         First
<1>3. \A m \in DOMAIN OrderRmsMethods :
        m \notin DOMAIN FeedPromised => FeedFits("order", m)
  BY <1>1, FeedRows DEF FeedFits, FeedPromised, NoFeed
<1>4. FeedFits("order", "get_trade_routes")
  BY <1>1, FeedRows, BuilderRows, OrderCommandRows, OrderMethodRows
     DEF FeedFits, FeedPromised, NoFeed, UpdatesOf, Switched, Switch,
         BuilderOf, OrderHistoryCommands, DepthAndRmsRequests, AllFlag, Pass,
         Feed
<1> QED BY <1>2, <1>3, <1>4 DEF Fits, FeedPromised

\* brackets
LEMMA OrderBracketFit ==
  \A m \in DOMAIN OrderBracketMethods : Fits("order", m)
<1> USE DEF OrderBracketMethods, Method, Build, Builder
<1>1. /\ Template("order", "show_order_history") = 322
      /\ Template("order", "place_order") = 312
      /\ Template("order", "place_oco_order") = 328
      /\ Template("order", "show_brackets") = 338
      /\ Template("order", "show_bracket_stops") = 340
  BY BuilderRows, OrderCommandRows, OrderMethodRows
     DEF Template, BuilderOf, OrderHistoryCommands, ContractRequests, All,
         Pass, ForAccount, OrderRequests, OrderLinkCommands, UpdateRequests,
         BracketRequests
<1>2. \A m \in DOMAIN OrderBracketMethods : AnswerFits("order", m)
  BY <1>1, OrderMethodRows, ArmRows
     DEF AnswerFits, Promised, InParts, OrderArms, All, BracketArms
<1>3. \A m \in DOMAIN OrderBracketMethods :
        m \notin DOMAIN FeedPromised => FeedFits("order", m)
  BY <1>1, FeedRows DEF FeedFits, FeedPromised, NoFeed
<1> QED BY <1>2, <1>3 DEF Fits, FeedPromised

\* links, exits and lists
LEMMA OrderLinkFit ==
  \A m \in DOMAIN OrderLinkMethods : Fits("order", m)
<1> USE DEF OrderLinkMethods, Method, Build, Builder
<1>1. /\ Template("order", "exit_position") = 3504
      /\ Template("order", "link_orders") = 344
      /\ Template("order", "get_easy_to_borrow_list") = 348
      /\ Template("order", "modify_order_reference_data") = 3500
      /\ Template("order", "get_order_session_config") = 3502
  BY BuilderRows, OrderCommandRows, OrderMethodRows
     DEF Template, BuilderOf, OrderLinkCommands, BracketRequests, All, Pass,
         ForAccount, LinkRequests, First, AllAsked, Feed, OrderSessionCommands,
         Plain
<1>2. \A m \in DOMAIN OrderLinkMethods : AnswerFits("order", m)
  BY <1>1, OrderMethodRows, ArmRows
     DEF AnswerFits, Promised, InParts, ExtensionArms, All, PermissionArms,
         First, AllAsked
<1>3. \A m \in DOMAIN OrderLinkMethods :
        m \notin DOMAIN FeedPromised => FeedFits("order", m)
  BY <1>1, FeedRows DEF FeedFits, FeedPromised, NoFeed
<1>4. FeedFits("order", "get_easy_to_borrow_list")
  BY <1>1, FeedRows, BuilderRows, OrderCommandRows, OrderMethodRows
     DEF FeedFits, FeedPromised, NoFeed, UpdatesOf, Switched, Switch,
         BuilderOf, OrderLinkCommands, LinkRequests, AllAsked, Pass, Feed
<1> QED BY <1>2, <1>3, <1>4 DEF Fits, FeedPromised

\* order sessions and replays
LEMMA OrderSessionFit ==
  \A m \in DOMAIN OrderSessionMethods : Fits("order", m)
<1> USE DEF OrderSessionMethods, Method, Build, Builder
<1>1. /\ Template("order", "replay_executions") = 3506
      /\ Template("order", "subscribe_account_rms_updates") = 3508
      /\ Template("order", "get_login_info") = 300
      /\ Template("order", "list_unaccepted_agreements") = 500
      /\ Template("order", "list_accepted_agreements") = 502
      /\ Template("order", "accept_agreement") = 504
  BY BuilderRows, OrderCommandRows, OrderMethodRows
     DEF Template, BuilderOf, OrderSessionCommands, AgreementRequests, All,
         Pass, ForAccount, UpdateRequests, FirstAsked, AccountFeed,
         ReferenceRequests, First, Plain, OrderAgreementCommands
<1>2. \A m \in DOMAIN OrderSessionMethods : AnswerFits("order", m)
  BY <1>1, OrderMethodRows, ArmRows
     DEF AnswerFits, Promised, InParts, ExtensionArms, All, FirstAsked,
         AccountArms, First, AgreementArms
<1>3. \A m \in DOMAIN OrderSessionMethods :
        m \notin DOMAIN FeedPromised => FeedFits("order", m)
  BY <1>1, FeedRows DEF FeedFits, FeedPromised, NoFeed
<1>4. FeedFits("order", "subscribe_account_rms_updates")
  BY <1>1, FeedRows, BuilderRows, OrderCommandRows, OrderMethodRows
     DEF FeedFits, FeedPromised, NoFeed, UpdatesOf, Switched, Switch,
         BuilderOf, OrderSessionCommands, UpdateRequests, FirstAsked, Pass,
         AccountFeed
<1> QED BY <1>2, <1>3, <1>4 DEF Fits, FeedPromised

\* agreements
LEMMA OrderAgreementFit ==
  \A m \in DOMAIN OrderAgreementMethods : Fits("order", m)
<1> USE DEF OrderAgreementMethods, Method, Build, Builder
<1>1. /\ Template("order", "show_agreement") = 506
      /\ Template("order", "set_rithmic_mrkt_data_self_cert_status") = 508
      /\ Template("order", "list_exchange_permissions") = 342
  BY BuilderRows, OrderCommandRows, OrderMethodRows
     DEF Template, BuilderOf, OrderAgreementCommands, AgreementRequests, All,
         Pass, Plain, First, LookupRequests
<1>2. \A m \in DOMAIN OrderAgreementMethods : AnswerFits("order", m)
  BY <1>1, OrderMethodRows, ArmRows
     DEF AnswerFits, Promised, InParts, AgreementArms, All, First,
         PermissionArms
<1>3. \A m \in DOMAIN OrderAgreementMethods :
        m \notin DOMAIN FeedPromised => FeedFits("order", m)
  BY <1>1, FeedRows DEF FeedFits, FeedPromised, NoFeed
<1> QED BY <1>2, <1>3 DEF Fits, FeedPromised

\* the session methods at the history plant
LEMMA HistoryCommonFit ==
  \A m \in DOMAIN SessionMethods : Fits("history", m)
<1> USE DEF SessionMethods, Method, Build, Builder
<1>1. /\ Template("history", "list_system_info") = 16
      /\ Template("history", "login") = 10
      /\ Template("history", "disconnect") = 12
  BY BuilderRows, HistoryCommandRows, HistoryMethodRows
     DEF Template, BuilderOf, SessionCommands, SessionRequests, First, Pass,
         Plain, FirstUnlessError
<1>2. \A m \in DOMAIN SessionMethods : AnswerFits("history", m)
  BY <1>1, HistoryMethodRows, ArmRows
     DEF AnswerFits, Promised, InParts, SessionArms, First, FirstUnlessError
<1>3. \A m \in DOMAIN SessionMethods :
        m \notin DOMAIN FeedPromised => FeedFits("history", m)
  BY <1>1, FeedRows DEF FeedFits, FeedPromised, NoFeed
<1> QED BY <1>2, <1>3 DEF Fits, FeedPromised

\* loading ticks and bars
LEMMA HistoryLoadFit ==
  \A m \in DOMAIN HistoryLoadMethods : Fits("history", m)
<1> USE DEF HistoryLoadMethods, Method, Build, Builder
<1>1. /\ Template("history", "load_ticks") = 206
      /\ Template("history", "load_tick_bars") = 206
      /\ Template("history", "load_time_bars") = 202
  BY BuilderRows, HistoryCommandRows, HistoryMethodRows
     DEF Template, BuilderOf, HistoryCommands, HistoryRequests, All, Pass,
         Plain
<1>2. \A m \in DOMAIN HistoryLoadMethods : AnswerFits("history", m)
  BY <1>1, HistoryMethodRows, ArmRows
     DEF AnswerFits, Promised, InParts, HistoryArms, All
<1>3. \A m \in DOMAIN HistoryLoadMethods :
        m \notin DOMAIN FeedPromised => FeedFits("history", m)
  BY <1>1, FeedRows DEF FeedFits, FeedPromised, NoFeed
<1> QED BY <1>2, <1>3 DEF Fits, FeedPromised

\* subscriptions to bars
LEMMA HistoryUpdateFit ==
  \A m \in DOMAIN HistoryUpdateMethods : Fits("history", m)
<1> USE DEF HistoryUpdateMethods, Method, Build, Builder
<1>1. /\ Template("history", "load_volume_profile_minute_bars") = 208
      /\ Template("history", "resume_bars") = 210
      /\ Template("history", "subscribe_time_bar_updates") = 200
      /\ Template("history", "subscribe_tick_bar_updates") = 204
  BY BuilderRows, HistoryCommandRows, HistoryMethodRows
     DEF Template, BuilderOf, HistoryCommands, HistoryRequests, All, Pass,
         Plain, HistoryUpdateCommands, ContractRequests, FirstAsked, Feed,
         UpdateRequests
<1>2. \A m \in DOMAIN HistoryUpdateMethods : AnswerFits("history", m)
  BY <1>1, HistoryMethodRows, ArmRows
     DEF AnswerFits, Promised, InParts, HistoryArms, All, FirstAsked
<1>3. \A m \in DOMAIN HistoryUpdateMethods :
        m \notin DOMAIN FeedPromised => FeedFits("history", m)
  BY <1>1, FeedRows DEF FeedFits, FeedPromised, NoFeed
<1>4. FeedFits("history", "subscribe_time_bar_updates")
  BY <1>1, FeedRows, BuilderRows, HistoryCommandRows, HistoryMethodRows
     DEF FeedFits, FeedPromised, NoFeed, UpdatesOf, Switched, Switch,
         BuilderOf, HistoryUpdateCommands, ContractRequests, FirstAsked, Pass,
         Feed
<1>5. FeedFits("history", "subscribe_tick_bar_updates")
  BY <1>1, FeedRows, BuilderRows, HistoryCommandRows, HistoryMethodRows
     DEF FeedFits, FeedPromised, NoFeed, UpdatesOf, Switched, Switch,
         BuilderOf, HistoryUpdateCommands, UpdateRequests, FirstAsked, Pass,
         Feed
<1> QED BY <1>2, <1>3, <1>4, <1>5 DEF Fits, FeedPromised

\* the session methods at the pnl plant
LEMMA PnlCommonFit ==
  \A m \in DOMAIN SessionMethods : Fits("pnl", m)
<1> USE DEF SessionMethods, Method, Build, Builder
<1>1. /\ Template("pnl", "list_system_info") = 16
      /\ Template("pnl", "login") = 10
      /\ Template("pnl", "disconnect") = 12
  BY BuilderRows, PnlCommandRows, PnlMethodRows
     DEF Template, BuilderOf, SessionCommands, SessionRequests, First, Pass,
         Plain, FirstUnlessError
<1>2. \A m \in DOMAIN SessionMethods : AnswerFits("pnl", m)
  BY <1>1, PnlMethodRows, ArmRows
     DEF AnswerFits, Promised, InParts, SessionArms, First, FirstUnlessError
<1>3. \A m \in DOMAIN SessionMethods :
        m \notin DOMAIN FeedPromised => FeedFits("pnl", m)
  BY <1>1, FeedRows DEF FeedFits, FeedPromised, NoFeed
<1> QED BY <1>2, <1>3 DEF Fits, FeedPromised

\* the snapshots and subscriptions of the pnl plant
LEMMA PnlFit ==
  \A m \in DOMAIN PnlMethods : Fits("pnl", m)
<1> USE DEF PnlMethods, Method, Build, Builder
<1>1. /\ Template("pnl", "subscribe_pnl_updates") = 400
      /\ Template("pnl", "pnl_position_snapshots") = 402
      /\ Template("pnl", "unsubscribe_pnl_updates") = 400
  BY BuilderRows, PnlCommandRows, PnlMethodRows
     DEF Template, BuilderOf, PnlCommands, PnlRequests, First, AccountFeed,
         Pass, ForAccount
<1>2. \A m \in DOMAIN PnlMethods : AnswerFits("pnl", m)
  BY <1>1, PnlMethodRows, ArmRows
     DEF AnswerFits, Promised, InParts, PnlArms, First
<1>3. \A m \in DOMAIN PnlMethods :
        m \notin DOMAIN FeedPromised => FeedFits("pnl", m)
  BY <1>1, FeedRows DEF FeedFits, FeedPromised, NoFeed
<1>4. FeedFits("pnl", "subscribe_pnl_updates")
  BY <1>1, FeedRows, BuilderRows, PnlCommandRows, PnlMethodRows
     DEF FeedFits, FeedPromised, NoFeed, UpdatesOf, Switched, Switch,
         BuilderOf, PnlCommands, PnlRequests, First, AccountFeed
<1>5. FeedFits("pnl", "unsubscribe_pnl_updates")
  BY <1>1, FeedRows, BuilderRows, PnlCommandRows, PnlMethodRows
     DEF FeedFits, FeedPromised, NoFeed, UpdatesOf, Switched, Switch,
         BuilderOf, PnlCommands, PnlRequests, First, AccountFeed
<1> QED BY <1>2, <1>3, <1>4, <1>5 DEF Fits, FeedPromised

-----------------------------------------------------------------------------
(* Every method of every plant is answered with the message and steers the *)
(* feed its documentation names: its command, the arm of handle_command,   *)
(* the builder, its template and the arm of buf_to_message belong together *)
(* (the tables of PlantCommands, SenderApi and ReceiverApi).               *)
THEOREM EveryMethodFits == \A p \in Plant : \A m \in Methods[p] : Fits(p, m)
<1>1. \A m \in Methods["ticker"] : Fits("ticker", m)
  BY TickerCommonFit, TickerSubscriptionFit, TickerSearchFit,
     TickerReferenceFit
     DEF Methods
<1>2. \A m \in Methods["order"] : Fits("order", m)
  BY OrderCommonFit, OrderEntryFit, OrderChangeFit, OrderRmsFit,
     OrderBracketFit, OrderLinkFit, OrderSessionFit, OrderAgreementFit
     DEF Methods
<1>3. \A m \in Methods["history"] : Fits("history", m)
  BY HistoryCommonFit, HistoryLoadFit, HistoryUpdateFit
     DEF Methods
<1>4. \A m \in Methods["pnl"] : Fits("pnl", m)
  BY PnlCommonFit, PnlFit
     DEF Methods
<1> QED BY <1>1, <1>2, <1>3, <1>4 DEF Plant

(* Every update of a feed has an arm that sends it to the subscribers as a  *)
(* message of this feed, and is not mistaken for a heartbeat response (the *)
(* is_update arms of buf_to_message).                                      *)
THEOREM EveryUpdateFits ==
  \A feed \in DOMAIN UpdatesOf : \A t \in UpdatesOf[feed] :
    \E message \in MessagesOf[feed] :
      arm(t) = Update(message) /\ message # "ResponseHeartbeat"
  BY ArmRows DEF UpdatesOf, MessagesOf, SessionArms, MarketUpdateArms,
     DepthUpdateArms, HistoryArms, OrderUpdateArms, PnlArms

\* the arms of the frames that answer no request of a method
LEMMA OtherArms ==
  arm(75) = Single("Reject") /\ arm(19) = Health("ResponseHeartbeat")
  BY ArmRows DEF SessionArms

=============================================================================
