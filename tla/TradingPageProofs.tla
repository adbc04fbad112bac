------------------------- MODULE TradingPageProofs -------------------------
(***************************************************************************)
(* Theorems about the trading page of the dashboard: the card of orders    *)
(* (OrdersCard), the stock dialogue (StockModal), the switches of the desk *)
(* (DeskSwitches) and the positions (PositionsCard), for any orders,       *)
(* stocks, fields and positions and any number of requests under way.      *)
(***************************************************************************)
EXTENDS OrdersCard, StockModal, DeskSwitches, PositionsCard, TLAPS

-----------------------------------------------------------------------------
(* The orders *)

LEMMA MemoStep == MemoIsPainted /\ [OrdersNext]_ordersVars => MemoIsPainted'
<1> SUFFICES ASSUME MemoIsPainted, [OrdersNext]_ordersVars
             PROVE  MemoIsPainted'
  OBVIOUS
<1> USE DEF MemoIsPainted
<1>1. ASSUME NEW o \in Order, Propose(o) \/ Focus(o) \/ Approve(o) \/ Reject(o)
      PROVE  MemoIsPainted'
  BY <1>1 DEF Propose, Focus, Approve, Reject
<1>2. ASSUME NEW l \in Load, ReadPending(l) \/ ReadHistory(l) \/ LoadFails(l)
      PROVE  MemoIsPainted'
  BY <1>2 DEF ReadPending, ReadHistory, LoadFails
<1>3. ASSUME NEW l \in Load, LoadOrders(l)
      PROVE  MemoIsPainted'
  BY <1>3 DEF LoadOrders, Paint
<1>4. CASE PriceMoves \/ PollOrders \/ Blur \/ UNCHANGED ordersVars
  BY <1>4 DEF PriceMoves, PollOrders, Blur, ordersVars
<1>5. ASSUME NEW q, TypeQty(q)
      PROVE  MemoIsPainted'
  BY <1>5 DEF TypeQty
<1>6. ASSUME NEW p \in posts, PostAnswered(p)
      PROVE  MemoIsPainted'
  BY <1>6 DEF PostAnswered
<1> QED
  BY <1>1, <1>2, <1>3, <1>4, <1>5, <1>6 DEF OrdersNext

(* An answer that was not painted is never remembered as painted:          *)
(* trading.js:1107-1110.                                                   *)
THEOREM MemoNeverAhead == OrdersSpec => []MemoIsPainted
<1>1. OrdersInit => MemoIsPainted
  BY DEF OrdersInit, MemoIsPainted
<1> QED
  BY <1>1, MemoStep, PTL DEF OrdersSpec

LEMMA QuantityStep ==
    [OrdersNext]_ordersVars =>
        (focus # NoOrder /\ ordLoads' # ordLoads =>
             qty' = qty /\ ordShown' = ordShown /\ focus' = focus)
<1> SUFFICES ASSUME [OrdersNext]_ordersVars, focus # NoOrder, ordLoads' # ordLoads
             PROVE  qty' = qty /\ ordShown' = ordShown /\ focus' = focus
  OBVIOUS
<1>1. ASSUME NEW o \in Order, Propose(o) \/ Focus(o) \/ Approve(o) \/ Reject(o)
      PROVE  FALSE
  BY <1>1 DEF Propose, Focus, Approve, Reject
<1>2. ASSUME NEW l \in Load, ReadPending(l) \/ ReadHistory(l) \/ LoadFails(l) \/ LoadOrders(l)
      PROVE  qty' = qty /\ ordShown' = ordShown /\ focus' = focus
  BY <1>2 DEF ReadPending, ReadHistory, LoadFails, LoadOrders
<1>3. CASE PriceMoves \/ PollOrders \/ Blur \/ UNCHANGED ordersVars
  BY <1>3 DEF PriceMoves, PollOrders, Blur, ordersVars
<1>4. ASSUME NEW q, TypeQty(q)
      PROVE  FALSE
  BY <1>4 DEF TypeQty
<1>5. ASSUME NEW p \in posts, PostAnswered(p)
      PROVE  qty' = qty /\ ordShown' = ordShown /\ focus' = focus
  BY <1>5 DEF PostAnswered
<1> QED
  BY <1>1, <1>2, <1>3, <1>4, <1>5 DEF OrdersNext

(* No load of the card disturbs a quantity that is being edited:           *)
(* trading.js:1107.                                                        *)
THEOREM TypingUndisturbed == OrdersSpec => TypedQuantityKept
<1>1. [OrdersNext]_ordersVars =>
          [focus # NoOrder /\ ordLoads' # ordLoads =>
               qty' = qty /\ ordShown' = ordShown /\ focus' = focus]_ordersVars
  BY QuantityStep
<1> QED
  BY <1>1, PTL DEF OrdersSpec, TypedQuantityKept

-----------------------------------------------------------------------------
(* The stock dialogue.  Not only the tab that is shown but every tab that  *)
(* counts as loaded is of the dialogue's stock, for a click shows it       *)
(* without asking again.                                                   *)
Own(t) == pane[t] \in {stockCode, Loading, Failed}

DialogueInv ==
    /\ DOMAIN pane = Lazy
    /\ \A t \in loaded \cap Lazy : Own(t)
    /\ stockTab \in Lazy => Own(stockTab)
    /\ tierBox \subseteq Button
    /\ \A b \in tierBox : b.code = stockCode

LEMMA DialogueInit == StockInit => DialogueInv
  BY DEF StockInit, DialogueInv, Own

LEMMA DialogueStep == DialogueInv /\ [StockNext]_stockVars => DialogueInv'
<1> SUFFICES ASSUME DialogueInv, [StockNext]_stockVars
             PROVE  DialogueInv'
  OBVIOUS
<1> USE DEF DialogueInv, Own
<1>0. "chart" \notin Lazy
  BY StockAssumption
<1>1. ASSUME NEW c \in Stock, NEW t \in {"info", "chart"}, OpenStockModal(c, t)
      PROVE  DialogueInv'
  BY <1>0, <1>1 DEF OpenStockModal, OnStockTab
<1>2. ASSUME NEW t \in Tab, ClickTab(t)
      PROVE  DialogueInv'
  BY <1>0, <1>2 DEF ClickTab, OnStockTab, Tab
<1>3. CASE CloseStockModal
  BY <1>3 DEF CloseStockModal
<1>4. ASSUME NEW t \in Lazy, NEW c \in Stock, PaneAnswer(t, c)
      PROVE  DialogueInv'
  BY <1>4 DEF PaneAnswer
<1>5. ASSUME NEW t \in Lazy, NEW c \in Stock, PaneFails(t, c)
      PROVE  DialogueInv'
  BY <1>5 DEF PaneFails
<1>13. ASSUME NEW c \in Stock, EngineHalf(c) \/ EngineAnswer(c)
       PROVE  DialogueInv'
  BY <1>13 DEF EngineHalf, EngineAnswer
<1>6. ASSUME NEW c \in Stock, NEW there \in BOOLEAN, TierAnswer(c, there)
      PROVE  DialogueInv'
  <2>1. [code |-> c, busy |-> FALSE] \in Button /\ [code |-> c, busy |-> FALSE].code = c
    BY DEF Button
  <2>2. tierBox' = tierBox \/ (stockCode = c /\ tierBox' = tierBox \cup {[code |-> c, busy |-> FALSE]})
    BY <1>6 DEF TierAnswer
  <2>3. tierBox' \subseteq Button /\ \A b \in tierBox' : b.code = stockCode
    BY <2>1, <2>2
  <2> QED
    BY <1>6, <2>3 DEF TierAnswer
<1>7. ASSUME NEW b \in tierBox, ClickTier(b)
      PROVE  DialogueInv'
  <2>1. [b EXCEPT !.busy = TRUE] \in Button /\ [b EXCEPT !.busy = TRUE].code = b.code
    BY DEF Button
  <2> QED
    BY <1>7, <2>1 DEF ClickTier
<1>8. ASSUME NEW c \in Stock, ModeFails(c)
      PROVE  DialogueInv'
  <2>1. \A b \in Button : /\ [b EXCEPT !.busy = FALSE] \in Button
                          /\ [b EXCEPT !.busy = FALSE].code = b.code
    BY DEF Button
  <2> QED
    BY <1>8, <2>1 DEF ModeFails
<1>12. ASSUME NEW c \in Stock, ModeSwitched(c) \/ ChartDates(c)
       PROVE  DialogueInv'
  BY <1>12 DEF ModeSwitched, ChartDates
<1>9. ASSUME NEW op, NEW c \in Stock, NEW ok \in BOOLEAN, ChartBars(op, c, ok)
      PROVE  DialogueInv'
  BY <1>9 DEF ChartBars
<1>10. ASSUME NEW past \in BOOLEAN, PickDay(past)
       PROVE  DialogueInv'
  BY <1>10 DEF PickDay
<1>11. CASE ChartTick \/ UNCHANGED stockVars
  BY <1>11 DEF ChartTick, stockVars
<1> QED
  BY <1>1, <1>2, <1>3, <1>4, <1>5, <1>6, <1>7, <1>8, <1>9, <1>10, <1>11, <1>12, <1>13
      DEF StockNext

(* The chart tab is never shown without a load to come: showing it asks    *)
(* for the bars, the end of that sets the interval, and only what hides    *)
(* the tab or shows it anew stops it.                                      *)
BarsInv == modalOpen /\ stockTab = "chart" => BarsComing(stockCode)

LEMMA AddedWaits ==
    ASSUME NEW calls, NEW r
    PROVE  /\ BagIn(r, BagAdd(calls, r))
           /\ \A x : BagIn(x, calls) => BagIn(x, BagAdd(calls, r))
  BY DEF BagIn, BagToSet, BagAdd

LEMMA OthersWait ==
    ASSUME NEW r, NEW x, x # r, Waiting(x)
    PROVE  BagIn(x, Answered(r))
  BY DEF Waiting, Answered, BagIn, BagToSet, BagRemove

LEMMA BarsStep == BarsInv /\ [StockNext]_stockVars => BarsInv'
<1> SUFFICES ASSUME BarsInv, [StockNext]_stockVars, modalOpen', stockTab' = "chart"
             PROVE  BarsComing(stockCode)'
  BY DEF BarsInv
<1>1. ASSUME NEW c, NEW done, NEW ch, NEW calls, OnStockTab("chart", c, done, ch, calls),
             stockCode' = c
      PROVE  BarsComing(stockCode)'
  BY <1>1, AddedWaits DEF OnStockTab, BarsComing, Waiting
<1>2. ASSUME NEW r, Waiting(r), r \notin {Req("dates", stockCode), Req("first", stockCode)},
             \/ stockCalls' = Answered(r)
             \/ \E x : stockCalls' = BagAdd(Answered(r), x),
             UNCHANGED <<stockCode, modalOpen, stockTab, timer>>
      PROVE  BarsComing(stockCode)'
  <2>1. BarsComing(stockCode)
    BY <1>2 DEF BarsInv
  <2>2. \A x : x # r /\ Waiting(x) => BagIn(x, stockCalls')
    BY <1>2, OthersWait, AddedWaits
  <2> QED
    BY <1>2, <2>1, <2>2 DEF BarsComing, Waiting
<1>3. ASSUME \E x : stockCalls' = BagAdd(stockCalls, x),
             UNCHANGED <<stockCode, modalOpen, stockTab, timer>>
      PROVE  BarsComing(stockCode)'
  BY <1>3, AddedWaits DEF BarsInv, BarsComing, Waiting
<1>4. ASSUME NEW c \in Stock, NEW t \in {"info", "chart"}, OpenStockModal(c, t)
      PROVE  BarsComing(stockCode)'
  BY <1>1, <1>4 DEF OpenStockModal
<1>5. ASSUME NEW t \in Tab, ClickTab(t)
      PROVE  BarsComing(stockCode)'
  BY <1>1, <1>5 DEF ClickTab
<1>6. CASE CloseStockModal
  BY <1>6 DEF CloseStockModal
<1>7. ASSUME NEW t \in Lazy \ {"engine"}, NEW c \in Stock, PaneAnswer(t, c) \/ PaneFails(t, c)
      PROVE  BarsComing(stockCode)'
  <2>1. Req(t, c) \notin {Req("dates", stockCode), Req("first", stockCode)}
    BY StockAssumption DEF Req
  <2> QED
    BY <1>2, <1>7, <2>1 DEF PaneAnswer, PaneFails, chartTab
<1>8. ASSUME NEW c \in Stock, EngineHalf(c) \/ EngineAnswer(c)
      PROVE  BarsComing(stockCode)'
  <2>1. \A op \in {"engine", "signals"} :
            Req(op, c) \notin {Req("dates", stockCode), Req("first", stockCode)}
    BY DEF Req
  <2> QED
    BY <1>2, <1>8, <2>1 DEF EngineHalf, EngineAnswer, chartTab
<1>9. ASSUME NEW c \in Stock, \/ \E there \in BOOLEAN : TierAnswer(c, there)
                              \/ ModeSwitched(c) \/ ModeFails(c)
      PROVE  BarsComing(stockCode)'
  <2>1. \A op \in {"tier", "mode"} :
            Req(op, c) \notin {Req("dates", stockCode), Req("first", stockCode)}
    BY DEF Req
  <2> QED
    BY <1>2, <1>9, <2>1 DEF TierAnswer, ModeSwitched, ModeFails, chartTab
<1>10. ASSUME NEW b \in tierBox, ClickTier(b)
       PROVE  BarsComing(stockCode)'
  BY <1>3, <1>10 DEF ClickTier, chartTab
<1>11. ASSUME NEW c \in Stock, ChartDates(c)
       PROVE  BarsComing(stockCode)'
  <2>1. BagIn(Req("first", stockCode), stockCalls')
    BY <1>11, AddedWaits DEF ChartDates
  <2> QED
    BY <1>11, <2>1 DEF ChartDates, BarsComing, Waiting
<1>12. ASSUME NEW op \in {"first", "day", "poll"}, NEW c \in Stock, NEW ok \in BOOLEAN,
              ChartBars(op, c, ok)
       PROVE  BarsComing(stockCode)'
  <2>1. CASE op = "first"
    BY <1>12, <2>1 DEF ChartBars, TimerSet, BarsComing
  <2>2. CASE op # "first"
    <3>1. Req(op, c) \notin {Req("dates", stockCode), Req("first", stockCode)}
      BY <2>2 DEF Req
    <3> QED
      BY <1>2, <1>12, <2>2, <3>1 DEF ChartBars
  <2> QED
    BY <2>1, <2>2
<1>13. CASE (\E isPast \in BOOLEAN : PickDay(isPast)) \/ ChartTick
  BY <1>3, <1>13 DEF PickDay, ChartTick, chartTab
<1>14. CASE UNCHANGED stockVars
  BY <1>14 DEF stockVars, BarsInv, BarsComing, Waiting
<1> QED
  BY <1>4, <1>5, <1>6, <1>7, <1>8, <1>9, <1>10, <1>11, <1>12, <1>13, <1>14 DEF StockNext

(* Nothing of another stock is shown in a lazy tab or by the watch-mode    *)
(* button under the dialogue's title (tradelib.js:260, 371, 536, 566), and *)
(* bars of another stock, which the chart tab may show, give way to a      *)
(* coming load unless a past day is chosen (491-521).                      *)
THEOREM DialogueOfOneStock == StockSpec => []DialogueShowsItsStock
<1>1. DialogueInv /\ BarsInv => DialogueShowsItsStock
  BY DEF DialogueInv, BarsInv, Own, DialogueShowsItsStock
<1>2. StockInit => BarsInv
  BY DEF StockInit, BarsInv
<1> QED
  BY <1>1, <1>2, DialogueInit, DialogueStep, BarsStep, PTL DEF StockSpec

IntervalInv == timer \in BOOLEAN /\ OneChartInterval

LEMMA IntervalInit == StockInit => IntervalInv
  BY DEF StockInit, IntervalInv, OneChartInterval

LEMMA IntervalStep == IntervalInv /\ [StockNext]_stockVars => IntervalInv'
<1> SUFFICES ASSUME IntervalInv, [StockNext]_stockVars
             PROVE  IntervalInv'
  OBVIOUS
<1>1. ASSUME TimerStop
      PROVE  IntervalInv'
  <2>1. intervals = (IF timer THEN 1 ELSE 0) /\ timer' = FALSE
    BY <1>1 DEF TimerStop, IntervalInv, OneChartInterval
  <2>2. intervals' = intervals - intervals
    BY <1>1, <2>1 DEF TimerStop
  <2>3. intervals \in Int
    BY <2>1
  <2>4. intervals' = 0
    BY <2>2, <2>3
  <2> QED
    BY <2>1, <2>4 DEF IntervalInv, OneChartInterval
<1>2. ASSUME TimerSet
      PROVE  IntervalInv'
  <2>1. intervals = (IF timer THEN 1 ELSE 0) /\ timer' = TRUE
    BY <1>2 DEF TimerSet, IntervalInv, OneChartInterval
  <2>2. intervals' = intervals - intervals + 1
    BY <1>2, <2>1 DEF TimerSet
  <2>3. intervals \in Int
    BY <2>1
  <2>4. intervals' = 1
    BY <2>2, <2>3
  <2> QED
    BY <2>1, <2>4 DEF IntervalInv, OneChartInterval
<1>3. ASSUME UNCHANGED <<timer, intervals>>
      PROVE  IntervalInv'
  BY <1>3 DEF IntervalInv, OneChartInterval
<1>4. ASSUME NEW c \in Stock, NEW t, OpenStockModal(c, t)
      PROVE  IntervalInv'
  BY <1>1, <1>4 DEF OpenStockModal, OnStockTab
<1>5. ASSUME NEW t \in Tab, ClickTab(t)
      PROVE  IntervalInv'
  BY <1>1, <1>5 DEF ClickTab, OnStockTab
<1>6. CASE CloseStockModal
  BY <1>1, <1>6 DEF CloseStockModal
<1>7. ASSUME NEW t \in Lazy, NEW c \in Stock, PaneAnswer(t, c) \/ PaneFails(t, c)
      PROVE  IntervalInv'
  BY <1>3, <1>7 DEF PaneAnswer, PaneFails, chartTab
<1>14. ASSUME NEW c \in Stock, EngineHalf(c) \/ EngineAnswer(c)
       PROVE  IntervalInv'
  BY <1>3, <1>14 DEF EngineHalf, EngineAnswer, chartTab
<1>8. ASSUME NEW c \in Stock, NEW there \in BOOLEAN, TierAnswer(c, there)
      PROVE  IntervalInv'
  BY <1>3, <1>8 DEF TierAnswer, chartTab
<1>9. ASSUME NEW b \in tierBox, ClickTier(b)
      PROVE  IntervalInv'
  BY <1>3, <1>9 DEF ClickTier, chartTab
<1>10. ASSUME NEW c \in Stock, ModeSwitched(c) \/ ModeFails(c) \/ ChartDates(c)
       PROVE  IntervalInv'
  BY <1>3, <1>10 DEF ModeSwitched, ModeFails, ChartDates, chartTab
<1>11. ASSUME NEW op, NEW c \in Stock, NEW ok \in BOOLEAN, ChartBars(op, c, ok)
       PROVE  IntervalInv'
  BY <1>2, <1>3, <1>11 DEF ChartBars
<1>12. ASSUME NEW past \in BOOLEAN, PickDay(past)
       PROVE  IntervalInv'
  BY <1>3, <1>12 DEF PickDay
<1>13. CASE ChartTick \/ UNCHANGED stockVars
  BY <1>3, <1>13 DEF ChartTick, stockVars, chartTab
<1> QED
  BY <1>4, <1>5, <1>6, <1>7, <1>8, <1>9, <1>10, <1>11, <1>12, <1>13, <1>14
      DEF StockNext

(* However often the chart's tab is opened while its first requests are    *)
(* out, one interval runs at most: tradelib.js:405-407, 509-521.           *)
THEOREM ChartPolledOnce == StockSpec => []OneChartInterval
<1>1. IntervalInv => OneChartInterval
  BY DEF IntervalInv
<1> QED
  BY <1>1, IntervalInit, IntervalStep, PTL DEF StockSpec

-----------------------------------------------------------------------------
(* The switches of the desk.  A switch is disabled as long as a handler of *)
(* its own is under way, and no repaint enables it.                        *)
SwitchInv ==
    /\ DeskTypeOK
    /\ OneSwitchInFlight
    /\ \A r \in deskRuns : r.by \in Guarded => r.by \in deskOff

LEMMA DeskRunShape ==
    ASSUME NEW r \in DeskRun, NEW at \in {"done", "read"}, NEW d \in Desk
    PROVE  /\ [r EXCEPT !.at = at] \in DeskRun /\ [r EXCEPT !.at = at].by = r.by
           /\ [r EXCEPT !.at = at, !.data = d] \in DeskRun
           /\ [r EXCEPT !.at = at, !.data = d].by = r.by
  BY DEF DeskRun

LEMMA DeskByShape ==
    ASSUME NEW by \in Field \cup {"poll"}, NEW on \in BOOLEAN,
           NEW at \in {"post", "ask", "account"}
    PROVE  DeskBy(by, on, at) \in DeskRun /\ DeskBy(by, on, at).by = by
  BY DEF DeskBy, DeskRun, NoDesk, Desk

(* A handler goes on to its next request. *)
LEMMA HandlerGoesOn ==
    ASSUME SwitchInv, NEW r \in deskRuns, NEW s \in DeskRun, s.by = r.by, DeskStep(r, s),
           deskSrv' \in Desk, checked' \in Desk, deskShown' \in {"empty", "off", "on"},
           deskOff' \subseteq Field, deskOff \cap Guarded \subseteq deskOff'
    PROVE  SwitchInv'
<1>1. DeskTypeOK'
  BY DEF SwitchInv, DeskTypeOK, DeskStep
<1>2. OneSwitchInFlight'
  BY DEF SwitchInv, OneSwitchInFlight, DeskStep
<1>3. (\A q \in deskRuns : q.by \in Guarded => q.by \in deskOff)'
  BY DEF SwitchInv, DeskStep
<1> QED
  BY <1>1, <1>2, <1>3 DEF SwitchInv

LEMMA HandlerEnds ==
    ASSUME SwitchInv, NEW r \in deskRuns, EndRun(r, deskOff),
           UNCHANGED <<deskSrv, deskShown>>, checked' \in Desk
    PROVE  SwitchInv'
<1>1. DeskTypeOK'
  BY DEF SwitchInv, DeskTypeOK, EndRun
<1>2. OneSwitchInFlight'
  BY DEF SwitchInv, OneSwitchInFlight, EndRun
<1>3. (\A q \in deskRuns : q.by \in Guarded => q.by \in deskOff)'
  BY DEF SwitchInv, OneSwitchInFlight, EndRun
<1> QED
  BY <1>1, <1>2, <1>3 DEF SwitchInv

LEMMA SwitchInit == DeskInit => SwitchInv
  BY DEF DeskInit, SwitchInv, DeskTypeOK, OneSwitchInFlight, NoDesk, Desk

LEMMA SwitchStep == SwitchInv /\ [DeskNext]_deskVars => SwitchInv'
<1> SUFFICES ASSUME SwitchInv, [DeskNext]_deskVars
             PROVE  SwitchInv'
  OBVIOUS
<1> USE DeskAssumption
<1>0. DeskTypeOK /\ NoDesk \in Desk
  BY DEF SwitchInv, NoDesk, Desk
<1>1. ASSUME NEW f \in Field, ChangeSwitch(f)
      PROVE  SwitchInv'
  <2> DEFINE new == DeskBy(f, ~checked[f], "post")
  <2>1. new \in DeskRun /\ new.by = f
    BY <1>0, DeskByShape DEF DeskTypeOK, Desk
  <2>2. deskRuns' = deskRuns \cup {new} /\ f \notin deskOff
    BY <1>1 DEF ChangeSwitch, Begin
  <2>3. deskOff \subseteq deskOff' /\ deskOff' \subseteq Field /\ (f \in Guarded => f \in deskOff')
    BY <1>0, <1>1 DEF ChangeSwitch, DeskTypeOK, Guarded
  <2>4. checked' \in Desk /\ UNCHANGED <<deskSrv, deskShown>>
    BY <1>0, <1>1 DEF ChangeSwitch, DeskTypeOK, Desk
  <2> HIDE DEF new
  <2>5. DeskTypeOK'
    BY <1>0, <2>1, <2>2, <2>3, <2>4 DEF DeskTypeOK
  <2>6. OneSwitchInFlight'
    BY <2>1, <2>2 DEF SwitchInv, OneSwitchInFlight
  <2>7. (\A r \in deskRuns : r.by \in Guarded => r.by \in deskOff)'
    BY <2>1, <2>2, <2>3 DEF SwitchInv
  <2> QED
    BY <2>5, <2>6, <2>7 DEF SwitchInv
<1>2. CASE PollStatus
  <2> DEFINE new == DeskBy("poll", FALSE, "ask")
  <2>1. new \in DeskRun /\ new.by = "poll"
    BY DeskByShape
  <2>2. deskRuns' = deskRuns \cup {new} /\ UNCHANGED <<deskSrv, checked, deskOff, deskShown>>
    BY <1>2 DEF PollStatus, Begin
  <2>3. "poll" \notin Guarded
    BY DEF Guarded
  <2> HIDE DEF new
  <2> QED
    BY <2>1, <2>2, <2>3 DEF SwitchInv, DeskTypeOK, OneSwitchInFlight
<1>3. ASSUME NEW r \in deskRuns, ServeDesk(r)
      PROVE  SwitchInv'
  <2>1. r \in DeskRun /\ [r EXCEPT !.at = "done"] \in DeskRun /\ [r EXCEPT !.at = "done"].by = r.by
    BY <1>0, DeskRunShape DEF DeskTypeOK
  <2>2. deskSrv' \in Desk
    BY <1>0, <1>3, <2>1 DEF ServeDesk, DeskTypeOK, Desk, DeskRun
  <2> QED
    BY <1>0, <1>3, <2>1, <2>2, HandlerGoesOn DEF ServeDesk, DeskTypeOK
<1>4. ASSUME NEW r \in deskRuns, ServeStatus(r)
      PROVE  SwitchInv'
  <2> DEFINE s == [r EXCEPT !.at = "read", !.data = deskSrv]
  <2>1. s \in DeskRun /\ s.by = r.by
    BY <1>0, DeskRunShape DEF DeskTypeOK
  <2>2. DeskStep(r, s)
    BY <1>4 DEF ServeStatus
  <2> HIDE DEF s
  <2> QED
    BY <1>0, <1>4, <2>1, <2>2, HandlerGoesOn DEF ServeStatus, DeskTypeOK
<1>5. ASSUME NEW r \in deskRuns, DeskPosted(r)
      PROVE  SwitchInv'
  <2>1. DeskBy(r.by, FALSE, "ask") \in DeskRun /\ DeskBy(r.by, FALSE, "ask").by = r.by
    BY <1>0, DeskByShape DEF DeskTypeOK, DeskRun
  <2> QED
    BY <1>0, <1>5, <2>1, HandlerGoesOn DEF DeskPosted, DeskTypeOK
<1>6. ASSUME NEW r \in deskRuns, DeskPostFails(r)
      PROVE  SwitchInv'
  <2>1. r \in DeskRun
    BY <1>0 DEF DeskTypeOK
  <2>2. checked' \in Desk
    BY <1>0, <1>6, <2>1 DEF DeskPostFails, DeskTypeOK, Desk, DeskRun
  <2> QED
    BY <1>6, <2>2, HandlerEnds DEF DeskPostFails
<1>7. ASSUME NEW r \in deskRuns, RenderDesk(r)
      PROVE  SwitchInv'
  <2>1. r.data \in Desk /\ r.by \in Field \cup {"poll"}
    BY <1>0 DEF DeskTypeOK, DeskRun
  <2>2. DeskBy(r.by, FALSE, "account") \in DeskRun /\ DeskBy(r.by, FALSE, "account").by = r.by
    BY <2>1, DeskByShape
  <2>3. checked' \in Desk /\ deskShown' \in {"empty", "off", "on"}
    BY <1>0, <1>7, <2>1 DEF RenderDesk, DeskTypeOK, Desk
  <2>4. deskOff' \subseteq Field /\ deskOff \cap Guarded \subseteq deskOff'
    BY <1>0, <1>7 DEF RenderDesk, DisabledBy, DeskTypeOK, Field, Guarded
  <2> QED
    BY <1>0, <1>7, <2>2, <2>3, <2>4, HandlerGoesOn DEF RenderDesk, DeskTypeOK
<1>8. ASSUME NEW r \in deskRuns, LoadStatus(r) \/ StatusFails(r)
      PROVE  SwitchInv'
  BY <1>0, <1>8, HandlerEnds DEF LoadStatus, StatusFails, DeskTypeOK
<1>9. CASE UNCHANGED deskVars
  BY <1>9 DEF deskVars, SwitchInv, DeskTypeOK, OneSwitchInFlight
<1> QED
  BY <1>1, <1>2, <1>3, <1>4, <1>5, <1>6, <1>7, <1>8, <1>9 DEF DeskNext

(* Two changes of one switch are never on their way together: trading.js:  *)
(* 690-701, 741-770.                                                       *)
THEOREM SwitchesOneAtATime == DeskSpec => []OneSwitchInFlight
<1>1. SwitchInv => OneSwitchInFlight
  BY DEF SwitchInv
<1> QED
  BY <1>1, SwitchInit, SwitchStep, PTL DEF DeskSpec

-----------------------------------------------------------------------------
(* The positions.  The request that insists is sent only for a position    *)
(* the user was warned about.                                              *)
WarnedInv ==
    /\ PosTypeOK
    /\ \A a \in posActs : a.kind = "confirmed" => a.pos \in warned

LEMMA ActShape ==
    ASSUME NEW a \in Act, NEW at \in {"done", "need_void", "need_confirm", "refused"}
    PROVE  /\ [a EXCEPT !.at = at] \in Act
           /\ [a EXCEPT !.at = at].kind = a.kind /\ [a EXCEPT !.at = at].pos = a.pos
  BY DEF Act

LEMMA CheckedShape ==
    ASSUME NEW a \in Act, NEW at \in {"checked", "refused"}, NEW held \in {"yes", "no", "unknown"}
    PROVE  /\ [a EXCEPT !.at = at, !.held = held] \in Act
           /\ [a EXCEPT !.at = at, !.held = held].kind = a.kind
           /\ [a EXCEPT !.at = at, !.held = held].pos = a.pos
  BY DEF Act

LEMMA NewActShape ==
    ASSUME NEW p \in Pos, NEW kind \in {"close", "void", "confirmed"}
    PROVE  NewAct(p, kind) \in Act /\ NewAct(p, kind).kind = kind /\ NewAct(p, kind).pos = p
  BY DEF NewAct, Act

(* The other variables. *)
CardTypeOK ==
    /\ ledger \in [Pos -> {"open", "closed", "void"}]
    /\ account \subseteq Pos
    /\ posMemo \in View
    /\ posTable \in View
    /\ posLoads \subseteq PosLoad
    /\ warned \subseteq Pos

LEMMA ActGoesOn ==
    ASSUME WarnedInv, CardTypeOK', NEW a \in posActs, NEW b \in Act, ActStep(a, b),
           b.kind = "confirmed" => b.pos \in warned', warned \subseteq warned'
    PROVE  WarnedInv'
  BY DEF WarnedInv, PosTypeOK, CardTypeOK, ActStep

LEMMA NoNewAct ==
    ASSUME WarnedInv, CardTypeOK', posActs' \subseteq posActs, warned \subseteq warned'
    PROVE  WarnedInv'
  BY DEF WarnedInv, PosTypeOK, CardTypeOK

LEMMA LoadShape == FirstLoad \in PosLoad /\ NoView \in View
  BY DEF FirstLoad, PosLoad, NoView, View

LEMMA WarnedInit == PosInit => WarnedInv
  BY LoadShape DEF PosInit, WarnedInv, PosTypeOK

LEMMA WarnedStep == WarnedInv /\ [PosNext]_posVars => WarnedInv'
<1> SUFFICES ASSUME WarnedInv, [PosNext]_posVars
             PROVE  WarnedInv'
  OBVIOUS
<1>0. PosTypeOK /\ CardTypeOK
  BY DEF WarnedInv, PosTypeOK, CardTypeOK
<1>1. ASSUME NEW p \in Pos, Fills(p) \/ SoldByLoop(p) \/ SoldByHand(p)
      PROVE  WarnedInv'
  <2>1. CardTypeOK' /\ posActs' = posActs /\ warned' = warned
    BY <1>0, <1>1 DEF Fills, SoldByLoop, SoldByHand, CardTypeOK
  <2> QED
    BY <2>1, NoNewAct
<1>2. ASSUME NEW p \in Pos, NEW kind \in {"close", "void"}, posActs' = posActs \cup {NewAct(p, kind)},
             UNCHANGED <<ledger, account, posMemo, posTable, posLoads, warned>>
      PROVE  WarnedInv'
  <2>1. NewAct(p, kind) \in Act /\ NewAct(p, kind).kind # "confirmed"
    BY NewActShape
  <2> QED
    BY <1>2, <2>1 DEF WarnedInv, PosTypeOK
<1>3. ASSUME NEW p \in Pos, ClickClose(p) \/ ClickVoid(p)
      PROVE  WarnedInv'
  BY <1>2, <1>3 DEF ClickClose, ClickVoid
<1>4. CASE PollPositions
  <2>1. CardTypeOK' /\ posActs' = posActs /\ warned' = warned
    BY <1>0, <1>4, LoadShape DEF PollPositions, CardTypeOK
  <2> QED
    BY <2>1, NoNewAct
<1>5. ASSUME NEW l \in posLoads, NEW ok \in BOOLEAN, PerformanceAnswer(l, ok)
      PROVE  WarnedInv'
  <2>1. [at |-> "acct", open |-> {p \in Pos : ledger[p] = "open"}] \in PosLoad
    BY DEF PosLoad
  <2>2. CardTypeOK' /\ posActs' = posActs /\ warned' = warned
    BY <1>0, <1>5, <2>1 DEF PerformanceAnswer, CardTypeOK
  <2> QED
    BY <2>2, NoNewAct
<1>6. ASSUME NEW l \in posLoads, NEW ok \in BOOLEAN, LoadPositions(l, ok)
      PROVE  WarnedInv'
  <2>1. [open |-> l.open, held |-> IF ok THEN account ELSE {}, ok |-> ok] \in View
    BY <1>0 DEF CardTypeOK, PosLoad, View
  <2>2. CardTypeOK' /\ posActs' = posActs /\ warned' = warned
    BY <1>0, <1>6, <2>1 DEF LoadPositions, CardTypeOK
  <2> QED
    BY <2>2, NoNewAct
<1>7. ASSUME NEW a \in posActs, NEW yes \in BOOLEAN, ServerChecks(a, yes)
      PROVE  WarnedInv'
  <2> DEFINE at == IF ledger[a.pos] = "open" THEN "checked" ELSE "refused"
             held == IF ~yes THEN "unknown" ELSE IF a.pos \in account THEN "yes" ELSE "no"
             b == [a EXCEPT !.at = at, !.held = held]
  <2>0. a \in Act /\ at \in {"checked", "refused"} /\ held \in {"yes", "no", "unknown"}
    BY <1>0 DEF PosTypeOK
  <2>2. ActStep(a, b)
    BY <1>7 DEF ServerChecks
  <2> HIDE DEF at, held
  <2>1. b \in Act /\ b.kind = a.kind /\ b.pos = a.pos
    BY <2>0, CheckedShape
  <2> HIDE DEF b
  <2>3. CardTypeOK' /\ warned' = warned
    BY <1>0, <1>7 DEF ServerChecks, CardTypeOK
  <2> QED
    BY <2>1, <2>2, <2>3, ActGoesOn DEF WarnedInv
<1>8. ASSUME NEW a \in posActs, ServerCloses(a)
      PROVE  WarnedInv'
  <2>1. PICK at \in {"need_void", "done", "refused"} : ActStep(a, [a EXCEPT !.at = at])
    BY <1>8 DEF ServerCloses
  <2> DEFINE b == [a EXCEPT !.at = at]
  <2>2. b \in Act /\ b.kind = a.kind /\ b.pos = a.pos
    BY <1>0, ActShape DEF PosTypeOK
  <2>3. CardTypeOK' /\ warned' = warned
    BY <1>0, <1>8 DEF ServerCloses, CardTypeOK
  <2>4. ActStep(a, b)
    BY <2>1
  <2> HIDE DEF b
  <2> QED
    BY <2>2, <2>3, <2>4, ActGoesOn DEF WarnedInv
<1>9. ASSUME NEW a \in posActs, ServerVoids(a)
      PROVE  WarnedInv'
  <2>1. PICK at \in {"done", "need_confirm"} : ActStep(a, [a EXCEPT !.at = at])
    BY <1>9 DEF ServerVoids
  <2> DEFINE b == [a EXCEPT !.at = at]
  <2>2. b \in Act /\ b.kind = a.kind /\ b.pos = a.pos
    BY <1>0, ActShape DEF PosTypeOK
  <2>3. CardTypeOK' /\ warned' = warned
    BY <1>0, <1>9 DEF ServerVoids, CardTypeOK
  <2>4. ActStep(a, b)
    BY <2>1
  <2> HIDE DEF b
  <2> QED
    BY <2>2, <2>3, <2>4, ActGoesOn DEF WarnedInv
<1>10. ASSUME NEW a \in posActs, NEW yes \in BOOLEAN, OffersVoid(a, yes)
       PROVE  WarnedInv'
  <2>1. a.pos \in Pos
    BY <1>0 DEF PosTypeOK, Act
  <2>2. CardTypeOK' /\ warned' = warned
    BY <1>0, <1>10, LoadShape DEF OffersVoid, CardTypeOK
  <2>3. CASE yes
    <3>1. ActStep(a, NewAct(a.pos, "void"))
      BY <1>10, <2>3 DEF OffersVoid
    <3> QED
      BY <2>1, <2>2, <3>1, ActGoesOn, NewActShape
  <2>4. CASE ~yes
    BY <1>10, <2>2, <2>4, NoNewAct DEF OffersVoid
  <2> QED
    BY <2>3, <2>4
<1>11. ASSUME NEW a \in posActs, NEW yes \in BOOLEAN, AsksAgain(a, yes)
       PROVE  WarnedInv'
  <2>1. a.pos \in Pos
    BY <1>0 DEF PosTypeOK, Act
  <2>2. CardTypeOK' /\ warned \subseteq warned'
    BY <1>0, <1>11, <2>1 DEF AsksAgain, CardTypeOK
  <2>3. CASE yes
    <3>1. ActStep(a, NewAct(a.pos, "confirmed")) /\ a.pos \in warned'
      BY <1>11, <2>3 DEF AsksAgain
    <3> QED
      BY <2>1, <2>2, <3>1, ActGoesOn, NewActShape
  <2>4. CASE ~yes
    BY <1>11, <2>2, <2>4, NoNewAct DEF AsksAgain
  <2> QED
    BY <2>3, <2>4
<1>12. ASSUME NEW a \in posActs, NEW ok \in BOOLEAN, ActEnds(a, ok)
       PROVE  WarnedInv'
  <2>1. CardTypeOK' /\ posActs' \subseteq posActs /\ warned' = warned
    BY <1>0, <1>12, LoadShape DEF ActEnds, CardTypeOK
  <2> QED
    BY <2>1, NoNewAct
<1>13. CASE UNCHANGED posVars
  BY <1>13 DEF posVars, WarnedInv, PosTypeOK
<1> QED
  BY <1>1, <1>3, <1>4, <1>5, <1>6, <1>7, <1>8, <1>9, <1>10, <1>11, <1>12, <1>13 DEF PosNext

LEMMA VoidStep ==
    WarnedInv => \A a \in posActs : ServerVoids(a) /\ a.held # "no" /\ ledger' # ledger => a.pos \in warned
  BY DEF WarnedInv, ServerVoids, MayVoid

(* A holding leaves the ledger only with the user's knowledge: trading.js: *)
(* 672-684.                                                                *)
THEOREM VoidedKnowingly == PosSpec => HeldPositionVoidedKnowingly
<1>1. WarnedInv /\ [PosNext]_posVars
        => [\A a \in posActs :
               ServerVoids(a) /\ a.held # "no" /\ ledger' # ledger => a.pos \in warned]_posVars
  BY VoidStep
<1> QED
  BY <1>1, WarnedInit, WarnedStep, PTL DEF PosSpec, HeldPositionVoidedKnowingly

-----------------------------------------------------------------------------
(* The type invariant of the orders: the server with the answers that are *)
(* out, and the card.                                                      *)
OrdersServerOK ==
    /\ ordStatus \in [Order -> Status]
    /\ price \in 0 .. MaxPrice
    /\ ordLoads \in [Load -> [pc: {"idle", "asked", "half", "answered"}, data: Data]]

OrdersPageOK ==
    /\ ordMemo \in Data /\ ordShown \in Data
    /\ qty \in [Order -> 0 .. MaxQty]
    /\ focus \in Order \cup {NoOrder}
    /\ disabled \subseteq Order
    /\ posts \subseteq [order: Order, qty: 0 .. MaxQty]

LEMMA OrdersParts == OrdersTypeOK <=> OrdersServerOK /\ OrdersPageOK
  BY DEF OrdersTypeOK, OrdersServerOK, OrdersPageOK

LEMMA IdleShape ==
    /\ Nothing \in Data
    /\ Idle \in [pc: {"idle", "asked", "half", "answered"}, data: Data]
<1>1. 0 \in 0 .. MaxPrice
  BY OrdersAssumption
<1>2. Nothing \in Data
  BY <1>1 DEF Nothing, Data
<1> QED
  BY <1>2 DEF Idle

LEMMA OrdersTypeInit == OrdersInit => OrdersTypeOK
<1> SUFFICES ASSUME OrdersInit
             PROVE  OrdersServerOK /\ OrdersPageOK
  BY OrdersParts
<1>1. 0 \in 0 .. MaxPrice /\ 1 \in 0 .. MaxQty
  BY OrdersAssumption
<1>2. OrdersServerOK
  BY <1>1, IdleShape DEF OrdersInit, OrdersServerOK, Status
<1>3. OrdersPageOK
  BY <1>1, IdleShape DEF OrdersInit, OrdersPageOK
<1> QED
  BY <1>2, <1>3

LEMMA LoadMoves ==
    ASSUME OrdersServerOK, NEW l \in Load,
           NEW v \in [pc: {"idle", "asked", "half", "answered"}, data: Data],
           ordLoads' = [ordLoads EXCEPT ![l] = v], UNCHANGED <<ordStatus, price>>
    PROVE  OrdersServerOK'
  BY DEF OrdersServerOK

LEMMA LoadStarts ==
    ASSUME OrdersServerOK, StartLoad(ordLoads)
    PROVE  ordLoads' \in [Load -> [pc: {"idle", "asked", "half", "answered"}, data: Data]]
<1>1. PICK l \in Load : ordLoads' = [ordLoads EXCEPT ![l].pc = "asked"]
  BY DEF StartLoad
<1>2. ordLoads[l] \in [pc: {"idle", "asked", "half", "answered"}, data: Data]
  BY DEF OrdersServerOK
<1>3. [ordLoads[l] EXCEPT !.pc = "asked"] \in [pc: {"idle", "asked", "half", "answered"}, data: Data]
  BY <1>2
<1> QED
  BY <1>1, <1>3 DEF OrdersServerOK

LEMMA PageRepainted ==
    ASSUME OrdersPageOK, NEW d \in Data, Paint(d), UNCHANGED posts
    PROVE  OrdersPageOK'
<1>1. 1 \in 0 .. MaxQty
  BY OrdersAssumption
<1> QED
  BY <1>1 DEF OrdersPageOK, Paint

LEMMA OrdersTypeStep == OrdersTypeOK /\ [OrdersNext]_ordersVars => OrdersTypeOK'
<1> SUFFICES ASSUME OrdersServerOK, OrdersPageOK, [OrdersNext]_ordersVars
             PROVE  OrdersServerOK' /\ OrdersPageOK'
  BY OrdersParts DEF OrdersTypeOK, OrdersServerOK, OrdersPageOK
<1>1. ASSUME UNCHANGED <<ordMemo, ordShown, qty, focus, disabled, posts>>
      PROVE  OrdersPageOK'
  BY <1>1 DEF OrdersPageOK
<1>2. ASSUME UNCHANGED <<ordStatus, price, ordLoads>>
      PROVE  OrdersServerOK'
  BY <1>2 DEF OrdersServerOK
<1>3. ASSUME NEW o \in Order, Propose(o)
      PROVE  OrdersServerOK' /\ OrdersPageOK'
  <2>1. OrdersServerOK'
    BY <1>3 DEF Propose, OrdersServerOK, Status
  <2> QED
    BY <1>1, <1>3, <2>1 DEF Propose
<1>4. CASE PriceMoves
  <2>1. price' \in 0 .. MaxPrice
    BY <1>4, OrdersAssumption DEF PriceMoves, OrdersServerOK
  <2> QED
    BY <1>1, <1>4, <2>1 DEF PriceMoves, OrdersServerOK
<1>5. ASSUME NEW l \in Load, ReadPending(l)
      PROVE  OrdersServerOK' /\ OrdersPageOK'
  <2>1. [pending |-> Pending, price |-> price, done |-> {}, known |-> TRUE] \in Data
    BY DEF Data, Pending, OrdersServerOK
  <2>2. [pc |-> "half", data |-> [pending |-> Pending, price |-> price, done |-> {}, known |-> TRUE]]
           \in [pc: {"idle", "asked", "half", "answered"}, data: Data]
    BY <2>1
  <2> QED
    BY <1>1, <1>5, <2>2, LoadMoves DEF ReadPending
<1>6. ASSUME NEW l \in Load, ReadHistory(l)
      PROVE  OrdersServerOK' /\ OrdersPageOK'
  <2>1. ordLoads[l].data \in Data
    BY DEF OrdersServerOK
  <2>2. [ordLoads[l].data EXCEPT !.done = Done] \in Data
    BY <2>1 DEF Data, Done
  <2> DEFINE v == [ordLoads[l] EXCEPT !.pc = "answered", !.data = [ordLoads[l].data EXCEPT !.done = Done]]
  <2>3. v \in [pc: {"idle", "asked", "half", "answered"}, data: Data]
    BY <2>2 DEF OrdersServerOK
  <2>4. ordLoads' = [ordLoads EXCEPT ![l] = v]
    BY <1>6 DEF ReadHistory, OrdersServerOK
  <2> HIDE DEF v
  <2> QED
    BY <1>1, <1>6, <2>3, <2>4, LoadMoves DEF ReadHistory
<1>7. ASSUME NEW l \in Load, LoadOrders(l)
      PROVE  OrdersServerOK' /\ OrdersPageOK'
  <2>1. ordLoads[l].data \in Data
    BY DEF OrdersServerOK
  <2>2. OrdersServerOK'
    BY <1>7, IdleShape, LoadMoves DEF LoadOrders
  <2>3. OrdersPageOK'
    BY <1>1, <1>7, <2>1, PageRepainted DEF LoadOrders
  <2> QED
    BY <2>2, <2>3
<1>8. ASSUME NEW l \in Load, LoadFails(l)
      PROVE  OrdersServerOK' /\ OrdersPageOK'
  BY <1>1, <1>8, IdleShape, LoadMoves DEF LoadFails
<1>9. CASE PollOrders
  <2>1. OrdersServerOK'
    BY <1>9, LoadStarts DEF PollOrders, OrdersServerOK
  <2> QED
    BY <1>1, <1>9, <2>1 DEF PollOrders
<1>10. ASSUME NEW o \in Order, Focus(o)
       PROVE  OrdersServerOK' /\ OrdersPageOK'
  BY <1>2, <1>10 DEF Focus, OrdersPageOK
<1>16. CASE Blur
  BY <1>2, <1>16 DEF Blur, OrdersPageOK
<1>11. ASSUME NEW q \in 0 .. MaxQty, TypeQty(q)
       PROVE  OrdersServerOK' /\ OrdersPageOK'
  BY <1>2, <1>11 DEF TypeQty, OrdersPageOK
<1>12. ASSUME NEW o \in Order, Approve(o)
       PROVE  OrdersServerOK' /\ OrdersPageOK'
  <2>1. [order |-> o, qty |-> qty[o]] \in [order: Order, qty: 0 .. MaxQty]
    BY DEF OrdersPageOK
  <2> QED
    BY <1>2, <1>12, <2>1 DEF Approve, OrdersPageOK
<1>13. ASSUME NEW o \in Order, Reject(o)
       PROVE  OrdersServerOK' /\ OrdersPageOK'
  <2>1. [order |-> o, qty |-> 0] \in [order: Order, qty: 0 .. MaxQty]
    BY OrdersAssumption
  <2> QED
    BY <1>2, <1>13, <2>1 DEF Reject, OrdersPageOK
<1>14. ASSUME NEW p \in posts, PostAnswered(p)
       PROVE  OrdersServerOK' /\ OrdersPageOK'
  <2>1. ordStatus' \in [Order -> Status]
    BY <1>14 DEF PostAnswered, OrdersServerOK, Status
  <2>2. ordLoads' \in [Load -> [pc: {"idle", "asked", "half", "answered"}, data: Data]]
    BY <1>14, LoadStarts DEF PostAnswered, OrdersServerOK
  <2>3. OrdersServerOK'
    BY <1>14, <2>1, <2>2 DEF PostAnswered, OrdersServerOK
  <2>4. OrdersPageOK'
    BY <1>14 DEF PostAnswered, OrdersPageOK
  <2> QED
    BY <2>3, <2>4
<1>15. CASE UNCHANGED ordersVars
  BY <1>1, <1>2, <1>15 DEF ordersVars
<1> QED
  BY <1>3, <1>4, <1>5, <1>6, <1>7, <1>8, <1>9, <1>10, <1>11, <1>12, <1>13, <1>14, <1>15, <1>16
     DEF OrdersNext

-----------------------------------------------------------------------------
(* The type invariant of the dialogue.  The requests are in a bag; only    *)
(* opening the dialogue chooses a stock, and nothing is asked for before.  *)
CallsOK(calls) == IsABag(calls) /\ BagToSet(calls) \subseteq Request

Unopened == ~modalOpen /\ stockCalls = EmptyBag /\ intervals = 0

StockInv == StockTypeOK /\ IntervalInv /\ (stockCode \in Stock \/ Unopened)

LEMMA CallAdded ==
    ASSUME NEW calls, CallsOK(calls), NEW r \in Request
    PROVE  CallsOK(BagAdd(calls, r))
<1>1. calls \in [DOMAIN calls -> {n \in Nat : n > 0}]
  BY DEF CallsOK, IsABag
<1>2. DOMAIN calls \subseteq Request
  BY DEF CallsOK, BagToSet
<1>3. CASE r \in DOMAIN calls
  <2>1. BagAdd(calls, r) = [e \in DOMAIN calls |-> IF e = r THEN calls[e] + 1 ELSE calls[e]]
    BY <1>3 DEF BagAdd
  <2>2. BagAdd(calls, r) \in [DOMAIN calls -> {n \in Nat : n > 0}]
    BY <1>1, <2>1
  <2> QED
    BY <1>2, <2>2 DEF CallsOK, IsABag, BagToSet
<1>4. CASE r \notin DOMAIN calls
  <2>1. BagAdd(calls, r) = [e \in DOMAIN calls \cup {r} |-> IF e = r THEN 1 ELSE calls[e]]
    BY <1>4 DEF BagAdd
  <2>2. BagAdd(calls, r) \in [DOMAIN calls \cup {r} -> {n \in Nat : n > 0}]
    BY <1>1, <2>1
  <2>3. DOMAIN BagAdd(calls, r) = DOMAIN calls \cup {r}
    BY <2>1
  <2> QED
    BY <1>2, <2>2, <2>3 DEF CallsOK, IsABag, BagToSet
<1> QED
  BY <1>3, <1>4

LEMMA CallAnswered ==
    ASSUME CallsOK(stockCalls), NEW r, Waiting(r)
    PROVE  CallsOK(Answered(r)) /\ r \in Request /\ stockCalls # EmptyBag
<1>1. stockCalls \in [DOMAIN stockCalls -> {n \in Nat : n > 0}]
  BY DEF CallsOK, IsABag
<1>2. DOMAIN stockCalls \subseteq Request /\ r \in DOMAIN stockCalls
  BY DEF CallsOK, BagToSet, Waiting, BagIn
<1>3. CASE stockCalls[r] = 1
  <2>1. Answered(r) = [e \in DOMAIN stockCalls \ {r} |-> stockCalls[e]]
    BY <1>2, <1>3 DEF Answered, BagRemove
  <2>2. Answered(r) \in [DOMAIN stockCalls \ {r} -> {n \in Nat : n > 0}]
    BY <1>1, <2>1
  <2>3. DOMAIN Answered(r) = DOMAIN stockCalls \ {r}
    BY <2>1
  <2> QED
    BY <1>2, <2>2, <2>3 DEF CallsOK, IsABag, BagToSet, EmptyBag, SetToBag
<1>4. CASE stockCalls[r] # 1
  <2>1. Answered(r) = [e \in DOMAIN stockCalls |-> IF e = r THEN stockCalls[e] - 1 ELSE stockCalls[e]]
    BY <1>2, <1>4 DEF Answered, BagRemove
  <2>2. Answered(r) \in [DOMAIN stockCalls -> {n \in Nat : n > 0}]
    BY <1>1, <1>4, <2>1
  <2>3. DOMAIN Answered(r) = DOMAIN stockCalls
    BY <2>1
  <2> QED
    BY <1>2, <2>2, <2>3 DEF CallsOK, IsABag, BagToSet, EmptyBag, SetToBag
<1> QED
  BY <1>3, <1>4

LEMMA RequestShape ==
    ASSUME NEW op \in Lazy \cup {"signals", "tier", "mode", "dates", "first", "day", "poll"},
           NEW c \in Stock
    PROVE  Req(op, c) \in Request
  BY DEF Req, Request

LEMMA StockOfRequest ==
    ASSUME NEW op, NEW c, Req(op, c) \in Request
    PROVE  c \in Stock
  BY DEF Req, Request

(* What the rest of the dialogue shows. *)
ShownOK ==
    /\ modalOpen \in BOOLEAN
    /\ stockTab \in Tab
    /\ loaded \subseteq Lazy
    /\ pane \in [Lazy -> Stock \cup {NoStock, Loading, Failed}]
    /\ tierBox \subseteq Button
    /\ chart \in ChartPane

LEMMA StockParts ==
    ASSUME IntervalInv
    PROVE  StockTypeOK <=> stockCode \in Stock \cup {NoStock} /\ ShownOK /\ CallsOK(stockCalls)
<1>1. intervals \in Nat /\ timer \in BOOLEAN
  BY DEF IntervalInv, OneChartInterval
<1> QED
  BY <1>1 DEF StockTypeOK, ShownOK, CallsOK

LEMMA StockTypeInit == StockInit => StockInv
<1> SUFFICES ASSUME StockInit
             PROVE  StockInv
  OBVIOUS
<1>1. IntervalInv
  BY IntervalInit
<1>2. ShownOK
  BY StockAssumption DEF StockInit, ShownOK, Tab, ChartPane
<1>3. CallsOK(stockCalls)
  BY DEF StockInit, CallsOK, EmptyBag, SetToBag, IsABag, BagToSet
<1> QED
  BY <1>1, <1>2, <1>3, StockParts DEF StockInit, StockInv, Unopened

LEMMA TabShown ==
    ASSUME NEW t \in Tab, NEW c \in Stock, NEW done \in SUBSET Lazy,
           NEW ch \in ChartPane, NEW calls, CallsOK(calls),
           pane \in [Lazy -> Stock \cup {NoStock, Loading, Failed}], OnStockTab(t, c, done, ch, calls)
    PROVE  /\ loaded' \subseteq Lazy
           /\ pane' \in [Lazy -> Stock \cup {NoStock, Loading, Failed}]
           /\ chart' \in ChartPane
           /\ CallsOK(stockCalls')
<1>1. CASE t = "chart"
  <2>1. CallsOK(BagAdd(calls, Req("dates", c))) /\ CallsOK(BagAdd(calls, Req("first", c)))
    BY RequestShape, CallAdded
  <2>2. [ch EXCEPT !.past = FALSE] \in ChartPane
    BY DEF ChartPane
  <2> QED
    BY <1>1, <2>1, <2>2 DEF OnStockTab
<1>2. CASE t # "chart"
  <2>1. t \in Lazy
    BY <1>2 DEF Tab
  <2>2. CallsOK(BagAdd(calls, Req(t, c)))
    BY <2>1, RequestShape, CallAdded
  <2> QED
    BY <1>2, <2>1, <2>2 DEF OnStockTab
<1> QED
  BY <1>1, <1>2

(* A request is answered, and what follows it asks for one more or not.    *)
LEMMA DialogueAnswered ==
    ASSUME StockInv, IntervalInv', NEW op, NEW c \in Stock, Waiting(Req(op, c)),
           \/ stockCalls' = Answered(Req(op, c))
           \/ \E r \in Request : stockCalls' = BagAdd(Answered(Req(op, c)), r),
           UNCHANGED stockCode, ShownOK'
    PROVE  StockInv'
<1>1. CallsOK(stockCalls) /\ stockCode \in Stock \cup {NoStock}
  BY StockParts DEF StockInv
<1>2. CallsOK(Answered(Req(op, c))) /\ stockCalls # EmptyBag
  BY <1>1, CallAnswered
<1>3. CallsOK(stockCalls')
  BY <1>2, CallAdded
<1>4. stockCode \in Stock
  BY <1>2 DEF StockInv, Unopened
<1> QED
  BY <1>1, <1>3, <1>4, StockParts DEF StockInv, StockTypeOK, ShownOK, CallsOK, IntervalInv, OneChartInterval

LEMMA StockTypeStep == StockInv /\ [StockNext]_stockVars => StockInv'
<1> SUFFICES ASSUME StockInv, [StockNext]_stockVars
             PROVE  StockInv'
  OBVIOUS
<1>0. /\ IntervalInv /\ IntervalInv' /\ ShownOK /\ CallsOK(stockCalls)
      /\ stockCode \in Stock \cup {NoStock} /\ (stockCode \in Stock \/ Unopened)
  BY IntervalStep, StockParts DEF StockInv
<1>20. ASSUME stockCode' \in Stock, ShownOK', CallsOK(stockCalls')
       PROVE  StockInv'
  BY <1>0, <1>20 DEF StockInv, StockTypeOK, ShownOK, CallsOK, IntervalInv, OneChartInterval
<1>1. ASSUME NEW c \in Stock, NEW t \in {"info", "chart"}, OpenStockModal(c, t)
      PROVE  StockInv'
  <2> DEFINE ch == IF c = stockCode THEN chart ELSE NoKey
             calls == BagAdd(stockCalls, Req("tier", c))
  <2>1. ch \in ChartPane
    BY <1>0 DEF ShownOK, NoKey, ChartPane
  <2>2. CallsOK(calls)
    BY <1>0, RequestShape, CallAdded
  <2>3. t \in Tab
    BY StockAssumption DEF Tab
  <2>4. OnStockTab(t, c, {}, ch, calls)
    BY <1>1 DEF OpenStockModal
  <2>5. stockCode' = c /\ modalOpen' = TRUE /\ stockTab' = t /\ tierBox' = {}
    BY <1>1 DEF OpenStockModal
  <2> HIDE DEF ch, calls
  <2>6. {} \in SUBSET Lazy /\ pane \in [Lazy -> Stock \cup {NoStock, Loading, Failed}]
    BY <1>0 DEF ShownOK
  <2>7. /\ loaded' \subseteq Lazy
        /\ pane' \in [Lazy -> Stock \cup {NoStock, Loading, Failed}]
        /\ chart' \in ChartPane
        /\ CallsOK(stockCalls')
    BY <2>1, <2>2, <2>3, <2>4, <2>6, TabShown
  <2> QED
    BY <1>20, <2>3, <2>5, <2>7 DEF ShownOK
<1>2. ASSUME NEW t \in Tab, ClickTab(t)
      PROVE  StockInv'
  <2>1. stockCode \in Stock
    BY <1>0, <1>2 DEF ClickTab, Unopened
  <2>2. /\ OnStockTab(t, stockCode, loaded, chart, stockCalls) /\ stockTab' = t
        /\ UNCHANGED <<stockCode, modalOpen, tierBox>>
    BY <1>2 DEF ClickTab
  <2>3. /\ loaded \in SUBSET Lazy /\ chart \in ChartPane
        /\ pane \in [Lazy -> Stock \cup {NoStock, Loading, Failed}]
    BY <1>0 DEF ShownOK
  <2>7. /\ loaded' \subseteq Lazy
        /\ pane' \in [Lazy -> Stock \cup {NoStock, Loading, Failed}]
        /\ chart' \in ChartPane
        /\ CallsOK(stockCalls')
    BY <1>0, <2>1, <2>2, <2>3, TabShown
  <2> QED
    BY <1>0, <1>20, <2>1, <2>2, <2>7 DEF ShownOK
<1>3. CASE CloseStockModal
  BY <1>0, <1>3, <1>20 DEF CloseStockModal, ShownOK, Unopened
<1>4. ASSUME NEW t \in Lazy, NEW c \in Stock, PaneAnswer(t, c) \/ PaneFails(t, c)
      PROVE  StockInv'
  <2>1. ShownOK'
    BY <1>0, <1>4 DEF PaneAnswer, PaneFails, ShownOK, chartTab
  <2> QED
    BY <1>0, <1>4, <2>1, DialogueAnswered DEF PaneAnswer, PaneFails
<1>5. ASSUME NEW c \in Stock, EngineHalf(c)
      PROVE  StockInv'
  <2>1. ShownOK'
    BY <1>0, <1>5 DEF EngineHalf, ShownOK, chartTab
  <2>2. Req("signals", c) \in Request
    BY RequestShape
  <2> QED
    BY <1>0, <1>5, <2>1, <2>2, DialogueAnswered DEF EngineHalf
<1>6. ASSUME NEW c \in Stock, EngineAnswer(c)
      PROVE  StockInv'
  <2>1. ShownOK'
    BY <1>0, <1>6 DEF EngineAnswer, ShownOK, chartTab
  <2> QED
    BY <1>0, <1>6, <2>1, DialogueAnswered DEF EngineAnswer
<1>7. ASSUME NEW c \in Stock, NEW there \in BOOLEAN, TierAnswer(c, there)
      PROVE  StockInv'
  <2>1. [code |-> c, busy |-> FALSE] \in Button
    BY DEF Button
  <2>2. ShownOK'
    BY <1>0, <1>7, <2>1 DEF TierAnswer, ShownOK, chartTab
  <2> QED
    BY <1>0, <1>7, <2>2, DialogueAnswered DEF TierAnswer
<1>8. ASSUME NEW b \in tierBox, ClickTier(b)
      PROVE  StockInv'
  <2>1. b \in Button /\ [b EXCEPT !.busy = TRUE] \in Button /\ b.code \in Stock
    BY <1>0 DEF ShownOK, Button
  <2>2. ShownOK'
    BY <1>0, <1>8, <2>1 DEF ClickTier, ShownOK, chartTab
  <2>3. CallsOK(stockCalls')
    BY <1>0, <1>8, <2>1, RequestShape, CallAdded DEF ClickTier
  <2>4. stockCode' \in Stock
    BY <1>0, <1>8 DEF ClickTier, Unopened
  <2> QED
    BY <1>20, <2>2, <2>3, <2>4
<1>9. ASSUME NEW c \in Stock, ModeSwitched(c)
      PROVE  StockInv'
  <2>1. ShownOK'
    BY <1>0, <1>9 DEF ModeSwitched, ShownOK, chartTab
  <2>2. Req("tier", c) \in Request
    BY RequestShape
  <2> QED
    BY <1>0, <1>9, <2>1, <2>2, DialogueAnswered DEF ModeSwitched
<1>10. ASSUME NEW c \in Stock, ModeFails(c)
       PROVE  StockInv'
  <2>1. \A b \in Button : [b EXCEPT !.busy = FALSE] \in Button
    BY DEF Button
  <2>2. ShownOK'
    BY <1>0, <1>10, <2>1 DEF ModeFails, ShownOK, chartTab
  <2> QED
    BY <1>0, <1>10, <2>2, DialogueAnswered DEF ModeFails
<1>11. ASSUME NEW c \in Stock, ChartDates(c)
       PROVE  StockInv'
  <2>1. ShownOK'
    BY <1>0, <1>11 DEF ChartDates, ShownOK, chartTab
  <2>2. stockCode \in Stock
    BY <1>0, <1>11, CallAnswered DEF ChartDates, Unopened
  <2>3. Req("first", stockCode) \in Request
    BY <2>2, RequestShape
  <2> QED
    BY <1>0, <1>11, <2>1, <2>3, DialogueAnswered DEF ChartDates
<1>12. ASSUME NEW op \in {"first", "day", "poll"}, NEW c \in Stock, NEW ok \in BOOLEAN,
              ChartBars(op, c, ok)
       PROVE  StockInv'
  <2>1. \A s \in Stock : [chart EXCEPT !.key = stockCode, !.bars = s] \in ChartPane
    BY <1>0 DEF ShownOK, ChartPane
  <2>2. ShownOK'
    BY <1>0, <1>12, <2>1 DEF ChartBars, ShownOK
  <2> QED
    BY <1>0, <1>12, <2>2, DialogueAnswered DEF ChartBars
<1>13. ASSUME NEW past \in BOOLEAN, PickDay(past)
       PROVE  StockInv'
  <2>1. stockCode \in Stock
    BY <1>0, <1>13 DEF PickDay, Unopened
  <2>2. ShownOK'
    BY <1>0, <1>13 DEF PickDay, ShownOK, ChartPane
  <2>3. CallsOK(stockCalls')
    BY <1>0, <1>13, <2>1, RequestShape, CallAdded DEF PickDay
  <2> QED
    BY <1>13, <1>20, <2>1, <2>2, <2>3 DEF PickDay
<1>14. CASE ChartTick
  <2>1. stockCode \in Stock
    BY <1>0, <1>14 DEF ChartTick, Unopened
  <2>2. ShownOK'
    BY <1>0, <1>14 DEF ChartTick, ShownOK, chartTab
  <2>3. CallsOK(stockCalls')
    BY <1>0, <1>14, <2>1, RequestShape, CallAdded DEF ChartTick
  <2> QED
    BY <1>14, <1>20, <2>1, <2>2, <2>3 DEF ChartTick
<1>15. CASE UNCHANGED stockVars
  BY <1>15 DEF stockVars, StockInv, StockTypeOK, IntervalInv, OneChartInterval, Unopened
<1> QED
  BY <1>1, <1>2, <1>3, <1>4, <1>5, <1>6, <1>7, <1>8, <1>9, <1>10, <1>11, <1>12, <1>13, <1>14,
     <1>15 DEF StockNext
=============================================================================
