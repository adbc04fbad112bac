----------------------------- MODULE StockModal -----------------------------
(***************************************************************************)
(* The stock dialogue of the trading pages, tradelib.js: one dialogue for  *)
(* all stocks, opened from any link, whose four tabs and whose watch-list  *)
(* button are filled by requests that may answer when the dialogue already *)
(* shows another stock.                                                    *)
(***************************************************************************)
EXTENDS Integers, Bags, BagsExt

CONSTANTS
    Stock,
    NoStock,
    Lazy,           \* tabs loaded when first shown: info, news and engine
    MaxCalls        \* bound: requests under way

ASSUME StockAssumption ==
    /\ NoStock \notin Stock
    /\ Lazy \subseteq {"info", "news", "engine"} /\ "info" \in Lazy
    /\ MaxCalls \in Nat

Tab == Lazy \cup {"chart"}
Loading == "loading"
Failed == "failed"

VARIABLES
    stockCode,      \* _STOCK_MODAL.code
    modalOpen,
    stockTab,       \* the visible tab
    loaded,         \* tabs loaded since the dialogue was opened
    pane,           \* what each lazy tab shows: a stock, or one of the texts
    tierBox,        \* the buttons that switch a stock's watch mode
    chart,          \* stock of the chart's key, whether a past day is chosen, and
                    \* the stock whose bars are painted
    timer,          \* _STOCK_MODAL.timer is set
    intervals,      \* intervals that run
    stockCalls      \* the requests under way, a bag

stockVars == <<stockCode, modalOpen, stockTab, loaded, pane, tierBox, chart,
               timer, intervals, stockCalls>>
chartTab == <<chart, timer, intervals>>

(* "engine" and "signals" are the two requests of _loadEngine, "dates" and *)
(* "first" those of _showChartTab, "day" is the one of a date the user     *)
(* picks, "poll" the one of the interval.                                  *)
Request == [op: Lazy \cup {"signals", "tier", "mode", "dates", "first", "day", "poll"},
            code: Stock]
Req(op, c) == [op |-> op, code |-> c]
Button == [code: Stock, busy: BOOLEAN]
ChartPane == [key: Stock \cup {NoStock}, past: BOOLEAN, bars: Stock \cup {NoStock}]

StockTypeOK ==
    /\ stockCode \in Stock \cup {NoStock}
    /\ modalOpen \in BOOLEAN
    /\ stockTab \in Tab
    /\ loaded \subseteq Lazy
    /\ pane \in [Lazy -> Stock \cup {NoStock, Loading, Failed}]
    /\ tierBox \subseteq Button
    /\ chart \in ChartPane
    /\ timer \in BOOLEAN
    /\ intervals \in Nat
    /\ IsABag(stockCalls) /\ BagToSet(stockCalls) \subseteq Request

StockInit ==
    /\ stockCode = NoStock
    /\ modalOpen = FALSE
    /\ stockTab = "info"
    /\ loaded = {}
    /\ pane = [t \in Lazy |-> NoStock]
    /\ tierBox = {}
    /\ chart = [key |-> NoStock, past |-> FALSE, bars |-> NoStock]
    /\ timer = FALSE
    /\ intervals = 0
    /\ stockCalls = EmptyBag

-----------------------------------------------------------------------------
Room == BagCardinality(stockCalls) < MaxCalls
Waiting(r) == BagIn(r, stockCalls)
Answered(r) == BagRemove(stockCalls, r)

(* _chartTimerStop; clearing an interval leaves any other one running. *)
TimerStop == timer' = FALSE /\ intervals' = intervals - (IF timer THEN 1 ELSE 0)

(* Fault: an interval is set beside the one that runs. *)
TimerAdded == timer' = TRUE /\ intervals' = intervals + 1

TimerSet == timer' = TRUE /\ intervals' = intervals - (IF timer THEN 1 ELSE 0) + 1

(* _onStockTab for stock c, with the tabs in done loaded; the chart's two  *)
(* requests follow each other, the first only when the key is of another   *)
(* stock.                                                                  *)
OnStockTab(t, c, done, ch, calls) ==
    /\ TimerStop
    /\ IF t = "chart"
       THEN /\ loaded' = done /\ UNCHANGED pane
            /\ IF ch.key # c
               THEN /\ chart' = [ch EXCEPT !.past = FALSE]
                    /\ stockCalls' = BagAdd(calls, Req("dates", c))
               ELSE chart' = ch /\ stockCalls' = BagAdd(calls, Req("first", c))
       ELSE /\ chart' = ch
            /\ loaded' = done \cup {t}
            /\ IF t \in done
               THEN UNCHANGED pane /\ stockCalls' = calls
               ELSE /\ pane' = [pane EXCEPT ![t] = Loading]
                    /\ stockCalls' = BagAdd(calls, Req(t, c))

(* The dialogue turns to another stock; the painted bars stay. *)
NoKey == [chart EXCEPT !.key = NoStock, !.past = FALSE]

OpenStockModal(c, t) ==
    /\ Room
    /\ stockCode' = c
    /\ modalOpen' = TRUE
    /\ stockTab' = t
    /\ tierBox' = {}
    /\ OnStockTab(t, c, {},
                  IF c = stockCode THEN chart ELSE NoKey,
                  BagAdd(stockCalls, Req("tier", c)))

ClickTab(t) ==
    /\ modalOpen /\ Room
    /\ stockTab' = t
    /\ OnStockTab(t, stockCode, loaded, chart, stockCalls)
    /\ UNCHANGED <<stockCode, modalOpen, tierBox>>

(* hidden.bs.modal *)
CloseStockModal ==
    /\ modalOpen
    /\ modalOpen' = FALSE
    /\ TimerStop
    /\ UNCHANGED <<stockCode, stockTab, loaded, pane, tierBox, chart, stockCalls>>

(* Fault: a late answer is painted whichever stock is open. *)
PaneAnswerUnchecked(t, c) ==
    /\ Waiting(Req(t, c))
    /\ stockCalls' = Answered(Req(t, c))
    /\ pane' = [pane EXCEPT ![t] = c]
    /\ UNCHANGED <<stockCode, modalOpen, stockTab, loaded, tierBox, chartTab>>

(* _renderInfo and _loadNews: an answer of another stock is dropped, but   *)
(* its failure is shown and makes the tab load again.                      *)
PaneAnswer(t, c) ==
    /\ Waiting(Req(t, c))
    /\ stockCalls' = Answered(Req(t, c))
    /\ pane' = IF stockCode = c THEN [pane EXCEPT ![t] = c] ELSE pane
    /\ UNCHANGED <<stockCode, modalOpen, stockTab, loaded, tierBox, chartTab>>

PaneFails(t, c) ==
    /\ Waiting(Req(t, c))
    /\ stockCalls' = Answered(Req(t, c))
    /\ loaded' = loaded \ {t}
    /\ pane' = [pane EXCEPT ![t] = Failed]
    /\ UNCHANGED <<stockCode, modalOpen, stockTab, tierBox, chartTab>>

(* _loadEngine makes its second request whether or not the first failed,   *)
(* and shows which of them did.                                            *)
EngineHalf(c) ==
    /\ Waiting(Req("engine", c))
    /\ stockCalls' = BagAdd(Answered(Req("engine", c)), Req("signals", c))
    /\ UNCHANGED <<stockCode, modalOpen, stockTab, loaded, pane, tierBox, chartTab>>

EngineAnswer(c) ==
    /\ Waiting(Req("signals", c))
    /\ stockCalls' = Answered(Req("signals", c))
    /\ pane' = IF stockCode = c THEN [pane EXCEPT !["engine"] = c] ELSE pane
    /\ UNCHANGED <<stockCode, modalOpen, stockTab, loaded, tierBox, chartTab>>

-----------------------------------------------------------------------------
(* The watch mode *)

(* The end of _loadTier; no button without an entry in the watch list, and *)
(* nothing at all on a failure.                                            *)
TierAnswer(c, listedThere) ==
    /\ Waiting(Req("tier", c))
    /\ stockCalls' = Answered(Req("tier", c))
    /\ tierBox' = IF listedThere /\ stockCode = c
                  THEN tierBox \cup {[code |-> c, busy |-> FALSE]}
                  ELSE tierBox
    /\ UNCHANGED <<stockCode, modalOpen, stockTab, loaded, pane, chartTab>>

ClickTier(b) ==
    /\ modalOpen /\ Room
    /\ b \in tierBox /\ ~b.busy
    /\ tierBox' = (tierBox \ {b}) \cup {[b EXCEPT !.busy = TRUE]}
    /\ stockCalls' = BagAdd(stockCalls, Req("mode", b.code))
    /\ UNCHANGED <<stockCode, modalOpen, stockTab, loaded, pane, chartTab>>

(* The box is emptied and loaded again, whichever stock it shows by now. *)
ModeSwitched(c) ==
    /\ Waiting(Req("mode", c))
    /\ stockCalls' = BagAdd(Answered(Req("mode", c)), Req("tier", c))
    /\ tierBox' = {}
    /\ UNCHANGED <<stockCode, modalOpen, stockTab, loaded, pane, chartTab>>

ModeFails(c) ==
    /\ Waiting(Req("mode", c))
    /\ stockCalls' = Answered(Req("mode", c))
    /\ tierBox' = {IF b.code = c THEN [b EXCEPT !.busy = FALSE] ELSE b : b \in tierBox}
    /\ UNCHANGED <<stockCode, modalOpen, stockTab, loaded, pane, chartTab>>

-----------------------------------------------------------------------------
(* The chart *)

(* _chartDates returned, with days or without: the bars are asked for, of  *)
(* the stock the dialogue shows by now.                                    *)
ChartDates(c) ==
    /\ Waiting(Req("dates", c))
    /\ stockCalls' = BagAdd(Answered(Req("dates", c)), Req("first", stockCode))
    /\ UNCHANGED <<stockCode, modalOpen, stockTab, loaded, pane, tierBox, chartTab>>

(* _chartLoad: the bars are painted whichever stock the dialogue shows by  *)
(* now, and the key is computed when they arrive.                          *)
ChartBars(op, c, ok) ==
    /\ op \in {"first", "day", "poll"}
    /\ Waiting(Req(op, c))
    /\ stockCalls' = Answered(Req(op, c))
    /\ chart' = IF ok THEN [chart EXCEPT !.key = stockCode, !.bars = c] ELSE chart
    /\ IF op = "first" THEN TimerSet ELSE UNCHANGED <<timer, intervals>>
    /\ UNCHANGED <<stockCode, modalOpen, stockTab, loaded, pane, tierBox>>

(* The date field and the button of today. *)
PickDay(isPast) ==
    /\ modalOpen /\ stockTab = "chart" /\ Room
    /\ chart' = [chart EXCEPT !.past = isPast]
    /\ stockCalls' = BagAdd(stockCalls, Req("day", stockCode))
    /\ UNCHANGED <<stockCode, modalOpen, stockTab, loaded, pane, tierBox, timer, intervals>>

ChartTick ==
    /\ intervals > 0 /\ ~chart.past /\ Room
    /\ stockCalls' = BagAdd(stockCalls, Req("poll", stockCode))
    /\ UNCHANGED <<stockCode, modalOpen, stockTab, loaded, pane, tierBox, chartTab>>

StockNext ==
    \/ \E c \in Stock, t \in {"info", "chart"} : OpenStockModal(c, t)
    \/ \E t \in Tab : ClickTab(t)
    \/ CloseStockModal
    \/ \E t \in Lazy \ {"engine"}, c \in Stock : PaneAnswer(t, c) \/ PaneFails(t, c)
    \/ \E c \in Stock : EngineHalf(c) \/ EngineAnswer(c)
    \/ \E c \in Stock, there \in BOOLEAN : TierAnswer(c, there)
    \/ \E b \in tierBox : ClickTier(b)
    \/ \E c \in Stock : ModeSwitched(c) \/ ModeFails(c) \/ ChartDates(c)
    \/ \E op \in {"first", "day", "poll"}, c \in Stock, ok \in BOOLEAN : ChartBars(op, c, ok)
    \/ \E isPast \in BOOLEAN : PickDay(isPast)
    \/ ChartTick

StockSpec == StockInit /\ [][StockNext]_stockVars

(* The chart of stock c is loaded again: an interval does, or a request of *)
(* _showChartTab is under way.                                             *)
BarsComing(c) == timer \/ Waiting(Req("dates", c)) \/ Waiting(Req("first", c))

-----------------------------------------------------------------------------
(* Whatever answers are late, a visible lazy tab and the watch-mode button *)
(* are of the stock in the title: one stock's figures are not read under   *)
(* the name of another, nor is the mode switched of one that is not shown. *)
(* (tradelib.js:260, 371, 536, 566: late answers are dropped.)  The chart  *)
(* tab drops none (491-507): bars of an earlier stock may be painted under *)
(* the title, and they give way to a load that is under way or that the    *)
(* interval makes, unless a past day is chosen: then nothing loads again.  *)
DialogueShowsItsStock ==
    modalOpen =>
        /\ stockTab \in Lazy => pane[stockTab] \in {stockCode, Loading, Failed}
        /\ \A b \in tierBox : b.code = stockCode
        /\ stockTab = "chart" /\ chart.bars \notin {stockCode, NoStock} =>
             chart.past \/ BarsComing(stockCode)

(* At most one interval polls for the chart, however often the tab is      *)
(* opened while its first requests are out; the one that runs can be       *)
(* stopped.  (tradelib.js:405-407, 509-521.)                               *)
OneChartInterval == intervals = (IF timer THEN 1 ELSE 0)
=============================================================================
