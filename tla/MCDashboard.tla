---------------------------- MODULE MCDashboard ----------------------------
(***************************************************************************)
(* The parts of the dashboard side by side.  They share no state in the    *)
(* browser, so one run checks them all without multiplying their states:   *)
(* "part" is the one that moves, the others stay where they start.         *)
(* Three modules are two parts each.  The risk settings: "risk" while the  *)
(* settings do not let the loss guard be opened (override.enabled),        *)
(* "guard" while they do and nobody edits the form.  The stock dialogue:   *)
(* "stock" while its chart tab is not opened, "bars" while it and the      *)
(* first tab are and no stock is in the watch list.  The discovery engine: *)
(* "engine" while its mode stays, "modes" while the tiers of stocks do.    *)
(***************************************************************************)
EXTENDS ChartView, PageRouter, CardLayout, OrdersCard, StockModal, RiskForm,
        DeskSwitches, PositionsCard, WatchPage, EnginePanel, ModelsPage,
        ModelCompare, TnmWatch

VARIABLE part

TwoCards == <<"a", "b">>
OldOrders == {<<"b">>}

MCVars == <<part, chartVars, routerVars, layoutVars, ordersVars, stockVars, riskVars,
            deskVars, posVars, watchVars, engVars, modelsVars, compareVars, tnmVars>>

(* A part that does not move starts in one of its initial states. *)
MCInit ==
    /\ part \in {"chart", "router", "layout", "orders", "stock", "bars", "risk", "guard",
                 "desk", "pos", "watch", "engine", "modes", "models", "compare", "tnm"}
    /\ ChartInit /\ RouterInit /\ LayoutInit /\ OrdersInit
    /\ StockInit /\ RiskInit /\ DeskInit /\ PosInit
    /\ WatchInit /\ EngInit /\ ModelsInit /\ CompareInit
    /\ TnmInit
    /\ part # "layout" => stored = Empty /\ ~full
    /\ part # "desk" => deskSrv = NoDesk
    /\ part # "pos" => account = {}
    /\ part # "watch" => srvWatch = {}
    /\ part \notin {"engine", "modes"} => engSrv = NoData
    /\ part # "tnm" => tnmSrv = NoEntries

OthersStay ==
    /\ IF part = "chart" THEN TRUE ELSE UNCHANGED chartVars
    /\ IF part = "router" THEN TRUE ELSE UNCHANGED routerVars
    /\ IF part = "layout" THEN TRUE ELSE UNCHANGED layoutVars
    /\ IF part = "orders" THEN TRUE ELSE UNCHANGED ordersVars
    /\ IF part \in {"stock", "bars"} THEN TRUE ELSE UNCHANGED stockVars
    /\ IF part \in {"risk", "guard"} THEN TRUE ELSE UNCHANGED riskVars
    /\ IF part = "desk" THEN TRUE ELSE UNCHANGED deskVars
    /\ IF part = "pos" THEN TRUE ELSE UNCHANGED posVars
    /\ IF part = "watch" THEN TRUE ELSE UNCHANGED watchVars
    /\ IF part \in {"engine", "modes"} THEN TRUE ELSE UNCHANGED engVars
    /\ IF part = "models" THEN TRUE ELSE UNCHANGED modelsVars
    /\ IF part = "compare" THEN TRUE ELSE UNCHANGED compareVars
    /\ IF part = "tnm" THEN TRUE ELSE UNCHANGED tnmVars

MCNext ==
    \/ part = "chart" /\ ChartNext /\ OthersStay /\ UNCHANGED part
    \/ part = "router" /\ RouterNext /\ OthersStay /\ UNCHANGED part
    \/ part = "layout" /\ LayoutNext /\ OthersStay /\ UNCHANGED part
    \/ part = "orders" /\ OrdersNext /\ OthersStay /\ UNCHANGED part
    \/ part = "stock" /\ StockNext /\ stockTab' # "chart" /\ OthersStay /\ UNCHANGED part
    \/ /\ part = "bars"
       /\ StockNext /\ stockTab' # "engine" /\ tierBox' = {}
       /\ OthersStay /\ UNCHANGED part
    \/ part = "risk" /\ ovBox' = {} /\ RiskNext /\ OthersStay /\ UNCHANGED part
    \/ /\ part = "guard"
       /\ RiskNext /\ riskFocus' = NoCell /\ ~TickFlag
       /\ OthersStay /\ UNCHANGED part
    \/ part = "desk" /\ DeskNext /\ OthersStay /\ UNCHANGED part
    \/ part = "pos" /\ PosNext /\ OthersStay /\ UNCHANGED part
    \/ part = "watch" /\ WatchNext /\ OthersStay /\ UNCHANGED part
    \/ /\ part = "engine"
       /\ EngNext /\ engSrv'.mode = engSrv.mode /\ (\A m \in EngMode : ~ClickMode(m))
       /\ OthersStay /\ UNCHANGED part
    \/ part = "modes" /\ EngNext /\ engSrv'.tier = engSrv.tier /\ OthersStay /\ UNCHANGED part
    \/ part = "models" /\ ModelsNext /\ OthersStay /\ UNCHANGED part
    \/ part = "compare" /\ CompareNext /\ OthersStay /\ UNCHANGED part
    \/ part = "tnm" /\ TnmNext /\ OthersStay /\ UNCHANGED part

MCSpec == MCInit /\ [][MCNext]_MCVars

(* The type invariants of all the parts: what each keeps in the browser,   *)
(* and the requests it has out, are of the shapes the code gives them.     *)
DashboardTypeOK ==
    /\ part = "chart" => ChartTypeOK
    /\ part = "router" => RouterTypeOK
    /\ part = "layout" => LayoutTypeOK
    /\ part = "orders" => OrdersTypeOK
    /\ part \in {"stock", "bars"} => StockTypeOK
    /\ part \in {"risk", "guard"} => RiskTypeOK
    /\ part = "desk" => DeskTypeOK
    /\ part = "pos" => PosTypeOK
    /\ part = "watch" => WatchTypeOK
    /\ part \in {"engine", "modes"} => EngTypeOK
    /\ part = "models" => ModelsTypeOK
    /\ part = "compare" => CompareTypeOK
    /\ part = "tnm" => TnmTypeOK
=============================================================================
