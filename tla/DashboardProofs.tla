--------------------------- MODULE DashboardProofs ---------------------------
(***************************************************************************)
(* The type invariants of all the parts of the dashboard, together: each   *)
(* part that moves keeps its own invariant, and takes from it that what it *)
(* keeps in the browser has the shapes the code gives it.                  *)
(***************************************************************************)
EXTENDS MCDashboard, FrameProofs, TradingPageProofs, ScoutPageProofs, FormProofs

ChartInv == ChartTypeOK /\ WindowInv

PartInv ==
    /\ part = "chart" => ChartInv
    /\ part = "router" => RouterTypeOK
    /\ part = "layout" => LayoutInv
    /\ part = "orders" => OrdersTypeOK
    /\ part \in {"stock", "bars"} => StockInv
    /\ part \in {"risk", "guard"} => RiskInv
    /\ part = "desk" => SwitchInv
    /\ part = "pos" => WarnedInv
    /\ part = "watch" => WatchTypeOK
    /\ part \in {"engine", "modes"} => EngInv
    /\ part = "models" => ModelsTypeOK
    /\ part = "compare" => CompareInv
    /\ part = "tnm" => TnmTypeOK

LEMMA PartInit == MCInit => PartInv
<1> SUFFICES ASSUME MCInit
             PROVE  PartInv
  OBVIOUS
<1>1. ChartInit /\ RouterInit /\ LayoutInit /\ OrdersInit /\ StockInit /\ RiskInit /\ DeskInit
  BY DEF MCInit
<1>2. PosInit /\ WatchInit /\ EngInit /\ ModelsInit /\ CompareInit /\ TnmInit
  BY DEF MCInit
<1>3. ChartInv /\ RouterTypeOK /\ LayoutInv
  BY <1>1, WindowInit, ChartTypeInit, RouterTypeInit, LayoutStart DEF ChartInv
<1>4. OrdersTypeOK /\ StockInv /\ RiskInv /\ SwitchInv
  BY <1>1, OrdersTypeInit, StockTypeInit, RiskTypeInit, SwitchInit
<1>5. WarnedInv /\ WatchTypeOK /\ EngInv
  BY <1>2, WarnedInit, WatchTypeInit, EngTypeInit
<1>6. ModelsTypeOK /\ CompareInv /\ TnmTypeOK
  BY <1>2, ModelsTypeInit, CompareTypeInit, TnmTypeInit
<1> QED
  BY <1>3, <1>4, <1>5, <1>6 DEF PartInv

LEMMA ChartInvStep == ChartInv /\ [ChartNext]_chartVars => ChartInv'
  BY WindowStep, ChartTypeStep DEF ChartInv

LEMMA PartStep == PartInv /\ [MCNext]_MCVars => PartInv'
<1> SUFFICES ASSUME PartInv, [MCNext]_MCVars
             PROVE  PartInv'
  OBVIOUS
<1>1. part' = part
  BY DEF MCNext, MCVars
<1>2. CASE part = "chart"
  <2>1. [ChartNext]_chartVars
    BY <1>2 DEF MCNext, MCVars
  <2> QED
    BY <1>1, <1>2, <2>1, ChartInvStep DEF PartInv
<1>3. CASE part = "router"
  <2>1. [RouterNext]_routerVars
    BY <1>3 DEF MCNext, MCVars
  <2> QED
    BY <1>1, <1>3, <2>1, RouterTypeStep DEF PartInv
<1>4. CASE part = "layout"
  <2>1. [LayoutNext]_layoutVars
    BY <1>4 DEF MCNext, MCVars
  <2> QED
    BY <1>1, <1>4, <2>1, LayoutStep DEF PartInv
<1>5. CASE part = "orders"
  <2>1. [OrdersNext]_ordersVars
    BY <1>5 DEF MCNext, MCVars
  <2> QED
    BY <1>1, <1>5, <2>1, OrdersTypeStep DEF PartInv
<1>6. CASE part \in {"stock", "bars"}
  <2>1. [StockNext]_stockVars
    BY <1>6 DEF MCNext, MCVars
  <2> QED
    BY <1>1, <1>6, <2>1, StockTypeStep DEF PartInv
<1>7. CASE part \in {"risk", "guard"}
  <2>1. [RiskNext]_riskVars
    BY <1>7 DEF MCNext, MCVars
  <2> QED
    BY <1>1, <1>7, <2>1, RiskTypeStep DEF PartInv
<1>8. CASE part = "desk"
  <2>1. [DeskNext]_deskVars
    BY <1>8 DEF MCNext, MCVars
  <2> QED
    BY <1>1, <1>8, <2>1, SwitchStep DEF PartInv
<1>9. CASE part = "pos"
  <2>1. [PosNext]_posVars
    BY <1>9 DEF MCNext, MCVars
  <2> QED
    BY <1>1, <1>9, <2>1, WarnedStep DEF PartInv
<1>10. CASE part = "watch"
  <2>1. [WatchNext]_watchVars
    BY <1>10 DEF MCNext, MCVars
  <2> QED
    BY <1>1, <1>10, <2>1, WatchTypeStep DEF PartInv
<1>11. CASE part \in {"engine", "modes"}
  <2>1. [EngNext]_engVars
    BY <1>11 DEF MCNext, MCVars
  <2> QED
    BY <1>1, <1>11, <2>1, EngTypeStep DEF PartInv
<1>12. CASE part = "models"
  <2>1. [ModelsNext]_modelsVars
    BY <1>12 DEF MCNext, MCVars
  <2> QED
    BY <1>1, <1>12, <2>1, ModelsTypeStep DEF PartInv
<1>13. CASE part = "compare"
  <2>1. [CompareNext]_compareVars
    BY <1>13 DEF MCNext, MCVars
  <2> QED
    BY <1>1, <1>13, <2>1, CompareTypeStep DEF PartInv
<1>14. CASE part = "tnm"
  <2>1. [TnmNext]_tnmVars
    BY <1>14 DEF MCNext, MCVars
  <2> QED
    BY <1>1, <1>14, <2>1, TnmTypeStep DEF PartInv
<1>15. CASE part \notin {"chart", "router", "layout", "orders", "stock", "bars", "risk", "guard",
                         "desk", "pos", "watch", "engine", "modes", "models", "compare", "tnm"}
  BY <1>1, <1>15 DEF PartInv
<1> QED
  BY <1>2, <1>3, <1>4, <1>5, <1>6, <1>7, <1>8, <1>9, <1>10, <1>11, <1>12, <1>13, <1>14, <1>15

(* Whatever answers come late, twice or not at all, the memos, forms,      *)
(* buttons and requests of every part keep the shapes its code relies on:  *)
(* app.js, layout.js, chart.js, tradelib.js and the pages.                 *)
THEOREM DashboardTyped == MCSpec => []DashboardTypeOK
<1>1. ChartInv => ChartTypeOK
  BY DEF ChartInv
<1>2. StockInv => StockTypeOK
  BY DEF StockInv
<1>3. SwitchInv => DeskTypeOK
  BY DEF SwitchInv
<1>4. WarnedInv => PosTypeOK
  BY DEF WarnedInv
<1>5. EngInv => EngTypeOK
  BY DEF EngInv
<1>6. CompareInv => CompareTypeOK
  BY DEF CompareInv
<1>7. PartInv => DashboardTypeOK
  BY <1>1, <1>2, <1>3, <1>4, <1>5, <1>6, LayoutTyped, RiskTyped DEF PartInv, DashboardTypeOK
<1> QED
  BY <1>7, PartInit, PartStep, PTL DEF MCSpec
=============================================================================
