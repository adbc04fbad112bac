----------------------------- MODULE FormProofs -----------------------------
(***************************************************************************)
(* Theorems about the forms of the dashboard that polls repaint: the risk  *)
(* settings (RiskForm), the page of language models (ModelsPage), their    *)
(* comparison (ModelCompare) and the watch list of the news settings       *)
(* (TnmWatch), for any fields, models and stocks.                          *)
(***************************************************************************)
EXTENDS RiskForm, ModelsPage, ModelCompare, TnmWatch, TLAPS

-----------------------------------------------------------------------------
(* The models *)

ListInv == /\ ChosenAreListed
           /\ mdlList # {} => mdlOptions = mdlList

LEMMA ListStep == ListInv /\ [ModelsNext]_modelsVars => ListInv'
<1> SUFFICES ASSUME ListInv, [ModelsNext]_modelsVars
             PROVE  ListInv'
  OBVIOUS
<1> USE DEF ListInv, ChosenAreListed
<1>1. ASSUME NEW l \in mdlLoads, ServeModels(l)
      PROVE  ListInv'
  BY <1>1 DEF ServeModels
<1>2. ASSUME NEW l \in mdlLoads, LoadInstalled(l)
      PROVE  ListInv'
  BY <1>2 DEF LoadInstalled, Chosen
<1>3. ASSUME NEW l \in mdlLoads, LoadCatalog(l)
      PROVE  ListInv'
  BY <1>3 DEF LoadCatalog
<1>4. ASSUME NEW l \in mdlLoads, NEW lost \in BOOLEAN, LoadModelsFails(l, lost)
      PROVE  ListInv'
  BY <1>4 DEF LoadModelsFails
<1>5. ASSUME NEW parts, Refresh(parts)
      PROVE  ListInv'
  BY <1>5 DEF Refresh
<1>6. ASSUME NEW m \in Model, ClickDelete(m) \/ PullFinishes(m)
      PROVE  ListInv'
  BY <1>6 DEF ClickDelete, PullFinishes
<1>7. ASSUME NEW m \in Model, NEW typed \in BOOLEAN, ClickInstall(m, typed)
      PROVE  ListInv'
  BY <1>7 DEF ClickInstall
<1>8. ASSUME NEW p \in mdlPosts, ModelPosted(p)
      PROVE  ListInv'
  BY <1>8 DEF ModelPosted
<1>9. ASSUME NEW a \in Model, NEW b \in Model, ChooseModels(a, b)
      PROVE  ListInv'
  BY <1>9 DEF ChooseModels
<1>10. CASE UNCHANGED modelsVars
  BY <1>10 DEF modelsVars
<1> QED
  BY <1>1, <1>2, <1>3, <1>4, <1>5, <1>6, <1>7, <1>8, <1>9, <1>10 DEF ModelsNext

(* The comparison never names a model the list no longer has: llm-models.js*)
(* 211-277, 699-707.                                                       *)
THEOREM ChoiceFollowsList == ModelsSpec => []ChosenAreListed
<1>1. ModelsInit => ListInv
  BY DEF ModelsInit, ListInv, ChosenAreListed
<1>2. ListInv => ChosenAreListed
  BY DEF ListInv
<1> QED
  BY <1>1, <1>2, ListStep, PTL DEF ModelsSpec

-----------------------------------------------------------------------------
(* The comparison.  Its button is disabled as long as its loop runs, so    *)
(* there is one loop, of the newest click.                                 *)
LoopInv ==
    /\ abClicks \in Nat
    /\ abLoops \subseteq [click: {abClicks}, at: {"post", "wait", "ask"}, polls: Int]
    /\ abLoops # {} => abRunOff
    /\ \A l, m \in abLoops : l = m
    /\ ComparisonShowsNewest

LEMMA LoopStep == LoopInv /\ [CompareNext]_compareVars => LoopInv'
<1> SUFFICES ASSUME LoopInv, [CompareNext]_compareVars
             PROVE  LoopInv'
  OBVIOUS
<1> USE DEF LoopInv, ComparisonShowsNewest
<1>1. CASE ClickCompare
  <2> DEFINE new == [click |-> abClicks', at |-> "post", polls |-> 0]
  <2>1. abLoops = {} /\ abClicks' = abClicks + 1
    BY <1>1 DEF ClickCompare
  <2>2. abLoops' = {new} /\ abRunOff' = TRUE /\ abOut' = NoOut
    BY <1>1, <2>1 DEF ClickCompare
  <2>3. new \in [click: {abClicks'}, at: {"post", "wait", "ask"}, polls: Int]
    OBVIOUS
  <2> HIDE DEF new
  <2> QED
    BY <2>1, <2>2, <2>3 DEF NoOut
<1>2. ASSUME NEW l \in abLoops, EndCompare(l), UNCHANGED abClicks,
             NEW state, ShowComparison(l.click, state)
      PROVE  LoopInv'
  BY <1>2 DEF EndCompare, ShowComparison
<1>3. ASSUME NEW l \in abLoops, UNCHANGED <<abRunOff, abClicks>>,
             NEW m \in [click: {abClicks}, at: {"post", "wait", "ask"}, polls: Int],
             abLoops' = (abLoops \ {l}) \cup {m}, abOut'.click \in {0, abClicks}
      PROVE  LoopInv'
  BY <1>3
<1>4. ASSUME NEW l \in abLoops, NEW state, NEW more, SideAnswered(l, state, more)
      PROVE  LoopInv'
  <2> DEFINE m == [l EXCEPT !.at = "wait"]
  <2>1. ShowComparison(l.click, state) /\ UNCHANGED abClicks
    BY <1>4 DEF SideAnswered
  <2>2. CASE EndCompare(l)
    BY <1>2, <2>1, <2>2
  <2>3. CASE ~EndCompare(l)
    <3>1. m \in [click: {abClicks}, at: {"post", "wait", "ask"}, polls: Int]
      OBVIOUS
    <3>2. abLoops' = (abLoops \ {l}) \cup {m} /\ UNCHANGED abRunOff
      BY <1>4, <2>3 DEF SideAnswered
    <3>3. abOut'.click = abClicks
      BY <2>1 DEF ShowComparison
    <3> HIDE DEF m
    <3> QED
      BY <1>3, <2>1, <3>1, <3>2, <3>3
  <2> QED
    BY <2>2, <2>3
<1>5. ASSUME NEW l \in abLoops, ComparePolls(l)
      PROVE  LoopInv'
  <2> DEFINE m == [l EXCEPT !.at = "ask", !.polls = @ + 1]
  <2>0. l \in [click: {abClicks}, at: {"post", "wait", "ask"}, polls: Int]
    OBVIOUS
  <2>3. l.polls + 1 \in Int
    BY <2>0
  <2>1. m \in [click: {abClicks}, at: {"post", "wait", "ask"}, polls: Int]
    BY <2>0, <2>3
  <2>2. abLoops' = (abLoops \ {l}) \cup {m} /\ UNCHANGED <<abRunOff, abClicks, abOut>>
    BY <1>5 DEF ComparePolls
  <2> HIDE DEF m
  <2> QED
    BY <1>3, <2>1, <2>2
<1>6. ASSUME NEW l \in abLoops, CompareFails(l)
      PROVE  LoopInv'
  BY <1>2, <1>6 DEF CompareFails
<1>7. ASSUME NEW k \in AbClick, RunFinishes(k)
      PROVE  LoopInv'
  BY <1>7 DEF RunFinishes
<1>8. CASE UNCHANGED compareVars
  BY <1>8 DEF compareVars
<1> QED
  BY <1>1, <1>4, <1>5, <1>6, <1>7, <1>8 DEF CompareNext, CompareAnswer, CompareRefused

(* No comparison but the newest is painted: llm-models.js:762-791.         *)
THEOREM NewestComparison == CompareSpec => []ComparisonShowsNewest
<1>1. CompareInit => LoopInv
  BY DEF CompareInit, LoopInv, ComparisonShowsNewest, NoOut
<1>2. LoopInv => ComparisonShowsNewest
  BY DEF LoopInv
<1> QED
  BY <1>1, <1>2, LoopStep, PTL DEF CompareSpec

-----------------------------------------------------------------------------
(* The watch list of the news.  What was typed and not sent is marked, and *)
(* no save that is under way takes that mark away.                         *)
IsTnmRun(r) ==
    r \in [op: {r.op}, row: {r.row}, want: {r.want}, inTable: {r.inTable}, at: {r.at}, data: {r.data}]

MarkInv ==
    /\ \A r \in tnmRuns : IsTnmRun(r)
    /\ unsent \subseteq dirty
    /\ \A r \in tnmRuns : r.op = "save" => r.row \notin unsent

LEMMA NewTnmShape ==
    ASSUME NEW op, NEW t, NEW want, NEW at
    PROVE  /\ IsTnmRun(NewTnm(op, t, want, at))
           /\ NewTnm(op, t, want, at).op = op /\ NewTnm(op, t, want, at).row = t
  BY DEF NewTnm, IsTnmRun

LEMMA TnmMoved ==
    ASSUME NEW r, IsTnmRun(r), NEW at
    PROVE  /\ IsTnmRun([r EXCEPT !.at = at])
           /\ [r EXCEPT !.at = at].op = r.op /\ [r EXCEPT !.at = at].row = r.row
<1> DEFINE s == [r EXCEPT !.at = at]
<1>1. s \in [op: {r.op}, row: {r.row}, want: {r.want}, inTable: {r.inTable}, at: {at}, data: {r.data}]
  BY DEF IsTnmRun
<1> HIDE DEF s
<1>2. IsTnmRun(s) /\ s.op = r.op /\ s.row = r.row
  BY <1>1 DEF IsTnmRun
<1> QED
  BY <1>2 DEF s

LEMMA TnmPaintedOver ==
    ASSUME NEW r, IsTnmRun(r)
    PROVE  IsTnmRun([r EXCEPT !.inTable = FALSE])
<1> DEFINE s == [r EXCEPT !.inTable = FALSE]
<1>1. s \in [op: {r.op}, row: {r.row}, want: {r.want}, inTable: {FALSE}, at: {r.at}, data: {r.data}]
  BY DEF IsTnmRun
<1> HIDE DEF s
<1>2. IsTnmRun(s)
  BY <1>1 DEF IsTnmRun
<1> QED
  BY <1>2 DEF s

(* A handler goes on; the marks it leaves are enough. *)
LEMMA TnmGoesOn ==
    ASSUME MarkInv, NEW r \in tnmRuns, NEW s, IsTnmRun(s), s.op = r.op, s.row = r.row,
           TnmStep(r, s), UNCHANGED <<dirty, unsent>>
    PROVE  MarkInv'
  BY DEF MarkInv, TnmStep

LEMMA TnmBegins ==
    ASSUME MarkInv, NEW s, IsTnmRun(s), tnmRuns' = tnmRuns \cup {s}, UNCHANGED dirty,
           unsent' \subseteq unsent, s.op = "save" => s.row \notin unsent'
    PROVE  MarkInv'
  BY DEF MarkInv

LEMMA MarkStep == MarkInv /\ [TnmNext]_tnmVars => MarkInv'
<1> SUFFICES ASSUME MarkInv, [TnmNext]_tnmVars
             PROVE  MarkInv'
  OBVIOUS
<1>1. ASSUME NEW t \in Ticker, ClickSaveRow(t)
      PROVE  MarkInv'
  <2>1. tnmRuns' = tnmRuns \cup {NewTnm("save", t, thField[t], "post")} /\ dirty' = dirty
        /\ unsent' = unsent \ {t}
    BY <1>1 DEF ClickSaveRow, BeginTnm
  <2> QED
    BY <2>1, NewTnmShape, TnmBegins
<1>2. ASSUME NEW t \in Ticker, ClickToggleRow(t)
      PROVE  MarkInv'
  <2>1. tnmRuns' = tnmRuns \cup {NewTnm("toggle", t, NoEntries[t], "post")}
        /\ UNCHANGED <<dirty, unsent>>
    BY <1>2 DEF ClickToggleRow, BeginTnm
  <2>2. NewTnm("toggle", t, NoEntries[t], "post").op # "save"
    BY NewTnmShape
  <2> QED
    BY <2>1, <2>2, NewTnmShape, TnmBegins
<1>3. ASSUME NEW t \in Ticker, NEW v \in Threshold, TypeThreshold(t, v)
      PROVE  MarkInv'
  BY <1>3 DEF TypeThreshold, MarkInv, SavesOf
<1>4. ASSUME NEW t \in Ticker, NEW v \in Threshold, OtherPageChanges(t, v)
      PROVE  MarkInv'
  BY <1>4 DEF OtherPageChanges, MarkInv
<1>5. CASE LeaveTable
  BY <1>5 DEF LeaveTable, MarkInv
<1>6. CASE ClickAddOrSync
  <2>1. PICK t \in Ticker : tnmRuns' = tnmRuns \cup {NewTnm("sync", t, NoEntries[t], "post")}
    BY <1>6 DEF ClickAddOrSync, BeginTnm
  <2>2. NewTnm("sync", t, NoEntries[t], "post").op # "save" /\ UNCHANGED <<dirty, unsent>>
    BY <1>6, NewTnmShape DEF ClickAddOrSync
  <2> QED
    BY <2>1, <2>2, NewTnmShape, TnmBegins
<1>7. CASE PollTnm
  <2>1. PICK t \in Ticker : tnmRuns' = tnmRuns \cup {NewTnm("poll", t, NoEntries[t], "ask")}
    BY <1>7 DEF PollTnm, BeginTnm
  <2>2. NewTnm("poll", t, NoEntries[t], "ask").op # "save" /\ UNCHANGED <<dirty, unsent>>
    BY <1>7, NewTnmShape DEF PollTnm
  <2> QED
    BY <2>1, <2>2, NewTnmShape, TnmBegins
<1>8. ASSUME NEW r \in tnmRuns, ServeRow(r)
      PROVE  MarkInv'
  <2>1. TnmStep(r, [r EXCEPT !.at = "done"]) /\ UNCHANGED <<dirty, unsent>>
    BY <1>8 DEF ServeRow
  <2> QED
    BY <2>1, TnmMoved, TnmGoesOn DEF MarkInv
<1>9. ASSUME NEW r \in tnmRuns, ServeTnm(r)
      PROVE  MarkInv'
  <2> DEFINE s == [r EXCEPT !.at = "read", !.data = tnmSrv]
  <2>1. s \in [op: {r.op}, row: {r.row}, want: {r.want}, inTable: {r.inTable}, at: {"read"}, data: {tnmSrv}]
    BY DEF MarkInv, IsTnmRun
  <2>2. TnmStep(r, s) /\ UNCHANGED <<dirty, unsent>>
    BY <1>9 DEF ServeTnm
  <2> HIDE DEF s
  <2>3. IsTnmRun(s) /\ s.op = r.op /\ s.row = r.row
    BY <2>1 DEF IsTnmRun
  <2> QED
    BY <2>2, <2>3, TnmGoesOn
<1>10. ASSUME NEW r \in tnmRuns, RowPosted(r)
       PROVE  MarkInv'
  <2>1. CASE r.op = "save"
    BY <1>10, <2>1 DEF RowPosted, MarkInv
  <2>2. CASE r.op # "save"
    <3>1. TnmStep(r, [r EXCEPT !.at = "ask"]) /\ UNCHANGED <<dirty, unsent>>
      BY <1>10, <2>2 DEF RowPosted
    <3> QED
      BY <3>1, TnmMoved, TnmGoesOn DEF MarkInv
  <2> QED
    BY <2>1, <2>2
<1>11. ASSUME NEW r \in tnmRuns, TnmFails(r)
       PROVE  MarkInv'
  BY <1>11 DEF TnmFails, MarkInv
<1>12. ASSUME NEW r \in tnmRuns, LoadTnmWatch(r)
       PROVE  MarkInv'
  <2>1. CASE tnmMemo = Table(r.data) \/ Editing
    BY <1>12, <2>1 DEF LoadTnmWatch, MarkInv
  <2>2. CASE ~(tnmMemo = Table(r.data) \/ Editing)
    <3>1. unsent = {} /\ unsent' = {}
      BY <1>12, <2>2 DEF LoadTnmWatch, Editing, MarkInv
    <3>2. tnmRuns' = {[s EXCEPT !.inTable = FALSE] : s \in tnmRuns \ {r}}
      BY <1>12, <2>2 DEF LoadTnmWatch
    <3>3. \A s \in tnmRuns' : IsTnmRun(s)
      BY <3>2, TnmPaintedOver DEF MarkInv
    <3> QED
      BY <3>1, <3>3 DEF MarkInv
  <2> QED
    BY <2>1, <2>2
<1>13. CASE UNCHANGED tnmVars
  BY <1>13 DEF tnmVars, MarkInv
<1> QED
  BY <1>1, <1>2, <1>3, <1>4, <1>5, <1>6, <1>7, <1>8, <1>9, <1>10, <1>11, <1>12, <1>13 DEF TnmNext

(* A poll never takes away a threshold that was typed and not saved:       *)
(* tnm-settings.js:135-194.                                                *)
THEOREM ThresholdSurvives == TnmSpec => UnsentThresholdKept
<1>1. TnmInit => MarkInv
  BY DEF TnmInit, MarkInv
<1>2. MarkInv => \A r \in tnmRuns : LoadTnmWatch(r) => \A t \in unsent : thField'[t] = thField[t]
  BY DEF MarkInv, LoadTnmWatch, Editing
<1>3. MarkInv /\ [TnmNext]_tnmVars
        => [\A r \in tnmRuns : LoadTnmWatch(r) =>
               \A t \in unsent : thField'[t] = thField[t]]_tnmVars
  BY <1>2
<1> QED
  BY <1>1, <1>3, MarkStep, PTL DEF TnmSpec, UnsentThresholdKept

-----------------------------------------------------------------------------
(* The risk settings.  What a request carries of the other section is      *)
(* blank, so the server leaves it.  A section has one run at most; a field *)
(* of it that is being edited was touched since; and while its handler     *)
(* waits for the load, a memo that is known was painted after the save,    *)
(* into every field of the section that was not touched.                   *)
SectionInv ==
    /\ riskRuns \subseteq Run
    /\ riskSrv \in Settings
    /\ form \in [Cell -> {Blank, 0, 1, Outside}]
    /\ form[Flag] \in {0, 1}
    /\ riskFocus \in RiskField \cup {NoCell}
    /\ \A r \in riskRuns : r.at = "post" =>
          r.by \in Section /\ \A c \in Cell \ CellsOf(r.by) : r.body[c] = Blank

PaintInv ==
    /\ riskMemo \in [known: BOOLEAN, data: Settings]
    /\ \A r, s \in riskRuns : r.by = s.by /\ r.by \in Section => r = s
    /\ \A r \in riskRuns : r.by \in Section =>
          \A c \in CellsOf(r.by) : c = riskFocus => c \in touched
    /\ \A r \in riskRuns : r.by \in Section /\ r.at \in {"ask", "risk"} /\ riskMemo.known =>
          \A c \in CellsOf(r.by) \ touched : form[c] = riskMemo.data[c]

LEMMA CellFacts ==
    /\ Flag \in Cell /\ RiskField \subseteq Cell
    /\ Flag \notin RiskField /\ NoCell \notin Cell
    /\ \A sec \in Section : CellsOf(sec) \subseteq Cell
    /\ \A s, t \in Section : s # t => CellsOf(s) \cap CellsOf(t) = {}
    /\ "poll" \notin Section /\ Section \cap OvButton = {}
  BY RiskAssumption DEF Cell, CellsOf, Section, NoCell, Flag, RiskField, OvButton, Opening

LEMMA OtherCells == OtherTabs \subseteq Cell
  BY RiskAssumption

LEMMA RunShape ==
    ASSUME NEW by \in Section \cup OvButton \cup {"poll"}, NEW at \in {"post", "posted", "ask", "risk"},
           NEW body \in [Cell -> {Blank, 0, 1, Outside}]
    PROVE  /\ NewRun(by, at, body) \in Run
           /\ NewRun(by, at, body).by = by /\ NewRun(by, at, body).at = at
           /\ NewRun(by, at, body).body = body
<1>1. Unseen \in Settings
  BY DEF Unseen, Settings
<1> QED
  BY <1>1 DEF NewRun, Run

LEMMA NoBodyShape == NoBody \in [Cell -> {Blank, 0, 1, Outside}]
  BY DEF NoBody

LEMMA RunMovedOn ==
    ASSUME NEW r \in Run, NEW data \in Settings
    PROVE  /\ [r EXCEPT !.at = "ask"] \in Run
           /\ [r EXCEPT !.at = "ask"].by = r.by /\ [r EXCEPT !.at = "ask"].at = "ask"
           /\ [r EXCEPT !.at = "risk", !.data = data] \in Run
           /\ [r EXCEPT !.at = "risk", !.data = data].by = r.by
           /\ [r EXCEPT !.at = "risk", !.data = data].at = "risk"
  BY DEF Run

LEMMA BodyOfSection ==
    ASSUME NEW sec \in Section, form \in [Cell -> {Blank, 0, 1, Outside}]
    PROVE  /\ Body(sec) \in [Cell -> {Blank, 0, 1, Outside}]
           /\ \A c \in Cell \ CellsOf(sec) : Body(sec)[c] = Blank
  BY DEF Body

(* What ends or goes on, with the request it has. *)
LEMMA SectionGoesOn ==
    ASSUME SectionInv, NEW r \in riskRuns, NEW s \in Run, s.at # "post", Step(r, s)
    PROVE  /\ riskRuns' \subseteq Run
           /\ \A q \in riskRuns' : q.at = "post" =>
                 q.by \in Section /\ \A c \in Cell \ CellsOf(q.by) : q.body[c] = Blank
  BY DEF SectionInv, Step

LEMMA TakenIsStored ==
    ASSUME SectionInv, NEW r \in riskRuns, NEW taken \in SUBSET Cell, ServeSave(r, taken)
    PROVE  riskSrv' \in Settings
<1>1. r.body \in [Cell -> {Blank, 0, 1, Outside}]
  BY DEF SectionInv, Run
<1>2. \A c \in taken : r.body[c] # Outside
  <2> DEFINE bad == {c \in Cell : r.body[c] = Outside}
  <2>1. bad = {} \/ taken \in BeforeBad(bad)
    BY DEF ServeSave
  <2>2. taken \cap bad = {}
    BY <2>1 DEF BeforeBad
  <2> QED
    BY <2>2
<1>3. \A c \in Cell : Taken(r.body, taken)[c] \in {0, 1}
  BY <1>1, <1>2 DEF Taken, SectionInv, Settings
<1>4. Taken(r.body, taken) \in Settings
  BY <1>3 DEF Taken, Settings
<1> QED
  BY <1>4 DEF ServeSave

LEMMA PaintedInForm ==
    ASSUME SectionInv, NEW data \in Settings
    PROVE  /\ Painted(data) \in [Cell -> {Blank, 0, 1, Outside}]
           /\ \A c \in Cell : Painted(data)[c] = IF c = riskFocus THEN form[c] ELSE data[c]
  BY DEF SectionInv, Painted, Settings

LEMMA SectionStep == SectionInv /\ [RiskNext]_riskVars => SectionInv'
<1> SUFFICES ASSUME SectionInv, [RiskNext]_riskVars
             PROVE  SectionInv'
  OBVIOUS
<1>1. ASSUME NEW c \in RiskField, EnterField(c)
      PROVE  SectionInv'
  BY <1>1 DEF EnterField, SectionInv
<1>2. CASE LeaveField
  BY <1>2 DEF LeaveField, SectionInv
<1>3. ASSUME NEW v \in Typed, TypeField(v)
      PROVE  SectionInv'
  <2>1. form' = [form EXCEPT ![riskFocus] = v] /\ riskFocus # Flag
    BY <1>3, CellFacts DEF TypeField, SectionInv, NoCell, Flag
  <2>2. v \in {Blank, 0, 1, Outside}
    BY RiskAssumption
  <2>3. form'[Flag] \in {0, 1} /\ form' \in [Cell -> {Blank, 0, 1, Outside}]
    BY <2>1, <2>2, CellFacts DEF SectionInv
  <2> QED
    BY <1>3, <2>3 DEF TypeField, SectionInv
<1>4. CASE TickFlag
  <2>1. 1 - form[Flag] \in {0, 1}
    BY DEF SectionInv
  <2>2. form' \in [Cell -> {Blank, 0, 1, Outside}] /\ form'[Flag] \in {0, 1}
    BY <1>4, <2>1, CellFacts DEF TickFlag, SectionInv
  <2> QED
    BY <1>4, <2>2 DEF TickFlag, SectionInv
<1>5. ASSUME NEW c \in Cell, OtherTabSaves(c)
      PROVE  SectionInv'
  <2>1. riskSrv[c] \in {0, 1}
    BY DEF SectionInv, Settings
  <2>2. 1 - riskSrv[c] \in {0, 1}
    BY <2>1
  <2>3. riskSrv' \in Settings
    BY <1>5, <2>2 DEF OtherTabSaves, SectionInv, Settings
  <2> QED
    BY <1>5, <2>3 DEF OtherTabSaves, SectionInv
<1>6. ASSUME NEW sec \in Section, ClickSave(sec)
      PROVE  SectionInv'
  <2> DEFINE s == NewRun(sec, "post", Body(sec))
  <2>1. s \in Run /\ s.by = sec /\ s.body = Body(sec)
    BY RunShape, BodyOfSection DEF SectionInv
  <2>2. riskRuns' = riskRuns \cup {s} /\ UNCHANGED <<riskSrv, form>> /\ riskFocus' = NoCell
    BY <1>6 DEF ClickSave
  <2>3. \A c \in Cell \ CellsOf(sec) : s.body[c] = Blank
    BY <2>1, BodyOfSection DEF SectionInv
  <2> HIDE DEF s
  <2> QED
    BY <2>1, <2>2, <2>3 DEF SectionInv
<1>7. ASSUME NEW b \in OvButton, ClickOverride(b)
      PROVE  SectionInv'
  <2>1. NewRun(b, "posted", NoBody) \in Run /\ NewRun(b, "posted", NoBody).at = "posted"
    BY RunShape, NoBodyShape
  <2> QED
    BY <1>7, <2>1 DEF ClickOverride, SectionInv
<1>8. CASE PollRisk
  <2>1. NewRun("poll", "ask", NoBody) \in Run /\ NewRun("poll", "ask", NoBody).at = "ask"
    BY RunShape, NoBodyShape
  <2> QED
    BY <1>8, <2>1 DEF PollRisk, SectionInv
<1>9. ASSUME NEW r \in riskRuns, NEW taken \in SUBSET Cell, ServeSave(r, taken)
      PROVE  SectionInv'
  <2>1. riskSrv' \in Settings /\ form' = form /\ riskFocus' = riskFocus
    BY <1>9, TakenIsStored DEF ServeSave
  <2>2. NewRun(r.by, "posted", NoBody) \in Run /\ NewRun(r.by, "posted", NoBody).at = "posted"
    BY RunShape, NoBodyShape DEF SectionInv, Run
  <2>3. CASE Step(r, NewRun(r.by, "posted", NoBody))
    BY <2>1, <2>2, <2>3, SectionGoesOn DEF SectionInv
  <2>4. CASE riskRuns' = riskRuns \ {r}
    BY <2>1, <2>4 DEF SectionInv
  <2> QED
    BY <1>9, <2>3, <2>4 DEF ServeSave
<1>10. ASSUME NEW r \in riskRuns, ServeRisk(r)
       PROVE  SectionInv'
  <2>1. r \in Run /\ riskSrv \in Settings
    BY DEF SectionInv
  <2>2. Step(r, [r EXCEPT !.at = "risk", !.data = riskSrv])
        /\ UNCHANGED <<riskSrv, form, riskFocus>>
    BY <1>10 DEF ServeRisk
  <2> QED
    BY <2>1, <2>2, RunMovedOn, SectionGoesOn DEF SectionInv
<1>11. ASSUME NEW r \in riskRuns, PostAcknowledged(r)
       PROVE  SectionInv'
  <2>1. r \in Run /\ riskSrv \in Settings
    BY DEF SectionInv
  <2>2. Step(r, [r EXCEPT !.at = "ask"]) /\ UNCHANGED <<riskSrv, form, riskFocus>>
    BY <1>11 DEF PostAcknowledged
  <2> QED
    BY <2>1, <2>2, RunMovedOn, SectionGoesOn DEF SectionInv
<1>12. ASSUME NEW r \in riskRuns, RiskFails(r)
       PROVE  SectionInv'
  BY <1>12 DEF RiskFails, SectionInv
<1>13. ASSUME NEW r \in riskRuns, NEW moved \in BOOLEAN, NEW spent \in BOOLEAN,
              NEW box \in Boxes, LoadRisk(r, moved, box, spent)
       PROVE  SectionInv'
  <2>1. r.data \in Settings
    BY DEF SectionInv, Run
  <2>2. form' = form \/ form' = Painted(r.data)
    BY <1>13 DEF LoadRisk
  <2>3. form' \in [Cell -> {Blank, 0, 1, Outside}] /\ form'[Flag] \in {0, 1}
    BY <2>1, <2>2, PaintedInForm, CellFacts DEF SectionInv, Settings
  <2> QED
    BY <1>13, <2>3 DEF LoadRisk, SectionInv
<1>14. CASE UNCHANGED riskVars
  BY <1>14 DEF riskVars, SectionInv
<1> QED
  BY OtherCells, <1>1, <1>2, <1>3, <1>4, <1>5, <1>6, <1>7, <1>8, <1>9, <1>10, <1>11, <1>12,
     <1>13, <1>14 DEF RiskNext

LEMMA SectionStart == RiskInit => SectionInv /\ PaintInv
<1> SUFFICES ASSUME RiskInit
             PROVE  SectionInv /\ PaintInv
  OBVIOUS
<1>1. Unseen \in Settings
  BY DEF Unseen, Settings
<1>2. form \in [Cell -> {Blank, 0, 1, Outside}] /\ form[Flag] = 0
  BY CellFacts DEF RiskInit
<1> QED
  BY <1>1, <1>2 DEF RiskInit, SectionInv, PaintInv, NoMemo

(* A save writes no setting of the other section: trading.js:126-166.      *)
THEOREM SavesStayInSection == RiskSpec => SectionsIndependent
<1>1. ASSUME SectionInv, NEW r \in riskRuns, NEW taken \in SUBSET Cell, ServeSave(r, taken),
             NEW c \in Cell \ CellsOf(r.by)
      PROVE  riskSrv'[c] = riskSrv[c]
  <2>1. r.body[c] = Blank
    BY <1>1 DEF SectionInv, ServeSave
  <2> QED
    BY <1>1, <2>1 DEF ServeSave, Taken
<1>2. SectionInv /\ [RiskNext]_riskVars
        => [\A r \in riskRuns, taken \in SUBSET Cell : ServeSave(r, taken) =>
               \A c \in Cell \ CellsOf(r.by) : riskSrv'[c] = riskSrv[c]]_riskVars
  BY <1>1
<1> QED
  BY <1>2, SectionStart, SectionStep, PTL DEF RiskSpec, SectionsIndependent

(* The fields of a section whose handler runs are watched. *)
LEMMA TouchedIfWatched ==
    ASSUME NEW c, NEW r \in riskRuns, r.by \in Section, c \in CellsOf(r.by)
    PROVE  c \in Touch(c)
  BY DEF Touch

LEMMA SettledCells ==
    ASSUME NEW r, Settled(r)
    PROVE  /\ touched' \subseteq touched
           /\ \A sec \in Section : r.by # sec => touched \cap CellsOf(sec) \subseteq touched'
  BY CellFacts DEF Settled

(* A run that ends leaves the run of the other section as it was. *)
LEMMA PaintAfterEnd ==
    ASSUME PaintInv, NEW r \in riskRuns, riskRuns' = riskRuns \ {r}, Settled(r),
           UNCHANGED <<form, riskFocus, riskMemo>>
    PROVE  PaintInv'
<1>1. ASSUME NEW q \in riskRuns', q.by \in Section
      PROVE  q \in riskRuns /\ touched \cap CellsOf(q.by) = touched' \cap CellsOf(q.by)
  BY <1>1, SettledCells DEF PaintInv
<1>2. \A q \in riskRuns' : q.by \in Section =>
        \A c \in CellsOf(q.by) : c = riskFocus' => c \in touched'
  BY <1>1 DEF PaintInv
<1>3. ASSUME NEW q \in riskRuns', q.by \in Section, q.at \in {"ask", "risk"}, riskMemo'.known,
             NEW c \in CellsOf(q.by) \ touched'
      PROVE  form'[c] = riskMemo'.data[c]
  BY <1>1, <1>3 DEF PaintInv
<1> QED
  BY <1>2, <1>3 DEF PaintInv

(* A run that goes on, to where nothing is said or the same is said. *)
LEMMA PaintAfterStep ==
    ASSUME PaintInv, NEW r \in riskRuns, NEW s, s.by = r.by, Step(r, s),
           UNCHANGED <<form, riskFocus, touched>>,
           \/ riskMemo' = riskMemo /\ (s.at \in {"ask", "risk"} => r.at \in {"ask", "risk"})
           \/ riskMemo' = NoMemo
    PROVE  PaintInv'
<1>1. riskMemo' \in [known: BOOLEAN, data: Settings]
  <2>1. Unseen \in Settings
    BY DEF Unseen, Settings
  <2>2. NoMemo \in [known: BOOLEAN, data: Settings]
    BY <2>1, SMT DEF NoMemo
  <2>3. riskMemo \in [known: BOOLEAN, data: Settings]
    BY DEF PaintInv
  <2> QED
    BY <2>2, <2>3, Zenon
<1>2. riskRuns' = (riskRuns \ {r}) \cup {s}
  BY DEF Step
<1>3. \A p, q \in riskRuns' : p.by = q.by /\ p.by \in Section => p = q
  BY <1>2 DEF PaintInv
<1>4. \A q \in riskRuns' : q.by \in Section =>
        \A c \in CellsOf(q.by) : c = riskFocus' => c \in touched'
  BY <1>2 DEF PaintInv
<1>5. ASSUME NEW q \in riskRuns', q.by \in Section, q.at \in {"ask", "risk"}, riskMemo'.known,
             NEW c \in CellsOf(q.by) \ touched'
      PROVE  form'[c] = riskMemo'.data[c]
  BY <1>2, <1>5 DEF PaintInv, NoMemo
<1> QED
  BY <1>1, <1>3, <1>4, <1>5 DEF PaintInv

(* A run that begins before its answer is awaited, or a poll. *)
LEMMA PaintAfterClick ==
    ASSUME PaintInv, NEW s, riskRuns' = riskRuns \cup {s}, ~Busy(s.by),
           s.by \in Section => s.at = "post",
           UNCHANGED <<form, riskMemo, touched>>,
           \/ riskFocus' = NoCell
           \/ riskFocus' = riskFocus /\ s.by \notin Section
    PROVE  PaintInv'
<1>1. \A p, q \in riskRuns' : p.by = q.by /\ p.by \in Section => p = q
  BY DEF PaintInv, Busy
<1>2. \A q \in riskRuns' : q.by \in Section =>
        \A c \in CellsOf(q.by) : c = riskFocus' => c \in touched'
  BY CellFacts DEF PaintInv
<1>3. ASSUME NEW q \in riskRuns', q.by \in Section, q.at \in {"ask", "risk"}, riskMemo'.known,
             NEW c \in CellsOf(q.by) \ touched'
      PROVE  form'[c] = riskMemo'.data[c]
  BY <1>3 DEF PaintInv
<1> QED
  BY <1>1, <1>2, <1>3 DEF PaintInv

(* The user changes a field: one nobody waits for, or one touched by it. *)
LEMMA PaintAfterInput ==
    ASSUME PaintInv, UNCHANGED <<riskMemo, riskRuns>>, touched \subseteq touched',
           \A r \in riskRuns : r.by \in Section =>
              \A c \in CellsOf(r.by) : c \in touched' \/ (c # riskFocus' /\ form'[c] = form[c])
    PROVE  PaintInv'
  BY DEF PaintInv

LEMMA PaintStep == SectionInv /\ PaintInv /\ [RiskNext]_riskVars => PaintInv'
<1> SUFFICES ASSUME SectionInv, PaintInv, [RiskNext]_riskVars
             PROVE  PaintInv'
  OBVIOUS
<1>1. ASSUME NEW c \in RiskField, EnterField(c)
      PROVE  PaintInv'
  BY <1>1, TouchedIfWatched, PaintAfterInput DEF EnterField
<1>2. CASE LeaveField
  <2>1. \A r \in riskRuns : r.by \in Section =>
           \A c \in CellsOf(r.by) : c # riskFocus' /\ form'[c] = form[c]
    BY <1>2, CellFacts DEF LeaveField
  <2> QED
    BY <1>2, <2>1, PaintAfterInput DEF LeaveField
<1>3. ASSUME NEW v \in Typed, TypeField(v)
      PROVE  PaintInv'
  <2>1. \A r \in riskRuns : r.by \in Section =>
           \A c \in CellsOf(r.by) : c \in touched' \/ (c # riskFocus' /\ form'[c] = form[c])
    BY <1>3, CellFacts DEF TypeField, PaintInv, SectionInv
  <2> QED
    BY <1>3, <2>1, PaintAfterInput DEF TypeField
<1>4. CASE TickFlag
  <2>1. ASSUME NEW r \in riskRuns, r.by \in Section, NEW c \in CellsOf(r.by)
        PROVE  c \in touched' \/ (c # riskFocus' /\ form'[c] = form[c])
    <3>1. c \in Cell /\ c # riskFocus'
      BY <1>4, <2>1, CellFacts DEF TickFlag
    <3>2. CASE c = Flag
      BY <1>4, <2>1, <3>2, TouchedIfWatched DEF TickFlag
    <3>3. CASE c # Flag
      BY <1>4, <3>1, <3>3 DEF TickFlag, SectionInv
    <3> QED
      BY <3>2, <3>3
  <2>2. UNCHANGED <<riskMemo, riskRuns>> /\ touched \subseteq touched'
    BY <1>4 DEF TickFlag
  <2> QED
    BY <2>1, <2>2, PaintAfterInput
<1>5. ASSUME NEW c \in Cell, OtherTabSaves(c)
      PROVE  PaintInv'
  BY <1>5 DEF OtherTabSaves, PaintInv
<1>6. ASSUME NEW sec \in Section, ClickSave(sec)
      PROVE  PaintInv'
  <2> DEFINE s == NewRun(sec, "post", Body(sec))
  <2>1. s.by = sec /\ s.at = "post"
    BY RunShape, BodyOfSection DEF SectionInv
  <2>2. /\ riskRuns' = riskRuns \cup {s} /\ ~Busy(sec) /\ riskFocus' = NoCell
        /\ UNCHANGED <<form, riskMemo, touched>>
    BY <1>6 DEF ClickSave
  <2> HIDE DEF s
  <2> QED
    BY <2>1, <2>2, PaintAfterClick
<1>7. ASSUME NEW b \in OvButton, ClickOverride(b)
      PROVE  PaintInv'
  <2> DEFINE s == NewRun(b, "posted", NoBody)
  <2>1. s.by = b
    BY RunShape, NoBodyShape
  <2>2. /\ riskRuns' = riskRuns \cup {s} /\ ~Busy(b) /\ riskFocus' = NoCell
        /\ UNCHANGED <<form, riskMemo, touched>>
    BY <1>7 DEF ClickOverride
  <2> HIDE DEF s
  <2> QED
    BY <2>1, <2>2, PaintAfterClick, CellFacts
<1>8. CASE PollRisk
  <2> DEFINE s == NewRun("poll", "ask", NoBody)
  <2>1. s.by = "poll"
    BY RunShape, NoBodyShape
  <2>2. /\ riskRuns' = riskRuns \cup {s} /\ ~Busy("poll")
        /\ UNCHANGED <<form, riskFocus, riskMemo, touched>>
    BY <1>8 DEF PollRisk
  <2> HIDE DEF s
  <2> QED
    BY <2>1, <2>2, PaintAfterClick, CellFacts
<1>9. ASSUME NEW r \in riskRuns, NEW taken \in SUBSET Cell, ServeSave(r, taken)
      PROVE  PaintInv'
  <2> DEFINE s == NewRun(r.by, "posted", NoBody)
  <2>1. s.by = r.by /\ s.at = "posted"
    BY RunShape, NoBodyShape DEF SectionInv, Run
  <2>2. \/ Step(r, s) /\ UNCHANGED touched
        \/ riskRuns' = riskRuns \ {r} /\ Settled(r)
    BY <1>9 DEF ServeSave
  <2>3. UNCHANGED <<form, riskFocus, riskMemo>>
    BY <1>9 DEF ServeSave
  <2> HIDE DEF s
  <2>4. CASE Step(r, s) /\ UNCHANGED touched
    BY <2>1, <2>3, <2>4, PaintAfterStep
  <2>5. CASE riskRuns' = riskRuns \ {r} /\ Settled(r)
    BY <2>3, <2>5, PaintAfterEnd
  <2> QED
    BY <2>2, <2>4, <2>5
<1>10. ASSUME NEW r \in riskRuns, ServeRisk(r)
       PROVE  PaintInv'
  <2> DEFINE s == [r EXCEPT !.at = "risk", !.data = riskSrv]
  <2>1. s.by = r.by
    BY RunMovedOn DEF SectionInv
  <2>2. Step(r, s) /\ r.at = "ask" /\ UNCHANGED <<form, riskFocus, riskMemo, touched>>
    BY <1>10 DEF ServeRisk
  <2> HIDE DEF s
  <2> QED
    BY <2>1, <2>2, PaintAfterStep
<1>11. ASSUME NEW r \in riskRuns, PostAcknowledged(r)
       PROVE  PaintInv'
  <2> DEFINE s == [r EXCEPT !.at = "ask"]
  <2>1. s.by = r.by
    BY RunMovedOn DEF SectionInv
  <2>2. Step(r, s) /\ riskMemo' = NoMemo /\ UNCHANGED <<form, riskFocus, touched>>
    BY <1>11 DEF PostAcknowledged, Forget
  <2> HIDE DEF s
  <2> QED
    BY <2>1, <2>2, PaintAfterStep
<1>12. ASSUME NEW r \in riskRuns, RiskFails(r)
       PROVE  PaintInv'
  BY <1>12, PaintAfterEnd DEF RiskFails
<1>13. ASSUME NEW r \in riskRuns, NEW moved \in BOOLEAN, NEW spent \in BOOLEAN,
              NEW box \in Boxes, LoadRisk(r, moved, box, spent)
       PROVE  PaintInv'
  <2>1. riskRuns' = riskRuns \ {r} /\ Settled(r) /\ riskFocus' = riskFocus
    BY <1>13 DEF LoadRisk
  <2>2. CASE UNCHANGED <<form, riskMemo>>
    BY <2>1, <2>2, PaintAfterEnd
  <2>3. CASE riskMemo' = [known |-> TRUE, data |-> r.data] /\ form' = Painted(r.data)
    <3>1. r.data \in Settings
      BY DEF SectionInv, Run
    <3>2. ASSUME NEW q \in riskRuns', q.by \in Section
          PROVE  /\ q \in riskRuns
                 /\ touched \cap CellsOf(q.by) = touched' \cap CellsOf(q.by)
      BY <2>1, <3>2, SettledCells DEF PaintInv
    <3>3. \A q \in riskRuns' : q.by \in Section =>
             \A c \in CellsOf(q.by) : c = riskFocus' => c \in touched'
      BY <2>1, <3>2 DEF PaintInv
    <3>4. ASSUME NEW q \in riskRuns', q.by \in Section, NEW c \in CellsOf(q.by) \ touched'
          PROVE  form'[c] = riskMemo'.data[c]
      <4>1. c \in Cell /\ c # riskFocus
        BY <2>1, <3>3, <3>4, CellFacts
      <4> QED
        BY <2>3, <3>1, <4>1, PaintedInForm
    <3>5. riskMemo' \in [known: BOOLEAN, data: Settings]
      BY <2>3, <3>1
    <3> QED
      BY <2>1, <3>3, <3>4, <3>5 DEF PaintInv
  <2> QED
    BY <1>13, <2>2, <2>3 DEF LoadRisk
<1>14. CASE UNCHANGED riskVars
  BY <1>14 DEF riskVars, PaintInv
<1> QED
  BY OtherCells, <1>1, <1>2, <1>3, <1>4, <1>5, <1>6, <1>7, <1>8, <1>9, <1>10, <1>11, <1>12,
     <1>13, <1>14 DEF RiskNext

(* After a save that was acknowledged the section shows what the server    *)
(* has, whatever polls came in between: trading.js:132-166, 238-315.       *)
THEOREM SaveIsShown == RiskSpec => SaveShowsStored
<1>1. ASSUME SectionInv, PaintInv, NEW r \in riskRuns, NEW moved \in BOOLEAN, NEW spent \in BOOLEAN,
             NEW box \in Boxes, r.by \in Section, LoadRisk(r, moved, box, spent),
             NEW c \in CellsOf(r.by) \ touched
      PROVE  form'[c] \in {0, 1} /\ (riskMemo'.data = r.data => form'[c] = r.data[c])
  <2>1. c \in Cell /\ c # riskFocus /\ r.data \in Settings
    BY <1>1, CellFacts DEF PaintInv, SectionInv, Run
  <2>2. r.data[c] \in {0, 1}
    BY <2>1 DEF Settings
  <2>3. CASE riskMemo = [known |-> TRUE, data |-> r.data] /\ UNCHANGED <<form, riskMemo>>
    <3>1. form[c] = riskMemo.data[c]
      BY <1>1, <2>3 DEF PaintInv, LoadRisk
    <3> QED
      BY <2>2, <2>3, <3>1
  <2>4. CASE form' = Painted(r.data)
    BY <1>1, <2>1, <2>2, <2>4, PaintedInForm
  <2> QED
    BY <1>1, <2>3, <2>4 DEF LoadRisk
<1>2. SectionInv /\ PaintInv /\ [RiskNext]_riskVars
        => [\A r \in riskRuns :
              r.by \in Section /\ SaveLoaded(r) =>
                  \A c \in CellsOf(r.by) \ touched : form'[c] \in {0, 1} /\
                      (riskMemo'.data = r.data => form'[c] = r.data[c])]_riskVars
  BY <1>1 DEF SaveLoaded
<1> QED
  BY <1>2, SectionStart, SectionStep, PaintStep, PTL DEF RiskSpec, SaveShowsStored

-----------------------------------------------------------------------------
(* The type invariant of the models. *)
LEMMA AskedShape ==
    /\ \A part \in MdlPart : AskFor(part) \in MdlLoad
    /\ \A l \in MdlLoad, m \in SUBSET Model : [l EXCEPT !.read = TRUE, !.models = m] \in MdlLoad
  BY DEF AskFor, MdlLoad

LEMMA ModelsTypeInit == ModelsInit => ModelsTypeOK
<1>1. {AskFor(p) : p \in MdlPart} \subseteq MdlLoad
  BY AskedShape
<1> QED
  BY <1>1 DEF ModelsInit, ModelsTypeOK

LEMMA ModelsTypeStep == ModelsTypeOK /\ [ModelsNext]_modelsVars => ModelsTypeOK'
<1> SUFFICES ASSUME ModelsTypeOK, [ModelsNext]_modelsVars
             PROVE  ModelsTypeOK'
  OBVIOUS
<1> USE DEF ModelsTypeOK
<1>1. ASSUME NEW l \in mdlLoads, ServeModels(l)
      PROVE  ModelsTypeOK'
  <2>1. l \in MdlLoad /\ mdlSrv \in SUBSET Model
    OBVIOUS
  <2>2. [l EXCEPT !.read = TRUE, !.models = mdlSrv] \in MdlLoad
    BY <2>1, AskedShape
  <2> QED
    BY <1>1, <2>2 DEF ServeModels
<1>2. ASSUME NEW l \in mdlLoads, LoadInstalled(l)
      PROVE  ModelsTypeOK'
  <2>1. l.models \subseteq Model
    BY DEF MdlLoad
  <2>2. abA' \in Model \cup {NoModel} /\ abB' \in Model \cup {NoModel}
    BY <1>2, <2>1 DEF LoadInstalled, Chosen
  <2> QED
    BY <1>2, <2>1, <2>2 DEF LoadInstalled
<1>3. ASSUME NEW l \in mdlLoads, LoadCatalog(l)
      PROVE  ModelsTypeOK'
  BY <1>3 DEF LoadCatalog
<1>4. ASSUME NEW l \in mdlLoads, NEW lost \in BOOLEAN, LoadModelsFails(l, lost)
      PROVE  ModelsTypeOK'
  BY <1>4 DEF LoadModelsFails
<1>5. ASSUME NEW parts \in SUBSET MdlPart, Refresh(parts)
      PROVE  ModelsTypeOK'
  <2>1. {AskFor(p) : p \in parts} \subseteq MdlLoad
    BY AskedShape
  <2> QED
    BY <1>5, <2>1 DEF Refresh
<1>6. ASSUME NEW m \in Model, ClickDelete(m) \/ PullFinishes(m)
      PROVE  ModelsTypeOK'
  <2>1. [kind |-> "delete", model |-> m] \in MdlPost
    BY DEF MdlPost
  <2> QED
    BY <1>6, <2>1 DEF ClickDelete, PullFinishes
<1>7. ASSUME NEW m \in Model, NEW typed \in BOOLEAN, ClickInstall(m, typed)
      PROVE  ModelsTypeOK'
  <2>1. [kind |-> "install", model |-> m] \in MdlPost
    BY DEF MdlPost
  <2>2. manualOff' \in BOOLEAN
    BY <1>7, Zenon DEF ClickInstall
  <2> QED
    BY <1>7, <2>1, <2>2 DEF ClickInstall
<1>8. ASSUME NEW p \in mdlPosts, ModelPosted(p)
      PROVE  ModelsTypeOK'
  <2>1. AskFor("list") \in MdlLoad /\ AskFor("catalog") \in MdlLoad
    BY AskedShape DEF MdlPart
  <2> QED
    BY <1>8, <2>1 DEF ModelPosted
<1>9. ASSUME NEW a \in Model, NEW b \in Model, ChooseModels(a, b)
      PROVE  ModelsTypeOK'
  BY <1>9 DEF ChooseModels
<1>10. CASE UNCHANGED modelsVars
  BY <1>10 DEF modelsVars
<1>11. {"list"} \in SUBSET MdlPart /\ MdlPart \in SUBSET MdlPart
  BY DEF MdlPart
<1> QED
  BY <1>1, <1>2, <1>3, <1>4, <1>5, <1>6, <1>7, <1>8, <1>9, <1>10, <1>11 DEF ModelsNext

-----------------------------------------------------------------------------
(* The type invariant of the comparison: a loop that waits has a poll left.*)
CompareInv == CompareTypeOK /\ \A l \in abLoops : l.at = "wait" => l.polls # MaxPolls

LEMMA CompareTypeInit == CompareInit => CompareInv
<1>1. 0 \in 0 .. MaxCompares
  BY CompareAssumption
<1>2. NoOut \in [click: 0 .. MaxCompares, state: {"empty", "running", "done", "failed"}]
  BY <1>1 DEF NoOut
<1> QED
  BY <1>1, <1>2 DEF CompareInit, CompareInv, CompareTypeOK

LEMMA CompareTypeStep == CompareInv /\ [CompareNext]_compareVars => CompareInv'
<1> SUFFICES ASSUME CompareInv, [CompareNext]_compareVars
             PROVE  CompareInv'
  OBVIOUS
<1>0. /\ abRunOff \in BOOLEAN /\ abClicks \in 0 .. MaxCompares /\ abLoops \subseteq AbLoop
      /\ abOut \in [click: 0 .. MaxCompares, state: {"empty", "running", "done", "failed"}]
      /\ runDone \subseteq AbClick
  BY DEF CompareInv, CompareTypeOK
<1>1. ASSUME abRunOff' \in BOOLEAN, abClicks' \in 0 .. MaxCompares, abLoops' \subseteq AbLoop,
             \A l \in abLoops' : l.at = "wait" => l.polls # MaxPolls,
             abOut' \in [click: 0 .. MaxCompares, state: {"empty", "running", "done", "failed"}],
             runDone' \subseteq AbClick
      PROVE  CompareInv'
  BY <1>1 DEF CompareInv, CompareTypeOK
<1>2. AbClick \subseteq 0 .. MaxCompares
  BY CompareAssumption DEF AbClick
<1>3. CASE ClickCompare
  <2> DEFINE new == [click |-> abClicks', at |-> "post", polls |-> 0]
  <2>1. abClicks' = abClicks + 1 /\ abClicks < MaxCompares /\ abRunOff' = TRUE /\ runDone' = runDone
    BY <1>3 DEF ClickCompare
  <2>2. abClicks' \in 0 .. MaxCompares /\ abClicks' \in AbClick /\ 0 \in 0 .. MaxCompares
    BY <1>0, <2>1, CompareAssumption DEF AbClick
  <2>6. 0 \in 0 .. MaxPolls
    BY CompareAssumption
  <2>3. new \in AbLoop /\ new.at = "post"
    BY <2>2, <2>6 DEF AbLoop
  <2>4. abLoops' = abLoops \cup {new} /\ abOut' = NoOut
    BY <1>3 DEF ClickCompare
  <2>5. abOut' \in [click: 0 .. MaxCompares, state: {"empty", "running", "done", "failed"}]
    BY <2>2, <2>4 DEF NoOut
  <2> HIDE DEF new
  <2>7. \A l \in abLoops' : l.at = "wait" => l.polls # MaxPolls
    BY <2>3, <2>4 DEF CompareInv
  <2> QED
    BY <1>0, <1>1, <2>1, <2>2, <2>3, <2>4, <2>5, <2>7
<1>4. ASSUME NEW l \in abLoops, NEW state \in {"running", "done", "failed"},
             ShowComparison(l.click, state)
      PROVE  abOut' \in [click: 0 .. MaxCompares, state: {"empty", "running", "done", "failed"}]
  <2>1. l.click \in 0 .. MaxCompares
    BY <1>0, <1>2 DEF AbLoop
  <2> QED
    BY <1>4, <2>1 DEF ShowComparison
<1>5. ASSUME NEW l \in abLoops, NEW state \in {"running", "done", "failed"},
             ShowComparison(l.click, state), EndCompare(l), UNCHANGED <<abClicks, runDone>>
      PROVE  CompareInv'
  BY <1>0, <1>1, <1>4, <1>5 DEF EndCompare, CompareInv
<1>6. ASSUME NEW l \in abLoops, NEW state \in {"running", "done", "failed"}, NEW more,
             SideAnswered(l, state, more)
      PROVE  CompareInv'
  <2> DEFINE m == [l EXCEPT !.at = "wait"]
  <2>1. ShowComparison(l.click, state) /\ UNCHANGED <<abClicks, runDone>>
    BY <1>6 DEF SideAnswered
  <2>2. CASE EndCompare(l)
    BY <1>5, <2>1, <2>2
  <2>3. CASE ~EndCompare(l)
    <3>1. l.polls # MaxPolls /\ abLoops' = (abLoops \ {l}) \cup {m} /\ UNCHANGED abRunOff
      BY <1>6, <2>3 DEF SideAnswered
    <3>2. m \in AbLoop /\ m.polls # MaxPolls
      BY <1>0, <3>1 DEF AbLoop
    <3>3. abOut' \in [click: 0 .. MaxCompares, state: {"empty", "running", "done", "failed"}]
      BY <1>4, <2>1
    <3> HIDE DEF m
    <3> QED
      BY <1>0, <1>1, <2>1, <3>1, <3>2, <3>3 DEF CompareInv
  <2> QED
    BY <2>2, <2>3
<1>7. ASSUME NEW l \in abLoops, ComparePolls(l)
      PROVE  CompareInv'
  <2> DEFINE m == [l EXCEPT !.at = "ask", !.polls = @ + 1]
  <2>1. l \in AbLoop /\ l.polls # MaxPolls
    BY <1>0, <1>7 DEF ComparePolls, CompareInv
  <2>2. l.polls + 1 \in 0 .. MaxPolls
    BY <2>1, CompareAssumption DEF AbLoop
  <2>3. m \in AbLoop /\ m.at = "ask"
    BY <2>1, <2>2 DEF AbLoop
  <2>4. abLoops' = (abLoops \ {l}) \cup {m} /\ UNCHANGED <<abRunOff, abClicks, abOut, runDone>>
    BY <1>7 DEF ComparePolls
  <2> HIDE DEF m
  <2> QED
    BY <1>0, <1>1, <2>3, <2>4 DEF CompareInv
<1>8. ASSUME NEW l \in abLoops, CompareFails(l)
      PROVE  CompareInv'
  BY <1>5, <1>8 DEF CompareFails
<1>9. ASSUME NEW k \in AbClick, RunFinishes(k)
      PROVE  CompareInv'
  BY <1>0, <1>1, <1>9 DEF RunFinishes, CompareInv
<1>10. CASE UNCHANGED compareVars
  BY <1>0, <1>1, <1>10 DEF compareVars, CompareInv
<1> QED
  BY <1>3, <1>6, <1>7, <1>8, <1>9, <1>10 DEF CompareNext, CompareAnswer, CompareRefused

-----------------------------------------------------------------------------
(* The type invariant of the watch list of the news. *)
LEMMA EntriesExist ==
    ASSUME tnmSrv \in Entries
    PROVE  /\ NoEntries \in Entries /\ NoTable \in [known: BOOLEAN, data: Entries]
           /\ \A d \in Entries : Table(d) \in [known: BOOLEAN, data: Entries]
<1>1. NoEntries \in Entries
  BY DEF NoEntries
<1> QED
  BY <1>1 DEF NoTable, Table

LEMMA TnmRunShape ==
    ASSUME tnmSrv \in Entries, NEW op \in {"poll", "save", "toggle", "sync"}, NEW t \in Ticker,
           NEW want \in Threshold, NEW at \in {"post", "ask"}
    PROVE  NewTnm(op, t, want, at) \in TnmRun
  BY EntriesExist DEF NewTnm, TnmRun

LEMMA TnmRunMoves ==
    ASSUME NEW r \in TnmRun, NEW d \in Entries
    PROVE  /\ [r EXCEPT !.at = "done"] \in TnmRun /\ [r EXCEPT !.at = "ask"] \in TnmRun
           /\ [r EXCEPT !.at = "read", !.data = d] \in TnmRun
           /\ [r EXCEPT !.inTable = FALSE] \in TnmRun
  BY DEF TnmRun

LEMMA TnmTypeInit == TnmInit => TnmTypeOK
<1> SUFFICES ASSUME TnmInit
             PROVE  TnmTypeOK
  OBVIOUS
<1>1. NoEntries \in Entries /\ NoTable \in [known: BOOLEAN, data: Entries]
  BY EntriesExist DEF TnmInit
<1>2. thField \in [Ticker -> Threshold]
  BY <1>1 DEF TnmInit, Entries
<1> QED
  BY <1>1, <1>2 DEF TnmInit, TnmTypeOK

LEMMA TnmTypeStep == TnmTypeOK /\ [TnmNext]_tnmVars => TnmTypeOK'
<1> SUFFICES ASSUME TnmTypeOK, [TnmNext]_tnmVars
             PROVE  TnmTypeOK'
  OBVIOUS
<1>0. /\ tnmSrv \in Entries /\ NoEntries \in Entries /\ NoTable \in [known: BOOLEAN, data: Entries]
      /\ \A t \in Ticker : NoEntries[t] \in Threshold /\ thField[t] \in Threshold
      /\ tnmRuns \subseteq TnmRun
  BY EntriesExist DEF TnmTypeOK, Entries
<1>1. ASSUME NEW r \in TnmRun, BeginTnm(r), UNCHANGED <<tnmSrv, tnmMemo, tnmPainted, thField, dirty>>,
             tnmFocus' \in BOOLEAN, unsent' \subseteq unsent
      PROVE  TnmTypeOK'
  BY <1>1 DEF TnmTypeOK, BeginTnm
<1>2. ASSUME NEW t \in Ticker, ClickSaveRow(t)
      PROVE  TnmTypeOK'
  <2>1. NewTnm("save", t, thField[t], "post") \in TnmRun
    BY <1>0, TnmRunShape
  <2> QED
    BY <1>1, <1>2, <2>1 DEF ClickSaveRow
<1>3. ASSUME NEW t \in Ticker, ClickToggleRow(t)
      PROVE  TnmTypeOK'
  <2>1. NewTnm("toggle", t, NoEntries[t], "post") \in TnmRun
    BY <1>0, TnmRunShape
  <2> QED
    BY <1>1, <1>3, <2>1 DEF ClickToggleRow
<1>4. ASSUME NEW t \in Ticker, NEW v \in Threshold, TypeThreshold(t, v)
      PROVE  TnmTypeOK'
  BY <1>4 DEF TypeThreshold, TnmTypeOK
<1>5. ASSUME NEW t \in Ticker, NEW v \in Threshold, OtherPageChanges(t, v)
      PROVE  TnmTypeOK'
  BY <1>5 DEF OtherPageChanges, TnmTypeOK, Entries
<1>6. CASE LeaveTable
  BY <1>6 DEF LeaveTable, TnmTypeOK
<1>7. CASE ClickAddOrSync
  <2>1. PICK t \in Ticker : BeginTnm(NewTnm("sync", t, NoEntries[t], "post"))
    BY <1>7 DEF ClickAddOrSync
  <2>2. NewTnm("sync", t, NoEntries[t], "post") \in TnmRun
    BY <1>0, TnmRunShape
  <2> QED
    BY <1>1, <1>7, <2>1, <2>2 DEF ClickAddOrSync
<1>8. CASE PollTnm
  <2>1. PICK t \in Ticker : BeginTnm(NewTnm("poll", t, NoEntries[t], "ask"))
    BY <1>8 DEF PollTnm
  <2>2. NewTnm("poll", t, NoEntries[t], "ask") \in TnmRun
    BY <1>0, TnmRunShape
  <2>3. tnmFocus' \in BOOLEAN
    BY <1>8 DEF PollTnm, TnmTypeOK
  <2> QED
    BY <1>1, <1>8, <2>1, <2>2, <2>3 DEF PollTnm
<1>9. ASSUME NEW r \in tnmRuns, ServeRow(r)
      PROVE  TnmTypeOK'
  <2>1. r \in TnmRun /\ [r EXCEPT !.at = "done"] \in TnmRun
    BY <1>0, TnmRunMoves
  <2>2. tnmSrv' \in Entries
    BY <1>0, <1>9, <2>1 DEF ServeRow, TnmRun, Entries
  <2> QED
    BY <1>9, <2>1, <2>2 DEF ServeRow, TnmStep, TnmTypeOK
<1>10. ASSUME NEW r \in tnmRuns, ServeTnm(r)
       PROVE  TnmTypeOK'
  <2>1. [r EXCEPT !.at = "read", !.data = tnmSrv] \in TnmRun
    BY <1>0, TnmRunMoves
  <2> QED
    BY <1>10, <2>1 DEF ServeTnm, TnmStep, TnmTypeOK
<1>11. ASSUME NEW r \in tnmRuns, RowPosted(r)
       PROVE  TnmTypeOK'
  <2>1. [r EXCEPT !.at = "ask"] \in TnmRun
    BY <1>0, TnmRunMoves
  <2> QED
    BY <1>0, <1>11, <2>1 DEF RowPosted, TnmStep, TnmTypeOK
<1>12. ASSUME NEW r \in tnmRuns, TnmFails(r)
       PROVE  TnmTypeOK'
  BY <1>12 DEF TnmFails, TnmTypeOK
<1>13. ASSUME NEW r \in tnmRuns, LoadTnmWatch(r)
       PROVE  TnmTypeOK'
  <2>1. r.data \in Entries /\ Table(r.data) \in [known: BOOLEAN, data: Entries]
    BY <1>0, EntriesExist DEF TnmRun
  <2>2. {[s EXCEPT !.inTable = FALSE] : s \in tnmRuns \ {r}} \subseteq TnmRun
    BY <1>0, TnmRunMoves
  <2>3. tnmMemo' \in [known: BOOLEAN, data: Entries]
    BY <1>0, <1>13, <2>1 DEF LoadTnmWatch, TnmTypeOK
  <2> QED
    BY <1>13, <2>1, <2>2, <2>3 DEF LoadTnmWatch, TnmTypeOK, Entries
<1>14. CASE UNCHANGED tnmVars
  BY <1>14 DEF tnmVars, TnmTypeOK
<1> QED
  BY <1>2, <1>3, <1>4, <1>5, <1>6, <1>7, <1>8, <1>9, <1>10, <1>11, <1>12, <1>13, <1>14
     DEF TnmNext

-----------------------------------------------------------------------------
(* The type invariant of the risk settings; most of it is in the two       *)
(* invariants above.                                                       *)
GuardTyped == ovOff \subseteq OvButton /\ ovBox \subseteq OvButton

RiskInv == SectionInv /\ PaintInv /\ touched \subseteq Cell /\ GuardTyped

LEMMA RiskTypeInit == RiskInit => RiskInv
  BY SectionStart DEF RiskInit, RiskInv, GuardTyped

LEMMA RiskTyped == RiskInv => RiskTypeOK
  BY DEF RiskInv, GuardTyped, SectionInv, PaintInv, RiskTypeOK

LEMMA RiskTypeStep == RiskInv /\ [RiskNext]_riskVars => RiskInv'
<1> SUFFICES ASSUME RiskInv, [RiskNext]_riskVars
             PROVE  touched' \subseteq Cell /\ GuardTyped'
  BY SectionStep, PaintStep DEF RiskInv
<1>0. touched \subseteq Cell /\ GuardTyped
  BY DEF RiskInv
<1>1. ASSUME UNCHANGED <<touched, ovOff, ovBox>>
      PROVE  touched' \subseteq Cell /\ GuardTyped'
  BY <1>0, <1>1 DEF GuardTyped
<1>2. ASSUME NEW c \in Cell, touched' = touched \cup Touch(c), UNCHANGED <<ovOff, ovBox>>
      PROVE  touched' \subseteq Cell /\ GuardTyped'
  BY <1>0, <1>2 DEF Touch, GuardTyped
<1>3. ASSUME NEW r, Settled(r)
      PROVE  touched' \subseteq Cell
  BY <1>0, <1>3, SettledCells
<1>4. ASSUME NEW c \in RiskField, EnterField(c)
      PROVE  touched' \subseteq Cell /\ GuardTyped'
  BY <1>2, <1>4, CellFacts DEF EnterField
<1>5. CASE LeaveField
  BY <1>1, <1>5 DEF LeaveField
<1>6. ASSUME NEW v \in Typed, TypeField(v)
      PROVE  touched' \subseteq Cell /\ GuardTyped'
  BY <1>1, <1>6 DEF TypeField
<1>7. CASE TickFlag
  BY <1>2, <1>7, CellFacts DEF TickFlag
<1>8. ASSUME NEW c \in Cell, OtherTabSaves(c)
      PROVE  touched' \subseteq Cell /\ GuardTyped'
  BY <1>1, <1>8 DEF OtherTabSaves
<1>9. ASSUME NEW sec \in Section, ClickSave(sec)
      PROVE  touched' \subseteq Cell /\ GuardTyped'
  BY <1>1, <1>9 DEF ClickSave
<1>10. ASSUME NEW b \in OvButton, ClickOverride(b)
       PROVE  touched' \subseteq Cell /\ GuardTyped'
  BY <1>0, <1>10 DEF ClickOverride, GuardTyped
<1>11. CASE PollRisk
  BY <1>1, <1>11 DEF PollRisk
<1>12. ASSUME NEW r \in riskRuns, NEW taken \in SUBSET Cell, ServeSave(r, taken)
       PROVE  touched' \subseteq Cell /\ GuardTyped'
  <2>1. UNCHANGED <<ovOff, ovBox>>
    BY <1>12 DEF ServeSave
  <2>2. touched' = touched \/ Settled(r)
    BY <1>12 DEF ServeSave
  <2> QED
    BY <1>0, <1>3, <2>1, <2>2 DEF GuardTyped
<1>13. ASSUME NEW r \in riskRuns, ServeRisk(r) \/ PostAcknowledged(r)
       PROVE  touched' \subseteq Cell /\ GuardTyped'
  BY <1>1, <1>13 DEF ServeRisk, PostAcknowledged
<1>14. ASSUME NEW r \in riskRuns, RiskFails(r)
       PROVE  touched' \subseteq Cell /\ GuardTyped'
  <2>1. Settled(r)
    BY <1>14 DEF RiskFails
  <2>2. GuardTyped'
    BY <1>0, <1>14 DEF RiskFails, GuardTyped
  <2> QED
    BY <1>3, <2>1, <2>2
<1>15. ASSUME NEW r \in riskRuns, NEW moved \in BOOLEAN, NEW spent \in BOOLEAN,
              NEW box \in Boxes, LoadRisk(r, moved, box, spent)
       PROVE  touched' \subseteq Cell /\ GuardTyped'
  <2>1. Settled(r)
    BY <1>15 DEF LoadRisk
  <2>2. OverrideOff(box, spent) \subseteq OvButton
    BY <1>0 DEF OverrideOff, GuardTyped, OvButton
  <2>3. box \subseteq OvButton
    BY DEF Boxes, OvButton
  <2>4. GuardTyped'
    BY <1>0, <1>15, <2>2, <2>3 DEF LoadRisk, GuardTyped
  <2> QED
    BY <1>3, <2>1, <2>4
<1>16. CASE UNCHANGED riskVars
  BY <1>1, <1>16 DEF riskVars
<1> QED
  BY OtherCells, <1>4, <1>5, <1>6, <1>7, <1>8, <1>9, <1>10, <1>11, <1>12, <1>13, <1>14, <1>15,
     <1>16 DEF RiskNext
=============================================================================
