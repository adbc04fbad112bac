-------------------------- MODULE ScoutPageProofs --------------------------
(***************************************************************************)
(* Theorems about the discovery page: the watch list with its candidates   *)
(* (WatchPage) and the panel of the engine (EnginePanel), for any stocks   *)
(* and modes and any number of requests under way.                         *)
(***************************************************************************)
EXTENDS WatchPage, EnginePanel, TLAPS

-----------------------------------------------------------------------------
(* The candidates.  The memo of the codes, when there is one, is the list  *)
(* the page shows: an answer that says nothing new may leave both tables.  *)
LoadsOK == sourceLoads \subseteq [src: Source, at: {"ask", "read", "paint"}, version: Int]

MarksInv ==
    /\ scanVersion \in Int
    /\ LoadsOK
    /\ DOMAIN scanMemo = Source /\ DOMAIN marks = Source
    /\ codesMemo.known => watch = codesMemo.codes
    /\ \A l \in sourceLoads : l.at = "paint" => l.src = "nightly"
    /\ CandidatesMarkWatched

LEMMA MarksInit == WatchInit => MarksInv
<1> SUFFICES ASSUME WatchInit
             PROVE  MarksInv
  OBVIOUS
<1> USE DEF WatchInit
<1>1. LoadsOK /\ \A l \in sourceLoads : l.at = "ask"
  BY DEF LoadsOK, AskSources, Ask
<1>2. CandidatesMarkWatched
  BY DEF CandidatesMarkWatched
<1> QED
  BY <1>1, <1>2 DEF MarksInv, NoCodes

(* Steps that leave the tables, the list and the paints to come alone. *)
LEMMA TablesAlone ==
    ASSUME MarksInv, UNCHANGED <<watch, codesMemo, scanMemo, marks>>, scanVersion' \in Int,
           LoadsOK',
           \A l \in sourceLoads' : l.at = "paint" => l \in sourceLoads,
           \A l \in sourceLoads : l.at = "paint" => l \in sourceLoads'
    PROVE  MarksInv'
<1>1. CandidatesMarkWatched'
  BY DEF MarksInv, CandidatesMarkWatched
<1> QED
  BY <1>1 DEF MarksInv

(* Steps that make both tables stale. *)
LEMMA TablesStale ==
    ASSUME MarksInv, InvalidateSources, UNCHANGED <<scanVersion, marks>>,
           codesMemo'.known => watch' = codesMemo'.codes,
           sourceLoads' = sourceLoads \cup AskSources
    PROVE  MarksInv'
<1>1. AskSources \subseteq [src: Source, at: {"ask"}, version: Int]
  BY DEF AskSources, Ask
<1>2. \A l \in AskSources : l.at = "ask"
  BY <1>1
<1>3. LoadsOK'
  BY <1>1 DEF MarksInv, LoadsOK
<1>4. CandidatesMarkWatched' /\ (DOMAIN scanMemo = Source)'
  BY DEF InvalidateSources, CandidatesMarkWatched
<1> QED
  BY <1>2, <1>3, <1>4 DEF MarksInv

LEMMA LoadReread ==
    ASSUME MarksInv, NEW l \in sourceLoads, NEW at \in {"read", "paint"}
    PROVE  /\ [l EXCEPT !.at = at] \in [src: Source, at: {"ask", "read", "paint"}, version: Int]
           /\ [l EXCEPT !.at = at].at = at /\ [l EXCEPT !.at = at].src = l.src
  BY DEF MarksInv, LoadsOK

LEMMA MarksStep == MarksInv /\ [WatchNext]_watchVars => MarksInv'
<1> SUFFICES ASSUME MarksInv, [WatchNext]_watchVars
             PROVE  MarksInv'
  OBVIOUS
<1>0. LoadsOK /\ scanVersion \in Int
  BY DEF MarksInv
<1>1. ASSUME UNCHANGED <<watch, codesMemo, scanMemo, marks, sourceLoads>>, scanVersion' \in Int
      PROVE  MarksInv'
  BY <1>0, <1>1, TablesAlone DEF LoadsOK
<1>2. ASSUME NEW c \in WatchCode, \/ EngineChanges(c) \/ AddByQuery(c)
                                 \/ ClickWatchRow("remove", c) \/ ClickWatchRow("mode", c)
      PROVE  MarksInv'
  BY <1>0, <1>1, <1>2 DEF EngineChanges, AddByQuery, ClickWatchRow, watchServer
<1>3. CASE ScanChanges
  BY <1>0, <1>1, <1>3 DEF ScanChanges
<1>4. ASSUME NEW l \in watchLoads, ServeWatch(l)
      PROVE  MarksInv'
  BY <1>0, <1>1, <1>4 DEF ServeWatch, watchServer
<1>5. ASSUME NEW l \in watchLoads, LoadWatch(l)
      PROVE  MarksInv'
  <2>1. CASE codesMemo = [known |-> TRUE, codes |-> l.codes]
    <3>1. watch' = watch
      BY <1>5, <2>1 DEF LoadWatch, MarksInv
    <3> QED
      BY <1>0, <1>1, <1>5, <2>1, <3>1 DEF LoadWatch, watchServer
  <2>2. CASE codesMemo # [known |-> TRUE, codes |-> l.codes]
    BY <1>5, <2>2, TablesStale DEF LoadWatch, watchServer
  <2> QED
    BY <2>1, <2>2
<1>6. ASSUME NEW l \in sourceLoads, ServeSource(l)
      PROVE  MarksInv'
  <2> DEFINE m == [src |-> l.src, at |-> "read", version |-> scanVersion]
  <2>1. m \in [src: Source, at: {"ask", "read", "paint"}, version: Int] /\ m.at = "read"
    BY <1>0 DEF LoadsOK
  <2>2. l.at = "ask" /\ sourceLoads' = (sourceLoads \ {l}) \cup {m}
    BY <1>6 DEF ServeSource
  <2> HIDE DEF m
  <2>3. LoadsOK'
    BY <1>0, <2>1, <2>2 DEF LoadsOK
  <2> QED
    BY <1>0, <1>6, <2>1, <2>2, <2>3, TablesAlone DEF ServeSource, watchServer
<1>7. ASSUME NEW l \in sourceLoads, LoadSource(l)
      PROVE  MarksInv'
  <2> USE DEF LoadSource
  <2>0. l.src \in Source /\ l.version \in Int /\ l.at = "read" /\ scanVersion' = scanVersion
    BY <1>0, <1>7 DEF LoadsOK, watchServer
  <2>1. CASE scanMemo[l.src] = l.version
    <3>1. LoadsOK'
      BY <1>0, <1>7, <2>1 DEF LoadsOK
    <3> QED
      BY <1>0, <1>7, <2>0, <2>1, <3>1, TablesAlone DEF watchServer
  <2>2. CASE scanMemo[l.src] # l.version /\ l.src = "scan"
    <3>1. LoadsOK' /\ sourceLoads' = sourceLoads \ {l}
      BY <1>0, <1>7, <2>2 DEF LoadsOK
    <3>2. /\ marks' = [marks EXCEPT !["scan"] = watch] /\ watch' = watch
          /\ scanMemo' = [scanMemo EXCEPT !["scan"] = l.version] /\ codesMemo' = codesMemo
      BY <1>7, <2>2
    <3>3. CandidatesMarkWatched'
      BY <2>0, <3>1, <3>2 DEF MarksInv, CandidatesMarkWatched, Source
    <3> QED
      BY <2>0, <3>1, <3>2, <3>3 DEF MarksInv
  <2>3. CASE scanMemo[l.src] # l.version /\ l.src # "scan"
    <3> DEFINE m == [l EXCEPT !.at = "paint"]
    <3>1. /\ m \in [src: Source, at: {"ask", "read", "paint"}, version: Int]
          /\ m.at = "paint" /\ m.src = "nightly"
      BY <2>0, <2>3, LoadReread DEF Source
    <3>2. sourceLoads' = (sourceLoads \ {l}) \cup {m} /\ marks' = marks /\ watch' = watch
      BY <1>7, <2>3
    <3>3. scanMemo' = [scanMemo EXCEPT !["nightly"] = l.version] /\ codesMemo' = codesMemo
      BY <1>7, <2>0, <2>3 DEF Source
    <3> HIDE DEF m
    <3>4. LoadsOK'
      BY <1>0, <3>1, <3>2 DEF LoadsOK
    <3>5. CandidatesMarkWatched'
      BY <2>0, <3>1, <3>2, <3>3 DEF MarksInv, CandidatesMarkWatched, Source
    <3> QED
      BY <2>0, <3>1, <3>2, <3>3, <3>4, <3>5 DEF MarksInv
  <2> QED
    BY <2>1, <2>2, <2>3
<1>8. ASSUME NEW l \in sourceLoads, PaintNightly(l)
      PROVE  MarksInv'
  <2>1. /\ sourceLoads' = sourceLoads \ {l} /\ l.src = "nightly"
        /\ marks' = [marks EXCEPT !["nightly"] = watch]
        /\ UNCHANGED <<scanVersion, watch, codesMemo, scanMemo>>
    BY <1>8 DEF PaintNightly, MarksInv, watchServer
  <2>2. LoadsOK'
    BY <1>0, <2>1 DEF LoadsOK
  <2>3. CandidatesMarkWatched'
    BY <2>1 DEF MarksInv, CandidatesMarkWatched, Source
  <2> QED
    BY <2>1, <2>2, <2>3 DEF MarksInv
<1>9. CASE LoadLost
  <2>1. CASE sourceLoads' = sourceLoads
    BY <1>0, <1>1, <1>9, <2>1 DEF LoadLost, watchServer
  <2>2. CASE \E l \in sourceLoads : l.at # "paint" /\ sourceLoads' = sourceLoads \ {l}
    <3>1. LoadsOK'
      BY <1>0, <2>2 DEF LoadsOK
    <3> QED
      BY <1>0, <1>9, <2>2, <3>1, TablesAlone DEF LoadLost, watchServer
  <2> QED
    BY <1>9, <2>1, <2>2 DEF LoadLost
<1>10. CASE PollWatch
  BY <1>0, <1>1, <1>10 DEF PollWatch, watchServer
<1>11. ASSUME NEW src \in Source, PollSource(src)
       PROVE  MarksInv'
  <2>1. /\ Ask(src) \in [src: Source, at: {"ask", "read", "paint"}, version: Int]
        /\ Ask(src).at = "ask"
    BY DEF Ask
  <2>2. sourceLoads' = sourceLoads \cup {Ask(src)}
    BY <1>11 DEF PollSource
  <2>3. LoadsOK'
    BY <1>0, <2>1, <2>2 DEF LoadsOK
  <2> QED
    BY <1>0, <1>11, <2>1, <2>2, <2>3, TablesAlone DEF PollSource, watchServer
<1>12. ASSUME NEW src \in Source, NEW c \in WatchCode, ClickAdd(src, c)
       PROVE  MarksInv'
  BY <1>0, <1>1, <1>12 DEF ClickAdd, watchServer
<1>13. ASSUME NEW p \in addPosts, NEW yes \in BOOLEAN, ServePost(p, yes) \/ Gated(p, yes)
       PROVE  MarksInv'
  BY <1>0, <1>1, <1>13 DEF ServePost, Gated, watchServer
<1>14. ASSUME NEW p \in addPosts, AfterWatchChange(p)
       PROVE  MarksInv'
  BY <1>14, TablesStale DEF AfterWatchChange, watchServer, MarksInv
<1>15. ASSUME NEW p \in addPosts, PostFails(p)
       PROVE  MarksInv'
  BY <1>0, <1>1, <1>15 DEF PostFails, watchServer
<1>16. CASE UNCHANGED watchVars
  BY <1>0, <1>1, <1>16 DEF watchVars
<1> QED
  BY <1>2, <1>3, <1>4, <1>5, <1>6, <1>7, <1>8, <1>9, <1>10, <1>11, <1>12, <1>13, <1>14, <1>15,
     <1>16 DEF WatchNext

(* No candidate that is watched keeps an "add" button: scout.js:116-119,   *)
(* 424-439.                                                                *)
THEOREM MarksFollowWatchList == WatchSpec => []CandidatesMarkWatched
<1>1. MarksInv => CandidatesMarkWatched
  BY DEF MarksInv
<1> QED
  BY <1>1, MarksInit, MarksStep, PTL DEF WatchSpec

-----------------------------------------------------------------------------
(* The panel of the engine.  A handler of a row whose button is still in   *)
(* the panel, and which waits for the load that is to repaint it, finds    *)
(* the memo forgotten: whoever remembered an answer since has painted, and *)
(* taken the button away.                                                  *)
IsRun(r) ==
    r \in [by: {r.by}, inPanel: {r.inPanel}, want: {r.want}, at: {r.at}, data: {r.data}]

RowWaits(r) == r.by \in RowButton /\ r.inPanel /\ r.at \in {"ask", "read"}

ButtonsInv ==
    /\ \A r \in engRuns : IsRun(r)
    /\ engOff \subseteq RowButton \cup {RunNow}
    /\ \A r \in engRuns : RowWaits(r) => ~engMemo.known
    /\ DisabledButtonComesBack

LEMMA ButtonKinds ==
    /\ RunNow \notin RowButton /\ NoButton \notin RowButton
    /\ NoButton # RunNow
    /\ \A m : SetMode(m) \notin RowButton /\ SetMode(m) # RunNow
  BY DEF RunNow, NoButton, SetMode, RowButton

LEMMA RunMoved ==
    ASSUME NEW r, IsRun(r), NEW at
    PROVE  /\ IsRun([r EXCEPT !.at = at])
           /\ [r EXCEPT !.at = at].by = r.by
           /\ [r EXCEPT !.at = at].inPanel = r.inPanel
           /\ [r EXCEPT !.at = at].at = at
<1> DEFINE s == [r EXCEPT !.at = at]
<1>1. s \in [by: {r.by}, inPanel: {r.inPanel}, want: {r.want}, at: {at}, data: {r.data}]
  BY DEF IsRun
<1> HIDE DEF s
<1>2. IsRun(s) /\ s.by = r.by /\ s.inPanel = r.inPanel /\ s.at = at
  BY <1>1 DEF IsRun
<1> QED
  BY <1>2 DEF s

LEMMA RunPaintedOver ==
    ASSUME NEW r, IsRun(r)
    PROVE  /\ IsRun([r EXCEPT !.inPanel = FALSE])
           /\ [r EXCEPT !.inPanel = FALSE].by = r.by
           /\ [r EXCEPT !.inPanel = FALSE].inPanel = FALSE
<1> DEFINE s == [r EXCEPT !.inPanel = FALSE]
<1>1. s \in [by: {r.by}, inPanel: {FALSE}, want: {r.want}, at: {r.at}, data: {r.data}]
  BY DEF IsRun
<1> HIDE DEF s
<1>2. IsRun(s) /\ s.by = r.by /\ s.inPanel = FALSE
  BY <1>1 DEF IsRun
<1> QED
  BY <1>2 DEF s

(* A handler goes on, without an answer remembered. *)
LEMMA RunGoesOn ==
    ASSUME ButtonsInv, NEW r \in engRuns, NEW s, IsRun(s), s.by = r.by, s.inPanel = r.inPanel,
           EngStep(r, s), engOff' = engOff, engMemo'.known => engMemo.known,
           RowWaits(s) => ~engMemo'.known
    PROVE  ButtonsInv'
<1>1. (\A q \in engRuns : IsRun(q))'
  BY DEF ButtonsInv, EngStep
<1>2. (\A q \in engRuns : RowWaits(q) => ~engMemo.known)'
  BY DEF ButtonsInv, EngStep, RowWaits
<1>3. DisabledButtonComesBack'
  BY DEF ButtonsInv, EngStep, DisabledButtonComesBack
<1> QED
  BY <1>1, <1>2, <1>3 DEF ButtonsInv

(* A handler ends; its button, if a button of the panel still, was enabled *)
(* or is to be repainted.                                                  *)
LEMMA RunEnds ==
    ASSUME ButtonsInv, NEW r \in engRuns, engRuns' = engRuns \ {r}, UNCHANGED engMemo,
           engOff' \subseteq engOff,
           r.by \in engOff' => ~r.inPanel \/ (r.by # RunNow /\ ~engMemo.known)
    PROVE  ButtonsInv'
<1>1. (\A q \in engRuns : IsRun(q) /\ (RowWaits(q) => ~engMemo.known))'
  BY DEF ButtonsInv, RowWaits
<1>2. DisabledButtonComesBack'
  BY DEF ButtonsInv, DisabledButtonComesBack
<1> QED
  BY <1>1, <1>2 DEF ButtonsInv

LEMMA ButtonClicked ==
    ASSUME ButtonsInv, NEW by, NEW want, NEW at \in {"post", "ask"}, NEW data,
           engRuns' = engRuns \cup {[by |-> by, inPanel |-> TRUE, want |-> want, at |-> at, data |-> data]},
           at = "ask" => by \notin RowButton,
           UNCHANGED engMemo, engOff' \subseteq (RowButton \cup {RunNow}) \cap (engOff \cup {by})
    PROVE  ButtonsInv'
<1> DEFINE new == [by |-> by, inPanel |-> TRUE, want |-> want, at |-> at, data |-> data]
<1>1. IsRun(new) /\ new.by = by /\ new.inPanel = TRUE /\ new.at = at
  BY DEF IsRun
<1>2. engRuns' = engRuns \cup {new}
  OBVIOUS
<1> HIDE DEF new
<1>3. (\A q \in engRuns : IsRun(q) /\ (RowWaits(q) => ~engMemo.known))'
  BY <1>1, <1>2 DEF ButtonsInv, RowWaits
<1>4. DisabledButtonComesBack'
  BY <1>1, <1>2 DEF ButtonsInv, DisabledButtonComesBack
<1> QED
  BY <1>3, <1>4 DEF ButtonsInv

LEMMA ButtonsStep == ButtonsInv /\ [EngNext]_engVars => ButtonsInv'
<1> SUFFICES ASSUME ButtonsInv, [EngNext]_engVars
             PROVE  ButtonsInv'
  OBVIOUS
<1>0. engOff \subseteq RowButton \cup {RunNow}
  BY DEF ButtonsInv
<1>1. ASSUME NEW c \in EngStock, ClickTierOf(c)
      PROVE  ButtonsInv'
  <2>1. <<c, "tier">> \in RowButton
    BY DEF RowButton
  <2> QED
    BY <1>0, <1>1, <2>1, ButtonClicked DEF ClickTierOf, Clicked
<1>2. ASSUME NEW c \in EngStock, ClickRemoveOf(c)
      PROVE  ButtonsInv'
  <2>1. <<c, "remove">> \in RowButton
    BY DEF RowButton
  <2> QED
    BY <1>0, <1>2, <2>1, ButtonClicked DEF ClickRemoveOf, Clicked
<1>3. ASSUME NEW m \in EngMode, ClickMode(m)
      PROVE  ButtonsInv'
  BY <1>0, <1>3, ButtonClicked DEF ClickMode, Clicked
<1>4. CASE ClickRunNow
  BY <1>0, <1>4, ButtonClicked DEF ClickRunNow, Clicked
<1>5. CASE PollEngine
  BY <1>0, <1>5, ButtonClicked, ButtonKinds DEF PollEngine
<1>6. ASSUME NEW c \in EngStock, NEW t \in Tier, EngineCycle(c, t)
      PROVE  ButtonsInv'
  BY <1>6 DEF EngineCycle, ButtonsInv, DisabledButtonComesBack, RowWaits
<1>7. ASSUME NEW r \in engRuns, ServeEngine(r)
      PROVE  ButtonsInv'
  <2> DEFINE s == [r EXCEPT !.at = "done"]
  <2>1. IsRun(s) /\ s.by = r.by /\ s.inPanel = r.inPanel /\ s.at = "done"
    BY RunMoved DEF ButtonsInv
  <2>2. EngStep(r, s) /\ UNCHANGED <<engMemo, engOff>>
    BY <1>7 DEF ServeEngine
  <2> HIDE DEF s
  <2> QED
    BY <2>1, <2>2, RunGoesOn DEF RowWaits
<1>8. ASSUME NEW r \in engRuns, ServeScout(r)
      PROVE  ButtonsInv'
  <2> DEFINE s == [r EXCEPT !.at = "read", !.data = engSrv]
  <2>0. s \in [by: {r.by}, inPanel: {r.inPanel}, want: {r.want}, at: {"read"}, data: {engSrv}]
    BY DEF ButtonsInv, IsRun
  <2>2. EngStep(r, s) /\ UNCHANGED <<engMemo, engOff>> /\ r.at = "ask"
    BY <1>8 DEF ServeScout
  <2> HIDE DEF s
  <2>1. IsRun(s) /\ s.by = r.by /\ s.inPanel = r.inPanel /\ s.at = "read"
    BY <2>0 DEF IsRun
  <2> QED
    BY <2>1, <2>2, RunGoesOn DEF RowWaits, ButtonsInv
<1>9. ASSUME NEW r \in engRuns, EnginePosted(r)
      PROVE  ButtonsInv'
  <2> DEFINE s == [r EXCEPT !.at = "ask"]
  <2>1. IsRun(s) /\ s.by = r.by /\ s.inPanel = r.inPanel
    BY RunMoved DEF ButtonsInv
  <2>2. EngStep(r, s) /\ engOff' = engOff /\ ~engMemo'.known
    BY <1>9 DEF EnginePosted, InvalidateScout, NotPainted
  <2> HIDE DEF s
  <2> QED
    BY <2>1, <2>2, RunGoesOn
<1>10. ASSUME NEW r \in engRuns, EnginePostFails(r)
       PROVE  ButtonsInv'
  BY <1>10, RunEnds DEF EnginePostFails
<1>11. ASSUME NEW r \in engRuns, LoadEngineFails(r)
       PROVE  ButtonsInv'
  <2>1. r.by \in engOff' => ~r.inPanel \/ (r.by # RunNow /\ ~engMemo.known)
    BY <1>0, <1>11 DEF LoadEngineFails, Finished, ButtonsInv, RowWaits
  <2> QED
    BY <1>11, <2>1, RunEnds DEF LoadEngineFails, Finished
<1>12. ASSUME NEW r \in engRuns, LoadEngine(r), engMemo = Told(r.data)
       PROVE  ButtonsInv'
  <2>1. r.by \in engOff' => ~r.inPanel \/ (r.by # RunNow /\ ~engMemo.known)
    BY <1>0, <1>12 DEF LoadEngine, Finished, ButtonsInv, RowWaits
  <2> QED
    BY <1>12, <2>1, RunEnds DEF LoadEngine, Finished
<1>13. ASSUME NEW r \in engRuns, LoadEngine(r), engMemo # Told(r.data)
       PROVE  ButtonsInv'
  <2> DEFINE over(s) == IF s.by \in RowButton THEN [s EXCEPT !.inPanel = FALSE] ELSE s
  <2>1. /\ engOff' = Finished(r, engOff \ RowButton)
        /\ engRuns' = {over(s) : s \in engRuns \ {r}}
    BY <1>13 DEF LoadEngine
  <2>2. \A s \in engRuns : /\ IsRun(over(s)) /\ over(s).by = s.by
                           /\ s.by \in RowButton => over(s).inPanel = FALSE
                           /\ s.by \notin RowButton => over(s) = s
    BY RunPaintedOver DEF ButtonsInv
  <2> HIDE DEF over
  <2>3. (\A q \in engRuns : IsRun(q) /\ ~RowWaits(q))'
    BY <2>1, <2>2 DEF RowWaits
  <2>4. ASSUME NEW b \in engOff'
        PROVE  b = RunNow /\ \E q \in engRuns' : q.by = b /\ q.inPanel
    <3>1. b = RunNow /\ b \in engOff /\ r.by # RunNow
      BY <1>0, <2>1 DEF Finished
    <3>2. PICK s \in engRuns : s.by = b /\ s.inPanel
      BY <3>1 DEF ButtonsInv, DisabledButtonComesBack
    <3>3. over(s) = s /\ s \in engRuns \ {r}
      BY <2>2, <3>1, <3>2, ButtonKinds
    <3> QED
      BY <2>1, <3>1, <3>2, <3>3
  <2> QED
    BY <2>3, <2>4 DEF ButtonsInv, DisabledButtonComesBack
<1>14. CASE UNCHANGED engVars
  BY <1>14 DEF engVars, ButtonsInv, DisabledButtonComesBack, RowWaits
<1> QED
  BY <1>1, <1>2, <1>3, <1>4, <1>5, <1>6, <1>7, <1>8, <1>9, <1>10, <1>11, <1>12, <1>13, <1>14
     DEF EngNext

(* No button of the panel stays dead: scout.js:1069-1138.                  *)
THEOREM ButtonsComeBack == EngSpec => []DisabledButtonComesBack
<1>1. EngInit => ButtonsInv
  BY DEF EngInit, ButtonsInv, DisabledButtonComesBack
<1>2. ButtonsInv => DisabledButtonComesBack
  BY DEF ButtonsInv
<1> QED
  BY <1>1, <1>2, ButtonsStep, PTL DEF EngSpec

-----------------------------------------------------------------------------
(* The type invariant of the watch list: the tables, the two sorts of      *)
(* loads, and the buttons' requests.                                       *)
ListsOK ==
    /\ srvWatch \subseteq WatchCode
    /\ scanVersion \in 1 .. MaxScan
    /\ watch \subseteq WatchCode
    /\ codesMemo \in CodesMemo
    /\ scanMemo \in [Source -> 0 .. MaxScan]
    /\ marks \in [Source -> SUBSET WatchCode]

LEMMA WatchParts ==
    WatchTypeOK <=> /\ ListsOK /\ watchLoads \subseteq WatchLoad
                    /\ sourceLoads \subseteq SourceLoad /\ addPosts \subseteq AddPost
  BY DEF WatchTypeOK, ListsOK

LEMMA WatchShapes ==
    /\ 0 \in 0 .. MaxScan /\ 1 \in 1 .. MaxScan
    /\ AskWatch \in WatchLoad
    /\ \A src \in Source : Ask(src) \in SourceLoad
    /\ AskSources \subseteq SourceLoad
    /\ \A kind \in PostKind, c \in WatchCode : NewPost(kind, c) \in AddPost
<1>1. 0 \in 0 .. MaxScan /\ 1 \in 1 .. MaxScan
  BY WatchAssumption
<1>2. AskWatch \in WatchLoad
  BY DEF AskWatch, WatchLoad
<1>3. \A src \in Source : Ask(src) \in SourceLoad
  BY <1>1 DEF Ask, SourceLoad
<1>4. \A kind \in PostKind, c \in WatchCode : NewPost(kind, c) \in AddPost
  BY DEF NewPost, AddPost
<1> QED
  BY <1>1, <1>2, <1>3, <1>4 DEF AskSources

LEMMA PostShape ==
    ASSUME NEW p \in AddPost, NEW at \in {"post", "gate", "done"}
    PROVE  [p EXCEPT !.at = at] \in AddPost /\ [p EXCEPT !.force = TRUE, !.at = "post"] \in AddPost
  BY DEF AddPost

LEMMA WatchTypeInit == WatchInit => WatchTypeOK
<1> SUFFICES ASSUME WatchInit
             PROVE  WatchTypeOK
  OBVIOUS
<1>1. codesMemo \in CodesMemo /\ scanMemo \in [Source -> 0 .. MaxScan]
  BY WatchShapes DEF WatchInit, NoCodes, CodesMemo, Unread
<1> QED
  BY <1>1, WatchShapes DEF WatchInit, WatchTypeOK

LEMMA SourcesInvalidated ==
    ASSUME InvalidateSources
    PROVE  scanMemo' \in [Source -> 0 .. MaxScan]
  BY WatchShapes DEF InvalidateSources, Unread

LEMMA WatchTypeStep == WatchTypeOK /\ [WatchNext]_watchVars => WatchTypeOK'
<1> SUFFICES ASSUME WatchTypeOK, [WatchNext]_watchVars
             PROVE  WatchTypeOK'
  OBVIOUS
<1>0. /\ ListsOK /\ watchLoads \subseteq WatchLoad
      /\ sourceLoads \subseteq SourceLoad /\ addPosts \subseteq AddPost
  BY WatchParts
<1>1. ASSUME ListsOK', watchLoads' \subseteq WatchLoad,
             sourceLoads' \subseteq SourceLoad, addPosts' \subseteq AddPost
      PROVE  WatchTypeOK'
  BY <1>1 DEF WatchTypeOK, ListsOK
<1>2. ASSUME UNCHANGED <<watchServer, watch, codesMemo, scanMemo, marks>>
      PROVE  ListsOK'
  BY <1>0, <1>2 DEF ListsOK, watchServer
<1>3. ASSUME NEW c \in WatchCode, EngineChanges(c)
      PROVE  WatchTypeOK'
  <2>1. ListsOK'
    BY <1>0, <1>3 DEF EngineChanges, ListsOK
  <2> QED
    BY <1>0, <1>1, <1>3, <2>1 DEF EngineChanges
<1>4. ASSUME NEW c \in WatchCode,
             AddByQuery(c) \/ ClickWatchRow("remove", c) \/ ClickWatchRow("mode", c)
      PROVE  WatchTypeOK'
  BY <1>0, <1>1, <1>2, <1>4, WatchShapes DEF AddByQuery, ClickWatchRow, PostKind
<1>5. CASE ScanChanges
  <2>1. scanVersion' \in 1 .. MaxScan
    BY <1>0, <1>5, WatchAssumption DEF ScanChanges, ListsOK
  <2>2. ListsOK'
    BY <1>0, <1>5, <2>1 DEF ScanChanges, ListsOK
  <2> QED
    BY <1>0, <1>1, <1>5, <2>2 DEF ScanChanges
<1>6. ASSUME NEW l \in watchLoads, ServeWatch(l)
      PROVE  WatchTypeOK'
  <2>1. [at |-> "read", codes |-> srvWatch] \in WatchLoad
    BY <1>0 DEF WatchLoad, ListsOK
  <2> QED
    BY <1>0, <1>1, <1>2, <1>6, <2>1 DEF ServeWatch
<1>7. ASSUME NEW l \in watchLoads, LoadWatch(l)
      PROVE  WatchTypeOK'
  <2>1. l.codes \subseteq WatchCode
    BY <1>0 DEF WatchLoad
  <2>2. [known |-> TRUE, codes |-> l.codes] \in CodesMemo
    BY <2>1 DEF CodesMemo
  <2>3. ListsOK'
    BY <1>0, <1>7, <2>1, <2>2, SourcesInvalidated DEF LoadWatch, ListsOK, watchServer
  <2>4. sourceLoads' \subseteq SourceLoad
    BY <1>0, <1>7, WatchShapes DEF LoadWatch
  <2> QED
    BY <1>0, <1>1, <1>7, <2>3, <2>4 DEF LoadWatch
<1>8. ASSUME NEW l \in sourceLoads, ServeSource(l)
      PROVE  WatchTypeOK'
  <2>1. l.src \in Source /\ scanVersion \in 0 .. MaxScan
    BY <1>0, WatchAssumption DEF SourceLoad, ListsOK
  <2>2. [src |-> l.src, at |-> "read", version |-> scanVersion] \in SourceLoad
    BY <2>1 DEF SourceLoad
  <2> QED
    BY <1>0, <1>1, <1>2, <1>8, <2>2 DEF ServeSource
<1>9. ASSUME NEW l \in sourceLoads, LoadSource(l)
      PROVE  WatchTypeOK'
  <2>1. l \in SourceLoad /\ l.version \in 0 .. MaxScan /\ [l EXCEPT !.at = "paint"] \in SourceLoad
    BY <1>0 DEF SourceLoad
  <2>2. scanMemo' \in [Source -> 0 .. MaxScan]
    BY <1>0, <1>9, <2>1 DEF LoadSource, ListsOK
  <2>3. marks' \in [Source -> SUBSET WatchCode]
    BY <1>0, <1>9 DEF LoadSource, ListsOK
  <2>4. ListsOK'
    BY <1>0, <1>9, <2>2, <2>3 DEF LoadSource, ListsOK, watchServer
  <2>5. sourceLoads' \subseteq SourceLoad
    BY <1>0, <1>9, <2>1 DEF LoadSource
  <2> QED
    BY <1>0, <1>1, <1>9, <2>4, <2>5 DEF LoadSource
<1>10. ASSUME NEW l \in sourceLoads, PaintNightly(l)
       PROVE  WatchTypeOK'
  <2>1. ListsOK'
    BY <1>0, <1>10 DEF PaintNightly, ListsOK, watchServer
  <2> QED
    BY <1>0, <1>1, <1>10, <2>1 DEF PaintNightly
<1>11. CASE LoadLost
  BY <1>0, <1>1, <1>2, <1>11 DEF LoadLost
<1>12. CASE PollWatch
  BY <1>0, <1>1, <1>2, <1>12, WatchShapes DEF PollWatch
<1>13. ASSUME NEW src \in Source, PollSource(src)
       PROVE  WatchTypeOK'
  BY <1>0, <1>1, <1>2, <1>13, WatchShapes DEF PollSource
<1>14. ASSUME NEW src \in Source, NEW c \in WatchCode, ClickAdd(src, c)
       PROVE  WatchTypeOK'
  BY <1>0, <1>1, <1>2, <1>14, WatchShapes DEF ClickAdd, PostKind
<1>15. ASSUME NEW p \in addPosts, NEW yes \in BOOLEAN, ServePost(p, yes)
       PROVE  WatchTypeOK'
  <2>1. p \in AddPost /\ p.code \in WatchCode
    BY <1>0 DEF AddPost
  <2>2. srvWatch' \subseteq WatchCode
    BY <1>0, <1>15, <2>1 DEF ServePost, ListsOK
  <2>3. ListsOK'
    BY <1>0, <1>15, <2>2 DEF ServePost, ListsOK
  <2>4. addPosts' \subseteq AddPost
    BY <1>0, <1>15, <2>1, PostShape DEF ServePost, PostStep
  <2> QED
    BY <1>0, <1>1, <1>15, <2>3, <2>4 DEF ServePost
<1>16. ASSUME NEW p \in addPosts, NEW yes \in BOOLEAN, Gated(p, yes)
       PROVE  WatchTypeOK'
  <2>1. addPosts' \subseteq AddPost
    BY <1>0, <1>16, PostShape DEF Gated
  <2> QED
    BY <1>0, <1>1, <1>2, <1>16, <2>1 DEF Gated
<1>17. ASSUME NEW p \in addPosts, AfterWatchChange(p)
       PROVE  WatchTypeOK'
  <2>1. ListsOK'
    BY <1>0, <1>17, SourcesInvalidated DEF AfterWatchChange, ListsOK, watchServer
  <2>2. watchLoads' \subseteq WatchLoad /\ sourceLoads' \subseteq SourceLoad
    BY <1>0, <1>17, WatchShapes DEF AfterWatchChange
  <2> QED
    BY <1>0, <1>1, <1>17, <2>1, <2>2 DEF AfterWatchChange
<1>18. ASSUME NEW p \in addPosts, PostFails(p)
       PROVE  WatchTypeOK'
  <2>1. addPosts' \subseteq AddPost
    BY <1>0, <1>18, PostShape DEF PostFails, PostStep
  <2> QED
    BY <1>0, <1>1, <1>2, <1>18, <2>1 DEF PostFails
<1>19. CASE UNCHANGED watchVars
  BY <1>0, <1>1, <1>2, <1>19 DEF watchVars, watchServer
<1> QED
  BY <1>3, <1>4, <1>5, <1>6, <1>7, <1>8, <1>9, <1>10, <1>11, <1>12, <1>13, <1>14, <1>15, <1>16,
     <1>17, <1>18, <1>19 DEF WatchNext

-----------------------------------------------------------------------------
(* The type invariant of the engine's panel: what a button posts is of the *)
(* kind the server takes from that button.                                 *)
ModeButton == {SetMode(m) : m \in EngMode}

Takes(r) ==
    \/ r.by \in RowButton /\ r.want \in Tier
    \/ r.by = RunNow
    \/ r.by \in ModeButton /\ r.want \in EngMode

EngInv == EngTypeOK /\ \A r \in engRuns : r.at = "post" => Takes(r)

LEMMA DataExists == engSrv \in EngData => NoData \in EngData
  BY DEF NoData

LEMMA NotPaintedShape ==
    ASSUME NoData \in EngData
    PROVE  NotPainted \in [known: BOOLEAN, data: EngData]
  BY DEF NotPainted

LEMMA EngRunMoves ==
    ASSUME NEW r \in EngRun, NEW d \in EngData
    PROVE  /\ [r EXCEPT !.at = "done"] \in EngRun /\ [r EXCEPT !.at = "done"].at = "done"
           /\ [r EXCEPT !.at = "ask"] \in EngRun /\ [r EXCEPT !.at = "ask"].at = "ask"
           /\ [r EXCEPT !.at = "read", !.data = d] \in EngRun
           /\ [r EXCEPT !.at = "read", !.data = d].at = "read"
           /\ [r EXCEPT !.inPanel = FALSE] \in EngRun
           /\ Takes([r EXCEPT !.inPanel = FALSE]) <=> Takes(r)
           /\ [r EXCEPT !.inPanel = FALSE].at = r.at
  BY DEF EngRun, Takes

LEMMA EngTypeInit == EngInit => EngInv
<1> SUFFICES ASSUME EngInit
             PROVE  EngInv
  OBVIOUS
<1>1. NotPainted \in [known: BOOLEAN, data: EngData]
  BY DataExists, NotPaintedShape DEF EngInit
<1> QED
  BY <1>1 DEF EngInit, EngInv, EngTypeOK

LEMMA EngClicked ==
    ASSUME EngInv, NEW by \in EngControl \cup {NoButton}, NEW want \in Tier \cup EngMode,
           NEW at \in {"post", "ask"}, NEW r, r = [by |-> by, inPanel |-> TRUE, want |-> want, at |-> at, data |-> NoData],
           engRuns' = engRuns \cup {r}, at = "post" => Takes(r),
           UNCHANGED <<engSrv, engMemo, engPainted>>,
           engOff' \subseteq RowButton \cup {RunNow}
    PROVE  EngInv'
<1>1. NoData \in EngData
  BY DataExists DEF EngInv, EngTypeOK
<1>2. r \in EngRun /\ r.at = at
  BY <1>1 DEF EngRun
<1>3. \A q \in engRuns' : q.at = "post" => Takes(q)
  BY <1>2 DEF EngInv
<1> QED
  BY <1>2, <1>3 DEF EngInv, EngTypeOK

LEMMA EngGoesOn ==
    ASSUME EngInv, NEW r \in engRuns, NEW s \in EngRun, s.at # "post", EngStep(r, s),
           engSrv' \in EngData, engMemo' \in [known: BOOLEAN, data: EngData],
           UNCHANGED <<engPainted, engOff>>
    PROVE  EngInv'
<1>1. \A q \in engRuns' : q.at = "post" => Takes(q)
  BY DEF EngInv, EngStep
<1> QED
  BY <1>1 DEF EngInv, EngTypeOK, EngStep

LEMMA EngEnds ==
    ASSUME EngInv, NEW r \in engRuns, engRuns' = engRuns \ {r},
           UNCHANGED <<engSrv, engMemo, engPainted>>, engOff' \subseteq engOff
    PROVE  EngInv'
<1>1. \A q \in engRuns' : q.at = "post" => Takes(q)
  BY DEF EngInv
<1> QED
  BY <1>1 DEF EngInv, EngTypeOK

LEMMA ButtonsApart ==
    /\ RunNow \notin ModeButton /\ RunNow \notin RowButton
    /\ \A b \in RowButton : b \notin ModeButton /\ b[1] \in EngStock
  BY DEF RunNow, ModeButton, SetMode, RowButton

LEMMA EngTypeStep == EngInv /\ [EngNext]_engVars => EngInv'
<1> SUFFICES ASSUME EngInv, [EngNext]_engVars
             PROVE  EngInv'
  OBVIOUS
<1>0. EngTypeOK /\ NoData \in EngData /\ NotPainted \in [known: BOOLEAN, data: EngData]
  BY DataExists, NotPaintedShape DEF EngInv, EngTypeOK
<1>1. ASSUME NEW c \in EngStock, NEW want \in Tier, NEW b \in {"tier", "remove"},
             Clicked(<<c, b>>, want), engOff' = engOff \cup {<<c, b>>},
             UNCHANGED <<engSrv, engMemo, engPainted>>
      PROVE  EngInv'
  <2> DEFINE r == [by |-> <<c, b>>, inPanel |-> TRUE, want |-> want, at |-> "post", data |-> NoData]
  <2>1. <<c, b>> \in RowButton /\ <<c, b>> \in EngControl \cup {NoButton}
    BY DEF RowButton, EngControl
  <2>2. Takes(r) /\ engRuns' = engRuns \cup {r}
    BY <1>1, <2>1 DEF Takes, Clicked
  <2>3. engOff' \subseteq RowButton \cup {RunNow}
    BY <1>0, <1>1, <2>1 DEF EngTypeOK
  <2>4. r = [by |-> <<c, b>>, inPanel |-> TRUE, want |-> want, at |-> "post", data |-> NoData]
    OBVIOUS
  <2>5. want \in Tier \cup EngMode
    OBVIOUS
  <2> HIDE DEF r
  <2> QED
    BY <1>1, <2>1, <2>2, <2>3, <2>4, <2>5, EngClicked
<1>2. ASSUME NEW c \in EngStock, ClickTierOf(c) \/ ClickRemoveOf(c)
      PROVE  EngInv'
  BY <1>1, <1>2 DEF ClickTierOf, ClickRemoveOf, Tier
<1>3. ASSUME NEW m \in EngMode, ClickMode(m)
      PROVE  EngInv'
  <2> DEFINE r == [by |-> SetMode(m), inPanel |-> TRUE, want |-> m, at |-> "post", data |-> NoData]
  <2>1. SetMode(m) \in ModeButton /\ SetMode(m) \in EngControl \cup {NoButton}
    BY DEF ModeButton, EngControl
  <2>2. Takes(r) /\ engRuns' = engRuns \cup {r}
    BY <1>3, <2>1 DEF Takes, Clicked, ClickMode
  <2>3. engOff' \subseteq RowButton \cup {RunNow} /\ UNCHANGED <<engSrv, engMemo, engPainted>>
    BY <1>0, <1>3 DEF EngTypeOK, ClickMode
  <2>4. r = [by |-> SetMode(m), inPanel |-> TRUE, want |-> m, at |-> "post", data |-> NoData]
    OBVIOUS
  <2> HIDE DEF r
  <2> QED
    BY <2>1, <2>2, <2>3, <2>4, EngClicked
<1>4. CASE ClickRunNow
  <2> DEFINE r == [by |-> RunNow, inPanel |-> TRUE, want |-> "none", at |-> "post", data |-> NoData]
  <2>1. RunNow \in EngControl \cup {NoButton} /\ "none" \in Tier \cup EngMode
    BY DEF EngControl, Tier
  <2>2. Takes(r) /\ engRuns' = engRuns \cup {r}
    BY <1>4, <2>1 DEF Takes, Clicked, ClickRunNow
  <2>3. engOff' \subseteq RowButton \cup {RunNow} /\ UNCHANGED <<engSrv, engMemo, engPainted>>
    BY <1>0, <1>4 DEF EngTypeOK, ClickRunNow
  <2>4. r = [by |-> RunNow, inPanel |-> TRUE, want |-> "none", at |-> "post", data |-> NoData]
    OBVIOUS
  <2> HIDE DEF r
  <2> QED
    BY <2>1, <2>2, <2>3, <2>4, EngClicked
<1>5. CASE PollEngine
  <2> DEFINE r == [by |-> NoButton, inPanel |-> TRUE, want |-> "none", at |-> "ask", data |-> NoData]
  <2>1. NoButton \in EngControl \cup {NoButton} /\ "none" \in Tier \cup EngMode
    BY DEF Tier
  <2>2. engRuns' = engRuns \cup {r}
    BY <1>5 DEF PollEngine
  <2>3. engOff' \subseteq RowButton \cup {RunNow} /\ UNCHANGED <<engSrv, engMemo, engPainted>>
    BY <1>0, <1>5 DEF EngTypeOK, PollEngine
  <2>4. r = [by |-> NoButton, inPanel |-> TRUE, want |-> "none", at |-> "ask", data |-> NoData]
    OBVIOUS
  <2> HIDE DEF r
  <2> QED
    BY <2>1, <2>2, <2>3, <2>4, EngClicked
<1>6. ASSUME NEW c \in EngStock, NEW t \in Tier, EngineCycle(c, t)
      PROVE  EngInv'
  <2>1. engSrv' \in EngData
    BY <1>0, <1>6 DEF EngineCycle, EngTypeOK, EngData
  <2> QED
    BY <1>6, <2>1 DEF EngineCycle, EngInv, EngTypeOK
<1>7. ASSUME NEW r \in engRuns, ServeEngine(r)
      PROVE  EngInv'
  <2>1. r \in EngRun /\ Takes(r)
    BY <1>7 DEF EngInv, EngTypeOK, ServeEngine
  <2>2. CASE r.by \in ModeButton
    <3>1. r.want \in EngMode
      BY <2>1, <2>2, ButtonsApart DEF Takes
    <3>2. engSrv' = [engSrv EXCEPT !.mode = r.want]
      BY <1>7, <2>2, ButtonsApart DEF ServeEngine, ModeButton
    <3>3. engSrv' \in EngData
      BY <1>0, <3>1, <3>2 DEF EngTypeOK, EngData
    <3> QED
      BY <1>0, <1>7, <2>1, <3>3, EngRunMoves, EngGoesOn DEF ServeEngine, EngTypeOK
  <2>3. CASE r.by = RunNow
    <3>1. engSrv' \in EngData
      BY <1>0, <1>7, <2>3, ButtonsApart DEF ServeEngine, ModeButton, EngTypeOK
    <3> QED
      BY <1>0, <1>7, <2>1, <3>1, EngRunMoves, EngGoesOn DEF ServeEngine, EngTypeOK
  <2>4. CASE r.by \in RowButton
    <3>1. r.want \in Tier /\ r.by[1] \in EngStock
      BY <2>1, <2>4, ButtonsApart DEF Takes
    <3>2. r.by \notin ModeButton /\ r.by # RunNow
      BY <2>4, ButtonsApart
    <3>3. engSrv' = engSrv \/ engSrv' = [engSrv EXCEPT !.tier[r.by[1]] = r.want]
      BY <1>7, <3>2 DEF ServeEngine, ModeButton
    <3>4. engSrv' \in EngData
      BY <1>0, <3>1, <3>3 DEF EngTypeOK, EngData
    <3> QED
      BY <1>0, <1>7, <2>1, <3>4, EngRunMoves, EngGoesOn DEF ServeEngine, EngTypeOK
  <2> QED
    BY <2>1, <2>2, <2>3, <2>4 DEF Takes
<1>8. ASSUME NEW r \in engRuns, ServeScout(r)
      PROVE  EngInv'
  <2>1. r \in EngRun /\ engSrv \in EngData
    BY <1>0 DEF EngTypeOK
  <2> QED
    BY <1>0, <1>8, <2>1, EngRunMoves, EngGoesOn DEF ServeScout, EngTypeOK
<1>9. ASSUME NEW r \in engRuns, EnginePosted(r)
      PROVE  EngInv'
  <2>1. r \in EngRun
    BY <1>0 DEF EngTypeOK
  <2> QED
    BY <1>0, <1>9, <2>1, EngRunMoves, EngGoesOn DEF EnginePosted, InvalidateScout, EngTypeOK
<1>10. ASSUME NEW r \in engRuns, EnginePostFails(r) \/ LoadEngineFails(r)
       PROVE  EngInv'
  BY <1>10, EngEnds DEF EnginePostFails, LoadEngineFails, Finished
<1>11. ASSUME NEW r \in engRuns, LoadEngine(r)
       PROVE  EngInv'
  <2>1. CASE engMemo = Told(r.data)
    BY <1>11, <2>1, EngEnds DEF LoadEngine, Finished
  <2>2. CASE engMemo # Told(r.data)
    <3> DEFINE over(s) == IF s.by \in RowButton THEN [s EXCEPT !.inPanel = FALSE] ELSE s
    <3>1. /\ engMemo' = Told(r.data) /\ engPainted' = Told(r.data) /\ engSrv' = engSrv
          /\ engOff' \subseteq engOff
          /\ engRuns' = {over(s) : s \in engRuns \ {r}}
      BY <1>11, <2>2 DEF LoadEngine, Finished
    <3>2. Told(r.data) \in [known: BOOLEAN, data: EngData]
      BY <1>0 DEF EngTypeOK, EngRun, Told
    <3>3. \A s \in engRuns : /\ over(s) \in EngRun
                             /\ over(s).at = "post" => Takes(over(s))
      BY <1>0, EngRunMoves DEF EngInv, EngTypeOK
    <3> HIDE DEF over
    <3>4. engRuns' \subseteq EngRun /\ \A q \in engRuns' : q.at = "post" => Takes(q)
      BY <3>1, <3>3
    <3> QED
      BY <1>0, <3>1, <3>2, <3>4 DEF EngInv, EngTypeOK
  <2> QED
    BY <2>1, <2>2
<1>12. CASE UNCHANGED engVars
  BY <1>12 DEF engVars, EngInv, EngTypeOK
<1> QED
  BY <1>2, <1>3, <1>4, <1>5, <1>6, <1>7, <1>8, <1>9, <1>10, <1>11, <1>12 DEF EngNext
=============================================================================
