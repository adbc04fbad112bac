---------------------------- MODULE EnginePanel ----------------------------
(***************************************************************************)
(* The panel of the discovery engine, scout.js: a poll repaints all of it  *)
(* when the answer is new, and the buttons in it change the watch list or  *)
(* the mode of the engine.  The buttons of a row are disabled by their own *)
(* handler and never enabled again when the change succeeds: the repaint   *)
(* is to bring new ones.                                                   *)
(*                                                                         *)
(* The server (external: src/trading) keeps the tier of each stock and the *)
(* mode of the engine; the engine changes tiers too.                       *)
(***************************************************************************)
EXTENDS Integers, FiniteSets

CONSTANTS
    EngStock,       \* stocks the watch list may hold
    EngMode,        \* modes of the engine, frozen or not
    MaxEngRuns      \* bound: polls and handlers under way

ASSUME EngAssumption == MaxEngRuns \in Nat

Tier == {"trade", "collect", "none"}
RowButton == EngStock \X {"tier", "remove"}
RunNow == <<"-", "run">>
SetMode(m) == <<m, "mode">>
EngControl == RowButton \cup {RunNow} \cup {SetMode(m) : m \in EngMode}
NoButton == <<"-", "poll">>

VARIABLES
    engSrv,         \* tiers and mode on the server
    engMemo,        \* the memo of "scout"
    engPainted,     \* what the panel was painted from
    engOff,         \* disabled buttons of the panel
    engRuns         \* polls and handlers under way

engVars == <<engSrv, engMemo, engPainted, engOff, engRuns>>

EngData == [tier: [EngStock -> Tier], mode: EngMode]
NoData == CHOOSE d \in EngData : TRUE
NotPainted == [known |-> FALSE, data |-> NoData]
Told(d) == [known |-> TRUE, data |-> d]

(* A handler's run: which button it is of, whether that button is still in *)
(* the panel, the change it posts, and where its requests are.             *)
EngRun == [by: EngControl \cup {NoButton}, inPanel: BOOLEAN, want: Tier \cup EngMode,
           at: {"post", "done", "ask", "read"}, data: EngData]
EngStep(r, s) == engRuns' = (engRuns \ {r}) \cup {s}
EngRoom == Cardinality(engRuns) < MaxEngRuns

EngTypeOK ==
    /\ engSrv \in EngData
    /\ engMemo \in [known: BOOLEAN, data: EngData]
    /\ engPainted \in [known: BOOLEAN, data: EngData]
    /\ engOff \subseteq RowButton \cup {RunNow}
    /\ engRuns \subseteq EngRun

EngInit ==
    /\ engSrv \in EngData
    /\ engMemo = NotPainted
    /\ engPainted = NotPainted
    /\ engOff = {}
    /\ engRuns = {}

-----------------------------------------------------------------------------
(* The user *)

Clicked(by, want) ==
    /\ EngRoom
    /\ engRuns' = engRuns \cup
           {[by |-> by, inPanel |-> TRUE, want |-> want, at |-> "post", data |-> NoData]}

(* "collect only" or "trade", whichever the row does not show. *)
ClickTierOf(c) ==
    LET shown == engPainted.data.tier[c]
    IN  /\ engPainted.known /\ shown # "none" /\ <<c, "tier">> \notin engOff
        /\ Clicked(<<c, "tier">>, IF shown = "collect" THEN "trade" ELSE "collect")
        /\ engOff' = engOff \cup {<<c, "tier">>}
        /\ UNCHANGED <<engSrv, engMemo, engPainted>>

ClickRemoveOf(c) ==
    /\ engPainted.known /\ engPainted.data.tier[c] # "none" /\ <<c, "remove">> \notin engOff
    /\ Clicked(<<c, "remove">>, "none")
    /\ engOff' = engOff \cup {<<c, "remove">>}
    /\ UNCHANGED <<engSrv, engMemo, engPainted>>

(* setMode and setFrozen; the button of the mode that is shown is disabled.*)
ClickMode(m) ==
    /\ engPainted.known /\ engPainted.data.mode # m
    /\ Clicked(SetMode(m), m)
    /\ UNCHANGED <<engSrv, engMemo, engPainted, engOff>>

ClickRunNow ==
    /\ RunNow \notin engOff
    /\ Clicked(RunNow, "none")
    /\ engOff' = engOff \cup {RunNow}
    /\ UNCHANGED <<engSrv, engMemo, engPainted>>

PollEngine ==
    /\ EngRoom
    /\ engRuns' = engRuns \cup {[by |-> NoButton, inPanel |-> TRUE, want |-> "none",
                                 at |-> "ask", data |-> NoData]}
    /\ UNCHANGED <<engSrv, engMemo, engPainted, engOff>>

-----------------------------------------------------------------------------
(* The server *)

EngineCycle(c, t) ==
    /\ engSrv' = [engSrv EXCEPT !.tier[c] = t]
    /\ UNCHANGED <<engMemo, engPainted, engOff, engRuns>>

(* Only what the button is about is changed; the mode of a stock that was  *)
(* taken off the list meanwhile is not.                                    *)
ServeEngine(r) ==
    /\ r.at = "post"
    /\ engSrv' = CASE r.by \in {SetMode(m) : m \in EngMode} -> [engSrv EXCEPT !.mode = r.want]
                   [] r.by = RunNow -> engSrv
                   [] OTHER -> LET c == r.by[1]
                               IN  IF engSrv.tier[c] = "none" THEN engSrv
                                   ELSE [engSrv EXCEPT !.tier[c] = r.want]
    /\ EngStep(r, [r EXCEPT !.at = "done"])
    /\ UNCHANGED <<engMemo, engPainted, engOff>>

ServeScout(r) ==
    /\ r.at = "ask"
    /\ EngStep(r, [r EXCEPT !.at = "read", !.data = engSrv])
    /\ UNCHANGED <<engSrv, engMemo, engPainted, engOff>>

-----------------------------------------------------------------------------
(* The answers *)

(* finally of "run now"; the button of a row stays as it is. *)
Finished(r, off) == IF r.by = RunNow THEN off \ {RunNow} ELSE off

(* Fault: a change that succeeded keeps the memo. *)
ScoutKept == UNCHANGED engMemo

InvalidateScout == engMemo' = NotPainted

EnginePosted(r) ==
    /\ r.at = "done"
    /\ InvalidateScout
    /\ EngStep(r, [r EXCEPT !.at = "ask"])
    /\ UNCHANGED <<engSrv, engPainted, engOff>>

(* The catch enables the button that was clicked, painted over or not. *)
EnginePostFails(r) ==
    /\ r.at \in {"post", "done"}
    /\ engRuns' = engRuns \ {r}
    /\ engOff' = IF r.inPanel THEN engOff \ {r.by} ELSE engOff
    /\ UNCHANGED <<engSrv, engMemo, engPainted>>

(* The end of load: the panel is painted when the answer is new, with new  *)
(* buttons in every row.                                                   *)
LoadEngine(r) ==
    /\ r.at = "read"
    /\ IF engMemo = Told(r.data)
       THEN /\ engOff' = Finished(r, engOff)
            /\ engRuns' = engRuns \ {r}
            /\ UNCHANGED <<engMemo, engPainted>>
       ELSE /\ engMemo' = Told(r.data)
            /\ engPainted' = Told(r.data)
            /\ engOff' = Finished(r, engOff \ RowButton)
            /\ engRuns' = {IF s.by \in RowButton THEN [s EXCEPT !.inPanel = FALSE] ELSE s :
                              s \in engRuns \ {r}}
    /\ UNCHANGED engSrv

LoadEngineFails(r) ==
    /\ r.at = "ask"
    /\ engRuns' = engRuns \ {r}
    /\ engOff' = Finished(r, engOff)
    /\ UNCHANGED <<engSrv, engMemo, engPainted>>

EngNext ==
    \/ \E c \in EngStock : ClickTierOf(c) \/ ClickRemoveOf(c) \/ \E t \in Tier : EngineCycle(c, t)
    \/ \E m \in EngMode : ClickMode(m)
    \/ ClickRunNow
    \/ PollEngine
    \/ \E r \in engRuns : \/ ServeEngine(r) \/ ServeScout(r) \/ EnginePosted(r)
                          \/ EnginePostFails(r) \/ LoadEngine(r) \/ LoadEngineFails(r)

EngSpec == EngInit /\ [][EngNext]_engVars

-----------------------------------------------------------------------------
(* No button stays dead: one that is disabled while no handler of its own  *)
(* is under way belongs to a panel the memo does not know, so the next     *)
(* answer, even one that says nothing new, brings it back.  (scout.js:     *)
(* 1069-1138: success forgets the memo, failure enables the button.)       *)
DisabledButtonComesBack ==
    \A b \in engOff : \/ \E r \in engRuns : r.by = b /\ r.inPanel
                      \/ b # RunNow /\ ~engMemo.known
=============================================================================
