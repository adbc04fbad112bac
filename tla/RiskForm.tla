------------------------------ MODULE RiskForm ------------------------------
(***************************************************************************)
(* The risk settings of the trading page, trading.js: one form in two      *)
(* sections with a button each, filled by a poll (loadRisk) that must not  *)
(* disturb what the user types, and the buttons that open the loss guard   *)
(* for a while or close it again.  Other tabs change the same settings.    *)
(*                                                                         *)
(* The server takes the fields of a request in order (the numbers of the   *)
(* first section, the flags, the scan interval), refuses one out of range  *)
(* without taking back the fields before it, and leaves a field that is    *)
(* missing as it was.                                                      *)
(***************************************************************************)
EXTENDS Integers, FiniteSets

CONSTANTS
    RiskCells,      \* the numbers of the first section the model keeps
    ScanCells,      \* the numbers of the second (scan_interval_sec)
    Typed,          \* what the user may type in each of them
    OtherTabs,      \* bound: the settings that other tabs change
    MaxRiskRuns     \* bound: polls and handlers under way

Blank == 8          \* an empty field: NaN, sent as null
Outside == 9        \* a number the server refuses
Flag == "confirm_on_close"
RiskField == RiskCells \cup ScanCells
Cell == RiskField \cup {Flag}
Section == {"fund", "scan"}
CellsOf(sec) == IF sec = "fund" THEN RiskCells ELSE ScanCells \cup {Flag}
NoCell == "none"

ASSUME RiskAssumption ==
    /\ RiskField \cap {Flag, NoCell} = {} /\ RiskCells \cap ScanCells = {}
    /\ OtherTabs \subseteq Cell
    /\ Typed \subseteq {Blank, 0, 1, Outside}
    /\ MaxRiskRuns \in Nat

VARIABLES
    riskSrv,        \* the settings the server uses
    form,           \* what the fields show
    riskFocus,      \* the field being edited
    riskMemo,       \* _memo.risk
    riskRuns,       \* polls and button handlers under way
    touched,        \* fields of a section being saved that were entered since
    ovOff,          \* the buttons of the guard that are disabled
    ovBox           \* the ones renderOverride has put on the page

riskVars == <<riskSrv, form, riskFocus, riskMemo, riskRuns, touched, ovOff, ovBox>>

Settings == [Cell -> {0, 1}]
Unseen == [c \in Cell |-> 0]
NoMemo == [known |-> FALSE, data |-> Unseen]
Opening == {"reset", "extend"}      \* ovReset and ovExtend
OvButton == Opening \cup {"clear"}

(* by: "poll" or what was clicked; at: waiting for its post to arrive, for *)
(* the answer to the post, for the first or the second answer of loadRisk. *)
Run == [by: Section \cup OvButton \cup {"poll"},
        at: {"post", "posted", "ask", "risk"},
        body: [Cell -> {Blank, 0, 1, Outside}], data: Settings]
NoBody == [c \in Cell |-> Blank]
NewRun(by, at, body) == [by |-> by, at |-> at, body |-> body, data |-> Unseen]
Step(r, s) == riskRuns' = (riskRuns \ {r}) \cup {s}
Busy(by) == (\E r \in riskRuns : r.by = by) \/ Cardinality(riskRuns) >= MaxRiskRuns

RiskTypeOK ==
    /\ riskSrv \in Settings
    /\ form \in [Cell -> {Blank, 0, 1, Outside}]
    /\ riskFocus \in RiskField \cup {NoCell}
    /\ riskMemo \in [known: BOOLEAN, data: Settings]
    /\ riskRuns \subseteq Run
    /\ touched \subseteq Cell
    /\ ovOff \subseteq OvButton /\ ovBox \subseteq OvButton

RiskInit ==
    /\ riskSrv = Unseen
    /\ form = [c \in Cell |-> IF c = Flag THEN 0 ELSE Blank]
    /\ riskFocus = NoCell
    /\ riskMemo = NoMemo
    /\ riskRuns = {}
    /\ touched = {}
    /\ ovOff = {} /\ ovBox = {}

-----------------------------------------------------------------------------
(* The user *)

Touch(c) == {c} \cap UNION {CellsOf(sec) : sec \in {r.by : r \in riskRuns} \cap Section}
Settled(r) == touched' = touched \ (IF r.by \in Section THEN CellsOf(r.by) ELSE {})

EnterField(c) ==
    /\ riskFocus # c
    /\ riskFocus' = c
    /\ touched' = touched \cup Touch(c)
    /\ UNCHANGED <<riskSrv, form, riskMemo, riskRuns, ovOff, ovBox>>

LeaveField ==
    /\ riskFocus # NoCell
    /\ riskFocus' = NoCell
    /\ UNCHANGED <<riskSrv, form, riskMemo, riskRuns, touched, ovOff, ovBox>>

TypeField(v) ==
    /\ riskFocus # NoCell
    /\ form' = [form EXCEPT ![riskFocus] = v]
    /\ UNCHANGED <<riskSrv, riskFocus, riskMemo, riskRuns, touched, ovOff, ovBox>>

TickFlag ==
    /\ form' = [form EXCEPT ![Flag] = 1 - @]
    /\ touched' = touched \cup Touch(Flag)
    /\ riskFocus' = NoCell
    /\ UNCHANGED <<riskSrv, riskMemo, riskRuns, ovOff, ovBox>>

(* Fault: a button saves the whole form. *)
WholeForm(sec) == form

(* The body of a request has the fields of its section only. *)
Body(sec) == [c \in Cell |-> IF c \in CellsOf(sec) THEN form[c] ELSE Blank]

(* gSave and scanSave; the button is disabled while its handler runs. *)
ClickSave(sec) ==
    /\ ~Busy(sec)
    /\ riskRuns' = riskRuns \cup {NewRun(sec, "post", Body(sec))}
    /\ riskFocus' = NoCell
    /\ UNCHANGED <<riskSrv, form, riskMemo, touched, ovOff, ovBox>>

(* ovCall, confirmed, and ovClear; the post changes none of these settings, *)
(* so only its answer matters.  A paint can enable a button whose handler  *)
(* still runs; one handler of a button at a time (bound).                  *)
ClickOverride(b) ==
    /\ b \in ovBox \ ovOff /\ ~Busy(b)
    /\ riskRuns' = riskRuns \cup {NewRun(b, "posted", NoBody)}
    /\ ovOff' = ovOff \cup {b}
    /\ riskFocus' = NoCell
    /\ UNCHANGED <<riskSrv, form, riskMemo, touched, ovBox>>

PollRisk ==
    /\ ~Busy("poll")
    /\ riskRuns' = riskRuns \cup {NewRun("poll", "ask", NoBody)}
    /\ UNCHANGED <<riskSrv, form, riskFocus, riskMemo, touched, ovOff, ovBox>>

-----------------------------------------------------------------------------
(* The server *)

OtherTabSaves(c) ==
    /\ riskSrv' = [riskSrv EXCEPT ![c] = 1 - @]
    /\ UNCHANGED <<form, riskFocus, riskMemo, riskRuns, touched, ovOff, ovBox>>

Taken(body, cells) ==
    [c \in Cell |-> IF c \in cells /\ body[c] # Blank THEN body[c] ELSE riskSrv[c]]

(* What is taken of a request with numbers out of range: fields before the *)
(* first of them; the flags and the scan interval come last.               *)
BeforeBad(bad) ==
    {t \in SUBSET (Cell \ bad) :
        IF bad \cap RiskCells = {} THEN RiskCells \cup {Flag} \subseteq t ELSE t \subseteq RiskCells}

(* save_risk: all the fields, or the ones before a number out of range. *)
ServeSave(r, taken) ==
    /\ r.at = "post"
    /\ LET bad == {c \in Cell : r.body[c] = Outside}
       IN  IF bad = {}
           THEN taken = Cell /\ Step(r, NewRun(r.by, "posted", NoBody)) /\ UNCHANGED touched
           ELSE taken \in BeforeBad(bad) /\ riskRuns' = riskRuns \ {r} /\ Settled(r)
    /\ riskSrv' = Taken(r.body, taken)
    /\ UNCHANGED <<form, riskFocus, riskMemo, ovOff, ovBox>>

ServeRisk(r) ==
    /\ r.at = "ask"
    /\ Step(r, [r EXCEPT !.at = "risk", !.data = riskSrv])
    /\ UNCHANGED <<riskSrv, form, riskFocus, riskMemo, touched, ovOff, ovBox>>

-----------------------------------------------------------------------------
(* The answers *)

(* Fault: what was painted is taken to be there still. *)
MemoKept == UNCHANGED riskMemo

(* A handler that was answered forgets what was painted and loads again. *)
Forget == riskMemo' = NoMemo

PostAcknowledged(r) ==
    /\ r.at = "posted"
    /\ Forget
    /\ Step(r, [r EXCEPT !.at = "ask"])
    /\ UNCHANGED <<riskSrv, form, riskFocus, touched, ovOff, ovBox>>

(* The field being edited is left alone; a check box is not one. *)
Painted(data) == [c \in Cell |-> IF c = riskFocus THEN form[c] ELSE data[c]]

(* renderOverride: hidden, the box is not painted; spent: the guard was    *)
(* opened as often or as far as a day allows.                              *)
OverrideOff(box, spent) ==
    IF box = {} THEN ovOff ELSE (ovOff \ Opening) \cup IF spent THEN Opening ELSE {}

Boxes == {{}, Opening, OvButton}    \* "clear" is there while the guard is open

(* The end of loadRisk and of the handler that called it.  The memo holds  *)
(* the day's profit and the state of the guard too, which may have moved.  *)
LoadRisk(r, moved, box, spent) ==
    /\ r.at = "risk"
    /\ riskRuns' = riskRuns \ {r}
    /\ IF ~moved /\ riskMemo = [known |-> TRUE, data |-> r.data]
       THEN /\ UNCHANGED <<form, riskMemo, ovBox>>
            /\ ovOff' = ovOff \ {r.by}
       ELSE /\ riskMemo' = [known |-> TRUE, data |-> r.data]
            /\ form' = Painted(r.data)
            /\ ovBox' = box
            /\ ovOff' = OverrideOff(box, spent) \ {r.by}
    /\ Settled(r)
    /\ UNCHANGED <<riskSrv, riskFocus>>

(* A load that fails leaves the form; the handler still ends. *)
RiskFails(r) ==
    /\ r.at \in {"ask", "post", "posted"}
    /\ riskRuns' = riskRuns \ {r}
    /\ ovOff' = ovOff \ {r.by}
    /\ Settled(r)
    /\ UNCHANGED <<riskSrv, form, riskFocus, riskMemo, ovBox>>

RiskNext ==
    \/ \E c \in RiskField : EnterField(c)
    \/ LeaveField
    \/ \E v \in Typed : TypeField(v)
    \/ TickFlag
    \/ \E c \in OtherTabs : OtherTabSaves(c)
    \/ \E sec \in Section : ClickSave(sec)
    \/ \E b \in OvButton : ClickOverride(b)
    \/ PollRisk
    \/ \E r \in riskRuns :
          \/ \E taken \in SUBSET Cell : ServeSave(r, taken)
          \/ ServeRisk(r) \/ PostAcknowledged(r) \/ RiskFails(r)
          \/ \E moved, spent \in BOOLEAN, box \in Boxes : LoadRisk(r, moved, box, spent)

RiskSpec == RiskInit /\ [][RiskNext]_riskVars

-----------------------------------------------------------------------------
SaveLoaded(r) ==
    r.at = "risk" /\ \E moved, spent \in BOOLEAN, box \in Boxes : LoadRisk(r, moved, box, spent)

(* When a save has been acknowledged and its load ends, the fields of the  *)
(* section show what the server stored, which for an empty field is not    *)
(* what the form had; only a field the user went back to since may differ. *)
(* It takes the memo to be forgotten, or a server that kept its value      *)
(* would look unchanged.  (trading.js:133-151, 155-168.)                   *)
SaveShowsStored ==
    [][\A r \in riskRuns :
          r.by \in Section /\ SaveLoaded(r) =>
              \A c \in CellsOf(r.by) \ touched : form'[c] \in {0, 1} /\
                  (riskMemo'.data = r.data => form'[c] = r.data[c])]_riskVars

(* "Saving is split by section so that other values are not overwritten by *)
(* mistake" (trading.js:126): a form that is behind another tab never      *)
(* writes a section whose button was not clicked.                          *)
SectionsIndependent ==
    [][\A r \in riskRuns, taken \in SUBSET Cell : ServeSave(r, taken) =>
          \A c \in Cell \ CellsOf(r.by) : riskSrv'[c] = riskSrv[c]]_riskVars
=============================================================================
