------------------------------ MODULE TnmWatch ------------------------------
(***************************************************************************)
(* The watch list of the news settings, tnm-settings.js: each row has a    *)
(* threshold to edit, a button that saves it and one that excludes the     *)
(* stock, and a poll paints the whole table anew when its answer is new.   *)
(* The second number of a row is handled as the first, and whether it is   *)
(* excluded only changes its looks: both are left out.                     *)
(*                                                                         *)
(* The server (external: src/tnm) keeps the threshold of each stock; other *)
(* pages change it too.                                                    *)
(***************************************************************************)
EXTENDS Integers, FiniteSets

CONSTANTS
    Ticker,
    Threshold,
    MaxTnmRuns      \* bound: polls and handlers under way

ASSUME TnmAssumption == MaxTnmRuns \in Nat

VARIABLES
    tnmSrv,         \* the list on the server
    tnmMemo,        \* the memo of "watch"
    tnmPainted,     \* what the table was painted from
    thField,        \* what the fields of the rows show
    dirty,          \* rows whose field is marked data-dirty
    tnmFocus,       \* the focus is in the table
    tnmRuns,        \* polls and handlers under way
    unsent          \* rows typed in since they were saved, and not while a
                    \* save of theirs was under way

tnmVars == <<tnmSrv, tnmMemo, tnmPainted, thField, dirty, tnmFocus, tnmRuns, unsent>>

Entries == [Ticker -> Threshold]
NoEntries == CHOOSE e \in Entries : TRUE
NoTable == [known |-> FALSE, data |-> NoEntries]
Table(d) == [known |-> TRUE, data |-> d]
Rows == IF tnmPainted.known THEN Ticker ELSE {}

(* inTable: the row of the handler has not been painted anew since.        *)
TnmRun == [op: {"poll", "save", "toggle", "sync"}, row: Ticker, want: Threshold, inTable: BOOLEAN,
           at: {"post", "done", "ask", "read"}, data: Entries]
NewTnm(op, t, want, at) ==
    [op |-> op, row |-> t, want |-> want, inTable |-> TRUE, at |-> at, data |-> NoEntries]
BeginTnm(r) == Cardinality(tnmRuns) < MaxTnmRuns /\ tnmRuns' = tnmRuns \cup {r}
TnmStep(r, s) == tnmRuns' = (tnmRuns \ {r}) \cup {s}

TnmTypeOK ==
    /\ tnmSrv \in Entries
    /\ tnmMemo \in [known: BOOLEAN, data: Entries]
    /\ tnmPainted \in [known: BOOLEAN, data: Entries]
    /\ thField \in [Ticker -> Threshold]
    /\ dirty \subseteq Ticker
    /\ tnmFocus \in BOOLEAN
    /\ tnmRuns \subseteq TnmRun
    /\ unsent \subseteq Ticker

TnmInit ==
    /\ tnmSrv \in Entries
    /\ tnmMemo = NoTable
    /\ tnmPainted = NoTable
    /\ thField = [t \in Ticker |-> NoEntries[t]]
    /\ dirty = {}
    /\ tnmFocus = FALSE
    /\ tnmRuns = {}
    /\ unsent = {}

-----------------------------------------------------------------------------
(* The user *)

SavesOf(t) == {r \in tnmRuns : r.op = "save" /\ r.row = t}

TypeThreshold(t, v) ==
    /\ t \in Rows
    /\ thField' = [thField EXCEPT ![t] = v]
    /\ dirty' = dirty \cup {t}
    /\ tnmFocus' = TRUE
    /\ unsent' = IF SavesOf(t) = {} THEN unsent \cup {t} ELSE unsent
    /\ UNCHANGED <<tnmSrv, tnmMemo, tnmPainted, tnmRuns>>

LeaveTable ==
    /\ tnmFocus
    /\ tnmFocus' = FALSE
    /\ UNCHANGED <<tnmSrv, tnmMemo, tnmPainted, thField, dirty, tnmRuns, unsent>>

(* A clicked button has the focus, and is in the table. *)
ClickSaveRow(t) ==
    /\ t \in Rows
    /\ BeginTnm(NewTnm("save", t, thField[t], "post"))
    /\ tnmFocus' = TRUE
    /\ unsent' = unsent \ {t}
    /\ UNCHANGED <<tnmSrv, tnmMemo, tnmPainted, thField, dirty>>

ClickToggleRow(t) ==
    /\ t \in Rows
    /\ BeginTnm(NewTnm("toggle", t, NoEntries[t], "post"))
    /\ tnmFocus' = TRUE
    /\ UNCHANGED <<tnmSrv, tnmMemo, tnmPainted, thField, dirty, unsent>>

(* The buttons above the table; the stocks they add are left out.          *)
ClickAddOrSync ==
    /\ \E t \in Ticker : BeginTnm(NewTnm("sync", t, NoEntries[t], "post"))
    /\ tnmFocus' = FALSE
    /\ UNCHANGED <<tnmSrv, tnmMemo, tnmPainted, thField, dirty, unsent>>

PollTnm ==
    /\ ~\E r \in tnmRuns : r.op = "poll"
    /\ \E t \in Ticker : BeginTnm(NewTnm("poll", t, NoEntries[t], "ask"))
    /\ UNCHANGED <<tnmSrv, tnmMemo, tnmPainted, thField, dirty, tnmFocus, unsent>>

-----------------------------------------------------------------------------
(* The server *)

OtherPageChanges(t, v) ==
    /\ tnmSrv' = [tnmSrv EXCEPT ![t] = v]
    /\ UNCHANGED <<tnmMemo, tnmPainted, thField, dirty, tnmFocus, tnmRuns, unsent>>

ServeRow(r) ==
    /\ r.at = "post"
    /\ tnmSrv' = IF r.op = "save" THEN [tnmSrv EXCEPT ![r.row] = r.want] ELSE tnmSrv
    /\ TnmStep(r, [r EXCEPT !.at = "done"])
    /\ UNCHANGED <<tnmMemo, tnmPainted, thField, dirty, tnmFocus, unsent>>

ServeTnm(r) ==
    /\ r.at = "ask"
    /\ TnmStep(r, [r EXCEPT !.at = "read", !.data = tnmSrv])
    /\ UNCHANGED <<tnmSrv, tnmMemo, tnmPainted, thField, dirty, tnmFocus, unsent>>

-----------------------------------------------------------------------------
(* The answers *)

(* A save takes the mark off its field, whatever was typed in it since;    *)
(* the other handlers load the list again.                                 *)
RowPosted(r) ==
    /\ r.at = "done"
    /\ IF r.op = "save"
       THEN /\ dirty' = IF r.inTable THEN dirty \ {r.row} ELSE dirty
            /\ tnmRuns' = tnmRuns \ {r}
            /\ UNCHANGED tnmMemo
       ELSE /\ tnmMemo' = NoTable
            /\ TnmStep(r, [r EXCEPT !.at = "ask"])
            /\ UNCHANGED dirty
    /\ UNCHANGED <<tnmSrv, tnmPainted, thField, tnmFocus, unsent>>

TnmFails(r) ==
    /\ tnmRuns' = tnmRuns \ {r}
    /\ UNCHANGED <<tnmSrv, tnmMemo, tnmPainted, thField, dirty, tnmFocus, unsent>>

(* Fault: only the focus counts as editing. *)
FocusInTable == tnmFocus

Editing == tnmFocus \/ dirty # {}

(* loadWatch: an answer that comes while the table is edited is forgotten, *)
(* so that a later one paints.                                             *)
LoadTnmWatch(r) ==
    /\ r.at = "read"
    /\ IF tnmMemo = Table(r.data) \/ Editing
       THEN /\ tnmMemo' = IF tnmMemo = Table(r.data) THEN tnmMemo ELSE NoTable
            /\ tnmRuns' = tnmRuns \ {r}
            /\ UNCHANGED <<tnmPainted, thField, dirty>>
       ELSE /\ tnmMemo' = Table(r.data)
            /\ tnmPainted' = Table(r.data)
            /\ thField' = r.data
            /\ dirty' = {}
            /\ tnmRuns' = {[s EXCEPT !.inTable = FALSE] : s \in tnmRuns \ {r}}
    /\ UNCHANGED <<tnmSrv, tnmFocus, unsent>>

TnmNext ==
    \/ \E t \in Ticker :
          \/ ClickSaveRow(t) \/ ClickToggleRow(t)
          \/ \E v \in Threshold : TypeThreshold(t, v) \/ OtherPageChanges(t, v)
    \/ LeaveTable
    \/ ClickAddOrSync
    \/ PollTnm
    \/ \E r \in tnmRuns : \/ ServeRow(r) \/ ServeTnm(r) \/ RowPosted(r)
                          \/ TnmFails(r) \/ LoadTnmWatch(r)

TnmSpec == TnmInit /\ [][TnmNext]_tnmVars

-----------------------------------------------------------------------------
(* "A poll erased the threshold the user was typing" is the fault the marks*)
(* were added for (tnm-settings.js:135-140): a value that was typed and not*)
(* saved stays in its field whatever the polls bring, also when the focus  *)
(* went elsewhere meanwhile.  What is typed while a save of the row is     *)
(* under way is left out: its answer takes the mark off.                   *)
UnsentThresholdKept ==
    [][\A r \in tnmRuns : LoadTnmWatch(r) =>
          \A t \in unsent : thField'[t] = thField[t]]_tnmVars
=============================================================================
