---------------------------- MODULE DeskSwitches ----------------------------
(***************************************************************************)
(* The switches of the trading desk on the trading page, trading.js: they  *)
(* show what the last status answer said and post a change at once.        *)
(* loadStatus repaints them as soon as the status is there, then waits for *)
(* the account.  The status card it paints last has no state of its own    *)
(* and is left out.                                                        *)
(*                                                                         *)
(* renderDesk empties the box the switches are in before it looks whether  *)
(* one of them has the focus, so none ever has: every repaint sets them.   *)
(* The server (external: src/trading) is its three settings and a number.  *)
(***************************************************************************)
EXTENDS Integers, FiniteSets

CONSTANTS
    TrailFields,    \* "trail_target" and the parameters, trailNum
    MaxDeskRuns     \* bound: polls and handlers under way

ASSUME DeskAssumption ==
    TrailFields \cap {"enabled", "trailing"} = {} /\ MaxDeskRuns \in Nat

Guarded == {"enabled", "trailing"}      \* disabled while their handler runs
Field == Guarded \cup TrailFields

VARIABLES
    deskSrv,        \* the settings the server uses
    checked,        \* what switches and number show
    deskOff,        \* fields that are disabled
    deskShown,      \* deskBox is empty, or painted with the desk off or on
    deskRuns        \* polls and handlers under way

deskVars == <<deskSrv, checked, deskOff, deskShown, deskRuns>>

Desk == [Field -> BOOLEAN]
NoDesk == [f \in Field |-> FALSE]

(* at: its post under way, done by the server, the status asked for, read, *)
(* and painted with the account still missing.                             *)
DeskRun == [by: Field \cup {"poll"}, on: BOOLEAN,
            at: {"post", "done", "ask", "read", "account"}, data: Desk]
DeskBy(by, on, at) == [by |-> by, on |-> on, at |-> at, data |-> NoDesk]
DeskStep(r, s) == deskRuns' = (deskRuns \ {r}) \cup {s}
Begin(r) == Cardinality(deskRuns) < MaxDeskRuns /\ deskRuns' = deskRuns \cup {r}

DeskTypeOK ==
    /\ deskSrv \in Desk
    /\ checked \in Desk
    /\ deskOff \subseteq Field
    /\ deskShown \in {"empty", "off", "on"}
    /\ deskRuns \subseteq DeskRun

DeskInit ==
    /\ deskSrv \in {NoDesk, [NoDesk EXCEPT !["enabled"] = TRUE, !["trailing"] = TRUE]}
    /\ checked = NoDesk
    /\ deskOff = {}
    /\ deskShown = "empty"
    /\ deskRuns = {}

-----------------------------------------------------------------------------
(* The user changes a switch, or a number, that is shown and enabled.  A   *)
(* confirmation that is declined restores the switch.                      *)
Shows(f) == deskShown = "on" \/ (deskShown = "off" /\ f = "enabled")

ChangeSwitch(f) ==
    /\ Shows(f) /\ f \notin deskOff
    /\ Begin(DeskBy(f, ~checked[f], "post"))
    /\ checked' = [checked EXCEPT ![f] = ~@]
    /\ deskOff' = IF f = "trail_target" THEN deskOff ELSE deskOff \cup {f}
    /\ UNCHANGED <<deskSrv, deskShown>>

PollStatus ==
    /\ ~\E r \in deskRuns : r.by = "poll"
    /\ Begin(DeskBy("poll", FALSE, "ask"))
    /\ UNCHANGED <<deskSrv, checked, deskOff, deskShown>>

(* The server *)

ServeDesk(r) ==
    /\ r.at = "post"
    /\ deskSrv' = [deskSrv EXCEPT ![r.by] = r.on]
    /\ DeskStep(r, [r EXCEPT !.at = "done"])
    /\ UNCHANGED <<checked, deskOff, deskShown>>

ServeStatus(r) ==
    /\ r.at = "ask"
    /\ DeskStep(r, [r EXCEPT !.at = "read", !.data = deskSrv])
    /\ UNCHANGED <<deskSrv, checked, deskOff, deskShown>>

-----------------------------------------------------------------------------
(* The handlers *)

(* finally: the field is enabled again. *)
EndRun(r, off) == deskRuns' = deskRuns \ {r} /\ deskOff' = off \ {r.by}

DeskPosted(r) ==
    /\ r.at = "done"
    /\ DeskStep(r, DeskBy(r.by, FALSE, "ask"))
    /\ UNCHANGED <<deskSrv, checked, deskOff, deskShown>>

(* The guarded switches go back to what they were, the other one is turned *)
(* over, whatever it shows by now; the number stays.                       *)
DeskPostFails(r) ==
    /\ r.at \in {"post", "done"}
    /\ EndRun(r, deskOff)
    /\ checked' = CASE r.by \in Guarded -> [checked EXCEPT ![r.by] = ~r.on]
                    [] r.by = "trail_target" -> [checked EXCEPT ![r.by] = ~@]
                    [] OTHER -> checked
    /\ UNCHANGED <<deskSrv, deskShown>>

(* Fault: a repaint brings new switches, enabled. *)
NewSwitches(d, off) == IF d["trailing"] THEN {} ELSE TrailFields

(* renderDesk, trailSwitch, trailRow and trailNum: the last three only when*)
(* the desk is on, and their fields are enabled when trailing is.          *)
DisabledBy(d, off) ==
    IF ~d["enabled"] THEN off
    ELSE IF d["trailing"] THEN off \ TrailFields
    ELSE off \cup TrailFields

RenderDesk(r) ==
    /\ r.at = "read"
    /\ deskShown' = IF r.data["enabled"] THEN "on" ELSE "off"
    /\ checked' = IF r.data["enabled"] THEN r.data ELSE [checked EXCEPT !["enabled"] = FALSE]
    /\ deskOff' = DisabledBy(r.data, deskOff)
    /\ DeskStep(r, DeskBy(r.by, FALSE, "account"))
    /\ UNCHANGED deskSrv

(* The second answer of loadStatus, or its failure. *)
LoadStatus(r) ==
    /\ r.at = "account"
    /\ EndRun(r, deskOff)
    /\ UNCHANGED <<deskSrv, checked, deskShown>>

StatusFails(r) ==
    /\ r.at \in {"ask", "read"}
    /\ EndRun(r, deskOff)
    /\ UNCHANGED <<deskSrv, checked, deskShown>>

DeskNext ==
    \/ \E f \in Field : ChangeSwitch(f)
    \/ PollStatus
    \/ \E r \in deskRuns : \/ ServeDesk(r) \/ ServeStatus(r)
                           \/ DeskPosted(r) \/ DeskPostFails(r)
                           \/ RenderDesk(r) \/ LoadStatus(r) \/ StatusFails(r)

DeskSpec == DeskInit /\ [][DeskNext]_deskVars

-----------------------------------------------------------------------------
(* A switch that starts or stops real exits has one request out at most,   *)
(* however often the polls repaint it meanwhile: the server cannot apply   *)
(* two changes of it in the other order.  (trading.js:690-701, 741-752.)   *)
OneSwitchInFlight ==
    \A f \in Guarded : \A r, s \in deskRuns : r.by = f /\ s.by = f => r = s
=============================================================================
