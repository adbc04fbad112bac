----------------------------- MODULE PageRouter -----------------------------
(***************************************************************************)
(* The router of the dashboard, app.js: every page is rendered into one    *)
(* container, its intervals go to one list, and renderRoute clears both    *)
(* before it renders the next page.  Rendering is asynchronous: a page     *)
(* that awaits its first answers goes on after the user left it.           *)
(*                                                                         *)
(* A visit is one call of renderRoute; the intervals a page registers      *)
(* together count as one.                                                  *)
(***************************************************************************)
EXTENDS Integers

CONSTANTS
    MaxVisits,      \* bound: calls of renderRoute
    MaxTicks        \* bound: ticks of a visit's intervals

ASSUME RouterAssumption == MaxVisits \in Nat \ {0} /\ MaxTicks \in Nat \ {0}

Visit == 1 .. MaxVisits

VARIABLES
    visit,      \* the visit the container belongs to
    rendering,  \* visits whose page.render has not returned
    listed,     \* timers
    live,       \* visits whose intervals run
    nodes,      \* visits with nodes in the container
    ticks,      \* ticks of each visit so far
    asked,      \* <<visit, tick>> whose answer is out
    shown,      \* the tick each panel shows, 0 for none, -1 for a failure
    login       \* the browser is sent to /login

routerVars == <<visit, rendering, listed, live, nodes, ticks, asked, shown, login>>

RouterTypeOK ==
    /\ visit \in 0 .. MaxVisits
    /\ rendering \subseteq Visit
    /\ listed \subseteq Visit
    /\ live \subseteq Visit
    /\ nodes \subseteq Visit
    /\ ticks \in [Visit -> 0 .. MaxTicks]
    /\ asked \subseteq Visit \X (1 .. MaxTicks)
    /\ shown \in [Visit -> -1 .. MaxTicks]
    /\ login \in BOOLEAN

RouterInit ==
    /\ visit = 0
    /\ rendering = {}
    /\ listed = {}
    /\ live = {}
    /\ nodes = {}
    /\ ticks = [v \in Visit |-> 0]
    /\ asked = {}
    /\ shown = [v \in Visit |-> 0]
    /\ login = FALSE

-----------------------------------------------------------------------------
(* Fault: a page adds to the list of its own visit, which was cleared. *)
AddToOwnList(v, running, list) ==
    live' = running \cup {v} /\ listed' = IF v < visit THEN list ELSE list \cup {v}

(* ctx.addTimer: the list is looked up when the interval is registered. *)
AddTimer(v, running, list) == live' = running \cup {v} /\ listed' = list \cup {v}

(* clearTimers stops the intervals of the list, no others. *)
Cleared == live \ listed

(* A page of panels registers its intervals before it awaits anything and  *)
(* asks for its first answers at once.                                     *)
RenderPanels ==
    /\ ~login /\ visit < MaxVisits
    /\ visit' = visit + 1
    /\ nodes' = {visit'}
    /\ AddTimer(visit', Cleared, {})
    /\ ticks' = [ticks EXCEPT ![visit'] = 1]
    /\ asked' = asked \cup {<<visit', 1>>}
    /\ UNCHANGED <<rendering, shown, login>>

(* Any other page awaits its answers first. *)
RenderPage ==
    /\ ~login /\ visit < MaxVisits
    /\ visit' = visit + 1
    /\ nodes' = {visit'}
    /\ rendering' = rendering \cup {visit'}
    /\ live' = Cleared
    /\ listed' = {}
    /\ UNCHANGED <<ticks, asked, shown, login>>

PageRendered(v) ==
    /\ ~login /\ v \in rendering
    /\ rendering' = rendering \ {v}
    /\ AddTimer(v, live, listed)
    /\ UNCHANGED <<visit, nodes, ticks, asked, shown, login>>

(* The alert goes to the container, whichever page it shows by now. *)
PageFails(v) ==
    /\ ~login /\ v \in rendering
    /\ rendering' = rendering \ {v}
    /\ nodes' = nodes \cup {v}
    /\ UNCHANGED <<visit, listed, live, ticks, asked, shown, login>>

(* An interval does not wait for the answer to its last tick. *)
Tick(v) ==
    /\ ~login /\ v \in live /\ ticks[v] < MaxTicks
    /\ ticks' = [ticks EXCEPT ![v] = @ + 1]
    /\ asked' = asked \cup {<<v, ticks'[v]>>}
    /\ UNCHANGED <<visit, rendering, listed, live, nodes, shown, login>>

PanelAnswer(v, n, ok) ==
    /\ ~login /\ <<v, n>> \in asked
    /\ asked' = asked \ {<<v, n>>}
    /\ shown' = [shown EXCEPT ![v] = IF ok THEN n ELSE -1]
    /\ UNCHANGED <<visit, rendering, listed, live, nodes, ticks, login>>

(* fetchJSON on a 401: the browser leaves for the login page. *)
Unauthorized ==
    /\ ~login
    /\ asked # {} \/ rendering # {}
    /\ login' = TRUE
    /\ UNCHANGED <<visit, rendering, listed, live, nodes, ticks, asked, shown>>

RouterNext ==
    \/ RenderPanels
    \/ RenderPage
    \/ \E v \in Visit : PageRendered(v) \/ PageFails(v) \/ Tick(v)
    \/ \E v \in Visit, n \in 1 .. MaxTicks, ok \in BOOLEAN : PanelAnswer(v, n, ok)
    \/ Unauthorized

RouterSpec == RouterInit /\ [][RouterNext]_routerVars

-----------------------------------------------------------------------------
(* Opening a page stops every interval of the pages before it, those       *)
(* included that a page registered after the user had left it: such an     *)
(* interval lives until the next navigation and no longer.  (app.js:113-   *)
(* 116, 133; the comment at app.js:8-9 promises the stop at the navigation *)
(* away from the page.)                                                    *)
NavigationStopsPolling == [][visit' # visit => live' \subseteq {visit'}]_routerVars
=============================================================================
