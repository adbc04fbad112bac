--------------------------- MODULE OrderExecution ---------------------------
(***************************************************************************)
(* Order execution of the trading service: trade/orders.py (the orders     *)
(* table and the coroutines that talk to the firm), trade/ledger.py (the   *)
(* positions table), trade/desk.py (the fast exit watch) and the callers   *)
(* in main.py (30-second exit loop, manual buttons, realtime reader).      *)
(*                                                                         *)
(* One event loop runs these coroutines, so what a coroutine does between  *)
(* two awaits is one action, and other coroutines run at its awaits:       *)
(*   "desk"    desk.loop, which judges the rows it read at the cycle start *)
(*   "reader"  the WebSocket reader, which records executions and also     *)
(*             awaits desk.on_tick, so it records none while it exits      *)
(*   "loop"    main._ledger_loop                                           *)
(*   Users     HTTP handlers (approve, reject, close) and the engine's     *)
(*             automatic approval, one coroutine each                      *)
(* Prices are left out: any watched position may hit a line at any time.   *)
(***************************************************************************)
EXTENDS Brokerage, FiniteSets

CONSTANTS
    ExitId,             \* ids of the exit orders that wait for approval
    Users,              \* request coroutines
    AutoApprove,        \* risk.auto_approve
    StopAuto,           \* execution.stop_mode = "auto"
    DeskEnabled,        \* execution.desk.enabled
    DeskLimited,        \* execution.desk.max_symbols is set, and may be exceeded
    CancelEntryOnExit,  \* execution.cancel_entry_on_exit
    MarginOnSell,       \* the firm may refuse a sell for a shortage of margin
    MaxCrashes          \* bound: process kills in one behaviour

ASSUME ExecutionAssumption ==
    /\ Pos \cap ExitId = {}
    /\ None \notin ExitId \cup Users
    /\ {"desk", "reader", "loop"} \cap Users = {}
    /\ {AutoApprove, StopAuto, CancelEntryOnExit} \subseteq BOOLEAN
    /\ {DeskEnabled, DeskLimited, MarginOnSell} \subseteq BOOLEAN
    /\ MaxCrashes \in Nat

VARIABLES
    row,        \* orders table: id -> status, position, quantity
    pos,        \* positions table
    seen,       \* exec_fills: cumulative executions received, by order number
    co,         \* request and loop coroutines
    fb,         \* _best_exit_fallback coroutines, by the exit order they follow
    snap,       \* position rows a loop read earlier: quantity, 0 if not listed
    how,        \* how the 30-second loop will exit a listed position
    crashes

ledgerVars == <<row, pos, seen>>
memVars == <<co, fb, snap, how>>
vars == <<book, nextNo, held, free, row, pos, seen, co, fb, snap, how, crashes>>

OrderId == Pos \cup ExitId
Watchers == {"desk", "reader"}
Loops == {"desk", "reader", "loop"}
Coroutine == Loops \cup Users

RowStatus == {"none", "pending", "approved", "sent", "rejected", "expired", "error"}
Stage == {"none", "open", "closed", "void"}
Kind == {"idle", "entry", "approval", "exit", "propose", "void"}
Await == {"idle", "balance", "cancel", "send", "accepted", "insert", "mark"}
FollowUp == {"none", "wait", "cancel", "settle", "balance", "send", "accepted", "done"}
Tries == 0 .. 2
Via == {"auto", "propose"}

RowType == [status: RowStatus, pos: Pos \cup {None}, qty: Nat]
PosType == [status: Stage, qty: Nat, pending: BOOLEAN, ordNo: OrdRef, exitNo: OrdRef,
            conf: BOOLEAN]
CoType == [kind: Kind, pc: Await, pos: Pos \cup {None}, row: OrderId \cup {None},
           qty: Nat, ord: OrdRef, tries: Tries, best: BOOLEAN]
FbType == [pc: FollowUp, rem: Int, ord: OrdRef]

NoRow == [status |-> "none", pos |-> None, qty |-> 0]
NoPosition == [status |-> "none", qty |-> 0, pending |-> FALSE, ordNo |-> 0,
               exitNo |-> 0, conf |-> FALSE]
Idle == [kind |-> "idle", pc |-> "idle", pos |-> None, row |-> None, qty |-> 0,
         ord |-> 0, tries |-> 0, best |-> FALSE]
NoFallback == [pc |-> "none", rem |-> 0, ord |-> 0]
NoSnap == [p \in Pos |-> 0]

TypeOK ==
    /\ BrokerTypeOK
    /\ row \in [OrderId -> RowType]
    /\ pos \in [Pos -> PosType]
    /\ seen \in [OrdNo -> Nat]
    /\ co \in [Coroutine -> CoType]
    /\ fb \in [OrdNo -> FbType]
    /\ snap \in [Loops -> [Pos -> Nat]]
    /\ how \in [Pos -> Via]
    /\ crashes \in 0 .. MaxCrashes

Init ==
    /\ BrokerInit
    /\ row = [i \in OrderId |-> NoRow]
    /\ pos = [p \in Pos |-> NoPosition]
    /\ seen = [o \in OrdNo |-> 0]
    /\ co = [c \in Coroutine |-> Idle]
    /\ fb = [o \in OrdNo |-> NoFallback]
    /\ snap = [l \in Loops |-> NoSnap]
    /\ how = [p \in Pos |-> "auto"]
    /\ crashes = 0

Larger(a, b) == IF a < b THEN b ELSE a
Smaller(a, b) == IF a < b THEN a ELSE b

IsOpen(p) == pos[p].status = "open"

(* Fault: the exit lock is not part of the query. *)
OpenIsUnclaimed(p) == IsOpen(p)

(* due_exits and claim_exit: WHERE status = 'open' AND exit_pending = 0. *)
Unclaimed(p) == IsOpen(p) /\ ~pos[p].pending

-----------------------------------------------------------------------------
(* The positions table *)

WithPending(p, v) == [pos EXCEPT ![p].pending = v]

(* open_position: INSERT OR IGNORE with the ordered quantity. *)
Opened(p, q, o) ==
    IF pos[p].status # "none" THEN pos
    ELSE [pos EXCEPT ![p] = [status |-> "open", qty |-> q, pending |-> FALSE,
                             ordNo |-> o, exitNo |-> 0, conf |-> FALSE]]

(* Fault: close_position without its WHERE status = 'open'. *)
ClosedWhateverItIs(p, o) ==
    [pos EXCEPT ![p].status = "closed", ![p].exitNo = IF o = 0 THEN @ ELSE o]

(* close_position: only an open row; the exit order number when one is known. *)
Closed(p, o) ==
    IF ~IsOpen(p) THEN pos
    ELSE [pos EXCEPT ![p].status = "closed",
                     ![p].exitNo = IF o = 0 THEN @ ELSE o]

(* void_position, and the same update in reap_unfilled. *)
Voided(p) == [pos EXCEPT ![p].status = "void"]

(* Fault: an execution notice is taken for one trade, not for the total. *)
QtyByAdding(p, n) == pos[p].qty + n

(* record_fill: the notice carries the cumulative quantity of the order. *)
QtyAfterFill(p, n) == n

(* _entry_unfilled: how much of the entry order is not known to be filled. *)
EntryUnfilled(p) ==
    IF row[p].status = "sent" /\ pos[p].ordNo # 0
    THEN row[p].qty - seen[pos[p].ordNo] ELSE 0

MustCancelEntry(p) == CancelEntryOnExit /\ EntryUnfilled(p) > 0

(* Fault: the quantity is not read again. *)
QtyAsListed(q, p) == q

(* _cancel_entry_remainder: the larger of the known and the present quantity. *)
Reread(q, p) == Larger(q, pos[p].qty)

-----------------------------------------------------------------------------
(* Entry orders *)

(* orders.propose: a signal becomes an order waiting for approval. *)
Propose(p) ==
    /\ row[p].status = "none"
    /\ row' = [row EXCEPT ![p] = [status |-> "pending", pos |-> p, qty |-> Lot]]
    /\ UNCHANGED <<brokerVars, pos, seen, memVars, crashes>>

(* Fault: a decision is taken whatever the status. *)
Exists(i) == row[i].status # "none"

(* reject, expire_stale and approve_and_send act on pending orders only. *)
AwaitsDecision(i) == row[i].status = "pending"

(* approve_and_send, entry order: nothing is awaited between the pending   *)
(* check and the write of 'approved'; the user may set the quantity.       *)
ApproveEntry(c, p, q) ==
    /\ co[c].kind = "idle"
    /\ AwaitsDecision(p)
    /\ row' = [row EXCEPT ![p].status = "approved", ![p].qty = q]
    /\ co' = [co EXCEPT ![c] = [Idle EXCEPT !.kind = "entry", !.pc = "send",
                                            !.pos = p, !.row = p, !.qty = q]]
    /\ UNCHANGED <<brokerVars, pos, seen, fb, snap, how, crashes>>

-----------------------------------------------------------------------------
(* Exit orders that wait for approval *)

(* propose_exit runs in a worker thread and commits twice: the pending sell *)
(* order, then exit_pending.                                               *)
ProposalStart(p, q) ==
    [Idle EXCEPT !.kind = "propose", !.pc = "insert", !.pos = p, !.qty = q]

ProposalInserted(c, x) ==
    /\ co[c].pc = "insert"
    /\ row[x].status = "none"
    /\ row' = [row EXCEPT ![x] = [status |-> "pending", pos |-> co[c].pos, qty |-> co[c].qty]]
    /\ co' = [co EXCEPT ![c].pc = "mark"]
    /\ UNCHANGED <<brokerVars, pos, seen, fb, snap, how, crashes>>

ProposalMarked(c) ==
    /\ co[c].pc = "mark"
    /\ pos' = WithPending(co[c].pos, TRUE)
    /\ co' = [co EXCEPT ![c] = Idle]
    /\ UNCHANGED <<brokerVars, row, seen, fb, snap, how, crashes>>

(* approve_and_send, exit order.  With an unfilled entry it first awaits   *)
(* the cancellation of the remainder, and its row stays 'pending'.         *)
ApproveExit(c, x) ==
    /\ co[c].kind = "idle"
    /\ AwaitsDecision(x)
    /\ LET p == row[x].pos
           q == IF IsOpen(p) THEN Reread(row[x].qty, p) ELSE row[x].qty
           wait == IsOpen(p) /\ MustCancelEntry(p)
       IN  /\ co' = [co EXCEPT ![c] =
                        [Idle EXCEPT !.kind = "approval", !.pos = p, !.row = x, !.qty = q,
                                     !.pc = IF wait THEN "cancel" ELSE "send"]]
           /\ row' = IF wait THEN row
                     ELSE [row EXCEPT ![x].status = "approved", ![x].qty = q]
    /\ UNCHANGED <<brokerVars, pos, seen, fb, snap, how, crashes>>

(* reject: guarded by the pending status; frees the exit of the position. *)
Reject(i) ==
    /\ AwaitsDecision(i)
    /\ row' = [row EXCEPT ![i].status = "rejected"]
    /\ pos' = IF i \in ExitId THEN WithPending(row[i].pos, FALSE) ELSE pos
    /\ UNCHANGED <<brokerVars, seen, memVars, crashes>>

(* expire_stale: a pending row past its time to live.  An exit order lives *)
(* eight hours, far longer than its registration takes.                    *)
Expire(i) ==
    /\ AwaitsDecision(i)
    /\ \A c \in Coroutine : co[c].pc = "mark" => co[c].pos # row[i].pos
    /\ row' = [row EXCEPT ![i].status = "expired"]
    /\ pos' = IF i \in ExitId THEN WithPending(row[i].pos, FALSE) ELSE pos
    /\ UNCHANGED <<brokerVars, seen, memVars, crashes>>

-----------------------------------------------------------------------------
(* execute_exit: sell at once, without approval *)

(* It works on the position row its caller read: p with quantity q. *)
ExitStart(p, q, best) ==
    [Idle EXCEPT !.kind = "exit", !.pos = p, !.qty = q, !.best = best,
                 !.pc = IF MustCancelEntry(p) THEN "cancel" ELSE "send"]

(* Which reasons go out without approval: desk._auto and main._ledger_loop. *)
SentAtOnce(reason) == AutoApprove \/ (StopAuto /\ reason \in {"stop", "timeout"})

(* desk.tick reads the rows of a cycle and refills the cache of on_tick. *)
DeskScan ==
    /\ DeskEnabled
    /\ co["desk"].kind = "idle"
    /\ snap["desk"] = NoSnap
    /\ LET rows == [p \in Pos |-> IF Unclaimed(p) THEN pos[p].qty ELSE 0]
       IN  snap' = [snap EXCEPT !["desk"] = rows, !["reader"] = rows]
    /\ UNCHANGED <<brokerVars, ledgerVars, co, fb, how, crashes>>

(* _judge_one finds a line hit and wins claim_exit. *)
Judge(c, p, reason) ==
    /\ DeskEnabled
    /\ co[c].kind = "idle"
    /\ snap[c][p] > 0
    /\ Unclaimed(p)
    /\ pos' = WithPending(p, TRUE)
    /\ snap' = [snap EXCEPT ![c][p] = 0, !["reader"][p] = 0]
    /\ co' = [co EXCEPT ![c] = IF SentAtOnce(reason)
                               THEN ExitStart(p, snap[c][p], FALSE)
                               ELSE ProposalStart(p, snap[c][p])]
    /\ UNCHANGED <<brokerVars, row, seen, fb, how, crashes>>

(* _judge_one leaves a row of the cycle alone: no line hit, or claimed by   *)
(* another coroutine.                                                      *)
DeskPass(p) ==
    /\ co["desk"].kind = "idle"
    /\ snap["desk"][p] > 0
    /\ snap' = [snap EXCEPT !["desk"][p] = 0]
    /\ UNCHANGED <<brokerVars, ledgerVars, co, fb, how, crashes>>

(* due_exits with exit_route: unclaimed rows that hit a line or the clock.  *)
(* A line hit is asked for when the desk is off and left to the desk when   *)
(* it watches every position; beyond its limit both exits go the usual way. *)
Route(reason) == IF SentAtOnce(reason) THEN "auto" ELSE "propose"

LoopHow ==
    {Route("timeout")}
        \cup (IF DeskEnabled THEN {} ELSE {"propose"})
        \cup (IF DeskEnabled /\ DeskLimited THEN {Route("stop"), Route("target")} ELSE {})

LoopListDone == co["loop"].kind = "idle" /\ snap["loop"] = NoSnap

LoopScan(S, h) ==
    /\ LoopListDone
    /\ S # {}
    /\ \A p \in S : Unclaimed(p)
    /\ snap' = [snap EXCEPT !["loop"] =
                   [p \in Pos |-> IF p \in S THEN pos[p].qty ELSE 0]]
    /\ how' = h
    /\ UNCHANGED <<brokerVars, ledgerVars, co, fb, crashes>>

(* loss_flat, eod and residual sweeps: every open row, claimed or not. *)
LoopFlatten ==
    /\ LoopListDone
    /\ snap' = [snap EXCEPT !["loop"] =
                   [p \in Pos |-> IF IsOpen(p) THEN pos[p].qty ELSE 0]]
    /\ how' = [p \in Pos |-> "auto"]
    /\ UNCHANGED <<brokerVars, ledgerVars, co, fb, crashes>>

(* The loop works through its list.  It neither re-reads nor claims. *)
LoopExit(p) ==
    /\ co["loop"].kind = "idle"
    /\ snap["loop"][p] > 0
    /\ snap' = [snap EXCEPT !["loop"][p] = 0]
    /\ co' = [co EXCEPT !["loop"] = IF how[p] = "auto"
                                    THEN ExitStart(p, snap["loop"][p], FALSE)
                                    ELSE ProposalStart(p, snap["loop"][p])]
    /\ UNCHANGED <<brokerVars, ledgerVars, fb, how, crashes>>

(* The close and the void button: they read the open row, then await the   *)
(* account balance.                                                        *)
ManualExit(c, p) ==
    /\ co[c].kind = "idle"
    /\ IsOpen(p)
    /\ co' = [co EXCEPT ![c] = [Idle EXCEPT !.kind = "exit", !.pc = "balance",
                                            !.pos = p, !.qty = pos[p].qty, !.best = TRUE]]
    /\ UNCHANGED <<brokerVars, ledgerVars, fb, snap, how, crashes>>

ManualVoid(c, p) ==
    /\ co[c].kind = "idle"
    /\ IsOpen(p)
    /\ co' = [co EXCEPT ![c] = [Idle EXCEPT !.kind = "void", !.pc = "balance", !.pos = p]]
    /\ UNCHANGED <<brokerVars, ledgerVars, fb, snap, how, crashes>>

(* The balance says whether to go on; it may be up to 30 seconds old, and   *)
(* an exit goes on without it.                                             *)
BalanceRead(c) ==
    /\ co[c].pc = "balance"
    /\ \/ /\ co[c].kind = "exit"
          /\ co' = [co EXCEPT ![c] = ExitStart(co[c].pos, co[c].qty, TRUE)]
          /\ UNCHANGED pos
       \/ /\ co[c].kind = "void"
          /\ co' = [co EXCEPT ![c] = Idle]
          /\ pos' = Voided(co[c].pos)
       \/ /\ co' = [co EXCEPT ![c] = Idle]
          /\ UNCHANGED pos
    /\ UNCHANGED <<brokerVars, row, seen, fb, snap, how, crashes>>

(* The account balance may be 30 seconds old: it then misses the executions *)
(* since, whose notices have not been recorded either.                     *)
AccountShowsNone(p) ==
    held[p] = 0 \/ seen[pos[p].ordNo] < book[pos[p].ordNo].filled

(* reap_unfilled: no execution recorded and no shares in the balance. *)
Reap(p) ==
    /\ IsOpen(p) /\ ~pos[p].conf
    /\ AccountShowsNone(p)
    /\ pos' = Voided(p)
    /\ UNCHANGED <<brokerVars, row, seen, memVars, crashes>>

(* _cancel_entry_remainder: the cancel call returns (it may have failed,   *)
(* or come too late) and the quantity is read again; an approval then      *)
(* writes 'approved' whatever became of its row meanwhile.                 *)
EntryCancelled(c) ==
    /\ co[c].pc = "cancel"
    /\ LET p == co[c].pos
           q == Reread(co[c].qty, p)
       IN  /\ CancelWorking(pos[p].ordNo) \/ UNCHANGED brokerVars
           /\ co' = [co EXCEPT ![c].pc = "send", ![c].qty = q]
           /\ row' = IF co[c].kind = "approval"
                     THEN [row EXCEPT ![co[c].row].status = "approved",
                                      ![co[c].row].qty = q]
                     ELSE row
    /\ UNCHANGED <<pos, seen, fb, snap, how, crashes>>

-----------------------------------------------------------------------------
(* The order call and its outcomes *)

Side(c) == IF co[c].kind = "entry" THEN "buy" ELSE "sell"

(* The firm accepts the order; its answer is on the way. *)
OrderAccepted(c) ==
    /\ co[c].pc = "send"
    /\ Accept(Side(c), co[c].pos, co[c].qty)
    /\ co' = [co EXCEPT ![c].pc = "accepted", ![c].ord = nextNo]
    /\ UNCHANGED <<ledgerVars, fb, snap, how, crashes>>

(* Fault: the outcome of the order is not written. *)
RowUnwritten(c, st) == row

(* The coroutine writes the outcome to the order it works on. *)
RowWritten(c, st) ==
    IF co[c].row = None THEN row
    ELSE [row EXCEPT ![co[c].row].status = st, ![co[c].row].qty = co[c].qty]

(* Faults: a refused exit closes the position; a refused exit keeps the lock. *)
ClosedOnRefusal(c) == IF co[c].kind = "exit" THEN Closed(co[c].pos, 0) ELSE pos
LockKept(c) == pos

(* An exit that was not sent is open to another attempt: approve_and_send  *)
(* and the callers in desk.py drop the lock.                               *)
LockDropped(c) ==
    IF co[c].kind = "approval" \/ c \in Watchers
    THEN WithPending(co[c].pos, FALSE) ELSE pos

NotSent(c, st) ==
    /\ row' = RowWritten(c, st)
    /\ pos' = LockDropped(c)
    /\ co' = [co EXCEPT ![c] = Idle]

(* Refused for a shortage of margin, an approved exit waits again. *)
RefusedStatus(c) ==
    {"rejected"} \cup IF MarginOnSell /\ co[c].kind = "approval" THEN {"pending"} ELSE {}

(* The firm refuses.  A manual exit tries once more as a market order. *)
OrderRefused(c) ==
    /\ co[c].pc = "send"
    /\ \/ /\ co[c].best
          /\ co' = [co EXCEPT ![c].best = FALSE]
          /\ UNCHANGED <<row, pos>>
       \/ /\ ~co[c].best
          /\ \E st \in RefusedStatus(c) : NotSent(c, st)
    /\ UNCHANGED <<brokerVars, seen, fb, snap, how, crashes>>

(* Fault: nothing ends the retries. *)
AlwaysAgain(c) == TRUE

MayTryAgain(c) == co[c].tries < 2

(* Refused for margin, b shares affordable: an entry is cut to b and sent  *)
(* again, three times at most; else it waits for another approval.         *)
ShortOfMargin(c, b) ==
    /\ co[c].pc = "send"
    /\ co[c].kind = "entry"
    /\ LET cut == 0 < b /\ b < co[c].qty
           q == IF cut THEN b ELSE co[c].qty
       IN  \/ /\ cut /\ MayTryAgain(c)
              /\ co' = [co EXCEPT ![c].qty = q, ![c].tries = @ + 1]
              /\ UNCHANGED row
           \/ /\ ~(cut /\ MayTryAgain(c))
              /\ row' = [row EXCEPT ![co[c].row].status = "pending", ![co[c].row].qty = q]
              /\ co' = [co EXCEPT ![c] = Idle]
    /\ UNCHANGED <<brokerVars, pos, seen, fb, snap, how, crashes>>

(* The call raises (timeout, connection): the order may have been accepted. *)
CallFailed(c) ==
    /\ co[c].pc \in {"send", "accepted"}
    /\ NotSent(c, IF co[c].tries > 0 THEN "pending" ELSE "error")
    /\ UNCHANGED <<brokerVars, seen, fb, snap, how, crashes>>

(* The answer arrives: the ledger row is opened or closed, and an exit that *)
(* execute_exit sent gets a follow-up unless the closing auction is on.     *)
OrderAnswered(c) ==
    /\ co[c].pc = "accepted"
    /\ row' = RowWritten(c, "sent")
    /\ pos' = CASE co[c].kind = "entry" -> Opened(co[c].pos, co[c].qty, co[c].ord)
                [] co[c].kind = "approval" -> Closed(co[c].pos, 0)
                [] OTHER -> Closed(co[c].pos, co[c].ord)
    /\ \/ fb' = fb
       \/ /\ co[c].kind = "exit"
          /\ fb' = [fb EXCEPT ![co[c].ord].pc = "wait"]
    /\ co' = [co EXCEPT ![c] = Idle]
    /\ UNCHANGED <<brokerVars, seen, snap, how, crashes>>

-----------------------------------------------------------------------------
(* _best_exit_fallback: sell again what an exit order left unfilled *)

KnownRemainder(o) == book[o].qty - seen[o]

(* After the wait: look at the remainder, and cancel if there is one. *)
FallbackWakes(o) ==
    /\ fb[o].pc = "wait"
    /\ fb' = [fb EXCEPT ![o].pc = IF KnownRemainder(o) > 0 THEN "cancel" ELSE "done"]
    /\ UNCHANGED <<brokerVars, ledgerVars, co, snap, how, crashes>>

(* The cancel call returns; a failure is only logged. *)
FallbackCancels(o) ==
    /\ fb[o].pc = "cancel"
    /\ CancelWorking(o) \/ UNCHANGED brokerVars
    /\ fb' = [fb EXCEPT ![o].pc = "settle"]
    /\ UNCHANGED <<ledgerVars, co, snap, how, crashes>>

(* A second later the remainder is computed again. *)
FallbackSettles(o) ==
    /\ fb[o].pc = "settle"
    /\ fb' = [fb EXCEPT ![o].pc = IF KnownRemainder(o) > 0 THEN "balance" ELSE "done",
                        ![o].rem = KnownRemainder(o)]
    /\ UNCHANGED <<brokerVars, ledgerVars, co, snap, how, crashes>>

(* _cap_by_holdings: cut to the account; a failed query leaves it as it is. *)
FallbackCaps(o) ==
    /\ fb[o].pc = "balance"
    /\ \E r \in {fb[o].rem, Smaller(fb[o].rem, held[book[o].pos])} :
          fb' = [fb EXCEPT ![o].rem = r, ![o].pc = IF r > 0 THEN "send" ELSE "done"]
    /\ UNCHANGED <<brokerVars, ledgerVars, co, snap, how, crashes>>

FallbackAccepted(o) ==
    /\ fb[o].pc = "send"
    /\ Accept("sell", book[o].pos, fb[o].rem)
    /\ fb' = [fb EXCEPT ![o].pc = "accepted", ![o].ord = nextNo]
    /\ UNCHANGED <<ledgerVars, co, snap, how, crashes>>

(* Refused, failed or answered: nothing more is done for this exit. *)
FallbackEnds(o) ==
    /\ fb[o].pc \in {"send", "accepted"}
    /\ fb' = [fb EXCEPT ![o].pc = "done"]
    /\ UNCHANGED <<brokerVars, ledgerVars, co, snap, how, crashes>>

-----------------------------------------------------------------------------
(* Executions and crashes *)

Execute(o) ==
    /\ Trade(o)
    /\ UNCHANGED <<ledgerVars, memVars, crashes>>

(* The reader takes a notice and awaits ledger.record_fill.  Notices carry  *)
(* the cumulative quantity; earlier ones may have been lost.                *)
RecordFill(o, n) ==
    /\ co["reader"].kind = "idle"
    /\ seen[o] < n /\ n <= book[o].filled
    /\ seen' = [seen EXCEPT ![o] = n]
    /\ pos' = [p \in Pos |->
                 IF IsOpen(p) /\ pos[p].ordNo = o
                 THEN [pos[p] EXCEPT !.qty = QtyAfterFill(p, n), !.conf = TRUE]
                 ELSE pos[p]]
    /\ UNCHANGED <<brokerVars, row, memVars, crashes>>

(* The process is killed: coroutines vanish, the tables and the firm stay.  *)
(* Nothing in the start-up path looks at orders or at exit_pending.         *)
Crash ==
    /\ crashes < MaxCrashes
    /\ crashes' = crashes + 1
    /\ co' = [c \in Coroutine |-> Idle]
    /\ fb' = [o \in OrdNo |-> NoFallback]
    /\ snap' = [l \in Loops |-> NoSnap]
    /\ UNCHANGED <<brokerVars, ledgerVars, how>>

-----------------------------------------------------------------------------
OrderSteps(c) ==
    \/ OrderAccepted(c)
    \/ OrderRefused(c)
    \/ \E b \in 0 .. Lot : ShortOfMargin(c, b)
    \/ CallFailed(c)
    \/ OrderAnswered(c)

FallbackSteps(o) ==
    \/ FallbackWakes(o)
    \/ FallbackCancels(o)
    \/ FallbackSettles(o)
    \/ FallbackCaps(o)
    \/ FallbackAccepted(o)
    \/ FallbackEnds(o)

Request(c) ==
    \/ \E p \in Pos :
          \/ \E q \in 1 .. Lot : ApproveEntry(c, p, q)
          \/ ManualExit(c, p)
          \/ ManualVoid(c, p)
    \/ \E x \in ExitId : ApproveExit(c, x)

(* What a coroutine does when the call it awaits returns. *)
Continue(c) ==
    \/ \E x \in ExitId : ProposalInserted(c, x)
    \/ ProposalMarked(c)
    \/ BalanceRead(c)
    \/ EntryCancelled(c)
    \/ OrderSteps(c)

Next ==
    \/ \E p \in Pos : Propose(p) \/ DeskPass(p) \/ LoopExit(p) \/ Reap(p)
    \/ \E i \in OrderId : Reject(i) \/ Expire(i)
    \/ \E c \in Watchers, p \in Pos, r \in {"stop", "target"} : Judge(c, p, r)
    \/ \E S \in SUBSET Pos, h \in [Pos -> LoopHow] : LoopScan(S, h)
    \/ DeskScan \/ LoopFlatten
    \/ \E c \in Users : Request(c)
    \/ \E c \in Coroutine : Continue(c)
    \/ \E o \in OrdNo :
          FallbackSteps(o) \/ Execute(o) \/ (\E n \in 1 .. Lot : RecordFill(o, n))
    \/ Crash

Spec == Init /\ [][Next]_vars

(* Every call to the firm ends, by its answer or by the time limit of the  *)
(* HTTP client, and a worker thread finishes.                              *)
Fairness == \A c \in Coroutine : WF_vars(Continue(c))

FairSpec == Spec /\ Fairness

-----------------------------------------------------------------------------
(* What the ledger promises, whoever calls it in whatever order. *)

Traded(side) == {p \in Pos : \E o \in OrdNo : IsOrder(o, side, p)}

Life == INSTANCE PositionLife WITH
            stage <- [p \in Pos |-> pos[p].status],
            bought <- Traded("buy"),
            sold <- Traded("sell")

(* The order execution implements the life of a position: it is opened by  *)
(* an accepted buy, sold only once opened, closed only by an accepted sell,*)
(* voided at most once and never opened again.                             *)
LifeSpec == Life!Spec

-----------------------------------------------------------------------------
(* Properties *)

(* The ledger never says more than the firm knows: a position exists only  *)
(* for an accepted buy, and is closed only after an accepted sell.  A      *)
(* refused or failed call changes no position (execute_exit, accepted).    *)
LedgerBackedByBroker ==
    \A p \in Pos :
        /\ pos[p].status # "none" => \E o \in OrdNo : IsOrder(o, "buy", p)
        /\ pos[p].status = "closed" => \E o \in OrdNo : IsOrder(o, "sell", p)

(* What was decided on an order stands: an order that was sent, rejected,  *)
(* expired or failed never changes its status again (reject, expire_stale, *)
(* approve_and_send).                                                      *)
DecisionIsFinal ==
    [][\A i \in OrderId :
          row[i].status \in {"sent", "rejected", "expired", "error"}
              => row'[i].status = row[i].status]_vars

(* The two sides of the desk, the cycle and the tick callback, never sell  *)
(* the same position at the same time (claim_exit).                        *)
ClaimIsExclusive ==
    co["desk"].kind = "exit" /\ co["reader"].kind = "exit"
        => co["desk"].pos # co["reader"].pos

(* The quantity of an open position covers every execution recorded of its *)
(* entry order, also those whose notice overtook the answer to the order;  *)
(* once confirmed it is exactly the last cumulative quantity, never a sum  *)
(* of notices (open_position, record_fill, filled_qty).                    *)
ConfirmedQtyIsSeen ==
    \A p \in Pos : IsOpen(p) =>
        /\ pos[p].qty >= seen[pos[p].ordNo]
        /\ pos[p].conf => pos[p].qty = seen[pos[p].ordNo]

(* At most one exit order of a position is waiting for approval or being   *)
(* sent: propose_exit sets exit_pending to prevent a second proposal.      *)
Live(x) == row[x].status \in {"pending", "approved"}

OneLiveProposal ==
    \A x, y \in ExitId :
        Live(x) /\ Live(y) /\ row[x].pos = row[y].pos => x = y

(* An open position is kept out of the exit watch only while somebody is   *)
(* at work on its exit, or an exit order of it waits (exit_pending).       *)
Working(c, p) == co[c].kind \in {"exit", "approval", "propose"} /\ co[c].pos = p

HeldBackForReason ==
    \A p \in Pos :
        IsOpen(p) /\ pos[p].pending =>
            \/ \E c \in Coroutine : Working(c, p)
            \/ \E x \in ExitId : Live(x) /\ row[x].pos = p

(* At most one coroutine at a time is selling a position.                  *)
Selling(c, p) ==
    co[c].kind \in {"exit", "approval"} /\ co[c].pc \in {"cancel", "send", "accepted"}
        /\ co[c].pos = p

OneExitAtATime ==
    \A p \in Pos : \A c, d \in Coroutine :
        Selling(c, p) /\ Selling(d, p) => c = d

(* An exit that waits for the entry order to be ended sells, when the wait *)
(* is over, every share which the firm says the entry bought, provided all *)
(* its notices have come: however many came before the answer to the entry,*)
(* between the listing of the position and the exit, or during the wait    *)
(* (_cancel_entry_remainder, open_position, record_fill).                  *)
ExitSellsWholeEntry ==
    [][\A c \in Coroutine :
          LET p == co[c].pos
              o == pos[p].ordNo
          IN  co[c].pc = "cancel" /\ co'[c].pc = "send" /\ IsOpen(p)
                /\ seen[o] = book[o].filled
                => co'[c].qty >= book[o].filled]_vars

(* An exit never goes out for less than the ledger holds when it is sent,  *)
(* whichever way it got there.                                             *)
ExitSellsLedgerQty ==
    [][\A c \in Coroutine :
          co[c].pc # "send" /\ co'[c].pc = "send" /\ co'[c].kind = "exit"
              => co'[c].qty >= pos[co'[c].pos].qty]_vars

(* A claim on an open position is not kept for ever: it ends by the        *)
(* position leaving the open state or by the lock being dropped.           *)
ClaimResolved ==
    \A p \in Pos : (IsOpen(p) /\ pos[p].pending) ~> ~(IsOpen(p) /\ pos[p].pending)

(* An approved order gets an outcome (approve_and_send).                   *)
ApprovalAnswered ==
    \A i \in OrderId : (row[i].status = "approved") ~> (row[i].status # "approved")
=============================================================================
