------------------------ MODULE OrderExecutionProofs ------------------------
(***************************************************************************)
(* Theorems about OrderExecution, for every number of positions, requests, *)
(* order numbers and kills, and for every setting of the configuration.    *)
(* The invariant IInv says, beside the types, what each coroutine may rely *)
(* on when the call it awaits returns.                                     *)
(***************************************************************************)
EXTENDS OrderExecution, TLAPS

-----------------------------------------------------------------------------
(* Types of the helpers *)

LEMMA Constants ==
    /\ 0 \in OrdRef /\ 0 \in Tries
    /\ OrdNo \subseteq OrdRef
    /\ \A o \in OrdRef : o # 0 => o \in OrdNo
    /\ OrdNo \subseteq Nat
    /\ MaxOrders \in Nat
  BY BrokerageAssumption DEF OrdRef, OrdNo, Tries

(* Adding to an entry of a function, whether or not it is in its domain. *)
LEMMA AddType ==
    ASSUME NEW f \in [Pos -> Int], NEW p, NEW r \in Int
    PROVE  [f EXCEPT ![p] = f[p] + r] \in [Pos -> Int]
<1> DEFINE g == [f EXCEPT ![p] = f[p] + r]
<1>1. ASSUME NEW x \in Pos PROVE g[x] \in Int
  <2>1. CASE x = p BY <2>1
  <2>2. CASE x # p BY <2>2
  <2> QED BY <2>1, <2>2
<1> QED BY <1>1

LEMMA AcceptType ==
    ASSUME BrokerTypeOK, NEW side \in {"buy", "sell"}, NEW p \in Pos, NEW q \in Nat,
           Accept(side, p, q)
    PROVE  BrokerTypeOK'
<1>1. /\ book \in [OrdNo -> OrderType] /\ nextNo \in OrdNo
      /\ held \in [Pos -> Int] /\ free \in [Pos -> Int]
  BY DEF BrokerTypeOK, Accept
<1>2. [side |-> side, pos |-> p, qty |-> q, filled |-> 0, live |-> TRUE] \in OrderType
  BY DEF OrderType, Sides
<1>3. book' \in [OrdNo -> OrderType]
  BY <1>1, <1>2 DEF Accept
<1>4. nextNo' \in 1 .. (MaxOrders + 1)
  BY <1>1, BrokerageAssumption DEF Accept, OrdNo
<1>5. free' \in [Pos -> Int] /\ held' \in [Pos -> Int]
  BY <1>1 DEF Accept
<1> QED BY <1>3, <1>4, <1>5 DEF BrokerTypeOK

LEMMA CancelType ==
    ASSUME BrokerTypeOK, NEW o \in OrdNo, CancelWorking(o)
    PROVE  BrokerTypeOK'
<1>1. book' \in [OrdNo -> OrderType]
  BY DEF BrokerTypeOK, CancelWorking, OrderType
<1>2. Remaining(o) \in Int
  BY DEF BrokerTypeOK, OrderType, Remaining
<1>3. free' \in [Pos -> Int]
  <2>1. free \in [Pos -> Int]
    BY DEF BrokerTypeOK
  <2> DEFINE p == book[o].pos
  <2>2. \/ free' = free
        \/ free' = [free EXCEPT ![p] = free[p] + Remaining(o)]
    BY DEF CancelWorking
  <2>3. [free EXCEPT ![p] = free[p] + Remaining(o)] \in [Pos -> Int]
    BY <2>1, <1>2, AddType
  <2> QED BY <2>1, <2>2, <2>3
<1> QED BY <1>1, <1>3 DEF BrokerTypeOK, CancelWorking

LEMMA TradeType ==
    ASSUME BrokerTypeOK, NEW o \in OrdNo, Trade(o)
    PROVE  BrokerTypeOK'
<1> DEFINE n == book[o].filled + 1
           z == Remaining(o) > 1
           p == book[o].pos
<1>1. /\ book \in [OrdNo -> OrderType] /\ n \in Nat
      /\ held \in [Pos -> Int] /\ free \in [Pos -> Int]
  BY DEF BrokerTypeOK, OrderType
<1>2. book' \in [OrdNo -> OrderType]
  <2>1. book' = [book EXCEPT ![o].filled = n, ![o].live = z] /\ z \in BOOLEAN
    BY DEF Trade
  <2> HIDE DEF n, z
  <2> QED BY <2>1, <1>1 DEF OrderType
<1>3. held' \in [Pos -> Int] /\ free' \in [Pos -> Int]
  <2>1. \/ /\ held' = [held EXCEPT ![p] = held[p] + 1]
           /\ free' = [free EXCEPT ![p] = free[p] + 1]
        \/ /\ held' = [held EXCEPT ![p] = held[p] - 1]
           /\ free' = free
    BY DEF Trade
  <2>2. ASSUME NEW x \in Pos
        PROVE  /\ [held EXCEPT ![p] = held[p] + 1][x] \in Int
               /\ [held EXCEPT ![p] = held[p] - 1][x] \in Int
               /\ [free EXCEPT ![p] = free[p] + 1][x] \in Int
    <3>1. CASE x = p BY <3>1, <1>1
    <3>2. CASE x # p BY <3>2, <1>1
    <3> QED BY <3>1, <3>2
  <2> QED BY <1>1, <2>1, <2>2
<1> QED BY <1>2, <1>3 DEF BrokerTypeOK, Trade

LEMMA PositionUpdates ==
    ASSUME pos \in [Pos -> PosType], NEW p \in Pos
    PROVE  /\ \A v \in BOOLEAN : WithPending(p, v) \in [Pos -> PosType]
           /\ \A q \in Nat, o \in OrdRef : Opened(p, q, o) \in [Pos -> PosType]
           /\ \A o \in OrdRef : Closed(p, o) \in [Pos -> PosType]
           /\ Voided(p) \in [Pos -> PosType]
<1>1. \A v \in BOOLEAN : WithPending(p, v) \in [Pos -> PosType]
  BY DEF WithPending, PosType
<1>2. ASSUME NEW q \in Nat, NEW o \in OrdRef
      PROVE  Opened(p, q, o) \in [Pos -> PosType]
  <2>1. [status |-> "open", qty |-> q, pending |-> FALSE, ordNo |-> o, exitNo |-> 0,
         conf |-> FALSE] \in PosType
    BY Constants DEF PosType, Stage
  <2> QED BY <2>1 DEF Opened
<1>3. ASSUME NEW o \in OrdRef
      PROVE  Closed(p, o) \in [Pos -> PosType]
  <2>1. "closed" \in Stage
    BY DEF Stage
  <2>2. (IF o = 0 THEN pos[p].exitNo ELSE o) \in OrdRef
    BY DEF PosType
  <2> QED BY <2>1, <2>2 DEF Closed, PosType
<1>4. Voided(p) \in [Pos -> PosType]
  BY DEF Voided, PosType, Stage
<1> QED BY <1>1, <1>2, <1>3, <1>4

LEMMA RowUpdate ==
    ASSUME row \in [OrderId -> RowType], co \in [Coroutine -> CoType],
           NEW c \in Coroutine, NEW st \in RowStatus
    PROVE  RowWritten(c, st) \in [OrderId -> RowType]
  BY DEF RowWritten, RowType, CoType

LEMMA CoroutineStarts ==
    ASSUME NEW p \in Pos, NEW q \in Nat
    PROVE  /\ \A b \in BOOLEAN : ExitStart(p, q, b) \in CoType
           /\ ProposalStart(p, q) \in CoType
           /\ Idle \in CoType
<1>1. {"idle", "exit", "propose"} \subseteq Kind /\ {"idle", "cancel", "send", "insert"} \subseteq Await
  BY DEF Kind, Await
<1> QED BY <1>1, Constants DEF ExitStart, ProposalStart, Idle, CoType

-----------------------------------------------------------------------------
(* The inductive invariant *)

(* A position that exists: it never goes back to "none". *)
Known(p) == p \in Pos /\ pos[p].status # "none"

(* Order numbers are given out in turn; only known positions were sold. *)
BookInv ==
    \A o \in OrdNo :
        /\ o >= nextNo => book[o] = NoOrder
        /\ book[o].side = "sell" => Known(book[o].pos)

(* What a coroutine works on, by kind and by the call it awaits. *)
CoOK(r) ==
    /\ r.pc # "idle" => r.kind # "idle"
    /\ r.kind = "entry" => r.pos \in Pos
    /\ r.kind \notin {"idle", "entry"} => Known(r.pos)
    /\ r.pc \in {"insert", "mark"} => r.kind = "propose"
    /\ r.pc = "balance" => r.kind \in {"exit", "void"}
    /\ r.pc \in {"send", "accepted"} => r.kind \in {"entry", "approval", "exit"}
    /\ r.pc = "cancel" => r.kind \in {"approval", "exit"} /\ pos[r.pos].ordNo # 0
    /\ r.pc = "accepted" =>
          IsOrder(r.ord, IF r.kind = "entry" THEN "buy" ELSE "sell", r.pos)
    /\ r.row \in ExitId => row[r.row].status # "none"

CoInv == \A c \in Coroutine : CoOK(co[c])

SnapInv == \A l \in Loops, p \in Pos : snap[l][p] > 0 => Known(p)

ExitRowInv == \A x \in ExitId : row[x].status # "none" => Known(row[x].pos)

FallbackInv == \A o \in OrdNo : fb[o].pc # "none" => book[o].side = "sell"

IInv ==
    /\ TypeOK
    /\ BookInv
    /\ CoInv
    /\ SnapInv
    /\ ExitRowInv
    /\ FallbackInv
    /\ LedgerBackedByBroker

-----------------------------------------------------------------------------
(* Types are preserved *)

LEMMA BrokerSame == BrokerTypeOK /\ UNCHANGED brokerVars => BrokerTypeOK'
  BY DEF BrokerTypeOK, brokerVars

LEMMA ProposeType == ASSUME TypeOK, NEW p \in Pos, Propose(p) PROVE TypeOK'
<1>1. [status |-> "pending", pos |-> p, qty |-> Lot] \in RowType
  BY BrokerageAssumption DEF RowType, RowStatus
<1> QED BY <1>1, BrokerSame DEF Propose, TypeOK, memVars

LEMMA ApproveEntryType ==
    ASSUME TypeOK, NEW c \in Users, NEW p \in Pos, NEW q \in 1 .. Lot, ApproveEntry(c, p, q)
    PROVE  TypeOK'
<1>1. q \in Nat /\ "approved" \in RowStatus
  BY BrokerageAssumption DEF RowStatus
<1>2. row' \in [OrderId -> RowType]
  BY <1>1 DEF ApproveEntry, TypeOK, RowType
<1>3. [Idle EXCEPT !.kind = "entry", !.pc = "send", !.pos = p, !.row = p, !.qty = q] \in CoType
  <2>1. "entry" \in Kind /\ "send" \in Await /\ p \in OrderId
    BY DEF Kind, Await, OrderId
  <2> QED BY <1>1, <2>1, Constants DEF Idle, CoType
<1>4. co' \in [Coroutine -> CoType]
  BY <1>3 DEF ApproveEntry, TypeOK
<1> QED BY <1>2, <1>4, BrokerSame DEF ApproveEntry, TypeOK

LEMMA ProposalInsertedType ==
    ASSUME TypeOK, NEW c \in Coroutine, NEW x \in ExitId, ProposalInserted(c, x)
    PROVE  TypeOK'
<1>1. [status |-> "pending", pos |-> co[c].pos, qty |-> co[c].qty] \in RowType
  BY DEF TypeOK, CoType, RowType, RowStatus
<1>2. row' \in [OrderId -> RowType]
  BY <1>1 DEF ProposalInserted, TypeOK
<1>3. co' \in [Coroutine -> CoType]
  <2>1. "mark" \in Await
    BY DEF Await
  <2> QED BY <2>1 DEF ProposalInserted, TypeOK, CoType
<1> QED BY <1>2, <1>3, BrokerSame DEF ProposalInserted, TypeOK

LEMMA ProposalMarkedType ==
    ASSUME TypeOK, CoInv, NEW c \in Coroutine, ProposalMarked(c)
    PROVE  TypeOK'
<1>1. co[c].pos \in Pos
  BY DEF CoInv, CoOK, Known, ProposalMarked
<1>2. WithPending(co[c].pos, TRUE) \in [Pos -> PosType]
  BY <1>1, PositionUpdates DEF TypeOK
<1>3. co' \in [Coroutine -> CoType]
  BY CoroutineStarts, Constants DEF ProposalMarked, TypeOK, Idle, CoType, Kind, Await
<1> QED BY <1>2, <1>3, BrokerSame DEF ProposalMarked, TypeOK

LEMMA IdleType == Idle \in CoType
  BY Constants DEF Idle, CoType, Kind, Await

LEMMA RereadType ==
    ASSUME TypeOK, NEW p \in Pos, NEW q \in Nat
    PROVE  Reread(q, p) \in Nat
  BY DEF TypeOK, PosType, Reread, Larger

LEMMA ApproveExitType ==
    ASSUME TypeOK, ExitRowInv, NEW c \in Users, NEW x \in ExitId, ApproveExit(c, x)
    PROVE  TypeOK'
<1> DEFINE p == row[x].pos
           q == IF IsOpen(p) THEN Reread(row[x].qty, p) ELSE row[x].qty
           wait == IsOpen(p) /\ MustCancelEntry(p)
           pc == IF wait THEN "cancel" ELSE "send"
<1>1. p \in Pos
  BY DEF ApproveExit, AwaitsDecision, ExitRowInv, Known
<1>2. row[x].qty \in Nat /\ q \in Nat
  <2>1. row[x].qty \in Nat
    BY DEF TypeOK, RowType, OrderId
  <2> QED BY <2>1, <1>1, RereadType
<1>3. /\ co' = [co EXCEPT ![c] = [Idle EXCEPT !.kind = "approval", !.pos = p, !.row = x,
                                              !.qty = q, !.pc = pc]]
      /\ \/ row' = row
         \/ row' = [row EXCEPT ![x].status = "approved", ![x].qty = q]
  BY DEF ApproveExit
<1>4. pc \in Await /\ "approval" \in Kind /\ x \in OrderId /\ "approved" \in RowStatus
  BY DEF Await, Kind, OrderId, RowStatus
<1> HIDE DEF p, q, pc
<1>5. [Idle EXCEPT !.kind = "approval", !.pos = p, !.row = x, !.qty = q, !.pc = pc] \in CoType
  BY <1>1, <1>2, <1>4, Constants DEF Idle, CoType
<1>6. co' \in [Coroutine -> CoType] /\ row' \in [OrderId -> RowType]
  BY <1>2, <1>3, <1>4, <1>5 DEF TypeOK, RowType
<1> QED BY <1>6, BrokerSame DEF ApproveExit, TypeOK

LEMMA DecisionType ==
    ASSUME TypeOK, ExitRowInv, NEW i \in OrderId, Reject(i) \/ Expire(i)
    PROVE  TypeOK'
<1>1. row' \in [OrderId -> RowType]
  <2>1. {"rejected", "expired"} \subseteq RowStatus
    BY DEF RowStatus
  <2>2. \/ row' = [row EXCEPT ![i].status = "rejected"]
        \/ row' = [row EXCEPT ![i].status = "expired"]
    BY DEF Reject, Expire
  <2> QED BY <2>1, <2>2 DEF TypeOK, RowType
<1>2. pos' \in [Pos -> PosType]
  <2>1. CASE i \in ExitId
    <3>1. row[i].pos \in Pos
      BY <2>1 DEF Reject, Expire, AwaitsDecision, ExitRowInv, Known
    <3> QED BY <2>1, <3>1, PositionUpdates DEF Reject, Expire, TypeOK
  <2>2. CASE i \notin ExitId
    BY <2>2 DEF Reject, Expire, TypeOK
  <2> QED BY <2>1, <2>2
<1> QED BY <1>1, <1>2, BrokerSame DEF Reject, Expire, TypeOK, memVars

LEMMA ListType ==
    ASSUME TypeOK, DeskScan \/ LoopFlatten
           \/ (\E S \in SUBSET Pos, h \in [Pos -> LoopHow] : LoopScan(S, h))
    PROVE  TypeOK'
<1>1. \A p \in Pos : pos[p].qty \in Nat
  BY DEF TypeOK, PosType
<1>2. snap' \in [Loops -> [Pos -> Nat]]
  <2> DEFINE rows == [p \in Pos |-> IF Unclaimed(p) THEN pos[p].qty ELSE 0]
             opened == [p \in Pos |-> IF IsOpen(p) THEN pos[p].qty ELSE 0]
  <2>1. rows \in [Pos -> Nat] /\ opened \in [Pos -> Nat]
    BY <1>1
  <2>2. CASE DeskScan
    BY <2>1, <2>2 DEF DeskScan, TypeOK
  <2>3. CASE LoopFlatten
    BY <2>1, <2>3 DEF LoopFlatten, TypeOK
  <2>4. ASSUME NEW S \in SUBSET Pos, NEW h \in [Pos -> LoopHow], LoopScan(S, h)
        PROVE  snap' \in [Loops -> [Pos -> Nat]]
    <3> DEFINE due == [p \in Pos |-> IF p \in S THEN pos[p].qty ELSE 0]
    <3>1. due \in [Pos -> Nat]
      BY <1>1
    <3> QED BY <2>4, <3>1 DEF LoopScan, TypeOK
  <2> QED BY <2>2, <2>3, <2>4
<1>3. how' \in [Pos -> Via]
  BY DEF Route, DeskScan, LoopFlatten, LoopScan, LoopHow, Via, TypeOK
<1> QED BY <1>2, <1>3, BrokerSame DEF DeskScan, LoopFlatten, LoopScan, TypeOK, ledgerVars

LEMMA JudgeType ==
    ASSUME TypeOK, NEW c \in Watchers, NEW p \in Pos, NEW r, Judge(c, p, r)
    PROVE  TypeOK'
<1>1. c \in Loops /\ c \in Coroutine /\ snap[c][p] \in Nat
  BY DEF Watchers, Loops, Coroutine, TypeOK
<1>2. co' \in [Coroutine -> CoType]
  <2>1. ExitStart(p, snap[c][p], FALSE) \in CoType /\ ProposalStart(p, snap[c][p]) \in CoType
    BY <1>1, CoroutineStarts
  <2> QED BY <2>1 DEF Judge, TypeOK
<1>3. pos' \in [Pos -> PosType]
  BY PositionUpdates DEF Judge, TypeOK
<1>4. snap' \in [Loops -> [Pos -> Nat]]
  BY DEF Judge, TypeOK
<1> QED BY <1>2, <1>3, <1>4, BrokerSame DEF Judge, TypeOK

LEMMA DeskPassType == ASSUME TypeOK, NEW p \in Pos, DeskPass(p) PROVE TypeOK'
<1>1. snap' \in [Loops -> [Pos -> Nat]]
  BY DEF DeskPass, TypeOK
<1> QED BY <1>1, BrokerSame DEF DeskPass, TypeOK, ledgerVars

LEMMA LoopExitType == ASSUME TypeOK, NEW p \in Pos, LoopExit(p) PROVE TypeOK'
<1>1. snap["loop"][p] \in Nat
  BY DEF TypeOK, Loops
<1>2. co' \in [Coroutine -> CoType]
  <2>1. /\ ExitStart(p, snap["loop"][p], FALSE) \in CoType
        /\ ProposalStart(p, snap["loop"][p]) \in CoType
    BY <1>1, CoroutineStarts
  <2> QED BY <2>1 DEF LoopExit, TypeOK
<1>3. snap' \in [Loops -> [Pos -> Nat]]
  BY DEF LoopExit, TypeOK
<1> QED BY <1>2, <1>3, BrokerSame DEF LoopExit, TypeOK, ledgerVars

LEMMA ManualType ==
    ASSUME TypeOK, NEW c \in Users, NEW p \in Pos, ManualExit(c, p) \/ ManualVoid(c, p)
    PROVE  TypeOK'
<1>1. pos[p].qty \in Nat /\ {"exit", "void"} \subseteq Kind /\ "balance" \in Await
  BY DEF TypeOK, PosType, Kind, Await
<1>2. /\ [Idle EXCEPT !.kind = "exit", !.pc = "balance", !.pos = p, !.qty = pos[p].qty,
                      !.best = TRUE] \in CoType
      /\ [Idle EXCEPT !.kind = "void", !.pc = "balance", !.pos = p] \in CoType
  BY <1>1, Constants DEF Idle, CoType
<1>3. co' \in [Coroutine -> CoType]
  BY <1>2 DEF ManualExit, ManualVoid, TypeOK
<1> QED BY <1>3, BrokerSame DEF ManualExit, ManualVoid, TypeOK, ledgerVars

LEMMA BalanceReadType ==
    ASSUME TypeOK, CoInv, NEW c \in Coroutine, BalanceRead(c)
    PROVE  TypeOK'
<1>1. co[c].pos \in Pos /\ co[c].qty \in Nat
  BY DEF BalanceRead, CoInv, CoOK, Known, TypeOK, CoType
<1>2. co' \in [Coroutine -> CoType]
  <2>1. ExitStart(co[c].pos, co[c].qty, TRUE) \in CoType
    BY <1>1, CoroutineStarts
  <2> QED BY <2>1, IdleType DEF BalanceRead, TypeOK
<1>3. pos' \in [Pos -> PosType]
  BY <1>1, PositionUpdates DEF BalanceRead, TypeOK
<1> QED BY <1>2, <1>3, BrokerSame DEF BalanceRead, TypeOK

LEMMA ReapType == ASSUME TypeOK, NEW p \in Pos, Reap(p) PROVE TypeOK'
  BY PositionUpdates, BrokerSame DEF Reap, TypeOK, memVars

LEMMA MoveType ==
    ASSUME co \in [Coroutine -> CoType], NEW c \in Coroutine, NEW a \in Await, NEW q \in Nat
    PROVE  [co EXCEPT ![c].pc = a, ![c].qty = q] \in [Coroutine -> CoType]
<1>1. [co[c] EXCEPT !.pc = a, !.qty = q] \in CoType
  BY DEF CoType
<1> QED BY <1>1

LEMMA EntryCancelledType ==
    ASSUME TypeOK, CoInv, NEW c \in Coroutine, EntryCancelled(c)
    PROVE  TypeOK'
<1> DEFINE p == co[c].pos
           q == Reread(co[c].qty, p)
<1>1. p \in Pos /\ pos[p].ordNo \in OrdNo
  <2>1. p \in Pos /\ pos[p].ordNo # 0
    BY DEF EntryCancelled, CoInv, CoOK, Known
  <2>2. pos[p].ordNo \in OrdRef
    BY <2>1 DEF TypeOK, PosType
  <2> QED BY <2>1, <2>2, Constants
<1>2. q \in Nat
  BY <1>1, RereadType DEF TypeOK, CoType
<1>3. BrokerTypeOK'
  BY <1>1, CancelType, BrokerSame DEF EntryCancelled, TypeOK
<1>4. /\ co' = [co EXCEPT ![c].pc = "send", ![c].qty = q]
      /\ \/ row' = row
         \/ row' = [row EXCEPT ![co[c].row].status = "approved", ![co[c].row].qty = q]
  BY DEF EntryCancelled
<1> HIDE DEF q
<1>5. "send" \in Await /\ "approved" \in RowStatus
  BY DEF Await, RowStatus
<1>6. co \in [Coroutine -> CoType] /\ row \in [OrderId -> RowType]
  BY DEF TypeOK
<1>7. co' \in [Coroutine -> CoType]
  BY <1>2, <1>4, <1>5, <1>6, MoveType
<1>8. row' \in [OrderId -> RowType]
  BY <1>2, <1>4, <1>5, <1>6 DEF RowType
<1> QED BY <1>3, <1>7, <1>8 DEF EntryCancelled, TypeOK

LEMMA SideType ==
    ASSUME NEW c \in Coroutine
    PROVE  Side(c) \in {"buy", "sell"}
  BY DEF Side

(* A coroutine that sends an order works on a position. *)
LEMMA SenderPos ==
    ASSUME CoInv, NEW c \in Coroutine, co[c].pc \in {"send", "accepted"}
    PROVE  co[c].pos \in Pos
  BY DEF CoInv, CoOK, Known

LEMMA OrderAcceptedType ==
    ASSUME TypeOK, CoInv, NEW c \in Coroutine, OrderAccepted(c)
    PROVE  TypeOK'
<1>1. BrokerTypeOK'
  <2>1. co[c].pos \in Pos /\ co[c].qty \in Nat
    BY SenderPos DEF OrderAccepted, TypeOK, CoType
  <2> QED BY <2>1, SideType, AcceptType DEF OrderAccepted, TypeOK
<1>2. nextNo \in OrdRef /\ "accepted" \in Await
  BY Constants DEF OrderAccepted, Accept, Await
<1>3. co \in [Coroutine -> CoType]
  BY DEF TypeOK
<1>4. [co[c] EXCEPT !.pc = "accepted", !.ord = nextNo] \in CoType
  BY <1>2, <1>3 DEF CoType
<1>5. co' \in [Coroutine -> CoType]
  BY <1>3, <1>4 DEF OrderAccepted
<1> QED BY <1>1, <1>5 DEF OrderAccepted, TypeOK, ledgerVars

LEMMA NotSentType ==
    ASSUME TypeOK, CoInv, NEW c \in Coroutine, co[c].pc \in {"send", "accepted"},
           NEW st \in RowStatus, NotSent(c, st)
    PROVE  /\ row' \in [OrderId -> RowType]
           /\ pos' \in [Pos -> PosType]
           /\ co' \in [Coroutine -> CoType]
  BY SenderPos, RowUpdate, PositionUpdates, IdleType DEF NotSent, LockDropped, TypeOK

(* How a call ends that brings no order: the status written, or one more   *)
(* attempt of a manual exit.                                               *)
LEMMA CallOutcome ==
    ASSUME NEW c \in Coroutine, OrderRefused(c) \/ CallFailed(c)
    PROVE  \/ NotSent(c, "rejected") \/ NotSent(c, "pending") \/ NotSent(c, "error")
           \/ co' = [co EXCEPT ![c].best = FALSE] /\ UNCHANGED <<row, pos>>
<1>1. RefusedStatus(c) \subseteq {"rejected", "pending"}
  BY DEF RefusedStatus
<1>2. CASE OrderRefused(c)
  BY <1>1, <1>2 DEF OrderRefused
<1>3. CASE CallFailed(c)
  BY <1>3 DEF CallFailed
<1> QED BY <1>2, <1>3

LEMMA OrderRefusedType ==
    ASSUME TypeOK, CoInv, NEW c \in Coroutine, OrderRefused(c) \/ CallFailed(c)
    PROVE  TypeOK'
<1>1. {"rejected", "pending", "error"} \subseteq RowStatus
  BY DEF RowStatus
<1>2. \/ NotSent(c, "rejected") \/ NotSent(c, "pending") \/ NotSent(c, "error")
      \/ co' = [co EXCEPT ![c].best = FALSE] /\ UNCHANGED <<row, pos>>
  BY CallOutcome
<1>3. /\ row' \in [OrderId -> RowType]
      /\ pos' \in [Pos -> PosType]
      /\ co' \in [Coroutine -> CoType]
  <2>1. CASE co' = [co EXCEPT ![c].best = FALSE] /\ UNCHANGED <<row, pos>>
    BY <2>1 DEF TypeOK, CoType
  <2>2. co[c].pc \in {"send", "accepted"}
    BY DEF OrderRefused, CallFailed
  <2> QED BY <1>1, <1>2, <2>1, <2>2, NotSentType
<1> QED BY <1>3, BrokerSame DEF OrderRefused, CallFailed, TypeOK

LEMMA ShortOfMarginType ==
    ASSUME TypeOK, NEW c \in Coroutine, NEW b \in 0 .. Lot, ShortOfMargin(c, b)
    PROVE  TypeOK'
<1> DEFINE cut == 0 < b /\ b < co[c].qty
           q == IF cut THEN b ELSE co[c].qty
<1>1. co \in [Coroutine -> CoType] /\ row \in [OrderId -> RowType]
  BY DEF TypeOK
<1>2. q \in Nat
  BY <1>1, BrokerageAssumption DEF CoType
<1>3. CASE cut /\ MayTryAgain(c)
  <2>1. co[c].tries + 1 \in Tries
    BY <1>1, <1>3 DEF MayTryAgain, CoType, Tries
  <2>2. co' = [co EXCEPT ![c].qty = q, ![c].tries = co[c].tries + 1] /\ row' = row
    BY <1>3 DEF ShortOfMargin
  <2> DEFINE t == co[c].tries + 1
  <2> HIDE DEF q, t
  <2>3. [co[c] EXCEPT !.qty = q, !.tries = t] \in CoType
    BY <1>1, <1>2, <2>1 DEF CoType, t
  <2>4. co' \in [Coroutine -> CoType]
    BY <1>1, <2>2, <2>3 DEF t
  <2> QED BY <2>2, <2>4, BrokerSame DEF ShortOfMargin, TypeOK
<1>4. CASE ~(cut /\ MayTryAgain(c))
  <2>1. /\ row' = [row EXCEPT ![co[c].row].status = "pending", ![co[c].row].qty = q]
        /\ co' = [co EXCEPT ![c] = Idle]
    BY <1>4 DEF ShortOfMargin
  <2> HIDE DEF q
  <2>2. row' \in [OrderId -> RowType]
    BY <1>1, <1>2, <2>1 DEF RowType, RowStatus
  <2>3. co' \in [Coroutine -> CoType]
    BY <1>1, <2>1, IdleType
  <2> QED BY <2>2, <2>3, BrokerSame DEF ShortOfMargin, TypeOK
<1> QED BY <1>3, <1>4

LEMMA OrderAnsweredType ==
    ASSUME TypeOK, CoInv, NEW c \in Coroutine, OrderAnswered(c)
    PROVE  TypeOK'
<1>1. "sent" \in RowStatus /\ "wait" \in FollowUp
  BY DEF RowStatus, FollowUp
<1>2. co[c].pos \in Pos /\ co[c].qty \in Nat /\ co[c].ord \in OrdRef
  BY SenderPos DEF OrderAnswered, TypeOK, CoType
<1>3. row' \in [OrderId -> RowType]
  BY <1>1, RowUpdate DEF OrderAnswered, TypeOK
<1>4. pos' \in [Pos -> PosType]
  <2>1. \/ pos' = Opened(co[c].pos, co[c].qty, co[c].ord)
        \/ pos' = Closed(co[c].pos, 0)
        \/ pos' = Closed(co[c].pos, co[c].ord)
    BY DEF OrderAnswered
  <2>2. pos \in [Pos -> PosType] /\ 0 \in OrdRef
    BY Constants DEF TypeOK
  <2>3. Opened(co[c].pos, co[c].qty, co[c].ord) \in [Pos -> PosType]
    BY <1>2, <2>2, PositionUpdates
  <2>4. Closed(co[c].pos, 0) \in [Pos -> PosType]
    BY <1>2, <2>2, PositionUpdates
  <2>5. Closed(co[c].pos, co[c].ord) \in [Pos -> PosType]
    BY <1>2, <2>2, PositionUpdates
  <2> QED BY <2>1, <2>3, <2>4, <2>5
<1>5. fb' \in [OrdNo -> FbType]
  BY <1>1 DEF OrderAnswered, TypeOK, FbType
<1>6. co' \in [Coroutine -> CoType]
  BY IdleType DEF OrderAnswered, TypeOK
<1> QED BY <1>3, <1>4, <1>5, <1>6, BrokerSame DEF OrderAnswered, TypeOK

LEMMA RemainderType ==
    ASSUME TypeOK, NEW o \in OrdNo
    PROVE  KnownRemainder(o) \in Int
  BY DEF TypeOK, BrokerTypeOK, OrderType, KnownRemainder

LEMMA FallbackType ==
    ASSUME TypeOK, BookInv, FallbackInv, NEW o \in OrdNo, FallbackSteps(o)
    PROVE  TypeOK'
<1>1. fb \in [OrdNo -> FbType] /\ held \in [Pos -> Int]
  BY DEF TypeOK, BrokerTypeOK
<1>2. FollowUp = {"none", "wait", "cancel", "settle", "balance", "send", "accepted", "done"}
  BY DEF FollowUp
<1>3. fb[o].pc # "none" => book[o].pos \in Pos
  BY DEF BookInv, FallbackInv, Known
<1>4. CASE FallbackWakes(o) \/ FallbackEnds(o)
  <2>1. fb' \in [OrdNo -> FbType]
    BY <1>1, <1>2, <1>4 DEF FallbackWakes, FallbackEnds, FbType
  <2> QED BY <1>4, <2>1, BrokerSame DEF FallbackWakes, FallbackEnds, TypeOK, ledgerVars
<1>5. CASE FallbackCancels(o)
  <2>1. fb' \in [OrdNo -> FbType]
    BY <1>1, <1>2, <1>5 DEF FallbackCancels, FbType
  <2>2. BrokerTypeOK'
    BY <1>5, CancelType, BrokerSame DEF FallbackCancels, TypeOK
  <2> QED BY <1>5, <2>1, <2>2 DEF FallbackCancels, TypeOK, ledgerVars
<1>6. CASE FallbackSettles(o)
  <2> DEFINE a == IF KnownRemainder(o) > 0 THEN "balance" ELSE "done"
  <2>1. a \in FollowUp
    BY <1>2
  <2>2. fb' = [fb EXCEPT ![o].pc = a, ![o].rem = KnownRemainder(o)]
    BY <1>6 DEF FallbackSettles
  <2> HIDE DEF a
  <2>3. [fb[o] EXCEPT !.pc = a, !.rem = KnownRemainder(o)] \in FbType
    BY <1>1, <2>1, RemainderType DEF FbType
  <2>4. fb' \in [OrdNo -> FbType]
    BY <1>1, <2>2, <2>3
  <2> QED BY <1>6, <2>4, BrokerSame DEF FallbackSettles, TypeOK, ledgerVars
<1>7. CASE FallbackCaps(o)
  <2>1. PICK r \in {fb[o].rem, Smaller(fb[o].rem, held[book[o].pos])} :
          fb' = [fb EXCEPT ![o].rem = r, ![o].pc = IF r > 0 THEN "send" ELSE "done"]
    BY <1>7 DEF FallbackCaps
  <2>2. r \in Int
    <3>1. fb[o].rem \in Int /\ held[book[o].pos] \in Int
      BY <1>1, <1>3, <1>7 DEF FallbackCaps, FbType
    <3> QED BY <2>1, <3>1 DEF Smaller
  <2> DEFINE a == IF r > 0 THEN "send" ELSE "done"
  <2>3. a \in FollowUp
    BY <1>2
  <2> HIDE DEF a
  <2>4. [fb[o] EXCEPT !.rem = r, !.pc = a] \in FbType
    BY <1>1, <2>2, <2>3 DEF FbType
  <2>5. fb' \in [OrdNo -> FbType]
    BY <1>1, <2>1, <2>4 DEF a
  <2> QED BY <1>7, <2>5, BrokerSame DEF FallbackCaps, TypeOK, ledgerVars
<1>8. CASE FallbackAccepted(o)
  <2>1. fb[o].rem \in Nat /\ book[o].pos \in Pos
    BY <1>1, <1>3, <1>8 DEF FallbackAccepted, Accept, FbType
  <2>2. BrokerTypeOK'
    BY <1>8, <2>1, AcceptType DEF FallbackAccepted, TypeOK
  <2>3. nextNo \in OrdRef
    BY <1>8, Constants DEF FallbackAccepted, Accept
  <2>4. [fb[o] EXCEPT !.pc = "accepted", !.ord = nextNo] \in FbType
    BY <1>1, <1>2, <2>3 DEF FbType
  <2>5. fb' \in [OrdNo -> FbType]
    BY <1>1, <1>8, <2>4 DEF FallbackAccepted
  <2> QED BY <1>8, <2>2, <2>5 DEF FallbackAccepted, TypeOK, ledgerVars
<1> QED BY <1>4, <1>5, <1>6, <1>7, <1>8 DEF FallbackSteps

LEMMA ExecuteType == ASSUME TypeOK, NEW o \in OrdNo, Execute(o) PROVE TypeOK'
  BY TradeType DEF Execute, TypeOK, ledgerVars, memVars

LEMMA RecordFillType ==
    ASSUME TypeOK, NEW o \in OrdNo, NEW n \in 1 .. Lot, RecordFill(o, n)
    PROVE  TypeOK'
<1>1. n \in Nat /\ QtyAfterFill(0, n) = n
  BY BrokerageAssumption DEF QtyAfterFill
<1>2. ASSUME NEW p \in Pos
      PROVE  pos'[p] \in PosType
  <2>1. pos[p] \in PosType
    BY DEF TypeOK
  <2>2. [pos[p] EXCEPT !.qty = n, !.conf = TRUE] \in PosType
    BY <1>1, <2>1 DEF PosType
  <2> QED BY <2>1, <2>2 DEF RecordFill, QtyAfterFill
<1>3. pos' \in [Pos -> PosType]
  BY <1>2 DEF RecordFill
<1>4. seen' \in [OrdNo -> Nat]
  BY <1>1 DEF RecordFill, TypeOK
<1> QED BY <1>3, <1>4, BrokerSame DEF RecordFill, TypeOK, memVars

LEMMA CrashType == ASSUME TypeOK, Crash PROVE TypeOK'
<1>1. NoFallback \in FbType /\ NoSnap \in [Pos -> Nat]
  BY Constants DEF NoFallback, FbType, FollowUp, NoSnap
<1>2. crashes' \in 0 .. MaxCrashes
  BY ExecutionAssumption DEF Crash, TypeOK
<1> QED BY <1>1, <1>2, IdleType, BrokerSame DEF Crash, TypeOK, ledgerVars

-----------------------------------------------------------------------------
(* What a step keeps, stated over the state before it *)

(* A known position stays known, with its entry order; an order stays what *)
(* it is.                                                                  *)
KnownKept ==
    \A p \in Pos : pos[p].status # "none" =>
        pos'[p].status # "none" /\ pos'[p].ordNo = pos[p].ordNo

OrdersKept ==
    \A o \in OrdNo : book[o].side # "none" =>
        book'[o].side = book[o].side /\ book'[o].pos = book[o].pos

LedgerStep ==
    \A p \in Pos :
        /\ pos'[p].status # "none" =>
              pos[p].status # "none" \/ \E o \in OrdNo : IsOrder(o, "buy", p)
        /\ pos'[p].status = "closed" =>
              pos[p].status = "closed" \/ \E o \in OrdNo : IsOrder(o, "sell", p)

BookStep ==
    \A o \in OrdNo :
        /\ o >= nextNo' => book'[o] = NoOrder
        /\ book'[o].side = "sell" => Known(book'[o].pos)

CoStep == \A c \in Coroutine : CoOK(co'[c])
SnapStep == \A l \in Loops, p \in Pos : snap'[l][p] > 0 => Known(p)
RowStep ==
    \A x \in ExitId :
        /\ row'[x].status # "none" => Known(row'[x].pos)
        /\ row[x].status # "none" => row'[x].status # "none"
FbStep == \A o \in OrdNo : fb'[o].pc # "none" => book[o].side = "sell"

LEMMA CoFrame ==
    ASSUME KnownKept, OrdersKept, RowStep, CoStep
    PROVE  CoInv'
<1> SUFFICES ASSUME NEW c \in Coroutine PROVE CoOK(co[c])'
  BY DEF CoInv
<1>1. CoOK(co'[c])
  BY DEF CoStep
<1>2. Known(co'[c].pos) => Known(co[c].pos)' /\ pos'[co'[c].pos].ordNo = pos[co'[c].pos].ordNo
  BY DEF Known, KnownKept
<1>3. ASSUME NEW s \in {"buy", "sell"}, IsOrder(co'[c].ord, s, co'[c].pos)
      PROVE  IsOrder(co[c].ord, s, co[c].pos)'
  BY <1>3 DEF IsOrder, OrdersKept
<1>4. co'[c].row \in ExitId /\ row[co'[c].row].status # "none"
         => row'[co'[c].row].status # "none"
  BY DEF RowStep
<1> QED BY <1>1, <1>2, <1>3, <1>4 DEF CoOK

LEMMA LedgerFrame ==
    ASSUME LedgerBackedByBroker, OrdersKept, LedgerStep
    PROVE  LedgerBackedByBroker'
<1>1. \A o \in OrdNo, s \in {"buy", "sell"}, p \in Pos :
         IsOrder(o, s, p) => IsOrder(o, s, p)'
  BY DEF OrdersKept, IsOrder
<1> QED BY <1>1 DEF LedgerBackedByBroker, LedgerStep

LEMMA Frame ==
    ASSUME IInv, TypeOK', CoInv', KnownKept, OrdersKept, LedgerStep, BookStep,
           SnapStep, RowStep, FbStep
    PROVE  IInv'
<1>1. \A p : Known(p) => Known(p)'
  BY DEF Known, KnownKept
<1>2. BookInv'
  BY <1>1 DEF BookInv, BookStep
<1>3. SnapInv' /\ ExitRowInv'
  BY <1>1 DEF SnapInv, SnapStep, ExitRowInv, RowStep
<1>4. FallbackInv'
  BY DEF FallbackInv, FbStep, OrdersKept
<1>5. LedgerBackedByBroker'
  BY LedgerFrame DEF IInv
<1> QED BY <1>2, <1>3, <1>4, <1>5 DEF IInv

LEMMA BrokerFrame ==
    ASSUME IInv, UNCHANGED brokerVars
    PROVE  OrdersKept /\ BookStep
  BY DEF IInv, BookInv, OrdersKept, BookStep, brokerVars, Known

StatusKept ==
    \A p \in Pos : pos'[p].status = pos[p].status /\ pos'[p].ordNo = pos[p].ordNo

LEMMA StatusFrame ==
    ASSUME StatusKept
    PROVE  KnownKept /\ LedgerStep
  BY DEF StatusKept, KnownKept, LedgerStep

LEMMA PendingFrame ==
    ASSUME TypeOK, NEW p \in Pos, NEW v, pos' = WithPending(p, v) \/ pos' = pos
    PROVE  StatusKept
  BY DEF TypeOK, WithPending, StatusKept, PosType

LEMMA MemFrame ==
    ASSUME IInv
    PROVE  /\ co' = co => CoStep
           /\ snap' = snap => SnapStep
           /\ row' = row => RowStep
           /\ fb' = fb => FbStep
           /\ pos' = pos => StatusKept
  BY DEF IInv, CoInv, CoStep, SnapInv, SnapStep, ExitRowInv, RowStep, FallbackInv, FbStep, StatusKept

LEMMA NewCoroutine ==
    ASSUME IInv, NEW c \in Coroutine, NEW r \in CoType, CoOK(r), co' = [co EXCEPT ![c] = r]
    PROVE  CoStep
  BY DEF IInv, TypeOK, CoInv, CoStep

LEMMA IdleOK == CoOK(Idle)
  BY ExecutionAssumption DEF CoOK, Idle

LEMMA ExitStartOK ==
    ASSUME NEW p, Known(p), NEW q \in Nat, NEW b \in BOOLEAN
    PROVE  CoOK(ExitStart(p, q, b)) /\ CoOK(ProposalStart(p, q))
<1>1. MustCancelEntry(p) => pos[p].ordNo # 0
  BY DEF MustCancelEntry, EntryUnfilled
<1> QED BY <1>1, ExecutionAssumption DEF CoOK, ExitStart, ProposalStart, Idle

-----------------------------------------------------------------------------
(* Every action keeps the invariant *)

(* The common case: only coroutines, rows, lists and locks change. *)
LEMMA QuietStep ==
    ASSUME IInv, TypeOK', UNCHANGED brokerVars, StatusKept,
           CoStep, SnapStep, RowStep, FbStep
    PROVE  IInv'
  BY BrokerFrame, StatusFrame, CoFrame, Frame

LEMMA ProposeInv == ASSUME IInv, NEW p \in Pos, Propose(p) PROVE IInv'
<1>1. RowStep
  BY ExecutionAssumption DEF Propose, IInv, TypeOK, ExitRowInv, RowStep, OrderId
<1> QED BY <1>1, ProposeType, MemFrame, QuietStep DEF Propose, IInv, memVars

LEMMA ApproveEntryInv ==
    ASSUME IInv, NEW c \in Users, NEW p \in Pos, NEW q \in 1 .. Lot, ApproveEntry(c, p, q)
    PROVE  IInv'
<1> DEFINE r == [Idle EXCEPT !.kind = "entry", !.pc = "send", !.pos = p, !.row = p, !.qty = q]
<1>1. RowStep
  BY ExecutionAssumption DEF ApproveEntry, IInv, TypeOK, ExitRowInv, RowStep, OrderId
<1>2. CoOK(r)
  BY ExecutionAssumption DEF CoOK, Idle
<1>3. CoStep
  BY <1>2 DEF ApproveEntry, IInv, TypeOK, CoInv, CoStep
<1> QED BY <1>1, <1>3, ApproveEntryType, MemFrame, QuietStep DEF ApproveEntry, IInv

LEMMA ProposalInv ==
    ASSUME IInv, NEW c \in Coroutine,
           ProposalMarked(c) \/ \E x \in ExitId : ProposalInserted(c, x)
    PROVE  IInv'
<1>1. CASE ProposalMarked(c)
  <2>1. StatusKept
    BY <1>1, PendingFrame DEF ProposalMarked, IInv, CoInv, CoOK, Known
  <2>2. CoStep
    BY <1>1, IdleOK DEF ProposalMarked, IInv, TypeOK, CoInv, CoStep
  <2> QED BY <1>1, <2>1, <2>2, ProposalMarkedType, MemFrame, QuietStep DEF ProposalMarked, IInv
<1>2. ASSUME NEW x \in ExitId, ProposalInserted(c, x)
      PROVE  IInv'
  <2>1. Known(co[c].pos) /\ co[c].kind = "propose"
    BY <1>2 DEF ProposalInserted, IInv, CoInv, CoOK
  <2>2. RowStep
    BY <1>2, <2>1 DEF ProposalInserted, IInv, TypeOK, ExitRowInv, RowStep, OrderId
  <2>3. CoStep
    <3>1. co[c] \in CoType /\ (co[c].row \in ExitId => row[co[c].row].status # "none")
      BY DEF IInv, TypeOK, CoInv, CoOK
    <3>2. CoOK([co[c] EXCEPT !.pc = "mark"])
      BY <2>1, <3>1 DEF CoOK, CoType
    <3> QED BY <1>2, <3>2 DEF ProposalInserted, IInv, TypeOK, CoInv, CoStep
  <2> QED BY <1>2, <2>2, <2>3, ProposalInsertedType, MemFrame, QuietStep
          DEF ProposalInserted, IInv
<1> QED BY <1>1, <1>2

LEMMA ApproveExitInv ==
    ASSUME IInv, NEW c \in Users, NEW x \in ExitId, ApproveExit(c, x)
    PROVE  IInv'
<1> DEFINE p == row[x].pos
           q == IF IsOpen(p) THEN Reread(row[x].qty, p) ELSE row[x].qty
           wait == IsOpen(p) /\ MustCancelEntry(p)
           pc == IF wait THEN "cancel" ELSE "send"
           r == [Idle EXCEPT !.kind = "approval", !.pos = p, !.row = x, !.qty = q, !.pc = pc]
<1>1. Known(p)
  BY DEF ApproveExit, AwaitsDecision, IInv, ExitRowInv
<1>2. CoOK(r)
  <2>1. wait => pos[p].ordNo # 0
    BY DEF MustCancelEntry, EntryUnfilled
  <2>2. pc = "send" \/ (pc = "cancel" /\ pos[p].ordNo # 0)
    BY <2>1
  <2> HIDE DEF p, q, pc
  <2>3. row[x].status # "none"
    BY DEF ApproveExit, AwaitsDecision
  <2> QED BY <1>1, <2>2, <2>3 DEF CoOK, Idle
<1>3. co' = [co EXCEPT ![c] = r]
  BY DEF ApproveExit
<1> HIDE DEF r
<1>4. CoStep
  BY <1>2, <1>3 DEF IInv, TypeOK, CoInv, CoStep
<1>5. RowStep
  BY <1>1 DEF ApproveExit, AwaitsDecision, IInv, TypeOK, RowType, ExitRowInv, RowStep, OrderId
<1> QED BY <1>4, <1>5, ApproveExitType, MemFrame, QuietStep DEF ApproveExit, IInv

LEMMA DecisionInv == ASSUME IInv, NEW i \in OrderId, Reject(i) \/ Expire(i) PROVE IInv'
<1>1. StatusKept
  <2>1. CASE i \in ExitId
    <3>1. row[i].pos \in Pos
      BY <2>1 DEF Reject, Expire, AwaitsDecision, IInv, ExitRowInv, Known
    <3> QED BY <2>1, <3>1, PendingFrame DEF Reject, Expire, IInv
  <2>2. CASE i \notin ExitId
    BY <2>2, MemFrame DEF Reject, Expire
  <2> QED BY <2>1, <2>2
<1>2. RowStep
  <2>1. \A x \in ExitId : /\ row'[x].pos = row[x].pos
                          /\ row'[x].status # "none" <=> row[x].status # "none"
    <3>1. PICK st \in RowStatus \ {"none"} : row' = [row EXCEPT ![i].status = st]
      BY DEF Reject, Expire, RowStatus
    <3>2. row[i].status = "pending" /\ row \in [OrderId -> RowType]
      BY DEF Reject, Expire, AwaitsDecision, IInv, TypeOK
    <3> QED BY <3>1, <3>2 DEF RowType, OrderId
  <2> QED BY <2>1 DEF IInv, ExitRowInv, RowStep
<1> QED BY <1>1, <1>2, DecisionType, MemFrame, QuietStep DEF Reject, Expire, IInv, memVars

LEMMA ListInv ==
    ASSUME IInv, DeskScan \/ LoopFlatten
           \/ (\E S \in SUBSET Pos, h \in [Pos -> LoopHow] : LoopScan(S, h))
    PROVE  IInv'
<1>1. SnapStep
  <2>1. \A p \in Pos : IsOpen(p) => Known(p)
    BY DEF IsOpen, Known
  <2>2. snap \in [Loops -> [Pos -> Nat]] /\ SnapInv
    BY DEF IInv, TypeOK
  <2>3. CASE DeskScan
    BY <2>1, <2>2, <2>3 DEF DeskScan, SnapInv, SnapStep, Unclaimed
  <2>4. CASE LoopFlatten
    BY <2>1, <2>2, <2>4 DEF LoopFlatten, SnapInv, SnapStep
  <2>5. ASSUME NEW S \in SUBSET Pos, NEW h \in [Pos -> LoopHow], LoopScan(S, h)
        PROVE  SnapStep
    BY <2>1, <2>2, <2>5 DEF LoopScan, SnapInv, SnapStep, Unclaimed
  <2> QED BY <2>3, <2>4, <2>5
<1>2. TypeOK'
  BY ListType DEF IInv
<1> QED BY <1>1, <1>2, MemFrame, QuietStep DEF DeskScan, LoopFlatten, LoopScan, ledgerVars

LEMMA JudgeInv ==
    ASSUME IInv, NEW c \in Watchers, NEW p \in Pos, NEW r \in {"stop", "target"}, Judge(c, p, r)
    PROVE  IInv'
<1>1. Known(p) /\ snap[c][p] \in Nat /\ c \in Coroutine
  BY DEF Judge, Unclaimed, IsOpen, Known, IInv, TypeOK, Watchers, Loops, Coroutine
<1>2. CoOK(ExitStart(p, snap[c][p], FALSE)) /\ CoOK(ProposalStart(p, snap[c][p]))
  BY <1>1, ExitStartOK
<1>3. CoStep
  BY <1>1, <1>2 DEF Judge, IInv, TypeOK, CoInv, CoStep
<1>4. SnapStep
  BY DEF Judge, IInv, TypeOK, SnapInv, SnapStep
<1>5. StatusKept
  BY PendingFrame DEF Judge, IInv
<1> QED BY <1>3, <1>4, <1>5, JudgeType, MemFrame, QuietStep DEF Judge, IInv

LEMMA DeskPassInv == ASSUME IInv, NEW p \in Pos, DeskPass(p) PROVE IInv'
<1>1. SnapStep
  BY DEF DeskPass, IInv, TypeOK, SnapInv, SnapStep
<1> QED BY <1>1, DeskPassType, MemFrame, QuietStep DEF DeskPass, IInv, ledgerVars

LEMMA LoopExitInv == ASSUME IInv, NEW p \in Pos, LoopExit(p) PROVE IInv'
<1>1. Known(p) /\ snap["loop"][p] \in Nat
  BY DEF LoopExit, IInv, TypeOK, SnapInv, Loops
<1>2. CoOK(ExitStart(p, snap["loop"][p], FALSE)) /\ CoOK(ProposalStart(p, snap["loop"][p]))
  BY <1>1, ExitStartOK
<1>3. CoStep
  BY <1>2 DEF LoopExit, IInv, TypeOK, CoInv, CoStep
<1>4. SnapStep
  BY DEF LoopExit, IInv, TypeOK, SnapInv, SnapStep
<1> QED BY <1>3, <1>4, LoopExitType, MemFrame, QuietStep DEF LoopExit, IInv, ledgerVars

LEMMA ManualInv ==
    ASSUME IInv, NEW c \in Users, NEW p \in Pos, ManualExit(c, p) \/ ManualVoid(c, p)
    PROVE  IInv'
<1>1. Known(p)
  BY DEF ManualExit, ManualVoid, IsOpen, Known
<1>2. /\ CoOK([Idle EXCEPT !.kind = "exit", !.pc = "balance", !.pos = p,
                           !.qty = pos[p].qty, !.best = TRUE])
      /\ CoOK([Idle EXCEPT !.kind = "void", !.pc = "balance", !.pos = p])
  BY <1>1, ExecutionAssumption DEF CoOK, Idle
<1>3. CoStep
  BY <1>2 DEF ManualExit, ManualVoid, IInv, TypeOK, CoInv, CoStep
<1> QED BY <1>3, ManualType, MemFrame, QuietStep DEF ManualExit, ManualVoid, IInv, ledgerVars

LEMMA VoidFrame ==
    ASSUME TypeOK, NEW p, Known(p), pos' = Voided(p)
    PROVE  KnownKept /\ LedgerStep
  BY DEF TypeOK, PosType, Known, Voided, KnownKept, LedgerStep

LEMMA BalanceReadInv == ASSUME IInv, NEW c \in Coroutine, BalanceRead(c) PROVE IInv'
<1>1. Known(co[c].pos) /\ co[c].qty \in Nat
  BY DEF BalanceRead, IInv, CoInv, CoOK, TypeOK, CoType
<1>2. CoOK(ExitStart(co[c].pos, co[c].qty, TRUE))
  BY <1>1, ExitStartOK
<1>3. CoStep
  BY <1>2, IdleOK DEF BalanceRead, IInv, TypeOK, CoInv, CoStep
<1>4. KnownKept /\ LedgerStep
  BY <1>1, VoidFrame, StatusFrame, MemFrame DEF BalanceRead, IInv
<1> QED BY <1>3, <1>4, BalanceReadType, MemFrame, BrokerFrame, CoFrame, Frame
        DEF BalanceRead, IInv

LEMMA ReapInv == ASSUME IInv, NEW p \in Pos, Reap(p) PROVE IInv'
<1>1. KnownKept /\ LedgerStep
  BY VoidFrame DEF Reap, IsOpen, Known, IInv
<1> QED BY <1>1, ReapType, MemFrame, BrokerFrame, CoFrame, Frame DEF Reap, IInv, memVars

LEMMA CancelFrame ==
    ASSUME IInv, NEW o \in OrdNo, CancelWorking(o) \/ UNCHANGED brokerVars
    PROVE  OrdersKept /\ BookStep
<1>1. CASE UNCHANGED brokerVars
  BY <1>1, BrokerFrame
<1>2. CASE CancelWorking(o)
  <2>1. nextNo' = nextNo /\ book' = [book EXCEPT ![o].live = FALSE] /\ book[o].live
    BY <1>2 DEF CancelWorking
  <2>2. \A k \in OrdNo : /\ book'[k].side = book[k].side /\ book'[k].pos = book[k].pos
                         /\ k # o => book'[k] = book[k]
    BY <2>1 DEF IInv, TypeOK, BrokerTypeOK, OrderType
  <2>3. ~(o >= nextNo)
    BY <2>1 DEF IInv, BookInv, NoOrder
  <2> QED BY <2>1, <2>2, <2>3 DEF IInv, BookInv, OrdersKept, BookStep
<1> QED BY <1>1, <1>2

LEMMA AcceptFrame ==
    ASSUME IInv, NEW side \in {"buy", "sell"}, NEW p \in Pos, NEW q \in Nat,
           Accept(side, p, q), side = "sell" => Known(p)
    PROVE  /\ OrdersKept /\ BookStep
           /\ book'[nextNo].side = side /\ book'[nextNo].pos = p
<1> DEFINE r == [side |-> side, pos |-> p, qty |-> q, filled |-> 0, live |-> TRUE]
<1>1. /\ book' = [book EXCEPT ![nextNo] = r] /\ nextNo \in OrdNo /\ nextNo' = nextNo + 1
      /\ book \in [OrdNo -> OrderType]
  BY DEF Accept, IInv, TypeOK, BrokerTypeOK
<1>2. book[nextNo] = NoOrder
  BY <1>1, BrokerageAssumption DEF IInv, BookInv, OrdNo
<1>3. OrdersKept
  BY <1>1, <1>2 DEF OrdersKept, NoOrder
<1>4. BookStep
  <2> SUFFICES ASSUME NEW o \in OrdNo
               PROVE  /\ o >= nextNo' => book'[o] = NoOrder
                      /\ book'[o].side = "sell" => Known(book'[o].pos)
    BY DEF BookStep
  <2>1. CASE o = nextNo
    BY <1>1, <2>1, BrokerageAssumption DEF OrdNo
  <2>2. CASE o # nextNo
    BY <1>1, <2>2, BrokerageAssumption DEF OrdNo, IInv, BookInv
  <2> QED BY <2>1, <2>2
<1>5. book'[nextNo] = r
  BY <1>1
<1> QED BY <1>3, <1>4, <1>5

(* Writing the status and the quantity of the order a coroutine works on. *)
LEMMA RowWrite ==
    ASSUME IInv, NEW c \in Coroutine, NEW st \in RowStatus, st # "none", NEW q,
           \/ row' = row
           \/ row' = [row EXCEPT ![co[c].row].status = st, ![co[c].row].qty = q]
    PROVE  RowStep
<1>1. CASE row' = row
  BY <1>1, MemFrame
<1>2. CASE row' = [row EXCEPT ![co[c].row].status = st, ![co[c].row].qty = q]
  <2>1. \A x \in ExitId : /\ row'[x].pos = row[x].pos
                          /\ x # co[c].row => row'[x].status = row[x].status
                          /\ x = co[c].row => row'[x].status = st
    BY <1>2 DEF IInv, TypeOK, RowType, OrderId
  <2>2. co[c].row \in ExitId => row[co[c].row].status # "none"
    BY DEF IInv, CoInv, CoOK
  <2> QED BY <2>1, <2>2 DEF IInv, ExitRowInv, RowStep
<1> QED BY <1>1, <1>2

LEMMA EntryCancelledInv == ASSUME IInv, NEW c \in Coroutine, EntryCancelled(c) PROVE IInv'
<1> DEFINE p == co[c].pos
           q == Reread(co[c].qty, p)
           r == [co[c] EXCEPT !.pc = "send", !.qty = q]
<1>1. Known(p) /\ pos[p].ordNo # 0 /\ co[c].kind \in {"approval", "exit"}
  BY DEF EntryCancelled, IInv, CoInv, CoOK
<1>2. pos[p].ordNo \in OrdNo
  BY <1>1, Constants DEF IInv, TypeOK, PosType, Known
<1>3. OrdersKept /\ BookStep
  BY <1>2, CancelFrame DEF EntryCancelled
<1>4. co' = [co EXCEPT ![c].pc = "send", ![c].qty = q] /\ co[c] \in CoType
  BY DEF EntryCancelled, IInv, TypeOK
<1>5. CoStep
  <2> HIDE DEF q
  <2>1. CoOK(r)
    <3>1. co[c].row \in ExitId => row[co[c].row].status # "none"
      BY DEF IInv, CoInv, CoOK
    <3> QED BY <1>1, <1>4, <3>1 DEF CoOK, CoType
  <2>2. co' = [co EXCEPT ![c] = r]
    BY <1>4 DEF IInv, TypeOK
  <2> HIDE DEF r
  <2> QED BY <2>1, <2>2 DEF IInv, TypeOK, CoInv, CoStep
<1>6. RowStep
  <2>1. \/ row' = row
        \/ row' = [row EXCEPT ![co[c].row].status = "approved", ![co[c].row].qty = q]
    BY DEF EntryCancelled
  <2>2. "approved" \in RowStatus
    BY DEF RowStatus
  <2> HIDE DEF q
  <2> QED BY <2>1, <2>2, RowWrite
<1> QED BY <1>3, <1>5, <1>6, EntryCancelledType, MemFrame, StatusFrame, CoFrame, Frame
        DEF EntryCancelled, IInv

LEMMA OrderAcceptedInv == ASSUME IInv, NEW c \in Coroutine, OrderAccepted(c) PROVE IInv'
<1> DEFINE r == [co[c] EXCEPT !.pc = "accepted", !.ord = nextNo]
<1>1. /\ co[c] \in CoType /\ co[c].pos \in Pos /\ co[c].qty \in Nat /\ nextNo \in OrdNo
      /\ co[c].kind \in {"entry", "approval", "exit"}
      /\ Side(c) = "sell" => Known(co[c].pos)
  BY SenderPos DEF OrderAccepted, Accept, IInv, TypeOK, CoType, CoInv, CoOK, Side
<1>2. /\ OrdersKept /\ BookStep
      /\ book'[nextNo].side = Side(c) /\ book'[nextNo].pos = co[c].pos
  BY <1>1, SideType, AcceptFrame DEF OrderAccepted
<1>3. StatusKept /\ RowStep /\ SnapStep /\ FbStep
  BY MemFrame DEF OrderAccepted, ledgerVars
<1>4. ASSUME NEW d \in Coroutine, d # c PROVE CoOK(co[d])'
  <2>1. co'[d] = co[d] /\ CoOK(co[d])
    BY <1>4 DEF OrderAccepted, IInv, TypeOK, CoInv
  <2>2. row' = row /\ pos' = pos
    BY DEF OrderAccepted, ledgerVars
  <2>3. \A o, s, p : s \in {"buy", "sell"} /\ IsOrder(o, s, p) => IsOrder(o, s, p)'
    BY <1>2 DEF OrdersKept, IsOrder
  <2> QED BY <2>1, <2>2, <2>3 DEF CoOK, Known
<1>5. CoOK(co[c])'
  <2>1. co'[c] = r /\ row' = row /\ pos' = pos
    BY DEF OrderAccepted, ledgerVars, IInv, TypeOK
  <2>2. co'[c].kind = co[c].kind /\ co'[c].pos = co[c].pos /\ co'[c].row = co[c].row
        /\ co'[c].pc = "accepted" /\ co'[c].ord = nextNo
    BY <1>1, <2>1 DEF CoType
  <2>3. CoOK(co[c])
    BY DEF IInv, CoInv
  <2> QED BY <1>1, <1>2, <2>1, <2>2, <2>3 DEF CoOK, Known, IsOrder, Side
<1>6. CoInv'
  BY <1>4, <1>5 DEF CoInv
<1> QED BY <1>2, <1>3, <1>6, OrderAcceptedType, StatusFrame, Frame DEF IInv

LEMMA NotSentInv ==
    ASSUME IInv, NEW c \in Coroutine, co[c].pc \in {"send", "accepted"}, TypeOK',
           NEW st \in RowStatus, st # "none", NotSent(c, st),
           UNCHANGED <<brokerVars, seen, fb, snap, how, crashes>>
    PROVE  IInv'
<1>1. StatusKept
  BY SenderPos, PendingFrame, MemFrame DEF NotSent, LockDropped, IInv
<1>2. RowStep
  <2> DEFINE q == co[c].qty
  <2>1. \/ row' = row
        \/ row' = [row EXCEPT ![co[c].row].status = st, ![co[c].row].qty = q]
    BY DEF NotSent, RowWritten
  <2> HIDE DEF q
  <2> QED BY <2>1, RowWrite
<1>3. CoStep
  BY IdleOK DEF NotSent, IInv, TypeOK, CoInv, CoStep
<1> QED BY <1>1, <1>2, <1>3, MemFrame, QuietStep DEF IInv

LEMMA OrderRefusedInv ==
    ASSUME IInv, NEW c \in Coroutine, OrderRefused(c) \/ CallFailed(c)
    PROVE  IInv'
<1>1. TypeOK'
  BY OrderRefusedType DEF IInv
<1>2. /\ co[c].pc \in {"send", "accepted"}
      /\ UNCHANGED <<brokerVars, seen, fb, snap, how, crashes>>
      /\ \/ NotSent(c, "rejected") \/ NotSent(c, "pending") \/ NotSent(c, "error")
         \/ co' = [co EXCEPT ![c].best = FALSE] /\ UNCHANGED <<row, pos>>
  BY CallOutcome DEF OrderRefused, CallFailed
<1>3. {"rejected", "pending", "error"} \subseteq RowStatus
  BY DEF RowStatus
<1>4. CASE co' = [co EXCEPT ![c].best = FALSE] /\ UNCHANGED <<row, pos>>
  <2>1. CoStep
    <3> DEFINE r == [co[c] EXCEPT !.best = FALSE]
    <3>1. co[c] \in CoType /\ CoOK(co[c])
      BY DEF IInv, TypeOK, CoInv
    <3>2. CoOK(r)
      BY <3>1 DEF CoOK, CoType
    <3>3. co' = [co EXCEPT ![c] = r]
      BY <1>4
    <3> HIDE DEF r
    <3> QED BY <3>2, <3>3 DEF IInv, TypeOK, CoInv, CoStep
  <2> QED BY <1>1, <1>2, <1>4, <2>1, MemFrame, QuietStep
<1> QED BY <1>1, <1>2, <1>3, <1>4, NotSentInv

LEMMA ShortOfMarginInv ==
    ASSUME IInv, NEW c \in Coroutine, NEW b \in 0 .. Lot, ShortOfMargin(c, b)
    PROVE  IInv'
<1> DEFINE q == IF 0 < b /\ b < co[c].qty THEN b ELSE co[c].qty
           t == co[c].tries + 1
           r == [co[c] EXCEPT !.qty = q, !.tries = t]
<1>1. \/ co' = [co EXCEPT ![c].qty = q, ![c].tries = t] /\ row' = row
      \/ /\ co' = [co EXCEPT ![c] = Idle]
         /\ row' = [row EXCEPT ![co[c].row].status = "pending", ![co[c].row].qty = q]
  BY DEF ShortOfMargin
<1>2. co[c] \in CoType /\ CoOK(co[c]) /\ "pending" \in RowStatus
  BY DEF IInv, TypeOK, CoInv, RowStatus
<1> HIDE DEF q, t
<1>3. CoOK(r)
  BY <1>2 DEF CoOK, CoType
<1>4. CoStep
  <2>1. co' = [co EXCEPT ![c] = r] \/ co' = [co EXCEPT ![c] = Idle]
    BY <1>1
  <2> HIDE DEF r
  <2> QED BY <1>3, <2>1, IdleOK DEF IInv, TypeOK, CoInv, CoStep
<1>5. RowStep
  BY <1>1, <1>2, RowWrite
<1>6. UNCHANGED <<brokerVars, pos, seen, fb, snap, how, crashes>>
  BY DEF ShortOfMargin
<1> QED BY <1>4, <1>5, <1>6, ShortOfMarginType, MemFrame, QuietStep DEF IInv

LEMMA OrderAnsweredInv == ASSUME IInv, NEW c \in Coroutine, OrderAnswered(c) PROVE IInv'
<1> DEFINE p == co[c].pos
<1>1. /\ p \in Pos /\ IsOrder(co[c].ord, Side(c), p) /\ co[c] \in CoType
      /\ pos \in [Pos -> PosType] /\ "sent" \in RowStatus
      /\ co[c].kind \in {"entry", "approval", "exit"}
  BY SenderPos DEF OrderAnswered, IInv, TypeOK, CoInv, CoOK, Side, RowStatus
<1>2. KnownKept /\ LedgerStep
  <2>1. CASE co[c].kind = "entry"
    <3>1. pos' = Opened(p, co[c].qty, co[c].ord) /\ IsOrder(co[c].ord, "buy", p)
      BY <1>1, <2>1 DEF OrderAnswered, Side
    <3>2. co[c].ord \in OrdNo
      BY <3>1 DEF IsOrder
    <3> QED BY <1>1, <3>1, <3>2 DEF Opened, KnownKept, LedgerStep, PosType
  <2>2. CASE co[c].kind # "entry"
    <3>1. PICK o \in OrdRef : pos' = Closed(p, o)
      <4>1. co[c].ord \in OrdRef /\ 0 \in OrdRef
        BY <1>1, Constants DEF CoType
      <4> QED BY <2>2, <4>1 DEF OrderAnswered
    <3>2. IsOrder(co[c].ord, "sell", p) /\ co[c].ord \in OrdNo
      BY <1>1, <2>2 DEF Side, IsOrder
    <3>3. \A x \in Pos : /\ pos'[x].ordNo = pos[x].ordNo
                         /\ \/ pos'[x].status = pos[x].status
                            \/ pos'[x].status = "closed" /\ x = p /\ pos[x].status = "open"
      BY <1>1, <3>1 DEF Closed, IsOpen, PosType
    <3> QED BY <3>2, <3>3 DEF KnownKept, LedgerStep
  <2> QED BY <2>1, <2>2
<1>3. RowStep
  <2> DEFINE q == co[c].qty
  <2>1. \/ row' = row
        \/ row' = [row EXCEPT ![co[c].row].status = "sent", ![co[c].row].qty = q]
    BY DEF OrderAnswered, RowWritten
  <2> HIDE DEF q
  <2> QED BY <1>1, <2>1, RowWrite
<1>4. CoStep
  BY IdleOK DEF OrderAnswered, IInv, TypeOK, CoInv, CoStep
<1>5. FbStep
  <2>1. co[c].kind = "exit" => book[co[c].ord].side = "sell"
    BY <1>1 DEF Side, IsOrder
  <2> QED BY <2>1 DEF OrderAnswered, IInv, TypeOK, FbType, FallbackInv, FbStep
<1> QED BY <1>2, <1>3, <1>4, <1>5, OrderAnsweredType, MemFrame, BrokerFrame, CoFrame, Frame
        DEF OrderAnswered, IInv

LEMMA FallbackStepsInv == ASSUME IInv, NEW o \in OrdNo, FallbackSteps(o) PROVE IInv'
<1>1. TypeOK'
  BY FallbackType DEF IInv
<1>2. fb[o].pc # "none" /\ book[o].side = "sell" /\ Known(book[o].pos)
  BY DEF FallbackSteps, FallbackWakes, FallbackCancels, FallbackSettles, FallbackCaps,
         FallbackAccepted, FallbackEnds, IInv, FallbackInv, BookInv
<1>3. FbStep
  <2>1. \A k \in OrdNo : k # o => fb'[k] = fb[k]
    BY DEF FallbackSteps, FallbackWakes, FallbackCancels, FallbackSettles, FallbackCaps,
           FallbackAccepted, FallbackEnds, IInv, TypeOK
  <2> QED BY <1>2, <2>1 DEF IInv, FallbackInv, FbStep
<1>4. OrdersKept /\ BookStep
  <2>1. CASE FallbackCancels(o)
    BY <2>1, CancelFrame DEF FallbackCancels
  <2>2. CASE FallbackAccepted(o)
    <3>1. fb[o].rem \in Nat /\ book[o].pos \in Pos
      BY <1>2, <2>2 DEF FallbackAccepted, Accept, IInv, TypeOK, FbType, Known
    <3> QED BY <1>2, <2>2, <3>1, AcceptFrame DEF FallbackAccepted
  <2>3. CASE FallbackWakes(o) \/ FallbackSettles(o) \/ FallbackCaps(o) \/ FallbackEnds(o)
    BY <2>3, BrokerFrame DEF FallbackWakes, FallbackSettles, FallbackCaps, FallbackEnds
  <2> QED BY <2>1, <2>2, <2>3 DEF FallbackSteps
<1>5. UNCHANGED <<row, pos, co, snap>>
  BY DEF FallbackSteps, FallbackWakes, FallbackCancels, FallbackSettles, FallbackCaps,
         FallbackAccepted, FallbackEnds, ledgerVars
<1> QED BY <1>1, <1>3, <1>4, <1>5, MemFrame, StatusFrame, CoFrame, Frame DEF IInv

LEMMA ExecuteInv == ASSUME IInv, NEW o \in OrdNo, Execute(o) PROVE IInv'
<1> DEFINE n == book[o].filled + 1
           z == Remaining(o) > 1
<1>1. /\ book' = [book EXCEPT ![o].filled = n, ![o].live = z] /\ nextNo' = nextNo
      /\ book[o].live /\ book \in [OrdNo -> OrderType]
  BY DEF Execute, Trade, IInv, TypeOK, BrokerTypeOK
<1> HIDE DEF n, z
<1>2. \A k \in OrdNo : /\ book'[k].side = book[k].side /\ book'[k].pos = book[k].pos
                       /\ k # o => book'[k] = book[k]
  BY <1>1 DEF OrderType
<1>3. ~(o >= nextNo)
  BY <1>1 DEF IInv, BookInv, NoOrder
<1>4. OrdersKept /\ BookStep
  BY <1>1, <1>2, <1>3 DEF IInv, BookInv, OrdersKept, BookStep
<1>5. UNCHANGED <<row, pos, co, snap, fb>>
  BY DEF Execute, ledgerVars, memVars
<1> QED BY <1>4, <1>5, ExecuteType, MemFrame, StatusFrame, CoFrame, Frame DEF IInv

LEMMA RecordFillInv ==
    ASSUME IInv, NEW o \in OrdNo, NEW n \in 1 .. Lot, RecordFill(o, n)
    PROVE  IInv'
<1>1. StatusKept
  <2> SUFFICES ASSUME NEW p \in Pos
               PROVE  pos'[p].status = pos[p].status /\ pos'[p].ordNo = pos[p].ordNo
    BY DEF StatusKept
  <2>1. pos[p] \in PosType
    BY DEF IInv, TypeOK
  <2>2. \/ pos'[p] = pos[p]
        \/ pos'[p] = [pos[p] EXCEPT !.qty = n, !.conf = TRUE]
    BY DEF RecordFill, QtyAfterFill
  <2> QED BY <2>1, <2>2 DEF PosType
<1>2. UNCHANGED <<brokerVars, row, co, snap, fb>>
  BY DEF RecordFill, memVars
<1> QED BY <1>1, <1>2, RecordFillType, MemFrame, QuietStep DEF IInv

LEMMA CrashInv == ASSUME IInv, Crash PROVE IInv'
<1>1. CoStep /\ SnapStep /\ FbStep
  BY IdleOK DEF Crash, CoStep, SnapStep, NoSnap, FbStep, NoFallback
<1>2. StatusKept /\ RowStep
  BY MemFrame DEF Crash, ledgerVars
<1> QED BY <1>1, <1>2, CrashType, QuietStep DEF Crash, IInv

LEMMA InitInv == Init => IInv
<1> SUFFICES ASSUME Init PROVE IInv
  OBVIOUS
<1>1. BrokerTypeOK
  BY BrokerageAssumption DEF Init, BrokerInit, BrokerTypeOK, NoOrder, OrderType, Sides, OrdNo
<1>2. NoRow \in RowType /\ NoPosition \in PosType /\ NoFallback \in FbType
  BY Constants DEF NoRow, RowType, RowStatus, NoPosition, PosType, Stage, NoFallback, FbType,
                   FollowUp
<1>3. TypeOK
  BY <1>1, <1>2, IdleType, ExecutionAssumption DEF Init, TypeOK, NoSnap, Via
<1>4. BookInv
  BY DEF Init, BrokerInit, BookInv, NoOrder
<1>5. CoInv
  BY IdleOK DEF Init, CoInv
<1>6. SnapInv /\ ExitRowInv /\ FallbackInv /\ LedgerBackedByBroker
  BY DEF Init, SnapInv, NoSnap, ExitRowInv, NoRow, FallbackInv, NoFallback,
         LedgerBackedByBroker, NoPosition, OrderId
<1> QED BY <1>3, <1>4, <1>5, <1>6 DEF IInv

LEMMA RequestInv == ASSUME IInv, NEW c \in Users, Request(c) PROVE IInv'
  BY ApproveEntryInv, ManualInv, ApproveExitInv DEF Request

LEMMA ContinueInv == ASSUME IInv, NEW c \in Coroutine, Continue(c) PROVE IInv'
<1>1. CASE (\E x \in ExitId : ProposalInserted(c, x)) \/ ProposalMarked(c)
  BY <1>1, ProposalInv
<1>2. CASE BalanceRead(c)
  BY <1>2, BalanceReadInv
<1>3. CASE EntryCancelled(c)
  BY <1>3, EntryCancelledInv
<1>4. CASE OrderSteps(c)
  <2>1. CASE OrderAccepted(c)
    BY <2>1, OrderAcceptedInv
  <2>2. CASE OrderRefused(c) \/ CallFailed(c)
    BY <2>2, OrderRefusedInv
  <2>3. CASE \E b \in 0 .. Lot : ShortOfMargin(c, b)
    BY <2>3, ShortOfMarginInv
  <2>4. CASE OrderAnswered(c)
    BY <2>4, OrderAnsweredInv
  <2> QED BY <1>4, <2>1, <2>2, <2>3, <2>4 DEF OrderSteps
<1> QED BY <1>1, <1>2, <1>3, <1>4 DEF Continue

LEMMA StutterInv == ASSUME IInv, UNCHANGED vars PROVE IInv'
<1>1. TypeOK'
  BY BrokerSame DEF IInv, TypeOK, vars, brokerVars
<1> QED BY <1>1, MemFrame, QuietStep DEF vars, brokerVars

(* No step of the service or of the firm breaks the invariant. *)
LEMMA NextInv == ASSUME IInv, [Next]_vars PROVE IInv'
<1>1. CASE UNCHANGED vars
  BY <1>1, StutterInv
<1>2. CASE \E p \in Pos : Propose(p) \/ DeskPass(p) \/ LoopExit(p) \/ Reap(p)
  BY <1>2, ProposeInv, DeskPassInv, LoopExitInv, ReapInv
<1>3. CASE \E i \in OrderId : Reject(i) \/ Expire(i)
  BY <1>3, DecisionInv
<1>4. CASE \E c \in Watchers, p \in Pos, r \in {"stop", "target"} : Judge(c, p, r)
  BY <1>4, JudgeInv
<1>5. CASE \/ DeskScan \/ LoopFlatten
           \/ \E S \in SUBSET Pos, h \in [Pos -> LoopHow] : LoopScan(S, h)
  BY <1>5, ListInv
<1>6. CASE \E c \in Users : Request(c)
  BY <1>6, RequestInv
<1>7. CASE \E c \in Coroutine : Continue(c)
  BY <1>7, ContinueInv
<1>8. CASE \E o \in OrdNo :
              FallbackSteps(o) \/ Execute(o) \/ (\E n \in 1 .. Lot : RecordFill(o, n))
  BY <1>8, FallbackStepsInv, ExecuteInv, RecordFillInv
<1>9. CASE Crash
  BY <1>9, CrashInv
<1> QED BY <1>1, <1>2, <1>3, <1>4, <1>5, <1>6, <1>7, <1>8, <1>9 DEF Next

-----------------------------------------------------------------------------
(* Theorems *)

(* Every reachable state satisfies the inductive invariant. *)
THEOREM Inductive == Spec => []IInv
<1>1. Init => IInv
  BY InitInv
<1>2. IInv /\ [Next]_vars => IInv'
  BY NextInv
<1> QED BY <1>1, <1>2, PTL DEF Spec

(* The tables, the coroutines and the order book keep their types: no list  *)
(* or notice puts a value into them that the code does not expect.         *)
THEOREM TypeCorrect == Spec => []TypeOK
<1>1. IInv => TypeOK
  BY DEF IInv
<1> QED BY <1>1, Inductive, PTL

(* A position exists only for an accepted buy and is closed only after an  *)
(* accepted sell, however the callers of execute_exit and approve_and_send *)
(* interleave, whatever calls fail and whenever the process is killed.     *)
THEOREM LedgerBacked == Spec => []LedgerBackedByBroker
<1>1. IInv => LedgerBackedByBroker
  BY DEF IInv
<1> QED BY <1>1, Inductive, PTL

-----------------------------------------------------------------------------
(* OrderExecution implements PositionLife: every step of the service, of   *)
(* the firm or of a kill is one step in the life of a position, or none.   *)

(* What a step does to the abstract variables *)

StageKept == \A p \in Pos : pos'[p].status = pos[p].status

TradesKept == \A o \in OrdNo : book'[o].side = book[o].side /\ book'[o].pos = book[o].pos

LEMMA TradedSame == ASSUME TradesKept PROVE \A s : Traded(s)' = Traded(s)
  BY DEF TradesKept, Traded, IsOrder

LEMMA LifeQuiet == ASSUME StageKept, TradesKept PROVE UNCHANGED Life!vars
  BY TradedSame DEF StageKept, Life!vars

LEMMA BookSame == UNCHANGED brokerVars => TradesKept
  BY DEF brokerVars, TradesKept

LEMMA StageSame ==
    ASSUME TypeOK, NEW p \in Pos, NEW v, pos' = pos \/ pos' = WithPending(p, v)
    PROVE  StageKept
<1>1. pos \in [Pos -> PosType]
  BY DEF TypeOK
<1>2. ASSUME NEW q \in Pos, pos' = WithPending(p, v)
      PROVE  pos'[q].status = pos[q].status
  <2>1. pos'[q] = pos[q] \/ pos'[q] = [pos[q] EXCEPT !.pending = v]
    BY <1>1, <1>2 DEF WithPending
  <2>2. pos[q] \in PosType
    BY <1>1
  <2> QED BY <2>1, <2>2 DEF PosType
<1> QED BY <1>2 DEF StageKept

(* An order that the firm takes: a buy or a sell in the life of p. *)
LEMMA AcceptedTrade ==
    ASSUME IInv, NEW side \in {"buy", "sell"}, NEW p \in Pos, NEW q \in Nat,
           Accept(side, p, q)
    PROVE  /\ Traded(side)' = Traded(side) \cup {p}
           /\ \A s \in {"buy", "sell"} \ {side} : Traded(s)' = Traded(s)
<1> DEFINE r == [side |-> side, pos |-> p, qty |-> q, filled |-> 0, live |-> TRUE]
<1>1. /\ book' = [book EXCEPT ![nextNo] = r] /\ nextNo \in OrdNo
      /\ book \in [OrdNo -> OrderType]
  BY DEF Accept, IInv, TypeOK, BrokerTypeOK
<1>2. book[nextNo].side = "none"
  BY <1>1, BrokerageAssumption DEF IInv, BookInv, OrdNo, NoOrder
<1>3. \A o \in OrdNo : o # nextNo => book'[o] = book[o]
  BY <1>1
<1>4. book'[nextNo].side = side /\ book'[nextNo].pos = p
  BY <1>1
<1>5. ASSUME NEW s \in {"buy", "sell"}, NEW x \in Pos
      PROVE  (\E o \in OrdNo : IsOrder(o, s, x))' <=>
                (\E o \in OrdNo : IsOrder(o, s, x)) \/ (s = side /\ x = p)
  BY <1>1, <1>2, <1>3, <1>4 DEF IsOrder
<1> QED BY <1>5 DEF Traded

LEMMA LifeBuy ==
    ASSUME IInv, NEW p \in Pos, NEW q \in Nat, Accept("buy", p, q), StageKept
    PROVE  Life!Buy(p)
  BY AcceptedTrade DEF Life!Buy, StageKept

LEMMA LifeSell ==
    ASSUME IInv, NEW p \in Pos, NEW q \in Nat, Accept("sell", p, q), StageKept, Known(p)
    PROVE  Life!Sell(p)
  BY AcceptedTrade DEF Life!Sell, StageKept, Known

LEMMA LifeOpen ==
    ASSUME TypeOK, NEW p \in Pos, NEW q \in Nat, NEW o \in OrdNo, IsOrder(o, "buy", p),
           UNCHANGED brokerVars, pos' = Opened(p, q, o)
    PROVE  Life!Open(p) \/ UNCHANGED Life!vars
<1>1. TradesKept
  BY BookSame
<1>2. CASE pos[p].status # "none"
  BY <1>1, <1>2, LifeQuiet DEF Opened, StageKept
<1>3. CASE pos[p].status = "none"
  <2>1. \A x \in Pos : pos'[x].status = IF x = p THEN "open" ELSE pos[x].status
    BY <1>3 DEF Opened, TypeOK
  <2>2. p \in Traded("buy")
    BY DEF Traded
  <2> QED BY <1>1, <1>3, <2>1, <2>2, TradedSame DEF Life!Open
<1> QED BY <1>2, <1>3

LEMMA LifeClose ==
    ASSUME TypeOK, NEW p \in Pos, NEW k \in OrdNo, IsOrder(k, "sell", p), NEW o,
           UNCHANGED brokerVars, pos' = Closed(p, o)
    PROVE  Life!Close(p) \/ UNCHANGED Life!vars
<1>1. TradesKept
  BY BookSame
<1>2. CASE ~IsOpen(p)
  BY <1>1, <1>2, LifeQuiet DEF Closed, StageKept
<1>3. CASE IsOpen(p)
  <2>1. \A x \in Pos : pos'[x].status = IF x = p THEN "closed" ELSE pos[x].status
    BY <1>3 DEF Closed, TypeOK, PosType
  <2>2. p \in Traded("sell")
    BY DEF Traded
  <2> QED BY <1>1, <1>3, <2>1, <2>2, TradedSame DEF Life!Close, IsOpen
<1> QED BY <1>2, <1>3

LEMMA LifeVoid ==
    ASSUME TypeOK, NEW p, Known(p), UNCHANGED brokerVars, pos' = Voided(p)
    PROVE  Life!Void(p) \/ UNCHANGED Life!vars
<1>1. TradesKept
  BY BookSame
<1>2. \A x \in Pos : pos'[x].status = IF x = p THEN "void" ELSE pos[x].status
  BY DEF Voided, TypeOK, PosType, Known
<1>3. CASE pos[p].status = "void"
  BY <1>1, <1>2, <1>3, LifeQuiet DEF StageKept
<1>4. CASE pos[p].status # "void"
  <2>1. pos[p].status \in {"open", "closed"}
    BY <1>4 DEF TypeOK, PosType, Stage, Known
  <2> QED BY <1>1, <1>2, <2>1, TradedSame DEF Life!Void, Known
<1> QED BY <1>3, <1>4

-----------------------------------------------------------------------------
(* Every step is a step of PositionLife *)

LEMMA QuietLife == ASSUME StageKept, UNCHANGED brokerVars PROVE UNCHANGED Life!vars
  BY BookSame, LifeQuiet

LEMMA DecisionLife ==
    ASSUME IInv, NEW i \in OrderId, Reject(i) \/ Expire(i)
    PROVE  UNCHANGED Life!vars
<1>1. StageKept
  <2>1. CASE i \in ExitId
    <3>1. row[i].pos \in Pos
      BY <2>1 DEF Reject, Expire, AwaitsDecision, IInv, ExitRowInv, Known
    <3> QED BY <2>1, <3>1, StageSame DEF Reject, Expire, IInv
  <2>2. CASE i \notin ExitId
    BY <2>2 DEF Reject, Expire, StageKept
  <2> QED BY <2>1, <2>2
<1> QED BY <1>1, QuietLife DEF Reject, Expire

(* The steps of a coroutine that send nothing and open or close nothing. *)
LEMMA PlainLife ==
    ASSUME IInv, NEW c \in Coroutine,
           \/ ProposalMarked(c)
           \/ \E x \in ExitId : ProposalInserted(c, x)
           \/ OrderRefused(c) \/ CallFailed(c)
           \/ \E b \in 0 .. Lot : ShortOfMargin(c, b)
    PROVE  UNCHANGED Life!vars
<1>1. UNCHANGED brokerVars
  BY DEF ProposalMarked, ProposalInserted, OrderRefused, CallFailed, ShortOfMargin
<1>2. StageKept
  <2>1. CASE ProposalMarked(c)
    BY <2>1, StageSame DEF ProposalMarked, IInv, CoInv, CoOK, Known
  <2>2. CASE OrderRefused(c) \/ CallFailed(c)
    <3>1. co[c].pos \in Pos
      BY <2>2, SenderPos DEF OrderRefused, CallFailed, IInv
    <3>2. pos' = pos \/ pos' = WithPending(co[c].pos, FALSE)
      BY <2>2 DEF OrderRefused, CallFailed, NotSent, LockDropped
    <3> QED BY <3>1, <3>2, StageSame DEF IInv
  <2>3. CASE \/ \E x \in ExitId : ProposalInserted(c, x)
             \/ \E b \in 0 .. Lot : ShortOfMargin(c, b)
    BY <2>3 DEF ProposalInserted, ShortOfMargin, StageKept
  <2> QED BY <2>1, <2>2, <2>3
<1> QED BY <1>1, <1>2, QuietLife

LEMMA CancelLife ==
    ASSUME IInv, NEW o \in OrdNo, CancelWorking(o) \/ UNCHANGED brokerVars
    PROVE  TradesKept
<1>1. CASE UNCHANGED brokerVars
  BY <1>1, BookSame
<1>2. CASE CancelWorking(o)
  BY <1>2 DEF CancelWorking, TradesKept, IInv, TypeOK, BrokerTypeOK, OrderType
<1> QED BY <1>1, <1>2

LEMMA EntryCancelledLife ==
    ASSUME IInv, NEW c \in Coroutine, EntryCancelled(c)
    PROVE  UNCHANGED Life!vars
<1>1. pos[co[c].pos].ordNo \in OrdNo
  <2>1. Known(co[c].pos) /\ pos[co[c].pos].ordNo # 0
    BY DEF EntryCancelled, IInv, CoInv, CoOK
  <2> QED BY <2>1, Constants DEF IInv, TypeOK, PosType, Known
<1>2. TradesKept
  BY <1>1, CancelLife DEF EntryCancelled
<1> QED BY <1>2, LifeQuiet DEF EntryCancelled, StageKept

LEMMA OrderAcceptedLife ==
    ASSUME IInv, NEW c \in Coroutine, OrderAccepted(c)
    PROVE  \E p \in Pos : Life!Buy(p) \/ Life!Sell(p)
<1>1. /\ co[c].pos \in Pos /\ co[c].qty \in Nat
      /\ Side(c) = "sell" => Known(co[c].pos)
  BY SenderPos DEF OrderAccepted, IInv, TypeOK, CoType, CoInv, CoOK, Side
<1>2. StageKept
  BY DEF OrderAccepted, ledgerVars, StageKept
<1>3. Accept(Side(c), co[c].pos, co[c].qty) /\ Side(c) \in {"buy", "sell"}
  BY SideType DEF OrderAccepted
<1> QED BY <1>1, <1>2, <1>3, LifeBuy, LifeSell

LEMMA OrderAnsweredLife ==
    ASSUME IInv, NEW c \in Coroutine, OrderAnswered(c)
    PROVE  (\E p \in Pos : Life!Open(p) \/ Life!Close(p)) \/ UNCHANGED Life!vars
<1>1. /\ co[c].pos \in Pos /\ co[c].qty \in Nat
      /\ IsOrder(co[c].ord, Side(c), co[c].pos) /\ co[c].ord \in OrdNo
  BY SenderPos DEF OrderAnswered, IInv, TypeOK, CoType, CoInv, CoOK, Side, IsOrder
<1>2. UNCHANGED brokerVars /\ TypeOK
  BY DEF OrderAnswered, IInv
<1>3. CASE co[c].kind = "entry"
  BY <1>1, <1>2, <1>3, LifeOpen DEF OrderAnswered, Side
<1>4. CASE co[c].kind # "entry"
  <2>1. PICK o \in {0, co[c].ord} : pos' = Closed(co[c].pos, o)
    BY <1>4 DEF OrderAnswered
  <2> QED BY <1>1, <1>2, <1>4, <2>1, LifeClose DEF Side
<1> QED BY <1>3, <1>4

LEMMA BalanceReadLife ==
    ASSUME IInv, NEW c \in Coroutine, BalanceRead(c)
    PROVE  (\E p \in Pos : Life!Void(p)) \/ UNCHANGED Life!vars
<1>1. Known(co[c].pos)
  BY DEF BalanceRead, IInv, CoInv, CoOK
<1>2. UNCHANGED brokerVars
  BY DEF BalanceRead
<1>3. CASE pos' = pos
  BY <1>2, <1>3, QuietLife DEF StageKept
<1>4. CASE pos' = Voided(co[c].pos)
  BY <1>1, <1>2, <1>4, LifeVoid DEF IInv, Known
<1> QED BY <1>3, <1>4 DEF BalanceRead

LEMMA FallbackLife ==
    ASSUME IInv, NEW o \in OrdNo, FallbackSteps(o)
    PROVE  (\E p \in Pos : Life!Sell(p)) \/ UNCHANGED Life!vars
<1>1. StageKept
  BY DEF FallbackSteps, FallbackWakes, FallbackCancels, FallbackSettles, FallbackCaps,
         FallbackAccepted, FallbackEnds, ledgerVars, StageKept
<1>2. CASE FallbackAccepted(o)
  <2>1. Known(book[o].pos)
    BY <1>2 DEF FallbackAccepted, IInv, FallbackInv, BookInv
  <2>2. fb[o].rem \in Nat /\ book[o].pos \in Pos
    BY <1>2, <2>1 DEF FallbackAccepted, Accept, IInv, TypeOK, FbType, Known
  <2> QED BY <1>1, <1>2, <2>1, <2>2, LifeSell DEF FallbackAccepted
<1>3. CASE FallbackCancels(o)
  BY <1>1, <1>3, CancelLife, LifeQuiet DEF FallbackCancels
<1>4. CASE FallbackWakes(o) \/ FallbackSettles(o) \/ FallbackCaps(o) \/ FallbackEnds(o)
  BY <1>1, <1>4, QuietLife DEF FallbackWakes, FallbackSettles, FallbackCaps, FallbackEnds
<1> QED BY <1>2, <1>3, <1>4 DEF FallbackSteps

LEMMA NoticeLife ==
    ASSUME IInv, NEW o \in OrdNo, Execute(o) \/ \E n \in 1 .. Lot : RecordFill(o, n)
    PROVE  UNCHANGED Life!vars
<1>1. CASE Execute(o)
  <2>1. TradesKept
    <3> DEFINE n == book[o].filled + 1
               z == Remaining(o) > 1
    <3>1. /\ book' = [book EXCEPT ![o].filled = n, ![o].live = z]
          /\ book \in [OrdNo -> OrderType]
      BY <1>1 DEF Execute, Trade, IInv, TypeOK, BrokerTypeOK
    <3> HIDE DEF n, z
    <3> QED BY <3>1 DEF OrderType, TradesKept
  <2> QED BY <1>1, <2>1, LifeQuiet DEF Execute, ledgerVars, StageKept
<1>2. ASSUME NEW n \in 1 .. Lot, RecordFill(o, n)
      PROVE  UNCHANGED Life!vars
  <2>1. StageKept
    <3> SUFFICES ASSUME NEW p \in Pos PROVE pos'[p].status = pos[p].status
      BY DEF StageKept
    <3>1. pos[p] \in PosType
      BY DEF IInv, TypeOK
    <3>2. \/ pos'[p] = pos[p]
          \/ pos'[p] = [pos[p] EXCEPT !.qty = n, !.conf = TRUE]
      BY <1>2 DEF RecordFill, QtyAfterFill
    <3> QED BY <3>1, <3>2 DEF PosType
  <2> QED BY <1>2, <2>1, QuietLife DEF RecordFill
<1> QED BY <1>1, <1>2

LEMMA ListLife ==
    ASSUME IInv,
           \/ \E p \in Pos : Propose(p) \/ DeskPass(p) \/ LoopExit(p)
           \/ DeskScan \/ LoopFlatten
           \/ \E S \in SUBSET Pos, h \in [Pos -> LoopHow] : LoopScan(S, h)
           \/ \E c \in Watchers, p \in Pos, r \in {"stop", "target"} : Judge(c, p, r)
           \/ \E c \in Users : Request(c)
           \/ Crash
    PROVE  UNCHANGED Life!vars
<1>1. CASE \E c \in Watchers, p \in Pos, r \in {"stop", "target"} : Judge(c, p, r)
  <2>1. StageKept
    BY <1>1, StageSame DEF Judge, IInv
  <2> QED BY <1>1, <2>1, QuietLife DEF Judge
<1>2. CASE \E c \in Users : Request(c)
  BY <1>2, QuietLife DEF Request, ApproveEntry, ManualExit, ManualVoid, ApproveExit,
                         ledgerVars, StageKept
<1>3. CASE \/ \E p \in Pos : Propose(p) \/ DeskPass(p) \/ LoopExit(p)
           \/ DeskScan \/ LoopFlatten
           \/ \E S \in SUBSET Pos, h \in [Pos -> LoopHow] : LoopScan(S, h)
           \/ Crash
  BY <1>3, QuietLife DEF Propose, DeskPass, LoopExit, DeskScan, LoopFlatten, LoopScan, Crash,
                         ledgerVars, StageKept
<1> QED BY <1>1, <1>2, <1>3

LEMMA LifeStep == ASSUME IInv, [Next]_vars PROVE [Life!Next]_(Life!vars)
<1>1. CASE UNCHANGED vars
  BY <1>1, QuietLife DEF vars, brokerVars, StageKept
<1>2. CASE \E p \in Pos : Reap(p)
  <2>1. PICK p \in Pos : Reap(p)
    BY <1>2
  <2> QED BY <2>1, LifeVoid DEF Reap, IsOpen, Known, IInv, Life!Next
<1>3. CASE \E i \in OrderId : Reject(i) \/ Expire(i)
  BY <1>3, DecisionLife
<1>4. CASE \E c \in Coroutine : Continue(c)
  <2>1. PICK c \in Coroutine : Continue(c)
    BY <1>4
  <2>2. CASE BalanceRead(c)
    BY <2>2, BalanceReadLife DEF Life!Next
  <2>3. CASE EntryCancelled(c)
    BY <2>3, EntryCancelledLife
  <2>4. CASE OrderAccepted(c)
    BY <2>4, OrderAcceptedLife DEF Life!Next
  <2>5. CASE OrderAnswered(c)
    BY <2>5, OrderAnsweredLife DEF Life!Next
  <2>6. CASE ~(BalanceRead(c) \/ EntryCancelled(c) \/ OrderAccepted(c) \/ OrderAnswered(c))
    BY <2>1, <2>6, PlainLife DEF Continue, OrderSteps
  <2> QED BY <2>2, <2>3, <2>4, <2>5, <2>6
<1>5. CASE \E o \in OrdNo :
              FallbackSteps(o) \/ Execute(o) \/ (\E n \in 1 .. Lot : RecordFill(o, n))
  BY <1>5, FallbackLife, NoticeLife DEF Life!Next
<1>6. CASE \/ \E p \in Pos : Propose(p) \/ DeskPass(p) \/ LoopExit(p)
           \/ DeskScan \/ LoopFlatten
           \/ \E S \in SUBSET Pos, h \in [Pos -> LoopHow] : LoopScan(S, h)
           \/ \E c \in Watchers, p \in Pos, r \in {"stop", "target"} : Judge(c, p, r)
           \/ \E c \in Users : Request(c)
           \/ Crash
  BY <1>6, ListLife
<1> QED BY <1>1, <1>2, <1>3, <1>4, <1>5, <1>6 DEF Next

LEMMA LifeInit == Init => Life!Init
  BY DEF Init, BrokerInit, NoPosition, NoOrder, Life!Init, Traded, IsOrder

(* The service implements the life of a position: nothing is sold before a *)
(* position is open, no position is opened twice or reopened, and a close  *)
(* has a sell behind it, for every configuration and number of requests.   *)
THEOREM ImplementsLife == Spec => LifeSpec
<1>1. Init => Life!Init
  BY LifeInit
<1>2. IInv /\ [Next]_vars => [Life!Next]_(Life!vars)
  BY LifeStep
<1>3. Spec => Life!Spec
  BY <1>1, <1>2, Inductive, PTL DEF Spec, Life!Spec
<1> QED BY <1>3 DEF LifeSpec
=============================================================================
