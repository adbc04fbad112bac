-------------------------- MODULE OrderSafetyProofs --------------------------
(***************************************************************************)
(* Safety of the exits and of the decisions, on top of the invariant of    *)
(* OrderExecutionProofs.  Two of the theorems hold for the configurations  *)
(* they name only; the runs show what goes wrong in the others.            *)
(***************************************************************************)
EXTENDS OrderExecutionProofs

-----------------------------------------------------------------------------
(* Who moves a coroutine *)

Starts(c) ==
    \/ c \in Users /\ Request(c)
    \/ c \in Watchers /\ \E p \in Pos, r \in {"stop", "target"} : Judge(c, p, r)
    \/ c = "loop" /\ \E p \in Pos : LoopExit(p)

(* A coroutine that changes has started, has got its answer, or was killed. *)
LEMMA CoroutineMoves ==
    ASSUME IInv, [Next]_vars, NEW c \in Coroutine, co'[c] # co[c]
    PROVE  Starts(c) \/ Continue(c) \/ Crash
<1>1. co \in [Coroutine -> CoType]
  BY DEF IInv, TypeOK
<1>2. ASSUME NEW d \in Coroutine, Continue(d), d # c PROVE co'[c] = co[c]
  BY <1>1, <1>2 DEF Continue, ProposalInserted, ProposalMarked, BalanceRead, EntryCancelled,
       OrderSteps, OrderAccepted, OrderRefused, ShortOfMargin, CallFailed, OrderAnswered, NotSent
<1>3. ASSUME NEW d \in Users, Request(d), d # c PROVE co'[c] = co[c]
  BY <1>1, <1>3 DEF Request, ApproveEntry, ManualExit, ManualVoid, ApproveExit
<1>4. ASSUME NEW d \in Watchers, NEW p \in Pos, NEW r, Judge(d, p, r), d # c
      PROVE  co'[c] = co[c]
  BY <1>1, <1>4 DEF Judge
<1>5. ASSUME NEW p \in Pos, LoopExit(p), c # "loop" PROVE co'[c] = co[c]
  BY <1>1, <1>5 DEF LoopExit
<1>6. ASSUME \/ UNCHANGED vars \/ DeskScan \/ LoopFlatten
             \/ \E p \in Pos : Propose(p) \/ DeskPass(p) \/ Reap(p)
             \/ \E i \in OrderId : Reject(i) \/ Expire(i)
             \/ \E S \in SUBSET Pos, h \in [Pos -> LoopHow] : LoopScan(S, h)
             \/ \E o \in OrdNo : \/ FallbackSteps(o) \/ Execute(o)
                                 \/ \E n \in 1 .. Lot : RecordFill(o, n)
      PROVE  co' = co
  BY <1>6 DEF vars, Propose, DeskPass, Reap, Reject, Expire, LoopScan, DeskScan, LoopFlatten,
       FallbackSteps, FallbackWakes, FallbackCancels, FallbackSettles, FallbackCaps,
       FallbackAccepted, FallbackEnds, Execute, RecordFill, memVars
<1> QED BY <1>2, <1>3, <1>4, <1>5, <1>6 DEF Next, Starts

(* Only an idle coroutine starts. *)
LEMMA StartsIdle ==
    ASSUME NEW c \in Coroutine, Starts(c)
    PROVE  co[c].kind = "idle"
  BY DEF Starts, Request, ApproveEntry, ManualExit, ManualVoid, ApproveExit, Judge, LoopExit

-----------------------------------------------------------------------------
(* Quantities: the firm's book, the notices recorded and the ledger *)

FillInv ==
    \A o \in OrdNo :
        /\ seen[o] <= book[o].filled
        /\ book[o].filled <= book[o].qty
        /\ book[o].live => book[o].filled < book[o].qty

(* The answer to an entry brings the quantity of the order at the firm. *)
EntryAnswered(c) == co[c].kind = "entry" /\ co[c].pc = "accepted"

EntryInv ==
    \A c \in Coroutine : EntryAnswered(c) => book[co[c].ord].qty = co[c].qty

ConfInv ==
    \A p \in Pos : IsOpen(p) =>
        /\ pos[p].ordNo \in OrdNo
        /\ pos[p].qty >= seen[pos[p].ordNo]
        /\ pos[p].conf => pos[p].qty = seen[pos[p].ordNo]

QtyInv == FillInv /\ EntryInv /\ ConfInv

(* What a step does to the firm's book. *)
LEMMA BrokerMoves ==
    ASSUME IInv, [Next]_vars
    PROVE  \/ UNCHANGED brokerVars
           \/ \E side, p : \E q \in Nat : Accept(side, p, q)
           \/ \E o \in OrdNo : CancelWorking(o) \/ Trade(o)
<1>1. ASSUME NEW c \in Coroutine, Continue(c)
      PROVE  UNCHANGED brokerVars \/ OrderAccepted(c) \/ EntryCancelled(c)
  BY <1>1 DEF Continue, ProposalInserted, ProposalMarked, BalanceRead, OrderSteps, OrderRefused,
       ShortOfMargin, CallFailed, OrderAnswered
<1>2. ASSUME NEW c \in Coroutine, OrderAccepted(c)
      PROVE  \E side, p : \E q \in Nat : Accept(side, p, q)
  BY <1>2 DEF OrderAccepted, IInv, TypeOK, CoType
<1>3. ASSUME NEW c \in Coroutine, EntryCancelled(c)
      PROVE  UNCHANGED brokerVars \/ \E o \in OrdNo : CancelWorking(o)
  <2>1. pos[co[c].pos].ordNo \in OrdNo
    <3>1. Known(co[c].pos) /\ pos[co[c].pos].ordNo # 0
      BY <1>3 DEF EntryCancelled, IInv, CoInv, CoOK
    <3> QED BY <3>1, Constants DEF IInv, TypeOK, PosType, Known
  <2> QED BY <1>3, <2>1 DEF EntryCancelled
<1>4. ASSUME NEW o \in OrdNo, FallbackSteps(o) \/ Execute(o)
      PROVE  \/ UNCHANGED brokerVars
             \/ \E side, p : \E q \in Nat : Accept(side, p, q)
             \/ \E k \in OrdNo : CancelWorking(k) \/ Trade(k)
  <2>1. CASE FallbackAccepted(o)
    <3>1. fb[o].rem \in Int /\ Accept("sell", book[o].pos, fb[o].rem)
      BY <2>1 DEF FallbackAccepted, IInv, TypeOK, FbType
    <3>2. fb[o].rem \in Nat
      BY <3>1 DEF Accept
    <3> QED BY <3>1, <3>2
  <2>2. CASE ~FallbackAccepted(o)
    BY <1>4, <2>2 DEF FallbackSteps, FallbackWakes, FallbackCancels, FallbackSettles, FallbackCaps,
         FallbackEnds, Execute
  <2> QED BY <2>1, <2>2
<1>5. ASSUME \/ UNCHANGED vars \/ DeskScan \/ LoopFlatten \/ Crash
             \/ \E p \in Pos : Propose(p) \/ DeskPass(p) \/ LoopExit(p) \/ Reap(p)
             \/ \E i \in OrderId : Reject(i) \/ Expire(i)
             \/ \E S \in SUBSET Pos, h \in [Pos -> LoopHow] : LoopScan(S, h)
             \/ \E c \in Watchers, p \in Pos, r \in {"stop", "target"} : Judge(c, p, r)
             \/ \E c \in Users : Request(c)
             \/ \E o \in OrdNo, n \in 1 .. Lot : RecordFill(o, n)
      PROVE  UNCHANGED brokerVars
  BY <1>5 DEF vars, brokerVars, Propose, DeskPass, LoopExit, Reap, Reject, Expire, Judge, LoopScan,
       DeskScan, LoopFlatten, Request, ApproveEntry, ManualExit, ManualVoid, ApproveExit,
       RecordFill, Crash
<1> QED BY <1>1, <1>2, <1>3, <1>4, <1>5 DEF Next

(* A step that records no notice leaves seen alone. *)
LEMMA SeenKept ==
    ASSUME [Next]_vars, ~\E o \in OrdNo, n \in 1 .. Lot : RecordFill(o, n)
    PROVE  seen' = seen
  BY DEF Next, vars, Propose, DeskPass, LoopExit, Reap, Reject, Expire, Judge, LoopScan, DeskScan,
         LoopFlatten, Request, ApproveEntry, ManualExit, ManualVoid, ApproveExit, Continue,
         ProposalInserted, ProposalMarked, BalanceRead, EntryCancelled, OrderSteps,
         OrderAccepted, OrderRefused, ShortOfMargin, CallFailed, OrderAnswered, FallbackSteps,
         FallbackWakes, FallbackCancels, FallbackSettles, FallbackCaps, FallbackAccepted,
         FallbackEnds, Execute, Crash, ledgerVars

(* No order fills beyond its quantity, no notice says more than was filled, *)
(* and an order that was taken keeps its quantity.                         *)
LEMMA FillStep ==
    ASSUME IInv, FillInv, [Next]_vars
    PROVE  /\ FillInv'
           /\ \A o \in OrdNo : book[o].side # "none" => book'[o].qty = book[o].qty
<1>1. /\ book \in [OrdNo -> OrderType] /\ seen \in [OrdNo -> Nat] /\ BookInv
      /\ OrdNo \subseteq Nat
  BY Constants DEF IInv, TypeOK, BrokerTypeOK
<1>2. ASSUME NEW k \in OrdNo, NEW n \in 1 .. Lot, RecordFill(k, n)
      PROVE  FillInv' /\ book' = book
  <2>1. /\ seen' = [seen EXCEPT ![k] = n] /\ n <= book[k].filled /\ book' = book
    BY <1>2 DEF RecordFill, brokerVars
  <2> QED BY <1>1, <2>1 DEF FillInv
<1>3. CASE ~\E k \in OrdNo, n \in 1 .. Lot : RecordFill(k, n)
  <2>1. seen' = seen
    BY <1>3, SeenKept
  <2>2. CASE UNCHANGED brokerVars
    BY <2>1, <2>2 DEF brokerVars, FillInv
  <2>3. ASSUME NEW side, NEW p, NEW q \in Nat, Accept(side, p, q)
        PROVE  /\ FillInv'
               /\ \A o \in OrdNo : book[o].side # "none" => book'[o] = book[o]
    <3> DEFINE r == [side |-> side, pos |-> p, qty |-> q, filled |-> 0, live |-> TRUE]
    <3>1. nextNo \in OrdNo /\ q > 0 /\ book' = [book EXCEPT ![nextNo] = r]
      BY <2>3 DEF Accept
    <3>2. book[nextNo] = NoOrder
      BY <1>1, <3>1 DEF BookInv
    <3>3. book[nextNo].filled = 0 /\ book[nextNo].side = "none" /\ seen[nextNo] = 0
      <4>1. book[nextNo].filled = 0 /\ book[nextNo].side = "none"
        BY <3>2 DEF NoOrder
      <4>2. seen[nextNo] \in Nat /\ seen[nextNo] <= book[nextNo].filled
        BY <1>1, <3>1 DEF FillInv
      <4> QED BY <4>1, <4>2
    <3>4. \A o \in OrdNo : o # nextNo => book'[o] = book[o]
      BY <1>1, <3>1
    <3>5. book'[nextNo].filled = 0 /\ book'[nextNo].qty = q
      BY <1>1, <3>1
    <3> HIDE DEF r
    <3> QED BY <1>1, <2>1, <3>1, <3>3, <3>4, <3>5 DEF FillInv
  <2>4. ASSUME NEW k \in OrdNo, CancelWorking(k)
        PROVE  FillInv' /\ \A o \in OrdNo : book'[o].qty = book[o].qty
    <3>1. book' = [book EXCEPT ![k].live = FALSE]
      BY <2>4 DEF CancelWorking
    <3>2. \A o \in OrdNo : /\ book'[o].filled = book[o].filled /\ book'[o].qty = book[o].qty
                           /\ book'[o].live => book[o].live
      BY <1>1, <3>1 DEF OrderType
    <3> QED BY <2>1, <3>2 DEF FillInv
  <2>5. ASSUME NEW k \in OrdNo, Trade(k)
        PROVE  FillInv' /\ \A o \in OrdNo : book'[o].qty = book[o].qty
    <3> DEFINE n == book[k].filled + 1
               z == book[k].qty - book[k].filled > 1
    <3>1. book' = [book EXCEPT ![k].filled = n, ![k].live = z] /\ book[k].live
      BY <2>5 DEF Trade, Remaining
    <3>2. /\ \A o \in OrdNo : book'[o].qty = book[o].qty
          /\ \A o \in OrdNo : o # k => book'[o] = book[o]
          /\ book'[k].filled = n /\ book'[k].live = z
      <4> HIDE DEF n, z
      <4> QED BY <1>1, <3>1 DEF OrderType
    <3>3. book[k].filled \in Nat /\ book[k].qty \in Nat /\ book[k].filled < book[k].qty
      BY <1>1, <3>1 DEF OrderType, FillInv
    <3>4. n <= book[k].qty /\ seen[k] <= n /\ (z => n < book[k].qty)
      BY <1>1, <3>3 DEF FillInv
    <3> HIDE DEF n, z
    <3> QED BY <2>1, <3>2, <3>4 DEF FillInv
  <2> QED BY <2>2, <2>3, <2>4, <2>5, BrokerMoves DEF brokerVars
<1> QED BY <1>2, <1>3

(* An entry that was taken waits with the quantity of its order. *)
LEMMA EntryStep ==
    ASSUME IInv, IInv', FillInv, EntryInv, [Next]_vars
    PROVE  EntryInv'
<1> SUFFICES ASSUME NEW c \in Coroutine, co'[c].kind = "entry", co'[c].pc = "accepted"
             PROVE  book'[co'[c].ord].qty = co'[c].qty
  BY DEF EntryInv, EntryAnswered
<1>1. co \in [Coroutine -> CoType] /\ book \in [OrdNo -> OrderType]
  BY DEF IInv, TypeOK, BrokerTypeOK
<1>2. CASE co'[c] = co[c]
  <2>1. IsOrder(co[c].ord, "buy", co[c].pos)
    BY <1>2 DEF IInv, CoInv, CoOK
  <2> QED BY <1>2, <2>1, FillStep DEF EntryInv, EntryAnswered, IsOrder
<1>3. CASE co'[c] # co[c]
  <2>1. ASSUME Starts(c) PROVE FALSE
    <3>1. ASSUME NEW p, NEW q, NEW b, co'[c] = ExitStart(p, q, b) \/ co'[c] = ProposalStart(p, q)
          PROVE  co'[c].kind # "entry"
      BY <3>1 DEF ExitStart, ProposalStart, Idle
    <3>2. ASSUME NEW w, NEW p \in Pos, NEW r, Judge(w, p, r), w = c
          PROVE  co'[c] = ExitStart(p, snap[c][p], FALSE) \/ co'[c] = ProposalStart(p, snap[c][p])
      BY <1>1, <3>2 DEF Judge
    <3>3. ASSUME NEW p \in Pos, LoopExit(p), c = "loop"
          PROVE  \/ co'[c] = ExitStart(p, snap["loop"][p], FALSE)
                 \/ co'[c] = ProposalStart(p, snap["loop"][p])
      BY <1>1, <3>3 DEF LoopExit
    <3>4. ASSUME Request(c) PROVE co'[c].pc # "accepted" \/ co'[c].kind # "entry"
      <4>1. ASSUME NEW x \in ExitId, ApproveExit(c, x) PROVE co'[c].kind = "approval"
        <5> DEFINE q == IF IsOpen(row[x].pos) THEN Reread(row[x].qty, row[x].pos)
                        ELSE row[x].qty
                   pc == IF IsOpen(row[x].pos) /\ MustCancelEntry(row[x].pos)
                         THEN "cancel" ELSE "send"
        <5>1. co' = [co EXCEPT ![c] = [Idle EXCEPT !.kind = "approval", !.pos = row[x].pos,
                                                   !.row = x, !.qty = q, !.pc = pc]]
          BY <4>1 DEF ApproveExit
        <5> HIDE DEF q, pc
        <5> QED BY <1>1, <5>1 DEF Idle
      <4> QED BY <1>1, <3>4, <4>1 DEF Request, ApproveEntry, ManualExit, ManualVoid, Idle
    <3> QED BY <2>1, <3>1, <3>2, <3>3, <3>4 DEF Starts
  <2>2. ~Crash
    BY DEF Crash, Idle
  <2>3. Continue(c)
    BY <1>3, <2>1, <2>2, CoroutineMoves
  <2>4. OrderAccepted(c)
    <3>1. ~OrderRefused(c) /\ ~CallFailed(c)
      <4>1. ASSUME OrderRefused(c) \/ CallFailed(c) PROVE FALSE
        <5>1. co[c].pc = "send" \/ co[c].pc = "accepted"
          BY <4>1 DEF OrderRefused, CallFailed
        <5>2. co'[c] = Idle \/ (OrderRefused(c) /\ co'[c] = [co[c] EXCEPT !.best = FALSE])
          BY <1>1, <4>1 DEF OrderRefused, CallFailed, NotSent
        <5>3. OrderRefused(c) => co[c].pc = "send"
          BY DEF OrderRefused
        <5> QED BY <1>1, <5>2, <5>3 DEF Idle, CoType
      <4> QED BY <4>1
    <3>2. ~OrderAnswered(c) /\ ~ProposalMarked(c)
      <4>1. ASSUME OrderAnswered(c) \/ ProposalMarked(c) PROVE co'[c] = Idle
        BY <1>1, <4>1 DEF OrderAnswered, ProposalMarked
      <4> QED BY <4>1 DEF Idle
    <3>3. ~\E x \in ExitId : ProposalInserted(c, x)
      BY <1>1 DEF ProposalInserted, CoType
    <3>4. ~EntryCancelled(c)
      BY <1>1 DEF EntryCancelled, CoType
    <3>5. ASSUME BalanceRead(c) PROVE FALSE
      <4>1. co'[c] = Idle \/ co'[c] = ExitStart(co[c].pos, co[c].qty, TRUE)
        BY <1>1, <3>5 DEF BalanceRead
      <4>2. ASSUME NEW p, NEW q, NEW b PROVE ExitStart(p, q, b).kind = "exit"
        BY DEF ExitStart, Idle
      <4>3. Idle.kind = "idle"
        BY DEF Idle
      <4> QED BY <4>1, <4>2, <4>3
    <3>6. ASSUME NEW b \in 0 .. Lot, ShortOfMargin(c, b) PROVE FALSE
      <4> DEFINE q == IF 0 < b /\ b < co[c].qty THEN b ELSE co[c].qty
                 t == co[c].tries + 1
      <4>1. co' = [co EXCEPT ![c].qty = q, ![c].tries = t] \/ co' = [co EXCEPT ![c] = Idle]
        BY <3>6 DEF ShortOfMargin
      <4>2. co[c].pc = "send"
        BY <3>6 DEF ShortOfMargin
      <4> HIDE DEF q, t
      <4> QED BY <1>1, <4>1, <4>2 DEF CoType, Idle
    <3> QED BY <2>3, <3>1, <3>2, <3>3, <3>4, <3>5, <3>6 DEF Continue, OrderSteps
  <2>5. /\ co'[c].ord = nextNo /\ co'[c].qty = co[c].qty
        /\ nextNo \in OrdNo /\ book'[nextNo].qty = co[c].qty
    BY <1>1, <2>4 DEF OrderAccepted, Accept, CoType
  <2> QED BY <2>5
<1> QED BY <1>2, <1>3

(* Which fields of an open row a step writes, when no notice is recorded.  *)
RowSame(p) ==
    /\ pos[p].status = "open" /\ pos'[p].conf = pos[p].conf
    /\ pos'[p].ordNo = pos[p].ordNo /\ pos'[p].qty = pos[p].qty

OpenedWith(p, q, o) == ~pos'[p].conf /\ pos'[p].ordNo = o /\ pos'[p].qty = q

LEMMA LedgerSame ==
    ASSUME TypeOK, NEW p \in Pos, NEW v, NEW o,
           \/ pos' = pos \/ pos' = WithPending(p, v) \/ pos' = Closed(p, o) \/ pos' = Voided(p)
    PROVE  \A x \in Pos : pos'[x].status = "open" => RowSame(x)
<1>1. CASE pos' = pos \/ pos' = WithPending(p, v)
  <2>1. pos \in [Pos -> PosType]
    BY DEF TypeOK
  <2>2. ASSUME NEW x \in Pos
        PROVE  /\ pos'[x].status = pos[x].status /\ pos'[x].conf = pos[x].conf
               /\ pos'[x].ordNo = pos[x].ordNo /\ pos'[x].qty = pos[x].qty
    <3>1. CASE pos' = pos
      BY <3>1
    <3>2. CASE pos' = [pos EXCEPT ![p].pending = v]
      BY <2>1, <3>2 DEF PosType
    <3> QED BY <1>1, <3>1, <3>2 DEF WithPending
  <2> QED BY <2>2 DEF RowSame
<1>2. CASE pos' = Closed(p, o)
  BY <1>2 DEF TypeOK, PosType, Closed, RowSame
<1>3. CASE pos' = Voided(p)
  BY <1>3 DEF TypeOK, PosType, Voided, RowSame
<1> QED BY <1>1, <1>2, <1>3

LEMMA LedgerOpened ==
    ASSUME TypeOK, NEW p \in Pos, NEW q, NEW o, pos' = Opened(p, q, o)
    PROVE  \A x \in Pos : pos'[x].status = "open" => RowSame(x) \/ OpenedWith(x, q, o)
  BY DEF TypeOK, PosType, Opened, RowSame, OpenedWith

LEMMA RowsStep ==
    ASSUME IInv, [Next]_vars, ~\E o \in OrdNo, n \in 1 .. Lot : RecordFill(o, n),
           NEW x \in Pos, pos'[x].status = "open"
    PROVE  \/ RowSame(x)
           \/ \E c \in Coroutine : EntryAnswered(c) /\ OpenedWith(x, co[c].qty, co[c].ord)
<1>1. CASE pos' = pos
  BY <1>1 DEF RowSame
<1>2. ASSUME NEW p \in Pos, Reap(p) PROVE RowSame(x)
  BY <1>2, LedgerSame DEF Reap, IInv
<1>3. ASSUME NEW i \in OrderId, Reject(i) \/ Expire(i), pos' # pos PROVE RowSame(x)
  <2>1. i \in ExitId /\ pos' = WithPending(row[i].pos, FALSE)
    BY <1>3 DEF Reject, Expire
  <2>2. row[i].pos \in Pos
    BY <1>3, <2>1 DEF Reject, Expire, AwaitsDecision, IInv, ExitRowInv, Known
  <2> QED BY <2>1, <2>2, LedgerSame DEF IInv
<1>4. ASSUME NEW c \in Watchers, NEW p \in Pos, NEW r, Judge(c, p, r) PROVE RowSame(x)
  BY <1>4, LedgerSame DEF Judge, IInv
<1>5. ASSUME NEW c \in Coroutine, Continue(c), pos' # pos
      PROVE  RowSame(x) \/ (EntryAnswered(c) /\ OpenedWith(x, co[c].qty, co[c].ord))
  <2>1. co[c].pos \in Pos
    BY <1>5, SenderPos DEF Continue, ProposalInserted, ProposalMarked, BalanceRead, EntryCancelled,
         OrderSteps, OrderAccepted, OrderRefused, ShortOfMargin, CallFailed, OrderAnswered,
         IInv, CoInv, CoOK, Known, ledgerVars
  <2>2. \/ pos' = WithPending(co[c].pos, TRUE) \/ pos' = WithPending(co[c].pos, FALSE)
        \/ EntryAnswered(c) /\ pos' = Opened(co[c].pos, co[c].qty, co[c].ord)
        \/ pos' = Closed(co[c].pos, 0) \/ pos' = Closed(co[c].pos, co[c].ord)
        \/ pos' = Voided(co[c].pos)
    BY <1>5 DEF Continue, ProposalInserted, ProposalMarked, BalanceRead, EntryCancelled,
         OrderSteps, OrderAccepted, OrderRefused, ShortOfMargin, CallFailed, OrderAnswered,
         NotSent, LockDropped, ledgerVars, EntryAnswered
  <2>3. CASE EntryAnswered(c) /\ pos' = Opened(co[c].pos, co[c].qty, co[c].ord)
    BY <2>1, <2>3, LedgerOpened DEF IInv
  <2> QED BY <2>1, <2>2, <2>3, LedgerSame DEF IInv
<1>6. CASE UNCHANGED vars \/ Crash \/ DeskScan \/ LoopFlatten
           \/ (\E p \in Pos : Propose(p) \/ DeskPass(p) \/ LoopExit(p))
           \/ (\E S \in SUBSET Pos, h \in [Pos -> LoopHow] : LoopScan(S, h))
           \/ (\E c \in Users : Request(c))
           \/ (\E o \in OrdNo : FallbackSteps(o) \/ Execute(o))
  <2>1. pos' = pos
    BY <1>6 DEF vars, Propose, DeskPass, LoopExit, LoopScan, DeskScan, LoopFlatten, Request,
         ApproveEntry, ManualExit, ManualVoid, ApproveExit, FallbackSteps, FallbackWakes,
         FallbackCancels, FallbackSettles, FallbackCaps, FallbackAccepted, FallbackEnds,
         Execute, Crash, ledgerVars
  <2> QED BY <1>1, <2>1
<1> QED BY <1>1, <1>2, <1>3, <1>4, <1>5, <1>6 DEF Next

LEMMA RecordFillConf ==
    ASSUME IInv, ConfInv, NEW o \in OrdNo, NEW n \in 1 .. Lot, RecordFill(o, n)
    PROVE  ConfInv'
<1> SUFFICES ASSUME NEW p \in Pos, pos'[p].status = "open"
             PROVE  /\ pos'[p].ordNo \in OrdNo
                    /\ pos'[p].qty >= seen'[pos'[p].ordNo]
                    /\ pos'[p].conf => pos'[p].qty = seen'[pos'[p].ordNo]
  BY DEF ConfInv, IsOpen
<1>1. pos[p] \in PosType /\ seen \in [OrdNo -> Nat]
  BY DEF IInv, TypeOK
<1>2. seen' = [seen EXCEPT ![o] = n] /\ n \in Int
  <2>1. seen' = [seen EXCEPT ![o] = n]
    BY Zenon DEF RecordFill
  <2>2. n \in Int
    BY Constants
  <2> QED BY <2>1, <2>2
<1>3. CASE IsOpen(p) /\ pos[p].ordNo = o
  <2>1. pos'[p] = [pos[p] EXCEPT !.qty = n, !.conf = TRUE]
    BY <1>3 DEF RecordFill, QtyAfterFill
  <2> QED BY <1>1, <1>2, <1>3, <2>1 DEF PosType
<1>4. CASE ~(IsOpen(p) /\ pos[p].ordNo = o)
  <2>1. pos'[p] = pos[p]
    BY <1>4 DEF RecordFill
  <2> QED BY <1>1, <1>2, <1>4, <2>1 DEF ConfInv, IsOpen
<1> QED BY <1>3, <1>4

LEMMA QtyStep == ASSUME IInv, IInv', QtyInv, [Next]_vars PROVE QtyInv'
<1>1. FillInv' /\ EntryInv'
  BY FillStep, EntryStep DEF QtyInv
<1>2. CASE \E o \in OrdNo, n \in 1 .. Lot : RecordFill(o, n)
  BY <1>1, <1>2, RecordFillConf DEF QtyInv
<1>3. CASE ~\E o \in OrdNo, n \in 1 .. Lot : RecordFill(o, n)
  <2> SUFFICES ASSUME NEW p \in Pos, pos'[p].status = "open"
               PROVE  /\ pos'[p].ordNo \in OrdNo
                      /\ pos'[p].qty >= seen'[pos'[p].ordNo]
                      /\ pos'[p].conf => pos'[p].qty = seen'[pos'[p].ordNo]
    BY <1>1 DEF QtyInv, ConfInv, IsOpen
  <2>1. seen' = seen
    BY <1>3, SeenKept
  <2>2. CASE RowSame(p)
    BY <2>1, <2>2 DEF RowSame, QtyInv, ConfInv, IsOpen
  <2>3. ASSUME NEW c \in Coroutine, EntryAnswered(c), OpenedWith(p, co[c].qty, co[c].ord)
        PROVE  pos'[p].ordNo \in OrdNo /\ pos'[p].qty >= seen[pos'[p].ordNo] /\ ~pos'[p].conf
    <3>1. co[c].ord \in OrdNo
      BY <2>3 DEF EntryAnswered, IInv, CoInv, CoOK, IsOrder
    <3>2. co[c].qty = book[co[c].ord].qty
      BY <2>3 DEF QtyInv, EntryInv
    <3>3. /\ seen[co[c].ord] \in Nat /\ book[co[c].ord].filled \in Nat
          /\ book[co[c].ord].qty \in Nat
      BY <3>1 DEF IInv, TypeOK, BrokerTypeOK, OrderType
    <3> QED BY <2>3, <3>1, <3>2, <3>3 DEF OpenedWith, QtyInv, FillInv
  <2> QED BY <1>3, <2>1, <2>2, <2>3, RowsStep
<1> QED BY <1>2, <1>3

LEMMA QtyInit == Init => QtyInv
<1> SUFFICES ASSUME Init PROVE QtyInv
  OBVIOUS
<1>1. FillInv
  BY DEF Init, BrokerInit, FillInv, NoOrder
<1>2. EntryInv
  BY DEF Init, EntryInv, EntryAnswered, Idle
<1>3. ConfInv
  BY DEF Init, ConfInv, IsOpen, NoPosition
<1> QED BY <1>1, <1>2, <1>3 DEF QtyInv

(* Whatever the order in which notices, answers, exits and kills come, an  *)
(* open position covers every execution recorded of its entry order, and a *)
(* confirmed one has exactly the last cumulative quantity (record_fill).   *)
THEOREM ConfirmedQty == Spec => []ConfirmedQtyIsSeen
<1>1. IInv /\ IInv' /\ QtyInv /\ [Next]_vars => QtyInv'
  BY QtyStep
<1>2. QtyInv => ConfirmedQtyIsSeen
  BY DEF QtyInv, ConfInv, ConfirmedQtyIsSeen
<1> QED BY QtyInit, <1>1, <1>2, Inductive, PTL DEF Spec

LEMMA WholeEntryStep ==
    ASSUME IInv, QtyInv, [Next]_vars, NEW c \in Coroutine,
           co[c].pc = "cancel", co'[c].pc = "send", IsOpen(co[c].pos),
           seen[pos[co[c].pos].ordNo] = book[pos[co[c].pos].ordNo].filled
    PROVE  co'[c].qty >= book[pos[co[c].pos].ordNo].filled
<1>1. co[c].kind # "idle" /\ co[c].kind # "propose" /\ co \in [Coroutine -> CoType]
  BY DEF IInv, TypeOK, CoInv, CoOK
<1>2. ~Crash
  BY DEF Crash, Idle
<1>3. Continue(c)
  BY <1>1, <1>2, CoroutineMoves, StartsIdle
<1>4. EntryCancelled(c)
  BY <1>3 DEF Continue, ProposalInserted, ProposalMarked, BalanceRead, OrderSteps,
       OrderAccepted, OrderRefused, ShortOfMargin, CallFailed, OrderAnswered
<1>5. co'[c].qty = Reread(co[c].qty, co[c].pos)
  <2> DEFINE q == Reread(co[c].qty, co[c].pos)
  <2>1. co' = [co EXCEPT ![c].pc = "send", ![c].qty = q]
    BY <1>4 DEF EntryCancelled
  <2> HIDE DEF q
  <2>2. co'[c].qty = q
    BY <1>1, <2>1 DEF CoType
  <2> QED BY <2>2 DEF q
<1>6. co[c].pos \in Pos /\ co[c].qty \in Nat /\ pos[co[c].pos].qty \in Nat
  BY <1>4 DEF EntryCancelled, IInv, TypeOK, CoType, CoInv, CoOK, Known, PosType
<1>7. /\ pos[co[c].pos].ordNo \in OrdNo
      /\ pos[co[c].pos].qty >= seen[pos[co[c].pos].ordNo]
  BY <1>6 DEF QtyInv, ConfInv
<1>8. seen[pos[co[c].pos].ordNo] \in Nat
  BY <1>7 DEF IInv, TypeOK
<1> QED BY <1>5, <1>6, <1>7, <1>8 DEF Reread, Larger

(* An exit that waited for the entry order to be ended sells every share   *)
(* the entry bought, provided the notices have come, with any number of    *)
(* partial fills and callers and whichever notices overtook the answer     *)
(* (_cancel_entry_remainder).                                              *)
THEOREM ExitSellsAll == Spec => ExitSellsWholeEntry
<1>1. IInv /\ IInv' /\ QtyInv /\ [Next]_vars => QtyInv'
  BY QtyStep
<1>2. IInv /\ QtyInv /\ [Next]_vars =>
         [\A c \in Coroutine :
             LET p == co[c].pos
                 o == pos[p].ordNo
             IN  co[c].pc = "cancel" /\ co'[c].pc = "send" /\ IsOpen(p)
                   /\ seen[o] = book[o].filled
                   => co'[c].qty >= book[o].filled]_vars
  BY WholeEntryStep
<1> QED BY QtyInit, <1>1, <1>2, Inductive, PTL DEF Spec, ExitSellsWholeEntry

-----------------------------------------------------------------------------
(* The claim, when every exit is automatic and the desk runs *)

AllAuto == AutoApprove /\ DeskEnabled

ClaimInv ==
    /\ \A x \in ExitId : row[x].status = "none"
    /\ \A c \in Coroutine : co[c].kind \notin {"approval", "propose"}
    /\ \A p \in Pos : how[p] = "auto"
    /\ \A w \in Watchers :
          /\ co[w].kind \in {"idle", "exit"}
          /\ co[w].kind = "exit" => ~Unclaimed(co[w].pos)
    /\ ClaimIsExclusive

(* A position becomes claimable again only through the watcher that sells it. *)
LEMMA ClaimDropped ==
    ASSUME IInv, ClaimInv, [Next]_vars, NEW p, Known(p), ~Unclaimed(p), Unclaimed(p)'
    PROVE  \E w \in Watchers : co[w].kind = "exit" /\ co[w].pos = p /\ co'[w] = Idle
<1>1. pos \in [Pos -> PosType] /\ p \in Pos /\ pos[p].status # "none"
  BY DEF IInv, TypeOK, Known
<1>2. ~(pos'[p].status = pos[p].status /\ pos'[p].pending = pos[p].pending)
  BY DEF Unclaimed, IsOpen
<1>3. ASSUME NEW w \in Coroutine, OrderRefused(w) \/ CallFailed(w)
      PROVE  w \in Watchers /\ co[w].kind = "exit" /\ co[w].pos = p /\ co'[w] = Idle
  <2>1. NotSent(w, "rejected") \/ NotSent(w, "pending") \/ NotSent(w, "error")
    BY <1>2, <1>3, CallOutcome
  <2>2. pos' = LockDropped(w) /\ co'[w] = Idle
    BY <2>1 DEF NotSent, IInv, TypeOK
  <2>3. co[w].kind # "approval" /\ co[w].kind # "idle"
    BY <1>3 DEF ClaimInv, OrderRefused, CallFailed, IInv, CoInv, CoOK
  <2>4. w \in Watchers /\ pos' = WithPending(co[w].pos, FALSE)
    BY <1>2, <2>2, <2>3 DEF LockDropped
  <2>5. co[w].pos = p
    BY <1>1, <1>2, <2>4 DEF WithPending, PosType
  <2> QED BY <2>2, <2>3, <2>4, <2>5 DEF ClaimInv
<1>4. ASSUME NEW w \in Coroutine, ProposalMarked(w) \/ \E x \in ExitId : ProposalInserted(w, x)
      PROVE  FALSE
  BY <1>4 DEF ClaimInv, ProposalMarked, ProposalInserted, IInv, CoInv, CoOK
<1>5. ASSUME NEW w \in Coroutine, BalanceRead(w) PROVE FALSE
  BY <1>1, <1>2, <1>5 DEF BalanceRead, Voided, Unclaimed, IsOpen, PosType
<1>6. ASSUME NEW w \in Coroutine, OrderAnswered(w) PROVE FALSE
  BY <1>1, <1>2, <1>6 DEF OrderAnswered, Opened, Closed, Unclaimed, IsOpen, PosType
<1>7. ASSUME NEW i \in OrderId, Reject(i) \/ Expire(i) PROVE FALSE
  <2>1. i \notin ExitId
    BY <1>7 DEF Reject, Expire, AwaitsDecision, ClaimInv
  <2> QED BY <1>2, <1>7, <2>1 DEF Reject, Expire
<1>8. ASSUME NEW q \in Pos, Reap(q) PROVE FALSE
  BY <1>1, <1>2, <1>8 DEF Reap, Voided, Unclaimed, IsOpen, PosType
<1>9. ASSUME NEW w \in Watchers, NEW q \in Pos, NEW r, Judge(w, q, r) PROVE FALSE
  BY <1>1, <1>2, <1>9 DEF Judge, WithPending, Unclaimed, IsOpen, PosType
<1>10. ASSUME NEW o \in OrdNo, NEW n \in 1 .. Lot, RecordFill(o, n) PROVE FALSE
  <2>1. pos'[p] = pos[p] \/ pos'[p] = [pos[p] EXCEPT !.qty = n, !.conf = TRUE]
    BY <1>1, <1>10 DEF RecordFill, QtyAfterFill
  <2> QED BY <1>1, <1>2, <2>1 DEF PosType
<1>11. pos' # pos
  BY <1>2
<1>12. ASSUME \/ UNCHANGED vars \/ Crash \/ DeskScan \/ LoopFlatten
              \/ \E q \in Pos : Propose(q) \/ DeskPass(q) \/ LoopExit(q)
              \/ \E S \in SUBSET Pos, h \in [Pos -> LoopHow] : LoopScan(S, h)
              \/ \E c \in Users : Request(c)
              \/ \E o \in OrdNo : FallbackSteps(o) \/ Execute(o)
       PROVE  FALSE
  BY <1>11, <1>12 DEF vars, Propose, DeskPass, LoopExit, LoopScan, DeskScan, LoopFlatten, Request,
       ApproveEntry, ManualExit, ManualVoid, ApproveExit, FallbackSteps, FallbackWakes,
       FallbackCancels, FallbackSettles, FallbackCaps, FallbackAccepted, FallbackEnds,
       Execute, Crash, ledgerVars
<1>13. ASSUME NEW c \in Coroutine, EntryCancelled(c) \/ OrderAccepted(c)
                                     \/ \E b \in 0 .. Lot : ShortOfMargin(c, b)
       PROVE  FALSE
  BY <1>11, <1>13 DEF EntryCancelled, OrderAccepted, ShortOfMargin, ledgerVars
<1> QED BY <1>3, <1>4, <1>5, <1>6, <1>7, <1>8, <1>9, <1>10, <1>12, <1>13
        DEF Next, Continue, OrderSteps

(* What a step may make of a coroutine when no exit waits for approval. *)
LEMMA AllAutoKinds ==
    ASSUME IInv, ClaimInv, AllAuto, [Next]_vars, NEW c \in Coroutine, co'[c] # co[c]
    PROVE  \/ co'[c] = Idle
           \/ co[c].kind # "idle" /\ co'[c].kind = co[c].kind /\ co'[c].pos = co[c].pos
           \/ /\ co[c].kind = "idle"
              /\ co'[c].kind \in {"entry", "exit", "void"}
              /\ c \in Watchers => \E p \in Pos :
                    /\ co'[c].kind = "exit" /\ co'[c].pos = p /\ Unclaimed(p)
                    /\ ~Unclaimed(p)'
                    /\ \A d \in Coroutine \ {c} : co'[d] = co[d]
<1>1. co \in [Coroutine -> CoType] /\ (co[c].pc # "idle" => co[c].kind # "idle")
  BY DEF IInv, TypeOK, CoInv, CoOK
<1>2. CASE Crash
  BY <1>2 DEF Crash
<1>3. CASE Continue(c)
  <2>1. ~ProposalMarked(c) /\ ~\E x \in ExitId : ProposalInserted(c, x)
    BY DEF ClaimInv, ProposalMarked, ProposalInserted, IInv, CoInv, CoOK
  <2>2. CASE BalanceRead(c)
    <3>1. \/ co'[c] = Idle
          \/ co[c].kind = "exit" /\ co'[c] = ExitStart(co[c].pos, co[c].qty, TRUE)
      BY <1>1, <2>2 DEF BalanceRead
    <3> QED BY <3>1 DEF ExitStart, Idle
  <2>3. CASE EntryCancelled(c)
    BY <1>1, <2>3 DEF EntryCancelled, CoType
  <2>4. CASE OrderSteps(c)
    <3>1. co[c].kind # "idle"
      BY <1>1, <2>4 DEF OrderSteps, OrderAccepted, OrderRefused, ShortOfMargin, CallFailed,
                        OrderAnswered
    <3>2. CASE OrderAccepted(c)
      BY <1>1, <3>1, <3>2 DEF OrderAccepted, CoType
    <3>3. CASE OrderRefused(c) \/ CallFailed(c) \/ OrderAnswered(c)
      BY <1>1, <3>1, <3>3 DEF OrderRefused, CallFailed, OrderAnswered, NotSent, CoType
    <3>4. ASSUME NEW b \in 0 .. Lot, ShortOfMargin(c, b)
          PROVE  \/ co'[c] = Idle
                 \/ co'[c].kind = co[c].kind /\ co'[c].pos = co[c].pos
      <4> DEFINE q == IF 0 < b /\ b < co[c].qty THEN b ELSE co[c].qty
                 t == co[c].tries + 1
      <4>1. co' = [co EXCEPT ![c].qty = q, ![c].tries = t] \/ co' = [co EXCEPT ![c] = Idle]
        BY <3>4 DEF ShortOfMargin
      <4> HIDE DEF q, t
      <4> QED BY <1>1, <4>1 DEF CoType
    <3> QED BY <2>4, <3>1, <3>2, <3>3, <3>4 DEF OrderSteps
  <2> QED BY <1>3, <2>1, <2>2, <2>3, <2>4 DEF Continue
<1>4. CASE c \in Users /\ Request(c)
  <2>1. c \notin Watchers
    BY <1>4, ExecutionAssumption DEF Watchers
  <2>2. ~\E x \in ExitId : ApproveExit(c, x)
    BY DEF ClaimInv, ApproveExit, AwaitsDecision
  <2>3. co[c].kind = "idle" /\ co'[c].kind \in {"entry", "exit", "void"}
    BY <1>1, <1>4, <2>2 DEF Request, ApproveEntry, ManualExit, ManualVoid, Idle
  <2> QED BY <2>1, <2>3
<1>5. CASE c = "loop" /\ \E p \in Pos : LoopExit(p)
  <2>1. co[c].kind = "idle" /\ co'[c].kind = "exit"
    BY <1>1, <1>5 DEF LoopExit, ClaimInv, ExitStart, Idle
  <2> QED BY <1>5, <2>1 DEF Watchers
<1>6. CASE c \in Watchers /\ \E p \in Pos, r \in {"stop", "target"} : Judge(c, p, r)
  <2>1. PICK p \in Pos, r \in {"stop", "target"} : Judge(c, p, r)
    BY <1>6
  <2>2. co' = [co EXCEPT ![c] = ExitStart(p, snap[c][p], FALSE)] /\ Unclaimed(p)
    <3>1. SentAtOnce(r)
      BY DEF SentAtOnce, AllAuto
    <3>2. co' = [co EXCEPT ![c] = IF SentAtOnce(r) THEN ExitStart(p, snap[c][p], FALSE)
                                  ELSE ProposalStart(p, snap[c][p])]
      BY <2>1 DEF Judge
    <3> QED BY <2>1, <3>1, <3>2 DEF Judge
  <2>3. ~Unclaimed(p)'
    BY <2>1 DEF Judge, WithPending, Unclaimed, IInv, TypeOK, PosType
  <2>4. co[c].kind = "idle"
    BY <2>1 DEF Judge
  <2>5. co'[c].kind = "exit" /\ co'[c].pos = p
    BY <1>1, <2>2 DEF ExitStart, Idle
  <2>6. \A d \in Coroutine \ {c} : co'[d] = co[d]
    BY <1>1, <2>2
  <2> QED BY <2>2, <2>3, <2>4, <2>5, <2>6
<1> QED BY <1>2, <1>3, <1>4, <1>5, <1>6, CoroutineMoves DEF Starts

LEMMA ClaimRows ==
    ASSUME IInv, ClaimInv, AllAuto, [Next]_vars
    PROVE  /\ \A x \in ExitId : row'[x].status = "none"
           /\ \A p \in Pos : how'[p] = "auto"
<1>1. row \in [OrderId -> RowType] /\ ExitId \subseteq OrderId /\ Pos \cap ExitId = {}
  BY ExecutionAssumption DEF IInv, TypeOK, OrderId
<1>2. ASSUME NEW c \in Coroutine, Continue(c)
      PROVE  (\A x \in ExitId : row'[x].status = "none") /\ how' = how
  <2>1. ~ProposalMarked(c) /\ ~\E x \in ExitId : ProposalInserted(c, x)
    BY DEF ClaimInv, ProposalMarked, ProposalInserted, IInv, CoInv, CoOK
  <2>2. co[c].kind # "approval" /\ co[c].row \notin ExitId
    BY DEF ClaimInv, IInv, CoInv, CoOK
  <2>3. how' = how
    BY <1>2 DEF Continue, ProposalInserted, ProposalMarked, BalanceRead, EntryCancelled,
       OrderSteps, OrderAccepted, OrderRefused, ShortOfMargin, CallFailed, OrderAnswered, ledgerVars
  <2>4. \A x \in ExitId : row'[x] = row[x]
    <3>1. CASE EntryCancelled(c) \/ BalanceRead(c) \/ OrderAccepted(c)
      BY <2>2, <3>1 DEF EntryCancelled, BalanceRead, OrderAccepted, ledgerVars
    <3>2. CASE OrderRefused(c) \/ CallFailed(c) \/ OrderAnswered(c)
      BY <1>1, <2>2, <3>2 DEF OrderRefused, CallFailed, OrderAnswered, NotSent, RowWritten
    <3>3. CASE \E b \in 0 .. Lot : ShortOfMargin(c, b)
      BY <1>1, <2>2, <3>3 DEF ShortOfMargin
    <3> QED BY <1>2, <2>1, <3>1, <3>2, <3>3 DEF Continue, OrderSteps
  <2> QED BY <2>3, <2>4 DEF ClaimInv
<1>3. ASSUME NEW i \in OrderId, Reject(i) \/ Expire(i)
      PROVE  (\A x \in ExitId : row'[x].status = "none") /\ how' = how
  <2>1. i \notin ExitId
    BY <1>3 DEF Reject, Expire, AwaitsDecision, ClaimInv
  <2> QED BY <1>1, <1>3, <2>1 DEF Reject, Expire, ClaimInv, memVars
<1>4. ASSUME NEW p \in Pos, Propose(p)
      PROVE  (\A x \in ExitId : row'[x].status = "none") /\ how' = how
  BY <1>1, <1>4 DEF Propose, ClaimInv, memVars
<1>5. ASSUME NEW c \in Users, Request(c)
      PROVE  (\A x \in ExitId : row'[x].status = "none") /\ how' = how
  <2>1. ~\E x \in ExitId : ApproveExit(c, x)
    BY DEF ClaimInv, ApproveExit, AwaitsDecision
  <2> QED BY <1>1, <1>5, <2>1 DEF Request, ApproveEntry, ManualExit, ManualVoid, ClaimInv, ledgerVars
<1>6. ASSUME LoopFlatten \/ \E S \in SUBSET Pos, h \in [Pos -> LoopHow] : LoopScan(S, h)
      PROVE  (\A x \in ExitId : row'[x].status = "none") /\ (\A p \in Pos : how'[p] = "auto")
  <2>1. LoopHow = {"auto"}
    <3>1. DeskEnabled /\ \A reason : Route(reason) = "auto"
      BY DEF Route, SentAtOnce, AllAuto
    <3> QED BY <3>1 DEF LoopHow
  <2> QED BY <1>6, <2>1 DEF LoopFlatten, LoopScan, ClaimInv, ledgerVars
<1>7. ASSUME \/ UNCHANGED vars \/ DeskScan \/ Crash
             \/ \E p \in Pos : DeskPass(p) \/ LoopExit(p) \/ Reap(p)
             \/ \E c \in Watchers, p \in Pos, r \in {"stop", "target"} : Judge(c, p, r)
             \/ \E o \in OrdNo : \/ FallbackSteps(o) \/ Execute(o)
                                 \/ \E n \in 1 .. Lot : RecordFill(o, n)
      PROVE  row' = row /\ how' = how
  BY <1>7 DEF vars, DeskScan, Crash, DeskPass, LoopExit, Reap, Judge, FallbackSteps, FallbackWakes,
       FallbackCancels, FallbackSettles, FallbackCaps, FallbackAccepted, FallbackEnds, Execute,
       RecordFill, ledgerVars, memVars
<1> QED BY <1>2, <1>3, <1>4, <1>5, <1>6, <1>7 DEF Next, ClaimInv

LEMMA ClaimStep == ASSUME IInv, IInv', ClaimInv, AllAuto, [Next]_vars PROVE ClaimInv'
<1>1. /\ \A x \in ExitId : row'[x].status = "none"
      /\ \A p \in Pos : how'[p] = "auto"
  BY ClaimRows
<1>2. \A c \in Coroutine : co'[c].kind \notin {"approval", "propose"}
  BY AllAutoKinds DEF ClaimInv, Idle
<1>3. Watchers \subseteq Coroutine /\ "desk" \in Watchers /\ "reader" \in Watchers
  BY DEF Watchers, Coroutine, Loops
<1>4. ASSUME NEW w \in Watchers
      PROVE  /\ co'[w].kind \in {"idle", "exit"}
             /\ co'[w].kind = "exit" => ~Unclaimed(co[w].pos)'
  <2>1. CASE co'[w].kind # co[w].kind \/ co'[w].pos # co[w].pos
    <3>1. \/ co'[w] = Idle
          \/ \E p \in Pos : co'[w].kind = "exit" /\ co'[w].pos = p /\ ~Unclaimed(p)'
      BY <1>3, <2>1, AllAutoKinds
    <3> QED BY <3>1 DEF Idle
  <2>2. CASE co'[w].kind = co[w].kind /\ co'[w].pos = co[w].pos
    <3>1. CASE co[w].kind # "exit"
      BY <2>2, <3>1 DEF ClaimInv
    <3>2. CASE co[w].kind = "exit"
      <4>1. PICK p : p = co[w].pos
        OBVIOUS
      <4>2. Known(p) /\ ~Unclaimed(p)
        BY <1>3, <3>2, <4>1 DEF IInv, CoInv, CoOK, ClaimInv
      <4>3. ASSUME Unclaimed(p)' PROVE FALSE
        <5>1. PICK v \in Watchers : co[v].kind = "exit" /\ co[v].pos = p /\ co'[v] = Idle
          BY <4>2, <4>3, ClaimDropped
        <5>2. v = w
          BY <3>2, <4>1, <5>1 DEF ClaimInv, ClaimIsExclusive, Watchers
        <5> QED BY <2>2, <3>2, <5>1, <5>2 DEF Idle
      <4> QED BY <2>2, <3>2, <4>1, <4>3
    <3> QED BY <3>1, <3>2
  <2> QED BY <2>1, <2>2
<1>5. ClaimIsExclusive'
  <2> SUFFICES ASSUME co'["desk"].kind = "exit", co'["reader"].kind = "exit",
                      co'["desk"].pos = co'["reader"].pos
               PROVE  FALSE
    BY DEF ClaimIsExclusive
  <2>1. ASSUME NEW v \in Watchers, NEW w \in Watchers, v # w,
               co'[v].kind = "exit", co'[w].kind = "exit", co'[v].pos = co'[w].pos,
               co[v].kind = "idle"
        PROVE  FALSE
    <3>1. co'[v] # co[v]
      BY <2>1
    <3>2. PICK p \in Pos : /\ co'[v].pos = p /\ Unclaimed(p)
                           /\ \A d \in Coroutine \ {v} : co'[d] = co[d]
      BY <1>3, <2>1, <3>1, AllAutoKinds DEF Idle
    <3> QED BY <1>3, <2>1, <3>2 DEF ClaimInv
  <2>2. co["desk"].kind # "idle" /\ co["reader"].kind # "idle"
    BY <1>3, <2>1
  <2>3. ASSUME NEW w \in Watchers, co[w].kind # "idle", co'[w].kind = "exit"
        PROVE  co[w].kind = "exit" /\ co'[w].pos = co[w].pos
    BY <1>3, <2>3, AllAutoKinds DEF Idle, ClaimInv
  <2> QED BY <1>3, <2>2, <2>3 DEF ClaimInv, ClaimIsExclusive
<1> QED BY <1>1, <1>2, <1>4, <1>5 DEF ClaimInv

(* When every exit is automatic and the desk runs, its cycle and its tick  *)
(* callback never sell the same position at once, with any number of       *)
(* positions, manual requests and kills (claim_exit).                      *)
THEOREM ClaimExclusive ==
    ASSUME AutoApprove, DeskEnabled
    PROVE  Spec => []ClaimIsExclusive
<1>1. AllAuto
  BY DEF AllAuto
<1>2. Init => ClaimInv
  BY DEF Init, ClaimInv, NoRow, Idle, Unclaimed, ClaimIsExclusive, Watchers, Coroutine, Loops, OrderId
<1>3. IInv /\ IInv' /\ ClaimInv /\ [Next]_vars => ClaimInv'
  BY <1>1, ClaimStep
<1>4. ClaimInv => ClaimIsExclusive
  BY DEF ClaimInv
<1> QED BY <1>2, <1>3, <1>4, Inductive, PTL DEF Spec

-----------------------------------------------------------------------------
(* The lock, when every exit is automatic and the desk runs *)

(* Until the first kill a lock belongs to a watcher that sells; only a     *)
(* request reads the account balance.                                      *)
LockInv ==
    /\ \A c \in Coroutine : co[c].pc = "balance" => c \in Users
    /\ crashes = 0 =>
          \A p \in Pos : IsOpen(p) /\ pos[p].pending =>
              \E w \in Watchers : co[w].kind = "exit" /\ co[w].pos = p

(* Only a watcher that claims an open position locks it. *)
LEMMA LockTaken ==
    ASSUME IInv, ClaimInv, [Next]_vars, NEW p \in Pos,
           ~(IsOpen(p) /\ pos[p].pending), pos'[p].status = "open", pos'[p].pending
    PROVE  \E w \in Watchers, r \in {"stop", "target"} : Judge(w, p, r)
<1>1. pos \in [Pos -> PosType] /\ pos' # pos
  BY DEF IInv, TypeOK, IsOpen
<1>2. ASSUME NEW w \in Coroutine, Continue(w) PROVE FALSE
  <2>1. ~ProposalMarked(w) /\ ~\E x \in ExitId : ProposalInserted(w, x)
    BY DEF ClaimInv, ProposalMarked, ProposalInserted, IInv, CoInv, CoOK
  <2>2. ASSUME BalanceRead(w) PROVE FALSE
    BY <1>1, <2>2 DEF BalanceRead, Voided, IsOpen, PosType
  <2>3. ASSUME OrderAnswered(w) PROVE FALSE
    BY <1>1, <2>3 DEF OrderAnswered, Opened, Closed, IsOpen, PosType
  <2>4. ASSUME OrderRefused(w) \/ CallFailed(w) PROVE FALSE
    <3>1. pos' = LockDropped(w)
      BY <1>1, <2>4 DEF OrderRefused, CallFailed, NotSent
    <3> QED BY <1>1, <3>1 DEF LockDropped, WithPending, IsOpen, PosType
  <2>5. ~EntryCancelled(w) /\ ~OrderAccepted(w) /\ ~\E b \in 0 .. Lot : ShortOfMargin(w, b)
    BY <1>1 DEF EntryCancelled, OrderAccepted, ShortOfMargin, ledgerVars
  <2> QED BY <1>2, <2>1, <2>2, <2>3, <2>4, <2>5 DEF Continue, OrderSteps
<1>3. ASSUME NEW i \in OrderId, Reject(i) \/ Expire(i) PROVE FALSE
  <2>1. i \notin ExitId
    BY <1>3 DEF Reject, Expire, AwaitsDecision, ClaimInv
  <2> QED BY <1>1, <1>3, <2>1 DEF Reject, Expire
<1>4. ASSUME NEW q \in Pos, Reap(q) PROVE FALSE
  BY <1>1, <1>4 DEF Reap, Voided, IsOpen, PosType
<1>5. ASSUME NEW o \in OrdNo, NEW n \in 1 .. Lot, RecordFill(o, n) PROVE FALSE
  <2>1. pos'[p] = pos[p] \/ pos'[p] = [pos[p] EXCEPT !.qty = n, !.conf = TRUE]
    BY <1>1, <1>5 DEF RecordFill, QtyAfterFill
  <2> QED BY <1>1, <2>1 DEF PosType, IsOpen
<1>6. ASSUME NEW w \in Watchers, NEW q \in Pos, NEW r \in {"stop", "target"}, Judge(w, q, r)
      PROVE  q = p
  BY <1>1, <1>6 DEF Judge, WithPending, IsOpen, PosType
<1>7. ASSUME \/ UNCHANGED vars \/ Crash \/ DeskScan \/ LoopFlatten
             \/ \E q \in Pos : Propose(q) \/ DeskPass(q) \/ LoopExit(q)
             \/ \E S \in SUBSET Pos, h \in [Pos -> LoopHow] : LoopScan(S, h)
             \/ \E c \in Users : Request(c)
             \/ \E o \in OrdNo : FallbackSteps(o) \/ Execute(o)
      PROVE  FALSE
  BY <1>1, <1>7 DEF vars, Propose, DeskPass, LoopExit, LoopScan, DeskScan, LoopFlatten, Request,
       ApproveEntry, ManualExit, ManualVoid, ApproveExit, FallbackSteps, FallbackWakes,
       FallbackCancels, FallbackSettles, FallbackCaps, FallbackAccepted, FallbackEnds,
       Execute, Crash, ledgerVars
<1> QED BY <1>2, <1>3, <1>4, <1>5, <1>6, <1>7 DEF Next

(* A watcher leaves the position it sells unlocked, or not open. *)
LEMMA LockLeft ==
    ASSUME IInv, ClaimInv, LockInv, AllAuto, [Next]_vars, ~Crash, NEW w \in Watchers,
           co[w].kind = "exit", co'[w].kind # "exit" \/ co'[w].pos # co[w].pos
    PROVE  ~(pos'[co[w].pos].status = "open" /\ pos'[co[w].pos].pending)
<1> DEFINE p == co[w].pos
<1>1. /\ pos \in [Pos -> PosType] /\ co \in [Coroutine -> CoType] /\ w \in Coroutine /\ p \in Pos
      /\ w \notin Users
  BY ExecutionAssumption DEF IInv, TypeOK, Watchers, Coroutine, Loops, CoInv, CoOK, Known
<1>2. co'[w] = Idle
  BY <1>1, AllAutoKinds
<1>3. Continue(w)
  BY <1>1, <1>2, CoroutineMoves, StartsIdle
<1>4. ~BalanceRead(w) /\ ~ProposalMarked(w) /\ ~\E x \in ExitId : ProposalInserted(w, x)
  BY <1>1 DEF LockInv, BalanceRead, ProposalMarked, ProposalInserted, IInv, CoInv, CoOK
<1>5. ~EntryCancelled(w) /\ ~OrderAccepted(w) /\ ~\E b \in 0 .. Lot : ShortOfMargin(w, b)
  BY <1>1, <1>2 DEF EntryCancelled, OrderAccepted, ShortOfMargin, Idle, CoType
<1>6. ASSUME OrderRefused(w) \/ CallFailed(w) PROVE pos'[p].pending = FALSE
  <2>1. pos' = LockDropped(w)
    BY <1>1, <1>2, <1>6 DEF OrderRefused, CallFailed, NotSent, Idle, CoType
  <2> QED BY <1>1, <2>1 DEF LockDropped, WithPending, PosType
<1>7. ASSUME OrderAnswered(w) PROVE pos'[p].status # "open"
  BY <1>1, <1>7 DEF OrderAnswered, Closed, IsOpen, PosType
<1> QED BY <1>3, <1>4, <1>5, <1>6, <1>7 DEF Continue, OrderSteps

LEMMA LockStep ==
    ASSUME IInv, ClaimInv, LockInv, AllAuto, [Next]_vars
    PROVE  LockInv'
<1>1. /\ co \in [Coroutine -> CoType] /\ Watchers \subseteq Coroutine
      /\ pos \in [Pos -> PosType]
  BY DEF IInv, TypeOK, Watchers, Coroutine, Loops
<1>2. ASSUME NEW c \in Coroutine, co'[c].pc = "balance" PROVE c \in Users
  <2>1. CASE co'[c] = co[c]
    BY <1>2, <2>1 DEF LockInv
  <2>2. CASE Crash
    BY <1>2, <2>2 DEF Crash, Idle
  <2>3. CASE Continue(c)
    <3>1. ~ProposalMarked(c) /\ ~\E x \in ExitId : ProposalInserted(c, x)
      BY DEF ClaimInv, ProposalMarked, ProposalInserted, IInv, CoInv, CoOK
    <3>2. ASSUME BalanceRead(c) PROVE FALSE
      <4>1. co'[c] = Idle \/ co'[c] = ExitStart(co[c].pos, co[c].qty, TRUE)
        BY <1>1, <3>2 DEF BalanceRead
      <4>2. ExitStart(co[c].pos, co[c].qty, TRUE).pc \in {"cancel", "send"}
        <5> DEFINE pc == IF MustCancelEntry(co[c].pos) THEN "cancel" ELSE "send"
        <5>1. pc \in {"cancel", "send"}
          OBVIOUS
        <5>2. ExitStart(co[c].pos, co[c].qty, TRUE) =
                 [Idle EXCEPT !.kind = "exit", !.pos = co[c].pos, !.qty = co[c].qty,
                              !.best = TRUE, !.pc = pc]
          BY DEF ExitStart
        <5> HIDE DEF pc
        <5> QED BY <5>1, <5>2 DEF Idle
      <4>3. Idle.pc = "idle"
        BY DEF Idle
      <4>4. co'[c].pc \in {"idle", "cancel", "send"}
        BY <4>1, <4>2, <4>3
      <4> QED BY <1>2, <4>4
    <3>3. ~EntryCancelled(c) /\ ~OrderAccepted(c)
      BY <1>1, <1>2 DEF EntryCancelled, OrderAccepted, CoType
    <3>4. ~OrderRefused(c) /\ ~CallFailed(c) /\ ~OrderAnswered(c)
      BY <1>1, <1>2 DEF OrderRefused, CallFailed, OrderAnswered, NotSent, Idle, CoType
    <3>5. ASSUME NEW b \in 0 .. Lot, ShortOfMargin(c, b) PROVE FALSE
      <4> DEFINE q == IF 0 < b /\ b < co[c].qty THEN b ELSE co[c].qty
                 t == co[c].tries + 1
      <4>1. co' = [co EXCEPT ![c].qty = q, ![c].tries = t] \/ co' = [co EXCEPT ![c] = Idle]
        BY <3>5 DEF ShortOfMargin
      <4>2. co[c].pc = "send"
        BY <3>5 DEF ShortOfMargin
      <4> HIDE DEF q, t
      <4> QED BY <1>1, <1>2, <4>1, <4>2 DEF CoType, Idle
    <3> QED BY <2>3, <3>1, <3>2, <3>3, <3>4, <3>5 DEF Continue, OrderSteps
  <2>4. CASE c \in Users
    BY <2>4
  <2>5. ASSUME NEW p \in Pos, NEW q, NEW b, co' = [co EXCEPT ![c] = ExitStart(p, q, b)]
                                       \/ co' = [co EXCEPT ![c] = ProposalStart(p, q)]
        PROVE  FALSE
    BY <1>1, <1>2, <2>5 DEF ExitStart, ProposalStart, Idle
  <2>6. CASE c \in Watchers /\ \E p \in Pos, r \in {"stop", "target"} : Judge(c, p, r)
    <3>1. PICK p \in Pos : \/ co' = [co EXCEPT ![c] = ExitStart(p, snap[c][p], FALSE)]
                           \/ co' = [co EXCEPT ![c] = ProposalStart(p, snap[c][p])]
      BY <2>6 DEF Judge
    <3> QED BY <2>5, <3>1
  <2>7. CASE c = "loop" /\ \E p \in Pos : LoopExit(p)
    <3>1. PICK p \in Pos : \/ co' = [co EXCEPT ![c] = ExitStart(p, snap["loop"][p], FALSE)]
                           \/ co' = [co EXCEPT ![c] = ProposalStart(p, snap["loop"][p])]
      BY <2>7 DEF LoopExit
    <3> QED BY <2>5, <3>1
  <2> QED BY <2>1, <2>2, <2>3, <2>4, <2>6, <2>7, CoroutineMoves DEF Starts
<1>3. ASSUME crashes' = 0, NEW p \in Pos, pos'[p].status = "open", pos'[p].pending
      PROVE  \E w \in Watchers : co'[w].kind = "exit" /\ co'[w].pos = p
  <2>1. crashes = 0 /\ ~Crash
    <3>1. Crash \/ crashes' = crashes
      BY DEF Next, vars, Propose, DeskPass, LoopExit, Reap, Reject, Expire, Judge, LoopScan,
         DeskScan, LoopFlatten, Request, ApproveEntry, ManualExit, ManualVoid, ApproveExit,
         Continue, ProposalInserted, ProposalMarked, BalanceRead, EntryCancelled, OrderSteps,
         OrderAccepted, OrderRefused, ShortOfMargin, CallFailed, OrderAnswered, FallbackSteps,
         FallbackWakes, FallbackCancels, FallbackSettles, FallbackCaps, FallbackAccepted,
         FallbackEnds, Execute, RecordFill
    <3>2. crashes \in Nat
      BY ExecutionAssumption DEF IInv, TypeOK
    <3> QED BY <1>3, <3>1, <3>2 DEF Crash
  <2>2. CASE IsOpen(p) /\ pos[p].pending
    <3>1. PICK w \in Watchers : co[w].kind = "exit" /\ co[w].pos = p
      BY <2>1, <2>2 DEF LockInv
    <3> QED BY <1>3, <2>1, <3>1, LockLeft
  <2>3. CASE ~(IsOpen(p) /\ pos[p].pending)
    <3>1. PICK w \in Watchers, r \in {"stop", "target"} : Judge(w, p, r)
      BY <1>3, <2>3, LockTaken
    <3>2. co' = [co EXCEPT ![w] = ExitStart(p, snap[w][p], FALSE)]
      <4>1. SentAtOnce(r)
        BY DEF SentAtOnce, AllAuto
      <4> QED BY <3>1, <4>1 DEF Judge
    <3> QED BY <1>1, <3>2 DEF ExitStart, Idle
  <2> QED BY <2>2, <2>3
<1> QED BY <1>2, <1>3 DEF LockInv, IsOpen

(* When every exit is automatic and the desk runs, a position is kept out  *)
(* of the exit watch only while a coroutine sells it, as long as the       *)
(* process has not been killed: a kill leaves the lock behind, and nothing *)
(* in the start-up path clears it (claim_exit, set_exit_pending).          *)
THEOREM HeldBack ==
    ASSUME AutoApprove, DeskEnabled
    PROVE  Spec => [](crashes = 0 => HeldBackForReason)
<1>1. AllAuto
  BY DEF AllAuto
<1>2. Init => ClaimInv /\ LockInv
  <2>1. Init => ClaimInv
    BY DEF Init, ClaimInv, NoRow, Idle, Unclaimed, ClaimIsExclusive, Watchers, Coroutine, Loops, OrderId
  <2>2. Init => LockInv
    BY DEF Init, LockInv, Idle, IsOpen, NoPosition
  <2> QED BY <2>1, <2>2
<1>3. IInv /\ IInv' /\ ClaimInv /\ LockInv /\ [Next]_vars => ClaimInv' /\ LockInv'
  BY <1>1, ClaimStep, LockStep
<1>4. LockInv => (crashes = 0 => HeldBackForReason)
  BY DEF LockInv, HeldBackForReason, Working, Watchers, Coroutine, Loops
<1> QED BY <1>2, <1>3, <1>4, Inductive, PTL DEF Spec

-----------------------------------------------------------------------------
(* Decisions, when the entry remainder is not cancelled before an exit *)

(* A coroutine works on an approved order, alone, until it writes the end. *)
SenderInv ==
    \A c \in Coroutine :
        /\ co[c].pc # "cancel"
        /\ co[c].row # None =>
              /\ co[c].pc \in {"send", "accepted"}
              /\ row[co[c].row].status = "approved"
              /\ \A d \in Coroutine : co[d].row = co[c].row => d = c

(* An order changes its status when it is created, decided, or answered. *)
LEMMA RowMoves ==
    ASSUME IInv, SenderInv, [Next]_vars, NEW i \in OrderId, row'[i].status # row[i].status
    PROVE  \/ row[i].status \in {"none", "pending"}
           \/ \E c \in Coroutine : co[c].row = i /\ co'[c] = Idle
<1>1. row \in [OrderId -> RowType] /\ co \in [Coroutine -> CoType] /\ row' # row
  BY DEF IInv, TypeOK
<1>2. ASSUME NEW c \in Coroutine, Continue(c), row[i].status \notin {"none", "pending"}
      PROVE  co[c].row = i /\ co'[c] = Idle
  <2>1. ~EntryCancelled(c)
    BY DEF SenderInv, EntryCancelled
  <2>2. ASSUME NEW x \in ExitId, ProposalInserted(c, x) PROVE FALSE
    BY <1>1, <1>2, <2>2 DEF ProposalInserted
  <2>3. CASE OrderRefused(c) \/ CallFailed(c) \/ OrderAnswered(c)
    <3>1. co' = [co EXCEPT ![c] = Idle]
      BY <1>1, <2>3 DEF OrderRefused, CallFailed, OrderAnswered, NotSent
    <3>2. \E st : row' = RowWritten(c, st)
      BY <1>1, <2>3, CallOutcome DEF OrderAnswered, NotSent
    <3>3. co[c].row = i
      BY <1>1, <3>2 DEF RowWritten
    <3> QED BY <1>1, <3>1, <3>3
  <2>4. ASSUME NEW b \in 0 .. Lot, ShortOfMargin(c, b)
        PROVE  co[c].row = i /\ co'[c] = Idle
    BY <1>1, <2>4 DEF ShortOfMargin
  <2>5. ~ProposalMarked(c) /\ ~BalanceRead(c) /\ ~OrderAccepted(c)
    BY <1>1 DEF ProposalMarked, BalanceRead, OrderAccepted, ledgerVars
  <2> QED BY <1>2, <2>1, <2>2, <2>3, <2>4, <2>5 DEF Continue, OrderSteps
<1>3. ASSUME NEW c \in Users, Request(c) PROVE row[i].status \in {"none", "pending"}
  BY <1>1, <1>3 DEF Request, ApproveEntry, ManualExit, ManualVoid, ApproveExit, AwaitsDecision,
                    ledgerVars
<1>4. ASSUME NEW p \in Pos, Propose(p) PROVE row[i].status \in {"none", "pending"}
  BY <1>1, <1>4 DEF Propose
<1>5. ASSUME NEW k \in OrderId, Reject(k) \/ Expire(k) PROVE row[i].status \in {"none", "pending"}
  BY <1>1, <1>5 DEF Reject, Expire, AwaitsDecision
<1>6. ASSUME \/ UNCHANGED vars \/ DeskScan \/ LoopFlatten \/ Crash
             \/ \E p \in Pos : DeskPass(p) \/ LoopExit(p) \/ Reap(p)
             \/ \E S \in SUBSET Pos, h \in [Pos -> LoopHow] : LoopScan(S, h)
             \/ \E c \in Watchers, p \in Pos, r \in {"stop", "target"} : Judge(c, p, r)
             \/ \E o \in OrdNo : \/ FallbackSteps(o) \/ Execute(o)
                                 \/ \E n \in 1 .. Lot : RecordFill(o, n)
      PROVE  FALSE
  BY <1>1, <1>6 DEF vars, DeskScan, LoopFlatten, Crash, DeskPass, LoopExit, Reap, LoopScan, Judge,
       FallbackSteps, FallbackWakes, FallbackCancels, FallbackSettles, FallbackCaps,
       FallbackAccepted, FallbackEnds, Execute, RecordFill, ledgerVars
<1> QED BY <1>2, <1>3, <1>4, <1>5, <1>6 DEF Next

(* How a coroutine comes to work on an order, and stays on it. *)
LEMMA RowHeld ==
    ASSUME IInv, SenderInv, ~CancelEntryOnExit, [Next]_vars, NEW c \in Coroutine
    PROVE  /\ co'[c].pc # "cancel"
           /\ co'[c].row # None =>
                 /\ co'[c].pc \in {"send", "accepted"}
                 /\ \/ co'[c].row = co[c].row
                    \/ /\ row[co'[c].row].status = "pending"
                       /\ row'[co'[c].row].status = "approved"
                       /\ \A d \in Coroutine \ {c} : co'[d] = co[d]
<1>1. /\ co \in [Coroutine -> CoType] /\ row \in [OrderId -> RowType]
      /\ Idle.row = None /\ Idle.pc = "idle"
  BY DEF IInv, TypeOK, Idle
<1>2. \A p : ~MustCancelEntry(p)
  BY DEF MustCancelEntry
<1>3. CASE co'[c] = co[c]
  BY <1>3 DEF SenderInv
<1>4. CASE Crash
  BY <1>1, <1>4 DEF Crash
<1>5. CASE Continue(c)
  <2>1. ~EntryCancelled(c) /\ (co[c].pc \notin {"send", "accepted"} => co[c].row = None)
    BY DEF SenderInv, EntryCancelled
  <2>2. CASE BalanceRead(c)
    <3>1. co'[c] = Idle \/ co'[c] = ExitStart(co[c].pos, co[c].qty, TRUE)
      BY <1>1, <2>2 DEF BalanceRead
    <3> QED BY <1>1, <1>2, <3>1 DEF ExitStart, Idle
  <2>3. CASE ProposalMarked(c) \/ \E x \in ExitId : ProposalInserted(c, x)
    <3>1. co[c].row = None
      BY <2>1, <2>3 DEF ProposalMarked, ProposalInserted
    <3>2. co'[c] = Idle \/ co'[c] = [co[c] EXCEPT !.pc = "mark"]
      BY <1>1, <2>3 DEF ProposalMarked, ProposalInserted
    <3>3. co[c] \in CoType
      BY <1>1
    <3> QED BY <1>1, <3>1, <3>2, <3>3 DEF CoType
  <2>4. CASE OrderRefused(c) \/ CallFailed(c) \/ OrderAnswered(c) \/ OrderAccepted(c)
    BY <1>1, <2>4 DEF OrderAccepted, OrderRefused, CallFailed, OrderAnswered, NotSent, CoType
  <2>5. ASSUME NEW b \in 0 .. Lot, ShortOfMargin(c, b)
        PROVE  co'[c] = Idle \/ (co'[c].pc = co[c].pc /\ co'[c].row = co[c].row)
    <3> DEFINE q == IF 0 < b /\ b < co[c].qty THEN b ELSE co[c].qty
               t == co[c].tries + 1
    <3>1. co' = [co EXCEPT ![c].qty = q, ![c].tries = t] \/ co' = [co EXCEPT ![c] = Idle]
      BY <2>5 DEF ShortOfMargin
    <3> HIDE DEF q, t
    <3> QED BY <1>1, <3>1 DEF CoType
  <2>6. CASE \E b \in 0 .. Lot : ShortOfMargin(c, b)
    BY <1>1, <2>5, <2>6 DEF SenderInv
  <2> QED BY <1>5, <2>1, <2>2, <2>3, <2>4, <2>6 DEF Continue, OrderSteps
<1>6. CASE c \in Users /\ Request(c)
  <2>1. ASSUME NEW p \in Pos, NEW q \in 1 .. Lot, ApproveEntry(c, p, q)
        PROVE  /\ co'[c].row = p /\ co'[c].pc = "send" /\ row[p].status = "pending"
               /\ row'[p].status = "approved" /\ \A d \in Coroutine \ {c} : co'[d] = co[d]
    <3>1. row[p] \in RowType /\ p \in OrderId
      BY <1>1 DEF OrderId
    <3> QED BY <1>1, <2>1, <3>1 DEF ApproveEntry, AwaitsDecision, Idle, RowType
  <2>2. ASSUME NEW x \in ExitId, ApproveExit(c, x)
        PROVE  /\ co'[c].row = x /\ co'[c].pc = "send" /\ row[x].status = "pending"
               /\ row'[x].status = "approved" /\ \A d \in Coroutine \ {c} : co'[d] = co[d]
    <3> DEFINE p == row[x].pos
               q == IF IsOpen(p) THEN Reread(row[x].qty, p) ELSE row[x].qty
    <3>1. /\ co' = [co EXCEPT ![c] = [Idle EXCEPT !.kind = "approval", !.pos = p, !.row = x,
                                                  !.qty = q, !.pc = "send"]]
          /\ row' = [row EXCEPT ![x].status = "approved", ![x].qty = q]
          /\ row[x].status = "pending"
      BY <1>2, <2>2 DEF ApproveExit, AwaitsDecision
    <3> HIDE DEF p, q
    <3>2. row[x] \in RowType /\ x \in OrderId
      BY <1>1 DEF OrderId
    <3> QED BY <1>1, <3>1, <3>2 DEF Idle, RowType
  <2>3. ASSUME NEW p \in Pos, ManualExit(c, p) \/ ManualVoid(c, p)
        PROVE  co'[c].row = None /\ co'[c].pc = "balance"
    BY <1>1, <2>3 DEF ManualExit, ManualVoid, Idle
  <2> QED BY <1>6, <2>1, <2>2, <2>3 DEF Request
<1>7. ASSUME NEW p \in Pos, NEW q, NEW b, co' = [co EXCEPT ![c] = ExitStart(p, q, b)]
                                       \/ co' = [co EXCEPT ![c] = ProposalStart(p, q)]
      PROVE  co'[c].row = None /\ co'[c].pc # "cancel"
  BY <1>1, <1>2, <1>7 DEF ExitStart, ProposalStart, Idle
<1>8. CASE c \in Watchers /\ \E p \in Pos, r \in {"stop", "target"} : Judge(c, p, r)
  <2>1. PICK p \in Pos : \/ co' = [co EXCEPT ![c] = ExitStart(p, snap[c][p], FALSE)]
                         \/ co' = [co EXCEPT ![c] = ProposalStart(p, snap[c][p])]
    BY <1>8 DEF Judge
  <2> QED BY <1>7, <2>1
<1>9. CASE c = "loop" /\ \E p \in Pos : LoopExit(p)
  <2>1. PICK p \in Pos : \/ co' = [co EXCEPT ![c] = ExitStart(p, snap["loop"][p], FALSE)]
                         \/ co' = [co EXCEPT ![c] = ProposalStart(p, snap["loop"][p])]
    BY <1>9 DEF LoopExit
  <2> QED BY <1>7, <2>1
<1> QED BY <1>3, <1>4, <1>5, <1>6, <1>8, <1>9, CoroutineMoves DEF Starts

LEMMA DecisionStep ==
    ASSUME IInv, IInv', SenderInv, ~CancelEntryOnExit, [Next]_vars
    PROVE  SenderInv'
<1> SUFFICES ASSUME NEW c \in Coroutine
             PROVE  /\ co'[c].pc # "cancel"
                    /\ co'[c].row # None =>
                          /\ co'[c].pc \in {"send", "accepted"}
                          /\ row'[co'[c].row].status = "approved"
                          /\ \A d \in Coroutine : co'[d].row = co'[c].row => d = c
  BY DEF SenderInv
<1>1. CASE co'[c].row = None
  BY <1>1, RowHeld
<1>2. CASE co'[c].row # None
  <2>1. PICK i \in OrderId : i = co'[c].row
    BY <1>2 DEF IInv, TypeOK, CoType
  <2>2. CASE co[c].row = i
    <3>1. row[i].status = "approved" /\ \A d \in Coroutine : co[d].row = i => d = c
      BY <1>2, <2>1, <2>2 DEF SenderInv
    <3>2. row'[i].status = "approved"
      BY <1>2, <2>1, <3>1, RowMoves DEF Idle
    <3>3. ASSUME NEW d \in Coroutine, co'[d].row = i, d # c PROVE FALSE
      BY <1>2, <2>1, <3>1, <3>3, RowHeld
    <3> QED BY <1>2, <2>1, <3>2, <3>3, RowHeld
  <2>3. CASE co[c].row # i
    <3>1. /\ row[i].status = "pending" /\ row'[i].status = "approved"
          /\ \A d \in Coroutine \ {c} : co'[d] = co[d]
      BY <1>2, <2>1, <2>3, RowHeld
    <3>2. \A d \in Coroutine : co[d].row # i
      BY <3>1, <1>2, <2>1 DEF SenderInv
    <3> QED BY <1>2, <2>1, <3>1, <3>2, RowHeld
  <2> QED BY <2>2, <2>3
<1> QED BY <1>1, <1>2

(* Unless an exit waits for the entry remainder to be cancelled, nothing   *)
(* changes an order that was sent, rejected, expired or failed, with any   *)
(* number of requests at once (reject, expire_stale, approve_and_send).    *)
THEOREM DecisionFinal ==
    ASSUME ~CancelEntryOnExit
    PROVE  Spec => DecisionIsFinal
<1>1. Init => SenderInv
  BY DEF Init, SenderInv, Idle
<1>2. IInv /\ IInv' /\ SenderInv /\ [Next]_vars => SenderInv'
  BY DecisionStep
<1>3. IInv /\ SenderInv /\ [Next]_vars =>
         [\A i \in OrderId :
             row[i].status \in {"sent", "rejected", "expired", "error"}
                 => row'[i].status = row[i].status]_vars
  <2> SUFFICES ASSUME IInv, SenderInv, [Next]_vars, NEW i \in OrderId,
                      row[i].status \in {"sent", "rejected", "expired", "error"},
                      row'[i].status # row[i].status
               PROVE  FALSE
    OBVIOUS
  <2>1. PICK c \in Coroutine : co[c].row = i
    BY RowMoves
  <2>2. i # None
    BY BrokerageAssumption, ExecutionAssumption DEF OrderId
  <2> QED BY <2>1, <2>2 DEF SenderInv
<1> QED BY <1>1, <1>2, <1>3, Inductive, PTL DEF Spec, DecisionIsFinal

-----------------------------------------------------------------------------
(* Exit orders that wait for approval, when only targets are asked for *)

(* Stops and time-outs go out at once and the desk owns the lines of every *)
(* position: the 30-second loop proposes nothing, only a watcher does.  A  *)
(* sell is never short of margin, so an approval is not sent back.         *)
AsksForTargets ==
    DeskEnabled /\ ~DeskLimited /\ StopAuto /\ ~CancelEntryOnExit /\ ~MarginOnSell

RouteInv ==
    /\ \A p \in Pos : how[p] = "auto"
    /\ \A w \in Watchers : co[w].kind \in {"idle", "exit", "propose"}
    /\ \A c \in Coroutine :
          /\ co[c].kind = "propose" => c \in Watchers
          /\ co[c].kind # "entry" => co[c].tries = 0
          /\ co[c].kind = "entry" => co[c].row \in Pos
          /\ co[c].kind = "approval" => co[c].row \in ExitId /\ row[co[c].row].pos = co[c].pos
          /\ co[c].kind \notin {"entry", "approval"} => co[c].row = None

(* A watcher holds a position from its claim until it has sold it or has   *)
(* written the proposal; from then on the proposal does.                   *)
Holds(w, p) == co[w].pos = p /\ (co[w].kind = "exit" \/ co[w].pc = "insert")
Waits(x, p) == Live(x) /\ row[x].pos = p
HeldFor(p) == (\E w \in Watchers : Holds(w, p)) \/ (\E x \in ExitId : Waits(x, p))

HolderInv ==
    \A p \in Pos :
        /\ \A v, w \in Watchers : Holds(v, p) /\ Holds(w, p) => v = w
        /\ \A w \in Watchers, x \in ExitId : ~(Holds(w, p) /\ Waits(x, p))
        /\ \A x, y \in ExitId : Waits(x, p) /\ Waits(y, p) => x = y
        /\ HeldFor(p) => ~Unclaimed(p)

LEMMA ExitStarted ==
    ASSUME NEW p, NEW q, NEW b
    PROVE  /\ ExitStart(p, q, b).kind = "exit" /\ ExitStart(p, q, b).pos = p
           /\ ExitStart(p, q, b).row = None /\ ExitStart(p, q, b).tries = 0
           /\ ExitStart(p, q, b).pc \in {"cancel", "send"}
<1> DEFINE pc == IF MustCancelEntry(p) THEN "cancel" ELSE "send"
<1>1. ExitStart(p, q, b) =
         [Idle EXCEPT !.kind = "exit", !.pos = p, !.qty = q, !.best = b, !.pc = pc]
  BY DEF ExitStart
<1>2. pc \in {"cancel", "send"}
  OBVIOUS
<1> HIDE DEF pc
<1> QED BY <1>1, <1>2 DEF Idle

(* A coroutine that goes on stays what it is, until it ends. *)
LEMMA GoesOn ==
    ASSUME IInv, SenderInv, RouteInv, ~CancelEntryOnExit, NEW c \in Coroutine, Continue(c)
    PROVE  /\ \A d \in Coroutine \ {c} : co'[d] = co[d]
           /\ \/ co'[c] = Idle
              \/ /\ co'[c].kind = co[c].kind /\ co'[c].pos = co[c].pos
                 /\ co'[c].row = co[c].row /\ co[c].kind # "idle" /\ co'[c].pc # "insert"
                 /\ co'[c].tries = co[c].tries \/ co[c].kind = "entry"
<1>1. co \in [Coroutine -> CoType] /\ (co[c].pc # "idle" => co[c].kind # "idle")
  BY DEF IInv, TypeOK, CoInv, CoOK
<1>2. \A d \in Coroutine \ {c} : co'[d] = co[d]
  BY <1>1 DEF Continue, ProposalInserted, ProposalMarked, BalanceRead, EntryCancelled, OrderSteps,
       OrderAccepted, OrderRefused, ShortOfMargin, CallFailed, OrderAnswered, NotSent
<1> DEFINE OK == /\ co'[c].kind = co[c].kind /\ co'[c].pos = co[c].pos
                 /\ co'[c].row = co[c].row /\ co[c].kind # "idle" /\ co'[c].pc # "insert"
                 /\ co'[c].tries = co[c].tries \/ co[c].kind = "entry"
<1>3. CASE ProposalMarked(c)
  BY <1>1, <1>2, <1>3 DEF ProposalMarked
<1>4. CASE \E x \in ExitId : ProposalInserted(c, x)
  BY <1>1, <1>2, <1>4 DEF ProposalInserted, CoType
<1>5. CASE BalanceRead(c)
  <2>1. CASE co'[c] = Idle
    BY <1>2, <2>1
  <2>2. CASE co[c].kind = "exit" /\ co'[c] = ExitStart(co[c].pos, co[c].qty, TRUE)
    <3>1. co[c].row = None /\ co[c].tries = 0
      BY <2>2 DEF RouteInv
    <3>2. /\ co'[c].kind = "exit" /\ co'[c].pos = co[c].pos /\ co'[c].row = None
          /\ co'[c].tries = 0 /\ co'[c].pc \in {"cancel", "send"}
      <4> DEFINE pc == IF MustCancelEntry(co[c].pos) THEN "cancel" ELSE "send"
      <4>1. co'[c] = [Idle EXCEPT !.kind = "exit", !.pos = co[c].pos, !.qty = co[c].qty,
                                  !.best = TRUE, !.pc = pc]
        BY <2>2 DEF ExitStart
      <4>2. pc \in {"cancel", "send"}
        OBVIOUS
      <4> HIDE DEF pc
      <4> QED BY <4>1, <4>2 DEF Idle
    <3> QED BY <1>2, <2>2, <3>1, <3>2
  <2> QED BY <1>1, <1>5, <2>1, <2>2 DEF BalanceRead
<1>6. ~EntryCancelled(c)
  BY DEF EntryCancelled, SenderInv
<1>7. CASE OrderAccepted(c)
  BY <1>1, <1>2, <1>7 DEF OrderAccepted, CoType
<1>8. CASE OrderRefused(c) \/ CallFailed(c) \/ OrderAnswered(c)
  BY <1>1, <1>2, <1>8 DEF OrderRefused, CallFailed, OrderAnswered, NotSent, CoType
<1>9. ASSUME NEW b \in 0 .. Lot, ShortOfMargin(c, b) PROVE co'[c] = Idle \/ OK
  <2> DEFINE q == IF 0 < b /\ b < co[c].qty THEN b ELSE co[c].qty
             t == co[c].tries + 1
  <2>1. co' = [co EXCEPT ![c].qty = q, ![c].tries = t] \/ co' = [co EXCEPT ![c] = Idle]
    BY <1>9 DEF ShortOfMargin
  <2>2. co[c].kind = "entry" /\ co[c].pc = "send"
    BY <1>9 DEF ShortOfMargin
  <2> HIDE DEF q, t
  <2> QED BY <1>1, <2>1, <2>2 DEF CoType
<1> QED BY <1>2, <1>3, <1>4, <1>5, <1>6, <1>7, <1>8, <1>9 DEF Continue, OrderSteps

(* What a coroutine starts with. *)
LEMMA StartsOn ==
    ASSUME IInv, RouteInv, ~CancelEntryOnExit, NEW c \in Coroutine, Starts(c)
    PROVE  /\ co'[c].tries = 0
           /\ co'[c].kind = "propose" => c \in Watchers
           /\ c \in Watchers => co'[c].kind \in {"exit", "propose"}
           /\ co'[c].kind = "entry" => co'[c].row \in Pos
           /\ co'[c].kind = "approval" => /\ co'[c].row \in ExitId
                                          /\ row[co'[c].row].pos = co'[c].pos
                                          /\ row[co'[c].row].status # "none"
           /\ co'[c].kind \notin {"entry", "approval"} => co'[c].row = None
<1>1. co \in [Coroutine -> CoType]
  BY DEF IInv, TypeOK
<1>2. CASE c \in Users /\ Request(c)
  <2>0. c \notin Watchers
    BY <1>2, ExecutionAssumption DEF Watchers
  <2>1. ASSUME NEW x \in ExitId, ApproveExit(c, x)
        PROVE  /\ co'[c].kind = "approval" /\ co'[c].tries = 0 /\ co'[c].row = x
               /\ co'[c].pos = row[x].pos /\ row[x].status # "none"
    <3> DEFINE p == row[x].pos
               q == IF IsOpen(p) THEN Reread(row[x].qty, p) ELSE row[x].qty
               pc == IF IsOpen(p) /\ MustCancelEntry(p) THEN "cancel" ELSE "send"
    <3>1. co' = [co EXCEPT ![c] = [Idle EXCEPT !.kind = "approval", !.pos = p, !.row = x,
                                               !.qty = q, !.pc = pc]]
      BY <2>1 DEF ApproveExit
    <3>2. row[x].status = "pending"
      BY <2>1 DEF ApproveExit, AwaitsDecision
    <3>3. p = row[x].pos
      OBVIOUS
    <3> HIDE DEF p, q, pc
    <3> QED BY <1>1, <3>1, <3>2, <3>3 DEF Idle
  <2>2. ASSUME NEW p \in Pos, NEW q \in 1 .. Lot, ApproveEntry(c, p, q)
        PROVE  co'[c].kind = "entry" /\ co'[c].tries = 0 /\ co'[c].row = p
    BY <1>1, <2>2 DEF ApproveEntry, Idle
  <2>3. ASSUME NEW p \in Pos, ManualExit(c, p) \/ ManualVoid(c, p)
        PROVE  co'[c].kind \in {"exit", "void"} /\ co'[c].tries = 0 /\ co'[c].row = None
    BY <1>1, <2>3 DEF ManualExit, ManualVoid, Idle
  <2> QED BY <1>2, <2>0, <2>1, <2>2, <2>3 DEF Request
<1>3. ASSUME NEW p, NEW q, NEW b, co' = [co EXCEPT ![c] = ExitStart(p, q, b)]
      PROVE  co'[c].kind = "exit" /\ co'[c].tries = 0 /\ co'[c].row = None
  <2>1. co'[c] = ExitStart(p, q, b)
    BY <1>1, <1>3
  <2> QED BY <2>1, ExitStarted
<1>4. ASSUME NEW p, NEW q, co' = [co EXCEPT ![c] = ProposalStart(p, q)]
      PROVE  co'[c].kind = "propose" /\ co'[c].tries = 0 /\ co'[c].row = None
  BY <1>1, <1>4 DEF ProposalStart, Idle
<1>5. CASE c \in Watchers /\ \E p \in Pos, r \in {"stop", "target"} : Judge(c, p, r)
  <2>1. PICK p \in Pos : \/ co' = [co EXCEPT ![c] = ExitStart(p, snap[c][p], FALSE)]
                         \/ co' = [co EXCEPT ![c] = ProposalStart(p, snap[c][p])]
    BY <1>5 DEF Judge
  <2>2. CASE co' = [co EXCEPT ![c] = ExitStart(p, snap[c][p], FALSE)]
    <3>1. co'[c].kind = "exit" /\ co'[c].tries = 0 /\ co'[c].row = None
      BY <1>3, <2>2
    <3> QED BY <3>1
  <2>3. CASE co' = [co EXCEPT ![c] = ProposalStart(p, snap[c][p])]
    <3>1. co'[c].kind = "propose" /\ co'[c].tries = 0 /\ co'[c].row = None
      BY <1>4, <2>3
    <3> QED BY <1>5, <3>1
  <2> QED BY <2>1, <2>2, <2>3
<1>6. CASE c = "loop" /\ \E p \in Pos : LoopExit(p)
  <2>1. PICK p \in Pos : co' = [co EXCEPT ![c] = ExitStart(p, snap["loop"][p], FALSE)]
    BY <1>6 DEF LoopExit, RouteInv
  <2> QED BY <1>3, <1>6, <2>1 DEF Watchers
<1> QED BY <1>2, <1>5, <1>6 DEF Starts

(* An order keeps its position once it exists. *)
LEMMA RowKeepsPosition ==
    ASSUME IInv, [Next]_vars, NEW i \in OrderId, row[i].status # "none"
    PROVE  row'[i].pos = row[i].pos
<1>1. row \in [OrderId -> RowType] /\ co \in [Coroutine -> CoType]
  BY DEF IInv, TypeOK
<1>2. ASSUME NEW k, NEW st, NEW q, \/ row' = [row EXCEPT ![k].status = st]
                                   \/ row' = [row EXCEPT ![k].status = st, ![k].qty = q]
      PROVE  row'[i].pos = row[i].pos
  BY <1>1, <1>2 DEF RowType
<1>3. ASSUME NEW c \in Coroutine, Continue(c) PROVE row'[i].pos = row[i].pos
  <2>1. CASE \E x \in ExitId : ProposalInserted(c, x)
    BY <1>1, <2>1 DEF ProposalInserted
  <2>2. CASE EntryCancelled(c)
    BY <1>2, <2>2 DEF EntryCancelled
  <2>3. CASE OrderRefused(c) \/ CallFailed(c) \/ OrderAnswered(c)
    <3>1. row' = row \/ \E st : row' = RowWritten(c, st)
      BY <2>3 DEF OrderRefused, CallFailed, OrderAnswered, NotSent
    <3> QED BY <1>2, <3>1 DEF RowWritten
  <2>4. ASSUME NEW b \in 0 .. Lot, ShortOfMargin(c, b) PROVE row'[i].pos = row[i].pos
    <3> DEFINE q == IF 0 < b /\ b < co[c].qty THEN b ELSE co[c].qty
    <3>1. row' = row \/ row' = [row EXCEPT ![co[c].row].status = "pending", ![co[c].row].qty = q]
      BY <2>4 DEF ShortOfMargin
    <3> HIDE DEF q
    <3> QED BY <1>2, <3>1
  <2>5. CASE ProposalMarked(c) \/ BalanceRead(c) \/ OrderAccepted(c)
    BY <2>5 DEF ProposalMarked, BalanceRead, OrderAccepted, ledgerVars
  <2> QED BY <1>3, <2>1, <2>2, <2>3, <2>4, <2>5 DEF Continue, OrderSteps
<1>4. ASSUME NEW c \in Users, Request(c) PROVE row'[i].pos = row[i].pos
  <2>1. ASSUME NEW x \in ExitId, ApproveExit(c, x) PROVE row'[i].pos = row[i].pos
    <3> DEFINE q == IF IsOpen(row[x].pos) THEN Reread(row[x].qty, row[x].pos) ELSE row[x].qty
    <3>1. row' = row \/ row' = [row EXCEPT ![x].status = "approved", ![x].qty = q]
      BY <2>1 DEF ApproveExit
    <3> HIDE DEF q
    <3> QED BY <1>2, <3>1
  <2>2. ASSUME NEW p \in Pos, NEW q \in 1 .. Lot, ApproveEntry(c, p, q)
        PROVE  row'[i].pos = row[i].pos
    <3>1. row' = [row EXCEPT ![p].status = "approved", ![p].qty = q]
      BY <2>2 DEF ApproveEntry
    <3> QED BY <1>2, <3>1
  <2>3. CASE \E p \in Pos : ManualExit(c, p) \/ ManualVoid(c, p)
    BY <2>3 DEF ManualExit, ManualVoid, ledgerVars
  <2> QED BY <1>4, <2>1, <2>2, <2>3 DEF Request
<1>5. ASSUME NEW p \in Pos, Propose(p) PROVE row'[i].pos = row[i].pos
  BY <1>1, <1>5 DEF Propose
<1>6. ASSUME NEW k \in OrderId, Reject(k) \/ Expire(k) PROVE row'[i].pos = row[i].pos
  BY <1>2, <1>6 DEF Reject, Expire
<1>7. ASSUME \/ UNCHANGED vars \/ DeskScan \/ LoopFlatten \/ Crash
             \/ \E p \in Pos : DeskPass(p) \/ LoopExit(p) \/ Reap(p)
             \/ \E S \in SUBSET Pos, h \in [Pos -> LoopHow] : LoopScan(S, h)
             \/ \E c \in Watchers, p \in Pos, r \in {"stop", "target"} : Judge(c, p, r)
             \/ \E o \in OrdNo : \/ FallbackSteps(o) \/ Execute(o)
                                 \/ \E n \in 1 .. Lot : RecordFill(o, n)
      PROVE  row' = row
  BY <1>7 DEF vars, DeskScan, LoopFlatten, Crash, DeskPass, LoopExit, Reap, LoopScan, Judge,
       FallbackSteps, FallbackWakes, FallbackCancels, FallbackSettles, FallbackCaps,
       FallbackAccepted, FallbackEnds, Execute, RecordFill, ledgerVars
<1> QED BY <1>3, <1>4, <1>5, <1>6, <1>7 DEF Next

LEMMA RouteStep ==
    ASSUME IInv, SenderInv, RouteInv, AsksForTargets, [Next]_vars
    PROVE  RouteInv'
<1>1. /\ co \in [Coroutine -> CoType] /\ Watchers \subseteq Coroutine /\ ~CancelEntryOnExit
      /\ ExitId \subseteq OrderId
  BY DEF IInv, TypeOK, Watchers, Coroutine, Loops, AsksForTargets, OrderId
<1>2. ASSUME NEW p \in Pos PROVE how'[p] = "auto"
  <2>1. CASE LoopFlatten \/ \E S \in SUBSET Pos, h \in [Pos -> LoopHow] : LoopScan(S, h)
    <3>1. LoopHow = {"auto"}
      <4>1. SentAtOnce("timeout") /\ DeskEnabled /\ ~DeskLimited
        BY DEF SentAtOnce, AsksForTargets
      <4> QED BY <4>1 DEF LoopHow, Route
    <3> QED BY <2>1, <3>1 DEF LoopFlatten, LoopScan
  <2>2. CASE how' = how
    BY <2>2 DEF RouteInv
  <2> QED BY <2>1, <2>2 DEF Next, vars, memVars, DeskScan, Crash, Propose, DeskPass, LoopExit, Reap,
       Reject, Expire, Judge, Request, ApproveEntry, ManualExit, ManualVoid, ApproveExit,
       Continue, ProposalInserted, ProposalMarked, BalanceRead, EntryCancelled, OrderSteps,
       OrderAccepted, OrderRefused, ShortOfMargin, CallFailed, OrderAnswered, FallbackSteps,
       FallbackWakes, FallbackCancels, FallbackSettles, FallbackCaps, FallbackAccepted,
       FallbackEnds, Execute, RecordFill
<1>3. ASSUME NEW c \in Coroutine
      PROVE  /\ c \in Watchers => co'[c].kind \in {"idle", "exit", "propose"}
             /\ co'[c].kind = "propose" => c \in Watchers
             /\ co'[c].kind # "entry" => co'[c].tries = 0
             /\ co'[c].kind = "entry" => co'[c].row \in Pos
             /\ co'[c].kind = "approval" =>
                   co'[c].row \in ExitId /\ row'[co'[c].row].pos = co'[c].pos
             /\ co'[c].kind \notin {"entry", "approval"} => co'[c].row = None
  <2>1. CASE co'[c] = Idle
    BY <2>1 DEF Idle
  <2>2. co[c].kind = "approval" => row'[co[c].row].pos = co[c].pos
    <3>1. co[c].kind = "approval" => /\ co[c].row \in ExitId /\ row[co[c].row].pos = co[c].pos
                                     /\ row[co[c].row].status # "none"
      BY DEF RouteInv, IInv, CoInv, CoOK
    <3> QED BY <1>1, <3>1, RowKeepsPosition
  <2>3. CASE co'[c] = co[c]
    BY <2>2, <2>3 DEF RouteInv
  <2>4. CASE Continue(c)
    BY <1>1, <2>1, <2>2, <2>4, GoesOn DEF RouteInv
  <2>5. CASE Starts(c)
    <3>1. co'[c].kind = "approval" => row'[co'[c].row].pos = row[co'[c].row].pos
      BY <1>1, <2>5, StartsOn, RowKeepsPosition
    <3> QED BY <1>1, <2>5, <3>1, StartsOn
  <2>6. CASE Crash
    BY <2>1, <2>6 DEF Crash
  <2> QED BY <2>3, <2>4, <2>5, <2>6, CoroutineMoves
<1> QED BY <1>1, <1>2, <1>3 DEF RouteInv

(* Only a claim makes a watcher hold a position. *)
LEMMA HolderIsNew ==
    ASSUME IInv, SenderInv, RouteInv, ~CancelEntryOnExit, [Next]_vars,
           NEW w \in Watchers, NEW p \in Pos, Holds(w, p)', ~Holds(w, p)
    PROVE  \E r \in {"stop", "target"} : Judge(w, p, r)
<1>1. /\ co \in [Coroutine -> CoType] /\ w \in Coroutine /\ w # "loop" /\ w \notin Users
      /\ co'[w] # co[w]
  BY ExecutionAssumption DEF IInv, TypeOK, Watchers, Coroutine, Loops, Holds
<1>2. co'[w] # Idle
  BY DEF Holds, Idle
<1>3. ~Crash
  BY <1>1, <1>2 DEF Crash
<1>4. ~Continue(w)
  BY <1>1, <1>2, GoesOn DEF Holds
<1>5. PICK q \in Pos, r \in {"stop", "target"} : Judge(w, q, r)
  BY <1>1, <1>3, <1>4, CoroutineMoves DEF Starts
<1>6. co'[w].pos = q
  <2>1. CASE co' = [co EXCEPT ![w] = ExitStart(q, snap[w][q], FALSE)]
    BY <1>1, <2>1 DEF ExitStart, Idle
  <2>2. CASE co' = [co EXCEPT ![w] = ProposalStart(q, snap[w][q])]
    BY <1>1, <2>2 DEF ProposalStart, Idle
  <2> QED BY <1>5, <2>1, <2>2 DEF Judge
<1> QED BY <1>5, <1>6 DEF Holds

(* An exit order is born of a proposal. *)
LEMMA ExitOrderIsNew ==
    ASSUME IInv, [Next]_vars, NEW x \in ExitId, row[x].status = "none", row'[x] # row[x]
    PROVE  \E c \in Coroutine : ProposalInserted(c, x)
<1>1. /\ row \in [OrderId -> RowType] /\ x \in OrderId /\ x \notin Pos
      /\ \A c \in Coroutine : co[c].row # x
  BY ExecutionAssumption DEF IInv, TypeOK, OrderId, CoInv, CoOK
<1>2. ASSUME NEW c \in Coroutine, Continue(c) PROVE ProposalInserted(c, x)
  <2>1. ASSUME NEW y \in ExitId, ProposalInserted(c, y) PROVE y = x
    BY <1>1, <2>1 DEF ProposalInserted
  <2>2. ~EntryCancelled(c)
    BY <1>1 DEF EntryCancelled
  <2>3. ASSUME OrderRefused(c) \/ CallFailed(c) \/ OrderAnswered(c) PROVE FALSE
    <3>1. row' = row \/ \E st : row' = RowWritten(c, st)
      BY <2>3 DEF OrderRefused, CallFailed, OrderAnswered, NotSent
    <3> QED BY <1>1, <3>1 DEF RowWritten
  <2>4. ~\E b \in 0 .. Lot : ShortOfMargin(c, b)
    BY <1>1 DEF ShortOfMargin
  <2>5. ~ProposalMarked(c) /\ ~BalanceRead(c) /\ ~OrderAccepted(c)
    BY DEF ProposalMarked, BalanceRead, OrderAccepted, ledgerVars
  <2> QED BY <1>2, <2>1, <2>2, <2>3, <2>4, <2>5 DEF Continue, OrderSteps
<1>3. ASSUME NEW c \in Users, Request(c) PROVE FALSE
  BY <1>1, <1>3 DEF Request, ApproveExit, ApproveEntry, ManualExit, ManualVoid, AwaitsDecision,
                    ledgerVars
<1>4. ASSUME NEW p \in Pos, Propose(p) PROVE FALSE
  BY <1>1, <1>4 DEF Propose
<1>5. ASSUME NEW k \in OrderId, Reject(k) \/ Expire(k) PROVE FALSE
  BY <1>1, <1>5 DEF Reject, Expire, AwaitsDecision
<1>6. ASSUME \/ UNCHANGED vars \/ DeskScan \/ LoopFlatten \/ Crash
             \/ \E p \in Pos : DeskPass(p) \/ LoopExit(p) \/ Reap(p)
             \/ \E S \in SUBSET Pos, h \in [Pos -> LoopHow] : LoopScan(S, h)
             \/ \E c \in Watchers, p \in Pos, r \in {"stop", "target"} : Judge(c, p, r)
             \/ \E o \in OrdNo : \/ FallbackSteps(o) \/ Execute(o)
                                 \/ \E n \in 1 .. Lot : RecordFill(o, n)
      PROVE  FALSE
  BY <1>6 DEF vars, DeskScan, LoopFlatten, Crash, DeskPass, LoopExit, Reap, LoopScan, Judge,
       FallbackSteps, FallbackWakes, FallbackCancels, FallbackSettles, FallbackCaps,
       FallbackAccepted, FallbackEnds, Execute, RecordFill, ledgerVars
<1> QED BY <1>2, <1>3, <1>4, <1>5, <1>6 DEF Next

(* An exit order begins to wait when the watcher that holds the position   *)
(* writes it; a dead order does not come back.                             *)
LEMMA WaitIsNew ==
    ASSUME IInv, SenderInv, RouteInv, [Next]_vars,
           NEW x \in ExitId, NEW p \in Pos, Waits(x, p)', ~Waits(x, p)
    PROVE  \E c \in Watchers : Holds(c, p) /\ ProposalInserted(c, x)
<1>1. /\ row \in [OrderId -> RowType] /\ x \in OrderId /\ x # None
      /\ co \in [Coroutine -> CoType]
  BY ExecutionAssumption DEF IInv, TypeOK, OrderId
<1>2. row[x].status = "none"
  <2>1. ASSUME row[x].status # "none", Live(x) PROVE FALSE
    BY <1>1, <2>1, RowKeepsPosition DEF Waits
  <2>2. ASSUME row[x].status # "none", ~Live(x) PROVE FALSE
    <3>1. row'[x].status # row[x].status /\ row[x].status \notin {"none", "pending"}
      BY <2>2 DEF Waits, Live
    <3>2. PICK c \in Coroutine : co[c].row = x
      BY <1>1, <3>1, RowMoves
    <3> QED BY <1>1, <2>2, <3>2 DEF SenderInv, Live
  <2> QED BY <2>1, <2>2
<1>3. PICK c \in Coroutine : ProposalInserted(c, x)
  <2>1. row'[x] # row[x]
    BY <1>2 DEF Waits, Live
  <2> QED BY <1>2, <2>1, ExitOrderIsNew
<1>4. co[c].pc = "insert" /\ co[c].kind = "propose"
  BY <1>3 DEF ProposalInserted, IInv, CoInv, CoOK
<1>5. co[c].pos = p
  BY <1>1, <1>3 DEF ProposalInserted, Waits
<1> QED BY <1>3, <1>4, <1>5 DEF RouteInv, Holds

(* A position that is held becomes claimable only when its holder lets go. *)
LEMMA HolderLetsGo ==
    ASSUME IInv, SenderInv, RouteInv, ~MarginOnSell, [Next]_vars, NEW p \in Pos, HeldFor(p),
           ~Unclaimed(p), Unclaimed(p)'
    PROVE  \/ \E w \in Watchers : Holds(w, p) /\ ~Holds(w, p)'
           \/ \E x \in ExitId : Waits(x, p) /\ ~Waits(x, p)'
<1>1. /\ pos \in [Pos -> PosType] /\ co \in [Coroutine -> CoType] /\ row \in [OrderId -> RowType]
      /\ ExitId \subseteq OrderId /\ Watchers \subseteq Coroutine
  BY DEF IInv, TypeOK, OrderId, Watchers, Coroutine, Loops
<1>2. pos[p].status # "none"
  <2>1. ASSUME NEW w \in Watchers, Holds(w, p) PROVE pos[p].status # "none"
    BY <1>1, <2>1 DEF Holds, IInv, CoInv, CoOK, Known
  <2>2. ASSUME NEW x \in ExitId, Waits(x, p) PROVE pos[p].status # "none"
    BY <2>2 DEF Waits, Live, IInv, ExitRowInv, Known
  <2> QED BY <2>1, <2>2 DEF HeldFor
<1>3. ~(pos'[p].status = pos[p].status /\ pos'[p].pending = pos[p].pending)
  BY DEF Unclaimed, IsOpen
<1>4. ASSUME NEW c \in Coroutine, OrderRefused(c) \/ CallFailed(c)
      PROVE  \/ \E w \in Watchers : Holds(w, p) /\ ~Holds(w, p)'
             \/ \E x \in ExitId : Waits(x, p) /\ ~Waits(x, p)'
  <2>1. PICK st \in {"rejected", "pending", "error"} :
           NotSent(c, st) /\ (co[c].tries = 0 => st # "pending")
    <3>1. CASE OrderRefused(c)
      BY <1>3, <3>1 DEF OrderRefused, RefusedStatus
    <3>2. CASE CallFailed(c)
      <4>1. co[c].tries = 0 => ~(co[c].tries > 0)
        OBVIOUS
      <4> QED BY <3>2, <4>1 DEF CallFailed
    <3> QED BY <1>4, <3>1, <3>2
  <2>2. /\ row' = RowWritten(c, st) /\ co'[c] = Idle
        /\ pos' = WithPending(co[c].pos, FALSE) /\ (co[c].kind = "approval" \/ c \in Watchers)
    BY <1>1, <1>3, <2>1 DEF NotSent, LockDropped
  <2>3. co[c].pos = p
    BY <1>1, <1>3, <2>2 DEF WithPending, PosType
  <2>4. co[c].kind \in {"entry", "approval", "exit"}
    BY <1>4 DEF OrderRefused, CallFailed, IInv, CoInv, CoOK
  <2>5. CASE co[c].kind = "approval"
    <3>1. PICK x \in ExitId : x = co[c].row
      BY <2>5 DEF RouteInv
    <3>2. Waits(x, p)
      <4>1. x # None
        BY ExecutionAssumption
      <4> QED BY <2>3, <2>5, <3>1, <4>1 DEF RouteInv, SenderInv, Waits, Live
    <3>3. row'[x].status = st /\ st # "pending"
      BY <1>1, <2>1, <2>2, <2>5, <3>1, ExecutionAssumption DEF RowWritten, RouteInv, RowType
    <3>4. ~Waits(x, p)'
      BY <3>3 DEF Waits, Live
    <3> QED BY <3>2, <3>4
  <2>6. CASE c \in Watchers /\ co[c].kind # "approval"
    <3>1. co[c].kind = "exit" /\ co[c].row = None
      BY <1>1, <2>4, <2>6 DEF RouteInv
    <3> QED BY <2>2, <2>3, <2>6, <3>1 DEF Holds, RowWritten, Idle
  <2> QED BY <2>2, <2>5, <2>6
<1>5. ASSUME NEW i \in OrderId, Reject(i) \/ Expire(i)
      PROVE  \E x \in ExitId : Waits(x, p) /\ ~Waits(x, p)'
  <2>1. i \in ExitId /\ pos' = WithPending(row[i].pos, FALSE) /\ row[i].status = "pending"
    BY <1>3, <1>5 DEF Reject, Expire, AwaitsDecision
  <2>2. row[i].pos = p
    BY <1>1, <1>3, <2>1 DEF WithPending, PosType
  <2>3. row'[i].status \in {"rejected", "expired"}
    BY <1>1, <1>5 DEF Reject, Expire, RowType
  <2> QED BY <2>1, <2>2, <2>3 DEF Waits, Live
<1>6. ASSUME NEW c \in Coroutine, ProposalMarked(c) PROVE FALSE
  BY <1>1, <1>3, <1>6 DEF ProposalMarked, WithPending, Unclaimed, IsOpen, PosType
<1>7. ASSUME NEW c \in Coroutine, BalanceRead(c) PROVE FALSE
  BY <1>1, <1>3, <1>7 DEF BalanceRead, Voided, Unclaimed, IsOpen, PosType
<1>8. ASSUME NEW c \in Coroutine, OrderAnswered(c) PROVE FALSE
  BY <1>1, <1>2, <1>3, <1>8 DEF OrderAnswered, Opened, Closed, Unclaimed, IsOpen, PosType
<1>9. ASSUME NEW q \in Pos, Reap(q) PROVE FALSE
  BY <1>1, <1>3, <1>9 DEF Reap, Voided, Unclaimed, IsOpen, PosType
<1>10. ASSUME NEW w \in Watchers, NEW q \in Pos, NEW r, Judge(w, q, r) PROVE FALSE
  BY <1>1, <1>3, <1>10 DEF Judge, WithPending, Unclaimed, IsOpen, PosType
<1>11. ASSUME NEW o \in OrdNo, NEW n \in 1 .. Lot, RecordFill(o, n) PROVE FALSE
  <2>1. pos'[p] = pos[p] \/ pos'[p] = [pos[p] EXCEPT !.qty = n, !.conf = TRUE]
    BY <1>1, <1>11 DEF RecordFill, QtyAfterFill
  <2> QED BY <1>1, <1>3, <2>1 DEF PosType
<1>12. ASSUME \/ UNCHANGED vars \/ Crash \/ DeskScan \/ LoopFlatten
              \/ \E q \in Pos : Propose(q) \/ DeskPass(q) \/ LoopExit(q)
              \/ \E S \in SUBSET Pos, h \in [Pos -> LoopHow] : LoopScan(S, h)
              \/ \E c \in Users : Request(c)
              \/ \E o \in OrdNo : FallbackSteps(o) \/ Execute(o)
       PROVE  FALSE
  BY <1>3, <1>12 DEF vars, Propose, DeskPass, LoopExit, LoopScan, DeskScan, LoopFlatten, Request,
       ApproveEntry, ManualExit, ManualVoid, ApproveExit, FallbackSteps, FallbackWakes,
       FallbackCancels, FallbackSettles, FallbackCaps, FallbackAccepted, FallbackEnds,
       Execute, Crash, ledgerVars
<1>13. ASSUME NEW c \in Coroutine,
              \/ EntryCancelled(c) \/ OrderAccepted(c) \/ \E x \in ExitId : ProposalInserted(c, x)
              \/ \E b \in 0 .. Lot : ShortOfMargin(c, b)
       PROVE  FALSE
  BY <1>3, <1>13 DEF EntryCancelled, OrderAccepted, ShortOfMargin, ProposalInserted, ledgerVars
<1> QED BY <1>4, <1>5, <1>6, <1>7, <1>8, <1>9, <1>10, <1>11, <1>12, <1>13
        DEF Next, Continue, OrderSteps

LEMMA HolderStep ==
    ASSUME IInv, SenderInv, RouteInv, HolderInv, AsksForTargets, [Next]_vars
    PROVE  HolderInv'
<1> SUFFICES ASSUME NEW p \in Pos
             PROVE  /\ \A v, w \in Watchers : Holds(v, p)' /\ Holds(w, p)' => v = w
                    /\ \A w \in Watchers, x \in ExitId : ~(Holds(w, p)' /\ Waits(x, p)')
                    /\ \A x, y \in ExitId : Waits(x, p)' /\ Waits(y, p)' => x = y
                    /\ HeldFor(p)' => ~Unclaimed(p)'
  BY DEF HolderInv
<1>1. /\ \A v, w \in Watchers : Holds(v, p) /\ Holds(w, p) => v = w
      /\ \A w \in Watchers, x \in ExitId : ~(Holds(w, p) /\ Waits(x, p))
      /\ \A x, y \in ExitId : Waits(x, p) /\ Waits(y, p) => x = y
      /\ HeldFor(p) => ~Unclaimed(p)
  BY DEF HolderInv
<1>2. /\ ~CancelEntryOnExit /\ ~MarginOnSell
      /\ Watchers \subseteq Coroutine /\ ExitId \subseteq OrderId
      /\ co \in [Coroutine -> CoType] /\ row \in [OrderId -> RowType]
      /\ pos \in [Pos -> PosType]
  BY DEF AsksForTargets, Watchers, Coroutine, Loops, OrderId, IInv, TypeOK
<1>3. ASSUME NEW w \in Watchers, Holds(w, p)', ~Holds(w, p)
      PROVE  /\ Unclaimed(p) /\ ~Unclaimed(p)' /\ ~HeldFor(p)
             /\ \A v \in Watchers : v # w => ~Holds(v, p)'
             /\ \A x \in ExitId : ~Waits(x, p)'
  <2>1. PICK r \in {"stop", "target"} : Judge(w, p, r)
    BY <1>2, <1>3, HolderIsNew
  <2>2. Unclaimed(p) /\ ~HeldFor(p)
    BY <1>1, <2>1 DEF Judge
  <2>3. ~Unclaimed(p)'
    BY <1>2, <2>1 DEF Judge, WithPending, Unclaimed, PosType
  <2>4. ASSUME NEW v \in Watchers, v # w PROVE ~Holds(v, p)'
    <3>1. co'[v] = co[v]
      BY <1>2, <2>1, <2>4 DEF Judge
    <3> QED BY <2>2, <3>1 DEF Holds, HeldFor
  <2>5. ASSUME NEW x \in ExitId PROVE ~Waits(x, p)'
    BY <2>2, WaitIsNew DEF HeldFor
  <2> QED BY <2>2, <2>3, <2>4, <2>5
<1>4. ASSUME NEW x \in ExitId, Waits(x, p)', ~Waits(x, p)
      PROVE  \E c \in Watchers : /\ Holds(c, p) /\ ~Holds(c, p)'
                                 /\ \A y \in ExitId : y # x => row'[y] = row[y]
                                 /\ pos' = pos
  <2>1. PICK c \in Watchers : Holds(c, p) /\ ProposalInserted(c, x)
    BY <1>4, WaitIsNew
  <2>2. co'[c].pc = "mark" /\ co'[c].kind = "propose"
    BY <1>2, <2>1 DEF ProposalInserted, IInv, CoInv, CoOK, CoType
  <2>3. \A y \in ExitId : y # x => row'[y] = row[y]
    BY <1>2, <2>1 DEF ProposalInserted
  <2> QED BY <2>1, <2>2, <2>3 DEF Holds, ProposalInserted
<1>5. ASSUME NEW v \in Watchers, NEW w \in Watchers, Holds(v, p)', Holds(w, p)' PROVE v = w
  BY <1>1, <1>3, <1>5
<1>6. ASSUME NEW w \in Watchers, NEW x \in ExitId, Holds(w, p)', Waits(x, p)' PROVE FALSE
  <2>1. Holds(w, p)
    BY <1>3, <1>6
  <2>2. ~Waits(x, p)
    BY <1>1, <2>1
  <2> QED BY <1>1, <1>4, <1>6, <2>1, <2>2
<1>7. ASSUME NEW x \in ExitId, NEW y \in ExitId, Waits(x, p)', Waits(y, p)', x # y PROVE FALSE
  <2>1. ASSUME NEW i \in ExitId, NEW j \in ExitId, i # j, Waits(i, p)', Waits(j, p)', ~Waits(i, p)
        PROVE  FALSE
    <3>1. PICK c \in Watchers : Holds(c, p) /\ \A k \in ExitId : k # i => row'[k] = row[k]
      BY <1>4, <2>1
    <3>2. Waits(j, p)
      BY <2>1, <3>1 DEF Waits, Live
    <3> QED BY <1>1, <3>1, <3>2
  <2> QED BY <1>1, <1>7, <2>1
<1>8. ASSUME HeldFor(p)', Unclaimed(p)' PROVE FALSE
  <2>1. \A w \in Watchers : Holds(w, p)' => Holds(w, p)
    BY <1>3, <1>8
  <2>2. HeldFor(p)
    BY <1>4, <1>8, <2>1 DEF HeldFor
  <2>3. ~Unclaimed(p)
    BY <1>1, <2>2
  <2>4. \A x \in ExitId : Waits(x, p)' => Waits(x, p)
    <3>1. pos' # pos
      BY <1>8, <2>3 DEF Unclaimed, IsOpen
    <3> QED BY <1>4, <3>1
  <2>5. \/ \E w \in Watchers : Holds(w, p) /\ ~Holds(w, p)'
        \/ \E x \in ExitId : Waits(x, p) /\ ~Waits(x, p)'
    BY <1>2, <1>8, <2>2, <2>3, HolderLetsGo
  <2> QED BY <1>1, <1>8, <2>1, <2>4, <2>5 DEF HeldFor
<1> QED BY <1>5, <1>6, <1>7, <1>8

(* At most one exit order of a position waits for approval or is being     *)
(* sent, with any number of approvals, rejections, expiries, failed calls  *)
(* and kills: when every exit is automatic, or when stops and time-outs    *)
(* are, the desk watches every position, no exit waits for an entry to be  *)
(* cancelled and no sell is refused for margin (propose_exit, claim_exit,  *)
(* exit_route).                                                            *)
THEOREM OneProposal ==
    ASSUME DeskEnabled,
           AutoApprove \/ (StopAuto /\ ~DeskLimited /\ ~CancelEntryOnExit /\ ~MarginOnSell)
    PROVE  Spec => []OneLiveProposal
<1>1. CASE AutoApprove
  <2>1. AllAuto
    BY <1>1 DEF AllAuto
  <2>2. Init => ClaimInv
    BY DEF Init, ClaimInv, NoRow, Idle, Unclaimed, ClaimIsExclusive, Watchers, Coroutine, Loops, OrderId
  <2>3. IInv /\ IInv' /\ ClaimInv /\ [Next]_vars => ClaimInv'
    BY <2>1, ClaimStep
  <2>4. ClaimInv => OneLiveProposal
    BY DEF ClaimInv, OneLiveProposal, Live
  <2> QED BY <2>2, <2>3, <2>4, Inductive, PTL DEF Spec
<1>2. CASE StopAuto /\ ~DeskLimited /\ ~CancelEntryOnExit /\ ~MarginOnSell
  <2>1. AsksForTargets /\ ~CancelEntryOnExit
    BY <1>2 DEF AsksForTargets
  <2>2. Init => SenderInv /\ RouteInv /\ HolderInv
    <3>1. Init => SenderInv
      BY DEF Init, SenderInv, Idle
    <3>2. Init => RouteInv
      BY DEF Init, RouteInv, Idle, Watchers, Coroutine, Loops
    <3>3. Init => HolderInv
      <4> SUFFICES ASSUME Init PROVE HolderInv
        OBVIOUS
      <4>1. \A w \in Watchers : \A p : ~Holds(w, p)
        BY DEF Init, Holds, Idle, Watchers, Coroutine, Loops
      <4>2. \A x \in ExitId : \A p : ~Waits(x, p)
        BY DEF Init, Waits, Live, NoRow, OrderId
      <4> QED BY <4>1, <4>2 DEF HolderInv, HeldFor
    <3> QED BY <3>1, <3>2, <3>3
  <2>3. IInv /\ IInv' /\ SenderInv /\ RouteInv /\ HolderInv /\ [Next]_vars
           => SenderInv' /\ RouteInv' /\ HolderInv'
    BY <2>1, DecisionStep, RouteStep, HolderStep
  <2>4. IInv /\ HolderInv => OneLiveProposal
    BY DEF IInv, ExitRowInv, Known, HolderInv, OneLiveProposal, Waits, Live
  <2> QED BY <2>2, <2>3, <2>4, Inductive, PTL DEF Spec
<1> QED BY <1>1, <1>2
=============================================================================
