# Verification of the hosub services

The repository is a set of small services that run side by side on one machine: an MCP server, a gateway to
local language models, a news monitor and an automatic stock-trading service, each one process with an event
loop over an SQLite file, and a dashboard that runs in the browser and talks to all of them. This directory
holds TLA+ models of the parts whose correctness depends on interleaving, failure and restart, the TLC
configurations that check them on small instances, and proofs of their main properties for every value of the
constants, checked by TLAPS.

Modelled: **order execution** in the trading service (`src/trading/app/trade/`), the **job scheduler** of the
language-model gateway (`src/llm-gateway/app/`) and the pages of the **dashboard** that act on them
(`src/static/`).
`PROJECT.json` lists components, runs, mutants, findings, hazards and theorems, and maps every definition to
the source lines it stands for.

    tlc -workers 2 -config ExecAuto.cfg MCOrderExecution.tla     # a run
    tlapm OrderSafetyProofs.tla                                  # the proofs of a module

## 1. The system

| Part | State it keeps | Operations | Talks to |
|---|---|---|---|
| trading: order execution (`trade/orders.py`, `ledger.py`, `desk.py`) | tables `orders`, `positions`, `exec_fills`; the row cache of the desk | propose, approve, reject, expire, execute an exit, follow it up; open, close, void, claim, reap, record a fill | the securities firm over REST and a WebSocket |
| trading: callers (`main.py`) | the loops' local lists | request handlers, `_ledger_loop`, `_on_fill`, `lifespan` | order execution |
| trading: reconciliation (`trade/fills.py`) | `exit_grace`, position rows | `sync_from_fills`, `adopt_residuals`, `divergence` | the firm's execution list, positions |
| trading: exit lines (`trade/exit_policy.py`, `breakeven.py`, `override.py`) | live stop and target of a row | trailing, break-even, time stop | the desk |
| trading: Kiwoom client (`kiwoom/`) | rate-limiter clock, token, subscriptions | paced calls, reaction to 429, reconnection | the firm |
| trading: signals and scout (`signals/`, `scout/`) | daily guard, watch list, candidates | entry gates, promotion, demotion | order execution, market data |
| trading: data, backtest, research, journal, export | bars, reports | batch computation | database |
| llm-gateway: scheduler and store (`scheduler.py`, `store.py`) | tables `jobs`, `usage`, `model_requests`; `_running`, `_last_model`, `_available`, `_events` | pick, claim, run, retry, recover; list, triage, pull | the model backend |
| llm-gateway: API (`main.py`) | tables of roles, service tokens, A/B runs | create, await, cancel a job; decide on, install, delete a model | scheduler |
| llm-gateway: backends, catalog, client library | none, caches | HTTP adapters, polling client | |
| tnm: pipeline (`pipeline/`, `notify/`) | item tables used as queues | embed, deduplicate, classify, digest | gateway, Slack |
| tnm: collection (`collect.py`, `collectors/`, `ingest.py`) | seen items, source clocks | crawl, insert or ignore | web sites |
| hosub MCP: jobs (`src/jobs.py`, `runner.py`) | job dictionary under a lock | submit, run, prune | worker threads |
| hosub MCP: OAuth (`src/oauth.py`) | clients, codes, tokens | register, authorise, exchange, refresh | browser, MCP client |
| hosub MCP: server, tools, policy, audit, gateway proxy | audit log | stateless per call | all of the above |
| dashboard: frame (`app.js`, `layout.js`, `chart.js`, `panels/`) | intervals of the page, arrangement of the cards in `localStorage`, window of the chart | navigate, poll, drag, resize, zoom | every page |
| dashboard: trading page and stock dialogue (`pages/trading.js`, `tradelib.js`) | memos of what was painted, fields being edited, disabled buttons | load, approve, reject, sell, void, switch, save | trading service through the proxy |
| dashboard: discovery, model and news pages (`scout.js`, `llm-models.js`, `tnm-settings.js`) | the same | load, add, remove, install, delete, compare, save | trading, gateway, tnm |

**How they interact.** Within a service there is one event loop: handlers, loops and callbacks are coroutines
that interleave only at an `await`; worker threads (`asyncio.to_thread`) commit to SQLite beside it. Between
services, and from the browser to the services, everything is HTTP. A stop or kill of a process loses the memory and keeps the tables.

**What is hard.** A value read before an `await` and used after it (the quantity to sell, the status of an
order, the blockers of a deletion). Two coroutines on one row. A call to the firm that times out although it
had its effect. Notices that are cumulative, can be lost and come before the answer to the order they are
about. A restart between two commits. Starvation in a scheduler with memory limits. In the browser: answers
that come in another order than the requests, a poll that repaints what the user is typing in, a memo ("nothing
changed") that is ahead of what is on the screen, a button that is disabled and never enabled. The `hazards` of
`PROJECT.json` list these at their lines, with the property that covers each, or why none does.

**What makes each part correct.**

* Order execution: the ledger never says more than the firm knows; a decision on an order stands; one exit of
  a position at a time; an exit sells what the ledger holds; a lock on a position has a reason and is dropped
  in the end; an approved order gets an outcome.
* Reconciliation: a fill counts for one position only; an adopted residual is not one that an exit is selling;
  repeated synchronisation changes nothing.
* Exit lines: a stop only tightens; stop and target do not cross.
* Kiwoom client: calls keep their distance with any number of waiters; one token is renewed once.
* Signals and scout: no more entries than slots, none after the daily stop; the watch list keeps to its cap.
* Gateway: memory within budget; a settled job stays settled; usage counted once; every waiter is woken; no
  starvation; a refused model is not asked for again; an approved one arrives.
* News pipeline: an item is classified or skipped, never both or neither; a digest is not sent twice.
* MCP jobs and OAuth: the pending limit holds; a finished job keeps its result until pruned; a code is used
  once.
* Dashboard: a page that was left stops polling; what is shown is of the thing its heading names; what the user
  typed is not lost and not sent for something else; a memo never hides a change for good; a switch of the desk
  has one request out; every button comes back.

## 2. Order execution

Modules: `Brokerage` (the firm, external), `OrderExecution` (extends it), `PositionLife` (the abstract
specification), `MCOrderExecution` (instances).

### State and code

| Variable | Code |
|---|---|
| `book`, `nextNo`, `held`, `free` | the firm's orders, numbered; shares in the account, and those not tied to a sell. What the code relies on: a sell beyond the free shares is refused, a cancel may come too late |
| `row` | table `orders`. The id of an entry order is the id of its position; `ExitId` are exit orders waiting for approval |
| `pos` | table `positions`: status, quantity, `exit_pending`, entry and exit order numbers, whether a fill confirmed it |
| `seen` | table `exec_fills`: cumulative execution last received, by order number |
| `co` | a coroutine: what it does (`kind`), what it awaits (`pc`), and its local variables (position, quantity, order number, tries left, whether the first try is a best-price order) |
| `fb` | the `_best_exit_fallback` task of an exit order |
| `snap` | position rows a loop read and still works through: `_POS_CACHE` for the reader, the row lists of `desk.tick` and `_ledger_loop` |
| `how` | the exit route `_ledger_loop` chose for a listed row |
| `crashes` | bound on kills |

Coroutines are the desk loop, the WebSocket reader, the 30-second ledger loop and any number of request
handlers. **One action is the code between two awaits.** `approve_and_send`, for instance, is `ApproveEntry`
or `ApproveExit` up to the first await, `EntryCancelled` when the cancel call returns, then `OrderAccepted`
(the firm has the order, its answer is on the way) and `OrderAnswered`, or `OrderRefused`, `ShortOfMargin` or
`CallFailed`. `CallFailed` may happen after `OrderAccepted`: a time-out of an order that did go out. The
synchronous database blocks hold no await and are atomic, except `propose_exit`, which runs in a thread and
commits twice (`ProposalInserted`, `ProposalMarked`). The reader records no executions while it awaits an
exit, because one coroutine does both.

Details of the code that the model keeps and a reader may not expect:

* an exit that went through approval has no follow-up of its remainder and no `exit_ord_no`;
* the void button acts after its await with no status guard, so it can void a position closed meanwhile
  (`PositionLife` therefore has a step from closed to void);
* `reap_unfilled` voids a position and leaves its entry order at the firm, and a notice that was lost is not asked
  for again, so what was bought then belongs to no position;
* after a margin cut and a time-out the row waits for approval again while the firm may hold the order, and an
  approval then buys a second time;
* an approved sell that the firm refuses for a shortage of margin waits for approval again, but with its lock
  dropped (`RefusedStatus`, `orders.py:682, 712`), so a second proposal may join it; `MarginOnSell` says whether the
  firm does that, and `OneProposal` is proved for a firm that does not;
* beyond `desk.max_symbols` the 30-second loop judges all lines as well as the desk (`Route`, `LoopHow`,
  `DeskLimited`), so both may exit or propose;
* `reap_unfilled` looks at a balance of up to thirty seconds ago: shares bought since are missed unless their notice
  was recorded (`AccountShowsNone`);
* a kill after `claim_exit` leaves `exit_pending` set: only the end-of-day sweep, which ignores the lock,
  sells that position; and a row written `approved` stays so;
* a reject that lands between the two commits of `propose_exit` leaves the lock without an order. With exit
  proposals on, `HeldBackForReason` is violated by this state; the run that checks it has automatic approval.

Abstracted: prices (any watched position may hit a stop or a target at any time), profit figures, the
substitution of inverse ETFs for shorts, live stop and target lines, and the reconciliation of `fills.py`.
Every position has its own stock (`one_position_per_symbol`).

### Abstract specification

`PositionLife` says what a position goes through whoever acts on it: opened at most once and only after the
firm took a buy, sold only once opened, closed only after an accepted sell, void for good. `LifeSpec` is its
specification under the mapping of `pos` and `book`; it is checked as a property and proved.

### Runs

| Run | Instance | Checks | Result |
|---|---|---|---|
| `ExecEntry` | 1 position, 1 exit order, 2 requests, lot 4, 1 firm order, desk off, margin refusals of sells, 1 kill (816,536 states) | `TypeOK`, `DecisionIsFinal` | pass |
| `ExecAuto` | 1 position, 1 request, lot 2, 2 orders, automatic approval, desk on and over its limit (340,782 states) | `LedgerBackedByBroker`, `ClaimIsExclusive`, `ConfirmedQtyIsSeen`, `HeldBackForReason`, `ExitSellsWholeEntry`, `LifeSpec` | pass |
| `ExecApprovals` | 1 position, 2 exit orders, 2 requests, 2 firm orders, targets wait for approval | `OneLiveProposal`, `DecisionIsFinal` | pass |
| `ExecProgress` | 1 position, 1 request, 3 orders, fairness | `ClaimResolved`, `ApprovalAnswered` | pass |
| `ExecRejectRace` | 1 exit order, `cancel_entry_on_exit` | `DecisionIsFinal` | violated (finding 1) |
| `ExecStaleQty` | lot 2, automatic approval | `ExitSellsLedgerQty` | violated (finding 2) |
| `ExecTwoSellers` | lot 1, automatic approval | `OneExitAtATime` | violated (finding 3) |

`ExitSellsWholeEntry` is about an exit that ends its entry order first: when the wait is over it sells every share
the firm bought, provided the notices have come, although the quantity it was called with is older. It breaks when
the quantity is not read again, and also when the quantity an entry was opened with is not the ordered one: notices
that overtook the answer to the order are then lost to the ledger. `ConfirmedQtyIsSeen` relates every open position
to the executions recorded of its order, confirmed or not.

*Bounds.* Positions share no row, no lock and, with one stock each, no shares, so one position meets every
interleaving of coroutines the code has; what positions share is the loops, and the proofs cover any number
of positions. Two request handlers are enough for two decisions on one order. A lot of four lets the margin
loop cut three times, which is its limit; a lot of two lets an entry be half filled when an exit begins, which
is where quantities go wrong. Two firm orders are an entry and an exit, a third is the follow-up or a second
exit. One kill reaches each point where one can happen. `CHECK_DEADLOCK FALSE`: the order numbers are bounded,
so a behaviour may really end.

*Fairness.* Weak fairness of each coroutine's `Continue`: an awaited call returns, fails, or is ended by the
time limit of the HTTP client, and a worker thread ends. Nothing is assumed of the users, the firm's
executions, the scans of the loops or their decisions.

## 3. The gateway's scheduler

Modules: `LlmScheduler`, `JobPromise` (the abstract specification), `MCLlmScheduler` (instances).

### State and code

| Variable | Code |
|---|---|
| `job`, `earlier`, `old` | table `jobs`: status and attempts; creation order; rows that waited `starvation_seconds` |
| `usage`, `req` | tables `usage` and `model_requests` |
| `lane` | `_running`, with what the lane awaits: the generation or the pause before a retry |
| `lastModel`, `available` | `_last_model`, `_available` (unknown when the backend did not answer) |
| `waiting` | the events a synchronous request waits on (`_events`, `wait_for`) |
| `loop` | `_models_loop`: idle, awaiting the model list, about to triage, awaiting a pull |
| `deleting` | the models for which `admin_delete_model` is between its checks and the backend's answer |
| `up`, `kills`, `installed`, `removals` | the process, and the backend's models |

A job id stands for a kind of request: its lane, model and priority are constants, and `Purge` frees the id
for the next one, so a finite set of ids gives infinitely many jobs. `Pick` is `_pick` with `claim` and the
start of `_run`, one step because nothing in it awaits; it fails the jobs that can never fit first. The
outcomes of a generation are `GenerateSucceeds`, `GenerateRetried` (requeue, and the lane keeps its memory
through `BackoffEnds`) and `GenerateFails`. `DeleteStart` and `DeleteEnds` are the two halves of
`admin_delete_model`, with everything else possible in between. `Kill` loses the memory at any point,
`KillInFinish` does so between the commit of a job's status and that of its usage, and `Start` is
`Scheduler.start` with `recover_running`.

Abstracted: what a model answers (any call may end in any way), role overrides and measured sizes that change
at run time (`Size` is fixed; the roles that name a model may come and go, `Embeds` and `Unused`), A/B
comparisons (they queue ordinary jobs), audit, metrics, pull percentages, loose matching of model names. Deletions
of several models may be under way, of one model only once: a second request does nothing that the first does not. The
triage of at most 200 queued jobs is taken to reach all of them. A kill while several hopeless jobs are being
failed one by one is modelled for one of them.

### Abstract specification

`JobPromise` is what the service that queued a job may count on: it waits or is worked on until it is settled,
it is withdrawn only while it waits, and what is settled stays settled until purged. `PromiseKept` is its
specification under the mapping `Seen`; retries and restarts are steps from working back to waiting.

### Runs

| Run | Instance | Checks | Result |
|---|---|---|---|
| `LlmLanes` | 3 jobs over 2 lanes, sizes 1 and 2, budget 3, 1 retry, fairness | `TypeOK`, `MemoryWithinBudget`, `AttemptsBounded`, `NoLostWakeup`, `SmallJobServed` | pass |
| `LlmModels` | 2 jobs, one too large for the budget; requests, pull, deletion, 1 removal by hand, 1 kill | `UsageAtMostOnce`, `RunningHasLane`, `RefusalStands`, `PromiseKept` | pass |
| `LlmOldFirst` | the jobs of `LlmLanes` | `OldJobFirst` | violated (finding 4) |
| `LlmStuckPull` | 1 job, 1 model, 1 kill, fairness | `ApprovedModelArrives` | violated (finding 5) |

*Bounds.* The code has two lanes. Two large models do not fit together and a small one fits beside either, so
memory is contended and not merely full; the batch lane has two jobs of different models, so the affinity to
the loaded model and the starvation rule disagree. Ids are used again without limit, which is what a
starvation property needs. One retry shows the requeue and its end. One kill reaches each await and each pair
of commits, and the removal by hand makes the list the gateway keeps stale.

*Fairness.* Weak fairness of each lane, of the steps of the models loop and of the ageing of a job, strong
fairness of the pull of each approved model, and a stopped process is started again: the loops of `start` never
end while the process lives, each backend call has a time limit, the service unit restarts the process, and
`claim_approved_model` takes approved models in the order of their decision. Nothing is assumed of callers.
`SmallJobServed` is stated for jobs whose model fits beside any other, because for the others it is false
(finding 4).

## 4. The dashboard

One module per part of a page that keeps state of its own; `MCDashboard` puts them side by side.

| Module | Code | State | Property |
|---|---|---|---|
| `PageRouter` | `app.js`, a panel of `panels/` | the visit on the screen, the list of intervals and those that run, answers out, what a panel shows | `NavigationStopsPolling` |
| `CardLayout` | `layout.js` | the row of cards with widths and heights, `state`, `localStorage`, the drag or resize that is on | `ReloadKeepsArrangement` |
| `ChartView` | `chart.js` | bars, executions, window, drag, pointer, the frame due and the frame drawn | `WindowStartsOnBar`, `FrameUpToDate`, `ChartAlgorithms` |
| `OrdersCard` | `trading.js`, orders | status on the server, loads under way, `_memo.orders`, the card, quantity fields, focus, disabled buttons | `MemoIsPainted`, `TypedQuantityKept` |
| `RiskForm` | `trading.js`, risk and scan settings, override of the guard | settings on the server, the form, `_memo.risk`, focus, the box of the override and its disabled buttons, requests | `SaveShowsStored`, `SectionsIndependent` |
| `DeskSwitches` | `trading.js`, switches of the desk | settings on the server, what the switches show, which are disabled, requests | `OneSwitchInFlight` |
| `PositionsCard` | `trading.js`, positions | ledger and account, the table and its memo, the dialogue of closing and voiding | `HeldPositionVoidedKnowingly` |
| `StockModal` | `tradelib.js`, stock dialogue | stock in the title, tab, panes, watch-mode button, chart, interval, requests | `DialogueShowsItsStock`, `OneChartInterval` |
| `WatchPage` | `scout.js`, watch list with its rows' buttons, and candidates | list on the server and as the page knows it, memos, marks of the candidates, requests | `CandidatesMarkWatched` |
| `EnginePanel` | `scout.js`, discovery engine | tiers and mode on the server, memo, panel, disabled buttons, handlers | `DisabledButtonComesBack` |
| `ModelsPage` | `llm-models.js`, models and catalogue | models at the gateway, list, catalogue, the two selects | `ChosenAreListed` |
| `ModelCompare` | `llm-models.js`, comparison | the button, the loops that ask, the comparison shown | `ComparisonShowsNewest` |
| `TnmWatch` | `tnm-settings.js`, watch table | thresholds on the server, fields, `data-dirty`, focus, memo, handlers | `UnsentThresholdKept` |

**Actions.** A page's script is one thread, so an action is, as in the services, the code between two awaits: a
click up to its request, the answer to a request up to the next one. A request has two steps where the difference
shows: the server reads or writes (`Serve...`), and later the answer arrives. Between them other requests, other
tabs, the engine or the firm may change the server, so answers are stale, overtake each other, or never come
(`...Fails`). The server side is external to these modules and reduced to the value the page is about.

**The memo.** Most loads end in `if (!changed(key, data)) return`: the answer is compared with the last one and
the card is painted only when it differs. A handler that wants a repaint forgets the memo. Both sides are
modelled, because the properties are about where the two part: an answer remembered but not painted, a forgotten
memo remembered again by an older answer, a row repainted while its handler still holds the old button.

**History variables.** `warned` (the user was told the position is held), `unsent` (typed and not sent, and no
save of that row under way) and `mine` (the last write to `localStorage` is this tab's) are not in the code: they
say what the user did, for the properties to speak of. `touched` in `RiskForm` is the fields the user edited since
the click on "save".

**Run `Dashboard`** checks all of the properties above and `DashboardTypeOK`, the type invariants of the parts,
over 547,626 states: pass. The parts share no variable in the browser, so the variable `part` picks, in the
initial state, the one that moves, and the run explores the sum of their states instead of the product. A card
and the form beside it do meet on the server, which each module lets change at any time.

Three modules are run as two parts each, and the proofs are about the modules without these splits. `RiskForm`:
`"risk"`, where the settings do not let the loss guard be opened and the box of the override is hidden, and `"guard"`,
where they do and nobody edits the form; what the form shows and what the override disables are painted by one
function but do not depend on each other. `StockModal`: `"stock"`, where the chart tab is not opened, and `"bars"`,
where it and the first tab are and no stock is in the watch list; the chart and the panes of the other tabs meet
only in the stock of the title and in the tab that is open. `EnginePanel`: `"engine"`, where the mode stays, and
`"modes"`, where the tiers do; a change of either makes the panel new to the memo.

*Bounds.* Three bars, of which two are shown at first and three are the least zoom (`LastTime`, `DefCount`,
`MinZoom`): bars can come, go and be fewer than the window, and the one slot pointed at (`PointedSlots`) is on a bar or
beyond the last one. Three visits: a page left early, the page after it,
and one more navigation to stop what the first left running; two ticks of an interval overlap (`MaxVisits`,
`MaxTicks`). Two cards of two widths, one with a link that the browser drags instead of the card; three columns
are the least width. One order, two loads and one price move: a load overtaken by another and by the approval
(`MaxLoads`, `MaxPrice`, `MaxQty`). Two stocks, the tabs with one request and with two (`Lazy`), and two requests
under way: a late answer about the other stock; the news tab is handled as the basic information (`MaxCalls`).
An empty field and one out of range (`Typed`), one number of the risk section and the one of the scan section
(`RiskCells`, `ScanCells`), another tab that ticks the check box (`OtherTabs`), two handlers or polls under way in every form and card
(`Max...Runs`): a save against a poll. One stock and two versions of the candidates on the watch page with two
loads of them and one post. Two models, one of which the gateway needs. Three comparisons that ask twice instead
of three hundred times (`MaxCompares`, `MaxPolls`). The proofs drop all of these. `CHECK_DEADLOCK FALSE`: visits,
comparisons and price moves are bounded and a user may stop.

*Fairness.* None: a poll may fail for ever and a tab may be closed at any time, so nothing must happen. What
"comes back" means is stated without time: for a disabled button there is a handler under way that will enable it,
or nothing is remembered that would keep the next answer from repainting it.

**Details of the code that the modules keep** and a reader may not expect:

* *Router.* `ctx.addTimer` looks the list up when it is called (`app.js:117-140`): a page that awaits before it
  registers its interval adds it to the list of the page the user has moved on to, and it runs until the next
  navigation. A late alert lands on the next page, and of two overlapping ticks of a panel the older answer may be
  painted last.
* *Chart.* A drag begun on an empty chart keeps the empty window when bars have come (`chart.js:400-411`), and
  the wheel, whose least zoom is ten bars, shows blank slots when there are fewer.
* *Cards.* A card dragged to height zero shows its natural height but keeps the stored one
  (`layout.js:128-141`), so a reload brings the old height back; two tabs overwrite each other's arrangement.
* *Orders.* `approve` is enabled only by a repaint: when the load after a failed approval finds the same rows, it
  stays disabled until something changes (`trading.js:1153-1160`).
* *Risk form.* `loadRisk` records the memo although it skips the cell in focus (`trading.js:244-246`), which then
  stays behind until another value changes. The server applies the fields before a bad one and then refuses.
* *Loss guard.* A repaint enables or disables two of the three buttons of the override, whichever handler is under
  way, and touches none while the box is hidden (`trading.js:318-360`); `ClickOverride` keeps one handler per button.
* *Desk.* `renderDesk` empties the box before it asks for the element in focus (`trading.js:796-799`), so its
  guards never protect anything; it enables a number field whose request is still out; and a failed change of the
  target switch flips whatever is shown by then (769).
* *Positions.* After closing or voiding, the memo that is forgotten is `"pos"`, the one the load looks at is
  `"positions"` (`trading.js:666, 682, 859`): the table is repainted only if the answer differs. A position closed
  while the void request waits for the holdings is turned void all the same (`trading/app/main.py:1739-1760`,
  `ledger.py:847-861`).
* *Dialogue.* A late failure about one stock overwrites the tab of another (`tradelib.js:364-369`); the check of
  the code guards answers only. The chart tab drops no late answer: bars that were asked for under one title are
  painted under the next, with a key computed after the await (491-507), and the bars painted last stay until the
  first ones of the next stock arrive. `DialogueShowsItsStock` says for that tab what the code does keep: wrong bars
  give way to a load that is under way or that the interval makes, except on a past day, where the interval loads
  nothing (520) and the other stock's bars stay until the user does something. The interval is set even if the
  dialogue was closed or the tab left meanwhile (516-520). Two loads of one stock append two watch-mode buttons (288).
* *Engine panel.* A repaint while a row's request is out replaces the row, with an enabled button.
* *Models.* "Install this name" stays disabled for good after its first use (`llm-models.js:194-208`). An empty
  list of models leaves the two selects as they were. A comparison that outlasts its three hundred polls keeps
  its spinner (778); an answer without sides shows a warning and the loop goes on, a call that throws ends it.
* *News.* The answer to a save deletes the mark of a value typed meanwhile (`tnm-settings.js:176`), which is why
  `UnsentThresholdKept` leaves that case out, as it does a threshold whose save failed; a row marked and never saved keeps the table from being repainted.

## 5. What is proved

All proofs hold for any sets of positions, orders, requests, jobs, models and stocks and any value of the
numeric constants, under the named assumptions of the modules: `BrokerageAssumption`, `ExecutionAssumption`,
`SchedulerAssumption` and one per module of the dashboard (typing of the constants, names disjoint, positive
lot). Two of the latter say more: `LayoutAssumption`, that the page names each card once, that the bounds of a size
are positive and in order, and that what earlier versions stored lists known cards at most once; `StockAssumption`,
that the tab the dialogue opens on is one of those it loads. Where a theorem needs a configuration it says so. The
proof modules follow the parts: orders (`OrderExecutionProofs`, `OrderSafetyProofs`), gateway (`LlmSchedulerProofs`),
frame of the dashboard (`FrameProofs`: router, layout, chart), its pages (`TradingPageProofs`, `ScoutPageProofs`,
`FormProofs`) and their composition (`DashboardProofs`).

| Theorem | Module | Says | Extra assumption |
|---|---|---|---|
| `TypeCorrect` | OrderExecutionProofs | `Spec => []TypeOK` | |
| `LedgerBacked` | OrderExecutionProofs | a position exists and is closed only with the firm's orders behind it | |
| `ImplementsLife` | OrderExecutionProofs | `Spec => LifeSpec` | |
| `ConfirmedQty` | OrderSafetyProofs | an open position covers the executions recorded of its order, a confirmed one has exactly the last cumulative quantity | |
| `ExitSellsAll` | OrderSafetyProofs | an exit that ended its entry first sells every share the entry bought, once its notices have come | |
| `ClaimExclusive` | OrderSafetyProofs | cycle and tick callback never sell the same position | `AutoApprove`, `DeskEnabled` |
| `DecisionFinal` | OrderSafetyProofs | a decided order keeps its status | `~CancelEntryOnExit` |
| `HeldBack` | OrderSafetyProofs | until the first kill, a lock belongs to somebody at work | `AutoApprove`, `DeskEnabled` |
| `OneProposal` | OrderSafetyProofs | one live proposal for a position | `DeskEnabled`, and `AutoApprove` or else `StopAuto`, `~DeskLimited`, `~CancelEntryOnExit` and `~MarginOnSell` |
| `StoreTyped` | LlmSchedulerProofs | `Spec => []TypeOK` | |
| `BudgetKept` | LlmSchedulerProofs | memory within the budget | |
| `EveryRunHasLane` | LlmSchedulerProofs | running jobs are those of a lane | |
| `UsageOnce` | LlmSchedulerProofs | usage recorded at most once | |
| `WaitersWoken` | LlmSchedulerProofs | no waiter on a settled job | |
| `TriesBounded` | LlmSchedulerProofs | tries at most retries + 1 + restarts | |
| `RefusalKept` | LlmSchedulerProofs | a refusal is undone only by a decision | |
| `PromiseImplemented` | LlmSchedulerProofs | `Spec => PromiseKept` | |
| `WindowStaysOnBars` | FrameProofs | the chart's window starts on a bar | |
| `CanvasFollows` | FrameProofs | with no frame due, the canvas is current | |
| `AlgorithmsAgree` | FrameProofs | binary search and running sums do what their definitions say | |
| `ReloadShowsTheScreen` | FrameProofs | the stored layout is the one on the screen | |
| `StrayIntervalsEnd` | FrameProofs | a navigation stops every earlier interval | |
| `MemoNeverAhead` | TradingPageProofs | the memo of the orders is what was painted | |
| `TypingUndisturbed` | TradingPageProofs | no load disturbs a quantity being edited | |
| `DialogueOfOneStock` | TradingPageProofs | lazy tab and button are of the stock in the title, bars of another one give way unless a past day is chosen | |
| `ChartPolledOnce` | TradingPageProofs | at most one interval polls the chart | |
| `SwitchesOneAtATime` | TradingPageProofs | one request per guarded switch | |
| `VoidedKnowingly` | TradingPageProofs | a held position is voided only after a warning | |
| `MarksFollowWatchList` | ScoutPageProofs | candidates mark exactly the watched stocks | |
| `ButtonsComeBack` | ScoutPageProofs | no disabled button is forgotten | |
| `ChoiceFollowsList` | FormProofs | the comparison names listed models | |
| `NewestComparison` | FormProofs | the newest comparison is the one shown | |
| `ThresholdSurvives` | FormProofs | an unsent threshold is not repainted | |
| `SavesStayInSection` | FormProofs | a save writes its own section | |
| `SaveIsShown` | FormProofs | after a save the form shows what is stored | |
| `DashboardTyped` | DashboardProofs | `MCSpec => []DashboardTypeOK`, every part at once | |

**Order execution.** `LedgerBackedByBroker` is not inductive: closing a position says nothing of a sell unless
one knows that the coroutine that awaits the answer has an accepted sell of that position in the book. The
invariant `IInv` adds to the typing, for each coroutine, what its kind and its await say of its position, its
row and its order number; that a row names a known position; that a sell is only of a position once opened;
and that a follow-up belongs to an accepted sell. Its preservation has one lemma per action, and the temporal
theorems combine them. `QtyInv` is about quantities: what was recorded of an order was executed and never exceeds
what was ordered (`FillInv`), an entry whose answer is on the way was accepted for the quantity its coroutine holds
(`EntryInv`), and an open position covers what was recorded of its order (`ConfInv`). A notice that overtakes the
answer is therefore no more than the quantity the row will be opened with, and an exit that waited for its entry to
be ended finds, in what it reads again, every share whose notice has come (`ExitSellsAll`). `ClaimInv` says that a watcher at work has a position
that nobody can claim; it needs automatic approval, because the reject of a proposal drops the lock. The proof of
`DecisionFinal` shows (`SenderInv`) that the row a coroutine works on stays `approved`, and is no other's, until it
writes the outcome, and it uses
`~CancelEntryOnExit` at exactly one place: the await in front of the write of `approved`. With the setting on,
the statement is false (finding 1), so the assumption is as weak as the code allows.

`LockInv` says that until the first kill a lock on an open position belongs to a watcher that sells it, from
`ClaimInv` and the fact that only a request reads the balance. After a kill nobody owes the release: a full exit
that was under way leaves the lock, and nothing at start-up clears it, so `HeldBack` is stated up to the first kill.

`OneProposal` rests on `HolderInv`: a position has one holder at a time, a watcher from its claim to the end of its
exit or to the insertion of the proposal, the waiting proposal from then on, and a held position cannot be claimed.
`RouteInv` says who may propose (watchers only, with the desk on and the stops automatic), which row an approval works
on and that only an entry retries. `SenderInv` gives the rest: an approval under way has its own row. Each hypothesis
is needed. With `CancelEntryOnExit` a reject during the cancel drops the lock, a second proposal is made, and the
approval then writes `approved` over the first. With a margin refusal of an approved sell its row waits again without
a lock, and the desk proposes once more. Over its limit the desk shares the lines with the loop. With the desk off the 30-second loop inserts its proposal without a
lock and marks it afterwards, and a kill in between leaves a proposal and no lock; with the stops waiting for approval
as well, that loop proposes beside the desk (finding 3). `HolderInv`,
`RouteInv` and `SenderInv` were checked by TLC on the constants of `ExecApprovals` with one kill allowed
(2.6 million states) before they were proved.

**Scheduler.** The inductive invariant `Inv` is the conjunction of `TypeOK`, `RunningHasLane`,
`MemoryWithinBudget`, `UsageAtMostOnce`, `NoLostWakeup` and three parts that none of the runs state: `OwnJobs`
(a lane runs jobs of its own lane, so no job is in two), `DownIsIdle` (a process that is down has no memory)
and `TriesLeft` (the attempts of a job by its status, without which the bound cannot be carried over a
requeue or a restart). It says what a lane may rely on when its generation returns: the job is still running, nobody else
has it, its usage is not recorded, which is why `finish` may update it without a status guard. The theorem
`Inductive` is that invariant; the others, `StoreTyped` among them, follow from it.

**Dashboard.** Each theorem has an inductive invariant that says what the handlers under way may rely on.
`WindowInv`: a window without bars starts at 0, and so does the one a drag began with, or a drag that outlives its
bars would end beyond them. `DialogueInv`: not only the visible tab but every tab that counts as loaded is of the
dialogue's stock, for a click shows it without asking again; `BarsInv`: while the chart tab is shown, a load of its
stock is under way or the interval runs. `SwitchInv`: a guarded switch is disabled as long as a
handler of its own is under way, whatever repaints. `WarnedInv`: the request that insists is sent only for a
position the user was warned about. `MarksInv`: the remembered codes are the ones the page shows, so an answer that
says nothing new may leave the tables alone. `ButtonsInv`: a handler that waits for the repaint of its own row finds
the memo forgotten, because whoever remembered an answer since has painted the row away. `ListInv` adds what the
selects offer, `LoopInv` that there is one loop, of the newest click, as long as the button is disabled. `MarkInv`:
what was typed and not sent is marked, and no save under way takes that mark. `SectionInv` and `PaintInv`: a section
has one run; what its request carries of the other section is blank; and while it waits for its load, a known
memo was painted after the save into every field the user did not go back to. `AllListed`, that every interval
that runs is in the list the next navigation clears, is what makes late intervals harmless.

*The chart's algorithms* are proved for bars of any length (`BarIndexIs`, `RunningSumIs`; `AlgorithmsAgree` states
them for the bars on the chart). Both are recursive functions over data, so the proofs are by induction: a set of
naturals that holds 0 and is closed under successor holds them all (`SetInduction`, from the library's well-founded
order of the naturals). The recursive function exists because it is given explicitly (for the sums, by prefix
sums; for the search, by the last bar at or below the instant within the window, or the best so far), and what it
returns follows by induction on the length of the window.

*The layout.* `LayoutInv` says that the row of cards is a permutation of all cards, that what is remembered and
stored is well formed, that they agree while no other tab or full storage came in between, and that applying the
remembered order to the page's own cards gives the row on screen unless a card is in the hand. The last part needs
facts about the sequences: `Kept` filters a sequence as its definition says (`KeptFacts`), a permutation put first
leaves nothing over (`ReorderedRow`), and dropping a card anywhere gives a permutation again (`Inserted`). Of the
constants it takes `LayoutAssumption`.

*Types.* `DashboardTyped` is about the composition that the run checks, all parts side by side. Most type invariants
are inductive by themselves. Four are not: what a button of the discovery engine posts is of the button's kind
(`EngInv`), a comparison that waits has a poll left (`CompareInv`), before the dialogue is first opened nothing was
asked for it (`StockInv`), and the size of a card is in bounds because what was stored is (`LayoutInv`).

**Only model-checked.** Liveness (`ClaimResolved`, `ApprovalAnswered`, `SmallJobServed`): the prover does not
treat fairness or ENABLED. Every invariant and every action property of the passing runs is stated by a theorem.
The theorems of the order execution hold for the configurations in the table; outside them the statements are
either checked by a run or false, with the finding that shows it.

## 6. Findings

1. `ExecRejectRace`: an exit order rejected while its approval awaits the cancel of the entry is overwritten
   with `approved` and sent (`orders.py:656`, no status in the WHERE).
2. `ExecStaleQty`: when the entry fills up between the caller's read of the row and `execute_exit`, nothing is
   left to cancel, the quantity is not read again, and the rest stays in the account (`orders.py:335`).
3. `ExecTwoSellers`: the 30-second loop and the buttons exit without a claim, beside the desk that claims; the
   comments say `exit_pending` prevents it (`main.py:236`, `docs/trading/execution.md:63`). With stops waiting
   for approval and the desk on, the same lack of a claim lets a position have two proposals.
4. `LlmOldFirst`: the starvation rule comes after the memory filter, so "unconditionally" does not hold
   (`scheduler.py:258`).
5. `LlmStuckPull`: a stop during a pull leaves the request `pulling` and every handler refuses to touch it
   (`scheduler.py:105`).

## 7. Observations outside the models

Met while reading the pages, in code no module covers:

* `tnm-settings.js:245-256`: a failed poll of the brokers or reports replaces the list by an error message and
  leaves the memo, so the next answer, if it is the one from before, is not painted and the error stays.
* `trading.js:1276-1297`: the two-second poll of prices and the event stream write the same cells; an answer read
  before a tick and arriving after it puts the older price back until the next one.
* `scout.js:606-622`: `loadNightly` remembers its answer before the second await; `WatchPage` keeps that order, but
  the report beside the table is outside it.
* `llm.js`: two overlapping loads of the page each append a table of roles, because the box is emptied before the
  second await and filled after it.
* The search in the model catalogue: the answer to an older query may be painted over a newer one
  (`llm-models.js:282`).

## 8. Not modelled

* **Reconciliation** (`fills.py`): `sync_from_fills`, `adopt_residuals`, `divergence`, `residual_sell_due`. What
  these do right or wrong depends on how late, and how incomplete, the firm's execution list is; the code only says
  how it copes, and a model would prove what its author assumed of the firm. `PositionLife` allows the voids.
* **Exit lines, signals, scoring, backtest, research**: arithmetic on floating-point prices and indicators, in one
  loop, without a second actor. The order execution lets lines be hit, and entries be proposed, at any time.
* **News pipeline and collection**: workers that each poll one condition on one table. The hazards listed are a kill
  between two commits; nothing else competes for an item.
* **MCP jobs, OAuth, tools, proxy, policy, audit**: guarded by one lock or stateless per call, and the jobs keep
  nothing across a restart.
* **Kiwoom limiter and reconnection**: a clock and sleeps; the order execution lets any call fail or time out.
* **Other pages** (`backtest.js`, `llm.js`, `journal.js`, `rules.js` and the small ones): they load, show and post;
  `PageRouter` covers how they are opened and left. `backtest.js`, with its long-running jobs, and `llm.js` would be
  the next to model. Of the modelled pages, the credentials, the export of the journal, the signal table, the
  tokens and client files, and the prices in place are left out, as `PROJECT.json` says per component.
* **The language of the pages**: colours, formats and texts.
