# The Modern H15 Paper day, its publishers, the IBKR desk and the Loop outbox in TLA+

The repository is a US-equity research and paper-trading system in Python. Its one
automated trading path that is still allowed to start is the chain
`schedule/modern_funnel.py` -> `scripts/run_modern_funnel_stage.py` ->
`scripts/monitor_modern_momentum_paper.py`: a single loop that, for the symbols confirmed
before the open, buys with bracket orders at Alpaca Paper, watches the positions, and has
everything flat before the close. `operations/paper_runtime_policy.py:13` refuses to start
the older autonomous sessions. The specifications begin with this loop, its SQLite store
and the broker it talks to; they then take the funnel that decides what is traded and starts
the loop, the manual desk that trades a live IBKR account, and the outbox that sends a day's
review to the Loop platform. What these have in common is a step outside the process that
cannot be undone (an order, a push, a POST) and a row on disk that must say the truth about
it after a crash: the abstract specifications state that once.

## Inventory

| Component | State | Operations | Talks to | What is hard | What makes it correct |
|---|---|---|---|---|---|
| Modern monitor (`scripts/monitor_modern_momentum_paper.py`) | positions, attempts, completed and re-entry symbols in memory | start, poll, `reconcile_symbol_position`, `request_position_exit`, entry, minute exit | state store, Alpaca, alerts, lease | every broker call is a point where fills, failures and crashes come in | at most two long trades per symbol, never naked for good, flat at the end, one exit at a time |
| Paper state store (`operations/paper_state.py`) | `paper_orders`, `paper_symbol_state`, quotes | record, attach, abort, save, `assert_reconcilable` | monitor, recovery | a crash between two transactions or between one and a POST | an intent before every order; the next process recognises its own trace |
| Alpaca client (`execution/alpaca_paper.py`) | none | idempotent submit, cancel, lookups, lists | venue | lost replies, late POSTs, asynchronous cancels, lagging endpoints | a client order id is sent at most once more than it is lost |
| Outbox and `NotificationPump` (both files above) | `paper_outbox`, monitor cursor | enqueue, claim, deliver, mark, defer | push service, Feishu or VPS base | a thread beside the loop, a crash between claim and mark | no fill is announced twice, none is lost where the receiver is idempotent |
| Run lease (`paper_state.py:214`) | owner, expiry | `claim_run` | launcher, monitor, recovery | it is checked once per iteration and lasts 30 s | one writer per trade date |
| Prior-day recovery (`monitor:962-1196`, `paper_state.py:652`) | imported states and orders | `import_exit_recovery`, `recover_prior_day_tick` | old store, broker | half-finished days, foreign orders | sells only what is proven to be its own |
| Order management (`execution/order_state.py`, `ledger.py`, `engine.py`, `reconcile.py`, `recovery.py`) | lifecycle and events per order | create, transition, execute, reconcile | broker | crash between submission and transition, illegal regressions | legal transitions only, replay submits nothing twice |
| IBKR desk (`execution/ibkr_execution.py`, `ibkr_tws_adapter.py`) | binding, arming, preview in memory; order rows on disk | connect, bind, arm, preview, submit, recover | TWS | submission with unknown result, answers by callback, other logins | an uncertain order is looked up, never sent again; nothing is placed beside it |
| Time exit, synthetic stop, guardian (`execution/`) | one action row each | run_due, step, reconcile | broker | cancel races, fixed client ids, crash before the lock | never more sold than held |
| Emergency stop, alerts (`operations/`) | one flag; alert rows | activate, freeze, flush | all | one-way flag, deferred delivery | once stopped, stopped |
| Funnel (`schedule/modern_funnel.py`, `scripts/run_modern_funnel_stage.py`, `operations/modern_handoff.py`) | `funnel_runs`, frozen artifacts, notification ledger, authorised pool | tick: claim, run a stage, freeze, announce, authorise, launch the monitor | channel, base, monitor, run lease | two ticks, stages that outlast their row's lease, crashes between file, push and row | the first selection of a stage stands; trading only on what was announced; one monitor |
| Other schedules (`schedule/`) | stage state, process lock, child processes | run stage, supervise, restart | everything | restarts, two supervisors | each stage once per day |
| Loop review sync (`operations/loop_integration/`) | `loop_outbox`, receipts | stage, claim, create task, start run, poll, defer | Loop platform | POSTs that are not idempotent, lost answers, two processes, late answers | one review of a date; each POST once; terminal rows true and final |
| Loop outcomes (same directory) | receipts, policies | report | Loop platform | retries, conflicts | each outcome reported once and unchanged |
| Agent gateway (`agent_gateway/`) | requests, results, snapshots | claim, complete, replay | agents | concurrent claims, replays | one result per request |
| Adaptive plans (`operations/adaptive_plan_*.py`) | plan versions | propose, approve, apply | client | stale versions | only the approved version runs |
| Kernel (`kernel/`) | none | guardrails, sizing, arbitration, signals | engine, research | boundaries | first failing guard decides |
| Data plane, research, scripts, client, deploy | files, tables, views | I/O | - | - | not for a model checker |

`PROJECT.json` lists the same parts with what is modelled of each, and the hazards at
their lines.

## Modules

    AlpacaPaper          the venue: orders, legs, fills, cancels, late POSTs, lagging positions
      ModernMonitor      the loop, the store and the broker calls (EXTENDS AlpacaPaper)
        MCModernMonitor        for TLC
        ModernMonitor_proofs   theorems, for TLAPS: types and intents
          MonitorHoldings_proofs   orders, shares and the refinement of LongOnlyTrade
      LongOnlyTrade      what one symbol's day promises; ModernMonitor implements it
    PaperOutbox          what was committed, on its way to the push service and the base
        MCPaperOutbox          for TLC
        PaperOutbox_proofs     theorems, for TLAPS
    IbkrTws              the IBKR gateway and the adapter: logins, positions, orders, callbacks
      IbkrDesk           the execution desk and its ledger (EXTENDS IbkrTws)
        MCIbkrDesk             for TLC
        IbkrDesk_proofs        theorems, for TLAPS: the journal of the desk
          IbkrHoldings_proofs      what its open orders may buy and sell
    LoopOutbox           the review outbox, its processes and the platform
        MCLoopOutbox           for TLC
        LoopOutbox_proofs      theorems, for TLAPS
      OrderJournal       journalled, sent once, settled as answered; IbkrDesk implements
                         it for its orders, LoopOutbox for its task and its run POSTs
    SumTheorems          sums over finite sets, for the two *Holdings_proofs
    ModernFunnel         the funnel's day, its announcements, the hand-off and the run lease
        MCModernFunnel         for TLC
        ModernFunnel_proofs    theorems, for TLAPS

**AlpacaPaper** is the external part. An order is `[st, qty, filled]` under its client
order id. Ids are `<<attempt, role, n>>`: `order_id()` makes them from the attempt and the
role, and `-rN` is appended to an entry refused before its POST or to an exit whose
predecessor ended. An entry brings a stop and a target, held until it is filled, that share
its quantity. Fills come in any parts. A DELETE only requests a cancel; the order may still
fill before the cancel is confirmed. Four constants switch the venue's defects: the number
of failures (`MaxGlitches`: one failed call, lost or refused POST, rejection by the venue,
missing pair of legs, missed lookup or crash each), `PositionLag`, `LatePosts` and
`LookupGaps`. canceled, expired and rejected are one status, since the code asks only
whether an order is terminal and whether it is filled.

**ModernMonitor** is the program. `saved` is the row of `paper_symbol_state`, `mem` the
dictionary in the process, `row` the rows of `paper_orders`; `pc` and the locals say where
an iteration is. There is one action per broker call or store transaction, with the
computation up to the next one, so everything else can happen in between:

| Actions | Code |
|---|---|
| `Start`, `assert_reconcilable`, `Crash` | start-up, `monitor:1280-1382`, `paper_state.py:870-958` |
| `Tick`, `MinuteIdle`, `MinuteExit` | loop, `monitor:1400-1480`, `1798-1832` |
| `EntryLookup` ... `EntryReread` | phase `entry_pending`, `monitor:474-521` |
| `ActiveStop` ... `FlatOrders` | phase `active`, `monitor:522-584` |
| `CloseRemember`, `ExitPrevious` ... `ExitAttach` | `close()` and `request_position_exit`, `monitor:251-394`, `456-472` |
| `EntryIntent` ... `EntryAttach`, `abort_unsubmitted_entry` | protected entry, `monitor:1481-1797`, `paper_state.py:358-420` |
| `CallFails`, `PostLost` | `alpaca_paper.py:585-675` |

`Raise` is a RuntimeError or BrokerError: the iteration ends, the loop reports it and polls
again. `fault` remembers which one it was.

**LongOnlyTrade** is the abstract specification: idle, open, stopped, done; at most two
attempts; shares change hands only while one is open on the books; it is put away only
flat; a second attempt follows a stopped first one. The refinement mapping reads the stage
from the saved phase and the shares from the venue, so a crash anywhere between the POST and
the save must not be visible.

**PaperOutbox** begins where `save_symbol_state` commits. `observed` and `sequence` are the
facts: fills in the symbol states and journalled changes of state (one number stands for
all symbols and both channels). Any number of publishers work on the same files: *pumps*,
the notification thread of a monitor, of which a second exists when a lease was taken over,
and *syncs*, the script that runs after every tick. `w[p]` says what each is doing; every
transaction and every call is a step, and a crash or failure may come between any two.

| Actions | Code |
|---|---|
| `save_symbol_state`, `_monitor_transition` | one transaction of the loop, `paper_state.py:489-519`, `579-613` |
| `begin_pass`, `pending_monitor_transitions`, `end_pass` | `_deliver`, `poll`, `close`, `monitor:917-959`; `flush_pending`, `sync_investment_records.py:27-60` |
| `claim_push`, `push`, `mark_outbox_sent` | `_push_fill_once`, `monitor:705-746` |
| `claim_fill_record`, `claim_state` | `monitor:794-850`, `867-891` |
| `next_queued` | `vps_investment_base.py:171-176` |
| `queue_events`, `_write_lock`, `find_or_intend`, `append_record`, `readback`, `confirm` | `record_event`, `vps_investment_base.py:322-396` |
| `NotDelivered` (in `push`, `find_or_intend`, `readback`, `call_fails`) | the `except` branches: report, defer, stamp `last_attempt` |

The two receivers differ. The push service accepts the same message twice, so its row is
claimed once and never again; a row found "sending" is reported. The base can be searched,
so `record_event` may be repeated: it finds the record, or finds nothing and no intent and
appends, or finds an intent without a record and raises "uncertain write". An append that
timed out stays in `wire` and may arrive at any later time, or never.

A monitor that dies during the session is started again, so its pump goes back to "idle". The
last pass is another matter: `notifications.close` runs once, after the loop has ended at
`market_close` (`monitor:1400`, `1903-1905`); later ticks are not due (`modern_funnel.py:378`) and
the next day has a run directory of its own. A pump that dies there is "dead" for good, and so,
perhaps, is one that dies in an earlier pass (at the very end of the session).

**IbkrTws** is TWS and `OfficialIbapiAdapter`, for one symbol. An order is named by its
orderRef, the account and the client order id. It may be refused, taken, filled in parts or
cancelled at any time; TWS remembers it for good; the operator may log in to another account
at any time. The adapter waits for one order at a time and keeps the last status its callbacks
told of it, unless they told an error of its id, which beats any status (`submit`,
`ibkr_tws_adapter.py:694`). TWS tells errors of orders it has taken, too: 202 with a cancel, or any
code that `error` knows neither as information nor as a warning; `erred` remembers those orders.
The words of TWS are free text. `_normalize_status` knows a few and passes every other one on
(line 909), among them whatever `completedStatus` says (246-250): "raw" stands for those of an
order TWS has taken, "raw refusal" for those of one it refused. `seen` is the position already
read by a snapshot whose open orders are not: a sum of rows, since `reqPositions` stays subscribed
and `position` appends every row it is told (`RowAgain`), until both requests are answered.

**IbkrDesk** is `ExecutionDesk`. A lock makes its commands one at a time, and each is several
calls of the adapter and commits of the ledger, one action each; `pc`, `kind`, `order`,
`todo` and `key` say where the command is. Only `row` and the stored binding outlive the process.

| Actions | Code |
|---|---|
| `Look`, `Disarm`, `Arm`, `Disconnect`, `Connect`, `Bind`, `Recover`, `Preview`, `Submit` | `_snapshot` and the commands of `_handle` up to their first call, `ibkr_execution.py:187-421`, `872` |
| `ReadPositions`, `ReadOrders`, `AccountMismatch`, `SnapshotFails` | `account_snapshot`, `_refresh_account`, `_connect_live` |
| `WhatIfAccepts`, `WhatIfRefuses` | `what_if` and `_normalize_order` before it |
| `Journalled`, `IdTaken`, `AlreadySubmitted`, `PerhapsSubmitted` | `_create_or_read_order` and the branches on its answer |
| `Place`, `PlaceFails`, `Acknowledged`, `Rejected`, `AckTimesOut` | `submit` of the adapter and what `_submit` makes of its answer, 454-497 |
| `FoundOpen`, `NotOpen`, `FoundCompleted`, `NotCompleted`, `LookupTimesOut`, `LookupRaises` | `_recover_uncertain_orders`, `find_by_order_ref` |

**OrderJournal** is the abstract specification of a desk: an intent is written to the journal
before it is sent, is sent at most once, and only an answer the broker gave settles its entry,
for good. A broker may give two, and contradict itself: `answers` is a set. The refinement mapping
of the desk reads the journal from the rows (`submitting` and `unknown` are open, `rejected` is
refused, every other word taken) and the answers from TWS: "taken" of an order it has taken,
"refused" of one it refused or told an error about. That of the outbox reads the row's status
and receipts (`creating_task` and `starting_run` are open) and the platform. A crash, a failed
call or a late answer must be a stutter.

**LoopOutbox** is the table `loop_outbox` with the programs that work on it:
`sync_loop_daily_review.py`, which submits, and `resume_loop_reviews.py`, which polls. `item`
is what a process read of its row and was told since, and it may be hours old when it is used.

| Actions | Code |
|---|---|
| `FindPrior`, `Build`, `Stage`, `StageOnly`, `Precondition` | `main` of the sync, `stage`, `_mark_local_block` |
| `Claim`, `PostTask`, `TaskCreated`, `Start`, `PostRun`, `RunStarted`, `Refused` | `submit_review`, `start_review_run`: `checkpoint` before and after each POST |
| `Tick`, `Take`, `Poll`, `Completed`, `Failed`, `Reject`, `Incomplete`, `Defer` | `recoverable_reviews`, `resume_submitted_review`, `_finish`, `defer_retry` |
| `CallFails`, `Killed` | any other error of a call; the 120 s limit of the child, or a kill |

**ModernFunnel** is one day of the funnel. `phase` is the time of day: the window of each
stage, then the session. `row` is `funnel_runs`, `file` the frozen artifact of a stage with
the artifacts it was built on (their hashes in the code), `note` the claim in the notification
ledger, `announced` what the channel was really sent. A tick claims the stage that is due and
runs its process; `work` holds both.

`_write_json` (`run_modern_funnel_stage.py:189-205`) is three steps: it looks whether the artifact
is there (`Freeze`, `Frozen`), writes a temporary file whose name all processes of the stage share
(`temp`, `WriteTemporary`), and puts it in the artifact's place (`Replace`). Nothing keeps two
processes of a stage from being between the first and the last of these at a time; the constant
`WritesOverlap` says whether they may.

| Actions | Code |
|---|---|
| `Tick`, `Finish` | `run_tick`, `_recovery_stages`, `_claim`, `_finish` in `schedule/modern_funnel.py` |
| `Refuse`, `Resume`, `Replay`, `Rank` | the stage process up to `_write_json` |
| `Freeze`, `Frozen`, `WriteTemporary`, `Replace` | `_write_json` |
| `ClaimPush`, `AlreadySent`, `InFlight`, `Push`, `PushTooLate`, `PushFails`, `Record` | `_publish`, `_push_once`, the ledger |
| `Authorize`, `NotAuthorized` | the authorised pool and the plans of the open confirmation |
| `NotStarted`, `MonitorReady`, `MonitorBlocked`, `Preflight`, `Spawn`, `ClaimForChild`, `Probe` | the launcher |
| `StartMonitor`, `Renew`, `EndOfSession`, `MonitorExits` | the monitor as `ModernMonitor` has it, here only its life and its lease |

`ModernFunnel` and `ModernMonitor` meet at the run lease and at the pool: the one shows that
at most one monitor runs and what it was authorised for, which is what the other assumes.

## Runs

| Run | Instance | Checks | States |
|---|---|---|---|
| `monitor_faults` | 2 shares, one failure or crash, no abort suffix | `TypeOK`, `ExitWorksAlone`, `ExitIsWholePosition`, `ExposureTracked`, `ReentryOnlyAfterStop`, `PutAwayFillsRecorded`, `OwnTraceReconciles`, refinement of `LongOnlyTrade` | 175,722 |
| `monitor_unreliable` | 1 share, 2 failures, lag, late POSTs, lookup gaps | `IntentBeforeOrder`, `ExitWorksAlone`, `LiveExitNotCanceled` | 315,897 |
| `monitor_liveness` | 1 share, 2 failures, fair polling | `SessionEndsFlat`, `NakedPositionIsClosed` | 76,287 |
| `monitor_position_lag` | 1 share, only the position endpoint lags | violation of `NeverShort` | - |
| `monitor_partial_retry` | 2 shares, one failure | violation of `FlatDisagreementIsReal` | - |
| `outbox_safety` | 2 pumps, 1 sync, 1 fill, 2 failures | `PushedOnce`, `RecordedOnce`, `SentIsDelivered` | 3,135,174 |
| `outbox_liveness` | 1 pump, 1 sync, 1 fill, 2 changes of state, batches of 1, 1 failure, fair | `TypeOK`, `FillsAreAnnouncedOrReported`, `OnlyUncertainFactsAreMissing` | 327,725 |
| `ibkr_desk` | 2 accounts, 2 orders of 1 share, ids symmetric; unknown words and an error about one order; whole snapshots | `TypeOK`, `OneUncertain`, `LedgerHonest`, `SellsCovered`, `OneLiveBuy`, refinement of `OrderJournal` | 1,097,776 |
| `ibkr_recovery` | 1 account, 2 opening orders of 1 share, unknown words, an error about one order, doubled position rows, fair | `UncertainResolved` | 109,326 |
| `ibkr_short` | 1 account, sales of 1 share out of 2 held, fills between the reads of a snapshot | violation of `NeverShort` | - |
| `loop_reviews` | 1 date, 2 states of the evidence, a tick and a sync, fair | `TypeOK`, `OneReviewPerDate`, `TerminalHonest`, `TerminalFinal`, refinements of `OrderJournal` by both POSTs, `KnownReviewSettles` | 55,255 |
| `funnel_day` | 2 ticks, 2 monitors, 1 fault, pool empty or not, no overlapping writes of an artifact, fair | `TypeOK`, `FrozenChain`, `AnnouncedOnce`, `StatusHonest`, `AuthorisationBacked`, `OneMonitor`, `HandoffCompletes` | 483,831 |

`monitor_faults` asks for what the monitor guarantees when the venue tells the truth, late
or not at all: two shares are the least at which an entry, a protective fill and an exit can
each be partial, and one failure placed anywhere reaches every recovery path alone.
`monitor_unreliable` asks what survives a venue whose endpoints disagree; there quantities
cannot be relied upon, but order identity and exclusivity still can. Two failures are needed
to lose a POST *and* miss it in the next lookup. Deadlock is off there because a start that
finds a short position is refused for good.
Two attempts and three exit ids are the code's own bounds, not the model's. One abort
(`MaxAborts = 1`) makes the `-r1` entry id reachable.

`outbox_safety` needs one fill, for keys do not interact except through orders and the lock
(the proof covers the rest); two pumps and the sync give every pair of publishers on one
record, and two failures a lost append whose publisher then dies. `outbox_liveness` needs
two rows and batches of one, so that a row that fails for ever could hide the other. Its two
properties are about what is published in the end; they except the day whose last monitor dies in
its last pass (`DiedAtTheClose`), and then only what that pass had not published or queued yet.

`ibkr_desk` needs two accounts, because the order that blocks the desk may be of another login
than the one connected, and two orders (`TwoOrders`), since `OneUncertain`, `SellsCovered` and
`OneLiveBuy` are about a pair; failures and restarts are unbounded. In this run unknown words and
an error about an order TWS has befall one order (`OneOddity`; in `ibkr_recovery` `MaxErred`
bounds the errors alone), which shows what becomes of it beside an ordinary one; the proofs have
no such bound. Snapshots are whole there (`SnapshotRaces = FALSE`, `MaxRows = 1`), as
`SellsCovered` asks. `ibkr_recovery` asks about one order for ever, so one account is enough; it
opens positions only (`Opening`), because a lookup does not ask for the side.

`loop_reviews` needs two pieces of evidence, hence two events of one date, which is where the
conflict of a claim bites, and two processes, so that one acts on what it read before the other
wrote. Every process may be killed any number of times.

`funnel_day` follows only the days that stay interesting (`FollowedDays`, `FollowedStages`):
once the first waves found somebody, an empty final rank and an empty decision remain possible.
Two ticks give a second process for a stage whose lease ran out, one fault a kill or lost
answer anywhere, and a second monitor the restart after the first died. Two processes of a stage
may do everything at a time except be in `_write_json` (`WritesOverlap = FALSE`); what happens
otherwise is said below. Deadlock is off since after the close nothing is left to do.

*The three disagreements.*
`monitor_position_lag`: the quantity of an exit is what `/v2/positions` says, bounded by what
the entry bought; if that endpoint still shows shares the stop has just sold, the market exit
opens a short. The docstring of `PaperCloseRequest` (`execution/alpaca_paper.py:241`) says an
explicit quantity "cannot open a short".
`monitor_partial_retry`: an exit is partly filled, then ended by the venue; `-r1` sells the
rest. When the account is flat, `sold` is added up over `owned_clients`
(`monitor:335-340`), which holds the latest exit id only. The sum is short, "confirmed filled
inventory disagrees with flat position lookup" is raised on every poll, and the symbol is
never completed. `tests/test_modern_paper_lifecycle.py:301` expects `complete` for this very
sequence; its state has no `entry_client_id` and never reaches the comparison.

`ibkr_short`: positions and open orders are two requests of `account_snapshot`
(`ibkr_tws_adapter.py:411`). A sale that fills between them is in neither, so a second sale of
the same shares passes `_normalize_order` and leaves the account short, which
`docs/IBKR_LIVE_EXECUTION.md` rules out. There is a second way: `reqPositions` is never
cancelled, so TWS may tell a position again before the rows are read, and `_long_position_quantity`
adds them all up. With `SnapshotRaces = FALSE` and `MaxRows = 2`, `NeverShort` is violated as well
(a run made by hand, 52 states). If both are excluded, `SellsCovered` and `NeverShort` hold.

*Fairness.* `PollingFairness`: the loop runs again after every error (`monitor:1862-1902`) and the
supervisor starts the process again, so `WF(Monitor)`; during regular hours the venue fills a
market exit and settles a cancel request. Nothing is assumed of stops, targets or entries, which
may never fill. Nothing says that time passes: `SessionEndsFlat` has `WF(AdvanceClock)` as its
premise, and `NakedPositionIsClosed` needs no clock at all. Failures are bounded by `MaxGlitches`
and need no fairness. With three failures an attempt's exit ids can be used up ("paper exit retry
limit"): `SessionEndsFlat` is then false, as the code intends an operator to step in.

For the outbox: the pump is polled at every iteration (`monitor:1457`) and its process is
restarted while the session lasts, the sync runs after every tick
(`run_modern_funnel_tick.ps1:45`), hence `WF(Step(p))`; a pump that is closed, or died at the
close, has no step any more. `SF(_write_lock(p))` because SQLite's waiter polls for 30 s while the
others hold the lock for one event at a time, and asks again in a later pass. Nothing says that a
timed-out append arrives or that the loop ends. `Uncertain` facts are left to an operator by the
code, which says "reconciliation required".

For the desk: `WF(Work)`, the thread runs and each of its calls is bounded by a timeout;
`SF` on a successful connect, `Bind`, the two reads and the answered lookups: calls need not
fail for ever, and the operator does not give up connecting. Nothing is assumed of TWS.
For the reviews: the platform's jobs end, an hour passes (`WF(JobEnds)`, `WF(RetryDue)`), and
one process is launched again and again as the scheduler's tick is; killed again and again, it
is let through some time (`SF` on its steps). Nothing is assumed of the other process.
For the funnel: ticks are due every minute and run on, a spawned monitor gets to its first
claim, leases run out, and the clock reaches the session, which may then last as long as it
needs. `WF` alone suffices: faults are bounded.

*Not guaranteed by the code, hence not claimed.* With `LatePosts`, an entry given up as
`unconfirmed_entry_not_replayed` (`monitor:481`) may arrive after its state is complete:
`ExposureTracked` holds only without. A crash between `record_order_intent` and
`save_symbol_state` leaves an intent that no later quote can match; the symbol is not traded
again that day (modelled: `EntryIntent` raises "intent").

A fill whose push was claimed and then lost is never announced: the code prefers that to
announcing it twice, and reports it. The last pass after `market_close` is made once. If the
process dies in it, a fill that it had not come to is neither announced nor reported, and its two
records are never queued: no later monitor has that run directory, and the sync reads only the
projection queue and the journal of changes of state.

*The IBKR desk.* A row `rejected` may be of an order that TWS works, if TWS told an error about it
before its acknowledgement was read, or while it was: the desk never looks it up again, and does
not count it as uncertain. (The next snapshot shows the order, and blocks a second opening.) So
`OrderJournal` promises that an entry is settled by something TWS said, not that TWS meant it. A
row may carry any word of TWS; such a row is not looked up again either, although the order may
still be working. `LedgerHonest` is about the two words that say how an order ended. An order that
never reached TWS stays `unknown` and blocks the desk for ever: "not found" is no proof of
absence, as the code says. So does one that TWS lists beside another completed order of the same
number (`completed_orders` is keyed by order id, which is 0 for all orders of other clients).
`UncertainResolved` excepts just these. A binding may name one account and the adapter be built
for another until the next restart.

*The reviews.* A POST /tasks that fails after its checkpoint leaves `creating_task`; every
later run answers `reconciliation_required`. `docs/LOCAL_LOOP_INTEGRATION_RUNBOOK.md:593` says
of a network failure to run the same command again, and line 597 of a 5xx to retry later;
neither helps. The same holds for `starting_run`, which `KnownReviewSettles` therefore excepts.

*The funnel.* Two processes of a stage that are both in `_write_json`, between `exists()` (line
191) and `replace()` (205), overwrite one another: the selection put in place last stays, though
the other was announced and may have been built upon, and since they share the temporary file the
first may announce its own pool over the other's file. The window is as long as writing a file
takes, and it needs a stage that outlived the 15 minutes of its row. With `WritesOverlap = TRUE`
TLC violates `FrozenChain` in 13 states, `StatusHonest` in 26 and `AuthorisationBacked` in 46;
these three are claimed for `WritesOverlap = FALSE` only, the other safety properties without a
condition on it. The comment at `modern_funnel.py:211` says a missed first wave is recoverable
between 9:30 and 9:45, but the stage process refuses it after the open, and the day is lost.
`_finish` compares neither token nor status: a stage process that outlived its lease may overwrite
the `succeeded` of its successor with `failed`; the next tick then runs the stage again, which
finds its artifact and its announcement, so only the status is wrong for a while. A crash between
a push and its record leaves the claim in flight and the stage failing for the rest of the day. A
push that raised after it was delivered is released and sent again; `AnnouncedOnce` therefore
speaks of answered pushes. `OneMonitor` holds while hand-offs that take over 15 minutes and
iterations that take over 30 seconds do not meet in one day (`BothSlow = FALSE`); with both, a
second monitor is started beside a slow first one. When a hand-off outlasts the 15 minutes of its
row, a second tick hands off beside it: each launcher claims the lease for its own child, may do
so after that child has died, and its `_finish` writes the row of the other; the two can refuse
each other's monitors for as long as the session lasts. `HandoffCompletes` therefore excepts days
with such a hand-off.

## Proofs

### The monitor

`ModernMonitor_proofs` proves, for every quantity, number of aborts and of failures, and
every setting of the venue's switches:

- `TypeCorrect`: `Spec => []TypeOK`;
- `IntentBeforeOrderCorrect`: `Spec => []IntentBeforeOrder`.

Assumptions: `QtyAssumption`, `AbortsAssumption`, `GlitchesAssumption`, `SwitchAssumption`
of `AlpacaPaper`, that is, the constants are natural numbers (the quantity positive) and
Booleans.

`TypeOK` is not inductive. A client id is made of the numbers in `mem` and `req`, and is an
id only if they are in range, which depends on the place: `TypeInv` adds that a position
under way has an attempt number, that `eSave` comes with an attempt left, and that `xSave`,
`xPost` and `xAttach` come with an exit number and a quantity. `TypeInvParts` regroups it by
part of the state, `BrokerStep` and `SubmitStep` deal with the venue once for all callers,
and there is one lemma per phase of the monitor.

`IntentBeforeOrder` says that whatever the venue has, or may still receive, was recorded
first with that quantity and is not aborted. It is not inductive either: `IntentInv` adds
that what is about to be posted is recorded (`xSave`, `xPost`), and that what may yet be
aborted was never sent (`Unsent`, at `eSave`, `ePost` and `eAbort`), which is why an abort
cannot orphan an order. Most steps are *quiet*: rows are at most bound, no order appears and
nothing is about to be sent (`QuietStep`); only the intent, save, POST and abort steps have
arguments of their own.

TLC checked `TypeInv` and `IntentInv` as invariants of the `monitor_unreliable` instance
before they were proved.

### The monitor's orders and shares

`MonitorHoldings_proofs` goes on from there. For every value of the constants, with an
endpoint that lags, lookups that miss and POSTs that arrive late:

- `ExitWorksAloneCorrect`: `Spec => []ExitWorksAlone`;
- `LiveExitNotCanceledCorrect`: `Spec => LiveExitNotCanceled`.

For every quantity, number of aborts and of failures, if the venue is prompt
(`Prompt == ~PositionLag /\ ~LatePosts /\ ~LookupGaps`, what `monitor_faults` has):

- `ExitIsWholePositionCorrect`: `Spec => []ExitIsWholePosition`;
- `ExposureTrackedCorrect`: `Spec => []ExposureTracked`;
- `ReentryOnlyAfterStopCorrect`: `Spec => []ReentryOnlyAfterStop`;
- `PutAwayFillsRecordedCorrect`: `Spec => []PutAwayFillsRecorded`;
- `OwnTraceReconcilesCorrect`: `Spec => []OwnTraceReconciles`;
- `MonitorIsALongOnlyTrade`: `Spec => ImplementsLongOnlyTrade`, the refinement.

Failures, crashes, lost replies, refusals by the venue and missing legs remain: `Prompt` leaves
out only what no reading can detect. `ExposureTracked` and the refinement are false with any
one of the three switches, `PutAwayFillsRecorded` with either of the last two, and
`ExitIsWholePosition` and `OwnTraceReconciles` with the first, as TLC shows on instances of two
shares and one failure. Those two and `ReentryOnlyAfterStop` survive late POSTs and lookup gaps
on the instance of `monitor_faults` with these two switches on and two failures (416,823 states),
so for them `Prompt` is more than is needed; a proof without is left to do.

The argument has four layers, each inductive given the ones before it.

- `PlaceInv`: what the process works on at each place, and what `mem` and `saved` agree on. A
  crash loses `mem`, so every action must be justified by what `saved` says.
- `AloneInv`: a working or travelling exit is that of the saved state; where one is about to be
  sent, the open orders were listed, canceled and listed again, nothing was left, and the
  previous exit has ended or is the very one that is sent again. A late POST may arrive between
  any two steps, hence the conjuncts on `wire`. A *plain* step is one whose place asks for
  nothing; only the readings and the POST of an exit have arguments of their own.
- `BookInv`: the brackets at the venue. Stop and target together never sell more than the entry
  bought, and nothing until it is filled. Every step of the system is one of three for the
  venue (`StepOfVenue`): `Still`, `Filling(o, k)` or `Sent(id, q)`.
- `HoldInv`: how orders, shares and observations account for each other. `KnownOrders` lists the
  orders there can be, `Account` says that the shares held are the entry less the legs and the
  three exits, and that a working exit is for all of them; `Observed`, that no more is
  remembered than was filled, and all of it once the symbol is put away; `EntryPlan`, that an
  entry that is withdrawn leaves things as they were; `Reading` and `Closing`, what a reading
  made earlier in the iteration is still worth. The last is what makes the fills that race a
  cancel harmless: the quantity is read after the second listing, and then nothing fills.

The refinement maps a fill of the entry to `Buy` and any other to `Sell`, `EntrySave` to `Open`,
`abort_unsubmitted_entry` to `Withdraw`, the saves that put a symbol away to `Stop` or `Finish`;
everything else, the crashes included, is a stutter. What an attempt bought is a sum over its
entry ids, all but one of which never reach the venue.

TLC checked the four invariants on the `monitor_unreliable` and `monitor_faults` instances
before they were proved.

### The publishers

`PaperOutbox_proofs` proves, for any fills, any disjoint sets of pumps and syncs, any number
of journalled changes and of failures, and any size of the batches:

- `OutboxTypeCorrect`: `Spec => []TypeOK`;
- `PushedOnceCorrect`: `Spec => []PushedOnce`;
- `RecordedOnceCorrect`: `Spec => []RecordedOnce`;
- `SentIsDeliveredCorrect`: `Spec => []SentIsDelivered`.

Assumptions: `PublisherAssumption`, `BoundAssumption`.

`TypeInv` adds to `TypeOK` which keys a publisher can have in hand at which place
(`WorkerOK`), and that rows carry numbers already given out, without which a new row could
be an old one. The lemmas on `Without` and `ToTheEnd` say that moving rows neither doubles
nor invents any. `PushInv` gives, for each fill: nothing was pushed while its row can be
claimed, at most one publisher is at `push`, under a row "sending" and before any push, and
whoever is at `mark` has pushed. Since `claim_outbox` decides and writes in one transaction,
`ClaimPush` and `Push` are the only steps with an argument. `LockInv` says the write lock has
one holder; `EventInv` that an event without an intent was never appended, that whoever is
about to append made the intent and nothing is in the base or under way, and that a record
that was seen stays. The lock is what makes "found nothing, no intent" still true at the
append, and the intent is what keeps an append under way from being joined by another.
`NoPush` and `NoAppend` settle the other steps.

TLC checked the inductive invariants on both instances before they were proved.

### The IBKR desk

`IbkrDesk_proofs` proves, for any accounts, ids and quantities, with and without the race of
the snapshot, unknown words, errors about orders TWS has and doubled rows, however often calls
fail and the runtime restarts:

- `DeskTypeCorrect`: `Spec => []TypeOK`, whichever words TWS uses: a row that was written keeps
  an intent and a status;
- `OneUncertainCorrect`: `Spec => []OneUncertain`;
- `LedgerHonestCorrect`: `Spec => []LedgerHonest`;
- `DeskIsAnOrderJournal`: `Spec => Desk!Spec`, the refinement of `OrderJournal`.

Assumption: `QtyAssumption`. The inductive invariant `IInv` adds to these `CommandInv`, what is
known at each place of a command (at `place` the row of the order is `submitting` and nothing was
sent; at `await` it was sent once), `SentInv`, that TWS has only what was placed, and `HeardInv`,
what the last callback is worth: a status is TWS's own, "rejected" a refusal or an error it told.
`OneUncertain` is needed for its own sake: that a command cannot begin beside an uncertain row is
what makes the row at `await` the only one.

`IbkrHoldings_proofs` proves what the orders of an account add up to, for any number of orders,
accounts and quantities:

- `OneLiveBuyCorrect`: `Spec => []OneLiveBuy`;
- `SellsCoveredCorrect`: `Spec => []SellsCovered`, if `~SnapshotRaces` and `MaxRows = 1`;
- `NeverShortCorrect`: `Spec => []NeverShort`, if `~SnapshotRaces` and `MaxRows = 1`.

Both hypotheses are needed: either kind of snapshot that is not whole, the one read across an
execution and the one with a position told twice, leads to a short account. What is left to sell
is a sum over the open orders, and the snapshot read earlier in the command still bounds it when
the order is placed, since an execution takes from both sides alike and no other order is sent
while the lock is held.

### Sums

`SumTheorems` is about `SumFunctionOnSet` of the community modules, in which the models count
shares. It is a fold: a recursion that removes arbitrary elements. The induction theorems of the
library are out of reach (they take an operator), so `SubsetsInSet` is induction in another
form, over a *set* of subsets and by a smallest counterexample. From it follow that the fold
does not depend on the choices (`SumsAgree`, `SumRemove`), and what the proofs use: sums that
agree, change in one term, are monotone, split, or have one term.

### The review outbox

`LoopOutbox_proofs` proves, for any dates, any evidence and any number of processes, killed
anywhere and with any answer lost or late:

- `OutboxTypeCorrect`: `Spec => []TypeOK`, so that no review is POSTed twice;
- `OneReviewPerDateCorrect`: `Spec => []OneReviewPerDate`;
- `TerminalHonestCorrect`: `Spec => []TerminalHonest`;
- `TerminalFinalCorrect`: `Spec => TerminalFinal`;
- `TaskPostedOnceCorrect`, `RunPostedOnceCorrect`: the two refinements of `OrderJournal`.

There is no assumption on the constants. The inductive invariant `IInv` says what a row tells of
the two POSTs and the job (`RowInv`), what the platform's side tells of itself (`PostInv`), and,
because a process acts upon what it read long before, what of that is still true
(`PlaceInv`, `TodoInv`): receipts only grow, and a job that is over stays so. `Exclusive` says one
process at a time is between a checkpoint and its POST or answer for a review, `OneClaim` that one
review of a date is claimed. A step is about no row (`QuietStep`), one row (`RowStep`) or the
platform (`PlatformStep`); the three lemmas settle all other processes and reviews once. For
`TerminalFinal` and the refinements `Move` lists how a row may move on: no move starts at a
terminal row, and each opens an entry, settles it with an answer of the platform, or leaves it.

TLC checked `IInv` on the `loop_reviews` instance before it was proved.

### The funnel

`ModernFunnel_proofs` proves, for any pools, any number of ticks, monitors and faults:

- `FunnelTypeCorrect`: `Spec => []TypeOK`, so that no empty pool is ever authorised;
- `AnnouncedOnceCorrect`: `Spec => []AnnouncedOnce`;
- `FrozenChainCorrect`: `~WritesOverlap => (Spec => []FrozenChain)`;
- `StatusHonestCorrect`: `~WritesOverlap => (Spec => []StatusHonest)`;
- `AuthorisationBackedCorrect`: `~WritesOverlap => (Spec => []AuthorisationBacked)`;
- `OneMonitorCorrect`: `~BothSlow => (Spec => []OneMonitor)`.

The assumption is `FunnelAssumption`. The invariant of the first five, `IInv`, says of a stage
what its artifact stands on (`FileInv`), what its announcement and the ledger's note of it are
about (`NoteInv`) and what its row may claim (`RowInv`); whatever rests on the artifacts it says
under `~WritesOverlap`. And it says of every stage process what it knows at its place (`Knows`):
one that ranks has read artifacts that are still there, one that writes finds the artifact absent
and the temporary file its own (`OneWriter`), one that publishes has a settled selection, one that
pushes holds the only claim (`OneClaimant`) and nobody has answered yet. That knowledge outlives
the steps of others because artifacts, answered announcements, the authorisation and the first
monitor are never taken back (`Kept`, `KnowsKept`), which is why `_finish` may overwrite a row it
no longer owns and still tell the truth. `TickStep` settles the other processes once for every
step of one.

`OneMonitor` needs a second invariant on top, `MInv`. While no monitor outlasts its lease,
whoever runs holds it (`LeaseInv`). While no hand-off outlasts the lease of its row, hand-offs
are alone (`HandingInv`): nobody is alive between the checks and the spawn, and a monitor that
has not claimed the run yet has its hand-off, or that hand-off's leased row, behind it. One of
the two is enough, and `~BothSlow` is what says that one of them always holds.

TLC checked `MInv` on the `funnel_day` instance before it was proved.

### What is only model-checked

Liveness (`SessionEndsFlat`, `NakedPositionIsClosed`, `UncertainResolved`, `KnownReviewSettles`,
`HandoffCompletes` and the two of the outbox) is out of the prover's reach: it rests on fairness
and on `ENABLED`. Every safety property of the runs is proved, with two reservations: where a
theorem has a hypothesis, other settings are only what the runs show, and the three violations
are counterexamples of TLC.

## What is abstracted

- One symbol. The loop treats symbols one after the other and catches their errors
  separately; the limit on entries per day belongs to a later module.
- A signal, its sizing and its quote checks are one nondeterministic "may enter"; the daily
  loss limit and the freeze come and go at any tick. The entry cut-off is the end of
  `clock = "open"`; the milliseconds between the last validation and the POST are ignored.
- The reads inside `close()`, and the refresh reads of an exit, are one step each; the lookup
  and the POST of `_submit_idempotent` are one step. A lookup that fails inside `close()`
  (`monitor:459`) is the failure of the next one, at `ExitPrevious`: neither has changed anything.
- In the phase `active` what is remembered of the stop is what it has filled when the target is
  read, where the code remembers its reading of the moment before; the decision uses that reading.
- Lookup gaps are modelled for the entry in `entry_pending` and for the previous exit, the
  two places that decide on an absence.
- Failures of SQLite itself, unknown order statuses and malformed quantities (all of which
  raise) are left out.
- `position vanished without a known exit fill` (`monitor:578`) cannot be reached after the
  sum has been checked at line 566, and has no action.

- In `PaperOutbox`: only the VPS provider, always configured (`monitor` also runs without a
  base or with Feishu, where a row found "sending" is only reported). Enqueue and claim of a
  row are one step. A wait for the write lock may time out, other SQLite failures are left
  out; `flush_pending` does not catch that time-out, so there it is a crash. The four
  readbacks are one. Payload conflicts, duplicates and vanished records raise in the code
  and cannot occur with immutable payloads and a base that keeps its records. Rows never
  attempted come first and newest first in the queue, where the code orders them by identity.
- The Feishu provider, selection and review records and `RuntimeAlertManager.flush_pending`,
  which the pump also calls, are not modelled.

- In `IbkrDesk`: one symbol and one connection mode; `api_read_only`, the notional cap and
  the wording of what-if warnings are part of "accepted" or "refused"; SQLite does not fail; the
  expiry of the arming and of the preview is found out at the start of a command. Inactive is a
  refusal, as the adapter reads it; that TWS may resume such an order is left out. An order TWS
  refused and lists as Cancelled is one that was cancelled, with an error told. An order without
  a status, or with the word "unknown", is like one that was not found. Only the desk trades the
  account. `PerhapsSubmitted`
  cannot be reached by a single process (a command does not begin beside an uncertain row); it is
  there because the code has it.
- In `LoopOutbox`: the envelope, its hashes and the artifacts are "the evidence"; a task or a
  run has one receipt; a GET is never answered 422; a GET reports "completed" only of a job that is;
  backoff is "not due" until some time passes.
- In `ModernFunnel`: what a stage computes is a choice of pool; the records in the base are
  "written or not"; the claim of a tick with the claims of its recovery stages is one step, and so are
  the checks and writes of an authorisation (the process that authorises claimed its row between
  9:35 and 9:45 for fifteen minutes, its window closes at 9:45, and later processes of the day only
  resume what is there, so no second one authorises beside it). The plan and no-trade files, the
  second reading of the decision after it was written, and a temporary file read half-written are
  left out. A pid is not reused; SQLite does not fail between `Popen` and `claim_run`;
  monitors started by hand are left out. A stage process orphaned by its tick is a tick that goes on
  and is killed at its end.

## Not modelled

- *Retired autonomous sessions* (`autonomous_paper_session.py`, `live_session.py`,
  `run_paper_session.py`) and the order management, time exit, synthetic stop and guardian that
  only they call: `reject_retired_paper_runtime` refuses every entry point, so no state of these
  modules is one the program can be in. The hazards kept for them in `PROJECT.json` say what a
  revival would meet: a plan rebuilt after a restart has another `created_at` and conflicts with
  its own record; a time exit is complete while a buy still fills; a failed close is never
  retried; a mismatch after a partly filled leg refuses to resume.
- *Prior-day recovery*: over the rows of `ModernMonitor`; next in the plan.
- *Agent gateway, adaptive plans, emergency stop and alerts, other schedules, Loop outcomes*:
  state machines of their own, each a single SQLite transaction wide; planned, not started.
- *Kernel*: pure functions of market data, whose boundaries the unit tests enumerate.
- *Data plane, research, back-fills, reports, client, deployment*: I/O, numerical code and views;
  no protocol a model checker could say anything about. They are most of the repository's lines.

## Plan

1. `PriorDayRecovery` over the rows of `ModernMonitor`.
2. `RuntimeAlerts`: the alerts the pump flushes, their freeze and its release.
3. `GatewayStore`: concurrent claims and replays of the agent gateway.
4. The main loop with several symbols: entry limit, isolation of errors.
5. Loop outcomes, adaptive plans.
6. Proofs: `ExitIsWholePosition`, `ReentryOnlyAfterStop` and `OwnTraceReconciles` with late POSTs
   and lookup gaps, which TLC says hold; what follows from `LongOnlyTrade`
   alone.
