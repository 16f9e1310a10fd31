# A TLA+ model of Kh-Optionbaz

Kh-Optionbaz (GarnetTrader) is a personal, local workbench for options of the
Tehran exchange: it scans chains, emits signals, records market snapshots, and
lets its user try strategies on a *paper* account. It sends no real orders.
This directory holds TLA+ specifications of its stateful parts, the TLC
configurations that check them and TLAPS proofs about the central ones. Paths
below are relative to `option_signal_bot/`.

## 1. Inventory

| Component | State | Operations | Hard behaviour |
|---|---|---|---|
| Paper account: `execution/paper_broker.py`, `execution/paper_account.py`, `risk/fees.py`, `storage/paper_trading_store.py` | SQLite file: cash and initial balance, one row per open symbol (quantity, average price, entry fees, whether they are known), closed trades, orders | `place_order`, `settle_position`, `reset`, `account_snapshot`, fee settings | long sequences of partial fills, merges and partial exits; costs that are unknown; expiry; changing settings |
| Paper-trading endpoints: `web/api.py` | one thread, broker and connection per request | POST orders, settle, reset; GET account | concurrent requests, read-then-write without a lock, SQLite's write lock, rollback, process death |
| Raw snapshot extraction: `data/raw_snapshot.py` | per answer: quotes, rejected and conflicting rows, first signature of each code | `extract` | contradicting or repeated rows in any order |
| Snapshot archive: `storage/market_recorder.py` | SQLite file: stamp, snapshots, contract spec versions, quotes | open, `record`, `record_failure`, `status`, `backup_to` | crash between statements, retries, files of another kind or version |
| Recording programs: `scripts/record_market.py`, `storage/process_lock.py`, `market/schedule.py` | a lock file, the loop's next tick | `--once`, `--loop`, `--status` | programs started together, missed ticks, clock jumps |
| Bot loop and monitoring: `main.py`, `monitoring/*` | last report time, alert throttle, health counters | `run_cycle`, `_check_health`, `_maybe_send_periodic_report`, `_wait` | delivery that fails, an alert marked as sent, mute |
| Telegram commands: `notifiers/telegram_commands.py`, `storage/acknowledgement.py`, `storage/signal_log.py` | update offset file, mute deadline, acknowledgements, signal log | `poll_once`, `_handle_update`, `_handle_callback`, `AckStore.record` | duplicated updates after a crash, callbacks out of order |
| Settings panel: `web/api.py`, `config/loader.py` | `settings.yaml` | `_patch_settings` from eight PUT endpoints | read-modify-write without a lock, truncated file |
| Signal generation: `signals/*`, `bootstrap.py` | per-cycle symbol set, failures | `run_once`, `dedupe`, `_post_process` | one symbol failing among several |
| Trading calendar: `market/trading_calendar.py` | learned holidays, cache file | `learn_from_history`, `is_holiday`, `next_trading_day` | stale cache, unknown days |
| Tradability and ranking: `market/tradability*.py`, `market/opportunity_ranking.py` | none | scores over observations | boundaries, missing data |
| Corporate actions: `market/corporate_actions.py` | none | price and size adjustment | rounding, order of adjustments |
| Order book: `data/order_book.py` | TTL cache | `fill_price`, `slippage` | partial depth, stale cache |
| Recorded history: `storage/market_history.py` | cached figures, keyed by the file's time and size | `stats_for` | a file that grows while it is read |
| Backtest: `backtest/*` | none | walk-forward windows, metrics | look-ahead, window boundaries |
| Strategies, scanner, payoff: `strategies/*` | none | candidate enumeration, payoff, break-even | piecewise boundaries |
| Pricing: `pricing/*` | none | Black-Scholes, implied volatility | floating point only |
| Broker sessions: `brokers/*` | session cookie | read-only queries | session expiry |
| Data clients: `data/tsetmc_*.py` | none | HTTP and parsing | unreliable source |

What makes each of the modelled parts correct is listed with its module below;
`PROJECT.json` lists the hazards line by line.

## 2. Plan

Done: the paper account (section 3), the market recorder (4), the bot with its
monitoring and Telegram chat (5), the settings panel (6), signal generation (7)
and the pure algorithms (8). Left:

1. Reading the recorded history for the screening (`storage/market_history.py`)
   beside a recorder at work, composed with `RecordMarket`.
2. The concurrent settlement, and the report beside sales and settlements, should
   the code read its rows inside the transaction one day.

Modules by part, each extending the ones before it:

| Part | Modules | MC module |
|---|---|---|
| paper account | `PaperLedger`, `PaperBroker`, `PaperProperties`, `CostLedger`; proofs `PaperBrokerProofs` | `MCPaperBroker` |
| endpoints | `PaperRequests`; proofs `PaperRequestsProofs` | `MCPaperRequests` |
| recorder | `RawSnapshot`, `MarketRecorder`, `RecordMarket`, `RecorderLoop`; proofs `RawSnapshotProofs`, `MarketRecorderProofs`, `RecordMarketProofs`, `RecorderLoopProofs` | one for each; `MCRawSnapshot` gives the rows to `MCAlgorithms` |
| bot | `Monitoring`, `SignalBot`; proofs `SignalBotProofs` | `MCSignalBot` |
| settings | `SettingsPanel` | `MCSettingsPanel` |
| signals | `OrderBook`, `Tradability`, `SignalGenerator`; proofs `SignalGeneratorProofs` | `MCSignalGenerator` |
| algorithms | `OrderBook`, `Tradability`, `OpportunityRanking`, `Payoff`, `Scanner`, `TradingCalendar` | `MCAlgorithms` |

## 3. The paper account

### Modules

`PaperLedger` holds the rows of the account file and the pure parts: fee
schedules (`entry_cost`, `exit_cost`, `rates_known`), the proportional split
`allocate_entry_fee`, `check_affordable`, what a purchase or an exit makes of a
row (`BoughtPosition`, `RemainingPosition`, `CloseOf`), the statements of the
store (`update_cash`, `upsert_position`, `record_trade`, `save_order`), and what
the account report computes (`cost_basis`, `RecordedPnl`, `costs_known`).

`PaperBroker` has one action per call: `Buy`, `Sell` and `Reject` (the outcomes
of `place_order`), `Settle`, `Reset`. The market is the environment: whether a
contract resolves and how far the book fills are inputs of each call. `Environment`
lets the user replace the fee schedule and lets midnight pass between calls.
Instead of the average price a row keeps the total paid, so that no rounding of
the average enters; amounts are integers and rates fractions of `RateBase`. Of
the tables of closed trades and orders the model keeps, per symbol, the totals
that the account report and the properties read.

`PaperRequests` splits the same calls for concurrent request threads. Each
request has its own SQLite connection; a SELECT before the first write sees the
last committed state and holds nothing, the first write takes the write lock,
COMMIT publishes. A statement may raise (rollback), and the server may die.

`CostLedger` is the abstract specification: money is cash or the cost of what is
open; a purchase moves money and never overdraws, an exit books what it earned
when all costs are known and never less otherwise.

### Properties

| Property | Says |
|---|---|
| `Reconciled` | equity − initial = realised + unrealised, whenever all costs are known |
| `RecordedIsUpperBound` | with unknown costs the booked profit is at least the real one |
| `QuantityConserved` | contracts bought = held + sold + settled |
| `CostCountedOnce` | each fee is on the open row or in exactly one closed trade |
| `UnknownStaysUnknown` | unknown entry costs of an open row never become known |
| `ExpiredOnlySettled` | an expired row is only settled or reset |
| `LedgerSpec` | the broker implements `CostLedger` |
| `SerialSpec` | statement-level requests implement `PaperBroker` when they come one at a time |
| `NeverLosesMoney` | concurrent purchases never cost the user more than they should |
| `ReportNeverShort` | a report read at three moments while purchases commit never shows money as missing |
| `Responds` | every request ends, although several wait for one write lock |

### Runs and bounds

* `paper_broker`: two contracts (sizes 2 and 1, expiring on day 0 and 1), three
  order rows, orders of 0 or 2 with every partial fill, two prices, settlement at
  0 and at a positive price, and four schedules: undeclared, declared zero,
  proportional, per order. Three orders suffice for buy, merge under another
  schedule and partial exit, or buy, partial exit, rest; the settlement is not an
  order and comes on top. A rate of 5 in 10 on odd amounts makes divisions round.
* `requests_one`: one request at a time of all five kinds, two orders, failures and
  crashes at every statement.
* `requests_two_buyers`: two threads that buy one contract or ask for the account, three
  orders: what still holds although the cash is read outside the transaction and a
  report reads cash, rows and trades at three moments. Three orders let two purchases
  overtake a report or each other; two threads suffice for a writer to wait for the
  other's lock, or to give up by the busy timeout.
* `requests_lost_update`: where code and document disagree, see section 10.

Fairness (`FairReqSpec`): a thread that can take its next step, or fail in it,
does so. The code justifies it: threads are never suspended, a wait for SQLite's
lock ends with the holder's commit, rollback or death, or else with the busy
timeout, which is `Fail`.

### Proofs

`PaperBrokerProofs` proves, for every set of symbols, prices, quantities,
schedules, sizes and expiries that satisfies `SymbolsAssumption` (finitely many
symbols), `RateBaseAssumption`, `ToleranceAssumption` and `BrokerAssumption`, the
theorems `TypeCorrect`, `ContractsConserved`, `CostsCountedOnce`,
`UnknownNeverForgotten` and `ExpiredRowsOnlySettled`. The inductive invariant
`BrokerInv` adds `NoEmptyRow` to the properties: a symbol without contracts has no
cost, fees or unknown flag left over. Without it a purchase into an empty row could
inherit a stale flag, and the fees of a deleted row would be counted by nobody. The
argument goes call by call: a lemma per operator (a share lies between 0 and its
total; an unknown schedule charges zero), a lemma per call on what it changes, one
step per action.

`ImplementsLedger` (`Spec => LedgerSpec`): a purchase is `Invest`, since the basis
grows by exactly what the cash loses; an exit is `Realise`, since the split of cost
and fees leaves the rest on the row; a rejected order and the environment stutter. It
needs, on top of `BrokerInv`, that no call moves `initial_balance` (`RefineInv`).

`BooksBalance` and `ProfitIsUpperBound` (`Reconciled` and `RecordedIsUpperBound` for
any finite set of symbols) rest on the refinement: a step of the ledger moves the
entry of one symbol, so that the sum over all symbols moves by as much, and what the
cash loses is what that sum gains. The invariant is `Books`: `RefineInv` and the two
identities. The sums are the community modules' `SumFunction`, and `PaperBrokerProofs`
begins with the facts about them: a sum is an integer, changing one entry changes it by the
difference, a sum of naturals is at least each of them and zero exactly when all of
them are. Induction schemes are out of reach here, so each is proved from a smallest
subset on which it fails, which the well-founded order of the subsets of a finite set
provides.

`PaperRequestsProofs` is about the statements of concurrent threads. It needs
`RequestsAssumption` on top (the name of nobody is no worker, the kinds are those of
the endpoints, there is a price).

* `RowsKeepTypes`, for any number of threads and all five kinds: `Threads` says that
  only the holder of the write lock is between its first write and its commit, and
  that what it sees is `Image`, the file as it is now with the statements done so far
  applied. So each commit publishes one whole call on the committed file, whatever
  failed, crashed or was rejected around it.
* `PurchasesNeverLoseMoney` and `PurchasesConserveContracts`, for any number of
  threads that buy or ask for the account (`Kinds \subseteq {"buy", "snapshot"}`). A
  payment may be overwritten, since the balance is read before the transaction; what
  saves the account is that rows only grow meanwhile. `Buyers` therefore says of each
  balance that a request still holds that it and the rows account for all the money.
  With sales, settlements or resets in parallel the claim is false, and not made: a
  row can shrink under a held balance (section 10).
* `PurchasesReportNothingShort` (`ReportNeverShort`), for the same threads: a report
  reads the balance first, then the rows, then the trades. What it holds after each read
  accounts for all the money, since purchases that commit meanwhile only add to the rows
  and there are no trades to come; reading in another order would lose this.
* `OneStreamIsSerial`, `OneStreamReconciles`, for one request
  at a time (`Workers = {w}`) of all kinds, with failures, crashes, midnight and
  changing settings between the statements: the requests implement `PaperBroker`
  (`SerialSpec`), so that the theorems about it are theirs. In `Stream`, what the request has read is still what the file
  holds (`Fresh`). The mapping gives the broker the settings and the day that the
  request has read, not those that have changed since (`ServedFees`, `ServedDay`).

## 4. The market recorder

### Modules

`RawSnapshot` runs `extract` as its loop does: `ReadRow` (with
`collect_underlying`) or `RejectRow`, then for either side `RejectSide`,
`FirstQuote`, `SameQuote` or `OtherQuote`, and `Finish`, which drops what was in
conflict. The numbers of a side are one value; `Refused` says how many of its
fields `_number` and `_integer` refuse.

`MarketRecorder` is the archive as its callers see it: `Create`, `Open`,
`record`, `record_again` (the same id and content), `record_failure`, `Close`,
each a transaction. It is the abstract specification for

`RecordMarket`: `--once`, `--loop` and `--status` on one file, started at any time,
SQLite statement by statement: the process lock, connect, validation, the DDL
that `executescript` commits, the stamp, the fetch, the first INSERT that takes
the write lock, a quote at a time with its spec version, the final UPDATE and
the COMMIT. Any statement may raise `sqlite3.Error`, a program may be killed
between any two, and an answer may hold an integer that SQLite cannot store. The
mapping to `MarketRecorder` gives it the committed tables; a program has the file
open from the end of its constructor to its end.

`RecorderLoop` is when the loop attempts: `next_tick`, `contains`, `decide` of
`market/schedule.py` and `_loop_forever`, with a clock that runs between any two
steps, so that late waking, long attempts and a slow calendar are ordinary
behaviours.

### Properties

| Property | Says |
|---|---|
| `KeptIffUnanimous` | a contract is recorded exactly when all its observations agree |
| `EverySideAccounted` | each side of the answer is a quote, a rejection, a duplicate or a conflict, once |
| `ContradictionsTraceable` | each contradicting observation can be found from the conflicts |
| `CleanIffBlameless` | `is_clean` exactly when nothing of the answer was refused or contradicted |
| `ReadsBackWhatWasSeen` | a snapshot reads back the specs its payload quoted, whatever came later |
| `KindsNeverMixed`, `LegacyUntouched` | live and fixture data stay apart; old files stay as they are |
| `AckedIsStored`, `RecordedImmutable` | what `record` returned for is stored and never changes |
| `ArchiveSpec` | every interleaving, error and kill is a sequence of whole archive calls |
| `FetchesDisjoint`, `FirstSeenIsFirst` | recorders never fetch in parallel; `first_seen_at` is the earliest |
| `ProgramsEnd` | `--once` and `--status` end |
| `OnePerSlot`, `NoSlotSleptThrough` | at most one attempt per slot and none made up for; the loop never sleeps past a slot still ahead |

### Runs and bounds

* `algorithms` (with the pure parts of section 8): answers of three rows of 22 kinds: the shortest answers in which a first,
  an equal and a contradicting observation of one code meet in each order and on
  both sides, with junk rows, missing codes and names, and refused numbers.
* `market_recorder`: two programs, two ids, two contents, a contract in two
  versions, and files of version 2. An id can be failed, recorded, retried and
  confused with the other content.
* `record_market`: two programs, two attempts, a payload with one spec, one with
  two and one that overflows; failure and kill everywhere. Two attempts suffice
  for a second answer that quotes known and new versions.
* `recorder_loop`: days of 11 units with slots of 3 (the last slot of a day is
  short, so that the alignment starts anew), a window of 3 to 7 with grace 1, a
  trading day, a holiday and a day on which the calendar raises; the clock runs
  to 32, a unit before the fourth day.

Fairness in `RecordMarket`: weak fairness of a program's next step or its raising
(`Spec`): a running program is scheduled, the process lock never waits, SQLite
waits end by the timeout. `Exhausted` ends programs when the bound
`MaxAttempts` is reached; it is not in the code. `RecorderLoop` has no liveness:
its bounded clock stops, and so the loop may wait forever (deadlock checking is
off there, and where an extraction or an archive simply ends).

### Proofs

`RawSnapshotProofs`, theorem `NeverChooses`: `KeptIffUnanimous` for answers of
any length, over any codes and numbers. The invariant `ExtractInv` speaks of the
pairs of code and signature observed so far (`Observed`): every code seen has its
first signature among them, a code is in conflict exactly when another pair
differs from it, and the quotes are the first ones. It is needed because
`KeptIffUnanimous` says nothing before the last row. `ReadObserves` and
`SideObserves` show that reading a row observes nothing and collecting a side
adds its pair; each action then has one step. On top of it:

* `ConflictsLeadBack` (`ContradictionsTraceable`): the place of each first observation
  is known, and it is reported, with every observation that differs from it, once the
  code is in conflict (`TraceInv`).
* `CleanIsBlameless` (`CleanIffBlameless`): what was rejected is exactly the rows that
  are no dictionaries and the sides without a code or a name, the underlyings are the
  first ones as the quotes are, and there are conflicts exactly when a contract or an
  underlying is in conflict (`CleanInv`). The refused fields are counted as entries, a
  number for each side, and `NoEntries` shows that their count is zero exactly when no
  side has one.
* `NothingDisappears` (`EverySideAccounted`): a balance of cardinalities, kept by each
  step (`CountInv`). The first quote of a code in conflict is entered twice, among the
  codes seen and among the conflicts, which the balance makes up for; the tables must be
  finite, and each conflict stands for one side.

`MarketRecorderProofs`, for every set of callers, ids, contents and specs
that satisfies `RecorderAssumption`: `RecorderTypes`, `ReadsBack`,
`KindsSeparate`, `AckedStored`, `Immutable`, `LegacyKept`. To the properties
`RecorderInv` adds `OpenedAsStamped` (an open connection has the kind of the stamp:
the guard of `record` compares with the connection, not with the file),
`SpecsUnique` (otherwise a snapshot would get two rows of one spec) and
`StatusFits` (a retry is acknowledged without writing, so the status found must
be the right one). `SpecsAdded` is the central lemma: the table after
`_spec_id` ran for each quote keeps all old rows and holds each quoted spec once.

`RecordMarketProofs`, for any number of programs, attempts, payloads and finitely many
specs (`ProgramAssumption`): `ImplementsArchive` (`Spec => ArchiveSpec`),
`FetchesNeverOverlap` and `FirstSeenStands`. The invariant has three layers. `Control`:
where a program is tells what it holds, and a program with an attempt at hand has the
process lock, so that there is one. `Tables`: the uncommitted tables of the writer are
the committed ones with its rows added (`Drafts`), its id is not in the file
(`FreshIds`), and the committed tables are those of an archive (`Stored`). `Order`: a
recorded answer was received before any attempt at hand made its request. With them
every statement is a stutter of the archive, except the stamp (`Create`), a validation
that succeeds (`Open`), the COMMIT (`record`), the failure row and the program's end
(`Close`).

`RecorderLoopProofs`, for every interval, length of the day, window and calendar that
satisfies `ScheduleAssumption`: `NoSlotTwice` (`OnePerSlot`) and `NoSlotMissedAsleep`
(`NoSlotSleptThrough`). `LoopInv` says that the loop sleeps for the tick after a
moment at which it planned, and that it planned after all its attempts so far. The
rest is arithmetic with quotients that the solver does not find by itself: between a
moment and its next tick there is no slot of that day, and from that tick on no
moment lies in the old slot, a short last slot before midnight included.

## 5. The bot: loop, monitoring and Telegram

### Modules

`Monitoring` has the four checks of `monitoring/health.py` (`Grade` of each), the
decision of the throttle (`ShouldSend`) and that of the report calendar (`IsDue`).

`SignalBot` is the process of `main.py`. A pass runs the generator (`RunCycle`,
seen from the loop: some signals, or every symbol failing, or strategies that
raised) or is skipped with a closed market; each signal is sent (`SendSignal`)
and then saved (`SaveSignal`; `SaveRaises` is an error of the database, which
nobody catches). `CountAndCheck` updates the counters and runs the checks; each
result is announced and recorded, cleared or suppressed. Then come the reports
(`FirstMark`, `NoReport`, `SendReport`, `MarkSent`) and the polls: `Fetch` or
`FetchFails`, one `Handle` per update, `SaveOffset`, `Nap`. What the process
remembers (`sent`, `marked`, `offset`, `muted`) and what the files hold are
separate variables; `Stop` may come between any two steps, and `Start` reads the
files back. `write_text` empties a state file before it fills it. A write may therefore
be refused, which leaves the file as it was, or be cut off, which leaves one that
`_load` reads as empty, with the records of all keys gone: the code logs and swallows
either (`Written`), or the process is stopped in between (`StopInWrite`). Reading an
existing file is assumed not to fail otherwise. Telegram is external: it keeps updates until a request asks for later
ones.

### Properties

| Property | Says |
|---|---|
| `AlertedRecently` | the bot is silent about a problem only if an alert at least as severe went out within the cooldown |
| `NoAlertFlood` | no alert is repeated within the cooldown unless the problem was solved, or the process ended while the file lacked the record |
| `ReportsSpaced` | reports of a period are a period apart unless the process ended while an older mark was in the file |
| `CaughtUp` | after a batch the last decision of the user about each signal, and the last of `/mute` and `/unmute`, stands, replays included |
| `AnswersCounted` | the figures count every answer, but for signals whose row was never written |
| `UpdatesHandled` | every update is consumed in the end |

The exceptions named in the properties are history variables, each set at the one place
where the code loses something; the properties say that nothing else goes wrong.
`excused`: the problem of the key was solved, or the process ended while the file held
another record of the key than the memory, or none (`Die` compares the two for *all*
keys, so that the keys a cut-off write emptied away are among them). A file that is
emptied while the process lives excuses nothing by itself. `unmarked`: the process
ended while the file held an older mark of the period; an emptied file counts as no
mark, and then the next report is only later (`FirstMark`). `lost`: a decision the bot
could not write down. `unlogged`: a signal that reached the phone and whose row was not
saved when the bot ended (`main.py:60`).
`excused` is kept per alert (key and status): a new alert ends the excuse of its own
status only, since it says nothing of the time since the last alert of the other one.

### Run, bounds, fairness

`signal_bot`: what the environment may do in a behaviour is one of eight budgets
(`MCBudgets`): stops (between steps or within a write), refused or cut-off writes, ticks,
bad passes, signals and updates. They pair
what can interact (alerts and reports over time with a stop and a refused write; a
problem that is solved and comes back; a signal and its drought; a pass with signals and
exceptions; a chat of two updates with two stops, or with a stop and a refused write), so that their state spaces are
added instead of multiplied. Two updates suffice for a decision and its revision in one
batch or in two; four ticks pass both drought thresholds, two cooldowns and a report of
each period.

Fairness: the process runs (WF of `Step`), whoever runs it starts it again (WF of
`Start`), and Telegram, asked again and again, answers again and again (SF of
`Fetch`, since it may fail in between). The loop never waits for anything else.

### Proofs

`SignalBotProofs`, for any signals, updates, thresholds, batch sizes and budgets that
satisfy `MonitoringAssumption` and `BotAssumption`. `Control` ties the place in the loop to
the work lists. Each concern then has an invariant of its own, of which every
step that leaves its variables alone is dismissed by one lemma:

* `SilenceIsEarned` (`AlertedRecently`) and `NoFlood` (`NoAlertFlood`) from
  `AlertInv`: a record, in memory or in the file, never claims more than was sent
  (`Backed`), and the record of a key answers for its last alert of either status
  (`Covers`): it is as new, and as severe or a cooldown later. The first half keeps
  the bot from a silence that nothing justifies, the second from a repetition; an alert
  that is sent and not yet recorded counts as recorded, unless a stop comes between.
  A cut-off write empties the file of all keys, not only of the one it was for. The
  file may then lag behind the memory in every key, and the invariant is about the
  memory; `Die` is where the difference becomes an excuse.
* `ReportsApart` (`ReportsSpaced`) from `ReportInv`: the mark of a period is as new as
  its last report, unless it was lost.
* `DecisionsStand` (`CaughtUp`) from `ChatInv`: after a stop the bot executes updates
  again, so that a decision may for a while be older *or newer* than the
  updates consumed. It is always the decision of some prefix of the updates, between
  what is consumed and what one answer can have held. When the batch is empty, both
  ends of that range meet. A stop within the write of the mute file leaves a file that
  says "not muted", and the update is executed again, as its offset was not saved.
* `AnswersStand` (`AnswersCounted`) from `AnswerInv`: an answer exists only for a signal
  that was received, and such a signal is in the log, is the one being saved, or is
  `unlogged`. That the bot ends when the database refuses a row is needed: going on to
  the next signal would leave answers that the figures never count.

## 6. The settings panel

`SettingsPanel` has an action for every endpoint that changes `settings.yaml`
(`UpdateTradability`, `UpdateRanking`, `UpdateStrategy`, `UpdateSymbols`,
`UpdateRisk`, `UpdateBroker`, `UpdatePaperTrading`, `UpdateDatasource` with the check
of the broker that precedes enrichment), the statements of `_patch_settings`
(`ReadFile`, `Truncate`, `Write`), the reading endpoints, which create the file from
the example, and the scan with its lock. A tree of settings is a function on its
leaves, on which `deep_merge` works leaf by leaf. `Installed` is what the file may be
when the server starts; the run `settings_lost` starts with a file that exists, so that
only `_patch_settings` writes it, and refutes `OthersPreserved`, see section 10.

## 7. Signal generation

`SignalGenerator` follows `run_once` over several passes: for each symbol the
context, for each strategy a batch, whose single signals come first and whose
structures are processed leg by leg (`RejectLeg`, `ScreenLeg`, `ScreeningRaises`) and
end in `FinishUnit`, which sizes the structure and consults what was emitted
recently. `suggested_qty` has both parts of the round-trip fee, the rate and the fixed
fee of each of the two orders. Exceptions are modelled where they strike: in a strategy (counted, the
others go on), in the screening (the leg is refused), anywhere else (`SymbolFails`: the
symbol is given up). Screening uses `Tradability` on a book of `OrderBook`, taken
from the cache while it is young. What strategies return and how markets move are
constants. `_last_emitted` and the history of returns are dictionaries that grow
(`last`, `delivered`); `turns` are the strategies left to run on the symbol. The ids of
structures, which the strategies draw with `uuid4`, are the name the batch gives the
structure together with the turn it is drawn in, so that no two turns of a pass share
one.

`GeneratorAssumption` says what the code guarantees of these constants: the legs of
one structure carry one strategy and one number of legs, since
`MultiLegStrategy.generate` builds them together; every symbol and strategy has its
batches; a book that is known has real levels only, the best first, which is what
`from_depth` leaves (the run `algorithms` checks it in `BookFills`); limits, window
and lifetime are not negative.

| Property | Says |
|---|---|
| `EmittedIsTradable` | each signal is tradable at the size it is returned with, on the book it was screened on |
| `StructuresWhole` | a structure is returned with all legs in proportion or not at all |
| `RepeatsSpaced` | nothing is repeated within the window, and nothing is held back as the repetition of what was never returned, except what an exception took with it |

`signal_generator`: two symbols, two strategies, three passes, two exceptions;
structures of ratio one to two, with a leg missing, too dear, or on a thin book;
low confidence, a price of zero, a contract the chain does not know, a book request
that fails. Three passes with a window and a cache lifetime of two reach a repeated
signal inside and outside the window and a book used fresh and stale.

### Proofs

`SignalGeneratorProofs`, for all symbols, strategies, batches, contracts, histories,
markets, limits and thresholds that satisfy `GeneratorAssumption` and
`ThresholdsAssumption`: `ReturnsTradable` (`EmittedIsTradable`), `ReturnsWhole`
(`StructuresWhole`) and `RepeatsAreSpaced` (`RepeatsSpaced`). All three follow from
`GeneratorInvariant`. Its parts, each needed because the properties speak of what is
returned and say nothing of the pass under way:

* `PhaseInv`: nothing is collected between symbols, nothing sized between units.
* `SizedInv`: the legs that passed are the first legs of the unit, each tradable at
  its own size.
* `TradableInv`, `WholeInv`: what the properties ask of the signals holds of what is
  collected too, and of both together.
* `GroupInv`: a structure among the units left was drawn in this turn and was neither
  collected nor dropped; every structure met was drawn in a turn that is over or is
  being processed (`Past`). Without it a second unit with the same id could join a
  structure that is already whole, or one that was dropped.
* `MemoryInv`: a key is remembered no earlier than it was last returned; the keys of
  this pass are remembered as of now and were last returned a window ago; any other
  key that no exception orphaned is remembered as it was returned.

The step that matters is `EmitInv`, a unit that is returned. Its legs were screened at
their own sizes, and the structure is returned at a base times their ratios, which is
no more (`BaseFits`). That it is still tradable is `SmallerStaysTradable`: of the
eight checks only depth and slippage look at the size. Depth is monotone. The slippage is
measured on the average price of a walk down the book, and `SmallerFillsBetter` shows
that a smaller order's average is no worse: after each level, either both orders have
taken the same, or the smaller one is filled and the larger one's average only gets
worse (`Lockstep`). `FillsWhatIsThere` adds that such a walk takes what the order asks
for or the whole depth. `UnitsDrawn` shows that the units of a batch are single signals
and structures apart from each other, whatever order the batch lists their legs in.

These walks are recursive functions over the levels of a book and the signals of a
batch. The library's induction theorems cannot be used here, so the claims are
proved for a bounded range of numbers (`UpTo`): the claim is given as the set of the
numbers it holds of, and the smallest number outside it, which the well-founded
order of the naturals provides, leads to a contradiction.

## 8. Pure algorithms

The operators of `OrderBook` (levels, best prices, depth, `fill_price`),
`Tradability` (observation, eight checks, verdict), `OpportunityRanking` (gates,
components, score, break-even, the join with the panel), `Payoff` and `Scanner` (the
curve, its extremes, the capital, the scans) and `TradingCalendar` (holidays,
learning, cache file) have no state of their own. Money and percentages are exact
fractions, compared by cross multiplication, where the code uses floating point. In `MCAlgorithms` a
state is one input, and the run `algorithms` goes over 73,001 of them. The same run
carries the extraction of section 4, which is a function of the answer as well, but is
modelled row by row: another 43,604 states.

| Property | Says |
|---|---|
| `BookFills` | a fill is the best of all ways to take that much from the rows as listed |
| `RankingHonest` | what is ranked has a basis: with known fees its break-even earns exactly nothing, with unknown ones never a profit, whatever they turn out to be; what is learnt later never lifts the score above the best case, and a price learnt later never lowers it |
| `PayoffExact` | the figures of each structure found are true of its curve at every whole price |
| `CalendarTruthful` | a calendar that learnt two stretches, in either order, restarted or not, with a cache file that is readable or corrupt, is right about each day of what it still knows |

That fees learnt later never lower the score (the text of the ranking says that the
unknown never lifts it) is `UnknownNeverLifts`, which the run `ranking_unknown_fees`
refutes on the same inputs (section 10). In `RankingHonest`, what a position earns is
measured with the fees that were really charged (`Earned`), never with those the program
assumed. `required_capital` leaves out the case of a margin given by the broker
(`required_margin`, `strategies/payoff.py:209-210`), which the scanner never sets.

Inputs: books of three rows from five levels, with empty ones, and quantities
from zero to more than there is; candidates with full, thin and one-sided books,
fresh and old, four fee schedules, known and unknown underlying; chains of seven
contracts with every combination of three quotes, of one contract size; two weeks of a
market with any of six days closed.

## 9. What is only model-checked

Every safety property of the paper account, its endpoints, the recorder, the bot and
the signal generator is proved (`PROJECT.json` lists which theorem states which). With TLC stay:

* liveness (`Responds`, `ProgramsEnd`, `UpdatesHandled`), since the prover has no
  fairness;
* the pure algorithms (`BookFills`, `RankingHonest`, `PayoffExact`, `CalendarTruthful`):
  they sort, select and fold over sequences and sets of structures, and what those
  compute for every input needs induction over data with operators the provers do not
  expand. Of the book walk `SmallerFillsBetter` and `FillsWhatIsThere` are proved for
  books of any length; that a fill is the best of all ways, and that `from_depth` sorts,
  is checked on the listed inputs.

What is proved of one stream of requests, or of purchases only, is claimed of no other
mixture: the run `requests_lost_update` shows that it would be false.

## 10. Where code and documents disagree

Each is a run that TLC refutes; `PROJECT.json` quotes the lines.

| Run | What happens |
|---|---|
| `requests_lost_update` | two concurrent purchases subtract from the same cash: one payment is lost |
| `settings_lost` | two concurrent changes of different settings, the second read before the first is written: the second write undoes the first |
| `ranking_unknown_fees` | with unknown fees the required move is scored as if there were none: once fees above `max_fee_cost_pct` are known, the score falls, although "the absence of data never lifts anybody" |

Smaller ones, noticed while modelling and not made into runs.

Paper account: two concurrent settlements of a row both book it, since the row is read
before the transaction (`execution/paper_broker.py:633`); a contract size that changes while
a row is held breaks the identity (`:655`), the models keep sizes fixed; an order that
commits while `account_snapshot` reads makes that one report unbalanced, too rich beside
purchases (`ReportNeverShort`), either way beside sales; only
purchases are checked against the cash, so that an exit worth less than its fixed
fee overdraws an empty account (`CostLedger` demands the floor of `Invest` alone).

Recorder: `_collect_side` reports the first of two contradicting sides with the side of the
second (`OtherQuote`); `--status` builds the schema of a file that a recorder has
only just created (`CreateTables` of a program in that mode); a stop between the schema and its
stamp leaves a file that is refused ever after; an integer beyond 64 bits loses its whole
answer without a failure row and ends the loop; an attempt decided
inside the window is stamped when it is made (`Attempt`); a clock set back during
the sleep is not noticed.

Bot: the offset is kept "so that no command is executed twice"
(`notifiers/telegram_commands.py:19`), but it is saved after the batch only, and a stop
in its middle executes the first updates again (`CaughtUp` shows that this changes
nothing for good); a signal sent before its row could be saved exists on the
phone only, and answers to it are in no figure (`AnswersCounted`); a stop or a full disk
within the write of a state file loses the records of all its keys, not of the one that
was written (`NoAlertFlood`).

Signals and figures: a signal collected before an exception in the same symbol is lost and still
held back as a repetition for the window (`orphaned`); without a multi-level book the
age is unknown, so that no signal passes; an iron condor whose commission exceeds
its credit asks for less capital than it can lose (excluded in `TrueOfCurve`); extremes
of structures of mixed contract sizes are evaluated at the strikes only; a stretch of
history without a holiday is not saved (`bootstrap.py:698`), and a wrongly learned
holiday is never unlearned.

## 11. What is not modelled

Within the modelled parts: the valuation of open rows (it cancels in the
identity), performance and drawdown reports, the migration of old paper files,
the enabled switch of paper trading; `backup_to`, the figures of `status`, the
parsing of options and time zones; the texts of messages, commands and reports;
the holdings given to the collar and the screening switched off; break-even
prices of the chart and `rank_strategies`.

Parts without a module: the signal strategies, the backtest, pricing and corporate
actions are floating-point analysis, out of reach of TLC, and their results are
inputs of the models; the recorded history of the screening is a query over
the archive, an input as well; the
data clients, the broker client, the browser client and the HAR inventory are
input and output, and appear as the environment of the models.
