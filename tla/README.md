# Verification project for ai-trader-signals

TLA+ models of the Python signals service (`src/app`, `src/main.py`), checked
with TLC and, in part, proved with TLAPS. Line numbers refer to the sources of
this repository; `PROJECT.json` maps every definition to its lines.

## 1. Inventory

Two processes run this code: the **signals** service (FastAPI: market data,
charts, live ticks, the chat agent, the Telegram webhook, a scheduler) and
**newsd** (the news pipeline and the event desk's jobs). They share Redis and
the API service's token store, and nothing else. Inside a process there is one
event loop (a coroutine runs undisturbed from one `await` to the next), a bounded
thread pool for blocking SDKs, and the Kite SDK's own reactor thread.

| Component | State | Operations | What is hard | What makes it correct |
|---|---|---|---|---|
| Market data router (`market/providers/registry.py`) | quote/history/negative caches, per-loop table of `asyncio.Lock` | `get_quote`, `get_historical_df` | coroutines queueing on a lock that is popped from its table, cancellation while queued | one download per key at a time; every caller comes back; no lost wake-up |
| Deriv tick stream (`market/deriv_ticker.py`) | connection, pair and baseline maps, subscription ids | `_run`, `subscribe`, `unsubscribe`, `_handle_message` | reconnects at any await, baselines that fail, late ticks | ids belong to the connection; a reconnect restores what was promised and nothing else |
| Kite session (`kite_provider.py`, `kite_auth.py`) | cached token, its stamp, the recovery cooldown; the API's stored token | `_call`, `_recover_token`, `refresh_and_store`, scheduled refresh | every login kills the token before it; several processes and threads hold tokens | calls lead back to a working token; a minted token is not lost; no login without need |
| Live ticks (`live_ticks.py`, `kite_ticker.py`, startup in `main.py`) | poll tasks, instrument-token map | subscribe/unsubscribe/attach | executor threads overtaking each other, handshake races, contract rolls | the subscribed set equals what was asked for |
| Other vendors (`deriv_socket.py`, `deriv_provider.py`, `yfinance_provider.py`, `dukascopy_bridge.py`) | multiplexed socket, pending futures | `request`, reader | drops, clean closes, stale readers | every request ends with its own answer or an error |
| Bars, paging, contracts, sessions, symbols | none | pure functions | boundaries of time and length | reference definitions |
| Watches (`events/watches.py`, `job.run_watches`, `bot._tap`) | sorted set of watches, offers with a TTL | arm, due, retry, done | taps in one process interleaved with the sweep in another, crashes, refused sends | one report per watch, no watch lost, no report unasked |
| Event desk (`watcher`, `watchdog`, `job`, `agenda`, `brief`) | scheduler entries, armed/fired ledger | arm, fire, sweep | rescheduled releases, failed bookkeeping, a watchdog that must not cry wolf | every promised brief fires or is reported |
| Telegram, subscribers, shocks | registry set and seed flag, claims | /start, /stop, fan-out, claim | two-command updates, claim before send | a chat that left stays out; a story is pushed once |
| Scorecard (`signals/scorecard.py`, `job.run_scorecard`) | trade records, open set, closed list | record, sweep, settle, close | window arithmetic, limit fills, crash between writes | a verdict that depends on the sweep's timing in known ways alone; counted once; a market order is judged |
| Chat turn (`agent/orchestrator.py`, `runner.py`, `budget.py`, `tools/base.py`, `context.py`) | budget, call counts, memo, per-turn snapshots, answer texts | rounds, tool calls, readers a tool starts, wrap-up | a model that may ask for anything, tools that read at once or ask the model themselves, four ceilings | bounded work, one view of the account, figures checked where they are, an end |
| Transcript (`agent/transcript.py`) | messages | add, shed | the ceiling | only old results are shed, and only as needed |
| Chat streaming (`signals/router.py`, `agent/events.py`) | event queue | SSE with heartbeat and cancellation | slow readers, a reader that leaves | the final event arrives; the turn does not go on without its reader |
| Analysis, conditions, validation, backtest | none | pure functions over frames | boundary bars | reference definitions |
| Pine sandbox (`signals/pine/sandbox.py`) | one child process, a semaphore | run, kill, restart, shutdown | cancellation leaves an answer in the pipe | an answer belongs to its request |
| Worker (`scheduler.py`, `newsd.py`, `heartbeat.py`, `jobs.py`) | job store | cron jobs | misfires, coalescing | a job that did not run is noticed |
| Startup, readiness (`main.py`) | readiness cache | lifespan, `/ready` | double-checked lock | one probe per period |

Interactions: the chat agent, the scorecard sweep, the event desk and the live
poll all call the router; the router calls the vendors; the Kite provider calls
the login and the API store, as does the scheduled job; the bot (signals) and the
sweeps (newsd) meet only in Redis. What each component may do wrong that a test
would hardly reach is listed under `hazards` in `PROJECT.json`, at its line,
with the properties that look for it.

## 2. Modules

Three kinds of modules: **components** are state machines whose actions are what
runs between two awaits, two Redis commands or two messages; **promises** are the
abstract specifications some of them implement; **figures** are pure algorithms,
written as operators and judged by properties that relate their results to each
other or to a definition that is stated differently.

| Module | Models | Composes or refines |
|---|---|---|
| `ReadThrough` | promise: an answer, a remembered failure, at most one download under way | |
| `QuoteCache` | the router for one key | refines `ReadThrough` |
| `DerivTicker` | the Deriv tick client and the far end it relies on | |
| `Exchange` | promise: a request over a shared line gets its own answer or none | |
| `DerivSocket` | the multiplexed Deriv connection | refines `Exchange` |
| `DerivHistory` | `walk_back`, a page fetch, and the vendor's answers | over `DerivSocket` |
| `PineSandbox` | the Pine child, its pipes, the semaphore, the retry | refines `Exchange` |
| `ChatStream` | the task, the bounded queue and the generator of `/chat/stream` | |
| `StreamedTurn` | a streamed turn whose tools run Pine, beside other clients | `ChatStream` with `PineSandbox` |
| `Scorecard`, `MCScorecard` | record, sweep, settle and close, with Redis | |
| `Transcript` | the messages of a turn | |
| `ChatTurn`, `MCChatTurn` | one turn of the chat agent | |
| `WatchPromise` | promise: what a tap is owed | |
| `WatchQueue` | taps, the sorted set and the sweep | refines `WatchPromise` |
| `KiteSession`, `MCKiteSession` | the life of the Kite token in every process | |
| `Scheduler` | the APScheduler job store: cron and date jobs, misfires, restarts | |
| `EventDesk`, `MCEventDesk` | agenda, wake-ups, both records of the watchdog, the sweep | over `Scheduler` |
| `Conditions` | condition validator, evaluator, exits and replay | figures |
| `SignalPath` | bars, confluence, gates, verdict, walk-forward | figures |
| `Levels` | swings, levels, trend lines, patterns, breakout odds | figures |
| `TradePlan` | entry, stop, target, gates; position size | figures, uses `SignalPath` |
| `NewsDesk` | page, chunks, analysis cache, shocks over hours | figures over histories |
| `EventFigures` | feed, agenda, prints, branches, moves | figures |
| `MarketHours`, `MarketAnswers`, `SymbolSearch` | calendars; venue, contract, fallback, empty charts; search | figures |
| `MorningBrief`, `DeskDuties` | the brief's ranking; releases, drift, screener | figures over histories |
| `Trials`, `TrialsSignals`, `TrialsEvents`, `TrialsMarket`, `TrialsJobs`, `MCFigures` | every input of a small range for every figure | instantiate the figures |
| `SequenceLemmas` | facts about queues the library does not state; induction over a range, and the functions recursion defines on it | |
| `QuoteCacheProofs` | theorems about `QuoteCache` | extends it |
| `DerivProofs` | theorems about `DerivTicker` and `DerivHistory` | extend both |
| `StreamedTurnProofs` | theorems about `PineSandbox` and `StreamedTurn` | |
| `ChatTurnProofs` | theorems about `ChatTurn`, `Transcript` and `TradePlan` | extend the first two, and `TrialsSignals` |
| `JobProofs` | theorems about newsd's jobs: `EventDesk` and `Scorecard` | extend both |
| `DutyProofs` | theorems about `WatchQueue`, `DeskDuties` and `MorningBrief` | extends `WatchQueue` and `TrialsJobs` |
| `FigureProofs` | theorems about `MarketHours` and `SignalPath` | extends `TrialsMarket` and `TrialsSignals` |

### QuoteCache
`pc` is where a coroutine is suspended: queued in `lock.acquire()`, woken but
not yet run, or awaiting a vendor. `table` is the entry of the lock table,
`held` the local variable `lock`, so a coroutine may hold on to a lock the table
no longer names. `Request` is everything up to the first await, `Resume` from
`acquire()` to the next one, `StoreAnswer` / `StoreFailure` the rest with the
`finally` (`Leave`), `Fail` a cancellation or a vendor's exception at any await;
`disturbed` remembers that there was one. `asyncio.Lock` (release sets the oldest
waiter's future and leaves the lock unlocked; a cancelled waiter passes the
wake-up on) is external and modelled as CPython 3.11+ has it. A cache hit before
the lock changes nothing and is a stuttering step. TTLs end at any time, except
between a wake-up and the next turn of the event loop: the TTLs are 15 s and more.

### DerivTicker
`runner` is where `_run` is, `tracked` the keys of the pair and baseline maps
(written and cleared together), `subId` the recorded ids, `asking` the
`subscribe` calls that await a baseline. `streams` and `pipe` are Deriv's side:
which id streams which pair, and ticks not yet read. An action is what runs
between two awaits. `faulted` remembers the pairs for which a baseline or a
connection failed inside a resubscription pass.

### Exchange, PineSandbox, ChatStream, StreamedTurn
`PineSandbox.line` is the semaphore: its holder, then those who wait. `inbox`
and `outbox` are the child's pipes; an answer names nobody, so `Read` hands the
next line to whoever reads. A cancellation leaves both as they are, and
`disturbed` says so; a timeout, an end of file or a misshapen line kills the child
(`Anomaly`), and `run_pine_script` tries once more (`Killed`). The child may die
at any time, unnoticed for a while. `ChatStream` has the task's `put`s that wait
for room, `emit`'s that drop, and the generator; a task that is cancelled still has the sentinel
of its `finally` to put, and waits for room if there is none. `StreamedTurn` joins them:
the turn awaits `Call`, and `BrowserLeaves` is `task.cancel()` reaching both.

### DerivSocket, DerivHistory
`pending` is `_pending`, `future` what a waiter's future holds, `lock` the queue
of `_connecting`, `ws` the attribute, `reader` the task of each connection.
`_ensure`'s look at `closed` may go either way for a closed connection, since not
every release of the library has the attribute. `ReaderBreaks` fails every
pending future, `ReaderEnds` (a clean close) none. In `DerivHistory` a window is
a request; `Fetch` is its turn with the semaphore, `EndBatch` the end of
`gather`, `CancelWalk` a caller that is cancelled, after which each window is
cancelled where it is suspended when it would have been resumed (`WindowRuns`).

### Scorecard
One bar is what it reaches: the entry, the stop, the target. The last bar of a trade
is still forming (`WidenBar`) and the sweep judges by it as it finds it, since
`run_scorecard` drops none. Every Redis command of `record` and `close` is an action,
so a crash may fall between any two; `interrupted` remembers the trades in hand when
it did, `judged` the bars behind a verdict, `passed` the trades a sweep looked at past
their window and left open. The sweep reads the oldest `OpenLimit` of the queue. `Settle` is the verdict stated over the
window by its first bars; `SettleLoop` is the code's loop, bar by bar (`Walk`), and
`SettleAgrees` compares them for every path of bars. A settled trade is in the tally
or the tally is full without it, since `LTRIM` forgets the oldest. `Judge` is one turn of `run_scorecard`.

### Transcript
A message is its role and its size. `After` is the loop of `_enforce_ceiling`, one
`Shed` for each message, which re-reads the total before it.

### ChatTurn
`stage` follows `run_chat`: triage, the loop's head, a model call, tool calls,
the wrap-up. The model may answer anything or fail at any call. A handler starts one
reader of its item or, for the tools that gather, two; each looks into the cache
(`Look`), awaits the source and stores what it says (`Land`), or raises (`Drop`,
`Break`), and a reader that outlives its handler goes on (`stray`). The source may
answer every time another way, or not at all. `Write` is the tool that asks the model
itself. `counts`, `memo` and `fetched` are the runner's counters and memo and the
per-turn snapshots; `asked` counts the requests of the turn, `drafted` those of its
handlers, `won` the answers of a call.

### WatchQueue
An action is one Redis command or one Telegram call of `run_watches`, or a whole
tap (one `ZADD`). A member of the set is (chat, attempts); the score is `due`.
`enrolled` is the registry, which a refused send to a chat that is gone shrinks
(`unsent` remembers refusals). newsd may go down anywhere and come back.
`WatchPromise` counts what is owed to a chat: one report a tap at most, and what
a crash repeats or costs is the one report in hand.

### KiteSession
A token is dead or live; a login makes every other token dead. `pc` follows a
thread through `_call`, `_ensure_token`, `_recover_token` and
`refresh_and_store`; a job runs `refresh_and_store` alone. TTL and cooldown end
at any time.

### Scheduler, EventDesk
`next` is `next_run_time` of every job in the Redis job store, which outlives the
process; `Start` registers the cron jobs again with `replace_existing`, so a cron
run missed while the process was down is never caught up, while a date job wakes
late within its grace or not at all. `RunAgenda` finds what is worth a wake-up;
`Arm` and `RecordArmed` are `add_job` and `record_armed`, one release after the
other, with newsd dying in between if it likes; `SendBrief` and `RecordFired` the
message and its record, either of which may fail. `Move` puts a release off,
booked or not; the job id names the time, so the old wake-up stays. `Sweep` is the
watchdog's: `cleared` and `blamed` remember what it said.

### Figures
What an indicator, a vendor or the model returns is an input. Prices are whole
ticks (thousandths of an ATR in `TradePlan`), shares are compared multiplied out,
a name is a value except where its spelling is what is ranked (`SymbolSearch`).
`NewsDesk` and `DeskDuties` fold a run over a history, with what Redis keeps from
run to run, so claims, caches and marks that expire are in them. The `Trials*`
modules say which inputs TLC tries; `MCFigures` makes a behaviour of one trial.
`Conditions` declares a `RECURSIVE` operator; its trials are in `MCFigures`, which
no module with a theorem reaches.

- `Conditions`: the stop of `RunStrategy` is one percentage for all trades of a frame
  (`StopIn`); an ATR stop is one of the last bar's ATR and close.
- `SignalPath`: besides its own frame, from which the forming bar is dropped, a signal's
  model asks for candles in rounds (`talk`); `Shown` is all it sees, and in a live signal
  what it fetches of another interval keeps its forming bar.
- `Levels`: of the clusters within reach the strongest `MaxLevels` make the ladder.
- `TradePlan`: the tool votes with every indicator, the engine with `SignalSet`
  (`EnginePanel`); `Cent` is the floor `reward_risk` puts under a risk, and both prices
  below and above it are tried.
- `NewsDesk`: the cache keeps an analysis under a url, whatever headline it was made of;
  a claim is the end of the url or of the title (`EndOf`).
- `DeskDuties`: an answer says how its run ends: reported, failed before the mark was
  written, or after.

## 3. Runs

A property of a cfg is often a conjunction of named parts (in brackets); each part
is stated and commented where it is defined.

| Run | Instance | States | Shows |
|---|---|---|---|
| `quote_cache` | 4 callers, 4 locks, cancellation or an exception at any await | 57 k | `UndisturbedFlight`: one download per key; `LocksAreSound` (types, exclusion, no lost wake-up); `EveryRequestReturns`; `ImplementsReadThrough` |
| `deriv_ticker` | 2 pairs, 3 ids, 3 connections, 2 ticks in flight, any drop, any missing baseline | 95 k | `StreamsAreKnown`: ids and routes belong to the connection and really stream; `KeptUnlessFaulted`; `ComesBack`, the reader and every promised pair with it |
| `scorecard` | 2 trades, a window of 2, one trade past it, bars that widen, a sweep that reaches 1 trade, a crash anywhere | 316 k | `VerdictsAreSound` (settle against its loop; a verdict stands but for a bar that was forming and an order not filled yet; who stays open for good); `TallyIsSound` (counted once, settled means counted); `MarketOrdersClose` unless starved |
| `transcript` | 8 messages, results smaller and larger than the cap | 18 k | `ShedsInOrder`, `OnlyResultsShed`: what is shed, in which order, and when |
| `chat_turn` | 4 tools (one on the account, two that gather, one that asks the model), 2 rounds, 2 calls each, 2 in a reply, 1 unit of tokens | 2.16 M | `WorkIsBounded` (runs, requests of the turn and of its handlers), `SnapshotsHold` (one look at the account; who may replace a frame), `FiguresChecked` (and the ways round), `TurnEnds` |
| `watch_queue` | 2 chats, 2 taps each, 3 attempts, refused sends, a crash or an outage of newsd | 349 k | `KeepsThePromise`, `NoWatchGoesAstray` (no unasked report, a crash costs one watch), `EveryWatchIsAnswered` |
| `kite_session` | 1 process, the startup job and the daily one, 2 deaths, 2 faults | 58 k | `SessionIsKept`: the session heals, tokens keep their kind |
| `streamed_turn` | a turn with 2 Pine calls, 1 other client, a queue of 2, 2 progress events, a child that dies | 227 k | `SandboxInStep` (one call at a time, pipes in step), `TurnIsClean` (the outcome is shown once and last; a turn that was left begins nothing more and has no call in the sandbox), `KeepsItsPromise`, `EndsUnlessFull` |
| `deriv_history` | 3 windows, 2 at once, a span of 2 of them, 2 connections | 1.07 M | `LineIsSound` (nothing left pending, one handshake, breaks are heard), `HonestWalk`, `KeepsItsPromise`, `WalkEnds` |
| `event_desk` | 1 release, 2 times it may be held at, 6 days of 4 steps, 2 faults | 4.1 M | `AllClearIsTrue`; `ReportsAreTrue` (blame is deserved, nothing is told twice) |
| `figures` | every trial of every figure | 1.17 M | one invariant for each topic: `StrategiesAreSound`, `SignalsAreSound`, `LevelsAreSound`, `PlansAreSound`, `NewsIsSound`, `EventsAreSound`, `HoursAgree`, `AnswersAreHonest`, `BriefIsSound`, `DutiesAreDone` |

**Why the bounds are enough.** Three callers are what a lost wake-up takes (an
owner, a waiter, one behind it), and four what a second flight takes on the way
through an abandoned lock. Three connections let an id survive a reconnect and
meet the id of a later one. The scorecard follows one trade one bar past its
window, which is what distinguishes the window from the path, while the other one
interleaves with it; the sweep reaches one of the two, so that one which stays open
for good starves the other. Two rounds with two calls a reply, of tools that may be
called twice, reach every ceiling; two readers of one item, with one that outlives
its handler, are what it takes to store a frame twice.
Two chats with two taps each interleave a tap with every command of the sweep,
and the offer runs out within the clock. Two deaths and two faults let a session
die again while it is being healed. In the streamed turn a call can be cancelled
while it reads, a second one of the same turn may follow, and the third finds what
the first left in the pipes; a queue of two is full with two progress events, so
both the outcome and the sentinel have to wait. Two of three windows cover the
span and the third is the reach further back; two of them at once share a
connection that breaks under both, and the second connection is one that meets the
old reader's end. Two times, ten and twelve steps apart, let a release that was put
off be armed twice, with its records alive or expired. The trials enumerate the boundary
of every comparison in the code, on both sides.

**A violation.** One claim of a docstring is checked and refuted by a run: `kite_session_duel` checks that the other processes pick a new
token up from the store (`LoginsAreNeeded`). Two of them do not: the one that
holds the replaced token in its cache logs in again and kills the first one's.
`findings` in `PROJECT.json` quotes the claim.

**Deadlock** is checked where the system runs for ever (`QuoteCache`,
`DerivTicker`, `KiteSession`). A turn, a walk, a transcript of bounded length, a
trade's path of bars, a trial, and the clock of the watches and of the event desk
really end, and their cfgs say so.

### Fairness
- `QuoteCache`: a coroutine whose future is set runs, and a vendor's call ends
  (the HTTP clients and the Deriv socket carry timeouts). Nothing makes a caller
  come, fail or be cancelled.
- `DerivTicker`: `_run` goes on (weak), and a handshake retried for ever
  succeeds in the end (strong: an attempt may fail in between).
- `Scorecard`: the daily sweep runs and ends; a feed does not fail for one
  proposal for ever (strong); bars keep coming up to the bound.
- `ChatTurn`: the turn is one coroutine whose awaits carry timeouts. Nothing makes a
  reader that outlived its handler come back.
- `WatchQueue`: the cron job of a running newsd, its restart by whoever
  operates it, and the clock.
- `KiteSession`: a call under way goes on, and callers keep calling. `SessionHeals`
  speaks of one process with one thread beside the jobs: two processes may go on
  killing each other's tokens, which `kite_session_duel` shows.
- `StreamedTurn`: every suspended coroutine of the sandbox is resumed
  (`readline`'s timeout bounds the longest await); the turn's tool call returns;
  the task goes on while there is room to go on; a browser that stays reads. Nothing makes the child
  answer, the browser leave or another client call.
- `DerivHistory`: every window of the walk is resumed (connecting and waiting
  carry timeouts), gets its turn with the semaphore, and `gather` returns. Deriv
  owes nothing.
- `EventDesk` has safety properties only: a brief may be missed for good, and
  what the desk owes is to say so.

## 4. Behaviour that differs from what the text says

Behaviours of the code that a docstring or a comment does not suggest. Where a property
is named in brackets, it is stated so that it holds of the code as it is and tells when
the text's claim holds and when it does not; the latter is among the states or the trials
of the passing runs. The others were met on the way, or are simplifications of the models
that a reader should know.

Caches, sessions and streams:
- a lock is popped from the table while waiters of it queue (`registry.py:316`),
  so a caller that comes then makes a second one, and after a cancellation two
  downloads of a key overlap (`UndisturbedFlight`);
- an unsubscribe during a resubscription pass is undone by the pass
  (`deriv_ticker.py:176`); a pair whose baseline fails in a pass is forgotten
  although its docstring says a reconnect restores what was subscribed
  (`KeptUnlessFaulted`);
- the model takes `ws.send` and the lines that record the subscription
  (`deriv_ticker.py:121`, 125-126) as one step: the send may suspend on a full buffer,
  and what happens in between is not looked at;
- a token that was minted is dropped when the instruments call fails;
- the end of an old Deriv connection fails every pending future, those of requests that
  were sent on a newer one included (`deriv_socket.py:100`): allowed by the model, and
  no property speaks of it;
- the provider drops `Walk.vendor_failed` (`deriv_provider.py:227`), so a gap in
  the history reaches the caller as history;
- `get_bars` reports how it clamped a range, while Kite and Deriv clamp once more
  with the table of yfinance (`registry.py:149`).

Watches, scorecard, event desk:
- a tap after a retry arms a second watch, because a retry changes the member; a
  tap while the offer's TTL lasts arms a watch even when the event is over; a crash
  between `retry`'s two commands drops the watch; a refused report is taken off as
  done; a chat that sent /stop still gets the reports it armed;
- `run_scorecard` hands `settle` the last bar while it is still forming
  (`job.py:226`-232), so a verdict inside the window may be one the finished bar would
  not give: a target, where the bar goes on to reach the stop (`VerdictStands`);
- "an entry that never filled is `unfilled`" (`scorecard.py:21`), but a limit order is
  closed as such by the first sweep that finds bars none of which reaches the entry,
  however much of its window is left, since only `expired` is left open
  (`job.py:237`; `VerdictStands`);
- "a trade neither stopped nor targeted is `expired`, not open forever"
  (`scorecard.py:19`), but what is compared with the window are the bars held since the
  fill, of a window that began at the proposal: a limit order that its first bar did not
  fill never expires (`OnlyLateFillsStay`). A sweep reads the oldest 200 of the queue
  (`scorecard.py:139`), so that such trades keep a newer market order from ever being
  looked at when they fill those places (`MarketOrdersClose`, `Starved`);
- a bar that fills a limit order and covers both ends is no stop;
- cron runs missed while newsd was down are not caught up (`scheduler.py:49`); a
  release that was put off keeps its old wake-up and gets a second one
  (`watcher.py:9`); the agenda runs at 04:00 IST where a comment speaks of Dubai
  and UTC (`newsd.py:28`);
- every shock is claimed before three of them are sent, and what Telegram refuses
  is not tried again (`shocks.py:178`). A claim is the end of a url (`shocks.py:146`) and
  a headline's id another end of it (`news.py:868`), so that a story whose url ends like
  one that was pushed is silently taken for it; and the story comes again, and is pushed
  again, when the copy that is kept the next hour has another outlet's url
  (`shocks.py:33` says once; `PushedOnce`);
- an analysis is kept under the url alone (`news.py:709`-721): when an outlet changes its
  headline, the new one is shown with the sentiment of the old, though the docstring at
  693 speaks of "the same headline text" (`RightHeadline`);
- `fred_releases` writes the mark of a print (`macro_events.py:112`) before it reads its
  values (119) and before the other series are done (`gather`, 124): when either raises,
  or the brief that asked is cancelled or not stored, no run reports the print, though
  the docstring at 77 says a run is late at worst (`EachPrintOnce` speaks of runs that
  come to their end); it returns an empty list where its docstring says None (84);
- the drift check compares with the last snapshot only, which may be hours old,
  under a title that says "in the last hour";
- "a `/fail` ping reports a run that happened but didn't do its job"
  (`heartbeat.py:3`), but the drift and reddit jobs ignore a publication that failed
  (`jobs.py:165`), and a square-off that failed in part still pings "ok"
  (`jobs.py:206`-208);
- the move after a release starts at the close of the bar stamped at it, and is
  reported when its first mark alone was reached.

Chat, sandbox:
- the answer of a sandbox request that was cancelled goes to the next caller
  (`sandbox.py:153`, reached from `router.py:295`; `SandboxInStep` until then);
- "the turn itself should not outlive the reader it was running for"
  (`router.py:292`), but a task that is cancelled, or done, still puts its sentinel
  (271), and when the queue is full and nobody reads any more it waits for ever. It has
  no call in the sandbox then, and it begins nothing more (`TurnEndsOrWaits`,
  `LeftTurnStops`);
- a frame is "fetched at most once per turn" (`base.py:82`), but `ToolContext.frame`
  looks, awaits and stores: tools that gather (`market.py:128`-131), and a comparison
  that names a symbol twice (159), fetch one frame twice at once, the second answer
  replaces the first, and a fetch that raises is forgotten. `SnapshotsHold` says that
  nothing else replaces a frame that is there, and that the account, whose failures are
  kept for the turn, is never replaced;
- the check of account figures (`orchestrator.py:208`) is "the enforcement for when that
  instruction doesn't hold" (47-50), but it looks at a last message that is not empty,
  the first time. Triage's answer, a wrap-up, prose that came with a tool call and
  stands in for an empty last message (`turn.py:78`), and a second attempt reach the user
  unlooked at, and a call of an account tool that failed counts as a look
  (`FiguresChecked` names the ways);
- rounds and tokens count the turn's own requests; the tool that writes formulas sends
  up to two of its own in a call (`graph_agent.py:190`, 212, 218), which no budget
  counts (`RequestsAreBounded`);
- when the newest tool result alone passes the ceiling, it is shed too;
- arguments that are JSON but no object raise before the runner's `try` and end
  the turn;
- of a call the model follows the readers of one item: that `scan_watchlist` reads the
  account and then frames, and that the symbols of a comparison do not conflict, is left
  out, and so is what a reader stores after the turn's end.

Signals and plans:
- `take_profit` is extracted from an exit and never applied (`conditions.py:420`);
  a negated condition holds on bars on which its indicator is not warm
  (`conditions.py:365`);
- an ATR stop is turned into one percentage by the ATR and the close of the last bar
  (`conditions.py:476`-480) and then applied to every earlier trade, so that a later bar
  moves stops that were long hit. `schemas.py:499` and the docstring at 451 recommend
  such stops and say that they are taken at the time of the run. `NoHindsight` allows
  that one difference: the trades that are over change when bars follow only if the stop of
  a strategy with an ATR stop did;
- "losing one bar of history is cheap; acting on a forming one is not"
  (`service.py:322`), but the tool a live signal's model fetches candles of other intervals
  with drops none (195-204); generate's own frame has closed bars only, and a backtest's
  tool the bars of its slice (`SignalsAreSound`, `ShownBars`);
- "every gate fails closed", but without an ATR the drift and stop gates fall
  back to half a percent (`service.py:211`), and the backtest's runner lets a frame without
  an ADX pass the regime where generate does not;
- `evaluate` follows a signal across sessions where the backtest does not;
- "a chat answer that disagreed with the engine on the same instrument would be the real
  bug" (`trade_plan.py:304`), but the tool votes with every indicator (368) and the engine
  with `SIGNAL_SET` (`service.py:121`), so that they differ where the two panels confirm
  different things, and only there (`SameButForThePanel`);
- `reward_risk` floors the risk at 0.01 (`validation.py:144`), so that a pair that
  risks less is refused whatever its reward, and so is the target that the refusal names
  as enough (`trade_plan.py:331`-339). A named target passes exactly if a cent or more is
  at risk (`RefusalIsHonest`);
- the tally leaves dojis out (`breakout.py:107`), but a doji as the last bar reads
  the red candles' rates (`breakout.py:126`); a trend line compares its end touches
  only, so its middle one may lie on either side (`analysis.py:171`);
- `stop_from_structure` is true although the floor was taken (`trade_plan.py:294`); a
  total value of 0 falls back to the initial capital in `position_size`. The rounding of
  the prices that `propose_trade` prints is left out.

Market, news, brief:
- a session closes before 15:30 in `sessions.py` and after it in `calendar.py`;
- a symbol that is no pair, asked for on FOREX, goes to Deriv and then to the
  fallback as a pair; the fallback takes names of MCX and NFO for US tickers;
- when search lists are joined, exact matches of the later one are cut; the
  fallback's search drops a dual listing;
- a merged page is not newest first once it was filled up; of two copies of a
  story the first source's stays, not the newest; one failed chunk discards the
  analyses of all;
- alignment may outvote a lead of confidence of up to six sevenths of the usable
  range (`brief.py:124`); when two drivers cancel, a buy is told they conflict and
  a sell that they agree (`brief.py:314`); a brief does not say that it was made
  without cues;
- `screen_market` returns what passes in the order it was asked, whatever
  `min_confluence` says, and names whose frame cannot be read vanish
  (`screener.py:116`);
- simplifications: one `today` stands for the date where the code runs, the date of an
  expiry and the day the cached dump of instruments is from, which may be the day before; the 24 past prints that are read and the ten
  of them that are kept are twice and once the limit of the model; Redis is up or down for a whole hourly run
  of the news page; of a run of the brief that is cancelled, or cannot be stored, only the
  loss of its prints is modelled (`lost`); the periodic jobs' pings are not.

## 5. Proofs

All for any value of the constants, from the named `ASSUME`s of the modules, which
the runs evaluate. Each theorem module states its inductive invariant, shows that
it holds initially and is kept by every action (one lemma for each), and derives
the properties of the run from it.

**QuoteCacheProofs.** The invariant of `LockInvariant` adds to the types: the
queue of a lock holds exactly the coroutines that wait on it, each once; a
coroutine in the router refers to a lock; whoever fetches holds its lock locked
and a locked lock has one such owner; the woken coroutine of a lock is the head
of its queue and the lock is free. `LocksSound` follows, cancellations included.
`FlightInvariant` strengthens it with what holds until the first request is cut
short: while somebody fetches or is woken on a lock the entry is not yet
answerable or every other caller is behind it, so a lock that was popped from the
table is one whose waiters will find an answer. That gives `OneFlightAtATime` and
the step-by-step mapping of `Refinement` (`Request` and `Resume` that fetch are
`Begin`, the stores are `Land`, a cancellation is `CutShort`, the rest stutters or
expires). TTLs that could end between a wake-up and the waiter's run would break
it, which is why the model states that assumption.

**DerivProofs, tick stream.** The invariant says of the connection in use which ids Deriv
streams and which of them are recorded, of the pass which pairs are still on its
list, and of a `subscribe` under way on which connection it began; ids carry their
connection, so an old one is never mistaken. `RecordsAreTrue` and `PromisesAreKept`
follow.

**StreamedTurnProofs.** First the sandbox by itself. The line holds the calls under
way, each once, and whoever is past the semaphore is its head; undisturbed, the
pipes hold one request or one answer at most, of the call that reads. From it
exclusion (`OneCallAtATime`), `PipesStayInStep`, and `AnswersAreOnesOwn`: every step
is one of `Exchange`. Then the turn. What was sent and what is queued, one after the other, is
progress, then the outcome, then the sentinel, as far as the task has come. A
tool under way in the sandbox is the one the running turn awaits. With the
sandbox's invariant this gives `SandboxServesTheTurn`, `TurnLeavesNothing`, and,
as the composition takes only steps of the sandbox, `TurnKeepsThePromise`.

**DerivProofs, history.** The line of `_connecting` holds who is at it, its owner
first; a future holds its own answer, an error or nothing; `_ws` is the only
connection that is read and open and nobody opens one beside it; who waits on a
connection whose reader is over has been told or the connection was closed in
silence. `LineStaysSound` and the mapping to `Exchange` in
`AnswersReachTheirRequest` follow. `WalkIsHonest` adds what the walk knows of the
answers (`HonestInv`): Deriv answers what was sent, once, and a future with an
answer has the one that was given; a pass is over when all its windows are, and the
walk when there are bars or no more windows. The windows of a pass are those before
`Planned`, whose division is bounded once, in `PlannedFacts`.

**DutyProofs, reports.** What the run still has to see is in the sorted set, each
member once, unless it is the watch between the two commands of a retry or a
removal (`QueueInv`), whoever taps meanwhile; `HandInv` says what it did with the
one in hand. That is enough to map every command to a step of `WatchPromise` or a
stutter (`KeepsPromise`): a retry and a re-tap change what is queued, not what is
owed. Whatever keeps the promise keeps the account (what a chat was told and is
owed is at most its taps and the crashes), and a chat that lost its watch lost it in
a crash, one each: `NobodyGoesAstray`.

**JobProofs, event desk.** No time passes while the agenda has a wake-up in hand;
a wake-up is booked for its own time or not at all, runs once its time has come,
and by then it is too late to book it again (`WakeInv`), which is why nothing goes
out twice although every sweep arms every release anew. A record lives from the
last time its wake-up was booked (`RecordInv`). `ClearInv` and `BlameInv` carry
what the watchdog said to later states: `AllClearHolds`, `ReportsHold`.

**JobProofs, scorecard.** `ScoreInv`: whoever is in the queue or in the sweep's
hands is there once, a trade half recorded is not there yet and one half closed not
any more; who is in the tally is done with, so the sweep cannot meet it again.
`VerdictInv` says of a verdict, recorded or in hand, that it is what the bars of its sweep
say (`Holds`), or that the last of them, undecided before it, has come to say something
else since, or that none of those before the last fills an order closed inside its window;
and of who was left open past the window that its first bar did not fill it. More bars, or
a last one that goes on widening, keep that.
`SettledIsCounted` is inductive with these. `TallyHolds` follows, crashes between any
two commands included. `VerdictsHold` adds that `Settle` and the loop agree for
every sequence of bars: the loop is followed to the first bar that fills and the
first that decides, by induction.

**ChatTurnProofs.** The invariant relates the counters, the memo and the number of
successful runs of each call (`RunnerInv`), the requests sent to the rounds begun, the
stage and the runs of the tool that asks the model itself (`RequestInv`), and the readers
at work: at most two, of one item, and one alone where the item is the account
(`ReadInv`). From it `WorkBounded`, and the number of all requests a turn causes
(`RequestsInAll`). `SnapshotsHoldForAll` is an action property: the one reader of the
account looked because nothing was stored, and every reader that
looks after a frame was stored takes that one, so only one that was awaiting its own answer can replace it.
`FigureInv` follows what the turn would say, from the round that accepts it: a call that
is in the list of tools has run, so that an accepted message with account figures comes
after a look, after the retry, or from a stage that does not check (`FiguresAreChecked`).

Of the transcript the invariant `ListInv` says that what was replaced is the note,
that the counter knows of it, that the shed results are the oldest and that after a
result the list fits or has none left. The walk of `_enforce_ceiling` is followed
message by message, by induction: after `i` of them it has either stopped because the
list fitted, or shed every result before `i` (`WalkFacts`). `EnforceIsLeast` turns
that into the least number of results that do. The total is used only as a
number that a list has. `ResultsAreShedInOrder`, `NothingElseIsShed`.

Of the trade plan `EveryPlanIsSound` says what the run `figures` tries on a few
charts, for every one: any finite set of levels, any last price, an entry that is
asked for or not, either side, any mode, panel and RSI, and any account, prices and
percentage. Prices are whole thousandths of an ATR, as in the run. The nearest and
the farthest of some levels exist because their distances have a least and, on a
chart with a highest level, a greatest (`NearestIs`, `FarthestIs`). So the entry is
no worse than the last price (`EntryIs`), the stop on its side, between 1.002 and
3.493 ATR away and behind the level but for that cap (`StopIs`), and the target
ahead, out of the noise, and worth the risk if any level that may be aimed at is
(`TargetIs`). These are what the gates ask for, so that only the panel, the RSI and
the reward can refuse a trade; where the two panels confirm alike the tool and the engine agree.
With a cent or more at risk the floor of `reward_risk` does nothing, and below it the target
that is named falls short. A size is
the least of three quotients, each the most its own limit allows (`TightestIs`).

**FigureProofs, hours.** The run `figures` tries one coarse clock and a few holidays; the
theorems are about every clock that opens, squares off and closes in that order within a
day, every set of holidays and every moment. `Looked` is followed candidate by
candidate (`LookedIs`): after `n` of them every window's next start is either passed
over, a holiday, or still ahead, so what is found is the least start that is no holiday;
a market that is open was open the tick before or starts there (`NextOpenIsNext`, of any
weekly session with attempts for two candidates of each window). Starts are a day of the week and a
tick of it, which is division with remainder, characterised once in `DivMod`. The two
calendars find the same day because the least trading day ahead is the day of the least
start (`CalendarsAgree`). `HoursDoAgree` applies them to the run's clock.

**FigureProofs, signals.** `SignalsHold` is about every frame, panel, trade, run of bars
and split into sessions, given what the code is given: bars an interval apart or more
and none ahead of the clock, prices between a bar's low and high where it opens, dates
that do not go back. A total over families is followed term by term in the order its
sequence has them (`TotalIs`). Both sides' shares of a family are the whole of it at most
(`SharesTogether`), so that both sides' totals are the families at most and cannot each
reach three quarters (`OneWayAtMost`). A family that is against leaves two thirds of
three families, which is short of three quarters (`NoneOverruled`): a fourth family
would break this, and the theorem says so in its hypothesis. A verdict is made of one
bar that reached the stop or the target (`JudgedBy`), and on a trade whose prices are on
their sides such a bar loses or gains (`VerdictsAreOfTheSide`); a sent trade has its stop
an ATR away and its target one and a half times that, farther than a short bar about
the entry reaches (`NoiseIsNothing`). A frame loses its last bar or none
(`ClosedBars`), which is said of the engine's own frame; of all that its model is shown,
whatever it asks for, only the newest bar of a live frame may be forming (`ShownBars`). Since dates do not go back, the bars of the session that follow a point
are a run without a gap (`WithinTheSession`).

**DutyProofs, duties.** `DutiesDone` is about every history, of any length, of
what FRED and the cues answered, with runs that fail before or after they mark, and every
screen over any names, given that a vendor never goes back to an older print. The marks that are
carried from run to run are those of the last run that could read anything
(`FredMarksAre`, `SnapshotsAre`, by induction), so what is reported is new to it: a run that comes to its end reports what it marks, and what a failed run marked is reported by none
(`PrintsOnce`, `DriftSinceLastLook`). A finite set with a strict total order has a
listing in that order (`OrderHasList`, by induction over its size), and a stable
sort is such a listing: what passes is before what does not, and nobody is lost
(`RejectionsShown`).

**DutyProofs, brief.** `BriefHolds` is about every night of cues, every two calendars
whose days grow, and every list of readings that has a symbol once and a
confidence between the floor and 100, which is what `candidate_for` lets through.
An average lies between its cues because the sum over them does, member by member
(`SumWithin`, by induction). Whatever is shifted by one session of a calendar that
grows was over, and nothing of it lies between (`OpenIsKnown`). Seven tenths of the rank are
confidence and three tenths an alignment between -1 and 1, so that alignment cannot
make up for more than six sevenths of the range (`LeadOutweighs`, `ConvictionFirst`). Of a
sector no more are kept than the cap, since the last kept has fewer before it
(`KeptAreFew`), and who is dropped stands behind a full sector, since of several
dropped the first would otherwise have been kept (`DroppedIsBehind`); with the length
of the brief that is `BestOfSectors`. A symbol is shown once, so the symbols of a
warning are the candidates that rest on its driver (`OneBet`).

**SequenceLemmas.** What removing, appending and taking do to a queue without
repetitions; the library says nothing of `RemoveAt`. And induction: the library's
theorems about it take an operator, which the provers cannot instantiate, but that a
set of numbers has a least element (`LeastOfSome`, from well-foundedness) says the
same of a set (`Climb`), and so a function defined by recursion over a range exists
(`LoopIsFunction`) and can be followed.

Only model-checked: every liveness property and whatever needs `ENABLED`
(`EveryRequestReturns`, `ComesBack`, `MarketOrdersClose`, `TurnEnds`,
`EveryWatchIsAnswered`, `EndsUnlessFull`, `WalkEnds`), among them `SessionIsKept`,
which joins types and a liveness property; and of the figures the strategies, whose
operator is `RECURSIVE` (`StrategiesAreSound`), and those that fold over lists or
filter them with library operators that take an operator, which the provers cannot
follow: `LevelsAreSound`, `NewsIsSound`, `EventsAreSound`, `AnswersAreHonest`.
The hours, the signals, the duties and the brief were stated with functions and
chosen listings instead, which is what made them provable. `LoginsAreNeeded` is refuted.

## 6. Not modelled

REST validation, prompt and message texts, parsing of vendors' answers, the
arithmetic of indicators on floats, bars and contract economics, collection of
fundamentals, reddit and headlines, the chat store and tool schemas, the adapters
among the agent's tools: pure I/O, layout or real numbers. Process startup is
construction and one retry loop; the readiness probe's one effect on others, a
cancellation, is in `QuoteCache`.

The Kite tick stream is modelled only as the source a pair's ticks come from:
`subscribe` and `unsubscribe` run in executor threads over one map with one entry a
token, so that overlapping calls, two symbols of one contract, or a roll of it leave
either state; the stream is attached once a process with a token that dies daily
(`main.py:165`). The code promises nothing there that a property could hold it to.
The same goes for the seeding of the subscribers' registry, a `SET NX` and a `SADD`.

## 7. Plan

Done: the components and figures of section 2, the refinements of `ReadThrough`,
`WatchPromise` and `Exchange` (twice), and the theorems of section 5.

Left, in this order: the figures that are only tried, for every input, stated with
functions as the hours, the signals and the brief are (`NewsDesk` first); the type invariant of `KiteSession`. Then a readiness cache and the live manager's
routing between its two tickers, with `DerivTicker` as one of them, and `ChatTurn`
composed with `Transcript`.
