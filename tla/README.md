# lemuel-quant-core in TLA+

TLA+ modules, TLC configurations and TLAPS proofs for lemuel-quant-core: market
data adapters, a data warehouse, a disclosure crawler, a judge for submitted
programs, and the services around them, connected by Redis publish/subscribe.
Every definition is read off the code under `src/`; `PROJECT.json` names for
each one the lines it stands for.

## The system

Processes talk through Redis channels (`trade.binance.*`, `trade.kis.*`,
`book.*`, `news.score.*`), through PostgreSQL, and through objects in
Cloudflare R2. Redis publish/subscribe keeps nothing: who is not subscribed at
that moment misses the message. systemd restarts a process that fails.

| component | state it keeps | operations | interacts with | hard part |
|---|---|---|---|---|
| market-feed (`src/modules/market-feed`) | `running_`, worker thread, WebSocket, Redis context | `start`, `stop`, `run_loop`, `parse_*`, `publish_*` | Binance, Redis | joins, reconnection, blocking read |
| stock-feed (`src/modules/stock-feed`) | the same, and the KRX session clock | the same, `state_at`, `time_until_next`, main's scheduler | KIS, Redis | starting and stopping by the clock |
| data-warehouse (`src/modules/data-warehouse`) | store in memory, window, files, subscriber thread | `append`, `query`, `rollup_once`, `upload`, `run_loop` | Redis, disk, R2 | two threads, two clocks, partial failure |
| dart-crawler (`src/modules/dart-crawler`) | bounded `seen` memory, store | `poll_loop`, `list`, `insert` | DART, PostgreSQL | bounds, restarts, silent failure |
| judge-engine (`src/modules/judge-engine`) | pipes, children, cgroups, work directories | `Sandbox::run`, `Runner::judge`, `Submit`, `Stream` | submitted programs, gRPC | fork and descriptors among threads |
| news-pipeline (`src/modules/news-pipeline`) | alias table, score board | crawl, tag, score, ingest, snapshot | RSS | overlaps, decay, repeated ingestion |
| lqc-gateway (`src/go/lqc-gateway`) | hub of SSE subscribers, last-seen times | attach, detach, deliver, healthz | Redis, browsers | concurrent fan-out, dropping |
| orderbook-matcher (`src/rust/orderbook-matcher`) | one book per symbol, tick counter | apply, top, publish | Binance, Redis | order of spawned tasks |
| strategy-bot (`src/python/strategy_bot`) | windows per symbol, cooldown times | detectors, cooldown, send | Redis, Telegram | cooldown and failed sends |
| backtester (`src/python/backtester`), R, Julia | none beyond a call | load, resample, signals, positions | R2 | numeric edges |
| trackers (`src/python/crypto_price_tracker`, `gas_tracker`, `dex_feed`) | last values | poll, publish | public HTTP APIs | polling, retries |

What makes each of them correct, and what of that is stated here:

- **data-warehouse**: a trade that was recorded ends up in a file, in one file
  only, the file keeps it, and the log tells the truth about the upload. The
  code keeps the second half and breaks the first in known ways; the properties
  say exactly which ways there are.
- **Redis subscriber**: messages reach the handler in order and once; nothing
  is dropped in a steady connection; nothing runs after `stop()`.
- **dart-crawler**: each disclosure is handed on once, none is skipped, and what
  the store does not take is not lost in silence.
- **judge-engine**: a verdict is about the submission's own program, an accepted
  one has earned it; calls do not disturb one another; what a submission leaves
  behind is known; every submission is answered.
- **feeds**: frames reach Redis in order and once; sessions start and stop; no
  thread is forgotten; the program ends on a signal.
- **lqc-gateway**: the process survives browsers that come and go while it
  delivers; each gets its messages in order; a slow one harms only itself.
- **orderbook-matcher**: what it publishes is the top of one snapshot; tasks may
  overtake one another only before the lock; the throttle keeps its rate; a top
  that was handed on comes to the browsers.
- **news-pipeline**: mentions are the longest; the scores are what their
  definition over everything ever scored yields; the board stays bounded.
- **strategy-bot**: incremental windows yield what their definition over all
  prices yields; alerts of one kind do not silence another.
- **KRX session**: a scheduler that trusts `time_until_next` is wrong about the
  session for less than a second.

## Modules

`Warehouse` (with the abstract `TradeArchive`), `RedisSubscriber`,
`DartCrawler`, `JudgeSandbox` and `JudgeRunner` on top of it, `KrxSession` with
`KrxSleeper`, `FeedClient` with the two programs `StockFeed` and `MarketFeed`,
`GatewayHub` and `OrderbookMatcher` with `BookStream`, which composes them,
`NewsPipeline` and `StrategyBot`. The `MC` modules instantiate them for TLC.
Names are the code's where it has one. Definitions marked *(mutant)* are wrong on purpose: plausible bugs
that stand beside the definition they replace, used to see that each property
notices one; no specification uses them.

### Warehouse

The worker thread does `trade_to_row` (stamp) and `append` (insert) as two
steps, because the lock is taken in between. The main thread does `EnterLoop`,
`BeginRollup`, four times `QueryChannel` (each takes the lock by itself),
`WriteParquet` or `WriteCsv`, `upload`, and `Advance`, which is main.cpp:113-114
and happens whatever became of the rollup. `Tick` moves the wall clock and the
steady clock together; `StepBack` moves the wall clock alone. Rows are the
trades themselves and a file is the set of rows that can be read from it, per
second of its name. `upload` and `report` are two steps, PutObject and the line
"r2 upload"; `bucket` is what was put under a name, and `reported` the lines,
none of which is ever taken back. A PutObject that fails may have stored the
object. `Crash` is also an uncaught `std::stod` exception on
the worker thread. `TradeArchive` is the abstract promise: a trade is expected,
recorded, and then settled for ever, archived or lost; `Phase` is the
refinement mapping.

### RedisSubscriber

`redisCommand("PSUBSCRIBE")` is two steps, `PSubscribe` and `FreeReply`: Redis
registers the pattern at once and the reply is whatever the stream holds next.
`Publish` puts a message into the stream if a pattern that is registered
matches; `BreakLink` cuts off what had not arrived. The failing connect and the
sleeps are stuttering steps.

### DartCrawler

`list` answers page one, newest first; `Record` is one round of the loop over
it with the set, the deque and the callback `on_new`, which inserts and prints.
`PgInsert` is the transaction with its catch clause: it throws for good once the
connection is gone, at any time with the connection up (a value that is refused,
a timeout), or because the connection breaks, with the commit in doubt; `failed`
is the numbers of the lines "insert failed". `MakeStore` is the choice between
PostgreSQL and memory. A receipt number is its position in the order of issue.
`Crash` is also the simdjson exception that nothing catches.

### JudgeSandbox

Several threads in `Sandbox::run`. `fds` is who holds which end of which pipe;
`Fork` copies all of the judge's. A program is a script over "read a chunk",
"read to the end" and "write a chunk", and a way to end. The wall clock enters
only as a possible TimeLimitExceeded at the end. `leaves` is the calls that have
a cgroup of their own: `create_cgroup` makes it or throws before it does, and
nothing ever removes one.

### JudgeRunner

Requests are threads of the gRPC server that share one Runner. `MakeDir` to
`WriteSource` prepare a directory, `LogPipe` to `Compiled` are
`compile_via_execv`, `RunCase` is a step of `JudgeSandbox` in the case that is in
work, `CaseDone` and `Return` aggregate the verdicts and remove the directory, unless `remove_all` fails: runner.cpp:101 drops
its error, and `unremoved` notes it.
The compiler is a child like the programs: its log pipe is in the same
descriptor table, so a fork of either kind inherits what the other has open.
`Submit` and `Stream` differ in how they send what `judge` has already
returned, and are one action, `Answer`. `make_run_id` is its counter; the random
half of the name is left out, so that nothing rests on it. Whether a program
prints what its case expects is a set of programs, `Right`. `sandbox.cpp:38`
lists "cgroup attach" before the limits and execve; the code attaches from the
parent after the fork, while the child runs. The limits of a cgroup are not
modelled.

### KrxSession and KrxSleeper

`KrxSession` is the code's arithmetic on a clock of `PerSecond` ticks in a second,
the rest of which `to_time_t` cuts off as krx_session.cpp:16 does; `KrxSleeper` is
the scheduler that the comment in krx_session.hpp:30 addresses.

### FeedClient, StockFeed, MarketFeed

The two adapters share `start`, `stop` and the shape of `run_loop`, so one
module has them, with constants for what differs (`Closes`: Binance shakes
hands when it closes, KIS does not). `start` and `stop` are parameterised by
where main() goes on. Frames are market data, unparsable data (the parser
throws), or anything else. `StockFeed` adds main's five-second scheduler over
`KrxSession`, `MarketFeed` main's wait for a signal.

`MCFeeds` runs either of the two programs, as `program` says.

### GatewayHub

`Receive`, `RLock`, `Send`, `RUnlock` are the subscribing goroutine; the read
lock is held from `RLock` to `RUnlock`, with one `Send` per subscriber, and
`attach` and `detach`, each one step under the write lock, wait for that time
(`Unread`). `Greet`, `Take`, `Write`, `Done` are a request's goroutine. A write
to a browser that does not read need not return. Counters, time stamps and
`/healthz` are left out.

### OrderbookMatcher and BookStream

`on_book` is the closure of main.rs:77-94 under the write lock: replace the book,
count, and spawn a task for the top. A task comes to the lock (`lock`) in any
order, the lock is given in the order of asking, and `publish` is the answer of
Redis. An update is known by its number `n`, and `behind` is history: which
tasks had not come to the lock when it was applied. `Connect`, `Disconnect` and
`Missed` are the reconnecting feed. Its connection to Redis may break or fall
silent; then the task at the head waits for ever and holds the Mutex.
`BookStream` puts Redis between the matcher and `GatewayHub`. Redis sends a
message to the gateway if its PSUBSCRIBE is there (`Route`), and from there it is
on the `wire` until `FromRedis` hands it to the hub, in order. The pub/sub
connection of go-redis subscribes late, breaks with what has not been read, and
subscribes again (`PSubscribe`, `BreakPubSub`), and what finds the channel behind
it full is given up (`Overflow`); `missed` collects what was lost. The messages of
other programs are `PublishOther`, an external action that the
matcher's `Spec` has beside its own steps; `StreamSpec` is the composition.

### NewsPipeline

`Chars`, `Tickers`, `Feeds` and `Tables` say what texts, articles and lines there
may be. `load_csv` yields every alias table that the order of the hash map permits,
line by line (`add_line`), and `Sorted` every order of aliases of one length. `tag`
is the scan of ner.cpp:64-83, alias by alias: `Found` goes on behind each occurrence
it has looked at, taken or not, and `TakeFree` adds those that no hit overlaps. `fetch` appends the articles of a feed, or the beginning of them,
dated now; `score_article` takes as much of a page as came; `snapshot` sums and
drops (`score()` changes the board although it is const). `Decay` stands for
`pow(0.5, age / half)`, in integers, and `Cutoff` for eight half-lives; no
property depends on the shape of `Decay`. A sentiment is any of `Scores`.

### StrategyBot

A trade goes through `FeedAverages` and `FeedJumps`; each yields one signal at
most, which `Suppress`, `Try` and `send` deal with before the loop goes on.
Prices are floats, and what Python makes of them is left to three constant
operators: `Mean`, `Compare` (which may also say that neither is less, equal or
greater) and `Moves` (whether a change reaches `threshold_pct`). Rounded averages,
a threshold of 0.5, infinities and NaN are thus admitted, and nothing is proved
that depends on exact arithmetic. `stream_raises` is what `stream_trades` does not
catch: an error of Redis, a null price, JSON that is no object. `hist` and
`emitted` are history: from them the reference property computes, by the same
operators, what the windows should have yielded.

## Runs

Passing runs (deadlock is checked only for `MCSubscriber`; in the others the
process ends or a bound on clocks and counters is reached):

| run | bounds | what it shows |
|---|---|---|
| `MCWarehouse` | 2 trades, 6 ticks, seconds of 2 ticks, interval 2, 2 starts, every fault but a clock set back | durable files, repeats only at window ends, the known causes of loss and no other, refinement of `TradeArchive`, what a line about an upload is worth |
| `MCWarehouseClock` | 1 trade, 5 ticks, failing uploads | what survives a wall clock that is set back |
| `MCSubscriber` | 3 messages of 2 of the 3 patterns | order, no loss but to the reply of a PSUBSCRIBE, resubscription, `stop()` |
| `MCDartCrawler` | page 2, memory 3, 5 disclosures, 2 starts, every fault | once, none skipped, stored or logged, printed once, handed on in the end |
| `MCJudge` | 2 submissions, 3 cases, 6 programs, pipes of 1, output limit 2, directories that are not made; one failure of a pipe, fork, exec, cgroup or `remove_all` | verdicts are one's own and aggregated truly, directories are one's own, what is left behind is known, everyone answered unless two programs wait for the end of their input |
| `MCKrxSleeper` | 10 ticks a second, every 30.7 s over 15 days | oversleeps by less than a second |
| `MCFeeds` | stock-feed: 5 moments from Friday to Monday, the clock stopping at any, 2 frames; market-feed: 5 frames; breaks of either connection | no unjoined thread, order, losslessness, quiet after `stop()`, sessions followed, end on a signal |
| `MCBookStream` | 2 browsers, 2 channels, buffers of 1, 3 messages, up to 5 updates, a counter of 2 bits, N up to 3, a pub/sub channel of 1 | no panic, drops only from a full buffer, nobody delayed, nobody kept; tops of one snapshot, in the order of the lock, at their rate, and to the browsers |
| `MCNews` | every text up to 5 of 3 characters, 3 tables, up to 3 articles over the cycles of 3 ticks | the longest mention, scores as defined, bounded vectors |
| `MCStrategyBot` | 6 trades of 2 symbols, prices 0, 10, 11 and NaN, rounded averages of 1 and 2, jump window of 3, cooldown 2 | windows agree with their definitions |

Why the bounds are enough. Two trades suffice for a row that is late and one
that is not, and for two rows in one window; six ticks make two windows that
share an end and a third that does not. With a clock that moves both ways one
trade is enough for what is asked there, which is about one row and its files.
A page of 2 with a memory of 3 is the smallest case of the assumption
`MaxSeen >= 2 * Page - 1`, under which forgetting starts as early as it safely
can (the code has 100 and 10000; with one number less `HandedOnce` fails).
Disclosures come at most a page at a time between two polls that succeed
(`Bursts = FALSE`); larger bursts do push numbers off page one, which is what
`NothingSkipped` and `HandedInTheEnd` except. Pipes of one chunk, inputs of none
or two, and outputs up to the limit, over it and under it make every blocking
case of longer pipes occur. Five moments cover each branch of the scheduler.
Three data frames show a frame lost between two that are not. A buffer of one is
full at once, and the third message finds it so again. `MCJudge` puts one case
of any kind beside a program that reads to the end of its input, which is the
one that notices what another child has inherited, and two cases in a row beside
a submission that only compiles; `MCFewFaults` lets at most one call or clean-up
fail, with everything else as it would be. `MCKrxSleeper` starts and wakes at
every tenth of a second. `MCBookStream` starts with either part large
and the other small: the hub alone with two browsers; two updates and one
browser, and with them all that can happen to the gateway's connection to Redis;
three updates, or five with a throttle, without browsers. The browsers
are alike, so `c1` asks first. A counter of two bits wraps within five updates,
with N = 3 in the middle of a group, which is where a saturating counter would
stop publishing. In `MCNews` a text is varied freely in a program that goes no
further, since the tagger keeps nothing; several cycles get short articles.
Five characters let an alias of two overlap itself, another alias and a longer
one in one text; three ticks with a cutoff of one let a contribution count,
fade, and be dropped. Six trades are enough for
the averages' deque (maxlen 4) to drop prices, for a jump window to be cleared
and filled again, and for two symbols to alternate. 10 and 11 have the same
rounded average but differ by more than the threshold of 9.5 per cent.

Runs that are violated, each on a sentence of the repository:

| run | the code | the sentence |
|---|---|---|
| `MCNothingLeftBehind` | stamped before, appended after the query: in no file | "Drains rows newer than the previous rollup" (rollup.hpp:25) |
| `MCReturnsTogether` | children inherit each other's pipes | "no race between concurrent gRPC requests sharing the same Runner instance" (runner.cpp:92-93) |

`MCReturnsTogether` and `AnswersUnlessTwoNeedEof` are two sides of one fact: one
program that waits for the end of its input may run beside any others, two may
not.

Other places where the code and its comments part, read off the code while
modelling and respected by the models:

- a pmessage that arrives between two PSUBSCRIBE commands is taken for the
  command's reply and freed, against "dispatches each (channel, payload) pair to
  a callback" (redis_subscriber.hpp:12-13); `LosesOnlyWhileSubscribing` says that
  this is the only such loss;
- soft and hard RLIMIT_CPU are equal, so the kernel sends SIGKILL, which is
  judged MemoryLimitExceeded; sandbox.cpp:125 waits for SIGXCPU in vain;
- `/healthz` calls a hint channel that was never seen healthy (health.go:37;
  main.go:28 says it wants to see a message);
- the cooldown of strategy-bot starts with the attempt: a send that fails keeps
  the signal back for a minute (run.py:72; a property would only restate
  that line);
- the bounds of a window are both inclusive, so a row stamped in the tick that
  ends a window is in two files (`DuplicateOnlyAtBoundary` says no other is);
- nothing prunes the store; `retention` is read and not used (rollup.hpp:12-13);
- after the CSV fallback the upload still sends the `.parquet` path
  (rollup.cpp:61): an empty object is put and its rows are reported.
  `ReportedIsUploaded` says that this is the only untrue line;
- an insert that throws is taken for a known row and is not tried again, with
  PostgreSQL there or not (disclosure_store.cpp:71-74); `StoredOrLogged` says that
  it has a line in the log;
- a program that sleeps is never ended, and the wall time is looked at when
  the program has gone (sandbox.cpp:116): nothing is claimed of
  TimeLimitExceeded;
- nothing removes the cgroup of a call (sandbox.cpp:63), and one that ends in
  InternalError leaves its pipes open; `LeftoversAreKnown` states both;
- the crawler forgets the oldest insertion, not the smallest number
  (dart_client.cpp:143-144), and a page is inserted newest first;
- `time_until_next` "returns ms until the next state change" (krx_session.hpp:30),
  but does not look at weekends, and its answer may be up to 999 ms too long, as
  it is made of whole seconds (krx_session.cpp:16);
- an article is dated with the time of its fetch and fetched again every cycle,
  so its weight is the number of cycles it stays in its feed
  (rss_crawler.cpp:99); news_score.hpp speaks of the article's age;
- aliases of one length are sorted in the order of a hash table, although
  ner.cpp:55 sorts "for stable output", and an occurrence behind one that had to
  be given up is not looked at if the two overlap; `MentionsAreLongest` says what
  holds of the mentions nevertheless;
- "Redis push" (step 5 of news-pipeline's README) is not implemented: the
  snapshot is printed;
- a signal does not end the five minutes' sleep of news-pipeline;
- the counter of the throttle is shared by all symbols: a symbol whose updates
  always fall between the multiples of N is never published (main.rs:81);
- a signal does not end a feed whose connection is silent: `stop()` joins a
  worker blocked in a read (market-feed main.cpp:32);
- the gateway does not notice what its pub/sub connection has lost
  (subscribe.go:65), nor the matcher that Redis has stopped to answer
  (publisher.rs:35): all later tops wait behind the one that has the Mutex;
- some messages end strategy-bot (redis_io.py:51-58), as a price of zero does
  (signals.py:64).

## Fairness

- `RedisSubscriber`: weak fairness of the worker and of the join. Nobody must
  publish, break or stop; a silent connection blocks the worker for ever, and
  the liveness properties say so.
- `DartCrawler`: weak fairness of the loop and strong fairness of a successful
  `list`: DART is not unreachable for ever.
- `JudgeSandbox`, `JudgeRunner`: weak fairness per call or request, per program
  and per compiler, which ends; a program that blocks is not enabled.
- `GatewayHub`: weak fairness of `deliver`. A write must return only if its
  browser has gone; strong fairness of the choice of a context that is done, as
  `select` chooses at random, and of the write lock, which Go does not starve.
- `BookStream`: that of the hub; spawned tasks run, Redis answers until its
  connection is silent, and what is on the wire is taken (weak fairness).
  PSUBSCRIBE, exchange, faults and other programs have none.
- `NewsPipeline`, `StrategyBot`: none, they are asked for safety only.
- `StockFeed`, `MarketFeed`: weak fairness of main and of the worker, strong
  fairness of `Connect`: the exchange is not unreachable for ever. Frames and
  the answer to a close are the exchange's and have no fairness. That a
  handshake or a PUBLISH returns, with an answer or an error, is assumed: one that
  blocks for ever is not modelled, and would hold up `stop()` like a silent read.

## Proofs

Eight modules hold the theorems; every lemma is proved to the leaves. Of the 40
properties of the passing runs 30 are theorems: all the invariants and all the
step properties. The ten liveness properties are left to TLC; they are named at the
end of this section.

`WarehouseProofs`, for any trades, length of a second, interval, clock bound and
fault set:

- `TypeCorrect`: `Spec => []TypeOK`.
- `FilesAreDurable`: if the wall clock is not set back (`MonotoneClock`) and an
  interval is at least a second (`LongInterval`), `Spec => FilesDurable`.
  `FilesDurable` is a statement about steps, and a write overwrites the file of
  its second, so the proof needs that the name is new. That is not visible in
  one state; the invariant `FileInv == TypeOK /\ WindowsAdvance` carries it: a
  window ends at least an interval after the previous one, and all files are
  named no later than the end of the last finished window.
- `DuplicatesOnlyAtBoundaries`: if the wall clock is not set back,
  `Spec => []DuplicateOnlyAtBoundary`. The invariant `RowInv` adds that the rows
  collected lie within the window, and that the rows of files are stamped no
  later than the end of the last window.
- `FilesAreOfThePast`: `Spec => []FilesHoldThePast`, whatever the clocks do.
  `PastInv` adds that what the queries have collected is stamped, no later than
  `until`; the file is named after `until`.
- `ReportsAreTrue`: if the wall clock is not set back and an interval is at least
  a second, `Spec => []ReportedIsUploaded`, with all faults. A line is true for ever
  if the name it speaks of is never used again; `ReportInv` says that every line
  and every object so far is named before the window in work, and follows what
  was collected through write and upload.
- `LossesAreKnown`: `Spec => OnlyKnownLosses`, with no hypothesis. It is a
  statement about the step at which a row passes out of every window that could
  still take it. `LossInv` says that stored rows are stamped, and that between two
  windows nothing is collected and the queries start at the first channel; with
  it the proof is a case distinction on the actions.
- `WarehouseIsArchive`: if the wall clock is not set back and an interval is at
  least a second, `Spec => ImplementsArchive`, step by step: every action maps to
  a step of `TradeArchive` or leaves every `Phase` as it is. `ArchiveInv` puts
  `FileInv`, `RowInv` and `LossInv` together and adds that a host that is down holds
  nothing. What is archived stays in a file by the argument of `FilesAreDurable`,
  and what is lost is older than every later window.

`SubscriberProofs`, for any messages, patterns and bounds:

- `SubscriberIsTypeCorrect`, with `WorkerInv`: main's state, the worker's and the
  link's go together.
- `DispatchKeepsOrder`: `Spec => []DispatchedInOrder`. `PipeInv` takes the handler's
  list, the message in the handler and the stream as one line in which
  everything stands in the order it was published.
- `StopIsFinal`: `Spec => NoHandlerAfterStop`, from `WorkerInv`.
- `OnlySubscribingLoses`: `Spec => LosesOnlyWhileSubscribing`, step by step.

`CrawlerProofs`, for any page length, memory of at least `2 * Page - 1`, and bounds:

- `CrawlerIsTypeCorrect`: `Spec => []TypeOK`.
- `NoneIsHandedTwice`: `Spec => []HandedOnce`. The deque is the end of what was
  handed on (`SeenInv`). A number on page one was polled within a page of the
  newest (`PageInv`), and what is handed on later is older by less than a page
  (`HandedInv`); so all that was handed on after a number lies within a page on
  either side of it, at most `2 * Page - 2` numbers (`FewNeighbours`), and the deque
  has not forgotten it (`NotForgotten`).
- `NoneIsSkipped`: `Spec => []NothingSkipped`; `CoverInv` adds that without bursts
  what was not polled yet fits on a page.
- `HandedIsStoredOrLogged`: `Spec => []StoredOrLogged`; a line printed for the table
  is about a row of it (`StoreInv`).

`JudgeProofs`, for any finite set of submissions, any calls and programs, and any
capacity of the pipes:

- `JudgeIsTypeCorrect`: `ServerSpec => []RunnerTypeOK`, and with it the types of the
  sandbox below.
- `VerdictsAreOwn`: `ServerSpec => []VerdictIsOwn`. `SandboxInv` follows each call by
  itself: which ends of its pipes are open with whom (`EndsInv`), whether its child
  lives (`ChildInv`), what the child's status says of its program (`StatusInv`), and
  that what it has captured, what is in the pipe and what it has still to write
  make up its script (`OutputInv`). The others reach a call only through the
  descriptors they inherit, which delay it and change none of this.
- `DirectoriesAreOwn`: `ServerSpec => []DirsAreOwn`. `NumbersInv`: the counter is the
  number of those who have taken a name, so no two names are equal; `DirInv` says
  what each has put into its directory.
- `AcceptanceIsEarned`: `ServerSpec => []AcceptedIsEarned`. `CasesInv` says that the
  verdicts collected are those of the calls that have returned, in order, and that
  the overall verdict is the first of them that is not AC.
- `AnswersLeaveWhatIsKnown`: `ServerSpec => []LeftoversAreKnown`; `CompilerInv`
  follows the compiler and its log pipe.
- `CallsLeaveWhatIsKnown`: types, `VerdictIsOwn` and `NothingElseLeft` for the sandbox
  alone (`Spec` of `JudgeSandbox`), whoever calls it.

`FeedProofs` is about both programs. `AnyFeed` is the feed client under a main()
that may call `start` and `stop` whenever it is neither joining nor at its end;
`ProgramsAreFeeds` shows that stock-feed's and market-feed's are such, and what is
proved of `AnyFeed` follows for both, for any frames and faults:

- `FeedsAreTypeCorrect`.
- `NeitherIsTerminated`: `[]NeverTerminated`, if the feed may reconnect. That is
  `Options::reconnect`, true by default (kis_client.hpp:35, binance_client.hpp:29)
  and changed by neither main(). Without it the theorem would be false, and TLC
  says so: after an error the worker itself clears `running_` and returns, `stop`
  then takes it for stopped and does not join, and the next `start`, or the
  destructor, meets a thread that is still joinable. `ThreadInv`: `running_` is set
  only while the thread lives, and main goes on with it cleared only after the
  join.
- `StoppedIsQuiet`: `Quiet`, under the same hypothesis.
- `PublishingKeepsOrder`: `[]PublishedInOrder`; `PipeInv` takes what Redis has, the
  frame in the handler and the stream as one line.
- `FeedIsLossless`: `Lossless`, step by step.
- `OversleepsByLessThanASecond`: `SleeperSpec => []NotedIsCurrent` for any
  resolution of the clock, tick and horizon. The lemmas show that `NextBoundary` finds the next of the six
  boundaries, that the session is constant up to it, and that this holds over
  midnight and weekends; the invariant `NotedLasts` says that the state noted is
  the state at every moment until `wake`, or at one less than a second before it.

`HistoryProofs` is about two programs that forget and whose results are nevertheless
a function of all they have seen. `NewsPipeline` computes with folds of the community
modules, which are recursive functions on sets of indices. That there is such a
function, that there is no other, and that its values are of the type of its steps,
is shown once for every finite set and every step (`RecursionTheorem`), from the
smallest set of which it could be wrong; `LeftFold` gives a left fold its values from
the left. The recursion of `Found` is an instance, too. This is the induction the
provers cannot do with an operator as a parameter; here the step is a function and
the statement a set.

Of `StrategyBot`, for any symbols, prices and lengths, and any operators `Mean`,
`Compare` and `Moves`:

- `SignalsAreReference`: `Spec => []SignalsMatchReference`. The deque of the
  averages is the end of the history, and the whole of it while it fits
  (`AveragesInv`), so what is computed before and after a trade is the reference's
  side at the trade before and at this one. The window of the jump detector ends
  at the last trade it was fed and has no jump in it; if it is not full, either
  there were no more trades or a jump stands right before it (`WindowInv`), which
  is what the reference asks. What an average or a change is enters nowhere; a
  crossing depends on two comparisons, and a comparison has one result.
- `BotIsTypeCorrect`: `Spec => []TypeOK`.

Of `NewsPipeline`, for any characters, tickers, tables, feeds, scores, cutoff and
decay:

- `NewsIsTypeCorrect`: `NewsSpec => []NewsTypeOK`.
- `MentionsStayLongest`: `NewsSpec => []MentionsAreLongest`. It rests on what the
  operators compute. `LoadFollows`: whatever company the hash table yields first,
  every alias has the ticker of the last line that lists it. `SortedIsInOrder`: the
  aliases all come, none before a longer one. `FromIs`: what a scan finds lies apart,
  and what it skips begins within what it found. `TagOfIs` puts them together, alias
  by alias: hits lie apart, and each find so far is overlapped by a hit that is no
  shorter.
- `SnapshotStaysReference`: `NewsSpec => []SnapshotIsReference`. The property speaks
  of the moment after a snapshot; that it will hold again at the next one is not
  visible in the sums, since the weights change with age. The invariant `HistoryOK`
  therefore says that board and history agree not in one sum but in all: weighed
  by any function of an entry that gives those too old for the last snapshot no
  weight, a vector weighs what the articles scored brought its ticker (`Ledger`).
  Scoring adds the same to both sides (`BookOneMore`). Erasing changes no such weight
  (`KeptWeighsTheSame`), and as the clock goes only forward the functions that
  forget more are among those that forgot less. The sum of a snapshot is the weight
  by `WorthAt(clock)`.
- `MemoryStaysBounded`: `NewsSpec => []MemoryIsBounded`, from the same invariant with
  the weight 1 for what is not too old; `Fresh` says that a vector holds nothing
  else, because a snapshot visits every ticker and articles still to be scored are
  no older than it.

`StreamProofs` speaks first of the hub alone, for any connections, channels,
buffer size and number of messages:

- `HubNeverPanics`: `Spec => []NeverPanics`. That nothing has been sent on a
  closed channel is not inductive. `HubInv` adds that the map holds live
  connections only, each under its own topic; that those `deliver` has still to
  serve are live, which is so because nobody can detach while it reads; and that
  a channel is closed when its request has ended and not before.
- `HubDropsOnlyForSlowConsumers`: `Spec => []DropsOnlyForSlowConsumers`. The
  property relates what was offered to what was got, and what was got is in three
  places: the browser, the hand of the handler, the buffer. `DropInv` adds to
  `HubInv` that a registered connection attached before the message in delivery
  began, that `todo` is what that message is meant for and has not met, and that
  the hand is empty where the code has none. A drop happens with a full buffer,
  and all that is in it is older and distinct, which the lemma `FitsDrop` counts.

`MatcherProofs`, about the `Spec` of `OrderbookMatcher`, for any symbols, levels,
counter, `--publish-every` and any number of tasks:

- `OvertakingIsBounded`: `Spec => []OvertakesOnlyBeforeTheLock`. The property
  speaks only of Redis; the invariant `LineInv` says the same of Redis, the queue at
  the lock and the tasks on the way to it as one line.
- `TopsAreGenuine`: with `MatcherAssumption` and finitely many levels,
  `Spec => []TopsAreOfOneSnapshot`. `LineInv` follows a top to the update it was
  taken from; `LowestExists`, from the well-foundedness of the subset order, shows
  that the CHOOSE of `top` has something to choose.
- `ThrottleKeepsItsRate`: with `MatcherAssumption`, `Spec => []ThrottleKeepsUp`.
  The invariant `LastIsShown` says that `tick % every` leads back to the last
  update that was due, and that it was handed on; the wrapping of the counter
  restarts the group early, never late, so N need not divide its range.

Then `StreamProofs` carries both over to `BookStream`: `StreamIsMatcher` and
`StreamIsHub`, `StreamSpec => matcher's Spec`
and `StreamSpec => hub's Spec`. The matcher's `Spec` has an action for other
programs that publish to the Redis it uses (`PublishOther`), so the gateway and
the others do not disturb it. The hub receives what Redis has published; that
this is a message on one of its channels needs the matcher's invariant
`LineInv`, and is the one place where the proof of one part uses the other.
From the two four properties follow for the composition, which is what the
run `MCBookStream` checks: `StreamNeverPanics`, `StreamOvertakingIsBounded`,
`StreamTopsAreGenuine`, `StreamKeepsItsRate`. What `DropsOnlyForSlowConsumers` says
of the hub is not yet what a browser gets of what is published, as the way from
Redis to the hub loses messages. `StreamMissesAreKnown` is about that:
`StreamSpec => []MissesAreKnown`, from Redis to the browser. `WireInv` says that the
hub has received what it has taken, in the order of Redis (`InOrder`), and that
every message in Redis is missed, on the wire or taken (`Accounted`); with the
hub's invariant for the rest of the way the theorem follows. TLC checked
`MissesAreKnown` and `StreamTypeOK` once on the instance of `MCBookStream`; they are
not in its configuration.

Assumptions are the named ASSUMEs of the modules, which TLC evaluates in every
run, and the hypotheses named above. TLC checked each invariant on the instance
of a run, in TLC's own terms where it quantifies over all numbers or sequences
(`Ledger` for the weights that count the entries of one article and score), before
it was proved. The type invariants are theorems, or parts of the
invariants, and are not listed in the configurations: the other properties are
the ones that a bug breaks.

What is only model-checked:

- liveness (`WaitingIsHandled`, `Resubscribes`, `StopReturns`, `HandedInTheEnd`,
  `AnswersUnlessTwoNeedEof`, `FollowsTheSession`, `EndsOnSignal`,
  `SlowConsumersDelayNobody`, `LeaversAreForgotten`, `TopsReachBrowsers`): it rests
  on fairness and ENABLED, which the provers do not handle.

## Not modelled

Contents of rows, files, frames and messages beyond what the properties tell
apart; formatting of numbers; the limits of cgroups, seccomp and memory use of judged
programs; metrics and health of the gateway; sentiment (the lexicon, and FinBERT
with its tokenizer and ONNX session: floating-point, without state); holidays of
the exchange (a TODO in the code); the builds without hiredis, Beast, Arrow or
curl, whose stubs do nothing; PostgreSQL's inside.

The backtester and the statistics in R and Julia are single calls from data to a
report, in floating point through libraries. What they read is the subject of
`DuplicateOnlyAtBoundary`: loader.py concatenates snapshots, and a row in two of
them counts twice. Deployment is scripts and systemd units; their
`Restart=on-failure` is what restarts stand for in `Warehouse` and `DartCrawler`.

The trackers are loops that poll an HTTP API, compare with a threshold, and
sleep. No two of their steps compete, and what goes wrong in them can be read off
a line: the daily summary is sent only in a cycle that begins from 9:00 to 9:05,
and a cycle of crypto_price_tracker takes 300 seconds and its requests, so a day
can be missed, as it is if that one fetch fails; its "1h" change spans eleven
intervals; gas_tracker has one cooldown for low and high gas, so a low alert
keeps back a high one for an hour; dex_feed publishes a price of 0 when prices
cannot be fetched, and strategy-bot, which is to read its channel
(dex_feed/main.py:6), subscribes by default to other patterns (run.py:43).

## Plan

1. *(done)* Warehouse, subscriber, crawler, sandbox, session, feeds, hub, bot;
   first theorems.
2. *(done)* The runner and the server around the sandbox; the matcher, and its
   composition with the gateway through Redis; the news pipeline; one run for
   both feeds.
   Proofs of the hub's and the matcher's safety properties, and of both together.
3. *(done)* Proofs of the warehouse's remaining properties and of its refinement, and
   of the safety properties of the subscriber, the crawler, the judge, the feeds
   and the bot.
4. *(done)* Proofs about the news pipeline: types, mentions, snapshots, bound.
5. *(done)* What fails without being told: inserts, uploads, clean-up, cgroups, the
   gateway's connection to Redis; the part of a second; floats. The properties and
   theorems about them restated and proved again.
