# mysqlpulse in TLA+

mysqlpulse polls MySQL servers, exports Prometheus gauges about them and sends
alerts. Its other commands look at the same
servers once, or again and again on a terminal. This directory holds TLA+ models
of it, the TLC configurations that check them, and TLAPS proofs about its core.
Paths such as `src/internal/...` are relative to the root of the repository;
`PROJECT.json` maps each definition to the lines it models.

    tlc -config Engine.cfg MCEngine.tla    # model-check one run
    tlapm EngineProofs.tla                 # check the proofs of one module

## 1. Inventory

| component (source) | state it keeps | operations | talks to | status |
|---|---|---|---|---|
| retrying ping (`engine/retry.go`) | attempt, backoff, last error, of one call | `PingWithRetry` | the server, the context | modelled: `PingRetry` |
| poll loop (`engine/engine.go`, `collector/scrape.go`) | position in targets and collectors, ticker | `Run`, `poll`, `Scrape.Collect` | ping, collectors, alerts, gauges | modelled: `Engine` |
| alert evaluation (`alerter/evaluator.go`) | none | `Evaluate`, `evaluateReplication` | the server, delivery | modelled: `Alerter` (order, failures), `Sampling` (rules on data) |
| alert delivery (`alerter/alerter.go`) | `lastSent` by type and masked DSN | `New`, `Send`, `MaskDSN` | Telegram, webhook | partly: `Alerter` (no restart) |
| Grafana annotations (`alerter/annotations.go`) | `lastSent` by type and host | `NewAnnotator`, `Annotate` | Grafana | modelled: `Alerter` |
| labelled gauge families (`collector/processlist.go`, `tablestats.go`, `perfschema.go`, `grouprepl.go`) | series in the registry | `Collect` | the server, scrapes of `/metrics` | partly: `VecCollector` |
| plain gauge collectors (other files of `collector/`) | gauges | `Collect` | the server | modelled: `Sampling` |
| metric registry (`metrics/metrics.go`) | the vectors | registration | collectors, HTTP handler | partly, inside `VecCollector` |
| process life cycle (`cli/serve.go`, `server/server.go`, `cmd/`) | DB handles, engine goroutine, HTTP server | start, signal, drain, close | everything above | modelled: `Serve` |
| check command (`cli/check.go`) | verdict so far | one pass over the nodes | servers under one deadline | modelled: `Check` |
| topology, status, diff (`cli/`) | what each node said | one pass over the nodes, one over the results | servers under one deadline | modelled: `Topology`, `Summaries`, `Diff` |
| report, doctor, innodb (`cli/`) | what each node said | one pass over the nodes | servers, the parser | modelled: `Summaries`, `InnoDBStatus` |
| watch (`cli/watch.go`) | terminal mode, key channel, ticker | key reader, render loop | terminal, server | modelled: `Watch` |
| InnoDB status parser (`innodb/parser.go`) | none | `Parse`, `splitSections`, ... | | modelled: `InnoDBStatus` |
| configuration (`config/config.go`), output formats | none | `FromEnv`, `Render` | | partly: that they fail |
| init and version commands, Helm chart | none | one stat and one write | | not modelled |

How they interact. `serve` opens one handle per DSN and starts one goroutine for
the poll loop. That goroutine visits the targets in order. For each it pings
(with retries), runs the collectors, and evaluates the alert rules; alerts are
posted inline. Three things happen beside it: scrapes of `/metrics` read the
gauges at any moment, a signal cancels the context at any moment, and servers
answer late, wrongly or never.

What is hard about it, and what makes each component correct:

* *ping*: the cancellation can fall between the check and the ping, into the
  ping, or together with the timer. Its verdict must stand for what was seen, it
  must not come early, and it must end when cancelled.
* *poll loop*: gauge and error counter are each written in two places, one target
  must not stop the others, both cases of a `select` may be ready at shutdown.
  `mysql_up` must be the last answer, errors must be counted once, shutdown must
  neither contact servers nor hang. Both series are keyed by an instance label that
  targets may share.
* *alerts*: a record is written before the posts, a slow channel delays the next
  one, keys are derived from DSNs and may collide, a cumulative counter stays
  above zero. The cooldown must space the posts out without turning into silence.
* *gauge families*: a family is shared by all targets, emptied and refilled while
  scrapes read it, and reads fail half way. A scrape must see no stale label and,
  of one target, a whole read.
* *gauges and rules*: every collector and every rule looks at the server at a
  moment of its own, gauges are only ever set, and the rules read again what the
  collectors have read. A gauge must not show what the server never had, and
  alerts must agree with the gauges where the server holds still.
* *shutdown*: nobody waits for the poll loop, whose handles are closed under it;
  requests may outlast the drain. The process must end, close what it opened and
  not report success when it dropped something.
* *commands*: any server can be refused, down, hung or lose any query, one deadline
  covers them all, and results of different servers are combined by label or
  host. What is reported must be true of the servers that answered.
* *watch*: keys, ticks and signals compete while screens take as long as servers
  take. No key may get lost or out of order, and there must be a way out.
* *parser*: sections and deadlocks are told apart by patterns that may overlap,
  repeat or stand in any order. A field must come from where it belongs.

All hazards, each at its line, with the properties that cover it or the reason
why none does, are in `PROJECT.json` under `hazards`.

## 2. Modules

| module | models | checked by | proved in |
|---|---|---|---|
| `PingRetry` | `PingWithRetry`, called again and again under one context | `PingRetry.cfg` | `PingRetryProofs` |
| `Engine` | `Run`, `poll`, `Scrape.Collect`; `PingRetry` is instantiated as its call in progress | `Engine.cfg`, `EngineShutdown.cfg` (labels in `MCEngine`) | `EngineProofs` |
| `RateLimit` | abstract: two messages of one key are `MinGap` apart | as `WebhookSpacing` | |
| `Alerter` | `Evaluate`, `Send`, `Annotate`, the HTTP client's timeout | `MCAlerter*.cfg` (instances in `MCAlerter`) | `AlerterProofs` |
| `VecCollector` | `Collect` of the labelled families, over all targets | `MCVec*.cfg` (symmetry in `MCVecCollector`) | `VecCollectorProofs` |
| `Sampling` | the plain collectors and the alert rules of one target, on a server that changes | `MCSampling.cfg` | `SamplingProofs` |
| `Serve` | extends `Engine`: the process around the poll loop | `Serve.cfg` (labels in `MCServe`) | `ServeProofs` |
| `Sweep` | what the commands have in common: configuration, visits, deadline, exit | with `Commands` | `CommandsProofs` |
| `Check`, `Topology`, `Summaries`, `Diff`, `InnoDBStatus`, `Watch` | extend `Sweep`: one command each (`Summaries`: status, report, doctor) | with `Commands` | `CommandsProofs` |
| `Commands` | composes the commands: one process runs one of them | `MCCommands.cfg` (fleets in `MCCommands`) | `CommandsProofs` |
| `FoldProofs` | no component: lemmas about the folds the models use for loops | | `FoldProofs` |

**PingRetry.** `pc` is the line the call stands at: `check` is `ctx.Err()`,
`call`/`ping` are the moments before and during `PingContext`, `backoff` is the
`select`. Time is counted in units of the first backoff. `pings`, `waited` and
`late` are history. The program never panics in this code, so a call ends by
returning only. The comment of `PingWithRetry` (`retry.go:14`, "after maxRetries
attempts") and `CHANGELOG.md:41` ("3 attempts") count differently from the code
and its tests: the loop makes `maxRetries + 1` pings ("1 initial + 3 retries"),
and `HonestVerdict` is stated with that number.

**Engine.** `at` is where the goroutine is; `StartTarget`, `PingFailed`,
`PingSucceeded`, `Scrape`, `Collect` and `EvaluateAlerts` are the body of the loop
over the targets, `PollReturns`, `SelectTick` and `SelectDone` the loop of `Run`.
The ticker is created after the first poll and has a channel of one. A target is
up, unreachable (its pings return errors) or in `hung`: it accepts calls and
answers none before the context ends. Which targets hang is chosen in `Init` and
does not change; a server that recovers from a hang behaves like one that was
slow. `errs` is the counter's growth since the poll began, so it is bounded.
`InstanceOf` is `instanceLabel` (`serve.go:146`), which gives every DSN without
`tcp(...)` the label `localhost:3306`; it is any function of the targets, and `up`
and `errs` are indexed by label as the series are. Several targets can thus write one
series, and the properties say what it then shows: `ErrorsMatchUp`, that every failure
of a poll is in the counter and a gauge at 0 has one behind it; `UpIsLastAnswer`, that
the gauge is the answer of the target polled last under that label. That an earlier
target of the label is down can be seen from the counter alone. The
steps of a collector other than scrape, and of an evaluation, are one step each:
they do not touch the gauge, the counter or the position.

**Alerter.** One goroutine runs one `Evaluate` at a time; `Next` interleaves it
with time and with deadlocks on the servers. `lastSent` is modelled by
`time.Since` of it, which counts up to `Cooldown`: an entry that has expired and
one that never was are the same to the code. `Masked` and `HostOf` are functions
of the DSN that may map two targets to one key, as `MaskDSN` and `HostFromDSN`
can. A query finds any set of its rules, so no property rests on a threshold. A
status query that fails ends the evaluation; a variables query that fails before it
read `max_connections` only hides the connection rule, and one whose stream breaks
after it hides nothing (`QueryVars`). A Grafana URL that does not parse (`badurl`) is
found out after the cooldown was recorded (`annotations.go:62`), so nothing is ever
posted there: `GrafanaReminds` is about URLs that parse. `sincePost`, `posting` and `reported` are history.

**VecCollector.** Families differ in when they are reset: after all rows were read
(`buffered`: processlist), once the query runs (`streamed`: tablestats,
perfschema), or never (`kept`: grouprepl). `series` is what a scrape can see, in
every state, since the registry locks single operations only. `fresh` is the
series created by `WithLabelValues` that `Set` has not given its value yet: a scrape
at that moment reads a zero, which no property here denies. The labels of the targets
are taken to differ; what a shared label does to a series is in `Engine`.

**Sampling.** `step` walks through the queries of a poll in the order of
`serve.go:51` and then of `Evaluate`; `Change` puts the server into another of its
states between any two of them. `Collect` merges what a collector sets into
`gauges` and leaves the rest; `CollectFails` is a query that fails, which for the
binary logs and the group skips the query behind it too. `LogsBreak` is the stream of
the binary logs breaking off: `binlog.go` sets count and size from what it has read,
asks about the cache all the same, and looks at the stream's error at its end; the
history `cut` remembers it, and `StaleIsExplained` then asks of the two gauges that
they belong to the first logs of one list. The replication collector leaves out
`behind_bytes` where a position is missing, a group member without a row of counts
sets none of its three gauges, and the rule on connections goes by the variables read
before their stream broke (`EvaluateVars`). The gauges are those of one instance label
that no other target has. `held` is the status
`Evaluate` keeps while it asks for the variables. `Offered` restates, gauge by
gauge, what a server's state means (`First` is the one row or list the code looks
at, and the hit ratio is defined by the inequality a percentage satisfies, not by
the quotient the code takes); `GaugeRules` restates the rules on the gauges in
`RuleGauges`, and a rule is only held against them if none of these is left over from
an earlier state of the server. If the variables query fails, at most the rule on
connections may be missing. `Asked`
says that the cache of the binary logs is only asked about on a server that has
logs: a server that stops logging between the two queries
while it still counts its cache is not asked for the count.

**Serve.** `main` is where `newServeCmd` stands. The poll loop's steps
(`EngineStep`) go on in every place from `wait` to `close`, because nobody waits
for them. `Listen` may come after the shutdown, as `ListenAndServe` runs in a
goroutine of its own. `draining` counts the deadline of `Shutdown`. `lost` and
`cut` are history. `OneCutShort` is about two modules at once: which of the
engine's calls are cut by the closing is bounded because `PingWithRetry` looks at
the context first (its mutant is in `PingRetry`).

**Commands.** `Sweep` holds the truth about each server of `MYSQL_DSN` next to what
a visit of it yields, so that each command's property can compare the two.
`Visit` takes the servers in order; a hung server lets go when the deadline has
passed, and then all queries fail. Which queries fail is chosen freely; `failed`
remembers on which servers any did. The second passes (`discoverTopology`,
`Differences`, `Verdict`, `overallStatus`) are functions of the results, as in the
code. Only `check` looks at them for its exit code; `Render` fails on an unknown
format, and `check` ignores even that. `topology` gives up on a row that names no
source (`queryReplInfo`, `topology.go:183`), and the server stays a source, where
`status`, `report` and `check` go by the same row: `ReplicaSeen` compares what these
four make of it. `doctor` asks for four permissions and the replica status; `PROCESS`,
which `SHOW ENGINE INNODB STATUS` needs (`innodb.go:78`), is not among them
(`doctor.go:125`). `DoctorTellsTruth` says what "healthy" does stand for, all that
`doctor` asks (`Asked`), and that whatever else a server denies does not change it;
the run has servers that deny `PROCESS`.

**Watch.** `at` is `draw` while `renderWatchScreen` runs and `select` in the
`select`. A key passes from the terminal through `held` (read, not yet sent) and
`keys` (the channel) to `SelectKey`. Keys with one effect stand for each other:
`"3"` for the four digits, `"n"` for tab.

**InnoDBStatus.** A text is a sequence of kinds of line, and a number is the index
of its line: what is checked is where a field comes from. `Headings` and `BodyOf`
define sections declaratively; the scan of the parser is compared with them.

Where a definition is followed by one under "Mutant" above it, the latter is a
plausible mistake (a dropped check, a wrong bound, a swapped order) kept to show
that the property it belongs to would notice; `PROJECT.json` pairs them.

## 3. Runs

| run | instance | shows |
|---|---|---|
| `ping_retry` | 4 retries, one more than the engine uses | `HonestVerdict`, `AtMostOneLatePing`, `BackoffDoubles`, `CancelEndsCall` |
| `engine` | 3 targets, two of one label, 2 collectors, 3 retries as in the engine, any set of hung servers | `ErrorsMatchUp`, `UpIsLastAnswer`, `CancelContained`, `CancelStops`, `EveryTargetAgain` |
| `engine_shutdown` | 1 target | finding: `DownMeansUnreachable` is violated |
| `alerter` | 2 targets with one host name, 5 channel setups, cooldown 3, timeout 1 | `RecordsArePosted`, `PostingBounded`, `WebhookSpacing` |
| `alerter_live` | 2 targets of one key and one host, 3 rules of both queries, all channels | `WebhookReminds`, `GrafanaReminds` |
| `deadlock_alerts` | 1 target, 2 deadlocks | finding: `OneAlertPerDeadlock` is violated |
| `vec_collector` | 3 targets, 2 labels, 3 kinds of family | `NoStaleLabels`, `AllOrNothing`, `LatestComplete` |
| `vec_others` | 2 targets | finding: `OthersUntouched` is violated |
| `vec_members` | 2 targets | finding: `MembersCurrent` is violated |
| `sampling` | a server with 5 states, 2 changes and a failing query over any number of polls | `StaleIsExplained`, `AlertsMatchMetrics` |
| `serve` | 2 targets of one label, any hung or refused, 1 request in flight, drain of 2 | `ExitZeroAnswersAll`, `NoHandleLeaks`, `OneCutShort`, `SignalExits` |
| `commands` | 8 commands on their fleets of 1 to 3 servers | `ExitIsWorst`, `TopologyTellsTruth`, `DoctorTellsTruth`, `DiffTellsTruth`, `SectionsExact`, `DeadlockExact`, `ReplicaSeen`, `KeysInOrder`, `WatchEnds`, `CommandEnds` |

Each module's `TypeOK` is checked in its run.

Bounds, and why they are enough:

* `MaxRetries = 4`: first, inner and last attempts exist, and every sum of
  backoffs up to `2^4`. Nothing in the code depends on the number beyond `<`.
* `NumTargets = 3` with 2 collectors, the first and the third target under one label:
  a target before and one after the one being polled, a series written twice in a poll
  with another one in between; a first collector (scrape) and one behind it. The
  safety properties are proved for every number and every way of sharing labels.
* `Cooldown = 3`, `Timeout = 1` (300 s and 10 s in the program): shorter timeout
  than cooldown, a timeout that is reached, and ages strictly inside both. In
  `alerter_live` and `deadlock_alerts` the cooldown is 2.
* `Watched`: which of the six rules may occur. Two (one of each query) in the
  large run, three in the live one; a rule only ever meets its own key. The live run
  has two targets whose alerts share every cooldown, of the key and of the host, since
  that is where one could silence the other.
* `MaxDeadlocks`: how often a counter grows; two, so that one deadlock can be
  compared with the next.
* `Setups`: all channels, the webhook alone, a token without a chat (an alerter
  that posts nothing to Telegram) with Grafana, Grafana alone, and Grafana behind a URL
  that does not parse.
* two labels and three targets in `vec_collector`: a label that stays and one that
  goes, a target before and one behind the owner of the family. Labels are
  interchangeable (only tested for membership), hence the symmetry.

* `Servers` in `sampling`: a replica on every threshold, one just past them, one
  with a stopped thread, a source, and a server that offers almost nothing; lists of up
  to three binary logs, which may break off anywhere. Two
  changes take a gauge away and give it back; the states before a poll are all
  reached because polls go on for ever.
* `serve`: a target before and one after the one in use, a retry so that a ping may
  be between two attempts, one request that is answered or not, and a deadline of
  two ticks so that the drain can end before, between and after them.
* The fleets of `MCCommands`: for each command the servers on which its results
  can differ, at least two of them so that order and position matter, three where
  a node can be between others (topology, diff); rows that name no source, a lag that
  is NULL, and servers that deny `PROCESS` alone are among them. Texts of up to four blocks let
  headings follow, repeat and overlap, and hold up to two deadlocks with a victim.
* `KeyBuffer` and `MaxKeys`: a channel that is full with one key still held.

Deadlock is checked except in the runs of `Engine`, `Serve` and `Commands`, where
the loop, the process or the command really stops.

## 4. Fairness

* `PingRetry`: the goroutine runs and its timer fires. A ping is only sure to
  return once the context is cancelled, since `PingContext` carries no deadline.
* `Engine`: weak fairness of the goroutine's steps. A step that needs an answer of
  a hung server is disabled until the cancellation, so nothing is assumed of such
  a server. Strong fairness of `SelectDone`: Go's `select` picks among ready cases
  at random, so it does not overlook one of them for ever. The ticker ticks.
* `Alerter`: weak fairness of delivery, whose posts end at the latest with the
  client's timeout; strong fairness of time, since the loop returns to its ticker.
  No query is assumed to answer: none carries a deadline. The two properties are
  conditional on a rule being found again and again.

* `Serve`: the main goroutine runs and the timer of the drain advances; neither an
  answer to a request nor a step of the poll loop is assumed, so `SignalExits`
  holds whatever they do.
* `Commands`: the process runs and the timer of the deadline goes off. `Watch`: both
  goroutines run; strong fairness of the `select`'s signal and key cases, for the
  reason given for `SelectDone`. Nothing is assumed of a hung server, and nothing
  of the ticker: ticks may compete with a key at every turn.

`EveryTargetAgain` is conditional on no server hanging, which is the code's own
limit: without a deadline on queries one hung server stops the poll of all.

## 5. Findings

* `OthersUntouched` (`collector/processlist.go:68`): `Reset()` empties the family of
  every instance, so with several DSNs only the target collected last is shown.
* `MembersCurrent` (`collector/grouprepl.go:28`): a member that left the group
  keeps its last state in the gauge.
* `OneAlertPerDeadlock` (`alerter/evaluator.go:77`): the rule tests a cumulative
  counter; one deadlock is alerted again after every cooldown.
* `DownMeansUnreachable` (`engine/engine.go:71`): the context's error is taken for
  an unreachable server; a shutdown can set `mysql_up` to 0 for servers that
  answered.

Seen while modelling the commands, and not stated as properties of their own:
`README.md:58` gives `doctor` the exit codes 0 and 1, and it exits with 0 whatever
it finds (1 only if it cannot start or render); `topology`, `status` and `report`
show a server they could not ask as a source or as not replicating, with
provenance "observed" (`output/format.go:16`, "Live from MySQL query."); the DOT
output of `topology` starts its edges at a host and names its nodes by host and
port; `buffer-pool` of `check` is a hit ratio, of which a high value alarms.

## 6. Proofs

All theorems hold for every value of the constants that meets the module's
assumptions, which TLC evaluates in the runs:

* `MaxRetriesAssumption`, `EngineAssumption`, `AlerterAssumption`, `VecAssumption`,
  `ServeAssumption`, `SamplingAssumption`, `WatchAssumption`: naturals where the code
  has counts, positive where it has at least one, and `Masked`/`HostOf` functions into
  their sets. `InstanceOf`, too, is any function into the labels.
* `FleetsAssumption`: fleets are sequences of servers, a server that is up speaks one
  of the two replica statements, and a lag that is reported is a number.
* `TopologyAssumption`: no server names `[` as its source, which is what is left of a
  bracketed address when it is cut at its first colon.
* `DiffAssumption`: no server variable is called `_error`, the name under which `diff`
  keeps a failed visit.
* `TextsAssumption`: an InnoDB status text is a sequence of lines.
* `ServersAssumption`: a server reports natural numbers (of the replica status, -1 for
  one that is missing or no number), no status variable has the
  name of a global variable, and reads from disk are no more than read requests (one
  counter is raised with each request, the other with some of them).

* `PingRetryProofs`: `TypeCorrect`, `VerdictIsHonest`, `OneLatePing`, `RetriesBackOff`. The invariant
  `IInv` adds `Progress` (what attempts, pings and waits have in common at each
  line, needed because the verdict is only formed at the end) and `Lateness` (past
  a check with an uncancelled context no late ping has happened; a later check
  returns). `RetriesBackOff` (`BackoffDoubles`) unfolds the power of two one step per
  retry.
* `EngineProofs`: `TypeCorrect`, `ErrorsAreCounted`, `GaugeIsHonest`,
  `CancellationIsContained`. Every step of the engine is a step of `PingRetry` or
  leaves it alone (`PingSteps`), so the invariant of the ping is taken over as it
  is. Added to it: `Places` (a target is being visited where the code says so),
  `Verdict` (the result being formed is about the target's last answer), `Gauge`
  and `Counter` (by label, over the targets visited so far, and exempting the label of
  the one under way), `Contained` (work begun late is
  on the target at hand, and none has begun where a checked ping is about to).
* `AlerterProofs`: `TypeCorrect`, `SilenceIsExplained` (`RecordsArePosted`),
  `EvaluationIsBounded` (`PostingBounded`), and `SpacingHolds`: `Spec => WebhookSpacing`, the alerter implements `RateLimit`. The
  invariant needs `InFlight`: while Telegram is being posted to, the record is no
  older than the post, so the webhook post that follows is at most `Timeout` late
  and the one before it at least `Cooldown - Timeout` ago. The bound on an evaluation
  is a budget: the time posted so far and what the posts at hand may still take
  (`Behind`) are together at most three timeouts for every rule that is no longer to
  be fired (`ToFire`).
* `VecCollectorProofs`: `TypeCorrect`, `LabelsAreFresh`, `ReadsAreWhole`, `LatestIsComplete`. The
  invariant needs `Filling`: while a family is filled, what is set and what is
  still to be set make up the read.
* `ServeProofs`: `ServeRunsEngine` (`ServeSpec => Spec`: the process runs the poll
  loop that `Engine` specifies, so the engine's theorems hold inside it),
  `ServeTypeCorrect`, `SuccessIsHonest`, `HandlesAreClosed`, `AtMostOneCut`. The
  invariant adds `Handles` and `Answers` (where the main goroutine is against what
  it opened and accepted) and `Closing`: nothing is closed under the loop before the
  context is cancelled, and what was cut short is the target the loop is at, as
  long as it uses a handle or is bound to. The lemma `NoNewUse` is the heart of it:
  after the cancellation the loop takes no further handle into use, because
  `PingWithRetry` checks the context before every ping.

* `FoldProofs`: what the loops over servers, files or lines come to. The library's
  induction theorems take an operator, so the induction (`NatSets`) is on a set and
  rests on the well-foundedness of the subset order. `FoldChain`: a fold from the
  left goes through a chain of accumulators. `AnyOrder`, `SumOfSeq`: a sum does not
  depend on the order in which `CHOOSE` picks its elements.
* `CommandsProofs`: `TypeCorrect`, `ExitTellsTheWorst`, `TopologyIsTrue`,
  `DoctorIsTrue`, `DiffIsTrue`, `ReplicasAreSeen`, `KeysStayInOrder`, `SectionsAreExact`
  (`SectionsExact`), `DeadlocksAreExact` (`DeadlockExact`), for fleets of any size, any
  loss of queries and any InnoDB text. The invariant `SweepInv` says of every result that
  some loss of queries makes the visit of that server yield it (`Told`), that the
  history names the servers that are bad or where the loss was not empty, and that a
  one-shot command has ended either with every server visited or with none and an
  error (`Complete`). `ExitInv` adds that the exit code
  is formed from the results, `ScreenInv` and `KeysInv` what a screen of `watch` shows
  and where its keys are. Each second pass is then a fold over the results: the
  verdict never gets better and is that of some result (`VerdictChain`), the counts of
  `doctor` are sums (`CountChain`), a setting in `diff` is that of the last server
  with the label (`VarsChain`).

  The parser needs two invariants over the lines read so far. `Scanned` is about the
  loop of `splitSections`: how many lines of a heading are still to be skipped, which
  heading was the last, and that every section holds what `BodyTo` gives to it from
  the first `k` lines. `Headings` is a `CHOOSE`; that a set of headings as it asks for
  exists is `EveryOther`, and that the parser's `skip` walks along the chosen one needs
  that headings stand at least three lines apart (`Apart`). `Carries` is
  about the loop of `parseDeadlocks`: once a deadlock has started, the transaction at
  hand is that of the latest heading, and each field and the victim are from the latest
  line of their kind behind it.
* `SamplingProofs`: `TypeCorrect`, `GaugesTellTheTruth` (`StaleIsExplained`),
  `AlertsFollowGauges` (`AlertsMatchMetrics`), for any set of server states. First, of
  every collector, that it sets its gauges to what the server offers and leaves out
  none of them (`Tells`, `CollectorsTell`). The invariant `SamplingInv` then speaks of
  every gauge as soon as its own step is done (`Fresh`), since what the run checks
  after the last collector is not inductive, and of the rules from the query they
  come from (`Evaluated`), and of the two gauges of the binary logs that they are of one
  list (`ListShown`). `RulesExact` compares the rules where the gauges are exactly
  what the server offers (`GaugesExact`), the cross-multiplied ratio with the quotient
  by `Eighty`.

Only model-checked:

* all liveness (`CancelEndsCall`, `CancelStops`, `EveryTargetAgain`, `WebhookReminds`,
  `GrafanaReminds`, `SignalExits`, `WatchEnds`, `CommandEnds`), which needs fairness and
  `ENABLED`;
* that a run reaches the cases its bounds are chosen for: the theorems say what holds
  in them, the mutants of the runs that they occur.

One property changed when its proof was tried: `StaleIsExplained` (see **Sampling**).

## 7. Not modelled, and the plan

Every invariant and action property that a passing run checks is also a theorem, as
is the refinement `WebhookSpacing`; what is left is liveness.

Left out, and why:

* a restart of `serve`: nothing is kept across it, so there is nothing to relate.
* `init` and `version`: one stat and one write (a file created in between is
  overwritten), one print.
* texts of messages and tables, SQL, the registration of metrics, flag and number
  parsing: no property is about them.
* the Helm chart and the dashboard: deployment files.
* the driver and the servers, which are present only through what a call may
  return; that `RawBytes` are used after `rows.Close()` in six places is listed as a
  hazard and cannot be decided here.

Data races are not modelled: in the modelled code all shared state is behind the
registry's locks, a channel, or owned by one goroutine.
