# A verification project for portwatch

portwatch is a small Go daemon that polls TCP ports, notices when one changes
between open and closed, and tells somebody. Around that loop the repository
has a history of changes, an HTTP API, and in `internal/alert` some forty small
pieces (limiters, breakers, buffers, dispatchers) from which an alerting
pipeline can be composed.

This directory holds TLA+ models of the parts with behaviour of their own,
configurations that check them with TLC, and theorems about them that TLAPS
checks. Paths below are relative to the repository root (`internal/...`).

    tlc -workers 2 -config MCDelivery.cfg MCDelivery   # one run
    tlapm GuardsProofs.tla                             # one proof module

`PROJECT.json` lists the components, runs, mutants, the source lines behind
every definition, the findings, hazards and theorems.

## 1. The system

### Inventory

| Component | State it keeps | Operations | What is hard | What makes it correct |
|---|---|---|---|---|
| daemon loop `internal/daemon/daemon.go` | none of its own: a ticker, a context | `Run`, `tick` | ticks during a slow tick, a signal at any moment | it stops when told to; its interval is one it can poll at |
| poller `internal/poller/poller.go` | none between cycles | `Poll`, `PollAll` | a goroutine per target, finishing in any order | result k belongs to target k; no goroutine survives the cycle |
| tracker `internal/monitor/monitor.go` | map target -> last state | `Poll` (the daemon calls it `Update`), `Check` | first observation; entries that share a key | a change is reported exactly when the state differs from the one before |
| action executor `internal/action/*.go` | none | `Run` | which entry belongs to a change | a change fires the actions configured for it |
| configuration `internal/config/config.go` | none | `Load`, `validate` | - | entries the daemon can run with |
| history ring `internal/history/history.go` | buffer, head, count, mutex | `Record`, `Snapshot`, `Len` | wrap-around; the stamp is taken before the lock | readers see the last N events, in recording order, which is that of time where calls do not overlap |
| history query and export `query.go`, `export.go` | none | `Query`, `Summary`, `Export` | limit against filter; which event of a port counts | the last matching events; a summary is never an older state than the latest |
| circuit breaker `circuit.go`, `circuit_dispatcher.go` | state, two counters, openedAt, mutex | `Allow`, `RecordSuccess`, `RecordFailure` | results of calls admitted in an earlier state | opens in time, stays open long enough, recovers |
| bulkhead `bulkhead.go` | semaphore channel and a counter | `Acquire`, `Release` | two objects updated in two steps | never above the limit, no slot lost, refusal only when full |
| load shedder `shedload.go` | one atomic counter | `Acquire`, `Release` | add, compare, take back | never above the limit, counter accounted for |
| hedge, quorum, fan-out, timeout `hedge.go`, `quorum.go`, `fanout.go`, `timeout.go` | result channels, goroutines, timers | `Send` | answers in any order, late, or never | a truthful answer, and an answer at all; nothing blocked for ever |
| retry, jitter, fallback, pipeline, router, mux, filter, sampling | configured once | `Do`, `Send` | cancellation during a wait; which answer ends the sequence | one target at a time, a truthful answer |
| replay buffer `replay.go` | slice, mutex | `Record`, `Replay` | two critical sections with unlocked sends between | nothing recorded is lost, nothing is sent again |
| tap, audit log, dead letters, checkpoints, observer | a bounded slice, a map or counters, each with a mutex | `Record`, `Snapshot`, `Latest`, `Reset` | senders overtake each other between two of them | they tell the same story, and the true one |
| rate limit, dedup, throttle, window counter, backoff, suppression, escalation, correlation | per key a time, a list of times or a count | `Allow`/`Record`, `Reset` | boundaries, pruning, resets in mid-burst, float conversion | a notification passes exactly when the policy says so |
| batcher, digest, priority queue | a slice, a map or four buckets, with a timer and flush goroutines | `Add`/`Enqueue`, `Run`, `Flush`, `Drain` | a flush that overlaps with additions, with another flush or with shutdown | everything added is in one place, and handed on |
| shadow dispatch `shadow.go` | list of divergences, mutex | `Send`, `Divergences`, `Reset` | the shadow answers after `Send` has returned | what is recorded did diverge, and is recorded once |
| webhook notifier `notify.go` behind `Limiter` | the limiter's map | `Send` | failure after the cooldown started | at most one POST per cooldown |
| cache dispatcher, labels, enrich, transform | the cache's map; label maps of notifications | `Send`, `Reset` | check, send and record are three steps; maps shared by callers | nil only for what was delivered; shared maps untouched |
| the documented pipeline `pipeline_doc.go` | that of its stages | `Pipeline.Send` | stages that forward by themselves and are called as well | once per dedup window; nothing while suppressed |
| rate-limit dispatcher, channel adapters | none | `Send` | - | - |
| HTTP API `internal/api` | none | handlers, `Start` | cancellation against a failing listener | `Start` returns |

### How the parts interact

`cmd/portwatch/main.go` makes a context that a signal cancels and calls
`daemon.Run`. At every tick `tick` calls `poller.PollAll`, which starts one
goroutine per target and collects from a buffered channel; each result goes
through the tracker, and a change goes to the action executor, in the same
goroutine. Nothing else runs in the daemon.

The alert pieces are decorators: each implements `Dispatcher.Send(ctx, n)` and
wraps another one. Concurrency comes from callers that share one chain and from
the dispatchers that start goroutines (hedge, quorum, fan-out, timeout, shadow,
batcher, digest). Each piece guards its own state with its own mutex and holds
no lock while it calls the next one - so every gap between two critical sections
is a place where another caller can step in, and that is what most of the models
are about.

### The state of the repository

As it stands, parts of the repository do not fit together: a model of the
composed program would have to invent what the code leaves open. Each
component is therefore modelled from its own file, and where two files
disagree the model takes the behaviour that both call sites need:

* `daemon.go` calls `poller.PollAll(ctx, cfg.Ports)` and `tracker.Update(host,
  port, state)`; the poller has `PollAll(targets)` as a method, and the tracker has
  `Poll(host, port)`, which dials itself and then does what `Update` is used for.
  `Daemon` models the chain that `daemon.go` and its `doc.go` describe: dial in
  `PollAll`, compare and store in the tracker.
* `action.go` ranges over `pc.Actions` and compares `a.On` and uses `a.Path`;
  `config.go` has `OnOpen`, `OnClose` and `Command` instead. An entry of `Ports`
  has one list of actions with an `on` field, which is what the executor reads.
* `alert` declares `Dispatcher` as a struct (`notify.go:23`) and uses it as an
  interface everywhere else. The models take the interface: something with a
  `Send` that returns nil or an error. (`shedload.go:68` calls it `Dispatch`.)
* The API handlers call functions of history and of the tracker that do not
  exist; they are not modelled.
* `alert/cache.go` and `alert/channel_adapters.go` contain corrupt text (of the
  cache the model takes what the legible lines and the comments leave no doubt
  about: `Hit`, `Record`, `Reset` and the expiry of an entry), and so do
  `alert/retry.go:33` and `action/webhook.go:25` in a single line each, where what was
  meant is plain. `ratelimit_dispatcher.go` calls `Throttler.Allow` with
  arguments and results it does not have and is not modelled.

## 2. The modules

    Daemon                                        DaemonProofs      MCDaemon,
                                                                    MCGoroutines
    Circuit                                       GuardsProofs      MCGoroutines
    ConcurrencyGate (abstract)
      Bulkhead, LoadShedder  <- DispatchLimits    GuardsProofs
      GuardedDispatch = LoadShedder around
                        Bulkhead                  GuardsProofs      MCGoroutines
    BoundedLog (abstract)
      Ring                                        RingProofs        MCLogs
    Recorders = Tap > Observe > Audit
                > DeadLetter > Checkpoint         LogsProofs        MCLogs
    Replay                                        LogsProofs        MCLogs, MCReplay
    ParallelSend (attempts behind TimeoutDispatcher)
      Hedge, QuorumSend, Fanout, SequentialSend
      ConcurrentSend = one of them                DeliveryProofs    MCDelivery
    Batcher, PriorityQueue  <- BufferPolicies     DeliveryProofs,
                                                  PriorityQueueProofs  MCDelivery
    Digest, Shadow                                DeliveryProofs    MCDelivery
    CooldownGate, SlidingWindow, Backoff, Escalator, Correlator, Suppressor
      KeyGates = all of them, fed with the
                 same notifications               GatesProofs       MCKeyGates
    AlertChain = cache > labels > enrich
                 > transform > limiter > POST     AlertChainProofs  MCKeyGates
    DocumentedPipeline = digest, suppressor,
                         dedup                    GatesProofs       MCKeyGates

The MC modules on the right give constants their values. `MCGoroutines`,
`MCLogs`, `MCDelivery` and `MCKeyGates` each hold several components that share nothing: a
variable `which` chooses one of them at the start, and the others stay as they
are, so that the states of one are added to those of the others and not
multiplied. Within a component everything interleaves. The proofs about such a
composition say so too (`EachBehaves`, `EachDelivers`, `EachGates`): a behaviour
of the composition is, for each component, a behaviour of that component's own
specification.

Some definitions come in a second, slightly wrong form just above the right one
(`SlotByArrival` above `Slot`). Nothing uses it: it is the mutation that
`PROJECT.json` names for a property, to show that the property notices.

Histories (variables that no guard reads) are marked as such where they are
declared.

### Daemon

| Model | Code |
|---|---|
| `pc` | where `daemon.Run` is, through `tick`, `PollAll`, `Update` and `Executor.Run` |
| `tickC`, `TickerFire` | `ticker.C`, a channel of one element: ticks during a tick are dropped |
| `cancelled`, `Cancel`, `SelectDone`, `SelectTick` | the context and the `select` |
| `worker`, `ch`, `Dial`, `Recv`, `PollReturn` | the goroutines and the buffered channel of `PollAll` |
| `states`, `Changed`, `Update` | the tracker's map and its answer |
| `MatchingConfig`, `Selected`, `Performs`, `RunAction` | `Executor.Run`, `fireWebhook`, `fireScript` |
| `Wrap`, `TickerInterval`, `Start` | `time.Duration(cfg.Interval) * time.Second` and `NewTicker` |

Dials and actions are inputs: a dial answers open or closed (an error and a
timeout count as closed in the code), an action is attempted or not. Logging is
left out. Entries may repeat an endpoint, as the configuration may.

### Circuit

`AllowTrue`, `AllowFalse`, `RecordSuccess` and `RecordFailure` are the critical
sections of `CircuitBreaker`; the downstream call lies between two of them, so
that any number of callers may be inside when the state changes. Times are kept
as ages that stop counting at `OpenDuration`, the only thing the code compares
them with: this keeps the model finite without a bound on time.

### Bulkhead, LoadShedder, GuardedDispatch

Each atomic operation is a step: the channel operation and the counter's
critical section of the bulkhead are two, the `Add(1)` and `Add(-1)` of the
shedder are two. `ConcurrencyGate` says what both promise: callers enter and
leave, and never more than the limit are inside. `GuardedDispatch` nests one in
the other as `NewShedDispatcher(_, NewBulkheadDispatcher(_, next))` does.

### Ring and Recorders

`Stamp` and `Insert` are the two halves of `Ring.Record` (the clock is read
before the lock is taken). `Snapshot`, `Query` and `Summary` are operators
evaluated in every state. `BoundedLog` says what the ring promises: the last
`Capacity` entries, in the order in which they were inserted. That this is the
order of their timestamps is another matter: `apart` remembers whether `Record`
calls ever overlapped or brought timestamps along, and where they did, what the
code calls chronological need not be so (finding 8). `Recorders` is the chain of
recording dispatchers with concurrent senders; each recorder's critical section is
a step, appending to a bounded log where the recorder has one.

### ParallelSend, Hedge, QuorumSend, Fanout, SequentialSend, ConcurrentSend

An attempt is the goroutine that a dispatcher starts; it calls a
`TimeoutDispatcher`, whose own goroutine calls `next.Send`. `next.Send` may
answer at any time, late, or never; `PassOn` and `TimeOut` are the two cases of
the select in `TimeoutDispatcher.Send` (`TimeOut` also stands for a cancelled
context). `Deliver` is the send on the result channel, which blocks when the
channel is full. The callers differ: `Hedge` has the select loop with its timer
and the drain loop, `QuorumSend` counts until the quorum is decided, `Fanout`
waits for all. `SequentialSend` has those that call in their own goroutine, one
target after the other: fallback, pipeline, router, mux, filter, sampler, jitter
and `Retryer.Do`. They differ in which targets they pass over (a route that does
not match is an input), in which answers end the sequence, and in where they
watch the context: the jitter and the retryer select between a wait and
`ctx.Done()`. `ConcurrentSend` picks one of all these kinds at the start.

### Batcher, Digest, PriorityQueue, Shadow

`Batcher`: `Add` with the flush of a full buffer, the ticker's channel of one,
`Run`'s select (`RunTick`, `RunDone`), and the goroutine each flush starts
(`FlushFn`). `Digest`: `Add` arms the timer; the timer's goroutine and callers of
`Flush` wait for the lock, take the bucket (`TakeBucket`) and send its entries
without the lock (`SendEntry`). A timer that has fired cannot be stopped any more,
and its goroutine then takes what has come since. `PriorityQueue`: four FIFO
buckets, `Enqueue`, and any number of `Drain`s, each of which takes under the lock
(`Take`) and sends without it (`SendOk`, `SendFails`). `Shadow`: `Send` returns the
primary's answer; the goroutine left behind compares both answers and records a
divergence.

### Replay

`Record`; and `Replay` in four kinds of steps: `Copy` (first critical section),
`ReadClock`, `SendNext` per entry without the lock, `Store` (second critical
section). `ReplayDispatcher.Send` records on success and on failure alike.

### KeyGates

Each gate is a module of its own with the decision as a state predicate
(`Open(key)`, `Forwards(key)`, ...) and the update as an action. All decisions are
single critical sections and the gates share nothing, so that `KeyGates` feeds
one stream of notifications to all of them at once; what matters is the sequence
of calls and the times. The properties never look at the gates' own
bookkeeping: they compare what the log says was let through with what the log of
earlier decisions asks for.

`SlidingWindow` takes the times after the cutoff as the last ones of the list
(`Pruned`) where the code filters: they stand in the order in which the clock
gave them, and that the two come to the same is `LiveAreLast` in `GatesProofs`.

`Backoff` converts `BaseInterval * Multiplier^attempts` as Go does: out of range
the language allows any integer; the builds give the least (amd64) or the
greatest (arm64) one, and the model allows both.

### AlertChain, DocumentedPipeline

Two compositions with concurrent callers. In `AlertChain` every middleware of a
`Send` is a step: the cache's lookup, the labels, the static labels, the
transformer, the limiter, the POST and the cache's record; the clock may move and
the cache may be reset in between. A label map is the set of its keys, and a
notification refers to a map by name, so that it shows who writes into whose.
`DocumentedPipeline` builds what `pipeline_doc.go` shows, in its order.

## 3. What the runs show

Bounds are the constants of the `.cfg` and nothing else limits a model.

| Run | Instance | Shows | Distinct states |
|---|---|---|---|
| `goroutines` | daemon: three entries, one endpoint twice, actions of every kind | `ResultsAligned`, `NoGoroutineLeft`, `ActionsOfTheTarget`, `ReportsAreChanges`, `CancelStops` | 36,423 |
| | or breaker: 3 senders, threshold 3, 2 probes (the default), duration 3 | `ClosedBelowThreshold`, `HalfOpenAfterDuration`, `RefusalsFollowFailure`, `Transitions`, `RecoversForGood` | |
| | or limiters: 5 callers, limit 3 around 2 slots | `CountersAccounted`, `RefusesOnlyWhenFull`, `ShedsOnlyWhenReached`; both implement `ConcurrencyGate` (`ImplementGates`) | |
| `logs` | ring of 3 slots, 2 recorders, 2 ports | `ImplementsLog`, `SummaryNeverStale`, `QueryAnswers` | 517,087 |
| | or recorder chain, 2 senders, capacities 1 and 2 | `OutcomesAgree`, `CheckpointsAreDeliveries` | |
| | or replay buffer of 2, 2 replayers, 3 notifications | `ReplayAccounted` | |
| `delivery` | one `Send` of ten kinds over 3 targets, quorum of 2 | `AnswerJustified`, `OneAtATime`, `AnswersDespiteHanging`, `AttemptsEnd` | 59,653 |
| | or a batcher of 2 (5 notifications), a priority queue of 3 with 2 drains (4), a digest with 2 flushers (2 per key) | `HandedOnOnce`, `HandedOnInTheEnd`, `HighestFirst` | |
| | or 3 sends with a shadow | `DivergencesAreReal` | |
| `gates` | one port in two states, 4 calls, 6 instants | `GatesAsConfigured`, `BackoffExact`, `EscalationJustified`, `CorrelatedOnce` | 1,447,320 |
| | or the chain with 2 callers and 4 instants, or the documented pipeline with 2 callers and 6 | `NilMeansDelivered`, `SharedMapUntouched`, `OncePerPeriod` | |
| `daemon_hosts`, `daemon_interval`, `hedge_all_fail`, `replay_lost`, `gates_backoff`, `gates_escalation`, `pipeline_suppression`, `ring_order` | as above or smaller | the findings of section 5 | - |

Each passing run also checks the type invariant of its components.

Why the bounds are enough to make the interesting things happen:

* `goroutines`: in the daemon, two entries with the same endpoint are the smallest case in which a
  key is updated twice in a cycle; three workers finish in six orders. The number
  of cycles is not bounded. The clock is scaled: `Second` = 100 in a 17-bit
  duration keeps the ratio that decides whether a product wraps.
  In the breaker, three senders are enough for one straggler from before the trip, one
  probe, and one sender that is refused, at the same time; three failures trip
  the breaker without any single sender deciding. Five callers fill the inner
  limiter, fill the outer one, are refused by the inner one and by the outer one,
  all at once. Nothing is bounded.
* `logs`: the ring holds three slots and its recorders never stop, so it wraps
  again and again, with both recorders between stamp and insert, one of them
  with a timestamp of an earlier instant. The chain
  sends three notifications (`MaxSends`) through capacities of one and two, so that
  every log evicts, and its clock runs past `MaxAge`. Three notifications into a
  replay buffer of two evict one, and ages reach past `PolicyMaxAge` = 1 within
  `OtherMaxTime` = 2. The two goroutines are interchangeable (SYMMETRY; only
  safety is checked in this run).
* `delivery`: with three targets and a quorum of two there are both ways to
  decide before the last result, a fallback and a retry have a middle, and a mux
  a target after its first match. Five notifications (`MaxAdds`) fill a batch of
  two twice and leave one for the tick or for the end of `Run`. Four
  (`MaxEnqueues`) overflow a queue of three and put two of one priority behind
  each other, with one priority out of range. Two flushers and two keys let a
  late timer meet a `Flush`, with additions in between. A `Send` ends, the
  drain of a hedge may wait for ever, and buffers may stay empty, so deadlock is
  not checked.
* `gates`: four calls (`MaxLog`) suffice for a burst of two, a refusal and a
  reset or another pass; `GatesMaxTime` = 5 is longer than every window. The
  maximal period of the backoff is reached with the third pass. In the chain,
  a clock of four instants passes a TTL of 1 and a cooldown of 2 after the first
  delivery; two callers are the smallest number that can both miss the cache.

### Fairness

* `Daemon!FairSpec`: weak fairness for every step of the goroutines - the
  runtime runs them, dials end by their timeout, actions by theirs. `SelectDone`
  gets strong fairness: in `select` a ready tick and a closed `Done` compete, and
  Go picks among ready cases at random, so that a case that is ready again and
  again is eventually taken. Ticks and the signal are not fair: neither need
  come.
* `CircuitFairSpec`: time passes, downstream calls return, and notifications
  keep arriving (`AllowTrue`), without which a breaker stays open simply because
  nobody asks. `Recover` is not fair; `RecoversForGood` is about what follows it.
* `FairSpec` of `ConcurrentSend`: the caller and the attempts run, and the timers fire
  (the hedge's delay, the waits of jitter and retry, the deadline of each
  attempt). `next.Send` need not return, and a cancellation need not come.
* `BatcherFairness` in `MCDelivery`: the ticker ticks, `Run` goes on, the flush
  functions return. Nothing need be added and the context need not be cancelled.
  `HandledInTheEnd` speaks of what is added while `Run` runs: what is added after
  it has returned stays in the buffer, as nobody flushes any more.
* `DigestFairness`: the timers fire and a flush that has started goes on. Nobody
  need call `Flush`.

The priority queue and the shadow have no liveness property: nothing in the code
makes anyone call `Drain`, or the shadow's target answer.

### Mutants

For every property of a passing run `PROJECT.json` names one mutation of a
mapped definition, as a plausible slip in the code would make it (the slot by
order of arrival, `>` for `>=`, a limit compared by the wrong counter, failed
entries appended instead of replacing), under which TLC refutes it.

## 4. What is proved

Theorems hold for every value of the constants that the named assumptions allow,
the bounds of the runs included: any number of goroutines, targets, keys and
notifications, any policy. Each safety property is proved from an
inductive invariant in three facts - the initial states satisfy it, every step
keeps it, it implies the property - and the proof that a step keeps it has one
step per action. Every invariant and action property that a passing run checks is
a theorem; two of them, named below, under an assumption, and a part of one
(`QueryAnswers`) under a condition of its own, that runs show to be needed.

Three theorems are liveness. The prover has no rules for ENABLED, in terms of
which `WF_` is defined, so they assume weak fairness in the form it has for
these steps: `[]([]G => <><<A>>_vars)`, where `G` is the guard of the code for
`A`, written out. Where `G` implies that `A` can be taken, `WF_vars(A)` implies
this formula; that it does can be read off the action each time (an attempt that
runs can always meet its deadline; a sender that is sending can always record a
success). What the prover then does is the part that can go wrong: that nobody
else's step takes the chance away, stage after stage, in every reachable state
(the stages rest on the inductive invariants). Such an argument is a fixed number
of stages for one attempt, notification or sender; a number of stages that depends
on a constant would need an induction over temporal formulas, which the
prover does not have.

* **DaemonProofs** (`PortsAssumption`, `ClockAssumption`: any list of entries).
  `IInv` is `TypeOK`, a description of the poll cycle (`CycleInv`: a worker has
  sent exactly if its result is in the channel or stored, and the number received
  is the number of workers so marked), `ResultsAligned`, `NoGoroutineLeft`, and
  `states = seen`. The cycle is needed because `PollAll` returns on a count: that
  the count has reached the number of targets means that every target was
  received only if no result was received twice. `TypeCorrect`,
  `PollAllAligned`, `NoLeak`, `ChangesOnly`. `OwnActionsFired` (`ActionsOfTheTarget`)
  assumes `OnePortOneEntry`, that two entries with actions have different port
  numbers; `daemon_hosts` shows that without it the statement is false.
  `ActionsInv` says what has been called while the executor is in the middle.
* **GuardsProofs**. *Breaker* (the policy's values are integers): `CircuitInv` adds
  to the properties that in half-open the count of successes is the run since
  the last probe, that while open `openedAge <= tripAge` (the period restarts
  but never moves back) and `failAge <= openedAge` (only a failure restarts it).
  `OpensInTime`, `StaysOpenLongEnough`, `RefusalsJustified`, `TransitionsHold`.
  `ClosesForGood` (`RecoversForGood`) is liveness, for policies of one or two probes, two
  being the default: the duration passes (`TimePasses`), an admitted call makes the
  circuit half-open, its success counts, and the next one closes it. One sender that
  keeps calling is enough: with a healthy downstream no step of any other, not even
  the answer of a call admitted before the circuit opened, goes back a stage
  (`NoStageBack`). `TimePasses` is assumed as a whole (that ticks add up to
  a duration is the clock's affair); it follows from the fairness of `Tick`.
  *Limiters* (a finite set of callers): `BulkheadInv` and `ShedInv` tie counters to
  the cardinalities of sets of callers at given places. From them `NoSlotLost`,
  `RefusalJustified`, and the refinements: each implements `ConcurrencyGate`. The
  shedder's argument is that a caller was admitted only when the counter, which
  counts at least the callers sending, was within the limit. *Composition*:
  `GInv` adds which places of the two can go together (`Nested`). A step of the
  composition is a step of one limiter while the other stutters, so that it
  behaves as each of them: `CountersExact`, `BothRefine`, `GuardedRefusals`, `GuardedSheds`;
  `GuardsTyped` for breaker and limiters together.
* **RingProofs** (`RingAssumption`). `IInv`: head and count stay within the
  buffer, `Snapshot` is a sequence of events, for every port the newest event in it
  has the state recorded last, and, as long as calls were apart, it is
  chronological and the one event that may be under way is not older
  (`RecordedInTime`). `Refinement` shows that an insertion
  is the abstract log's append with eviction, for every capacity: the modular
  index arithmetic is done once, in lemmas. `SummaryCurrent`: a summary is the
  latest state or unknown. `QueryExact` (`QueryAnswers`) and `AnyQueryExact`, for
  every filter there can be: what the loop of `Query` has collected after `n` events is
  the matching ones among them, in order (`LoopCollects`). The loop is a recursive
  function, and the induction over its counter is made without the library's
  induction rule, on the set of positions that have the property, by the
  least one that has not (`PositionInduction`). That the answer keeps the order of
  the buffer (`RanksOrder`) makes it chronological where the buffer is; `ring_order`
  shows that without `apart` this is false.
* **LogsProofs** (`PoliciesAssumption`, `GoroutinesAssumption`: a program has finitely
  many goroutines).
  *Replay*: `ReplayInv` says that the buffer and what every `Replay` holds of its
  copy are in the order of recording, failed entries before those still to be
  tried, and, as long as no call ran into a `Replay`, that at most one runs, that
  the buffer is what it copied, and that this is what it still holds and what it
  is done with. The order is needed for capacity: what `Replay` stores fits
  because it is part of what it copied. `NothingLostAlone` (`ReplayAccounted`).
  *Recorders*: `ChainInv` numbers the notifications (one number, one sender, one
  answer), and says of each recorder what it holds in terms of the sends that
  have passed it: those in flight are told apart by where they are, since senders
  overtake each other between any two recorders. `DeliveriesCheckpointed`,
  `RecordersAgree` (`OutcomesAgree`), `LogsTypeCorrect`.
* **DeliveryProofs** (`SendAssumption`, `BoundsAssumption`: any number of targets
  and flushers, a quorum there are targets for).
  *Sends*: `SendInv` says of every attempt which combinations of its goroutine, the
  goroutine behind it and the two channels there are (`AttemptOK`), of what the
  result channel holds and what the caller has taken (`ResultsOK`, `CollectOK`,
  `HedgeOK`), and of a sequence that the targets before the present one are done
  or passed over (`SequenceOK`). `QuorumSend` counts: that a quorum of results is
  a quorum of targets holds because no result is taken twice. `AnswersJustified`
  and `CalledOneAtATime`, for all ten kinds. `AttemptsAllEnd` (`AttemptsEnd`) is liveness:
  an attempt meets its deadline, and then finds room on the channel, or a caller that
  waits for it (`BlockedCanGoOn`: the channel holds as many as there are attempts, and
  an attempt without room would be one more, by the pigeonhole principle), so that
  no goroutine stays behind even where the caller has returned or hangs.
  *Batcher*: `BatchedOnce`. `BatchedInTheEnd` is the batcher's half of
  `HandedOnInTheEnd`: what is in the buffer is handed over by the next tick or the
  cancellation, in the batch that it stays in, and that batch's flush function
  returns. Here each batch's goroutine is fair by itself; the run, whose batches are
  few, does with some flush function returning as long as one is running. *Digest*: `DigestInv` adds to
  `EventsAccounted` that nothing is in hand outside a flush and that a timer that
  has fired has a goroutine waiting for the lock; what is in hand is counted as
  the cardinality of a set of pairs, which library theorems can split and join.
  `DigestedOnce`. *Shadow*: `DivergencesExact`. Together with the
  queue: `HandedOn` (`HandedOnOnce`), `DeliveryTypeCorrect`.
* **PriorityQueueProofs** (an integer capacity). `IInv` is the type,
  `QueueAccounted` and that only a sending drainer holds anything, without which
  two idle drainers could not be told from two that hold the same notification.
  Lemmas say what `Append` and `Tail` do to the elements and to the order of a
  bucket, and that the counter moves with one of four lengths. `NothingLost`,
  `MostUrgentFirst`.
* **AlertChainProofs** (`ConstantsOK`: durations that are not negative, and a name
  of the shared map that is no caller's). `IInv` ties the cache to the history of
  deliveries (an entry expires `TTL` after the last delivery, and without an entry
  more than that has passed), says of a `Send` past the cache that it found
  nothing, and of every place in the chain which map a `Send` writes and what is
  in it. `TypeCorrect`, `SharedMapSafe`, `AnswersTrue`. `OncePerCooldown` (with
  `RationOK`: a positive cooldown, finitely many callers) needs `Rationed`: a POST
  comes after the limiter's decision and several may be pending, so that what is
  counted is what was let through, POSTed or not, and it is measured against the
  time of the last decision and not against the present.
* **GatesProofs** (`GatesAssumption`, `ChainAssumption`: any keys and
  policies, durations of any width; the cooldown is positive, `MaxBurst`, the
  base interval and the multiplier are not negative, and the multiplier is whole). A gate
  decides from the little it keeps for a key, while the properties speak of the
  whole log of notifications and resets. `GatesInv` has for each gate a part
  that says how what it keeps sums up the log, and a part that says of every
  earlier notification that it was judged rightly, which nothing later changes:
  - `Cooling` (limiter, deduplicator): the time kept is that of the latest let
    through and not reset;
  - `Sliding` (throttle, window counter): the times kept are those of distinct
    notifications that were let through (`Matches`, a one-to-one map into the
    log), in order, and all of those in the present window are among them. Equal
    times make the map necessary; that counting it on both sides gives the same number
    is what makes the comparison with `MaxEvents` right;
  - `Escalating`: count and first time are those of all that was delivered of a
    closed key. The property starts a run at the port's last opening; that the
    code never does (finding 6) is why the invariant starts at the beginning;
  - `Correlating`: where there is a count, some position `p` of the log is where it
    began, and what was forwarded after `p` came when the count had reached
    `MinEvents`;
  - suppression keeps nothing; its part is arithmetic: the comparisons of seconds
    of the day agree with distances around the clock face (`RemainderIs`,
    `CoversIsRound`), for windows that pass midnight and for those that do not.

  From it `ExactlyAsConfigured`, `EscalationsJustified`,
  `CorrelatedOncePerBurst`, `GatesTypeCorrect`. `BackoffAsConfigured` (`BackoffExact`)
  assumes `NoOverflow`, that the exponential stays in the range of a duration for
  as many passes as the log is long, and proves that the capped period is then the
  policy's; `gates_backoff` shows that without it the statement is false.
  `PipelineRationed`: in the documented pipeline, where a notification reaches the
  deduplicator up to three times, nothing was forwarded later than what the
  deduplicator remembers (`PipelineInv`). With `OncePerCooldown` it makes
  `OnceAPeriod` (`OncePerPeriod`).

What stays with TLC:

* liveness whose argument has as many stages as there are targets, ticks or
  probes: `CancelStops`, `AnswersDespiteHanging`, the digest's half of
  `HandedOnInTheEnd`, and `RecoversForGood` for policies of three probes or more;
* that the fairness of the runs, stated with `WF_` and so with ENABLED, gives the
  fairness that the three theorems assume;
* the eight runs that expect a violation.

No module uses RECURSIVE operators.

## 5. Findings

Each has a run whose counterexample shows it.

1. **Actions of another host** (`daemon_hosts`, `internal/action/action.go:24`).
   The executor looks the entry up by port number only: with the same port on two
   hosts, a change of the second fires the actions of the first.
2. **The interval** (`daemon_interval`, `internal/daemon/daemon.go:32`). The
   configured duration is multiplied by `time.Second` again; ten seconds, the
   default, overflow to a negative value and `NewTicker` panics.
3. **A hedge whose attempts fail** (`hedge_all_fail`, `internal/alert/hedge.go:82`).
   The drain waits for `MaxHedges + 1` results, also for those already received
   and those of hedges never launched, and does not watch the context: `Send`
   never returns.
4. **Lost between two locks** (`replay_lost`, `internal/alert/replay.go:84`). What
   is recorded while `Replay` is sending is overwritten.
5. **Backoff turns off** (`gates_backoff`, `internal/alert/backoff.go:76`). The
   product is converted before it is capped; out of range it is negative on
   amd64, and from then on the key is never refused. With the default policy
   that takes 29 alerts of one key.
6. **Escalated at once after a recovery** (`gates_escalation`,
   `internal/alert/escalation_dispatcher.go:48`). The key contains the state, so
   that "open" resets a count of its own and never that of "closed", against
   `escalation_doc.go:23`. `EscalationJustified` states what the code does.
7. **Suppression bypassed** (`pipeline_suppression`,
   `internal/alert/pipeline.go:39`). The stages of the documented pipeline forward
   by themselves and are called by `Pipeline.Send` as well: dedup is reached past
   the suppressor. That the channel is reached only once a window all the same
   is the pipeline's part of `OncePerPeriod`.
8. **Not chronological** (`ring_order`, `internal/history/history.go:41`). `Record`
   reads the clock before it takes the lock, so that two calls can insert their
   events in the opposite order of their timestamps. `Snapshot` and `Query` then
   return them so, against `history.go:53` and `query.go:29` ("chronological order
   (oldest first)"). `QueryAnswers` states what does hold: recording order always,
   chronological order while no calls overlap and none brings a timestamp.

Observed while modelling, without a run:

* A failure that arrives late prolongs the open period of the breaker
  (`circuit.go:97`); `RefusalsFollowFailure` says how far that goes.
* `Bulkhead.Active` can exceed the limit for a moment: the slot is freed before
  the counter goes down (`bulkhead.go:60`).
* The shedder sheds while fewer than its limit are sending, when refused callers
  still hold their increment (`shedload.go:40`); `ShedsOnlyWhenReached` counts those
  in.
* A caller that brings an older timestamp to `Record` puts an event out of order in
  the ring by itself.
* Deduplication, throttle and window count a notification before it is sent: a
  failed send is suppressed when it is tried again. `GatesAsConfigured` takes it as
  it is; `dedup_dispatcher.go:5` speaks of notifications already delivered.
* Two `Replay`s at once send the entries they share twice (`replay.go:66`);
  `ReplayAccounted` says of them only that the buffer stays in order and without
  duplicates.
* Two equal notifications at once both miss the cache and are both sent on
  (`cache_dispatcher.go:28`); `NilMeansDelivered` allows it, and in `AlertChain` the
  limiter keeps the second from the channel.
* `Enrich` writes into the label map of its caller (`enrich.go:45`), although
  `enrich.go:39` says that it returns a copy. `SharedMapUntouched` holds because
  the labeler in front of it clones the map; without one the shared map is written.
* A timeout reports a failure also when the send succeeds later.
* With `MinEvents` 1 correlation never forwards anything (`correlate.go:60`);
  `CorrelatedOnce` says when a notification may be forwarded, not that one must be.
* What is added to a batcher after `Run` has returned is never flushed unless it
  fills a batch (`batch.go:101`).
* A digest's timer that has fired before `Stop` flushes the next window early
  (`digest.go:78`); nothing is lost by it. But the count of an entry whose send
  fails is: `flush` drops the error. In the model an entry is handed on when
  `next.Send` was called with it.
* The notification whose send fails ends a `Drain` and is not put back
  (`priorityqueue.go:102`).
* A divergence may be recorded after the `Reset` that its `Send` preceded
  (`shadow.go:66`), and stays; `DivergencesAreReal` allows it.

## 6. What is not modelled, and why

* **Formatting, parsing, I/O**: history export, YAML, HTTP requests, channel
  adapters, logging. No state; what they answer is an input of the models.
  `channel_adapters.go` is corrupt as well.
* **HTTP API**: the handlers do not match the packages they call.
* **Rate-limit dispatcher**: it does not compile; `throttle_dispatcher.go`, which
  does the same, is modelled.
* **cache**: the eviction at capacity, whose lines are damaged.
* **Sampling**: the random choice is that of a filter, to forward or not.
* **Observer's latencies**: samples and percentiles, of which only the order
  statistics would be of interest.
* **Labels**: `Labeler.Set` at run time and titles; `transform_dispatcher.go` calls
  a method that `Transformer` does not have, and the model takes
  `Transformer.Send`.
* **Lengths of waits**: jitter's and retry's waits, the digest's window and the
  batcher's interval end at any time.
* **Memory model**: an unlocked access to a shared map or slice is modelled by
  showing that the map is not shared (`SharedMapUntouched`); the registration of
  mux branches (`mux.go:44`) is taken to happen before the first `Send`.

## 7. The order of the work

The order follows importance: first the loop that makes the program what it is,
then the pieces whose correctness depends on interleavings (guards, logs, sends),
then those whose correctness depends on sequences (gates), then the buffers,
then the compositions. Proofs follow the same order, safety first where an
argument is worth having for every size: alignment, limits, order, aliasing.
What could follow: liveness for every number of probes and targets, once the prover
has an induction over temporal formulas; a second port in the run of the gates, which the proofs cover and the run
does not; the eviction of the cache, once its lines are repaired.
