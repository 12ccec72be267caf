# A verification of GoProxy

GoProxy reads addresses from a port scanner, finds out which of them are working
proxies, appends those to text files, keeps them in an SQLite table, and rechecks
the table at intervals. This directory holds TLA+ models of the parts of it that
are hard to test: goroutines that share channels and counters, a store that writes
later than it is told to, files that are overwritten while others append, shutdown
by signals, peers that answer in pieces or not at all, and caches that several
goroutines fill at once. TLC checks the
models on small instances. TLAPS proves every safety property that the passing runs check,
action properties and the refinement of the store's ledger included, for every value of the
constants; what remains to TLC alone is liveness.

All paths below are relative to the repository.

## 1. The system

| Part | Source | State it keeps | Operations |
| --- | --- | --- | --- |
| Deduplicator | `pkg/pipeline/dedup.go` | 64 maps from key to time, a lock each | `CheckAndSet`; a sweep once a window |
| Scan pipeline | `pkg/pipeline/pipeline.go` | `jobsChan`, a context, a wait group | `IngestFromReader`, `worker`, `processJob`, `Cancel`, `Stop` |
| check command | `cmd/check.go` | goroutines for input, signals, dashboard | `runCheck` and its shutdown |
| Store | `pkg/storage/sqlite.go` | table, `batchChan`, the committer's buffer, a cached count | `SaveOrUpdateProxy`, `Flush`, `Close`, `PurgeDeadProxies`, queries |
| Exporter | `pkg/storage/exporter.go` | output files, pool of open files, CSV writer, a mutex | `WriteAlive`, `SyncAliveFiles`, `Close` |
| Statistics | `pkg/model/stats.go` | atomic counters, country map, ring of history points | `RecordResult`, `Snapshot`, `PushHistoryPoint`, `GetHistory` |
| Health daemon | `pkg/daemon/daemon.go`, `cmd/daemon.go` | the list of a cycle, its workers | `Run`, `recheckPool` |
| Checker and handshakes | `pkg/checker/checker.go`, `pkg/protocol/protocol.go` | one connection at a time | `CheckIPPort`, `DetectProtocol`, four probes, `CalculateScore` |
| Judge pool | `pkg/judge/judge.go` | health and latency of each judge, own address | `PickJudge`, `checkAllJudges`, `GetMyPublicIP`, `EvaluateAnonymity` |
| GeoIP | `pkg/geoip/geoip.go` | two caches, a batch channel | `Lookup`, `batchWorker` |
| REST API | `pkg/server/server.go` | stream clients | handlers, `BroadcastProxy` |
| run command | `cmd/run.go` | daemon and API in one process | `runAllInOne` |

How they meet:

- The check command owns a pipeline, an exporter and a store. The reader fills
  `jobsChan` after the deduplicator has let a key through; workers take jobs, call the
  checker, count in the statistics, append to the files, and save to the store, in
  this order. The dashboard and the API read the counters without a lock.
- The store's callers put rows on `batchChan`. Its committer goroutine moves them to
  a buffer of its own and writes a transaction when the buffer is full, on a 250 ms
  ticker, and when the store closes. When the channel is full the caller writes the
  row itself. `Flush` drains the channel from the caller's goroutine.
- The daemon reads the table, rechecks it, saves every verdict through the same
  store, flushes, purges dead rows, and lets the exporter overwrite the files. A
  check command run by cron (`DEPLOYMENT.md:147`) may work on the same table and the
  same files at that time.
- One context per command ends workers, reader and checks. In the check command a
  second signal, or two seconds after the first, end the process with `os.Exit`. The
  daemon command waits for `Run` to return; the run command does not.
- Every check asks the judge pool for a judge and for a verdict on anonymity, and the
  GeoIP resolver for the country; both ask other hosts, in goroutines of their own, and
  keep what they hear. The API's handlers and streams ask the store for its count.

What makes the parts correct, in a sentence each:

- deduplicator: within the window a key is let through once, and only a duplicate is
  refused, whatever callers and sweep do in between;
- pipeline: every accepted job is checked once or visibly dropped, the counters agree
  with the files but for lines that a file did not take, and the files come before the
  store;
- store: every save is applied once or given up, a row is never inconsistent, and
  nothing stays in a queue for ever;
- exporter: a line that was written stays until it is deliberately overwritten, and the
  files that a recheck overwrites agree with each other;
- daemon: one check per proxy and cycle, one failure counted per failed check, no
  working proxy lost;
- checker: no false positive, no false negative without an excuse, and every check ends;
- statistics: what readers show at any moment can have been true, and a point of the
  history is in its place but for those written during the read;
- cached count: what is shown was true less than half a second and a query ago;
- judges: the one picked was healthy, marks follow the judges, and a leak is recognised
  once the own address is known;
- GeoIP: an answer belongs to the address or its subnet, a failure is kept only for an
  address that both services failed for, and every caller and every request gets an answer;
- stream: a client that does not read holds up nobody;
- daemon and run commands: a signal ends the process, and the exit loses no save that
  it could keep.

`PROJECT.json` lists, under `hazards`, the lines at which each of these is at risk.

## 2. The modules

| Module | Models | Composes / is used by |
| --- | --- | --- |
| `Dedup` | deduplicator | `DedupProofs` |
| `Pipeline` | scan pipeline | extended by `CheckCommand`; `PipelineProofs` |
| `CheckCommand` | check command | `Pipeline` + a store with the ledger's promise; `CheckCommandProofs` |
| `ProxyRows` | the table and its three statements | `ProxyLedger`, `BatchStore` |
| `ProxyLedger` | what the store promises (abstract) | implemented by `BatchStore`, used by `Daemon` |
| `BatchStore` | how the store keeps it | `BatchStoreProofs` |
| `AliveCount` | the cached count of living proxies | `ServicesProofs` |
| `Exporter` | output files | `ExporterProofs` |
| `Stats` | counters and their readers | `ServicesProofs` |
| `History` | the ring of history points | `ServicesProofs` |
| `Daemon` | recheck cycles | `ProxyLedger`; extended by `RunCommand`; `DaemonProofs` |
| `RunCommand` | the daemon command and the run command | `Daemon` + `main` and the end of the store; `DaemonProofs` |
| `Checker` | one check of one address | `NetworkProofs` |
| `Judge` | judge pool | `ServicesProofs` |
| `GeoIP` | GeoIP resolver | `NetworkProofs` |
| `Broadcast` | event stream of the API | |

An `MC*` module gives a model its small instance; the `.cfg` of the same name, or with
a suffix, is a run. Definitions that begin with a comment "Mutant of X" are faulty
variants of X. They are used by no specification; each property has one that breaks it.

`MCServices` and `MCNetwork` are sums: each takes four components that share no state,
its first state chooses one (`part`), and only that one moves. A run of such a module
checks each component as a run of its own would, because a property of a component
speaks of the variables of that component only, and holds trivially where it rests.

How state and actions correspond to the code:

- **Dedup.** `CheckAndSet` is two actions, `ReadClock` (before the lock,
  `dedup.go:47`) and the critical section (`Accept` or `Reject`), so several callers can
  hold old clock readings. The sweep reads the clock once (`StartSweep`) and then
  visits shard after shard (`SweepShard`). `Tick` is time; `accepts` is history.
- **Pipeline.** `ingest` is the program counter of `IngestFromReader`; a job is
  counted (`IncQueued`) before it is pushed (`PushJob` or `PushCancelled`, the two
  branches of the select). `work[w]` goes idle, check, record, export, save: the order
  of calls in `processJob`. A check under a cancelled context may report a working
  proxy as dead. Jobs are numbered by acceptance, so that a key accepted again is
  another job. `files` is `alive.txt`; `LineIsLost` is the branch in which it does not open
  or take the line, which the exporter hides from the worker (`missed` remembers it), so the
  worker goes on to the store.
- **CheckCommand.** `main` walks through the end of `runCheck`: Stop (cancel, wait),
  Flush, store.Close, exporter.Close, summary, exit. The signal goroutine cancels the
  pipeline, then the command, then may force the exit at any moment. The store is
  reduced to the ledger's promise.
- **BatchStore.** Each goroutine that drains the channel (the committer, a caller of
  `Flush`) has a buffer `buf[d]` and a `pc[d]`. `flushing` holds those inside
  `flushBatch`, a sequence of steps of one transaction `tx` with a view of its own;
  SQLite admits one. Saves are numbered; `commits` and `lost` record what became of
  each.
- **ProxyLedger.** Four variables: the table, the saves, and which of them are
  committed or lost. `Settle` commits any set of pending saves in any order.
  `MCBatchStore` maps `committed` to the saves with a commit and checks the
  specification of the ledger as a property of the store.
- **Exporter.** A file is a sequence of proxies. One call holds the mutex; its appends,
  and the truncation and the write of each overwritten file, are steps of their own, so
  that `Kill` can come between them and `NewExporter` finds what is left. Each of these
  steps may fail, and the code goes on without a word: a file does not open for an append
  (`OpenFails`), a write to an open file fails (`WriteFails`; the buffer of the CSV writer
  keeps its first error and writes nothing more), a directory or file cannot be made for an
  overwrite and the old lines stay (`OverwriteFails`), or an overwrite leaves the first of the
  new lines only (`WriteFileFails`). `missed` and `unsynced` remember what is not where it
  should be.
- **Stats.** `RecordResult` is a queue of increments (`pending`), a reader a queue of
  loads (`todo`) with the values loaded so far (`got`).
- **Daemon.** `cycle` walks through `recheckPool`; `read` is the result of its query,
  which workers go on using while the table changes. Committing saves (`CommitSaves`)
  is the ledger's, at any time, also after `Flush`. `ScanFinds` is a check command
  beside it.
- **RunCommand.** `main` walks through the deferred calls: server, cancel and exporter,
  store, exit. `command` says which of the two commands it is: `daemon` leaves
  "running" when `cycle` is "returned", `run` when the signal comes. Closing the
  store is two steps (`CloseStore`, the committer drains, `CloseDatabase`), and until
  `Exit` the daemon's goroutines go on: saves after `Close` stay pending, `Flush` and
  `PurgeDeadProxies` of a closed database change nothing but drop what they hold.
- **History.** A point is the number of its push; `NewStats` fills the ring with the
  numbers before the first. `AdvanceIndex` and `WriteSlot` are the two halves of
  `PushHistoryPoint`; `LoadSlot` may see the slot being written old, new or torn.
- **AliveCount.** Locking, querying and storing are three steps of a caller;
  `TableChanges` is anybody's commit. `lastHeld` is history: when the table last had
  each count. A query lasts at most `QueryTime`, an assumption about SQLite.
- **Judge.** `probe[j]` is a judge's goroutine of a round, with the store of the latency
  and of the mark as two steps. `PickJudge` looks at a mark and compares latencies in
  steps of their own. `address` is "half" between the two words of the string `myIP`,
  which is read without a lock; `once` is the `sync.Once`.
- **GeoIP.** `look[c]` walks through the tiers of `Lookup`; a request has the
  one-place channel `respCh` as `reply`. `batcher` walks through `flush` twice, as the
  code does: cached requests first, then answers. `FetchBatch` finds any subset of the
  addresses; `leftOut` are those it was asked for in vain, `failed` those for which the
  second service failed. An answer is the address whose record it is, so a mix-up is visible. The
  two stores of an answer, by address and by subnet, are one step: the property
  speaks of each entry by itself.
- **Broadcast.** `loop` holds the read lock while it sends; registering needs it free.
- **Checker.** `stage` is what the check waits for. The other end is a constant, a
  script of what it sends after each write; `wire` and `inbox` are the bytes under way
  and arrived, so `io.ReadFull` and `io.ReadAtLeast` are guards on `Len(inbox)`.
  `Relays` says what the other end does, independently of the check: it reads the script as
  one stream of bytes (`RelaysSOCKS5`, `RelaysSOCKS4`), as an end may answer before it is
  asked, and then what it sent for one step is read in another.
  HTTP and TLS answers are records of what the parsers and `validateJudgeResponse`
  decide on. A protocol that is named and not supported fails before anything is sent.
  `disturbed` is history: a deadline passed or an answer was cut at four bytes.

## 3. The runs

Deadlock is checked in `batch_store`, `check_command` and `exporter`; in the others the
modelled part really stops (time, cycles, pushes, lookups and checks come to an end).

| Run | Instance | Shows |
| --- | --- | --- |
| `dedup` | 2 callers, 2 keys in 2 shards, window 2, time to 3 | `AcceptsSpaced`, `EntriesAreLastAccepts`, `RejectsOnlyDuplicates`: the window holds although clock readings reach a shard out of order |
| `batch_store` | 1 saver with 3 saves, channel 1, batch 2, one Flush caller, SQLite errors, a purge | one fate per save, consistent rows, Close commits the backlog, refinement of `ProxyLedger`, every save settled |
| `check_command` | 2 workers, channel 1, one proxy accepted up to twice, signals, SQLite errors, lines that `alive.txt` does not take | conservation of jobs, counters against files and lost lines, files before the database at every exit, no work after close, clean end complete, jobs are checked, the process ends |
| `services` | `Stats`: 2 workers, 2 jobs, a snapshot and a dashboard that read again; `History`: 4 slots, 9 pushes, 1 reader; `AliveCount`: 2 callers, 2 counts; `Judge`: 2 judges, 1 picker, 2 evaluations | `CountersNest`, `ReadersAgree`; `HistoryInPlace`; `CountIsRecent`; `PickIsHealthy`, `LeaksAreSeenOnceKnown` |
| `network` | `Checker`: 18 other ends, 3 kinds of port, 5 protocols, one that is not supported, and auto; `GeoIP`: 2 callers, 2 lookups, 5 addresses; `Broadcast`: 2 clients, 3 events; `Judge`: the rounds of 2 judges | `SuccessIsRelayed`, `VerdictIsDetermined`, `CheckEnds`; `AnswersFitAddress`, `LookupsEnd`, `RequestsAreAnswered`; `BroadcastGoesOn`; `MarksFollowJudges` |
| `exporter` | 2 proxies that share three lists, of which one has a list of its own, 2 calls, kills, opens, appends and overwrites that fail | lines are kept across restarts, `alive.txt` is the longest list, the files that a synchronisation could write agree |
| `run_command` | daemon command with 2 proxies, run command with 1; 2 workers, 2 cycles, a signal at any moment | one check per proxy and cycle, at most one failure per cancellation, saves kept at the exit, the signal ends the process |
| `daemon_store` | 1 row, 3 cycles, a scan, late commits, purge threshold 2 | no failure counted twice, no healthy proxy lost |
| `check_command_covers` | violation of `ScanCoversInput` | see section 6 |
| `batch_store_flush` | violation of `FlushMakesSavesVisible` | see section 6 |
| `daemon_cancel` | violation of `LiveProxiesStayListed` | see section 6 |
| `services_history` | violation of `OrderedOldestFirst` | see section 6 |

Why the bounds are enough. Channels have room for one, so that full and empty both
happen and a second sender waits. A batch of two can be full, partly full and empty.
Two workers and one further actor are the fewest with which each pair of steps meets;
the properties speak of at most two saves, jobs or proxies at a time. Time runs to one
tick past the window, so an entry can be new, expiring and expired. The purge threshold
is two, so a row can fail without being purged. Two calls of the exporter cover each
ordered pair of write and synchronisation, and a kill or an error within either; two
proxies that share a list, of which one belongs to a further list, are enough for a stale
line to stay in one file and go from another. The second acceptance of a proxy in
`check_command` is a job that waits for room in the channel, behind the first or beside
it in the other worker; more passes repeat this, and the proofs are for any number. Three cycles let a
verdict of the first be committed after the purge of the second. The counters named
`Max...` bound how often the environment acts; each is a guard of one action. The other
ends of `MCNetwork` cover each branch of each probe and each address form of a SOCKS5
reply, and `Arrive` cuts their bytes in every way. The addresses there are one of each
kind that `Lookup` treats differently, and two that share a /24. The ring of `services`
is small enough to be filled, overwritten and overtaken by a push during a read. A
broadcast to two clients with room for one event has full and empty clients together.

Fairness. Goroutines are scheduled, so steps of workers, committer, `main` and the
signal goroutine are weakly fair. A check ends because each connection has a deadline
(`protocol.go:85, 265, 346, 460`); `CheckEnds` shows that this suffices, under
fairness of the check's own steps and nothing else. The committer's ticker fires
(`sqlite.go:203`), and so does the judges' (`judge.go:168`). `Lookup` has a timer
(`geoip.go:224`), and `LookupsEnd` needs only that callers are scheduled: the batch
worker may be stuck. `RequestsAreAnswered` has the worker's fairness as a premise.
`Server.Shutdown` has a deadline of five seconds (`server.go:100`). Not assumed: that
the next input line ever comes, that anybody calls `Flush` or `Close`, that the other
end of a connection sends anything, that a stream client ever reads, that a signal
comes. In `CheckCommand` SQLite need not let the committer write; `ScanEnds` has that as
a premise and `SignalEndsProcess` does without it. `SignalEndsCommand` needs that a
select prefers a ready `ctx.Done()` in the end: the select of `Run` may choose the ticker
as often as it is ready, which the bound on cycles makes finite. In `MCNetwork` weak
fairness of `FairStep(1)` and `FairStep(2)` is, for the component that moves, the fairness
its own module states: the first is the one process, caller 1, the loop, or judge 1 with
the ticker, the second is caller 2 or judge 2.

Type invariants. `Dedup`, `BatchStore`, `Pipeline`, `CheckCommand`, `Stats`, `Exporter`,
`Daemon` and `Checker` state one. `DaemonTypeOK` is part of a run, because it also says when
a worker may hold a proxy. All are theorems (section 4), `Pipeline`'s as part of
`CheckTypeCorrect`; the others are no part of the runs, which are kept for what a type does
not say.

## 4. What is proved

`DedupProofs` (any callers, keys, shards, window):

- `TypeCorrect`: `Spec => []TypeOK`.
- `WindowIsKept`: two acceptances of a key are a window apart.
- `LiveEntriesAreKept`: an entry the sweep deleted was a window old.
- `OnlyDuplicatesAreRefused`: a refusal has a cause within the window.

The argument: the interesting invariant, that acceptances are spaced, is not inductive,
because a caller may come with any old reading of the clock. `DedupInv` strengthens it
by what the entries and the readings in hand have to do with the history: a reading
is never ahead of the clock, an entry is the last acceptance of its key, and a key
without an entry was last accepted at least a window before the clock. Each action
keeps it (`AcceptKeepsInv`, `SweepKeepsInv`, `TickKeepsInv`). Assumptions: those on the
constants in `Dedup` (a positive window, a shard for each key).

`BatchStoreProofs` (any savers, callers of Flush, capacity, batch size, threshold):

- `TypeCorrect`: `Spec => []TypeOK`; it includes that the channel never exceeds its capacity.
- `RowsStayConsistent`: in the table and in an open transaction a proxy is alive exactly
  when it has no failure since its last success.
- `FatesAreUnique`: `EachSaveHasOneFate`.
- `ClosingCommitsTheBacklog`: `CloseCommitsBacklog`.
- `StoreImplementsLedger`: `Spec => ImplementsLedger`, the refinement of `ProxyLedger`.

The argument: the row that a batch applies is looked up by number, so `StoreInv` adds
to the two that every number in the channel, the buffers, the synchronous path and the
open transaction was given out. Consistency follows from
three lemmas about the statements (`UpdatedIsConsistent`, `UpsertIsConsistent`,
`PurgedIsConsistent`): the conflict clause computes a consistent row from whatever the
caller had read.

The number of places a save is in cannot be carried from step to step as a
cardinality. `FateInv` says the same place by place: no two queues share a save
(`QueuesApart`), none holds one twice, what a saver has in hand is in no queue
(`HandsApart`), what is settled is nowhere else and was committed once (`SettledApart`),
and every number given out is somewhere (`NoneForgotten`). `TxOfBuffer` ties the open
transaction to the buffer of its goroutine; without it a commit could settle a save
that another buffer still has. `BacklogInv` adds that the committer goes through its
stages in one direction and that past draining no save from before `Close` is left in the
channel. For the refinement a commit has to be one `Settle`: its table must be the
table after some sequence of the settled saves. `TxIsRun` says so of the view of the
open transaction, and is carried from one `Exec` to the next: that the
sequence exists and that every run along it ends in the same table, so that no
induction over the sequence is needed.

Assumptions: callers save consistent rows (`DataAssumption`), which
`processJob` and `recheckPool` do; `None` is no save's number (`NoneAssumption`).

`CheckCommandProofs`, with the lemmas of `PipelineProofs` (any input, number of workers,
keys and passes, channel capacity, outcomes of checks, order of signals, with and
without a store):

- `CheckTypeCorrect`: `CheckSpec => []CheckTypeOK`; the job channel keeps its capacity.
- `NoJobIsLostOrRepeated`: `JobsConserved`.
- `CountersAgreeWithFiles`: `AliveIsExported`; the two differ by the lines that `alive.txt`
  did not take and by the workers about to write.
- `DatabaseIsWithinFiles`: `DbWithinFiles`, also when the exit is forced.
- `NothingWritesAfterClose`: `NoWorkAfterClose`.
- `CleanExitLosesNothing`: `CleanExitIsComplete`.

The argument: the sums of `JobsConserved` and `AliveIsExported` are inductive by
themselves, but not that a proxy is written or saved once: a worker might hold a job
that another one has written. `PipeInv` therefore follows each job through the one place it can be in
(`ReaderInv`, `QueueInv`, `WorkInv`, `FilesInv`): with the reader, in the channel or with
exactly one worker; uncounted until `RecordResult`, written only after it, saved only
after that. A lost line is followed like a written one (`Exported`, the jobs that went to
the files): that no job is both, and none twice, is what makes the sums come out.
Each lemma `...KeepsInv` is one action. `ShutdownInv` adds what `main` has
waited for: past `Stop` every worker has exited (and an exited worker takes no step,
`ExitedStay`), and a closed store has nothing pending. Assumptions: those of `Pipeline`
(finitely many workers, an input over the keys, positive capacity, each check finds
something).

`DaemonProofs` (any set of rows, number of workers, limits, verdicts, scans, number of
cycles, and a signal at any moment):

- `DaemonTypes`: `DaemonTypeOK`.
- `EveryProxyOnceACycle`: `OnceEachCycle`.
- `FailuresAreCountedOnce`: `FailsAreChecks`.
- `HealthyProxiesAreKept`: `HealthyProxyIsKept`.
- `SignalCostsOneFailure`: `CancelCostsOneFailure`.
- `CommandsKeepDaemon`: the five hold under `RunSpec` too, for both commands.
- `CommandsSettleSaves`: `RunSpec => []ExitKeepsSaves`.

The argument: `CycleInv` follows each row that a cycle read: it is in the channel, with one
worker, saved or dropped, and two workers never hold the same; the sum of
`OnceEachCycle` follows. `FailsInv` bounds the failures not only of the rows in the
table but of everything that may become one: the rows a worker has read, maybe
long ago (`read`), and the saves that are not committed yet, which may count one more than the
failures that were committed then. `KeptInv` has to hold between two statements of a
commit; a commit of any set of saves in any order is taken apart statement by statement
(`StepByStep`, below). `CancelInv` says where the one failure can be: with a
worker while no save of it exists, or in a save, and then no worker ever
holds the proxy again. A step of either command is a step of the daemon, a `Flush` of a closed
database, or leaves the daemon alone (`CommandStepsAreDaemonSteps`), which carries
the five over. `ExitInv` ties the stages of `main` to what is pending. Assumptions: finitely many
rows (`KeysAssumption`), at least one worker (`NewDaemon` replaces a number below one), and
consistent rows at the start.

`ServicesProofs` (any number of workers, readers, callers, judges and evaluators):

- `CountsNest`, `ReadersSeeNestedCounts`, `StatsAreTyped`: `CountersNest`, `ReadersAgree`,
  `TypeOK`.
- `PointsAreInPlace`: `HistoryInPlace`, for every size of the ring.
- `CountsAreRecent`: `CountIsRecent`, for every duration of cache and query.
- `PicksAreHealthy`: `PickIsHealthy`.
- `LeaksAreSeen`: `LeaksAreSeenOnceKnown`.

The arguments: `StatsInv` makes equations of the inequalities, by what is between
two increments of a worker (`InHand`, `Judging`, `Landing`). A reader that has loaded the
smaller of two nested counters has the larger one still before it, and counters only grow
(`ReadersInv`). `RingInv` says that the last written points are in the slots of their
numbers modulo the size; `HistoryInv` lists which slots a reader may find
otherwise (`Excused`), and the theorem counts them. `CountInv` says of a result on
its way, and of the cache, how long ago the table had it; the age of what replaces a newer
count is bounded because no query lasts longer than `QueryTime`. `PickInv` says
what a caller that has passed the first judges may rely on, with the judges still to come;
`AddressInv` that at most one evaluator is inside the `Once`, and only before the
address is complete. Assumptions: `Stats` needs finitely many workers, `AliveCount` a
positive cache time (it is half a second).

`ExporterProofs` (any finite set of proxies with any lists, flags, order of calls and kills):

- `FilesAreTyped`: `TypeOK`; at most one file is torn.
- `WrittenLinesAreKept`: `LinesAreKept`.
- `AliveNamesEveryone`: `AliveListsEveryone`.
- `SyncLeavesFilesAgreeing`: the action property `SyncedFilesAgree`.

The argument: `FilesInv` adds to the two invariants what they need of a call under way: the
files of the proxy in hand are done, missed or still to do, `alive.txt` is the
first, and only `SyncAliveFiles` tears a file. For the synchronisation `SyncInv`
says that there is a list of living proxies so that each file with a line in it is still to
be overwritten, has failed (`unsynced`), or has exactly the lines of that list. If `alive.txt` did
not fail, it is that list, and the other files can be compared with it.
That sorting the list into lines by file puts each
proxy once into each of its files is shown along the recursive function `LinesByFile`, with
`StepByStep`.

`NetworkProofs` (any callers, addresses, subnets, size of queue and batch; any set of other
ends):

- `AnswersReachTheirAddress`: `AnswersFitAddress`.
- `ChecksAreTyped`: `TypeOK` of `Checker`.
- `SuccessesAreRelayed`: `SuccessIsRelayed`.
- `VerdictsAreDetermined`: `VerdictIsDetermined`.

The argument: `GeoInv` follows an answer through caches, requests and callers: a caller waits on a
request for its own address, although numbers of requests are all that the worker
keeps. `KeptInv` says why a failure is kept only for an address that the first service was
asked for: each request of a batch was answered from the cache or is among those that
`FetchBatch` found or left out (`Settled`), and a caller never copies a failure of its subnet
(`Copied`). For the check, `CheckInv` says what `inbox` and `wire` are: one after the other they are what
comes after the first `k` bytes of all that the other end has sent (`Heard`). So
each stage knows how the stream begins (`Dialogue`), and what the last read finds behind
the reply is what `Relays` looks for there. `Progress` says that the protocols probed before
were all refused, unless something disturbed them; it gives the absence of false
negatives. Assumption: what the other end sends are bytes (`PeersAssumption`); a
record of `GeoAddresses` for each address.

On induction. The library's theorems on induction take a predicate as parameter, which
the installed provers cannot instantiate. Where a recursive function has to be followed
(the statements of a commit, `LinesByFile`), `StepByStep` does without: it is
about the set of the numbers that satisfy the statement, and is proved from the least
number outside it. Nothing is proved about what a recursive definition computes beyond that.

The inductive invariants were checked by TLC on the instances of the runs as well, the two
bounds `Nat` in `CheckInv` cut to 40, but for `RingInv` and `TxIsRun`, which quantify over
infinite sets; the runs keep to what they imply.

Only model-checked: liveness, for which TLAPS has no rules here (`SavesAreSettled`,
`JobsAreChecked`, `SignalEndsProcess`, `ScanEnds`, `CheckEnds`, `LookupsEnd`,
`RequestsAreAnswered`, `BroadcastGoesOn`, `MarksFollowJudges`, `SignalEndsCommand`). `Broadcast`
has no safety property and so no theorem. The four runs that expect a violation have none either.

## 5. What is not modelled

- `CalculateScore` (`checker.go`): a sum of weights over latency, history and
  kind of a proxy, with powers and logarithms. Only queries read it (their order, their
  limit, `min_score`); it has no state and no interleaving.
- `GetRandomAliveProxy`, filters, counts by class and the read-only handlers: single
  queries of a table that `ProxyRows` describes, without effect on it.
- The judge server (`pkg/judge/server.go` and the judge handlers of `server.go`): it answers a
  request from that request alone.
- The dashboards, configuration, banner and the root command: input and output. What the
  dashboard reads is `Stats`.
- `NewResolver(false)`: `Lookup` then returns the fallback at once.
- Parsing: of lines (`parseLineToJob` accepts or refuses), of HTTP and TLS answers, of the
  GeoIP tables, of the body `GetMyPublicIP` gets. A formatted line is its proxy.
- Latencies, and the columns of the table that no later decision reads.
- An overwrite of the output files that the exit of `run` interrupts: `Exporter!Kill`
  has the torn file, `RunCommand` the exit, and they are not composed.
- SQLite itself: one writer at a time, transactions atomic, any statement may fail. The
  file system: an append is written whole or not at all, an overwrite may stop after any
  number of lines, and what was written survives a kill of the process (not of the machine).
  The HTTP server of the API, but for its bounded shutdown.

## 6. Where code and documentation disagree

Kept as runs, each a counterexample found by TLC:

- `check_command_covers`: when the input ends, `runCheck` calls `Stop`, which cancels
  before it waits (`check.go:246`). Jobs in the channel are never checked and checks in
  flight are counted as dead, against `check.go:37-39` and `pipeline.go:245`.
- `batch_store_flush`: `Flush` cannot see the committer's buffer, so a save that returned
  before it may not be in the table after it, against `sqlite.go:211` and the
  expectation of `sqlite_test.go:41-53`.
- `daemon_cancel`: a signal within a cycle turns checks in flight into failures and still
  lets the cycle overwrite the files, so `alive.txt` loses proxies that work, against
  `README.md:455`.
- `services_history`: `GetHistory` promises points "ordered oldest→newest"
  (`stats.go:126`). `NewStats` puts the oldest of the prefilled points into slot 0, and the first
  push writes slot 1, as the index is advanced before. So the oldest point comes last in the
  list at first, just before the newest after one push, and stays out of place until the
  120th push overwrites it (`History!SlotOf`).

Seen while modelling, and visible in the definitions named, without a run of their own:

- "Every living proxy is written at once so that no data is lost"
  (`exporter.go:17`): `WriteAlive` returns nothing, so a proxy whose line was lost is counted and
  saved like any other, and no file has it (`Pipeline!LineIsLost`, `Exporter!OpenFails`).
- `SyncAliveFiles` drops the errors of its overwrites (`exporter.go:226`, `:231`,
  `Exporter!OverwriteFails`, `Exporter!WriteFileFails`): the files may then disagree, and the
  cycle goes on as if they did not.
- A scan beside the daemon loses what it appends during a cycle (`Daemon!SyncAliveFiles`).
- A cycle that finds no proxy alive leaves the dead ones in the files
  (`daemon.go:179`), against `README.md:342`; a list that has become empty is not
  rewritten either (`exporter.go:224`, `Exporter!TruncateFile`), against `exporter.go:170`.
- `os.WriteFile` is called an "atomic overwrite" (`exporter.go:223`) and truncates first.
- The purge may delete a row whose working verdict is saved and not committed; the commit then
  inserts it anew, without its history (`daemon.go:176`, `ProxyRows!Purged`).
- At most 15000 rows are rechecked, ordered by score (`daemon.go:94`), against "all
  proxies" (`daemon.go:92`).
- A new row has an uptime of 0 with one success and no failure (`ProxyRows!Scanned`).
- `Snapshot` is no "point-in-time copy" (`stats.go:137`): verdicts may exceed scanned jobs.
- A detected HTTP proxy is called elite without being evaluated (`checker.go:91`,
  `Checker!Success`), although `elite.txt` is to hold highly anonymous proxies only
  (`README.md:457`).
- An answer of which the first four bytes arrive alone makes a working SOCKS proxy
  count as dead (`protocol.go:435`, `Checker!ReadAnswer`).
- Detection is described as a race (`README.md:16`) and is sequential
  (`Checker!ProbeOrder`); an address on a TLS port is never probed for SOCKS4.
- A failed lookup is stored like an answer, for ever, is what every later caller of the address
  gets, and replaces a good one that another request cached meanwhile (`geoip.go:283`,
  `GeoIP!AnswerUnknown`). A caller that meets a full channel or waits longer than a second
  (`geoip.go:224-228`) asks the second service only, and may return Unknown for an address that
  the first one knows.
- The window of the GeoIP batches is 40 ms (`geoip.go:243`), not 50 (`README.md:20`, `:65`).
- `GetMyPublicIP` asks once per process. The first round of health checks may come before
  the API server, whose judges it asks, listens (`judge.go:171`), and the request's context
  is cancelled before its body is read (`judge.go:248`), so the address may stay unknown,
  and then a leak is never seen (`Judge!JudgeGivesNothing`, `Judge!NoAddress`). `myIP` is
  read without the lock that `sync.Once` would give (`judge.go:233`, `Judge!ReadAddress`).
- Nobody calls `BroadcastProxy` (`server.go:119`): the stream announced at `README.md:311`
  sends the counters once a second and never a proxy.
- "Dang dung he thong an toan" (`run.go:86`), stopping safely, is not followed by a wait for
  the daemon: saves after that are dropped (`RunCommand!Exit`).
- `GetRandomAliveProxy` ignores protocol and country when nothing matches them
  (`sqlite.go:458`), against the example at `README.md:322`.
- The history holds 120 points and, when pushes are late, more than "the last 120 seconds"
  (`server.go:234`).

## 7. The plan

Done: the models of all parts that have state, in the order `Dedup`, `BatchStore` with its
ledger, `Pipeline`, `CheckCommand`, `Exporter`, `Daemon`, `Stats`, `Checker`, then
`History`, `AliveCount`, `GeoIP`, `Judge`, `Broadcast`, `RunCommand`; proofs of all safety
properties of the passing runs. A model of the score was considered and left out (section 5).

Next:

1. `CheckCommand` reduces the store to the ledger's promise by definitions of its own
   (`Pending`, `CommitBatch`). The proof that `BatchStore` implements the ledger would carry over
   if these were shown to be steps of it.
2. `Exporter` and `RunCommand` composed, with an exit in the middle of an overwrite.
3. The steps of liveness that are not temporal: that each `~>` of section 3 has a measure that
   the fair actions decrease, as lemmas about actions.
