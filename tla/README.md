# A TLA+ model of tur

`tur` is a download manager: an engine that splits a file into byte ranges,
downloads them over several connections, moves work between connections while
they run, scales the number of connections, and pauses and resumes downloads.
Around it are a service for other programs, a command line, a terminal interface,
and a companion, `spectur`, that lists media streams found by a browser. This
directory holds TLA+ modules for the parts of it in which order and failure
matter, TLC configurations that check them on small instances, and TLAPS proofs.
Paths below are relative to the repository; `engine/` stands for `src/engine/`.

    tlc -workers 2 -config Tables.cfg MCTables   # one run
    tlapm RangeCoordinatorProofs.tla             # proofs about one of its modules

## The system

Everything runs on one thread, in tasks of a tokio `LocalSet`: code between two
awaits is atomic, and what is read before an await may be stale after it.
(spectur has several threads and one lock instead: code under one lock is atomic.)

| component | state | operations | interacts with |
|---|---|---|---|
| service, handles (`service.rs`) | map of handles, cookie jar | add, pause, resume, cancel, shutdown, event router | commands to the engine loop, events from it |
| headless program, TUI (`main.rs`, `tui/`) | downloads to wait for; list of tasks | add, stop, watch | the same two channels |
| engine loop (`engine/runtime/loop_impl.rs`) | slots (`active_controls`), queued launches, paused and persisted tasks, deferred resumes, bandwidth quotas, connection budget | one handler per command, a refill tick, a memory check | launches downloads; shares a `RuntimeControl` with each; gets `RuntimeStopped` back |
| download run (`engine.rs`) | byte counter, worker slots, leases | HEAD, launch, scaler task, progress task, verdict | owns coordinator and workers |
| coordinator (`engine/coordinator.rs`, `borrowing.rs`) | vector of ranges, two scan positions, map of megabytes | `get_work`, snapshot, resume | work requests from workers by channel; the cells of a range are shared |
| seed builders (`coordinator/builders.rs`) | none | three builders | called once per fresh download |
| connection worker (`engine/worker.rs`, `worker/`) | current and prefetched range, cursor, buffer, a writer task | the loop `run_live` | coordinator, origin, file, scaler's stop flag |
| connection budget, scaler (`engine.rs`, `loop_impl.rs`, `scaler.rs`) | free and allowed connections; leases, limits, throughput figures, token bucket | lease, release, memory check; grow, shrink, recover | spawns and stops workers of one download, shares the budget with all |
| origin memory, phi ratios, HTTP/2 tunings (`origin_memory.rs`, `runtime.rs`) | three LRU maps, one file | note, look up, prune, load | every run reads and teaches them |
| storage (`storage.rs`, `storage/`) | files | prepare, positioned writes | writer tasks |
| persistence (`persistence.rs`) | snapshot files | save, load | engine loop |
| HTTP client, redirects, QUIC, connector | pools | request | I/O |
| spectur (`spectur/src/`) | tabs with streams, probes in flight, selection, downloads | reports of a browser, probe, keys, spawn | websocket, external tools |
| metrics | counters | - | the log |

What is hard here: the coordinator moves the end of a range while its owner
reads it; a pause arrives at any await; a worker has many ways out of its loop
and owns up to two ranges and a buffer on each of them; a write is counted before
it is done; commands overtake the end of the pause they follow; the scaler counts
workers several awaits before it acts on the count; leases are taken under one
budget and returned under another; two bounded channels run in a circle. What
makes each component correct is in the list of properties below and, with source
lines, in the hazards of `PROJECT.json`.

## Modules

**ByteLedger** is what the range table promises, said of bytes only: a byte is
fetched at most once, by a connection entitled to it, and never lost again.

**RangeCoordinator** is the table: `dl_ranges`, `next_unassigned_idx`,
`borrow_cursor` and `halted`. `GetWork` is `get_work` with its three passes
(`AssignSeed`, `Reassign`, `Borrow`), `NoWork` its `None`; `Advance`,
`FinishRange` and `RelinquishRange` are what an owner does to its cells; `Halt`
and `ResumeFromSnapshot` are a pause and `from_snapshot`. Indices are 1-based,
except `borrow_cursor`, which keeps the code's value because the scan is modular.
The measured speeds are abstracted: any set that may lie below the median can be
"slow". The owner acts without knowing about splits: it moves at most to the
present end of its range.

**IndexState** is the map of megabytes beside the table: the same actions, and
`AdvanceAndMark` marks what a piece of body went over. The eight bits to a byte are
left out; a marked megabyte is a member of `index_state`. The run tables
checks table and map together.

**SeedRanges** has the builders as functions of size and connections. The
weights `phi^(alpha*i)` of the geometric builder are natural numbers that do not
decrease; the rest (rounding to blocks, clamps, fall-back) is as in the code. The
loops that push spans, add weights and set cuts are recursive functions.

**Transfer** composes the table with its proofs (`Table == INSTANCE
RangeCoordinatorProofs`, so that what holds of the table can be cited) with workers, writer tasks, the scaler and the run's verdict. A worker's `phase` names
the await it is at; each action is the code up to the next one:

| code in `worker.rs` | actions |
|---|---|
| loop head, `request_work` | `LeaveHalted`, `TakePrefetched`, `AskForWork`, `Grant`, `Refuse`, `SkipEmptyRange`, `SendRequest` |
| failures, `handle_range_retry` | `RequestFails`, `StreamBreaks` |
| one frame of the body | `HaltOnFrame`, `ReceiveChunk`, `FlushTarget`, `HaltAfterChunk`, `Prefetch`, `AfterChunk`, `EndOfBody` |
| ways out | `FinishRange`, `ReopenRange`, `GiveBackHalted`, `GiveBackStopped`, `FlushFails`, `GiveBackOnExit`, `CloseWriter`, `WorkerReturns` |
| writer task | `WriteChunk`, `WriteFails` |
| scaler, run (`engine.rs`) | `Spawn`, `StopWorker`, `ScalerExits`, `Pause`, `Conclude`, `Resume` |

The parameter `Features` switches on what the environment and the scaler may do,
so that a run can ask one question. Abstractions: work requests are answered in
any order (the code's channel is FIFO, each worker has one request in it);
connection ids are used again once no range that has bytes left bears them (the
code's ids only grow); the scaler is reduced to a spawn or a stop of one worker
at any time, also after a halt, which it looks for at the head of its tick only
(its own steps are in ConnectionBudget); a failure that asks for fewer workers
compares the minimum with `n_active`, which is as old as the last tick, so either
answer is possible; a body is the bytes that were asked for.

**ConnectionBudget** is the budget all downloads share (`Lease`, `GiveBack`,
`MemoryCheck`) and one download's use of it from HEAD to teardown; the others,
which run the same code, are the leases they hold. The scaler's tick is cut where
the code awaits: `Tick` (sweep, release, count), `Look` (after the reuse health),
then one of `Recover`, `JudgeGrowth`, `Shrink`, `Grow`, `StayPut`, and
`FinishGrow` when a log line stands between the lease and the spawn. A
connection's slot in the vector of handles is working, told to stop, ended, or
none. A task's count of connections need not lie inside its limits: HEAD leases by
the count as it is, the workers by the count put inside them (`Clamped`), and
updates may raise the maximum above the first. Which judgement the throughput
figures call for is left open: every one of them may be made. The second borrow of the `RefCell` with the limits, possible
while the scaler waits inside its borrow, is the state `panicked`.

**OriginMemory** is the memory of origins with its file and the two small stores
filled from it: one action per place where a run reads or teaches them, restarts,
and a crash in the middle of `fs::write`. Of a learned figure only its presence
is kept, since pruning and filling look at no more. A store whose memory is
switched off does nothing and is not modelled. **RecencyList** is the abstract
list by last use, each origin with its place in it, that it is shown to implement.

**Frontends** is the service with its router, the headless program and the TUI
as users of the two bounded channels. The engine takes commands and sends events
and is otherwise reduced to where each download is; its handlers are EngineLoop's
matter. Of the TUI's keys it has those that add, select, stop and cancel; of the
handle's operations pause, cancel and resume, by a client that asks for one thing
at a time and resumes what it has seen pause. A resume that overtakes the pause
it follows (deferred by the loop) is in EngineLoop.

**StreamCapture** is spectur: reports that add or update a stream, probes,
selection, and downloads that find their stream by URL when they begin. Each
action is the code under one lock. A URL's host and directory, and whether it
looks like a segment, are functions given as constants; a probe finds any format,
fails, or panics (`PanicProbe`). A download looks its stream up under one lock
(`LookUp`) and adds its task under another (`BeginTask`).

**EngineLoop** is `DownloadEngine::run` as seen from clients: one bounded channel
for commands and for `RuntimeStopped`, `LaunchQueued` for the refill tick, a
handler per command, and the life of a run from await to await: it starts (or
fails), waits for its file and a connection (or fails, or, halted, is refused),
runs, and completes, or reads the mode it was halted in and hands its snapshot
over when the channel has room. `Failures` says which of the failures happen. `launches` names controls: a command reaches the newest control only. A
client is patient (it waits to see what it asked for) unless `Habits` says
otherwise. `seen` is the status a client sees, "waiting" after a resume until the
next status of the resumed download.

**...Proofs** modules hold the theorems about the module they are named after
(OriginsAndStreamsProofs: about OriginMemory and StreamCapture).

**MC...** modules give TLC seed tables, symmetry sets and inputs. MCTables
(SeedRanges, IndexState with its range table, OriginMemory, StreamCapture) and
MCParts (ConnectionBudget, Frontends, EngineLoop) put modules side by side that
share no state: a behaviour belongs to one of them, chosen at its start, and the
others stand still. The properties and theorems of each are about its own variables.

Definitions called `Bad...` are mistakes on purpose. Each can replace the
definition below it, and one property then fails: they show that the properties
notice.

## Runs

| run | configuration | shows |
|---|---|---|
| tables | seeds: sizes 1..54 at 4 bytes to a megabyte, 1..4 connections, all modes; ranges: 3 connections, 13 bytes, MB = 2, seeds [0,7) and [7,13), pieces of 3; 3 origins, a memory of 2, small stores of 1, 3 ticks; 3 reports on 2 pages, 2 streams, 2 probes each, 1 download | seed tables tile the file and shares are fair; all properties of the range table, that it implements the ledger and that the map follows it; the memory is a list by last use; a stream shown as probing is probed |
| parts | budget 3, 2 connections asked for, limits [1,1] and updates up to 2, 1 lease elsewhere, memory plenty or short; 2 downloads, 2 slots, channels of 3 commands and 1 event; for the engine loop 2 downloads, 2 slots, 3 commands each, launches that fail | leases, spawns and ends of a run; updates and shutdown reach every download; no download is lost or doubled, every status is true, every command takes effect, queued downloads start |
| transfer_pause | prefetch, a network fault, a pause, a resume | owners, counter, buffers on every way out |
| transfer_scaling | workers added and stopped, a network fault | refinement of the table, completion, the file is whole |
| transfer_faults | reduce, abort, failing writes, a pause | a pause ends the run; only failed writes lose bytes |
| resume_truncates, resumed_dead, slot_leak, double_resume, pause_refused, budget_ceiling, shutdown_stuck | | disagreements, next section |

Properties of the map, the seeds, the stores, spectur, the budget and the front ends,
and what each says:

| property | of | says |
|---|---|---|
| `MarkedByLastByte` | IndexState | a megabyte is marked exactly when its last byte has arrived |
| `SeedsCoverFile`, `ConnectionsAreFed` | SeedRanges | the table tiles the file; equal shares differ little, and every connection finds a range |
| `TicksTellApart` | OriginMemory | in all three stores, also after a restart, ticks are distinct and none is ahead of the clock |
| `ImplementsRecencyList` | OriginMemory | the memory is the list of RecencyList, the file the list last saved |
| `ProbingIsProbed` | StreamCapture | a stream said to be probing has a probe in flight, or had one that panicked |
| `LeasesBalance` | ConnectionBudget | free, leased and leaked connections make at least the budget in force, and no step but a change of that budget makes one |
| `CeilingKept` | ConnectionBudget | no more connections are out than configured (budget_ceiling: violated) |
| `ReadersHoldLeases` | ConnectionBudget | a reader not told to stop holds a lease |
| `SpawnsWithinLimit` | ConnectionBudget | no spawn takes the live workers above the maximum, though it acts on an old count |
| `EndsAreReached` | ConnectionBudget | a halted or complete run is torn down |
| `NoUpdateLost` | Frontends | the router has a handle for every event it takes |
| `ShutdownReaches` | Frontends | a shutdown stops every running download, if the command channel has room for its stops (shutdown_stuck: violated without) |

*Bounds and why they do.* For the range table, seven bytes at a borrow limit of two
allow theft from both lanes and theft from a stolen piece; lanes end in the
middle of a megabyte, so rounding matters; the adaptive minimum is above the
limit or not; the tail phase begins at 70% so that bytes are left in it. In
Transfer, four bytes in one lane at a limit of one make the second worker steal,
and pieces of two or three bytes stop before a moved end, at it, or would cross
it and are cut (a worker then leaves the range at once). One fault and one
pause at every point suffice for one way out per worker; `MaxRetries = 1` lets a
worker retry, and `abort` lets one give up. A channel of one buffer is full after
the first flush. For the engine loop three commands make
pause-resume-pause and cancel-resume-pause; a channel of three fills.

In `tables`, three origins overflow the memory, two overflow a small store, and
three ticks fill the memory and overflow it, with restarts and crashes, which count
nothing, between any two uses; longer histories are proved. A probe finds one
format that differs from the reported one, or fails: which one it finds decides only
which later reports are of the same stream. Two reports that fall
together, one of formats, and two probes at once give every overlap of a report,
a probe and Enter on one stream; a second stream takes part in the selection. In
`parts`, a budget of 3 is all lent at 2 + 1 connections; a reading of 128 MB takes it
to its floor of 2 while 3 are out, so that leases compete;
updates set the maximum above the first one, below the number of live workers, and
back; the two connections asked for exceed the first maximum. Channels of three
commands and one event stand for the code's hundred each: both fill while somebody
waits. Of two downloads' stops (a pause and the shutdown's) three fit, so the last
is always sent; with room for two, shutdown_stuck. In `parts` a halted
run is not refused for want of a connection: that case contradicts a document and
is pause_refused; its other properties are proved with refusals.

*Deadlock* is not checked: a finished download, and a program that has been
left, stops.

*Fairness.* Transfer: the scheduler serves every ready task (`WF` per connection
for worker, writer, coordinator's answer and origin together), timers fire
(`Spawn`, `ScalerExits`). The origin answers: once the bounded faults are spent it
sends data, and a worker that waits for a frame sees a halt when the frame, or the
error in its place, has come (`HaltOnFrame`). EngineLoop: the loop serves channel and tick; a download starts or
fails; a halted one ends (what `PauseEnds` shows of Transfer). A download that is
not halted may run for ever, except under `EndingSpec`. ConnectionBudget: the
scaler goes on (its timers fire), teardown happens, and a worker that is over or
told to stop ends, which is what Transfer shows; nothing is asked of a worker that
downloads. Frontends: `WF` for the engine loop's and the router's next step, and
`SF` for who waits for room in a channel, since tokio's bounded channels serve
those who wait in their order.

## Where code and documents disagree

- **resume_truncates.** `prepare_download_file` uses `File::create` on a resume
  too: the bytes of the earlier run are gone, the snapshot counts them, the
  download "completes". `CompletedIsOnDisk` fails whenever `resume` is on.
- **resumed_dead.** A worker stopped by the scaler drops its prefetched range,
  which stays ACTIVE under a dead connection. When too little is left to borrow,
  workers are spawned, refused and gone for ever.
- **slot_leak.** A completed or failed download never leaves `active_controls`.
- **double_resume.** A resume for a task the loop does not hold ends the loop.
- **pause_refused.** A download paused while it waits for a connection reports the
  error "no connection budget available" and drops its snapshot, where
  `DownloadHandle::pause` promises "state kept in memory" (`service.rs:601`). The same promise is broken
  in a second way, by the habit `quick_pause`: `Stop` for a task that waits in
  `pending_launches` is dropped (`loop_impl.rs:144`), and `PauseTakesEffect` fails
  as well when a client pauses again before it sees the resumed download run.
- **budget_ceiling.** After memory pressure the budget counts connections as
  returned that are still out: with all three lent, a budget shrunk to two and grown
  again counts two as out and lends a fourth. `service.rs:373` and
  `cli.rs:62` promise a "System-wide ceiling for active download connections".
- **shutdown_stuck.** The router stops taking events before its stops are sent: with
  the command channel full it waits for room, the engine loop waits for room in
  the event channel, and a download runs on. `service.rs:805` promises that
  "In-flight tasks are stopped and their in-memory state is preserved for later
  resume". With channels of 100, and clients that ask for one thing at a time, it
  takes more than 50 downloads.

Other behaviour met while modelling, for which no document promises otherwise. Of
Transfer, EngineLoop and SeedRanges:

- with `disk`, a failed write does not keep the download from completing
  (`CompletedIsOnDisk`): ranges are finished and counted before they are written;
- with `reduce_workers`, a worker gives its range back and goes on reading it
  (`OwnersAgree`, `CounterMatchesTable`); with more faults it dies and its
  detached writer may still be writing when the download is reported completed;
- with `prefetch` and `scale_down` together, `OwnersAgree` and `Completes` fail
  (the cause of resumed_dead), so transfer_scaling has no prefetching;
- with `abort`, or more faults than retries, the range of a dead worker is not
  handed out again (`OwnersAgree`, `Completes`);
- with the habit `stop_cancelled`, a stop after a cancel replaces PersistToDisk
  and `CancelPersists` fails;
- a Fibonacci table of at most one megabyte is empty (`SeedsCoverFile` leaves it
  out by name).

Of IndexState: where two ranges meet inside a megabyte, it is marked when the second
has reached its end, whether or not the first has; the map is written to the log and
kept in snapshots, and nothing is decided by it.

Of ConnectionBudget (`engine.rs`, `loop_impl.rs`):

- a HEAD that fails, or a file that cannot be prepared, drops its leases: nobody
  gives them back (`leaked`, a book of its own in `LeasesBalance`);
- leases are taken by the connections the task asks for, before limits clamp
  them, and limits sent before the launch are overwritten at the launch;
- `UpdateScaling` at the moment the scaler waits inside its borrow panics
  (`panicked`), and so does the progress task while the vector is borrowed.

Of the stores: filling the phi ratios of more origins than the store holds keeps
an arbitrary part of them; filling the tunings does not prune; a crash in a save
leaves an empty memory; the lookup at the start of a run creates a blank profile,
so that the run always finds one.

Of the frontends: a stop for a queued download is dropped and it starts later; the TUI
lists a download whose `Add` found no room, loses it, and leaves downloads behind
when it quits; the headless program without a URL waits for ever.

Of spectur: a probe that fails late replaces the result of one that succeeded;
Enter on a stream that is not probed starts another probe and leaves its state;
two streams can come to have one URL, and a download takes the first of them;
the selected place may show another stream, or none, after a report; a manifest is
cut at an offset found in its upper-case copy, and where the two differ in length
the probe may panic and leave its stream "Probing" (`panics`).

## Proofs

Eight modules hold proofs. Each theorem is for every value of the constants that
satisfies the assumptions of its module; the inductive invariant behind it is named
in the module, and there is one lemma per action or group of like actions.

**RangeCoordinatorProofs**, for every file size, seed table, number of
connections, limit and piece size under `CoordinatorAssumption` and
`SeedAssumption` (the seeds tile the file, which SeedsAreATable proves of the
builders):

| theorem | of |
|---|---|
| TypeCorrect | `TypeOK` |
| Tiling | `EveryByteInOneRange` |
| CursorsInside | `CursorInsideRange` |
| StatusesMatchOwners | `StatusMatchesOwner` |
| NothingIsLeftBehind | `NothingLeftBehind` |
| ProgressExact | `ProgressIsExact` |
| FinishedStays | `FinishedIsFinal` |
| ImplementsLedger | `LedgerSpec` |

None of these is inductive alone. That a byte lies in one range only survives a
split if the cut lies inside the donor, which needs cursors inside ranges; that
needs the guard of the split, and that a thief never cuts a finished or unowned
range, which needs statuses to match owners. The inductive invariant `IInv` is
the conjunction of types, tiling, cursors and statuses. `NothingLeftBehind`
follows from `IInv`: a byte is in one range, which is finished, active, or
pending, and the last is excluded by its premise. The progress figure is a sum over
the table. `SnapshotCountsBytes` shows it to be the number of the bytes fetched:
the first `k` ranges count the bytes read in them (`ReadBelow`), one range more adds
its own, and two functions that start alike and grow alike are alike
(`SameSums`, where the least place at which they differ stands in for an induction).
For the ledger, each action maps
to `Claim` (`GetWorkClaims`, with the split as the case that claims nothing new),
`Fetch` (`AdvanceFetches`), `Release` (`ShrinkingIsRelease`) or a stutter.

**IndexStateProofs**: MapFollowsCursors, of `MarkedByLastByte`, under the same
assumptions. A piece of body marks the megabytes whose last byte lies in it
(`SpanMarksLastBytes`, an argument about quotients), reads exactly those bytes
(`AdvanceReads`), and no other step reads any (`OthersReadNothing`, with it in
RangeCoordinatorProofs); `IInv` keeps the piece inside the file.

**TransferProofs**, for every file, set of workers, channel capacity, retry limit and
number of faults and pauses, and for every choice of `Features` within these
hypotheses:

- `OneOwner`: no failure asks for fewer workers. One that does gives the range back
  and lets the worker go on with it, and two workers then share a range;
- `WorkersSurvive`: writes succeed, and failures stay within the retry limit. A
  worker that dies leaves its range to nobody and its writer detached;
- `NothingDropped`: ranges are not prefetched, or no worker is stopped by the
  scaler. A stopped worker drops its prefetched range.

What happens without them is checked by TLC (resumed_dead, and the list of other
behaviour above).

| theorem | of | under |
|---|---|---|
| TypeCorrect | `TypeOK` | OneOwner |
| CounterExact | `CounterMatchesTable` | OneOwner |
| DrivesTheTable | `TableSpec` | OneOwner |
| BytesAreKept | `OnlyFailedWritesLoseBytes` | OneOwner |
| OwnersAlwaysAgree | `OwnersAgree` | OneOwner, WorkersSurvive, NothingDropped |
| CountedBytesReachTheDisk | `CountedBytesAreOnDisk` | OneOwner, WorkersSurvive |
| CompletedFilesAreWhole | `CompletedIsOnDisk` | OneOwner, WorkersSurvive, no `resume` |

The inductive invariant `TInv` joins what is proved of the table (`Table!IInv`,
cited from the table's module) with `WorkersFit`: what a worker remembers of its range agrees
with the table at each of its awaits. It owns the ranges it names; its cursor is
the table's, except between grant and request; the body it asked for reaches to the end of its
range at least, because an end only ever moves down; a buffer holds something only
while it has a range. This is what the coordinator must not break when it moves an
end under a worker (`GrantedEffect`, `FitsElsewhere`), and what makes each way
out of the loop do to the table what an owner may do. `RunInv` ties the verdict to
the scaler's end. `Sound` is the goal of every action's lemma: the invariant again, a
step of the table or none, and no byte lost. The counter moves with the table:
what it adds when a worker advances and what it keeps otherwise are lemmas of
RangeCoordinatorProofs (`AdvanceCounts`, `CountKept`), and a resume counts anew.

When no worker dies, `Settled` adds that writers live and failures are no more than
the faults so far (`AllWell`), and that an active range is held by the worker it is
assigned to (`ActiveIsOwned`). Then a run that is over has empty channels and
buffers, so that kept bytes are bytes on disk.

**SeedRangesProofs**, for every file size, number of connections, weights and
sizes of a block and a megabyte:

| theorem | of |
|---|---|
| SeedsAreATable | the seed ranges are a table that tiles the file |
| SeedsCover | `SeedsCoverFile` |
| ConnectionsFed | `ConnectionsAreFed` |
| SeedTypesAreCorrect | each range lies inside the file |

The state is simple and the data is not: each builder computes cuts of the file in
a loop. `Recursion` gives the function a loop computes, `Upward` what holds all
along it; both rest on the least place where something fails, since the library's
induction is out of reach. `SpansTile` then makes a tiling of cuts that start at 0, do not
fall and end at the size. The equal split satisfies a closed form (`Even`): each lane
takes the quotient, the first ones a byte more (`EvenStep`), so that the rest is never
shared out beyond the end. The geometric cuts are clamped between their
predecessor and the size (`ClampedTile`), whatever is rounded. Of the Fibonacci numbers,
those before the support are below the size and rise (`Support`, `FibRises`), so
that no step is empty and `SeedStart` leaves one for each connection. Weights are
natural numbers as in the model: what floating point does to `phi^(alpha*i)` is not
proved; the clamp holds for any figure it clamps.

**ConnectionBudgetProofs**, for every budget, limits and readings of the memory
under `BudgetAssumption`:

| theorem | of |
|---|---|
| BudgetTypesAreCorrect | bounds of the counts |
| BooksBalance | `LeasesBalance` |
| CeilingHoldsWithoutPressure | `CeilingKept`, if every reading allows the configured budget |
| ReadersPay | `ReadersHoldLeases` |
| SpawnsStayWithinLimit | `SpawnsWithinLimit` |

The invariant needs `Accounts`, which ties three counts the code keeps apart: a
running download leases no more than `n_active`; connections that read or have
ended hold no more than it leases; and inside a tick no more are alive than the
`n_active` its head has counted, because workers only end meanwhile. The last is why
a spawn on an old count stays within the maximum; that a lease waits behind a line
of the log only while `n_active` is below the maximum is the rest of it.
BooksBalance goes over the actions once more (`StepBooks`): a lease, a count and a
release move a connection between free and out, and the memory check alone changes
the sum. CeilingHoldsWithoutPressure is the converse of budget_ceiling: with no
reading that shrinks the budget, the ceiling is kept, so nothing else breaks it.

**OriginsAndStreamsProofs**, for any origins, capacities and uses, and for any pages,
reports and bounds:

| theorem | of |
|---|---|
| TicksAreDistinct | `TicksTellApart` |
| MemoryIsARecencyList | `ImplementsRecencyList` |
| OriginTypesAreCorrect | stores and file |
| ProbesGoOn | `ProbingIsProbed` |
| CaptureTypesAreCorrect | tabs, ids, selection, downloads |
| TableTypesAreCorrect | `TablesTypeOK` |

For TicksAreDistinct the invariant needs more than the property: the ticks in the file are distinct as well, since a restart takes them over and counts
on from the largest (`LargestTick`); and no tick is zero, because the phi ratios are
filled with ticks from one up and go on with the memory's count, which is far
enough only if a count covers its entries (`CountCoversEntries`: distinct ticks
between one and the count are at most that many).

The refinement rests on that invariant. The place of an origin is the number of
entries whose tick is not smaller than its own (`ByRecency`), so distinct ticks give
the places 1 to n, in order (`MemoryIsRanked`, `PlacesInOrder`). A use takes the next
tick, above all others, and moves back exactly what stood before it
(`UseComesFirst`); pruning takes the oldest first, so it cuts the list off at the
capacity (`PruningTrims`). Each action is then a use, a saved use, a restart from
the file or, after a crash in a save, from nothing, or a stutter.

For ProbesGoOn the invariant adds only the shapes of tabs and of the counts of
probes; the cases that matter are a report of a known stream, which may set it back
to probing, and the end, or panic, of one of several probes of a stream.

That there are as many streams as ids were given out needs `IdsFit`: no two places
have one id, no two tabs one page, and the ids are exactly those below the next. A
page with two tabs would list a new stream twice. A step leaves the
places alone (`SamePlaces`) or adds one with the next id (`OnePlaceMore`). The
same count bounds how many streams a tab shows, hence how far the selection moves
(`FewShown`).

**FrontendsProofs**, for any channels, slots and downloads:

| theorem | of |
|---|---|
| NoUpdateIsLost | `NoUpdateLost` |
| FrontTypesAreCorrect | channels, clients and engine, whatever program runs |
| PartTypesAreCorrect | `PartsTypeOK`, with BudgetTypesAreCorrect |

For the first: while the service serves, the invariant keeps books on each
download: which command is due to it, that it is unsent, waiting, running or
halting, that an event that is no last one belongs to a download the router knows,
and that a last event is the last. Once the service stops, the router no longer
takes events.
For the second, the list of the TUI is no longer than there are
downloads because nothing stands in it twice, and the selection stays in it
because only the headless program, which selects nothing, takes entries off its own.

**EngineLoopProofs**, for any tasks, slots and length of the channel, and for
patient clients, which wait to see a download run before they pause it again and
send no second resume (`Patient`):

| theorem | of |
|---|---|
| EngineTypes | `TypeOK` |
| LoopGoesOn | `EngineStaysUp` |
| RunsOnce | `OneRunPerTask` |
| StatusesAreTrue | `StatusIsTrue` |
| NoDownloadIsLost | `TaskInOnePlace` |

The premise is needed: double_resume shows what other clients meet. Launches may fail
or be refused a connection.
`EngineInv` says of each download that every kind of message about it is in the
channel at most once (`Counted`), that it is in one place (`OnePlace`: its Add,
the queue, a slot with its run, the report of its end, a snapshot), and what its
client may have asked for meanwhile (`Resuming`, `Cancelling`, `Somewhere`): while
a resume is on its way no launch is, and the task has a slot or a snapshot, hence a
resume never finds a task that the loop does not hold. An action disturbs one download;
`UntouchedKeep` deals with the others.

*Proved and only model-checked.* Every safety invariant, action property and
refinement that a passing run checks is a theorem. With TLC alone stay

- liveness (`Completes`, `PauseEnds`, `PauseTakesEffect`, `ResumeTakesEffect`,
  `CancelPersists`, `QueuedStarts`, `EndsAreReached`, `ShutdownReaches`): the
  prover has no rules for fairness and ENABLED;
- what the runs of Transfer and EngineLoop show outside the hypotheses of their
  theorems: workers that die in the middle of others, failures that ask for fewer
  workers, impatient clients.

## Not modelled

- **Bandwidth**: `TokenBucket`, quotas and their refill. A reader without tokens
  waits, which Transfer allows at any step; who starves whom depends on the
  runtime's scheduler.
- **HTTP/3 worker**: behind a feature that the default build leaves out.
- **What is in a snapshot file**, and its write in place. EngineLoop knows whether
  one exists; a crash in a save of that kind is modelled in OriginMemory.
- **HTTP client, redirects, QUIC, connector**: bounded sequential loops and I/O.
- **Responses** other than the bytes asked for: a full body, challenge pages.
- **Storage**: the system calls of a write, aligned and buffered parts.
- `run_dry`, the sizes of write buffers, throughput figures: the judgement of the
  scaler is left open instead.
- **Metrics, cookie jar, log**: counters, a map, text.
- **Rendering, dialogs, the resume key, argument parsing**; in spectur
  manifests, key and DRM details, resolutions and paths.
