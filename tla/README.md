# Verification of xelogstash (`sqlxewriter`)

`sqlxewriter` polls SQL Server instances for extended events and failed Agent
jobs and writes each of them to one or more sinks (files, logstash, Elastic).
It has no acknowledgement from the far end and no transaction across position
and sink: what it promises rests on the order of small steps. This directory
models those steps in TLA+, checks them with TLC and proves with TLAPS, for any
number of events, sinks, pollers and faults, the central promise, that the
saved position never runs ahead of the sinks, for both readers, and what it
rests on: the state files, the life cycle, the logstash connection, the Elastic
sink, the event files, and the way of an event into its record.

All paths below are relative to the repository (`src/`).

## 1. Inventory

### Components that are modelled

| Component | State it keeps | Operations | Hard behaviour |
| --- | --- | --- | --- |
| **State files** `pkg/status/status.go` | one csv file per session and its `.0` copy; in memory the set of instances seen | `NewFile`, `GetOffset`, `Save`, `Done`, `CheckDupeInstance`, `Reset`, `SwitchV2` | crash or power failure between append, sync, rename, create and rewrite; a line written in part |
| **Event session reader** `pkg/app/process_session.go` | position, `gotRows`, reset mode, rows counted; all local to one poll | one poll: open, query, loop over rows, save per block, flush, checkpoint | the position is saved before the flush; many events share one offset; target files vanish; reset mode |
| **Agent job reader** `pkg/app/process_agent.go` | last `instance_id`, rows counted | one poll, saved row by row, flushed at its end | purge of the table, a result set that breaks off unnoticed, `stop_at`/`start_at` |
| **Sinks as the readers use them** `pkg/sink/*.go` | what was written and not flushed | `Write`, `Flush` | one of several fails, at any of the two |
| **Program life cycle** `pkg/app/program.go`, `fsnotify.go`, `process_source.go` | mutex, context, wait group, sinks, pollers | `Start`, `Stop`, `startPolling`, `stopPolling`, `run`, `checkdupes`, watcher | reload against stop, late goroutines, duplicate instances, failing sinks |
| **Logstash connection** `pkg/ls2/*.go` | a connection under a `RWMutex` | `Connect`, `Write`, `writeloop`, close | shared by all pollers; deadlines that cut a line; server restarts |
| **Elastic sink** `pkg/sink/sink_elastic.go`, `pkg/eshelper` | none of its own: the indexes Elastic has | `Open` with `CreateIndexes`, `Write` | programs that create the same index at a time; late answers; polls that break off and write again; a refusal inside an answer of 200 |
| **Event files** `pkg/sink/rotator.go`, `sink_file_2.go` | the period being written, a handle, the directory | `Write`, `Sync`, `Clean` | one Rotator for all readers, of which each saves its position before it flushes; any file operation fails between two others; a file that is open is removed |
| **Sampler** `pkg/sink/sampler/sampler.go` | when each event name was last noted | `Write` | the time is noted before the file is written |
| **Metrics** `pkg/metric/metric.go` | rings of samples and their totals | `Add`, `MarshalJSON` | idle rings, rounding |
| **Configuration** `pkg/config/*.go` | none: from two files to the settings of each source | `Get`, `setSourceDefaults`, `merge`, `processLookback` | defaults and sources are merged field by field, each in its way |
| **Event parsing** `pkg/xe/xe.go`, `event.go`, `set.go` | none: from XML and metadata to fields | `Parse` and what it derives | two values for one name; metadata read at another time than the event |
| **Server metadata** `pkg/xe/sqlinfo.go` | types, databases, messages, read once a poll | `NewSQLInfo` | results that break off unnoticed; ids that are used again; dates in the server's local time |
| **Record modification** `pkg/logstash/logstash_record.go` | none: from record to record | `ProcessMods`, `ProcessUpperLower` | maps are gone through in any order, and stop at the first key that exists; values are converted on the way |

### Components that are not modelled

The application log, the previous one-shot program `cmd/xelogstash` and the
helper commands are I/O, formatting or tools beside
the program; nothing in them orders two steps of the delivery.

### How they interact

The service manager (or a single run from the command line) calls `Start` and
`Stop`. `startPolling` reads the configuration, opens the sinks and launches
one goroutine per source. A goroutine finds out which instance is behind its
source, gives up when another source already reads it, and then, at every tick
of its timer, calls the two readers for every session of the source. A reader
opens the state file of the session, asks the server for what lies behind the
position, and for each event calls every sink in turn; it saves the position
and flushes the sinks. Before that each event is parsed with the metadata the
poll has read, filtered, made into a record and modified, as the settings of
its source say. The sinks are shared by all goroutines. A change of the
configuration file makes the watcher call `stopPolling` (cancel the context,
wait for the goroutines, close the sinks, forget the instances) and
`startPolling` again.

```
 service manager --Start/Stop--> program <--reload-- watcher (fsnotify)       Polling
                                    | launches, cancels, waits
                                    v
                                 pollers -- one per source --                 Polling
                                  |      \
                processSession    |       \   processAgentJobs        XeSession, AgentJobs
                                  v        v
                      state file (Save, Done)    sinks (Write, Flush)   StateFile, Sinks
                                                  |            |
                                    event files, sampler    logstash,   FileSinks, Logstash2,
                                                            elastic     ElasticSink

 configuration --Settings--> each event: Parse, filters, ProcessMods    EventPipeline
                                         (Events)       (Records)
```

### What makes each of them correct

* State file: whatever fails between two file operations, the next reader finds
  the last acknowledged position, the new one, what is left of one of these in a
  line that was cut short, or a file it refuses; if it finds nothing, the `.0`
  file has the position.
* Readers: no event at or before the saved position is still owed to a sink;
  nothing is written twice unless something failed; a checkpoint is made of
  flushed sinks; every event is dealt with in the end.
* Life cycle: an instance has one reader; a reader has open sinks; an edit of
  the configuration takes effect; a stop is answered; a single run looks at
  every source.
* Logstash connection: `Write` returns only for a line that was sent, once;
  every `Write` returns once the server stays up.
* Elastic sink: an event `Write` accepted is stored unless Elastic itself
  refuses it; every copy beyond the first has a lost answer or a poll that broke
  off behind it; a race for the indexes keeps no program from starting.
* Event files: an event whose position is saved and whose flush has come stays in
  a file that survives a power failure until its retention is over, whichever
  reader shares the file and whatever fails, unless a sync failed. Between the
  save and the flush, and after a failed sync, it may be lost (section 6, point 8).
* Sampler and metrics: a name that keeps coming keeps a recent sample; a frame
  shows the events of its window, no older ones.
* Pipeline: what is sent was asked for by the files as they were written; no
  value of an event is lost on the way, or changed but by the conversion a copy
  or move makes of numbers and backslashes; no event gets the name of another
  database but in the hours that a server west of UTC is off by.

## 2. Modules

| Module | Models | State and actions against the code |
| --- | --- | --- |
| `Positions` | the values of a state file | `pos` is file name and offset (or `instance_id`) as one number, `flag` the status column `good`/`reset`; `Fresh` is the `("", 0)` a new file answers, `Unreadable` a file `GetOffset` refuses, `CutShort` what it makes of a line that was cut in its second or third column |
| `PositionRegister` | *abstract*: what `pkg/status` promises | a register with a spare copy: take over, write, write a part, acknowledge, set aside, abandon, lose power, repair |
| `StateFile` | `SwitchV2`, `GetOffset`, `Save`, `Done` | a file is its lines, whole, cut, torn or null, and how many are synced; one action per file operation (append, sync, rename, create, append, sync); `ShortWrite` (part of a line, of any length), `Return` (error or killed process) and `PowerFailure` between any two; `Parses` is what `GetOffset` accepts, cut last lines included |
| `Sinks` | `Write` and `Flush` of every sink | `pend` is what was written and not flushed, `kept` what is there for good, `handed` every event ever written (history) |
| `DeliveryCursor` | *abstract*: at-least-once delivery | a cursor that advances only over given events and goes back only in trouble |
| `XeSession` | `processSession` | `pc` is the place in the function, `last` is `lastFileName`/`lastFileOffset`, `at` the row scanned last, `mode` the status `GetOffset` returned; one action per branch and exit, `InvalidOffset` for `rows.Err` with Msg 25717-25723; the target (`Produce`, `Rollover`) and the world (`Cancel`, `Restart`, `Kill`, `PowerFailure`, `Repair`) around it |
| `AgentJobs` | `processAgentJobs` | as `XeSession`; `last` is the variable `instanceID`, `purged` and `newest` delimit `sysjobhistory` |
| `Polling` | `Start`, `Stop`, `startPolling`, `stopPolling`, the watcher, `run`, `checkdupes` | `holder`/`phase` is who has `p.Mutex` and how far the call is, `poller` where each goroutine is, `cancelled` the contexts that are done; `Returns` is what each caller does with the result |
| `Logstash2` | `Connect`, `Write`, `writeloop`, `close` | `wire` is what was sent and not read, as lines that are whole or not; `pc` is the place of each poller in `Write`; the read lock is held in `write`, the lock in `loop`, `close`, `open`, `again` |
| `ElasticSink` | `Open`, `CreateIndexes`, `Write`, `WriteElasticBuffer` | `pc` and `todo` are the place of each program in `CreateIndexes`; `indexes` and `docs` (copies of an event) are what Elastic has; a bulk request is one step with its outcomes; `at` and `saved` are the event in hand and the position: an error of `Write`, a kill, or any other end of a poll goes back to `saved` |
| `Outcomes` | | a call that may fail as the set of its outcomes, and `Then`, which stops at the first failure |
| `Rotator` | `rotator.go` | a record of `ts`, the handle (open or dead, linked or removed) and the directory; for each file what was written and what survives a power failure |
| `Sampler` | `sampler.go` | a record of what is noted in memory and the sample in each file |
| `Timeseries` | `metric.go` | `roll`, `Aggregate` and `Add` of one ring, all frames of a counter |
| `FileSinks` | how `processSession` drives them | several readers share one Rotator and one Sampler; one action per call of a sink: between two blocks `SaveBlock` and then `FlushBlock`, at the end of a poll `EndFlush`, `EndClean` and the save; reloads, kills, power failures and the clock |
| `Settings` | `config.Get` | `setSourceDefaults`, `merge`, `processLookback`, environment variables and validation, as operators |
| `Events` | `xe.Parse` | data before actions, renames, derived fields, the error log, database names, as operators in the code's order; what is derived is there or not, its text is left out (section 7) |
| `Records` | `ProcessMods`, `ProcessUpperLower` | a record is its leaves, by path; adding, copying and moving one entry; `Converted` is what `doubleSlashes(r.Value())` makes of a value |
| `EventPipeline` | from configuration to sink | reads the configuration and the metadata, parses, filters, builds and modifies one event, one map entry a step, while databases come and go on a server with a time zone |
| `MCXeSession`, `MCStateFile`, `MCPolling`, `MCElasticSink`, `MCFileSinks`, `MCEventPipeline` | | sets of values, events and configurations for TLC |
| `XeSessionProofs`, `AgentJobsProofs`, `StateFileProofs`, `PollingProofs`, `Logstash2Proofs`, `ElasticSinkProofs`, `FileSinksProofs`, `EventPipelineProofs` | | lemmas and theorems about the module each is named after |

Composition: `XeSession` and `AgentJobs` extend `Positions` and `Sinks`; both
implement `DeliveryCursor` (`ImplementsDelivery`, with a row as a position of
one event in `AgentJobs`). `StateFile` implements `PositionRegister`
(`ImplementsRegister`). The readers hold the state file as the register's
value: `reg` and `spare` change in the steps `Save`, `Done`'s save, rename and
rewrite, and a failure between any two of these is possible, which is what
`StateFile` shows its file operations to come to, but for one thing the readers
leave out: a cut line that passes for a smaller position (section 7). `Polling` keeps of a reader
that it is in a session, and the readers keep of `Polling` that they may be
cancelled, killed and restarted at any time. `FileSinks` composes `Rotator`,
`Sampler` and `Timeseries` under the same loop of write, save and flush that
`XeSession` has, for several readers at a time, and shows what `kept` means there
for the file sink: that what was flushed is in a file. `ElasticSink` has of that
loop what matters to it: that a poll saves its position now and then, and goes
back to it when it breaks off. `EventPipeline` composes `Settings`, `Events` and
`Records`, and is what `XeSession` calls an event being wanted or dropped.

Operators named "Faulty variant of ..." describe a plausible bug beside the
definition they vary (a flush left out, a position saved too early, a lock not
taken). No specification uses them; replacing the definition by its variant
shows that the property it is paired with in `PROJECT.json` notices.

## 3. Runs

Run one with `tlc -config <cfg> <module>`.

| Run | Module, cfg | Shows |
| --- | --- | --- |
| `xesession` | `MCXeSession`, `XeSession.cfg` | `NoGap`, `CheckpointFlushed`, `OneBlockAtRisk`, `OnceWithoutFaults`, the refinement of `DeliveryCursor`, and `EventuallyAccounted`: no error, reset, limit, cancel or file removal stops a session for good |
| `agentjobs` | `AgentJobs`, `AgentJobs.cfg` | `NoGap`, `OnePollAtRisk`, the refinement, and `EventuallyDelivered` |
| `statefile` | `MCStateFile`, `StateFile.cfg` | `PositionKept`, `NullFileHasSpare`, and the refinement of `PositionRegister` |
| `polling` | `MCPolling`, `Polling.cfg` | `OneReaderPerInstance`, `ReadersHaveSinks`, `SingleRunComplete` |
| `polling_live` | `MCPolling`, `PollingLive.cfg` | `EditTakesEffect`, `StopCompletes` |
| `logstash2` | `Logstash2`, `Logstash2.cfg` | `ReturnedWasSent`, `OnceOnTheWire`, `WritesReturn` |
| `elastic` | `MCElasticSink`, `ElasticSink.cfg` | `ReturnedIsStored`, `CopiesHaveCause`, `EventuallyOpen` |
| `filesinks` | `MCFileSinks`, `FileSinks.cfg` | `SavedKept`, `SampleFollows`, `WindowShown` |
| `pipeline` | `MCEventPipeline`, `EventPipeline.cfg` | `BothValuesKept`, `NamedAsItWas`, `OnlyWantedSent`, `NothingLost`, `ModsCommute` |
| `xesession_reset` | `MCXeSession`, `XeSessionReset.cfg` | a violation: section 6 |
| `polling_closeerror` | `MCPolling`, `PollingCloseError.cfg` | a violation |
| `logstash2_torn` | `Logstash2`, `Logstash2Torn.cfg` | a violation |

### Bounds

* `XeSession`: three blocks of two events. The loop compares the offset of a
  row with that of the row before, so two blocks show a change of offset and
  three a change before and behind a saved position; two events show a block
  that is read in part. A block to a file and `oldest` make every kind of
  rollover happen: before, at and behind the position, and under a query.
  Two sinks, the first needing a flush: a failure of the second leaves the
  first ahead. A limit of three rows lets a poll go on behind its first
  block and end behind its second. Two faults, of any
  kind: one to get into reset mode or to a restored `.0` file and one to go
  wrong there. One event is dropped, one is behind `stop_at`.
* `AgentJobs`: five rows cover each kind once (`start_at`, wanted, filtered,
  wanted, `stop_at`), so that a wanted row follows a filtered one; purging is
  free. One fault; liveness is checked in the same run.
* `StateFile`: files of 3 lines: one before, the line being written, and one
  behind a line that was cut. Two values are saved (`MCSaved`): the first at
  position 1 with status `reset`, the second at position 2 with `good`. So the
  offset of the second, cut short, is the position of the first, with a status
  nobody wrote, and the status of the first, cut short, is read as `good`. Faults
  are not bounded. A file starts with lines of three columns (`Columns = {3}`);
  section 6 says why.
* `Polling`: three versions of the file: one instance under two names, another
  instance before it, and a file that is refused; three starts and two edits,
  so that a reload follows a failed reload. A service and a single run, a sink
  that does not open or does not close, panics.
* `PollingLive`: the same versions without failing sinks; a refused file in
  the middle.
* `Logstash2`: two pollers, two events each and three faults: the second event
  is what can be glued or sent to a stale connection, the third fault breaks
  the repair of the second.
* `ElasticSink`: two programs, so that one creates an index between the other's
  question and its own request; two names mapped to one index besides the
  default, so that the second index can be missing when the first is there and
  one is asked for twice; two events, so that one is written, and written again,
  behind a saved position or before one; three faults: enough for three copies of
  an event, or a request of `Open`, a lost answer and a deletion.
* `FileSinks`: files of two ticks kept for three, samples of two ticks, five
  ticks: time for a rotation, a removal and a second rotation. Two readers: one
  with two blocks of an event each, so that it saves before a flush and flushes
  again at its end, one with a block that shares file and sampler. Names meet
  between the readers. One fault of any kind; the proof has any number. Two
  frames, of which one rounds.
* `EventPipeline`: one event of six kinds (both names of an error number, a
  field and an action of one name, a field called `timestamp`, a database id,
  the error log with a hash that no float64 holds), eight configurations (dates and errors, a nested payload,
  entries that meet, filters, two copies to one place, a copy below a scalar,
  and two that are refused), one database id used by two databases of two
  names, three ticks, a server a tick west of UTC or a tick east of it. A number
  of 2^53 + 1 and a server name with a backslash are copied and moved.

### Deadlock

The checks look for deadlock except in `Polling`, where the process really
exits, in `EventPipeline`, which follows one event to its end, and in
`FileSinks`, where events and ticks are used up.

## 4. Fairness

* **Readers** (`FairSpec` of `XeSession` and `AgentJobs`): a poll goes on
  (`WF` of `Poll`): queries and writes return; the program restarts after a
  cancel; polls begin at once after a start ("run at time zero" in
  `program.go`), so that a reload cannot take every poll away (`SF` of `Open`).
  In the job reader the context is looked at before every row; there the
  fairness also excludes reloads that come, poll after poll, between the query
  and its first row. The operator repairs a file the reader refuses
  (`Repair`): the program itself never does, its log asks for it. Faults are
  bounded; nothing is assumed about when they happen.
* **Life cycle**: goroutines run, the mutex is not withheld from a caller for
  ever, `select` does not prefer the ticker to a done context for ever. That a
  session ends is an assumption: it rests on the fairness of the readers and,
  with a logstash sink, on the server coming back (section 6). Nobody needs to
  edit the file or to ask for a stop. `PollingLive` assumes `PromptLaunch`: a
  goroutine counts itself in the wait group only when it first runs
  (`program.go:188`), and between a stop and the next start the watcher sleeps
  for a second; a goroutine that has not run by the next stop is left to
  `Polling.cfg`, which does not assume it.
* **Logstash**: pollers run, a lock is not withheld for ever. Nothing makes the
  server come up; `WritesReturn` is conditional on a server that stays up, and
  the strong fairness of `LoopOpen` says that a server which accepts
  connections for good is reached by the retries.

* **Elastic**: a program whose `Open` failed is started again and its requests
  are answered (`WF` of `Opening`). `Start` returns the error and the program
  ends: that somebody starts it again, the service manager or, with
  `watch_config`, an edit, is an assumption. Failures are bounded.

## 5. Proofs

Each proof module has a theorem `InvariantHolds == Spec => []IInv` about the
inductive invariant of its component, and one theorem for each property that
follows from it. `IInv` stands in the component's own module, as a conjunction
of named parts, and TLC has checked each as an invariant of the component's run
before it was proved. Unless a theorem says otherwise its hypotheses are only
the named assumptions on the constants: sizes and bounds are natural numbers,
and what is counted or listed is finite.

| Theorem | For every |
| --- | --- |
| `XeSessionProofs`: `NoGapHolds`, `CheckpointFlushedHolds`, `OneBlockAtRiskHolds`, `OnceHolds`, `DeliveryHolds` (refinement), `TypeCorrect` | number of blocks, events in a block, blocks in a file, sinks, row limit, choice of unwanted events, bound on faults |
| `AgentJobsProofs`: `NoGapHolds`, `OnePollAtRiskHolds`, `DeliveryHolds` (refinement), `TypeCorrect` | number of rows, sinks, row limit, kind of each row, bound on faults |
| `StateFileProofs`: `PositionKeptHolds`, `NullFileHasSpareHolds`, `RegisterHolds` (refinement), `TypeCorrect` | number of positions and of lines in a file; unbounded faults |
| `PollingProofs`: `OneReaderPerInstanceHolds`, `ReadersHaveSinksHolds`, `SingleRunCompleteHolds`, `TypeCorrect` | versions of the configuration, number of starts and edits, service or single run |
| `Logstash2Proofs`: `ReturnedWasSentHolds`, `OnceOnTheWireHolds`, `TypeCorrect` | set of pollers, number of events and faults |
| `ElasticSinkProofs`: `ReturnedIsStoredHolds`, `CopiesHaveCauseHolds`, `TypeCorrect` | set of programs, events, index map and indexes, bound on faults |
| `FileSinksProofs`: `SavedKeptHolds`, `SampleFollowsHolds`, `WindowShownHolds`, `TypeCorrect` | set of readers with their events and blocks, period, retention, interval of samples, frames of the counter, bound on clock and faults |
| `EventPipelineProofs`: `BothValuesKeptHolds`, `NamedAsItWasHolds`, `OnlyWantedSentHolds`, `NothingLostHolds`, `ModsCommuteHolds`, `TypeCorrect` | configurations, paths, kinds of event, messages of the error log, databases, metadata and time zones of the server, numbers and texts that a conversion changes, bound on the clock |

### Readers

`NoGap` is the promise the whole program exists for: no event at or before the
position in the state file, or in its `.0` file, is still owed to a sink,
through every error return, crash, power failure, cancel, row limit, reset and
repair of the model. It is not inductive: it says nothing of the local
variables of a poll, and it is those that are saved. `IInv` of `XeSession` adds
`CursorInv`, which relates the variables to the place in the function (before
the first accepted row `last` is the position the poll started from, then it
never exceeds the row at hand, and where a block has ended it is strictly below
it), and `ReadInv`, which says what has been dealt with at each place: in the
loop, every event before the row at hand; in `write`, the row at hand for the
sinks already written; from the end of the loop on, everything through `last`.
The proof shows that what is dealt with stays so (`AccountedStable`: `handed`,
`passed` and `oldest` only grow), frames each action (`TargetFrame`,
`FileFrame`, `SinksFrame`, `PollFrame`) so that each part is only proved for the
actions that can disturb it, and takes the parts in turn: `TypeStep`,
`CursorStep`, `ReadStep`, `RegStep`, `GapStep`.

`RegInv` relates the file to the local variables: a save goes forward unless a
fault is counted. It is what the refinement needs: every step moves the cursor
of `DeliveryCursor` forward over events that are given, or back with a fault, or
leaves it alone (`CursorMoves`, `CursorCovered`). Between the rename and the
rewrite of `Done`, where the file is absent, the cursor is `last`. The two
properties of histories without faults have invariants of their own, which
would make no sense in `IInv`: `RiskInv` (what is pending belongs to the block
of `last` or lies behind it, and nothing is pending between polls at a good
position, nor in a poll before its first accepted row) and `OnceInv` (what was written lies before the row at hand and not behind the
position that is or gets saved). They use that a run without faults after a
step had none before it, since faults are only counted up.

`AgentJobs` has the same parts in `LoopInv` and `RegInv`; since its position is
saved row by row, `LoopInv` also says that a row in `save` has been handed over,
and that a rename finds `last` in the file. `OnePollAtRisk` needs `RiskInv`: a
row in hand lies beyond the poll's start, and a poll that took no row or has
flushed has nothing pending.

### State files

`PositionKept` says what a reader finds: `acked`, the value of the last sync, or
one of `tried`, whose lines were begun since, or, when the file ends in a cut
line, what `CutShort` leaves of one of them. To keep it through a power failure
`IInv` has to say what would be found after one. `FilesInv`: lines that are not
synced lie behind whole and cut lines only, and what was renamed is synced and
ends in a whole line. `CallInv`: what each place of `Save` and `Done` has in the
file, in the `.0` file and in hand. `AckedInv`: the last synced line and all
behind it are lines of `acked` and `tried`, whole or cut (`Recent`); while nothing
is synced the `.0` file has `acked` (`Holds`). `TakeOverInv` is about `SwitchV2`.
`PositionKept` follows (`Keeps`): what is read is the last line's, and a cut line
of two columns parses only as the first.

`Holds` is weaker than being readable: `GetOffset` accepts a cut line, `Save`
appends to it, the glued line has too many columns, and `Done` sets that file
aside. Its last line is whole and of the right value, but no program reads it;
somebody has to.

Most of the work is in lemmas on files: what part of a line may be left and how
it reads (`CutsOf`, `PiecesOf`, `ShortOf`, `ShortOfShort`), what an appended line
or part makes of a file (`Added`, `SpoiltIs`, `Lengthened`, `RecentGrown`) and what
a power failure may leave (`SurvivorsOf`, `FailureLeaves`, `RenameUndone`,
`TakeOverUndone`).

`RegisterHolds` is the refinement: every file operation is a step of
`PositionRegister` or leaves the register alone; a write cut short is its
`WritePart`. Its hypotheses are the two under which the code does what it says:
`ThreeColumns` (`Columns = {3}`, no line of the two-column format, also for
`PositionKeptHolds`) and, as for `NullFileHasSpareHolds`, `~NullLegacy` (no file of
zeros in the old directory). Points 5 and 9 of section 6 show what happens without
them; a file the program has written itself satisfies both.

### Life cycle

`OneReaderPerInstance` follows from `RegisterInv`: whoever is past `checkdupes`
and not left behind by a cancelled context has its instance in the set, and is
alone with it. That needs all of the rest. `status.Reset` empties the set, so
nobody may be reading then (`SinksInv`: a goroutine in a session whose context
is done is waited for); that `stopPolling` cannot miss one rests on the contexts
(`ContextInv`: all but the last are done, and the last is done before the next
is made); and these on the mutex (`CallInv`: the call that holds it is the one
its caller is in). `ReadersHaveSinks` is a part of the invariant itself.
`SingleRunInv` says which sources of a single run have been seen to, or are about
to be, at each turn of the launching loop.

### Logstash connection

`LineInv` says that the event of a `Write` that has not returned has gone whole
into no connection, and that nothing is on the wire or with the server that has
not: so a second attempt, after whatever failure, is never a second copy
(`InHandIsNew`), and `Returned` grows only by events that were sent.

### Elastic sink

`ReturnedIsStored` rests on `IndexInv`: a program that is at the list of indexes
or through with it finds every index it needs among those that exist, were
deleted, or are still on its list. For the order in which `CreateIndexes` goes
through the map the proof uses only that every name is on the list
(`SetToSeqsOnto`, `ListsComplete`). `ReturnedIsStoredHolds` has the hypothesis
`EveryEventHasIndex`: there is a `default_index`, or the map names every event, and
the program or the cluster creates the indexes. Otherwise the loss of section 7
occurs.

`CopiesHaveCause` counts: an error of `Write` ends the poll
(`process_session.go:315-320`), and the next one writes all events behind the
saved position again, also those whose answer of 200 was heard. `repeats` adds one
to an event for each fault after which it is written again although it may have
been stored: the answer that was lost, a poll that broke off, a kill. `DocsInv`:
an event has no more copies than that, and one more only if its `Write` has
returned and it is not to be written again. Each fault therefore costs at most
one copy, and only of events behind the saved position.

### Event files, sampler and counter

`SavedKept` has an exception for each way the code can lose an event whose
position is saved: the flush between two blocks comes after the save
(`flushed`, `lapsed`), a sync of any reader may fail and drop what others wrote
(`lapsed`), and a rotation that failed leaves events in an older file. `KeptInv`
extends the rest to the events of the running polls: each is safe, or its flush
has not come and it is held by the open handle, in the file of the period it was
written in. `ReaderInv` says which events those are at each place of a reader.
Steps of one reader leave the events of the others as they are because what
keeps them is a property of the Rotator alone (`KeptOn`, `AllKept`). `RotatorInv` says which file the handle is of: that
of the period the Rotator believes in, unless it failed in that very period, and
it is linked unless its file is old enough to be removed. The proof has one
lemma for each operation of the Rotator (`SyncOutcome`, `CloseHandleOutcome`,
`OpenOutcome`, `CleanOutcome`, `RotateOutcome`, `AppendOutcome`,
`WriteEventOutcome`): whatever an operation does before it fails, what is safe
stays so unless its file is old (`SafeStays`), and when it succeeds so does what
is held (`HeldStays`). The lemmas compose along `Then`, in the order of the calls
of `rotator.go`. That an old file holds nothing `SavedKept` asks for is
arithmetic of periods (`NotYetOld`). For the sampler, `SamplerInv` says that the
noted time of a name is that of its sample or of a failure.

For the counter, `CounterInv` says what each sample of a ring is: the number of
events counted in one interval, as many intervals back from the ring's own time
as its place in the ring (`Shows`). `ShiftedIs` carries this through a shift
of any length, and `TotalIs` adds the samples up to the events of the
window. The sum is recursive. The library's induction theorems take an operator
and cannot be used, so `SumsExist`, `SumsAre` and `AggregateCounts` reason about
the least place where the claim fails (`LeastNatural`, from the well-foundedness
of the natural numbers).

### The way of an event

`NothingLost` is carried by one lemma for each kind of entry (`AddKeeps`,
`CopyKeeps`, `MoveKeeps`): what an entry does not move stays as it is, and of what
it moves a remnant stays among the values of the record (`Remnant`: the same but
for conversions; the same altogether when no conversion changes it, `Robust`).
A value may be moved and copied many times, so both are shown to survive one
more step (`SurvivesKept`, `PresentKept`). They rest on what the operators of `Records` do to paths: `GraftedIs` (a value is at
its new path as well as at the old one, and two values never meet, `SamePath`)
and `StaysBelow` (what was moved is not deleted with what it was moved from,
unless an object is moved into itself). That a destination takes no scalar away
has to be kept as well: `RecordInv` says that no value lies above a destination,
and `GraftedClear` that what is grafted lies below one. `Harmless` is the
hypothesis of the property; `BelowScalar` of the run is a configuration for
which `NothingLost` does not hold without it.

`NamedAsItWas` compares three times: the event's, the poll's and that at which
the database was made, which the program takes to be `zone` later than it was.
East of UTC it only leaves names out; west of it the property has an exception for
events in the hours by which `create_date` is read too early. `SourceInv` has the database that owns the id: an event
that is not older than the database is from it. `InfoInv` carries this over to
the list the poll has read, through every drop, creation and renaming that
follows; an event recorded in the tick of the list is from a database of that
tick. `ParseNames` follows `Parse` from end to end and shows that only
`setDatabaseName` adds the name, behind its comparison.

`ParsedInv` keeps what the other properties need of `Parse`: from the filter on,
the event in hand is what `Parse` makes of the XML in hand. `BothValuesKept` is
then a fact about `Parse` alone (`ParseKeeps`), followed through its steps in the
code's order: a data field may only be put out of its place by a name that no
other step writes, and an action that meets a data field goes under `_action`.
`OnlyWantedSent` needs two things, what the settings are and that they were
asked. `SettingsAre` takes `start_at`, `look_back`, the excluded events and the
17830 flag through `setSourceDefaults`, the environment, `merge` and
`processLookback`, back to what the files say. `ParsedInv` has that a record that
is built passed the filter, and the number of an error is under `error_number`
whichever name the server used.

`ModsCommute` speaks of the end of the maps. `CommuteInv` says it of every step:
the record is what the entries that are done make of the event at once. One lemma
for each kind (`AddCommutes`, `CopyCommutes`, `MoveCommutes`) shows that one more
entry adds to the result of all at once exactly what it does to the record.
`Independent` is the hypothesis. Its last part came out of the proof: a copy and
a move from the same source to the same destination are not independent, though
their destinations are one place and not two. Whichever comes first makes the
other stop at a key that exists, and only one of them removes the source.

The assumptions, all checked by TLC on the run:

* `PathAssumption`: every name in the settings is one of a path, and two names are
  two paths. `ConfigAssumption`: a source has the fields of `Source`.
* `DatabaseNameAssumption`: no field gets the name `database_name` but by
  `setDatabaseName` or from the server.
* `FieldNamesAssumption` (`NamesApart`): the names of an event's fields and actions
  are apart from those that `Parse` itself gives: what it derives, what
  `parseErrorLogMessage` sets for the messages of the error log, and the names
  it forms with `_action` and `_timestamp`. The code checks none of this. An
  event with a field named `xe_category`, say, loses its value when `Parse`
  derives a category for it.
* `ErrorNumberAssumption`: the number of an `error_reported` is an `int64` to the
  server and has no text, which the filter's `GetInt64` depends on.

### Model-checked only

* Liveness (`EventuallyAccounted`, `EventuallyDelivered`, `EditTakesEffect`,
  `StopCompletes`, `WritesReturn`, `EventuallyOpen`) and the fairness it rests on,
  with `ENABLED`: outside what the prover can do.

Every safety invariant of the passing runs and the three refinements they check
are proved.

## 6. Where the code does otherwise than it says

Each of the first three has a run whose counterexample shows it.

1. **Reset mode skips new events** (`xesession_reset`, `process_session.go:132`).
   Rows are compared with `lastFileName`/`lastFileOffset`, which the loop moves
   on, rather than with the position the poll started from: of every block
   accepted in reset mode only the first event is written. `XeSession` models
   this as it is; the events are in `passed`, and `NoGap` counts them as given
   up.
2. **A sink that fails to close stops the polling** (`polling_closeerror`,
   `program.go:299`). `stopPolling` returns before `status.Reset`; after the
   reload every source is a duplicate of itself.
3. **A torn line takes the next one with it** (`logstash2_torn`,
   `ls2/write.go:55`). After a failed write the same connection is tried once
   more, and other pollers may use it before the lock is taken: what they send
   is read as the rest of a line that was cut.

More statements that do not hold have no run of their own; each can be seen by
adding the property to the run named:

4. `SourceValueWins` in `EventPipeline` with `Configs <- OverridingConfigs`:
   "The _source_ values override the _default_ values" (README.md:221), but
   `setSourceDefaults` (`config.go:352`) never copies `driver`, `odbc_driver`,
   `strip_crlf`, `log_bad_xml` and `include_dbghelpdll_msg` from the source. A
   `look_back` of a source that is longer than that of the defaults has no
   effect: the defaults' one is already a `start_at`, and the later date wins.
   A shorter one works (`OnlyWantedSent`).
5. `WholeLinesReadable` in `StateFile` with `Columns = {2, 3}`: `GetOffset`
   accepts a line of two columns, `Save` appends one of three, and the csv
   reader refuses the two together (`status.go:208`).
6. `EditTakesEffect` with `EarlyEdits = TRUE` in `PollingLive.cfg`: the watch is
   set after the file was read and the sinks were opened (`program.go:40-46`);
   a change in between is never seen.
7. `CancelEndsWrite` in `Logstash2`: the retry policy runs under
   `context.Background()` (`sink/logstash_sink.go`, `ls2/write.go:70`), so a
   cancelled poller stays in `Write` while the server is down, and
   `stopPolling` waits for it with the mutex held.
8. **Saved is not stored**: `CompletedIsStored` in `XeSession` and `AgentJobs`.
   The position is synced before the sinks are flushed (`process_session.go:147`,
   `process_agent.go:337`); a power failure in between loses events from a file
   sink. `OneBlockAtRisk` bounds the loss: in a history without faults, and
   without the passage through an invalid offset, it is at most the block the
   position names; in the job reader it is a poll (`OnePollAtRisk`). `FileSinks`
   has the same order: the events `SavedKept` exempts with `flushed` and `lapsed`.
   When the flush fails without a power failure, the poll ends and the position
   stays saved, too.
9. `NullFileHasSpare` with `NullLegacy = TRUE` in `StateFile.cfg`: `SwitchV2`
   moves an all-null file of the old directory and removes its `.0` file
   (`status.go:432`) before `checkNullFile` tells the operator to use it.
10. **A cut line is read as a position**: `PositionKept` in `StateFile` without
   its second disjunct. `GetOffset` has no way to see where a line ends
   (`status.go:199-222`): of `name, 1234, good` cut short in the only line of a
   file, which the rewrite of `Done` leaves on a full disk or at a power failure,
   it makes offset 12 and status `good`, and a status that was cut counts as
   `good`. Events are read again, or the offset does not exist and the session is
   read from the start. The next `Save` is glued to the cut line, and the poll
   after that refuses the file.
11. **Local time is taken for UTC**: `NamedAsItWas` without its last disjunct.
   `create_date` is in the server's time zone and is compared with the event's
   UTC time (`sqlinfo.go:309`, `xe.go:427`). The comment before it, "If the event
   is before the database was created, don't use this one", holds on servers at
   or east of UTC.
12. **Copies and moves change values**: `NothingLost` with equality in place of
   `Remnant`. `doubleSlashes(r.Value())` (`logstash_record.go:150`, `:167`) makes a
   float64 of every number: a `query_hash` above 2^53 loses its last digits, and
   with a move the original is deleted. Backslashes are doubled, although
   `sjson.Set` escapes them by itself: `SQL1\A` becomes `SQL1\\A` for its reader.

Smaller ones were met while reading and are in the models as the code has them:
`ProcessMods` ends without an error at the first key that exists, since
`errors.Wrapf(nil, ...)` is nil (`logstash_record.go:124`); the check that no key
is overwritten looks at the key itself only, and `sjson.Set` makes an object of
a scalar above it (`name.category` takes `name` away, `logstash_record.go:150`),
as a move of an object into itself takes the object away; a file whose `Close`
failed is never replaced by the rotator until a reload (`rotator.go:257`);
README.md:388 has the lower- and uppercase entries of a source processed after
the defaults, `config.go:448-449` puts them first; `ignore_sessions` in the
defaults has no effect, since only the source's own flag is looked at
(`config.go:379`). `NewSQLInfo` that fails after
its `Ping` returns without closing the database (`sqlinfo.go`), and
`process_source.go:52` cannot close it either: a pool is left open for every
such poll. Both the refusal of `SwitchV2` when the old and the new file
exist (`status.go:413`) and a port that stays taken after a failed stop
(`program.go:64`, outside the model) last until somebody intervenes.

## 7. What the models leave out

* **The readers**: filters, excluded events, `start_at` and unparsable XML are
  one set (`Dropped`) there; `EventPipeline` has the filters. XML that cannot
  be parsed is in neither: the row is skipped. The state file of the readers is
  the register's value, whole or unreadable. That a cut line may pass for a
  smaller position (section 6, point 10) is in `StateFile` only: the reader would
  read events again from there, or all of them, which the models have with other
  faults, and find the file unreadable after its next save, which they have too.
* **Time**: tickers and delays are nondeterministic; `coalesce` only hands on
  that something has changed. `Rotator` names files by a count of periods, not
  by local time: daylight saving and a clock that is set back are outside.
* **The network behind the sinks** as the readers see them: an event written to
  logstash or Elastic counts as taken. `Logstash2` models what can be lost
  after that: a line in a connection that breaks. The protocol has no
  acknowledgement, so nobody can notice. `ElasticSink` has what Elastic
  refuses: its answer per event is thrown away (`eshelper.go:148`). A program
  whose `default_index` is empty loses every event its map does not name in
  this way; the run has a default. The HTTP client is external.
* **The watch itself**: editors that replace a file, and what fsnotify makes of
  it; the HTTP server.
* **State files**: names and directories. File-system behaviour beyond synced
  prefixes, cut, torn or zeroed last lines and an undone rename; lines of event
  files are written whole or not at all.
* **Event parsing**: what is derived is in the event under its name, and its text
  is left out. `Described` gives every event a description and a category, where
  the code gives none when it finds none; it sets `login_failed` by the number of an
  `error_reported`, and neither that of a logon line of the error log nor the
  description of a state of 18456. `Enriched` always sets a domain, where the code
  asks whether there is one, and no availability groups and listeners. `ErrorLog`
  always finds a process and a message in a line, takes the numbers from a table
  (`MessageErrors`) and leaves the client address out. Units, deadlock reports and
  numbers that do not fit their type are not modelled. `NamesApart` keeps the
  names that `Parse` gives apart from those of fields, so that the properties do
  not depend on whether a derived field is there. An event recorded after the
  metadata was read may have the name of a later database (`NamedAsItWas` says
  so), and `zone` is one number: daylight saving is outside.
* **Records**: escaping of dotted names, arrays, a payload field that is also the
  timestamp field, `strip_crlf`. `conv` counts how often backslashes were doubled;
  the text itself is left out.
* **Configuration**: defaults of the sinks, ports, the syntax of durations and
  TOML itself.
* **Metrics**: gauges, histograms, Prometheus; a clock that is set back.

## 8. Plan

Done: state files with the take-over from the old directory, readers, sinks,
life cycle, logstash connection, Elastic sink, event files, sampler, counters,
and the way of an event from configuration to record. What is left:

| Module | Of | Worth stating |
| --- | --- | --- |
| `Coalesce` | `app/fsnotify.go:76-109` | a burst is handed over once, never dropped, and within a bounded number of ticks unless the reader of the channel is busy |
| gauges | `metric/metric.go:170-330` | minimum and maximum of a frame, as `WindowShown` for counters |
| sessions | `xe/session.go` | which sessions a poll skips, and why |
