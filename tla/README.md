# Verification project for minisforum-n5pro-fan-proxmox

The repository controls the fans of a Minisforum N5 Pro: an out-of-tree kernel
driver for the IT5571 embedded controller (EC), the validation tool n5-ectest,
a Go library shared with the (external) regulator n5-fangov, the archived Bash
regulator n5-fand, a Debian package, and measurement tools. Its central promise
is the same everywhere: **a fan channel that software has taken from the EC
comes back to the EC, or to a safe duty, whatever happens in between.** The
modules here model who takes a channel, who remembers it, and who puts it back.

All paths below are relative to `src/` (the repository).

## 1. Inventory

| Component | State | Operations | Hard behaviour | Correct when |
|---|---|---|---|---|
| EC driver, pwm half (`driver/upstream` + `driver/patches`) | cached duty and mode, `pwm_touched`, `pwm_unknown`, `dead`; module-wide mask `n5_unrestored` | sysfs read/write, probe, unbind, shutdown, module load/unload | callbacks against unbind and shutdown, timeouts with a late effect, partly written curves, restore that fails | a channel under host control is always noted somewhere; no mixed curve; cache true; no access after teardown |
| PMC2 handshake (`0005-timeout-budget.patch`) | resync flags, access deadline | poll, drain, send | late answers, budget shared over the steps of a command | a command never reads the answer of another; a callback ends within its budget |
| n5-ectest guardian, worker, restore (`ectest/cmd/n5-ectest`) | state file `restore.json`, bundle copy, writer lock | start, run, restore after death, `restore`, `--discard`, `--from` | death of either process at any point, file errors, writes given up but still in the driver | what is off its value is on record, the record is true, one writer at a time |
| Writer lock (`go/n5/writerlock`) | flock on `writer.lock` | acquire, adopt, release, verify | inherited descriptor, lock file replaced | mutual exclusion over processes |
| pwm writer (`ectest/internal/pwmw`) | device identity | write with timeout, restore to a value | abandoned writes, device reloaded | no write to another device than the one examined |
| Runner (`ectest/internal/runner`) | plan, samples, gates, touched channels, hot channel, bad samples per sensor | T1, T2/T3, gate window, hold, Close, bundle files | abort in any sample, overrunning samples, signals and panics, lost sensors | nothing is written after a reason to stop; holds are complete; every touched channel is restored, the hot one raised |
| Restore values (`runner/restorevals.go`) | – | decide value per channel | sources that disagree | never a value that leaves a channel unprotected |
| Foreign-writer check (`ectest/internal/regulator`) | expected values | before / after own write, diff, refresh | foreign write between read and own write | a foreign write is reported, an own one is not |
| Evaluation (`ectest/internal/spec`) | – | verdicts from samples | boundaries, missing samples | equals its reference definition |
| Report, recompute (`ectest/internal/report`) | – | verdicts from a bundle | bundles of aborted and killed runs | recomputed verdict = recorded verdict; a clean report only of a closed bundle |
| Logger (`ectest/internal/logger`) | episodes, cursors, pending alerts, outbox, state file, events and samples | sample, check, mail, restart, finish | crash between row, event, save and mail; cooldown; full queue, mail and outbox | every log line, reboot, gap and stall is on record, every line in a mail unless a limit left it out, over all restarts |
| Outside check, annotations (`logger/events.go`, `cmd/n5-ectest/log.go`) | `check.json`, `annotations.txt` | check, mail, annotate | two checks at once, a check killed, an annotation against the end of the run | one mail per kind and hour, no false alarm |
| Bundle (`ectest/internal/bundle`) | event and sample logs, `SHA256SUMS` | append, write, finish, verify | events after finish, several summers | a finished bundle is complete and its checksums fit |
| Session, boards, gates | session file | open, close, refuse | stale session | no write without an open session |
| Snapshot, identify, hardware readers | – | read and render | – | I/O and layout, not modelled |
| Legacy regulator n5-fand (`legacy/`) | CUR, MODE, stall counters, override files, `/run/n5-fand` | cycle, stop handler, ExecStopPost hook, CLI | believed against real duty, module reload, kill between writes | emergency gives 255, any end is safe, falls slowly |
| Maintainer scripts (`packaging/debian`) | record of stopped regulators | prerm, postinst in all dpkg modes | interrupted upgrade, failed build | a regulator that ran before runs after, or is recorded |
| F8 tools (`tools/f8a`) | writer lock, watcher | load, snapshot, restore | watcher against writer | restore exactly once, by whoever is left |
| Validation watch (`tools/validation-watch`) | journal cursor, alert state | K1–K7, alerts | kill between cursor and evaluation | no hit lost or repeated |
| Manual scripts, deploy, build, sim/fake, data | – | one-shot | – | not modelled |

Interaction: n5-ectest, n5-fangov and (without the lock) n5-fand write through
sysfs to the driver, which serializes with `data->lock` and talks to the EC.
The writer lock excludes n5-ectest and n5-fangov from each other. systemd runs
n5-fand and its failsafe hook; dpkg stops and restarts the regulators around a
driver upgrade. The hazards of each part, at their lines, are in PROJECT.json.

## 2. Modules

| Module | Models | Extends |
|---|---|---|
| `N5Ownership` | abstract specification: held channels and claims | – |
| `N5Driver` | driver, module, EC; implements `N5Ownership` | – |
| `N5DriverProofs` | proofs about `N5Driver` | `N5Driver` |
| `N5WriterLock` | the lock file: path, files, descriptors, `Verify` | – |
| `N5Writers` | two runs, other writers, the foreign-writer check | `N5WriterLock` |
| `N5WritersProofs` | proofs about `N5Writers` | `N5Writers` |
| `N5Guardian` | guardian, worker, restore command, lock, state file, driver queue, n5-fangov as a lock holder, restore values | – |
| `N5GuardianProofs` | proofs about `N5Guardian` | `N5Guardian` |
| `N5Runner` | one run of `map` or `handback` as its worker does it, with its bundle | – |
| `N5RunnerProofs` | proofs about `N5Runner` | `N5Runner` |
| `N5Recompute` | `report`: the verdicts of that bundle, recomputed | `N5Runner` |
| `N5RecomputeProofs` | proofs about `N5Recompute` | `N5Recompute`, `N5RunnerProofs` |
| `N5Logger` | long-term logger, its state file, events, mails and outbox, its unit | – |
| `N5LoggerProofs` | proofs about `N5Logger` | `N5Logger` |
| `N5Check` | around a log run: outside check, annotations, `SHA256SUMS` | – |
| `N5CheckProofs` | proofs about `N5Check` | `N5Check` |
| `N5Fand` | legacy loop, unit, stop handler and hook | – |
| `N5FandProofs` | proofs about `N5Fand` | `N5Fand` |
| `MCN5…` | instances for TLC, one per module that is run | |

How they fit together: `N5Driver` is the lowest layer; the other modules see of
it what its sysfs files show. `N5Writers` answers the question that `N5Runner`
takes as an input of a sample (odd thing `"writer"`); `N5Runner` is the worker
whose outside is in `N5Guardian` (there a test is a loop of write and sample;
here the guardian is one action, `Aftermath`); `N5Check` keeps the logger to what
others see of `N5Logger`.

Common conventions: definitions have the names of the code; "Seeded fault"
definitions are plausible mistakes, stand before the definition they would
replace and are used by nothing; history variables are named as such and occur
only in properties (and in the bounds).

### N5Driver and N5Ownership

Variables carry the driver's names (`pwm`, `enable`, `touched`, `unknown`,
`unrestored`, `dead`). `phase` is the life of the module and its binding,
`active` the threads with a kernfs reference, `cmd` the command that holds
`data->lock`, `todo` what is left of the restore or shutdown loop. One action
per step of a command (`StepDone`, `CommandDone`, `StepTimesOut`), because each
is one EC transaction and each may time out. The EC has, per channel, the curve
points written (`staged`) and the curve in force (`out`). A step that timed out
may sit in `late` and take effect at any moment until the EC accepts the next
one; `n5_sync` does not begin a transaction before. Probe may fail after the
restore action is registered and then runs it (phase `teardown` directly).
The history variables `lost` (the mark of a channel went away with the memory it
was kept in, after an error that was logged) and `failed` (last EC write of the
channel failed) only occur in properties.

`N5Ownership` says what the driver owes the board: no channel becomes held that
is not claimed, no claim of a held channel is dropped. `Held` is every channel
whose curve is neither the EC's own nor the safe duty, or that a late command
may change; `Claims` is `touched ∪ unrestored ∪ lost`. `OwnershipKept` is the
refinement.

Left out: temperature, tachometer and debugfs reads (they take the same lock and
change nothing modelled), jiffies and the resync delay, a kernel that dies with
the driver bound (`PowerOff` needs the driver dead or unbound). `PowerOff`, the
kernfs references and the EC are external and modelled from how the driver and
the README describe and use them.

### N5WriterLock and N5Writers

`entry` is the file at the path of the lock, `fd` and `held` what each process
has open and locked; files are numbered as they are created, so a deleted file
that somebody still holds differs from the one made anew. `OpenLock` and `Flock`
are the two halves of `Acquire`: between them the path may be removed.

A run takes the lock, verifies it, records the values it starts from (`exp`, the
`Expectation`), and then writes and samples in any order. A write is two steps:
`WriteBegins` (the value is expected) and `WriteDone` or `WriteFails` (the driver
answered, refused, or was given up and may still do it, `late`). `Sample` is the
check of a sample: a known regulator (`reg`), the lock (`Verified`), the values
(`Diff`). Everybody else may write, unload, load, start a regulator or delete the
lock directory between any two steps. `own` is what the cache would be if only
the run had written, `pass` the run whose sample has just passed.

### N5Guardian

One variable per piece of state of the three processes (`gpc`/`job` guardian and
restore, `wpc` and the runner's fields for the worker), `lock` for the holder of
the open file description, `file` for `restore.json`, `bundle` for its copy,
`chan` for what the driver made of a channel. The driver is a FIFO (`queue`):
its `mutex_lock` is not interruptible, so a write whose caller gave up or was
killed keeps its place and its effect (that nobody overtakes is an assumption, see
7). For the same reason a process is gone,
and its descriptor closed, only when none of its writes is in the driver.
Values are abstracted to what the properties tell apart: `auto`, `full` (255),
`stop` (another restore duty), `test`, `unknown` after a failed command, `gov`
while n5-fangov rules, `handed` when the driver handed back at an unload. The
values restored come from the command line and the configuration of n5-fangov
as `ResolveRestore` and `ParseRestoreArg` decide it (`Args`, `ConfigFile`,
`Stops`: here a value that cannot be used, one below the minimum, a good one).
`Close()` is called three times by the code (after the test, at the end of the
body, in the deferred function) and so are the three passes here; before the
last one the bundle gets its copy, still marked active. A run that never wrote
marks its file restored as well. The file of an older version that names `auto`
for pwm4 is one of the initial states.

### N5Runner and N5Recompute

A test is a `plan`: a sequence of commands, holds and marks, consumed from its
head; `GatePlan`, `T1Plan` and `T2Plan` are the sequences the code goes through.
A hold is a series of samples with due times (`slot`, `t0`), of which some may be
missed because one overran. What a sample shows is the set of odd things in it;
`Finding` is the order of the checks in `sampleAt`, `Counted` the count of bad
samples per sensor. `stop()` clears the plan, or leaves the gates to be recorded.
The end is `TestEnds`, the passes of `Restore` (one answer per channel: ok, value
differs, failed), `Closed`, `WriteMeta`, `WriteVerdict`, `Finish`. Ctrl-C, a kill and
a panic may come at any step; the guardian's line in the bundle of a killed run
is `Aftermath`. `samples`, `events`, `meta`, `verdict` and `sums` are the files of
the bundle. Evaluations of series (T1, T2) are not computed: a verdict *is* the
data it is made from, so that two verdicts are equal exactly when the evaluation
is called with the same data. `EvalG4`, G3 and the choice of A are computed.

`N5Recompute` adds `report`: it builds the same data from the rows and events and
compares. Its properties hold at every moment, because a report may be asked for
while the run goes on or after it was killed.

### N5Logger

`st` is the State of the running process, `file` is `state.json`, `events` and
`row` are what has been appended to `events.log` and `samples.csv` (at once, not
with the state). `pc` walks through one pass of `Run`: `top` (the row of a sample
is written), `sampled` (its events), `check` (the logs are read), `checked` (the
events, then the state), `flush`, `alerts`, `daily`, `save`, `sleep`. The criteria
that a sample or a check hit are in `todo`, and `Record` writes one at a time: a
death may come between a row and its events and between any two of them. What
`sample` and `check` have changed of the State by then is in memory only, which a
death takes in any case, so it does not matter that the code changes it event by
event. Time is `clock`, in sample intervals, and goes on in `Sleep` and while the
logger is down. The criteria of a sample come in four forms, and there is one of
each: changed value (boot id), gap, count of bad samples in a row (a standing
fan), episode (a temperature). The log is one sequence of lines of the kernel and
of n5-fangov, read through the two cursors; `Position` and `Unread` say what a read
returns from the journal and from `/dev/kmsg`, which numbers anew after a boot.

A hit has the log lines it is about and its lines of text in a mail, each of which
quotes or counts some of them: two lines for a hit of K1, one for all those beyond
`K1Max`, for n5-fangov one with the number and the last `EvidenceMax` lines. A key
whose queue has `PendingMax` lines takes no more, a mail has the last `MailMax` of
the queue, and the queue is emptied with the mail. `told` and `binned` are the log
lines in mails that went out and that a full outbox dropped, `cut` those that a
full queue or a full mail left out. `ZeroRun` is cut off at 3, it is only compared
with 2.

### N5Check

Four kinds of process share the run directory without a lock: the logger's end,
annotations, the check of the timer and the check of the failure unit. Files are
replaced whole or get one more line, and a step of the model is one such access.
`check[k]` is the program counter and the local variables of a check: the state is
read (`LoadState`), `check.json` is read and the mails decided (`Decide`), a mail
is tried (`SendMail`), `check.json` is replaced with what was read plus the mail
(`WriteCheck`). `hash` holds what a summer has hashed so far. `told`, `torn` and
`crossed` are history: what mails were tried, whether `check.json` may be behind
them, whether a file was written after somebody had hashed it.

### N5Fand

A cycle is `Sense` (all computation up to the wanted duties, with the arithmetic
of `curve` and `slew`), `ApplyNext` per channel, `EndApply`, and `FullNext` for
`failsafe_all`. `cur` is what the daemon believes, `out` what the channel runs
on. `fan` is `$FAN`, `here` the driver's present hwmon directory; a write works
only while they agree. Temperatures and tachometers are arbitrary in every
cycle; a tachometer without the driver reads -1. `WRERR` is cut off at 2, the
only value it is compared with, and `n` counts on from 1 after `Resolve`.
The frozen-sensor rule is part of `SensorFault`. The configuration parser is
represented by what it guarantees (`FandAssumption`).

## 3. Runs

| Run | Question | Bounds | Result |
|---|---|---|---|
| `driver_safety` | is a channel ever forgotten, a curve mixed, the cache false, a failed restore not retried, a duty lowered unasked? | channels 1–3, one thread, duties 0 and 255, `FewErrors` | holds |
| `driver_live` | does anything write after teardown or shutdown began; does unbind end; does the driver implement `N5Ownership`? | channel 3, two threads, any number of errors | holds |
| `guardian_safety` | is everything off its value on record, is there one writer, is the mark true, is an open file overwritten, a raised channel lowered? | channels 1, 3, 4, three faults of any kind, one run | holds |
| `guardian_ends` | does a worker always end; is an open file closed when guardians live and driver and disk obey? | channels 1, 3, two faults of any kind | holds |
| `guardian_raised` | does a raised channel stay raised when files cannot be written? | two failing file writes | **violated**, see 6 |
| `writers` | does a sample pass over a value that is not the run's; is anyone blamed for the run's own; do two runs pass side by side? | two runs, two lock files, one channel, duties 140 and 255 | holds |
| `report` | when does a run write; when is a sensor lost; are holds complete; is a clean report always that of a closed bundle, and the report of a finished run always clean? | `map` and `handback`, channels 3 and 4, three odd things | holds |
| `logger_record` | is a log line ever lost to the record, or to the mails but by their limits; is every reboot and gap reported with the row that shows it or the next; is the last check made; does the run end? | runs of 3 intervals, 2 log lines, outbox of 1, mails of one line, queues of two, any two faults | holds |
| `logger_stall` | is a standing fan reported? | runs of 7 samples, standing five times, one death | **violated**, see 6 |
| `check` | one mail per kind and hour; no false alarm; do the checksums of a finished run fit? | 8 periods, cooldown 2, two annotations, one death | holds |
| `fand` | does an emergency reach the channel in time; what do a sensor fault and an end leave; does a duty fall slowly; is a reloaded driver found? | channel 3, all disturbances, three temperatures | holds |
| `fand_at_once` | is 255 written in the cycle that finds the emergency? | no disturbance at all | **violated**, see 6 |

Why the bounds are enough:

- *Curve points.* CPU and PCIe have four registers; the model uses two, which is
  the least that separates "none", "some" and "all written". The proofs are for
  any number.
- *Duties 0 and 255.* The lowest and the safe one; the driver does not compute
  with duties. The proofs are for any set.
- *Channels.* 1 (SSD, EC automatic everywhere), 2 (HDD, full speed at shutdown
  only) and 3 (PCIe, full speed everywhere) are the three classes of the driver;
  CPU differs from SSD by the number of curve points only. In the tools pwm4 is
  the PCIe channel, the one that is never tested by `handback`.
- *Threads.* All sysfs writes of one channel or of several go through one lock; a
  second thread adds a second waiter, which matters at teardown and shutdown
  (`driver_live`).
- *`FewErrors`.* At most one channel at a time among failed, unrestored and
  lost: a bound on states, not on error sequences, since errors clear and come
  again. `driver_live` has no such bound, the proofs neither.
- *`MaxFaults`, `MaxRuns` (guardian).* Three faults let each of worker, guardian
  and restore command fail once in a chain. A file of an earlier run is among the
  initial states, so one run is enough for it to meet a later one.
- *Writers.* Two lock files are what it takes for a second run to begin while the
  first one holds a deleted file; two duties make own and foreign values differ,
  255 being the one the driver itself sets. The proofs are for any number of runs,
  files, channels and duties.
- *Report.* Two steps of T1, two repetitions of T2 with both sub-runs, holds of two
  samples (a missed one and a last one), three consecutive samples to lose a
  sensor, and `MaxOdd` 3, which is what a lost sensor takes. A failed gate, a
  missed sample, a failed file, a signal or a death costs one each.
- *Logger.* A check every second interval, a daily mail and a cooldown of two, one
  K1 line per run, one mail in the outbox, one line of text in a mail, two in a
  queue, one quoted line of n5-fangov: with two lines and three intervals each
  limit is met and passed, there are passes with and without a check, and alerts
  that wait (2,085,012 states; the real limits are 300, 40, 200 and 50). Two faults are what a lost line takes (a failure and a
  death, or two deaths). A pass that hangs longer than `GapMax` is an outage of the
  logger, which `Wait` provides; `MaxSlow` is 1.
- *Check.* The clock begins at `Cooldown + 1` (an epoch, not 0); eight periods pass
  the cooldown of two several times; the period is longer than a check lives
  (`TimeoutStartSec`), so time stands still while one runs, but the check of the
  failure unit may overlap the timer's at every step.
- *`Refresh` 2 and `Resolve` 4 (3 and 6)* instead of 6 and 60: the loop compares
  counters by remainder only; there are cycles without refresh, with refresh
  and with resolve. The proofs are for any.
- *Duties of n5-fand.* Curve 85…255 with steps of 85 and an override of 100, so
  that a slope takes several cycles and passes values off the grid; 40, 80 and 90
  are below the curve, at its top and critical.

Deadlock is not checked where the system stops: a logger's run, a test run and a
log run come to an end after which nothing happens.

## 4. Fairness

- *Driver.* Every poll of the driver is bounded (`n5_wait_status`, the access
  budget), the holder of `data->lock` runs to its end, `devres` carries on by
  itself: weak fairness on the transaction, the callbacks' return and the steps
  of teardown and of the loops. No fairness on the EC, on user threads or on
  anything that begins an operation. A transaction that always times out is
  therefore allowed, and unbind still ends.
- *Guardian.* Processes and driver keep going unless killed: weak fairness per
  process. Strong fairness on `TestDone`, because a test has a fixed number of
  steps, which the model abstracts to a loop of sample and write.
- *n5-fand.* The watchdog (`WatchdogSec=60`) ends a loop that hangs; a loop that
  runs goes through its cycle. Nothing about how long a module stays away.
- *Logger.* The process runs: reads, mails and saves have timeouts, and the
  watchdog (`WatchdogSec=180`) ends a pass that hangs, which is a death. systemd
  starts the unit again after a failure (`Restart=on-failure`) and after a boot,
  not after a stop: weak fairness on the loop and on starts other than from
  `stopped`. Deaths are bounded by `MaxFaults`; the unit gives up after ten
  starts an hour.
- `N5Writers`, `N5Runner`, `N5Check`: safety only, no fairness.

## 5. Proofs

Every constant is arbitrary within the module's named assumption.

**`N5DriverProofs`** (`DriverAssumption`: a subset of the four channels, any
number of curve points, any set of duties that contains 255, any threads):

| Theorem | States |
|---|---|
| `TypeCorrect` | `Spec => []TypeOK` |
| `Invariance` | `Spec => []IInv` |
| `ChannelsNotForgotten` | `Spec => []NoForgottenChannel` |
| `CurvesNotMixed` | `Spec => []NoMixedCurve` |
| `DeadIsDead` | `Spec => []NoAccessWhenDead` |
| `RestoreIsRetried` | `Spec => []UnrestoredIsRetried` |
| `CacheIsTrue` | `Spec => []CacheTruth` |
| `LoweringIsRequested` | `Spec => LowerOnlyOnRequest` |
| `ImplementsOwnership` | `Spec => OwnershipKept` |

`NoForgottenChannel` is not inductive: that the last step of a hand-back may
drop a mark depends on which command is running (`Plan`), that no command runs
without a mark and no visited channel is left unnoted (`Marks`), that callbacks,
restore and shutdown exclude each other (`Places`), and that the points written
so far are the ones asked for (`Progress`). `IInv` is their conjunction with the
types, `NoForgottenChannel` and `NoMixedCurve`. The cache needs one fact more,
that a late step belongs to a channel whose cache is in doubt (`CacheInv`).
The refinement goes through the actions: beginning a command is a `Claim`, a
step of the EC `Seize` or `Release`, a boot `PowerCycle`, everything else
stutters.

**`N5WritersProofs`** (`WritersAssumption`: any runs, lock files, channels, any
duties up to 255 that contain it):

| Theorem | States |
|---|---|
| `Invariance` | `Spec => []IInv` |
| `OnlyOwnValuesPass` | `Spec => []PassIsOwn` |
| `NoFalseBlame` | `Spec => []NeverBlamed` |
| `OneRunAtATime` | `Spec => []OneRunPasses` |

`PassIsOwn` says of one state what depends on the whole run: that the expectation
of a running run is exactly what its own writes did, plus the one in progress
(`Expecting`; this is where a failed write must end the run, because what is read
after it may be anyone's). `NeverBlamed` needs the converse, that with nothing
disturbed the cache is what the run's writes made (`Undisturbed`).
`OneRunPasses` rests on the numbers of the files (`Locking`): a run that was
overtaken has a file that is not at the path and never will be again.

**`N5FandProofs`** (`FandAssumption`: any channels with their curves, any step
widths, stall limit and periods, any temperatures, tachometers and overrides, all
disturbances):

| Theorem | States |
|---|---|
| `Invariance` | `Spec => []IInv` |
| `TypeCorrect` | `Spec => []TypeOK` |
| `EmergencyWaitsLessThanRefresh` | `Spec => []EmergencySoon` |
| `SensorFaultWritesAll` | `Spec => []SensorFaultIsFull` |
| `StopIsSafe` | `Spec => []StoppedSafe` |
| `WayDownIsLimited` | `Spec => LowersSlowly` |

The inductive invariant says what a cycle knows: a channel has waited no longer
than there were cycles since the last refresh (`Waiting`, the arithmetic of the
remainders), a refresh and `failsafe_all` leave nobody out (`Trying`, `Filling`),
the daemon never believes a channel to be below what it runs on except one whose
last write failed or that somebody else wrote (`Believing`), and what it wants is
at most one step below what it believes (`Lowering`). `LowersSlowly` follows from
the last two.

**`N5CheckProofs`** (`CheckAssumption`: any gap and cooldown, any number of
annotations; the bounds on time and deaths are used nowhere):

| Theorem | States |
|---|---|
| `Invariance` | `Spec => []IInv` |
| `NoFalseAlarms` | `Spec => []NoFalseAlarm` |
| `SumsAlwaysHold` | `Spec => []SumsHold` |
| `MailsOncePerHour` | `Spec => OncePerHour` |

Each property has its part of the invariant. `Rows`: what a check knows of the
rows is not older than its beginning. `Mails`: `check.json` is never ahead of the
mails that were tried, nor is what a check has read of it, and it is level with
them for each check that is not just writing, unless it was torn; that the two
checks send mails of different kinds is what makes this inductive. `Summing`: a
list being made agrees with the files so far, a list that does not fit is about
to be made again by an annotation, and the logger does not sum once there is a
list.

**`N5GuardianProofs`** (`GuardianAssumption`: any channels, command line and
configuration, any kinds and any number of faults, any number of runs):

| Theorem | States |
|---|---|
| `Invariance` | `Spec => []IInv` |
| `TypeCorrect` | `Spec => []TypeOK` |
| `NeverTwoWriters` | `Spec => []OneWriter` |
| `NothingIsForgotten` | `Spec => []OffDutyIsRecorded` |
| `FileIsKept` | `Spec => OpenFileKept` |
| `MarkIsEarned` | `Spec => MarkIsTrue` |

The argument goes bottom up. *Locking*: the lock has one holder, and a worker
that outlives its guardian keeps it. *Kept*: hence who works from the state file
has the one on the disk. *Queueing*: the driver serves in order, so an answer
belongs to the request the process waits for, and a request that was given up has
its effect before any later one. *Closing*, *Restoration* and *Settling*: a channel
that was visited and answered is settled (at its value, with nothing under way),
and every step that is not an operation of the lock's holder on this channel
spares it (lemma `Sparing`); a channel not yet visited is on the list. *Recording*:
hence a channel off its value is in the open file. `OffDutyIsRecorded` alone is not
inductive, since a mark may be set only when the lists are empty, and the lists
say something only as long as the file read at their making is the file on the
disk. `IInv` is the conjunction of these parts with the types (`Control`, `Files`,
`Driver`).

**`N5LoggerProofs`** (`LoggerAssumption`: any limits of the gap, K1, the queues, the
mails and the outbox, any period, either source of lines, logs of any length, all
deaths, stalls, reboots and failures):

| Theorem | States |
|---|---|
| `Invariance` | `Spec => []IInv` |
| `TypeCorrect` | `Spec => []TypeOK` |
| `HitsAreKept` | `Spec => []HitsKept` |
| `HitsAreMailed` | `Spec => []HitsMailed` |
| `RunsEndChecked` | `Spec => []FinalCheck` |
| `BreaksAreReported` | `Spec => []BreaksReported` |

The logger has its state twice, in memory and on the disk, and a death makes the
second the first. The invariant therefore says the same of both, of the one in
memory together with the hits still to be recorded (`todo`), of the one on the disk
with none, as a restart has none. A line that no read from this state will return
again (`Taken`) is in such a hit, or in the events and either outside (in a mail, or
left out by a limit) or pending in this very state (`Reading`); a run it calls
finished has every line from before its end (`Ended`). For `BreaksReported`: a boot
the state has is told of by a K2 in the events or in `todo` (`BootTold`), a gap that
the last row shows by a K5, or the state is so old that the next sample sees it
again (`GapSeen`); once `todo` is empty only the events are left. A load then
preserves all of it, a save copies it, and the work is in the check (`LinesRead`,
`HitsRead`): which lines a cursor passes over, that every line read is in a hit and
every hit quotes or counts its lines (`K1Hits`, `FangovHits`), and that the cut of a
window by time and the cursor agree. `Phases` says in which places of a pass all
lines are known, which is what lets a run be called finished.

**`N5RunnerProofs`** (`RunnerAssumption`: any tests, channels and duties of T1,
any number of repetitions, any lengths of the holds, any sensors and limit of
missing values, all odd things in any number):

| Theorem | States |
|---|---|
| `Invariance` | `Spec => []IInv` |
| `LostMeansInARow` | `Spec => []LostInARow` |
| `HoldsAreWhole` | `Spec => []LastSlotSampled` |
| `CommandsAreAllowed` | `Spec => WritesAllowed` |

*Order.* `Progress` follows a test along its plan: every hold before the next step
is complete, the one in progress has its samples before `slot`, those after it
have none. It needs that no two holds of a plan fill the same phase, which is
proved of `T1Plan` and `T2Plan` for any duties and repetitions (lemma `FullIs`;
this is where the duties of T1 must differ), and the length of plans made by
`InTurn` with its remainders. *Counts.* `LostInARow` and `WritesAllowed` need the
count of a sensor from both sides: it is never higher than the samples in a row
without the value (`CountIsTrue`), so that nothing is called lost too early, and
never lower (`CountIsWhole`), so that nothing is sent after a loss. *Before.*
`Before`, `AtGates` and `Started` carry what the gates said to the commands, and
`NothingFound` that a run not aborted has seen nothing that ends it.

**`N5RecomputeProofs`** (the same assumption):

| Theorem | States |
|---|---|
| `CleanIsClosed` | `Spec => []CleanMeansFinished` |
| `FinishedAgrees` | `Spec => []FinishedIsClean` |

The runner makes its result from what it collected, the report from the files;
`FinishedAgrees` says that both come to the same, for T1 and T2, aborted or not.
Its invariant `RInv`, with that of the run (`Invariance` of `N5RunnerProofs`), is
inductive; it relates the two sources at every step of a plan:

- *Samples.* `Mirror`: for each phase the rows of the file are the collected
  samples, in number, order and what was odd about them. The times are not in it:
  the runner counts them from its own `t0`, the report from a line of the log.
- *T1.* `T1Lines`: of each duty there is one line of its write once its step was
  sent and none before, the samples of its phase have their times from that line,
  and while they are taken its time is `t0`. The line of the end is in the log
  exactly when the plan was done without an abort. That a duty occurs once is what
  makes the first line of its write the right one.
- *T2.* `T2Value`: A is known after its step if a sample of it was readable, and
  without it there are neither marks nor sub-runs. `T2Lines`: the lines of the
  sub-runs (`AutoLines`) and the evaluated sub-runs are the first ones of the plan, in
  order; a test that is over has as many of one as of the other, also when an abort
  cut off a log, and one on its way has as many as its place says (`Within`: from
  the mark to the end of the log there is one line more). This is the hazard of
  an abort between the return to automatic and its line: then neither the runner
  nor the report has the sub-run.
- *Gates.* `Way` and `GatesTrue`: the window gates are made from the rows of the
  window, which is there whenever they are compared.
- *End.* `Agrees`: the lines that restores and the guardian add are none that the
  report reads (`OverStep`, `QuietLines`, `GuardianLine`). `Files`: the verdict is the
  result of the test and stays so, and who has written the checksums.

Where a step of the plan is follows by arithmetic from the length of the parts
(`T1Positions`, `T2Positions`, `SubPositions`); what `Those` returns of a sequence
with one more element (`PickedMore`) takes the place of induction over the log.

What a recursive definition computes for every input cannot be proved here. The
models are written so that little hangs on that: `Ordered` and `Those` (the
elements of a sequence that have some property, in order) are defined without
recursion, and what they return is proved by the least number of a set
(`LeastNumber`, from the well-foundedness of `<`), which takes the place of
induction.

Only model-checked: the liveness properties (fairness and ENABLED are beyond the
proof system) and `RaisedStays` of `N5Guardian`.

## 6. What the checks found

- `guardian_raised`: with a state directory that takes no more writes, a channel
  that the temperature abort has raised to 255 is put back to its restore value
  by the guardian, because the state file still names the old value and is
  still active (`validate.go` `BeforeHot` and the mark ignore the error,
  `runner.go` raises in any case). The comment above `BeforeHot` says this must
  not happen. With a file system that works the property holds
  (`RaisedStays`).
- `fand_at_once`: n5-fand stores `CUR=255` when it finds a channel critical or
  its fan standing; the write step compares with that value and so writes only
  in the next cycle with `n % 6 == 0`. BETRIEB.md promises 255 at once. What
  holds instead is `EmergencySoon`.
- `logger_stall`: the event for a standing fan is raised in the sample in which
  the count becomes 2, and the count is kept in `state.json`. If the fan turns
  again and the logger dies after that sample's row and before its state, the
  next stall counts on from 2 and is never reported, however long it lasts.
  TESTSPEC.md (K4) promises the event for two consecutive samples.

Also seen, without a run:

- n5-fand's count of failed writes starts anew in every cycle that had nothing to
  write (`legacy/n5-fand:283`), so with a steady temperature an unloaded module
  raises no alarm; `docs/BETRIEB.md:124` lists one for write errors.
- `ectest/README.md` says that after a module reload restore refuses because the
  device differs; the identity is name, path and `srcversion`, so a reload of
  the same build is accepted.
- The number of an event is counted in memory and saved with the state, its line
  is written at once: after a death in between, the same number is given to
  another event, and `log annotate --event N` explains both.
- Without any fault a hit may reach no mail: a mail has the last 50 lines pending
  for a criterion (25 hits of K1), then all pending ones are deleted, and a queue of
  200 lines takes no more. The mail says "at most 50 lines"; TESTSPEC.md says of F8b
  that every hit is mailed. Nothing in a mail tells how many are missing;
  `events.log` has them all. `HitsMailed` excepts them (`cut`).
- Two reboots, the second after the row that shows the first one but before its
  event, become one K2, from the boot last saved to the newest. If the row was the last of
  the run, the resumed run takes no further sample, and its reboot or gap is in
  `samples.csv` only; `BreaksReported` therefore speaks of states that count the
  row as seen.
- The journal of n5-fangov, unreadable while there is no cursor, leaves lines
  unread without a K8 event; with `/dev/kmsg` the cursor of the boot before
  hides the first lines after a reboot. Both are named in `KnownHole`, which
  excepts them from `HitsKept`, `HitsMailed` and `FinalCheck`.
- Alerts that are within their cooldown when the run ends are never mailed (the
  final mail has their counts).
- A death between the saved end of a run and `WriteSums` leaves a finished bundle
  without `SHA256SUMS`; the next start only says that the run is finished.
- The outside check of a run that has no `state.json` ends before it looks at
  anything: neither the mail for a gap nor the one for a failure goes out, which
  matters when the logger dies in its first seconds.
- `check.json` and `SHA256SUMS` are read, then replaced, by several processes
  without a lock. The outcomes are the exceptions in `OncePerHour` (`torn`) and
  `SumsHold` (`crossed`); without them neither property holds.
- A worker killed between `verdict.json` and `Finish` leaves a bundle that the
  guardian completes with its own line and new checksums: the report of it is
  clean. `CleanMeansFinished` names the case (`guarded`).
- Overlapping DOWN annotations are counted twice by the coverage.

## 7. Not modelled, and why

- *PMC2 handshake.* The polls of IBF and OBF, the drain and the resync inside one
  transaction run on jiffies and port reads. `N5Driver` has the transaction as
  one step that succeeds, fails or takes effect late, which is what the rest of
  the driver relies on; its inside needs a timing of the EC that the source does
  not give.
- *Append failures.* `bundle.Event` and `bundle.Sample` ignore a failed write; a
  bundle with missing lines is not modelled in `N5Runner`. Nor is the copy of
  `restore.json` in the bundle (it is in `N5Guardian`).
- *Evaluation arithmetic* (T1, T2, T4/T5, windows and medians): series of numbers
  against tables. The models carry the data an evaluation is made from; that the
  arithmetic is right is the subject of the repository's own table tests. The
  deviations of a hold are listed in the bundle and judged by nothing.
- *The gate window* has its drift, load and missing values as inputs, not the
  EC's registers from which they are computed.
- *The order of the driver's callers.* `N5Guardian` serves them first come, first
  served, `N5Writers` lets a run's next write wait for one it gave up. `data->lock`
  is a kernel mutex, which hands over in order but may be taken by a caller that
  spins at the right moment. A write given up that is overtaken by the restore of
  its channel is hence outside the model (hazard at `pwmw.go:168`, no property).
- *Small steps of the tools.* `pwmw.Write` examines the device and then opens the
  attribute; in `N5Guardian` that is one step, a reload in between is one before it.
  The deferred `Close` after `Finish` has no bundle left to write to and is not a
  pass of its own in `N5Runner`; in `N5Guardian` it is.
- *Rows of samples.csv* have the odd things of a sample, not numbers: the rounding of
  temperatures and load, on which runner and report could differ at a limit, is
  outside `N5Recompute`. A late sample has its due time.
- *Logger:* coverage and summaries, identity notes, `meta.json`, the disk criterion
  K6 (an episode of the check, as `journal` is), a queued mail whose file cannot be
  written, a row or event line that cannot be appended (the error is ignored), and
  the loss of appended lines at a power cut (they are not fsynced; a reboot here
  keeps what was written).
- *n5-fand:* the configuration parser, alerts other than `write`, cooldown, the state
  file for the CLI, `n5fan test`, systemd's start limit.
- *Operator prompts, session and boards:* one refusal in `N5Guardian`, one input of
  `N5Runner`.
- *Maintainer scripts.* They are correct or not relative to the order in which dpkg
  calls them and to what DKMS does, neither of which is in the repository. The
  hazard of an interrupted upgrade (`packaging/debian/prerm:40`) is listed, with
  no property.
- *F8 tools, validation watch, manual scripts.* Tools of a finished measurement
  campaign; the validation watch repeats the criteria of the logger in shell over
  one journal cursor.
- *Snapshot, identify, readers, simulator, fakes, package build, deployment,
  data:* input and output, test doubles, build steps without state of their own.
