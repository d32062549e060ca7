----------------------------- MODULE N5Guardian -----------------------------
(***************************************************************************)
(* The writing commands of n5-ectest (map, handback, restore): who may     *)
(* write pwm, and what puts a channel back when one of them dies.          *)
(*                                                                         *)
(* A run is two processes. The guardian takes the writer lock, hands it to *)
(* the worker through an inherited descriptor and waits. The worker writes *)
(* the state file (restore.json) before its first pwm write and marks it   *)
(* restored once every channel is back. A guardian whose worker ended      *)
(* without that mark restores from the file; so does `n5-ectest restore`   *)
(* when both were killed. n5-fangov holds the same lock while it runs.     *)
(*                                                                         *)
(* A pwm write goes through the driver, which serves its callers in turn   *)
(* (variable queue). A caller that got no answer in time goes on; its      *)
(* write stays where it is in the queue. The order is an assumption: the   *)
(* driver's mutex hands over in order but for lock stealing.               *)
(***************************************************************************)
EXTENDS Integers, Sequences, TLC

CONSTANTS
  Channels,      \* pwm channels, numbered 1..4 as n5-ectest does
  Args,          \* --restore of the command line, per channel
  ConfigFile,    \* configuration of n5-fangov: "absent", "unreadable", "read"
  Stops,         \* its stop values, per channel that it names
  FaultKinds,    \* what may go wrong, a subset of AllFaults
  MaxFaults,     \* bound on the faults of a behaviour
  MaxRuns        \* bound on the writing runs of a behaviour

PCIeChannel == 4
HotChannels == Channels \cap 1..3   \* the channel of a temperature limit

RestoreValues == {"auto", "full", "stop"}  \* full: 255, stop: another duty
StopValues == RestoreValues \cup {"low", "bad"}  \* low: below 100, bad: no duty at all
AllFaults == {"file", "command", "timeout", "killWorker", "killGuardian",
              "killRestore", "panic", "reload"}

\* --restore is refused unless it is the automatic or a duty from 100; pwm4 takes
\* only 255.
ParseRestoreArg(c, v) == v \in RestoreValues /\ (c = PCIeChannel => v = "full")

\* What n5-fangov does with a channel its configuration does not name, and with all
\* of them when it cannot be read.
fangovBuiltin(c) == IF c = 3 THEN "stop" ELSE "auto"

Configured(c) ==
  IF ConfigFile = "read" /\ c \in DOMAIN Stops /\ ~(c = 3 /\ Stops[c] = "auto")
  THEN Stops[c] ELSE fangovBuiltin(c)

\* ResolveRestore(): a duty below 100 is raised to it, anything else is no duty.
Usable(v) == IF v = "low" THEN "stop" ELSE IF v = "bad" THEN "auto" ELSE v

ResolveRestore(c) ==
  Usable(IF c \in DOMAIN Args THEN Args[c]
         ELSE IF c = PCIeChannel THEN "full"
         ELSE IF ConfigFile = "absent" THEN "auto" ELSE Configured(c))

Restore == [c \in Channels |-> ResolveRestore(c)]

ASSUME GuardianAssumption ==
  /\ Channels \subseteq 1..4 /\ Channels # {}
  /\ \A c \in DOMAIN Args : c \in 1..4 /\ ParseRestoreArg(c, Args[c])
  /\ ConfigFile \in {"absent", "unreadable", "read"}
  /\ \A c \in DOMAIN Stops : c \in 1..4 /\ Stops[c] \in StopValues
  /\ FaultKinds \subseteq AllFaults
  /\ MaxFaults \in Nat /\ MaxRuns \in Nat

VARIABLES
  lock,      \* writer.lock: "free", or the open file description holding it
  fangov,    \* the n5-fangov unit: "off", "starting" or "on"
  dev,       \* identity of the driver device; a module reload may change it
  chan,      \* what the driver last made of each channel
  queue,     \* writes inside the driver, in the order they entered
  res,       \* answer of each process's write: "idle", "wait", "ok", "err"
  to,        \* pwm operation each process is in: see NoOp
  file,      \* restore.json below /run, or NoFile
  bundle,    \* restore.json of the last finished run's bundle, or NoFile
  gpc, gch,  \* guardian: where it is, the channel on its command line
  job,       \* restoreFromState() of guardian and restore: see NoJob
  wpc,       \* worker: where it is
  touched,   \* r.touched: channels it wrote and did not put back
  hot,       \* r.hot: channel of the tripped temperature limit, 0 for none
  raised,    \* r.RestoreOverrides[hot] is set: the channel was put to 255
  state,     \* v.state, the worker's copy of the state file
  wrote,     \* r.wrote: the state file was written before the first write
  manual,    \* the run left its channel in manual mode
  pass,      \* which call of Close() the run is in
  todo,      \* channels the pass of Close() has still to visit
  rc,        \* exit code of the worker: 0, 1, or -1 when killed
  rpc,       \* n5-ectest restore: where it is
  run,       \* runs started so far, the pid in the state file
  faults,    \* faults so far, and whether one was more than the end of a worker
  byHand,    \* history: channels the operator discarded or took over
  unlogged   \* history: channels raised to 255 without a state file saying so

os     == <<lock, fangov, dev>>
driver == <<chan, queue, res, to>>
worker == <<wpc, touched, hot, raised, state, wrote, manual, pass, todo, rc>>
guard  == <<gpc, gch, run>>
hist   == <<faults, byHand, unlogged>>
vars   == <<os, driver, file, bundle, guard, job, worker, rpc, hist>>

Procs == {"worker", "guardian", "restore"}
NoFile == [st |-> "none"]
NoOp   == [step |-> "none"]
NoJob  == [todo |-> {}]

\* Values of a channel. test: a duty a test step wrote; gov: n5-fangov has
\* it; handed: the driver handed it back at a module unload; unknown: a
\* command failed on it.
ChanValues == RestoreValues \cup {"test", "gov", "handed", "unknown"}
Manual(v) == v \in {"full", "stop", "test", "unknown"}
OffDuty(v) == v \in {"test", "unknown"}

Open(f) == f.st = "active"
Records(f, c) == f.st # "none" /\ c \in DOMAIN f.chans
Min1(S) == CHOOSE c \in S : \A x \in S : c <= x

Fault(kind) ==
  /\ kind \in FaultKinds /\ faults.n < MaxFaults
  /\ faults' = [n |-> faults.n + 1, hard |-> faults.hard \/ kind \notin {"killWorker", "panic"}]

\* bundle.WriteAtomic(): the file is replaced whole or not at all.
WriteFile(f) ==
  \/ file' = f /\ UNCHANGED faults
  \/ Fault("file") /\ UNCHANGED file

(***************************************************************************)
(* pwmw.Writer.Write: refused when the device is another one than at the   *)
(* start (d), else one request to the driver.                              *)
(***************************************************************************)
Write(p, d, c, attr, v) ==
  IF d # dev
    THEN /\ res' = [res EXCEPT ![p] = "err"]
         /\ UNCHANGED queue
    ELSE /\ res' = [res EXCEPT ![p] = "wait"]
         /\ queue' = Append(queue, [who |-> p, live |-> TRUE, ch |-> c,
                                    attr |-> attr, val |-> v])

\* pwmw.RestoreTo: the automatic in one write, a duty in two.
RestoreTo(p, d, c, v) ==
  /\ to' = [to EXCEPT ![p] = [step |-> IF v = "auto" THEN "last" ELSE "first",
                              dev |-> d, ch |-> c, val |-> v]]
  /\ Write(p, d, c, IF v = "auto" THEN "auto" ELSE "manual", v)

SetDuty(p) ==
  /\ to[p].step = "first" /\ res[p] = "ok"
  /\ to' = [to EXCEPT ![p].step = "last"]
  /\ Write(p, to[p].dev, to[p].ch, "duty", to[p].val)
  /\ UNCHANGED <<os, chan, file, bundle, guard, job, worker, rpc, hist>>

OpOk(p)  == to[p].step = "last" /\ res[p] = "ok"
OpErr(p) == to[p].step # "none" /\ res[p] = "err"
OpEnds(p) ==
  /\ to' = [to EXCEPT ![p] = NoOp]
  /\ res' = [res EXCEPT ![p] = "idle"]
  /\ UNCHANGED <<chan, queue>>

-----------------------------------------------------------------------------
\* The driver carries out the request at the head of the queue.
Effect(q, v) ==
  CASE q.attr = "auto"   -> "auto"
    [] q.attr = "manual" -> IF Manual(v) THEN v ELSE "full"
    [] q.attr = "duty"   -> q.val

\* A duty for a channel that is not manual is refused by the driver.
Refuses(q) == q.attr = "duty" /\ ~Manual(chan[q.ch])

Answer(q, a) ==
  /\ queue' = Tail(queue)
  /\ res' = IF q.live THEN [res EXCEPT ![q.who] = a] ELSE res
  /\ UNCHANGED <<os, to, file, bundle, guard, job, worker, rpc, byHand, unlogged>>

DriverServes ==
  /\ queue # <<>> /\ UNCHANGED faults
  /\ LET q == Head(queue) IN
     \/ ~Refuses(q) /\ chan' = [chan EXCEPT ![q.ch] = Effect(q, @)] /\ Answer(q, "ok")
     \/ Refuses(q) /\ UNCHANGED chan /\ Answer(q, "err")

DriverFails ==
  /\ queue # <<>>
  /\ Fault("command")
  /\ chan' = [chan EXCEPT ![Head(queue).ch] = "unknown"]
  /\ Answer(Head(queue), "err")

\* Seeded fault: the driver still answers a caller that gave up.
AbandonedForgotten(p) == queue

\* A process that gives up on its write, or dies, leaves it in the queue.
Abandoned(p) ==
  [i \in DOMAIN queue |->
     IF queue[i].who = p THEN [queue[i] EXCEPT !.live = FALSE] ELSE queue[i]]

WriteTimesOut(p) ==
  /\ res[p] = "wait"
  /\ Fault("timeout")
  /\ res' = [res EXCEPT ![p] = "err"]
  /\ queue' = Abandoned(p)
  /\ UNCHANGED <<os, chan, to, file, bundle, guard, job, worker, rpc, byHand, unlogged>>

\* A process is gone only when none of its threads is inside the driver.
InDriver(p) == \E i \in DOMAIN queue : queue[i].who = p
Dies(p) ==
  /\ queue' = Abandoned(p)
  /\ res' = [res EXCEPT ![p] = "idle"]
  /\ to' = [to EXCEPT ![p] = NoOp]
  /\ UNCHANGED chan

\* The module is unloaded and loaded again, the same build or another.
ReloadModule(other) ==
  /\ queue = <<>>
  /\ Fault("reload")
  /\ dev' = IF other THEN dev + 1 ELSE dev
  /\ chan' = [c \in Channels |-> "handed"]
  /\ UNCHANGED <<lock, fangov, queue, res, to, file, bundle, guard, job, worker, rpc, byHand, unlogged>>

-----------------------------------------------------------------------------
\* n5-fangov: the daemon holds the writer lock for its lifetime.
FangovStarts ==
  /\ fangov = "off" /\ fangov' = "starting"
  /\ UNCHANGED <<lock, dev, driver, file, bundle, guard, job, worker, rpc, hist>>

FangovLocks ==
  /\ fangov = "starting"
  /\ \/ /\ lock = "free" /\ queue = <<>>
        /\ lock' = "fangov" /\ fangov' = "on"
        /\ chan' = [c \in Channels |-> "gov"]
     \/ /\ lock # "free"
        /\ fangov' = "off" /\ UNCHANGED <<lock, chan>>
  /\ UNCHANGED <<dev, queue, res, to, file, bundle, guard, job, worker, rpc, hist>>

FangovStops ==
  /\ fangov = "on"
  /\ fangov' = "off" /\ lock' = "free"
  /\ chan' = Restore
  /\ UNCHANGED <<dev, queue, res, to, file, bundle, guard, job, worker, rpc, hist>>

-----------------------------------------------------------------------------
\* guardian(), up to the start of the worker.
GuardianBegins ==
  /\ gpc = "off" /\ run < MaxRuns
  /\ fangov = "off"
  /\ gpc' = "locking"
  /\ UNCHANGED <<os, driver, file, bundle, gch, run, job, worker, rpc, hist>>

GuardianLocks(c) ==
  /\ gpc = "locking"
  /\ IF lock = "free" THEN lock' = "run" /\ gpc' = "reading" /\ gch' = c
                      ELSE gpc' = "off" /\ UNCHANGED <<lock, gch>>
  /\ UNCHANGED <<fangov, dev, driver, file, bundle, run, job, worker, rpc, hist>>

\* Seeded fault: the state file of an earlier run is not looked at.
GuardianReadsAny ==
  /\ gpc = "reading"
  /\ gpc' = "starting" /\ file' = NoFile
  /\ UNCHANGED <<os, driver, bundle, gch, run, job, worker, rpc, hist>>

GuardianReads ==
  /\ gpc = "reading"
  /\ IF Open(file) THEN gpc' = "off" /\ lock' = "free" /\ UNCHANGED file
                   ELSE gpc' = "starting" /\ file' = NoFile /\ UNCHANGED lock
  /\ UNCHANGED <<fangov, dev, driver, bundle, gch, run, job, worker, rpc, hist>>

StartWorker ==
  /\ gpc = "starting"
  /\ gpc' = "waiting" /\ run' = run + 1
  /\ wpc' = "adopting" /\ rc' = 1
  /\ UNCHANGED <<os, driver, file, bundle, gch, job, touched, hot, raised, state,
                 wrote, manual, pass, todo, rpc, hist>>

\* restoreFromState() of file f; sp: the file is the run state, to be marked.
Restoring(p, f, sp) ==
  job' = [job EXCEPT ![p] = [todo |-> DOMAIN f.chans, ok |-> TRUE, from |-> f, sp |-> sp]]

\* Seeded fault: a killed worker is an error exit, nothing more.
WorkerGoneKilled ==
  /\ gpc = "waiting" /\ wpc = "gone"
  /\ wpc' = "off"
  /\ IF file.st \in {"none", "restored"} \/ rc < 0
       THEN gpc' = "off" /\ lock' = "free" /\ UNCHANGED job
       ELSE gpc' = "restoring" /\ Restoring("guardian", file, TRUE) /\ UNCHANGED lock
  /\ UNCHANGED <<fangov, dev, driver, file, bundle, gch, run, touched, hot, raised,
                 state, wrote, manual, pass, todo, rc, rpc, hist>>

\* The worker is gone: no mark in the state file means the guardian restores.
WorkerGone ==
  /\ gpc = "waiting" /\ wpc = "gone"
  /\ wpc' = "off"
  /\ IF file.st \in {"none", "restored"}
       THEN gpc' = "off" /\ lock' = "free" /\ UNCHANGED job
       ELSE gpc' = "restoring" /\ Restoring("guardian", file, TRUE) /\ UNCHANGED lock
  /\ UNCHANGED <<fangov, dev, driver, file, bundle, gch, run, touched, hot, raised,
                 state, wrote, manual, pass, todo, rc, rpc, hist>>

(***************************************************************************)
(* restoreFromState(), by the guardian or by `n5-ectest restore`.          *)
(***************************************************************************)
At(p) == IF p = "guardian" THEN gpc ELSE rpc

\* A file of an older version may say "auto" for pwm4.
FileValue(f, c) == IF c = PCIeChannel THEN "full" ELSE f.chans[c]

RestoreNext(p) ==
  /\ At(p) = "restoring" /\ to[p] = NoOp /\ job[p].todo # {}
  /\ LET c == Min1(job[p].todo) IN
       RestoreTo(p, job[p].from.dev, c, FileValue(job[p].from, c))
  /\ UNCHANGED <<os, chan, file, bundle, guard, job, worker, rpc, hist>>

\* Seeded fault: a channel that failed does not spoil the result.
RestoreAnsweredOk(p) ==
  /\ At(p) = "restoring" /\ (OpOk(p) \/ OpErr(p))
  /\ job' = [job EXCEPT ![p].todo = @ \ {to[p].ch}]
  /\ OpEnds(p)
  /\ UNCHANGED <<os, file, bundle, guard, worker, rpc, hist>>

RestoreAnswered(p) ==
  /\ At(p) = "restoring" /\ (OpOk(p) \/ OpErr(p))
  /\ job' = [job EXCEPT ![p].todo = @ \ {to[p].ch}, ![p].ok = @ /\ OpOk(p)]
  /\ OpEnds(p)
  /\ UNCHANGED <<os, file, bundle, guard, worker, rpc, hist>>

RestoreEnds(p) ==
  /\ At(p) = "restoring" /\ to[p] = NoOp /\ job[p].todo = {}
  /\ IF job[p].ok /\ job[p].sp THEN WriteFile([job[p].from EXCEPT !.st = "restored"])
                               ELSE UNCHANGED <<file, faults>>
  /\ job' = [job EXCEPT ![p] = NoJob]
  /\ IF p = "guardian" THEN gpc' = "off" /\ UNCHANGED rpc
                       ELSE rpc' = "off" /\ UNCHANGED gpc
  /\ lock' = "free"
  /\ UNCHANGED <<fangov, dev, driver, bundle, gch, run, worker, byHand, unlogged>>

-----------------------------------------------------------------------------
(***************************************************************************)
(* The worker: workerMain(), runValidation() and the runner.               *)
(***************************************************************************)
world == <<os, chan, file, bundle, guard, job, rpc>>
run_  == <<touched, hot, raised, state, wrote, manual, pass, todo, rc>>
LastPass == 3

\* Adopt() and checkWorkerState().
WorkerAdopts ==
  /\ wpc = "adopting"
  /\ wpc' = IF lock = "run" /\ ~Open(file) THEN "gates" ELSE "exiting"
  /\ UNCHANGED <<world, queue, res, to, run_, hist>>

\* Refused by n5-fangov, the session or the operator: the run writes nothing.
WorkerRefused ==
  /\ wpc = "gates"
  /\ wpc' = "exiting"
  /\ UNCHANGED <<world, queue, res, to, run_, hist>>

WorkerStarts ==
  /\ wpc = "gates" /\ fangov = "off"
  /\ wpc' = "sampling"
  /\ state' = [st |-> "active", run |-> run, dev |-> dev, chans |-> [c \in {gch} |-> Restore[c]]]
  /\ touched' = {} /\ hot' = 0 /\ raised' = FALSE /\ wrote' = FALSE
  /\ manual' = FALSE /\ pass' = 1 /\ todo' = {} /\ rc' = 0
  /\ UNCHANGED <<world, queue, res, to, hist>>

\* The next sample finds no other writer and every limit kept.
SampleGood ==
  /\ wpc = "sampling" /\ fangov = "off"
  /\ wpc' = "testing"
  /\ UNCHANGED <<world, queue, res, to, run_, hist>>

\* An abort: another writer, a lost sensor, a signal, a dead tach (h = 0), or
\* a temperature limit, which names the channel to raise.
Aborts(h) ==
  /\ wpc = "sampling"
  /\ wpc' = "closing"
  /\ hot' = h /\ rc' = 1 /\ todo' = touched \cup (IF wrote /\ h # 0 THEN {h} ELSE {})
  /\ UNCHANGED <<world, queue, res, to, touched, raised, state, wrote, manual, pass, hist>>

TestDone ==
  /\ wpc = "sampling"
  /\ wpc' = "closing" /\ todo' = touched
  /\ UNCHANGED <<world, queue, res, to, touched, hot, raised, state, wrote, manual, pass, rc, hist>>

\* Seeded fault: the first pwm write goes out with no state file.
FirstWriteUnlogged ==
  /\ wpc = "testing" /\ ~wrote
  /\ wrote' = TRUE
  /\ UNCHANGED <<os, chan, file, bundle, guard, job, rpc, queue, res, to, hist, wpc,
                 touched, hot, raised, state, manual, pass, todo, rc>>

\* firstWrite(): BeforeWrite writes the state file; its error ends the run.
FirstWrite ==
  /\ wpc = "testing" /\ ~wrote
  /\ \/ /\ file' = state /\ wrote' = TRUE /\ byHand' = byHand \ {gch}
        /\ UNCHANGED <<wpc, rc, faults>>
     \/ /\ Fault("file")
        /\ wpc' = "closing" /\ rc' = 1
        /\ UNCHANGED <<file, wrote, byHand>>
  /\ UNCHANGED <<os, chan, bundle, guard, job, rpc, queue, res, to, touched, hot,
                 raised, state, manual, pass, todo, unlogged>>

\* runner.auto(): the EC automatic, before and between the test duties.
TestAuto ==
  /\ wpc = "testing" /\ wrote /\ to["worker"] = NoOp
  /\ gch # PCIeChannel
  /\ touched' = touched \cup {gch} /\ manual' = FALSE
  /\ RestoreTo("worker", state.dev, gch, "auto")
  /\ wpc' = "writing"
  /\ UNCHANGED <<world, hot, raised, state, wrote, pass, todo, rc, hist>>

\* runner.manual() then runner.write().
TestDuty ==
  /\ wpc = "testing" /\ wrote /\ to["worker"] = NoOp /\ ~manual
  /\ touched' = touched \cup {gch} /\ manual' = TRUE
  /\ RestoreTo("worker", state.dev, gch, "test")
  /\ wpc' = "writing"
  /\ UNCHANGED <<world, hot, raised, state, wrote, pass, todo, rc, hist>>

\* runner.write() for the next step of T1.
TestNextDuty ==
  /\ wpc = "testing" /\ wrote /\ to["worker"] = NoOp /\ manual
  /\ touched' = touched \cup {gch}
  /\ to' = [to EXCEPT !["worker"] = [step |-> "last", dev |-> state.dev,
                                     ch |-> gch, val |-> "test"]]
  /\ Write("worker", state.dev, gch, "duty", "test")
  /\ wpc' = "writing"
  /\ UNCHANGED <<world, hot, raised, state, wrote, manual, pass, todo, rc, hist>>

TestAnswered ==
  /\ wpc = "writing"
  /\ \/ OpOk("worker") /\ wpc' = "sampling" /\ UNCHANGED <<todo, rc>>
     \/ OpErr("worker") /\ wpc' = "closing" /\ rc' = 1 /\ todo' = touched
  /\ OpEnds("worker")
  /\ UNCHANGED <<os, file, bundle, guard, job, rpc, touched, hot, raised, state,
                 wrote, manual, pass, hist>>

(***************************************************************************)
(* Close(): the channels of the run, in order; a channel that fails stays  *)
(* in touched and is tried again by the next pass.                         *)
(***************************************************************************)
HotChannel == IF wrote THEN hot ELSE 0
ToRaise(c) == c = HotChannel

CloseNext ==
  /\ wpc = "closing" /\ to["worker"] = NoOp /\ todo # {}
  /\ LET c == Min1(todo) IN
       /\ ~ToRaise(c)
       /\ RestoreTo("worker", state.dev, c, Restore[c])
  /\ UNCHANGED <<world, wpc, run_, hist>>

\* Seeded fault: the state file keeps the restore value of the hot channel.
BeforeHotForgotten(c) ==
  /\ state' = state
  /\ file' = file /\ UNCHANGED <<faults, unlogged>>

\* State file f with 255 for channel c.
Hot(f, c) ==
  [f EXCEPT !.chans = [x \in DOMAIN @ \cup {c} |-> IF x = c THEN "full" ELSE @[x]]]

\* BeforeHot: the state file says 255 before the channel is raised. When it
\* cannot be written the channel is raised all the same.
BeforeHot(c) ==
  /\ state' = Hot(state, c)
  /\ \/ file' = state' /\ unlogged' = unlogged \ {c} /\ UNCHANGED faults
     \/ Fault("file") /\ unlogged' = unlogged \cup {c} /\ UNCHANGED file

CloseHot ==
  /\ wpc = "closing" /\ to["worker"] = NoOp /\ todo # {}
  /\ ToRaise(Min1(todo))
  /\ BeforeHot(Min1(todo))
  /\ wpc' = "raising"
  /\ touched' = touched \cup {Min1(todo)}
  /\ UNCHANGED <<os, driver, bundle, guard, job, rpc, hot, raised, wrote, manual,
                 pass, todo, rc, byHand>>

\* restoreHot(): manual mode, then 255.
Raise ==
  /\ wpc = "raising"
  /\ RestoreTo("worker", state.dev, Min1(todo), "full")
  /\ wpc' = "closing"
  /\ UNCHANGED <<world, run_, hist>>

CloseAnswered ==
  /\ wpc = "closing" /\ (OpOk("worker") \/ OpErr("worker"))
  /\ LET c == to["worker"].ch IN
       /\ todo' = todo \ {c}
       /\ touched' = IF OpOk("worker") THEN touched \ {c} ELSE touched
       /\ raised' = (raised \/ (ToRaise(c) /\ OpOk("worker")))
  /\ OpEnds("worker")
  /\ UNCHANGED <<os, file, bundle, guard, job, rpc, wpc, hot, state, wrote, manual, pass, rc, hist>>

\* What the next call of Close() visits.
Owed == touched \cup (IF HotChannel # 0 /\ ~raised THEN {HotChannel} ELSE {})

\* Seeded fault: a pass that leaves something owed is repeated until it works.
NextCloseUntilDone ==
  /\ wpc = "closing" /\ to["worker"] = NoOp /\ todo = {} /\ pass < LastPass
  /\ todo' = Owed
  /\ IF Owed # {} \/ pass < LastPass - 1
       THEN pass' = (IF Owed # {} THEN pass ELSE pass + 1) /\ UNCHANGED <<bundle, rc>>
       ELSE pass' = LastPass /\ bundle' = state /\ rc' = rc
  /\ UNCHANGED <<os, driver, file, guard, job, rpc, wpc, touched, hot, raised, state,
                 wrote, manual, hist>>

\* Close() after the test, at the end of the body, and in the deferred
\* function. Before the last one the bundle gets its copy of the state file,
\* still marked active, and the exit code counts what is not restored by then.
NextClose ==
  /\ wpc = "closing" /\ to["worker"] = NoOp /\ todo = {} /\ pass < LastPass
  /\ todo' = Owed /\ pass' = pass + 1
  /\ IF pass = LastPass - 1 THEN bundle' = state /\ rc' = (IF touched = {} THEN rc ELSE 1)
                            ELSE UNCHANGED <<bundle, rc>>
  /\ UNCHANGED <<os, driver, file, guard, job, rpc, wpc, touched, hot, raised, state,
                 wrote, manual, hist>>

\* A panic in the body of the run is recovered by the deferred function.
Panics ==
  /\ wpc = "sampling"
  /\ Fault("panic")
  /\ rc' = 1 /\ wpc' = "closing" /\ pass' = LastPass /\ todo' = Owed
  /\ UNCHANGED <<world, queue, res, to, touched, hot, raised, state, wrote, manual, byHand, unlogged>>

\* The state file is marked restored when nothing is owed; an error of that
\* write is ignored (the guardian then restores once more).
Mark ==
  /\ wpc = "closing" /\ to["worker"] = NoOp /\ todo = {} /\ pass = LastPass
  /\ IF touched = {} THEN WriteFile([state EXCEPT !.st = "restored"])
                     ELSE UNCHANGED <<file, faults>>
  /\ wpc' = "exiting"
  /\ UNCHANGED <<os, driver, bundle, guard, job, rpc, run_, byHand, unlogged>>

\* Release() of the adopted lock closes the descriptor; the lock is free once
\* the guardian has closed its own.
WorkerReaped ==
  /\ wpc = "exiting" /\ ~InDriver("worker")
  /\ IF gpc = "waiting" THEN wpc' = "gone" /\ UNCHANGED lock
                        ELSE wpc' = "off" /\ lock' = "free"
  /\ UNCHANGED <<fangov, dev, driver, file, bundle, guard, job, rpc, run_, hist>>

WorkerAlive == wpc \notin {"off", "exiting", "gone"}

KillWorker ==
  /\ WorkerAlive /\ Fault("killWorker")
  /\ Dies("worker") /\ rc' = -1 /\ wpc' = "exiting"
  /\ UNCHANGED <<os, file, bundle, guard, job, rpc, touched, hot, raised, state, wrote,
                 manual, pass, todo, byHand, unlogged>>

-----------------------------------------------------------------------------
\* SIGKILL of the guardian: its descriptor is closed when it is gone; a
\* worker that is still there keeps the lock.
KillGuardian ==
  /\ gpc \notin {"off", "dying"} /\ Fault("killGuardian")
  /\ Dies("guardian") /\ gpc' = "dying" /\ job' = [job EXCEPT !["guardian"] = NoJob]
  /\ UNCHANGED <<os, file, bundle, gch, run, worker, rpc, byHand, unlogged>>

\* Seeded fault: the descriptor is not inherited, the lock dies with it.
GuardianDeadUnlocks ==
  /\ gpc = "dying" /\ ~InDriver("guardian")
  /\ gpc' = "off" /\ wpc' = IF wpc = "gone" THEN "off" ELSE wpc
  /\ lock' = IF lock = "run" THEN "free" ELSE lock
  /\ UNCHANGED <<fangov, dev, driver, file, bundle, gch, run, run_, job, rpc, hist>>

GuardianDead ==
  /\ gpc = "dying" /\ ~InDriver("guardian")
  /\ gpc' = "off" /\ wpc' = IF wpc = "gone" THEN "off" ELSE wpc
  /\ lock' = IF lock = "run" /\ wpc \in {"off", "gone"} THEN "free" ELSE lock
  /\ UNCHANGED <<fangov, dev, driver, file, bundle, gch, run, run_, job, rpc, hist>>

-----------------------------------------------------------------------------
\* `n5-ectest restore`: an open state file is restored, or given up with
\* --discard; without one, --from restores from the restore.json of a bundle.
RestoreBegins ==
  /\ rpc = "off" /\ fangov = "off"
  /\ rpc' = "locking"
  /\ UNCHANGED <<os, driver, file, bundle, guard, job, worker, hist>>

RestoreLocks ==
  /\ rpc = "locking"
  /\ IF lock = "free" THEN lock' = "restore" /\ rpc' = "reading"
                      ELSE rpc' = "off" /\ UNCHANGED lock
  /\ UNCHANGED <<fangov, dev, driver, file, bundle, guard, job, worker, hist>>

RestoreFromRun ==
  /\ rpc = "reading" /\ Open(file)
  /\ rpc' = "restoring" /\ Restoring("restore", file, TRUE)
  /\ UNCHANGED <<os, driver, file, bundle, guard, worker, hist>>

RestoreFromBundle ==
  /\ rpc = "reading" /\ ~Open(file) /\ bundle # NoFile
  /\ rpc' = "restoring" /\ Restoring("restore", bundle, FALSE)
  /\ byHand' = byHand \cup DOMAIN bundle.chans
  /\ UNCHANGED <<os, driver, file, bundle, guard, worker, faults, unlogged>>

NothingToRestore ==
  /\ rpc = "reading" /\ ~Open(file)
  /\ rpc' = "off" /\ lock' = "free"
  /\ UNCHANGED <<fangov, dev, driver, file, bundle, guard, job, worker, hist>>

Discard ==
  /\ rpc = "reading" /\ Open(file)
  /\ rpc' = "off" /\ lock' = "free"
  /\ file' = [file EXCEPT !.st = "discarded"]
  /\ byHand' = byHand \cup DOMAIN file.chans
  /\ UNCHANGED <<fangov, dev, driver, bundle, guard, job, worker, faults, unlogged>>

KillRestore ==
  /\ rpc \notin {"off", "dying"} /\ Fault("killRestore")
  /\ Dies("restore") /\ rpc' = "dying" /\ job' = [job EXCEPT !["restore"] = NoJob]
  /\ UNCHANGED <<os, file, bundle, guard, worker, byHand, unlogged>>

RestoreDead ==
  /\ rpc = "dying" /\ ~InDriver("restore")
  /\ rpc' = "off" /\ lock' = IF lock = "restore" THEN "free" ELSE lock
  /\ UNCHANGED <<fangov, dev, driver, file, bundle, guard, job, worker, hist>>

-----------------------------------------------------------------------------
\* A state file an older version left behind for the PCIe channel.
OldFile == [st |-> "active", run |-> 0, dev |-> 0, chans |-> [c \in {PCIeChannel} |-> "auto"]]

Init ==
  /\ lock = "free" /\ fangov = "off" /\ dev = 0
  /\ \/ file = NoFile /\ chan = Restore
     \/ /\ PCIeChannel \in Channels
        /\ file = OldFile /\ chan = [Restore EXCEPT ![PCIeChannel] = "test"]
  /\ queue = <<>> /\ res = [p \in Procs |-> "idle"] /\ to = [p \in Procs |-> NoOp]
  /\ bundle = NoFile /\ gpc = "off" /\ gch = Min1(Channels)
  /\ job = [p \in {"guardian", "restore"} |-> NoJob]
  /\ wpc = "off" /\ touched = {} /\ hot = 0 /\ raised = FALSE /\ state = NoFile
  /\ wrote = FALSE /\ manual = FALSE /\ pass = 1 /\ todo = {} /\ rc = 0
  /\ rpc = "off" /\ run = 0
  /\ faults = [n |-> 0, hard |-> FALSE] /\ byHand = {} /\ unlogged = {}

DriverSteps == DriverServes \/ DriverFails

GuardianSteps ==
  \/ (\E c \in Channels : GuardianLocks(c)) \/ GuardianReads \/ StartWorker
  \/ WorkerGone \/ GuardianDead
  \/ SetDuty("guardian")
  \/ RestoreNext("guardian") \/ RestoreAnswered("guardian") \/ RestoreEnds("guardian")

WorkerSteps ==
  \/ WorkerAdopts \/ WorkerRefused \/ WorkerStarts \/ SampleGood
  \/ (\E h \in {0} \cup HotChannels : Aborts(h))
  \/ FirstWrite \/ TestAuto \/ TestDuty \/ TestNextDuty \/ TestAnswered
  \/ SetDuty("worker") \/ CloseNext \/ CloseHot \/ Raise \/ CloseAnswered
  \/ NextClose \/ Mark \/ WorkerReaped

RestoreSteps ==
  \/ RestoreLocks \/ RestoreFromRun \/ RestoreFromBundle \/ NothingToRestore \/ Discard
  \/ SetDuty("restore") \/ RestoreDead
  \/ RestoreNext("restore") \/ RestoreAnswered("restore") \/ RestoreEnds("restore")

Accidents ==
  \/ \E p \in Procs : WriteTimesOut(p)
  \/ KillWorker \/ KillGuardian \/ KillRestore \/ Panics
  \/ \E other \in BOOLEAN : ReloadModule(other)

Next ==
  \/ DriverSteps \/ GuardianSteps \/ WorkerSteps \/ TestDone \/ RestoreSteps \/ Accidents
  \/ GuardianBegins \/ RestoreBegins
  \/ FangovStarts \/ FangovLocks \/ FangovStops

Spec == Init /\ [][Next]_vars

(***************************************************************************)
(* The processes and the driver keep going unless killed. A test has a     *)
(* fixed number of steps, so it is over when it has had its chances often. *)
(***************************************************************************)
FairSpec ==
  /\ Spec
  /\ WF_vars(DriverSteps) /\ WF_vars(GuardianSteps) /\ WF_vars(WorkerSteps)
  /\ SF_vars(TestDone) /\ WF_vars(RestoreSteps) /\ WF_vars(FangovLocks)

-----------------------------------------------------------------------------
StateFiles ==
  [st : {"active", "restored", "discarded"}, run : 0..MaxRuns, dev : 0..MaxFaults,
   chans : UNION {[S -> {"auto", "full", "stop"}] : S \in SUBSET Channels}]
Ops == [step : {"first", "last"}, dev : 0..MaxFaults, ch : Channels, val : ChanValues]

\* Every variable keeps its type; the queue holds at most one write per
\* process that still waits for it.
TypeOK ==
  /\ lock \in {"free", "run", "restore", "fangov"}
  /\ fangov \in {"off", "starting", "on"} /\ dev \in 0..MaxFaults
  /\ chan \in [Channels -> ChanValues]
  /\ \A i \in DOMAIN queue :
       /\ queue[i].who \in Procs /\ queue[i].ch \in Channels
       /\ queue[i].live <=> (/\ res[queue[i].who] = "wait"
                             /\ \A j \in DOMAIN queue : queue[j].who = queue[i].who => j <= i)
  /\ res \in [Procs -> {"idle", "wait", "ok", "err"}]
  /\ \A p \in Procs : to[p] = NoOp \/ to[p] \in Ops
  /\ file \in StateFiles \cup {NoFile} /\ bundle \in StateFiles \cup {NoFile}
  /\ state \in StateFiles \cup {NoFile}
  /\ gpc \in {"off", "locking", "reading", "starting", "waiting", "restoring", "dying"}
  /\ wpc \in {"off", "adopting", "gates", "sampling", "testing", "writing", "closing",
              "raising", "exiting", "gone"}
  /\ rpc \in {"off", "locking", "reading", "restoring", "dying"}
  /\ gch \in Channels /\ hot \in {0} \cup HotChannels
  /\ touched \subseteq Channels /\ todo \subseteq touched \cup {hot}
  /\ raised \in BOOLEAN /\ wrote \in BOOLEAN /\ manual \in BOOLEAN
  /\ pass \in 1..LastPass /\ rc \in -1..1
  /\ run \in 0..MaxRuns /\ faults \in [n : 0..MaxFaults, hard : BOOLEAN]
  /\ byHand \subseteq Channels /\ unlogged \subseteq Channels

\* A channel that a test or a failed command left off its value is in an open
\* state file, at every moment and whoever was killed: the next restore finds
\* it. Excepted are channels the operator took over and a channel raised after
\* a temperature abort whose state file could not be written.
OffDutyIsRecorded ==
  \A c \in Channels :
    OffDuty(chan[c]) => \/ Open(file) /\ Records(file, c)
                        \/ c \in byHand \cup unlogged

\* The worker, a restoring guardian, `n5-ectest restore` and n5-fangov never
\* write at the same time, whichever of them dies while the lock is handed on.
Writers ==
  (IF wpc \in {"sampling", "testing", "writing", "closing", "raising"}
     THEN {"worker"} ELSE {}) \cup
  {p \in {"guardian", "restore"} : At(p) = "restoring"} \cup
  (IF fangov = "on" THEN {"fangov"} ELSE {})
OneWriter == \A p, q \in Writers : p = q

\* When an open state file is marked restored, every channel in it has its value
\* (or the driver handed it back meanwhile) and no write that was given up is
\* still on its way to it. The value of the PCIe channel is 255 whatever an old
\* file says: the automatic would leave its last duty standing.
MarkIsTrue ==
  [][Open(file) /\ file'.st = "restored" =>
       \A c \in DOMAIN file'.chans :
         /\ chan[c] \in {"handed", IF c = PCIeChannel THEN "full" ELSE file'.chans[c]}
         /\ \A i \in DOMAIN queue : queue[i].ch # c]_vars

\* The open state file of one run is never removed or replaced by another's.
OpenFileKept ==
  [][Open(file) /\ file' # file => file'.st # "none" /\ file'.run = file.run]_vars

\* A channel raised to 255 after a temperature abort is not lowered again by
\* the run's own worker or guardian.
Lowers(c) ==
  /\ chan[c] = "full" /\ chan'[c] \notin {"full", "gov", "handed", "unknown"}
  /\ queue # <<>> /\ Head(queue).who \in {"worker", "guardian"}
RaisedStays ==
  [][raised /\ hot \notin unlogged => ~Lowers(hot)]_vars

\* The same whether or not the state file could be written.
RaisedStaysAlways == [][raised => ~Lowers(hot)]_vars

\* A worker ends, whatever fails while it does.
RunEnds == (wpc # "off") ~> (wpc = "off")

\* While guardians live and the driver and the disk obey, an open state file is
\* closed, although workers are killed or panic.
OpenIsClosed == (Open(file) /\ ~faults.hard) ~> (~Open(file) \/ faults.hard)
=============================================================================
