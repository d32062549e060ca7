-------------------------- MODULE N5GuardianProofs --------------------------
(***************************************************************************)
(* Proofs about N5Guardian, for every set of channels, every restore       *)
(* values, any kinds and any number of faults, any number of runs: one     *)
(* writer at a time, no channel off its value without a record of it, a    *)
(* record is kept until a run closed it, and closed only when it is true.  *)
(***************************************************************************)
EXTENDS N5Guardian, TLAPS

-----------------------------------------------------------------------------
(* The inductive invariant, in named parts.                                *)

Requests == [who : Procs, live : BOOLEAN, ch : Channels,
             attr : {"auto", "manual", "duty"}, val : ChanValues]
Restorers == {"guardian", "restore"}
Jobs == [todo : SUBSET Channels, ok : BOOLEAN, from : StateFiles, sp : BOOLEAN]
Running == {"sampling", "testing", "writing", "closing", "raising"}

Control ==
  /\ gpc \in {"off", "locking", "reading", "starting", "waiting", "restoring", "dying"}
  /\ wpc \in {"off", "adopting", "gates", "exiting", "gone"} \cup Running
  /\ rpc \in {"off", "locking", "reading", "restoring", "dying"}
  /\ gch \in Channels /\ hot \in {0} \cup HotChannels
  /\ touched \subseteq Channels /\ todo \subseteq touched \cup {hot} /\ todo \subseteq Channels
  /\ raised \in BOOLEAN /\ wrote \in BOOLEAN /\ manual \in BOOLEAN
  /\ pass \in 1..LastPass /\ rc \in -1..1
  /\ run \in 0..MaxRuns /\ (gpc \in {"locking", "reading", "starting"} => run < MaxRuns)
  /\ dev \in Nat /\ faults \in [n : 0..MaxFaults, hard : BOOLEAN] /\ dev <= faults.n
  /\ byHand \subseteq Channels /\ unlogged \subseteq Channels

Files ==
  /\ file \in StateFiles \cup {NoFile} /\ bundle \in StateFiles \cup {NoFile}
  /\ state \in StateFiles \cup {NoFile} /\ job \in [Restorers -> Jobs \cup {NoJob}]
  /\ \A p \in Restorers : At(p) = "restoring" => job[p] \in Jobs
  /\ wpc \in Running => state \in StateFiles /\ state.st = "active"

Driver ==
  /\ chan \in [Channels -> ChanValues] /\ queue \in Seq(Requests)
  /\ res \in [Procs -> {"idle", "wait", "ok", "err"}] /\ to \in [Procs -> Ops \cup {NoOp}]

\* Who has the lock. The worker keeps it when its guardian is gone; a guardian that
\* restores has no worker any more.
Locking ==
  /\ lock \in {"free", "run", "restore", "fangov"} /\ fangov \in {"off", "starting", "on"}
  /\ fangov = "on" <=> lock = "fangov"
  /\ rpc \in {"reading", "restoring"} => lock = "restore"
  /\ lock = "restore" => rpc \in {"reading", "restoring", "dying"}
  /\ gpc \in {"reading", "starting", "waiting", "restoring"} => lock = "run"
  /\ wpc # "off" => lock = "run"
  /\ gpc \in {"reading", "starting", "restoring"} => wpc = "off"
  /\ wpc = "gone" => gpc \in {"waiting", "dying"}

\* Who works from the state file has the one that is on the disk.
Kept ==
  /\ wpc = "gates" => ~Open(file)
  /\ wpc \in Running =>
       /\ todo \subseteq touched \cup {HotChannel} /\ (touched # {} => wrote)
       /\ IF wrote THEN Open(file) /\ file.run = state.run ELSE ~Open(file)
  /\ wpc = "raising" => wrote
  /\ gpc \in {"starting", "waiting", "restoring"} => file.st # "discarded"
  /\ \A p \in Restorers :
       At(p) = "restoring" /\ job[p].sp => Open(file) /\ file = job[p].from

\* Who may be in a pwm operation, and what a request does for one.
Works(p) == IF p = "worker" THEN wpc \in Running ELSE At(p) = "restoring"
Serves(q, t) ==
  /\ q.ch = t.ch
  /\ t.step = "first" => q.attr = "manual"
  /\ t.step = "last" => (q.attr = "auto" /\ t.val = "auto") \/ (q.attr = "duty" /\ q.val = t.val)
\* Process p gets into operation t: its write is refused, or the last in the driver.
Issued(p, t) ==
  /\ to' = [to EXCEPT ![p] = t]
  /\ \/ res' = [res EXCEPT ![p] = "err"] /\ queue' = queue
     \/ /\ res' = [res EXCEPT ![p] = "wait"]
        /\ \E q \in Requests : /\ q.live /\ q.who = p /\ Serves(q, t)
                              /\ queue' = Append(queue, q)

\* A process in a pwm operation is a writer; its request is the last one in the
\* driver, and an answer means that nothing is left in the driver at all.
Queueing ==
  /\ \A p \in Procs : to[p] # NoOp => Works(p)
  /\ \A p \in Procs : to[p] = NoOp => res[p] = "idle"
  /\ wpc \in {"sampling", "testing", "raising"} => to["worker"] = NoOp
  /\ \A i \in 1..Len(queue) :
       queue[i].live => /\ i = Len(queue) /\ res[queue[i].who] = "wait"
                        /\ Serves(queue[i], to[queue[i].who])
  /\ \A p \in Procs : res[p] = "wait" =>
       Len(queue) > 0 /\ queue[Len(queue)].live /\ queue[Len(queue)].who = p
  /\ \A p \in Procs : res[p] = "ok" =>
       Len(queue) = 0 /\ (to[p].step = "last" => chan[to[p].ch] \in {to[p].val, "handed"})

\* The worker: its state file, its own copy of it, and what it still has to restore.
Closing ==
  /\ wpc \in Running =>
       /\ gch \in DOMAIN state.chans /\ DOMAIN state.chans \subseteq {gch, hot}
       /\ touched \subseteq DOMAIN state.chans
       /\ \A c \in DOMAIN state.chans : c # HotChannel => state.chans[c] = Restore[c]
       /\ wrote => /\ DOMAIN file.chans \subseteq DOMAIN state.chans
                   /\ DOMAIN state.chans \subseteq DOMAIN file.chans \cup unlogged
  /\ wpc \in {"sampling", "testing", "writing"} => hot = 0
  /\ wpc \in {"sampling", "writing"} /\ wrote => gch \in touched
  /\ wpc = "writing" => wrote
  /\ wpc \in Running /\ to["worker"] # NoOp => to["worker"].ch \in touched
  /\ wpc = "closing" /\ to["worker"] # NoOp => to["worker"].val = state.chans[to["worker"].ch]
  /\ wpc = "raising" =>
       /\ todo # {} /\ Min1(todo) = HotChannel /\ HotChannel \in touched
       /\ state.chans[HotChannel] = "full"

\* A channel that has its value, and no request on its way to it.
Settled(c, v) == chan[c] \in {v, "handed"} /\ \A i \in 1..Len(queue) : queue[i].ch # c

\* What the worker counts as put back is.
Settling ==
  wpc \in {"closing", "raising"} /\ wrote =>
    \A c \in DOMAIN state.chans \ touched : Settled(c, state.chans[c])

\* A restore: the file it works from, and what it has done of it.
JobOf(p) ==
  /\ job[p].todo \subseteq DOMAIN job[p].from.chans
  /\ to[p] # NoOp => to[p].ch \in job[p].todo /\ to[p].val = FileValue(job[p].from, to[p].ch)
  /\ job[p].ok => \A c \in DOMAIN job[p].from.chans \ job[p].todo :
                    Settled(c, FileValue(job[p].from, c))
  /\ ~job[p].sp => DOMAIN job[p].from.chans \subseteq byHand
Restoration == \A p \in Restorers : At(p) = "restoring" => JobOf(p)

\* What is or may come off its value is on record.
Recorded(c) == (Open(file) /\ c \in DOMAIN file.chans) \/ c \in byHand \cup unlogged
Recording ==
  /\ \A c \in Channels : OffDuty(chan[c]) => Recorded(c)
  /\ \A i \in 1..Len(queue) : Recorded(queue[i].ch)

IInv == Control /\ Files /\ Driver /\ Locking /\ Kept /\ Queueing /\ Closing /\ Settling /\ Restoration /\ Recording

-----------------------------------------------------------------------------
(* The operators.                                                          *)

\* The next channel is one of those that are left.
LEMMA Least ==
  ASSUME NEW S \in SUBSET (1..4), S # {}
  PROVE  Min1(S) \in S
<1>1. \E c \in S : \A x \in S : c <= x
  <2>1. CASE 1 \in S
    BY <2>1
  <2>2. CASE 1 \notin S /\ 2 \in S
    BY <2>2
  <2>3. CASE 1 \notin S /\ 2 \notin S /\ 3 \in S
    BY <2>3
  <2>4. CASE 1 \notin S /\ 2 \notin S /\ 3 \notin S /\ 4 \in S
    BY <2>4
  <2>5. 1..4 = {1, 2, 3, 4}
    OBVIOUS
  <2>. QED
    BY <2>1, <2>2, <2>3, <2>4, <2>5
<1>. QED
  BY <1>1 DEF Min1

\* Whatever the command line and the configuration say, a value can be restored.
LEMMA RestoreType ==
  ASSUME NEW c \in Channels
  PROVE  Restore[c] \in RestoreValues
<1>1. c \in DOMAIN Args => Args[c] \in RestoreValues
  BY GuardianAssumption DEF GuardianAssumption, ParseRestoreArg
<1>2. Configured(c) \in StopValues
  BY GuardianAssumption DEF GuardianAssumption, Configured, fangovBuiltin, StopValues, RestoreValues
<1>. QED
  BY <1>1, <1>2 DEF Restore, ResolveRestore, Usable, StopValues, RestoreValues

\* The state file of a run begins with the value of its channel.
LEMMA FileOfRun ==
  ASSUME NEW r \in 0..MaxRuns, NEW d \in 0..MaxFaults, NEW c \in Channels
  PROVE  /\ [st |-> "active", run |-> r, dev |-> d, chans |-> [x \in {c} |-> Restore[x]]] \in StateFiles
         /\ DOMAIN [x \in {c} |-> Restore[x]] = {c} /\ [x \in {c} |-> Restore[x]][c] = Restore[c]
<1>1. [x \in {c} |-> Restore[x]] \in [{c} -> {"auto", "full", "stop"}]
  BY RestoreType DEF RestoreValues
<1>2. {c} \in SUBSET Channels
  OBVIOUS
<1>3. [x \in {c} |-> Restore[x]] \in UNION {[S -> {"auto", "full", "stop"}] : S \in SUBSET Channels}
  BY <1>1, <1>2
<1>. QED
  BY <1>1, <1>3 DEF StateFiles

\* What a state file is made of.
LEMMA FileParts ==
  ASSUME NEW f \in StateFiles
  PROVE  /\ f = [st |-> f.st, run |-> f.run, dev |-> f.dev, chans |-> f.chans]
         /\ f.st \in {"active", "restored", "discarded"} /\ f.run \in 0..MaxRuns
         /\ f.dev \in 0..MaxFaults /\ DOMAIN f.chans \subseteq Channels
         /\ f.chans \in [DOMAIN f.chans -> {"auto", "full", "stop"}]
<1>1. /\ f.chans \in UNION {[S -> {"auto", "full", "stop"}] : S \in SUBSET Channels}
      /\ f = [st |-> f.st, run |-> f.run, dev |-> f.dev, chans |-> f.chans]
      /\ f.st \in {"active", "restored", "discarded"} /\ f.run \in 0..MaxRuns
      /\ f.dev \in 0..MaxFaults
  BY DEF StateFiles
<1>2. PICK S \in SUBSET Channels : f.chans \in [S -> {"auto", "full", "stop"}]
  BY <1>1
<1>. QED
  BY <1>1, <1>2

\* A state file with another mark is a state file of the same run.
LEMMA FileMarked ==
  ASSUME NEW f \in StateFiles, NEW s \in {"active", "restored", "discarded"}
  PROVE  /\ [f EXCEPT !.st = s] \in StateFiles
         /\ [f EXCEPT !.st = s].st = s
         /\ [f EXCEPT !.st = s].run = f.run
         /\ [f EXCEPT !.st = s].dev = f.dev
         /\ [f EXCEPT !.st = s].chans = f.chans
BY DEF StateFiles

\* A state file that names one channel more, or another value for it.
LEMMA FileHot ==
  ASSUME NEW f \in StateFiles, NEW c \in Channels
  PROVE  LET g == Hot(f, c)
         IN  /\ g \in StateFiles /\ g.st = f.st /\ g.run = f.run /\ g.dev = f.dev
             /\ DOMAIN g.chans = DOMAIN f.chans \cup {c} /\ g.chans[c] = "full"
             /\ \A x \in DOMAIN f.chans \ {c} : g.chans[x] = f.chans[x]
<1>. DEFINE h == [x \in DOMAIN f.chans \cup {c} |-> IF x = c THEN "full" ELSE f.chans[x]]
            g == [f EXCEPT !.chans = h]
<1>1. /\ DOMAIN h = DOMAIN f.chans \cup {c} /\ h[c] = "full"
      /\ \A x \in DOMAIN f.chans \ {c} : h[x] = f.chans[x]
      /\ h \in [DOMAIN f.chans \cup {c} -> {"auto", "full", "stop"}]
  BY FileParts
<1>2. DOMAIN f.chans \cup {c} \in SUBSET Channels
  BY FileParts
<1>3. h \in UNION {[S -> {"auto", "full", "stop"}] : S \in SUBSET Channels}
  BY <1>1, <1>2
<1>. HIDE DEF h
<1>4. g \in StateFiles /\ g.st = f.st /\ g.run = f.run /\ g.dev = f.dev /\ g.chans = h
  BY <1>3 DEF StateFiles
<1>5. g = Hot(f, c)
  BY DEF Hot, h
<1>. QED
  BY <1>1, <1>4, <1>5

\* A fault is counted.
LEMMA Counted ==
  ASSUME Control, NEW kind, Fault(kind)
  PROVE  /\ faults' \in [n : 0..MaxFaults, hard : BOOLEAN]
         /\ faults'.n = faults.n + 1 /\ dev <= faults'.n
         /\ dev \in Nat /\ dev + 1 <= faults'.n
BY GuardianAssumption DEF Control, Fault, GuardianAssumption

\* Every step keeps the lock with one holder.
LEMMA LockingStep ==
  Locking /\ [Next]_vars => Locking'
<1>. SUFFICES ASSUME Locking, [Next]_vars PROVE Locking'
  OBVIOUS
<1>1. CASE DriverServes
  BY <1>1
  DEF DriverServes, Answer, Locking, Running, vars, os, driver, worker, guard, hist
<1>2. CASE DriverFails
  BY <1>2
  DEF DriverFails, Answer, Fault, Locking, Running, vars, os, driver, worker, guard, hist
<1>3. CASE \E c \in Channels : GuardianLocks(c)
  BY <1>3
  DEF GuardianLocks, Locking, Running, vars, os, driver, worker, guard, hist
<1>4. CASE GuardianReads
  BY <1>4
  DEF GuardianReads, Locking, Running, vars, os, driver, worker, guard, hist
<1>5. CASE StartWorker
  BY <1>5
  DEF StartWorker, Locking, Running, vars, os, driver, worker, guard, hist
<1>6. CASE WorkerGone
  BY <1>6
  DEF WorkerGone, Restoring, Locking, Running, vars, os, driver, worker, guard, hist
<1>7. CASE GuardianDead
  BY <1>7
  DEF GuardianDead, run_, Locking, Running, vars, os, driver, worker, guard, hist
<1>8. CASE \E p \in Procs : SetDuty(p)
  BY <1>8
  DEF SetDuty, Locking, Running, vars, os, driver, worker, guard, hist
<1>9. CASE \E p \in Restorers : RestoreNext(p)
  BY <1>9
  DEF RestoreNext, Restorers, Locking, Running, vars, os, driver, worker, guard, hist
<1>10. CASE \E p \in Restorers : RestoreAnswered(p)
  BY <1>10
  DEF RestoreAnswered, OpEnds, Restorers, Locking, Running, vars, os, driver, worker, guard, hist
<1>11. CASE \E p \in Restorers : RestoreEnds(p)
  BY <1>11
  DEF RestoreEnds, WriteFile, Fault, Restorers, At, Locking, Running, vars, os, driver, worker, guard, hist
<1>12. CASE WorkerAdopts
  BY <1>12
  DEF WorkerAdopts, world, run_, Locking, Running, vars, os, driver, worker, guard, hist
<1>13. CASE WorkerRefused
  BY <1>13
  DEF WorkerRefused, world, run_, Locking, Running, vars, os, driver, worker, guard, hist
<1>14. CASE WorkerStarts
  BY <1>14
  DEF WorkerStarts, world, Locking, Running, vars, os, driver, worker, guard, hist
<1>15. CASE SampleGood
  BY <1>15
  DEF SampleGood, world, run_, Locking, Running, vars, os, driver, worker, guard, hist
<1>16. CASE \E h \in {0} \cup HotChannels : Aborts(h)
  BY <1>16
  DEF Aborts, world, Locking, Running, vars, os, driver, worker, guard, hist
<1>17. CASE FirstWrite
  BY <1>17
  DEF FirstWrite, Fault, Locking, Running, vars, os, driver, worker, guard, hist
<1>18. CASE TestAuto
  BY <1>18
  DEF TestAuto, world, Locking, Running, vars, os, driver, worker, guard, hist
<1>19. CASE TestDuty
  BY <1>19
  DEF TestDuty, world, Locking, Running, vars, os, driver, worker, guard, hist
<1>20. CASE TestNextDuty
  BY <1>20
  DEF TestNextDuty, world, Locking, Running, vars, os, driver, worker, guard, hist
<1>21. CASE TestAnswered
  BY <1>21
  DEF TestAnswered, OpEnds, Locking, Running, vars, os, driver, worker, guard, hist
<1>22. CASE CloseNext
  BY <1>22
  DEF CloseNext, world, run_, Locking, Running, vars, os, driver, worker, guard, hist
<1>23. CASE CloseHot
  BY <1>23
  DEF CloseHot, BeforeHot, Fault, Locking, Running, vars, os, driver, worker, guard, hist
<1>24. CASE Raise
  BY <1>24
  DEF Raise, world, run_, Locking, Running, vars, os, driver, worker, guard, hist
<1>25. CASE CloseAnswered
  BY <1>25
  DEF CloseAnswered, OpEnds, Locking, Running, vars, os, driver, worker, guard, hist
<1>26. CASE NextClose
  BY <1>26
  DEF NextClose, Owed, HotChannel, LastPass, Locking, Running, vars, os, driver, worker, guard, hist
<1>27. CASE Mark
  BY <1>27
  DEF Mark, WriteFile, Fault, run_, Locking, Running, vars, os, driver, worker, guard, hist
<1>28. CASE WorkerReaped
  BY <1>28
  DEF WorkerReaped, run_, Locking, Running, vars, os, driver, worker, guard, hist
<1>29. CASE TestDone
  BY <1>29
  DEF TestDone, world, Locking, Running, vars, os, driver, worker, guard, hist
<1>30. CASE RestoreLocks
  BY <1>30
  DEF RestoreLocks, Locking, Running, vars, os, driver, worker, guard, hist
<1>31. CASE RestoreFromRun
  BY <1>31
  DEF RestoreFromRun, Restoring, Locking, Running, vars, os, driver, worker, guard, hist
<1>32. CASE RestoreFromBundle
  BY <1>32
  DEF RestoreFromBundle, Restoring, Locking, Running, vars, os, driver, worker, guard, hist
<1>33. CASE NothingToRestore
  BY <1>33
  DEF NothingToRestore, Locking, Running, vars, os, driver, worker, guard, hist
<1>34. CASE Discard
  BY <1>34
  DEF Discard, Open, Locking, Running, vars, os, driver, worker, guard, hist
<1>35. CASE RestoreDead
  BY <1>35
  DEF RestoreDead, Locking, Running, vars, os, driver, worker, guard, hist
<1>36. CASE \E p \in Procs : WriteTimesOut(p)
  BY <1>36
  DEF WriteTimesOut, Fault, Locking, Running, vars, os, driver, worker, guard, hist
<1>37. CASE KillWorker
  BY <1>37
  DEF KillWorker, WorkerAlive, Dies, Fault, Locking, Running, vars, os, driver, worker, guard, hist
<1>38. CASE KillGuardian
  BY <1>38
  DEF KillGuardian, Dies, Fault, Locking, Running, vars, os, driver, worker, guard, hist
<1>39. CASE KillRestore
  BY <1>39
  DEF KillRestore, Dies, Fault, Locking, Running, vars, os, driver, worker, guard, hist
<1>40. CASE Panics
  BY <1>40
  DEF Panics, Fault, Owed, HotChannel, LastPass, world, Locking, Running, vars, os, driver, worker, guard, hist
<1>41. CASE \E o \in BOOLEAN : ReloadModule(o)
  BY <1>41
  DEF ReloadModule, Fault, Locking, Running, vars, os, driver, worker, guard, hist
<1>42. CASE GuardianBegins
  BY <1>42
  DEF GuardianBegins, Locking, Running, vars, os, driver, worker, guard, hist
<1>43. CASE RestoreBegins
  BY <1>43
  DEF RestoreBegins, Locking, Running, vars, os, driver, worker, guard, hist
<1>44. CASE FangovStarts
  BY <1>44
  DEF FangovStarts, Locking, Running, vars, os, driver, worker, guard, hist
<1>45. CASE FangovLocks
  BY <1>45
  DEF FangovLocks, Locking, Running, vars, os, driver, worker, guard, hist
<1>46. CASE FangovStops
  BY <1>46
  DEF FangovStops, Locking, Running, vars, os, driver, worker, guard, hist
<1>47. CASE UNCHANGED vars
  BY <1>47
  DEF Locking, Running, vars, os, driver, worker, guard, hist
<1>. QED
  BY <1>1, <1>2, <1>3, <1>4, <1>5, <1>6, <1>7, <1>8, <1>9, <1>10, <1>11, <1>12, <1>13, <1>14, <1>15, <1>16, <1>17, <1>18, <1>19, <1>20, <1>21, <1>22, <1>23, <1>24, <1>25, <1>26, <1>27, <1>28, <1>29, <1>30, <1>31, <1>32, <1>33, <1>34, <1>35, <1>36, <1>37, <1>38, <1>39, <1>40, <1>41, <1>42, <1>43, <1>44, <1>45, <1>46, <1>47
  DEF Next, DriverSteps, GuardianSteps, WorkerSteps, RestoreSteps, Accidents, Procs, Restorers

\* Every step keeps the types of the control variables.
LEMMA ControlStep ==
  Control /\ Files /\ Locking /\ [Next]_vars => Control'
<1>. SUFFICES ASSUME Control, Files, Locking, [Next]_vars PROVE Control'
  OBVIOUS
<1>1. CASE DriverServes
  BY <1>1
  DEF DriverServes, Answer, Control, Locking, Running, vars, os, driver, worker, guard, hist
<1>2. CASE DriverFails
  BY <1>2, Counted
  DEF DriverFails, Answer, Control, Locking, Running, vars, os, driver, worker, guard, hist
<1>3. CASE \E c \in Channels : GuardianLocks(c)
  BY <1>3
  DEF GuardianLocks, Control, Locking, Running, vars, os, driver, worker, guard, hist
<1>4. CASE GuardianReads
  BY <1>4
  DEF GuardianReads, Control, Locking, Running, vars, os, driver, worker, guard, hist
<1>5. CASE StartWorker
  BY <1>5, GuardianAssumption
  DEF GuardianAssumption, StartWorker, Control, Locking, Running, vars, os, driver, worker, guard, hist
<1>6. CASE WorkerGone
  BY <1>6
  DEF WorkerGone, Restoring, Control, Locking, Running, vars, os, driver, worker, guard, hist
<1>7. CASE GuardianDead
  BY <1>7
  DEF GuardianDead, run_, Control, Locking, Running, vars, os, driver, worker, guard, hist
<1>8. CASE \E p \in Procs : SetDuty(p)
  BY <1>8
  DEF SetDuty, Control, Locking, Running, vars, os, driver, worker, guard, hist
<1>9. CASE \E p \in Restorers : RestoreNext(p)
  BY <1>9
  DEF RestoreNext, Restorers, Control, Locking, Running, vars, os, driver, worker, guard, hist
<1>10. CASE \E p \in Restorers : RestoreAnswered(p)
  BY <1>10
  DEF RestoreAnswered, OpEnds, Restorers, Control, Locking, Running, vars, os, driver, worker, guard, hist
<1>11. CASE \E p \in Restorers : RestoreEnds(p)
  BY <1>11, Counted
  DEF RestoreEnds, WriteFile, Restorers, At, Control, Locking, Running, vars, os, driver, worker, guard, hist
<1>12. CASE WorkerAdopts
  BY <1>12
  DEF WorkerAdopts, world, run_, Control, Locking, Running, vars, os, driver, worker, guard, hist
<1>13. CASE WorkerRefused
  BY <1>13
  DEF WorkerRefused, world, run_, Control, Locking, Running, vars, os, driver, worker, guard, hist
<1>14. CASE WorkerStarts
  <2>1. /\ wpc' = "sampling" /\ touched' = {} /\ todo' = {} /\ hot' = 0 /\ pass' = 1 /\ rc' = 0
        /\ raised' \in BOOLEAN /\ wrote' \in BOOLEAN /\ manual' \in BOOLEAN
    BY <1>14 DEF WorkerStarts
  <2>2. UNCHANGED <<gpc, gch, run, rpc, dev, faults, byHand, unlogged>>
    BY <1>14 DEF WorkerStarts, world, os, guard, hist
  <2>. QED
    BY <2>1, <2>2 DEF Control, Running, LastPass
<1>15. CASE SampleGood
  BY <1>15
  DEF SampleGood, world, run_, Control, Locking, Running, vars, os, driver, worker, guard, hist
<1>16. CASE \E h \in {0} \cup HotChannels : Aborts(h)
  BY <1>16
  DEF Aborts, world, HotChannels, Control, Locking, Running, vars, os, driver, worker, guard, hist
<1>17. CASE FirstWrite
  <2>1. /\ UNCHANGED <<os, guard, rpc, touched, hot, raised, manual, pass, todo, unlogged>>
        /\ wpc' \in {"testing", "closing"} /\ rc' \in {rc, 1}
    BY <1>17 DEF FirstWrite
  <2>2. wrote' \in BOOLEAN /\ byHand' \subseteq Channels
    BY <1>17 DEF FirstWrite, Control
  <2>3. /\ faults' \in [n : 0..MaxFaults, hard : BOOLEAN] /\ dev <= faults'.n
    BY <1>17, Counted DEF FirstWrite, Control
  <2>. QED
    BY <2>1, <2>2, <2>3 DEF Control, Running, os, guard
<1>18. CASE TestAuto
  BY <1>18
  DEF TestAuto, world, Control, Locking, Running, vars, os, driver, worker, guard, hist
<1>19. CASE TestDuty
  BY <1>19
  DEF TestDuty, world, Control, Locking, Running, vars, os, driver, worker, guard, hist
<1>20. CASE TestNextDuty
  BY <1>20
  DEF TestNextDuty, world, Control, Locking, Running, vars, os, driver, worker, guard, hist
<1>21. CASE TestAnswered
  BY <1>21
  DEF TestAnswered, OpEnds, Control, Locking, Running, vars, os, driver, worker, guard, hist
<1>22. CASE CloseNext
  BY <1>22
  DEF CloseNext, world, run_, Control, Locking, Running, vars, os, driver, worker, guard, hist
<1>23. CASE CloseHot
  <2>1. /\ Min1(todo) \in todo /\ todo \subseteq Channels
        /\ UNCHANGED <<gpc, rpc, gch, hot, raised, wrote, manual, pass, todo, rc, run, dev, byHand>>
        /\ touched' = touched \cup {Min1(todo)} /\ wpc' = "raising"
    BY <1>23, Least, GuardianAssumption DEF GuardianAssumption, CloseHot, Control, os, driver, guard
  <2>2. /\ faults' = faults \/ Fault("file")
        /\ unlogged' \subseteq unlogged \cup {Min1(todo)}
    BY <1>23 DEF CloseHot, BeforeHot
  <2>3. faults' \in [n : 0..MaxFaults, hard : BOOLEAN] /\ dev <= faults'.n
    BY <2>2, Counted DEF Control
  <2>. QED
    BY <2>1, <2>2, <2>3 DEF Control, Running
<1>24. CASE Raise
  BY <1>24
  DEF Raise, world, run_, Control, Locking, Running, vars, os, driver, worker, guard, hist
<1>25. CASE CloseAnswered
  BY <1>25
  DEF CloseAnswered, OpEnds, Control, Locking, Running, vars, os, driver, worker, guard, hist
<1>26. CASE NextClose
  BY <1>26
  DEF NextClose, Owed, HotChannel, LastPass, HotChannels, Control, Locking, Running, vars, os, driver, worker, guard, hist
<1>27. CASE Mark
  BY <1>27, Counted
  DEF Mark, WriteFile, run_, Control, Locking, Running, vars, os, driver, worker, guard, hist
<1>28. CASE WorkerReaped
  BY <1>28
  DEF WorkerReaped, run_, Control, Locking, Running, vars, os, driver, worker, guard, hist
<1>29. CASE TestDone
  BY <1>29
  DEF TestDone, world, Control, Locking, Running, vars, os, driver, worker, guard, hist
<1>30. CASE RestoreLocks
  BY <1>30
  DEF RestoreLocks, Control, Locking, Running, vars, os, driver, worker, guard, hist
<1>31. CASE RestoreFromRun
  BY <1>31
  DEF RestoreFromRun, Restoring, Control, Locking, Running, vars, os, driver, worker, guard, hist
<1>32. CASE RestoreFromBundle
  BY <1>32, FileParts
  DEF RestoreFromBundle, Files, Control, Locking, Running, vars, os, driver, worker, guard, hist
<1>33. CASE NothingToRestore
  BY <1>33
  DEF NothingToRestore, Control, Locking, Running, vars, os, driver, worker, guard, hist
<1>34. CASE Discard
  BY <1>34, FileParts
  DEF Discard, Open, Files, NoFile, Control, Locking, Running, vars, os, driver, worker, guard, hist
<1>35. CASE RestoreDead
  BY <1>35
  DEF RestoreDead, Control, Locking, Running, vars, os, driver, worker, guard, hist
<1>36. CASE \E p \in Procs : WriteTimesOut(p)
  BY <1>36, Counted
  DEF WriteTimesOut, Control, Locking, Running, vars, os, driver, worker, guard, hist
<1>37. CASE KillWorker
  BY <1>37, Counted
  DEF KillWorker, WorkerAlive, Dies, Control, Locking, Running, vars, os, driver, worker, guard, hist
<1>38. CASE KillGuardian
  BY <1>38, Counted
  DEF KillGuardian, Dies, Control, Locking, Running, vars, os, driver, worker, guard, hist
<1>39. CASE KillRestore
  BY <1>39, Counted
  DEF KillRestore, Dies, Control, Locking, Running, vars, os, driver, worker, guard, hist
<1>40. CASE Panics
  BY <1>40, Counted
  DEF Panics, Owed, HotChannel, HotChannels, LastPass, world, Control, Locking, Running, vars, os, driver, worker, guard, hist
<1>41. CASE \E o \in BOOLEAN : ReloadModule(o)
  BY <1>41, Counted
  DEF ReloadModule, Control, Locking, Running, vars, os, driver, worker, guard, hist
<1>42. CASE GuardianBegins
  BY <1>42
  DEF GuardianBegins, Control, Locking, Running, vars, os, driver, worker, guard, hist
<1>43. CASE RestoreBegins
  BY <1>43
  DEF RestoreBegins, Control, Locking, Running, vars, os, driver, worker, guard, hist
<1>44. CASE FangovStarts
  BY <1>44
  DEF FangovStarts, Control, Locking, Running, vars, os, driver, worker, guard, hist
<1>45. CASE FangovLocks
  BY <1>45
  DEF FangovLocks, Control, Locking, Running, vars, os, driver, worker, guard, hist
<1>46. CASE FangovStops
  BY <1>46
  DEF FangovStops, Control, Locking, Running, vars, os, driver, worker, guard, hist
<1>47. CASE UNCHANGED vars
  BY <1>47
  DEF Control, Locking, Running, vars, os, driver, worker, guard, hist
<1>. QED
  BY <1>1, <1>2, <1>3, <1>4, <1>5, <1>6, <1>7, <1>8, <1>9, <1>10, <1>11, <1>12, <1>13, <1>14, <1>15, <1>16, <1>17, <1>18, <1>19, <1>20, <1>21, <1>22, <1>23, <1>24, <1>25, <1>26, <1>27, <1>28, <1>29, <1>30, <1>31, <1>32, <1>33, <1>34, <1>35, <1>36, <1>37, <1>38, <1>39, <1>40, <1>41, <1>42, <1>43, <1>44, <1>45, <1>46, <1>47
  DEF Next, DriverSteps, GuardianSteps, WorkerSteps, RestoreSteps, Accidents, Procs, Restorers

\* A job that is begun, and one with a channel less to do.
LEMMA JobSteps ==
  ASSUME Files, NEW p \in Restorers
  PROVE  /\ [job EXCEPT ![p] = NoJob] \in [Restorers -> Jobs \cup {NoJob}]
         /\ \A f \in StateFiles, sp \in BOOLEAN :
              Restoring(p, f, sp) =>
                /\ job' \in [Restorers -> Jobs \cup {NoJob}] /\ job'[p] \in Jobs
                /\ job'[p] = [todo |-> DOMAIN f.chans, ok |-> TRUE, from |-> f, sp |-> sp]
                /\ \A q \in Restorers \ {p} : job'[q] = job[q]
<1>1. [job EXCEPT ![p] = NoJob] \in [Restorers -> Jobs \cup {NoJob}]
  BY DEF Files
<1>2. ASSUME NEW f \in StateFiles, NEW sp \in BOOLEAN, Restoring(p, f, sp)
      PROVE  /\ job' \in [Restorers -> Jobs \cup {NoJob}] /\ job'[p] \in Jobs
             /\ job'[p] = [todo |-> DOMAIN f.chans, ok |-> TRUE, from |-> f, sp |-> sp]
             /\ \A q \in Restorers \ {p} : job'[q] = job[q]
  <2>. DEFINE j == [todo |-> DOMAIN f.chans, ok |-> TRUE, from |-> f, sp |-> sp]
  <2>1. j \in Jobs
    BY FileParts DEF Jobs
  <2>2. job' = [job EXCEPT ![p] = j]
    BY <1>2 DEF Restoring
  <2>. HIDE DEF j
  <2>3. /\ job' \in [Restorers -> Jobs \cup {NoJob}] /\ job'[p] = j
        /\ \A q \in Restorers \ {p} : job'[q] = job[q]
    BY <2>1, <2>2 DEF Files
  <2>. QED
    BY <2>1, <2>3 DEF j
<1>. QED
  BY <1>1, <1>2

\* An answer takes its channel off the list, and an error out of the job's success.
LEMMA JobAnswered ==
  ASSUME Files, NEW p \in Restorers, job[p] \in Jobs, RestoreAnswered(p)
  PROVE  /\ job' \in [Restorers -> Jobs \cup {NoJob}] /\ job'[p] \in Jobs
         /\ job'[p].todo = job[p].todo \ {to[p].ch} /\ job'[p].ok = (job[p].ok /\ OpOk(p))
         /\ job'[p].from = job[p].from /\ job'[p].sp = job[p].sp
         /\ \A q \in Restorers \ {p} : job'[q] = job[q]
<1>. DEFINE j == [job[p] EXCEPT !.todo = @ \ {to[p].ch}, !.ok = @ /\ OpOk(p)]
<1>1. job' = [job EXCEPT ![p] = j]
  BY DEF RestoreAnswered, Files
<1>2. /\ j \in Jobs
      /\ j.todo = job[p].todo \ {to[p].ch} /\ j.ok = (job[p].ok /\ OpOk(p))
      /\ j.from = job[p].from /\ j.sp = job[p].sp
  BY DEF Jobs
<1>. HIDE DEF j
<1>3. /\ job' \in [Restorers -> Jobs \cup {NoJob}] /\ job'[p] = j
      /\ \A q \in Restorers \ {p} : job'[q] = job[q]
  BY <1>1, <1>2 DEF Files
<1>. QED
  BY <1>2, <1>3

\* Every step keeps the types of the state files and jobs.
LEMMA FilesStep ==
  Control /\ Files /\ Locking /\ [Next]_vars => Files'
<1>. SUFFICES ASSUME Control, Files, Locking, [Next]_vars PROVE Files'
  OBVIOUS
<1>1. CASE DriverServes
  BY <1>1
  DEF DriverServes, Answer, Files, Running, Restorers, At, NoFile, vars, os, driver, worker, guard, hist
<1>2. CASE DriverFails
  BY <1>2
  DEF DriverFails, Answer, Fault, Files, Running, Restorers, At, NoFile, vars, os, driver, worker, guard, hist
<1>3. CASE \E c \in Channels : GuardianLocks(c)
  BY <1>3
  DEF GuardianLocks, Files, Running, Restorers, At, NoFile, vars, os, driver, worker, guard, hist
<1>4. CASE GuardianReads
  BY <1>4
  DEF GuardianReads, Files, Running, Restorers, At, NoFile, vars, os, driver, worker, guard, hist
<1>5. CASE StartWorker
  BY <1>5
  DEF StartWorker, Files, Running, Restorers, At, NoFile, vars, os, driver, worker, guard, hist
<1>6. CASE WorkerGone
  <2>1. CASE file.st \in {"none", "restored"}
    BY <1>6, <2>1 DEF WorkerGone, Files, Running, Restorers, At, driver
  <2>2. CASE file.st \notin {"none", "restored"}
    <3>1. file \in StateFiles
      BY <2>2 DEF Files, NoFile
    <3>2. /\ Restoring("guardian", file, TRUE) /\ gpc' = "restoring" /\ wpc' = "off"
          /\ UNCHANGED <<file, bundle, state, rpc>>
      BY <1>6, <2>2 DEF WorkerGone
    <3>3. /\ job' \in [Restorers -> Jobs \cup {NoJob}] /\ job'["guardian"] \in Jobs
          /\ job'["restore"] = job["restore"]
      BY <3>1, <3>2, JobSteps DEF Restorers
    <3>. QED
      BY <3>2, <3>3 DEF Files, Running, Restorers, At
  <2>. QED
    BY <2>1, <2>2
<1>7. CASE GuardianDead
  BY <1>7
  DEF GuardianDead, run_, Files, Running, Restorers, At, NoFile, vars, os, driver, worker, guard, hist
<1>8. CASE \E p \in Procs : SetDuty(p)
  BY <1>8
  DEF SetDuty, Files, Running, Restorers, At, NoFile, vars, os, driver, worker, guard, hist
<1>9. CASE \E p \in Restorers : RestoreNext(p)
  BY <1>9
  DEF RestoreNext, Restorers, Files, Running, Restorers, At, NoFile, vars, os, driver, worker, guard, hist
<1>10. CASE \E p \in Restorers : RestoreAnswered(p)
  <2>1. PICK p \in Restorers : RestoreAnswered(p)
    BY <1>10
  <2>2. job[p] \in Jobs
    BY <2>1 DEF RestoreAnswered, Files
  <2>3. /\ job' \in [Restorers -> Jobs \cup {NoJob}] /\ job'[p] \in Jobs
        /\ \A q \in Restorers \ {p} : job'[q] = job[q]
    BY <2>1, <2>2, JobAnswered
  <2>4. UNCHANGED <<file, bundle, state, gpc, rpc, wpc>>
    BY <2>1 DEF RestoreAnswered, guard, worker
  <2>. QED
    BY <2>3, <2>4 DEF Files, At
<1>11. CASE \E p \in Restorers : RestoreEnds(p)
  <2>1. PICK p \in Restorers : RestoreEnds(p)
    BY <1>11
  <2>2. job[p] \in Jobs /\ job[p].from \in StateFiles
    BY <2>1 DEF RestoreEnds, Files, Jobs
  <2>3. file' \in StateFiles \cup {NoFile}
    BY <2>1, <2>2, FileMarked DEF RestoreEnds, WriteFile, Files
  <2>4. job' \in [Restorers -> Jobs \cup {NoJob}] /\ \A q \in Restorers \ {p} : job'[q] = job[q]
    BY <2>1, JobSteps DEF RestoreEnds, Files
  <2>5. /\ UNCHANGED <<bundle, state, wpc>>
        /\ At(p)' = "off" /\ \A q \in Restorers \ {p} : At(q)' = At(q)
    BY <2>1 DEF RestoreEnds, At, Restorers, worker
  <2>. QED
    BY <2>3, <2>4, <2>5 DEF Files
<1>12. CASE WorkerAdopts
  BY <1>12
  DEF WorkerAdopts, world, run_, Files, Running, Restorers, At, NoFile, vars, os, driver, worker, guard, hist
<1>13. CASE WorkerRefused
  BY <1>13
  DEF WorkerRefused, world, run_, Files, Running, Restorers, At, NoFile, vars, os, driver, worker, guard, hist
<1>14. CASE WorkerStarts
  <2>1. state' \in StateFiles /\ state'.st = "active"
    <3>1. run \in 0..MaxRuns /\ dev \in 0..MaxFaults /\ gch \in Channels
      BY GuardianAssumption DEF Control, GuardianAssumption
    <3>2. state' = [st |-> "active", run |-> run, dev |-> dev, chans |-> [c \in {gch} |-> Restore[c]]]
      BY <1>14 DEF WorkerStarts
    <3>. QED
      BY <3>1, <3>2, FileOfRun
  <2>2. UNCHANGED <<file, bundle, job, gpc, rpc>>
    BY <1>14 DEF WorkerStarts, world, guard
  <2>. QED
    BY <2>1, <2>2 DEF Files, At
<1>15. CASE SampleGood
  BY <1>15
  DEF SampleGood, world, run_, Files, Running, Restorers, At, NoFile, vars, os, driver, worker, guard, hist
<1>16. CASE \E h \in {0} \cup HotChannels : Aborts(h)
  BY <1>16
  DEF Aborts, world, Files, Running, Restorers, At, NoFile, vars, os, driver, worker, guard, hist
<1>17. CASE FirstWrite
  BY <1>17
  DEF FirstWrite, Fault, Files, Running, Restorers, At, NoFile, vars, os, driver, worker, guard, hist
<1>18. CASE TestAuto
  BY <1>18
  DEF TestAuto, world, Files, Running, Restorers, At, NoFile, vars, os, driver, worker, guard, hist
<1>19. CASE TestDuty
  BY <1>19
  DEF TestDuty, world, Files, Running, Restorers, At, NoFile, vars, os, driver, worker, guard, hist
<1>20. CASE TestNextDuty
  BY <1>20
  DEF TestNextDuty, world, Files, Running, Restorers, At, NoFile, vars, os, driver, worker, guard, hist
<1>21. CASE TestAnswered
  BY <1>21
  DEF TestAnswered, OpEnds, Files, Running, Restorers, At, NoFile, vars, os, driver, worker, guard, hist
<1>22. CASE CloseNext
  BY <1>22
  DEF CloseNext, world, run_, Files, Running, Restorers, At, NoFile, vars, os, driver, worker, guard, hist
<1>23. CASE CloseHot
  <2>. DEFINE c == Min1(todo)
              g == Hot(state, c)
  <2>1. c \in Channels
    BY <1>23, Least, GuardianAssumption DEF CloseHot, Control, GuardianAssumption
  <2>2. state \in StateFiles /\ state.st = "active"
    BY <1>23 DEF CloseHot, Files, Running
  <2>3. g \in StateFiles /\ g.st = "active"
    BY <2>1, <2>2, FileHot
  <2>4. state' = g /\ file' \in {file, g} /\ UNCHANGED <<bundle, job, gpc, rpc>>
    BY <1>23 DEF CloseHot, BeforeHot, guard
  <2>. QED
    BY <2>3, <2>4 DEF Files, At
<1>24. CASE Raise
  BY <1>24
  DEF Raise, world, run_, Files, Running, Restorers, At, NoFile, vars, os, driver, worker, guard, hist
<1>25. CASE CloseAnswered
  BY <1>25
  DEF CloseAnswered, OpEnds, Files, Running, Restorers, At, NoFile, vars, os, driver, worker, guard, hist
<1>26. CASE NextClose
  BY <1>26
  DEF NextClose, Owed, HotChannel, LastPass, Files, Running, Restorers, At, NoFile, vars, os, driver, worker, guard, hist
<1>27. CASE Mark
  <2>1. state \in StateFiles
    BY <1>27 DEF Mark, Files, Running
  <2>2. file' \in StateFiles \cup {NoFile}
    BY <1>27, <2>1, FileMarked DEF Mark, WriteFile, Files
  <2>3. UNCHANGED <<bundle, state, job, gpc, rpc>> /\ wpc' = "exiting"
    BY <1>27 DEF Mark, guard, run_
  <2>. QED
    BY <2>2, <2>3 DEF Files, Running, At
<1>28. CASE WorkerReaped
  BY <1>28
  DEF WorkerReaped, run_, Files, Running, Restorers, At, NoFile, vars, os, driver, worker, guard, hist
<1>29. CASE TestDone
  BY <1>29
  DEF TestDone, world, Files, Running, Restorers, At, NoFile, vars, os, driver, worker, guard, hist
<1>30. CASE RestoreLocks
  BY <1>30
  DEF RestoreLocks, Files, Running, Restorers, At, NoFile, vars, os, driver, worker, guard, hist
<1>31. CASE RestoreFromRun
  <2>0. file \in StateFiles
    BY <1>31 DEF RestoreFromRun, Files, NoFile, Open
  <2>1. file \in StateFiles /\ Restoring("restore", file, TRUE)
    BY <1>31, <2>0 DEF RestoreFromRun
  <2>2. /\ job' \in [Restorers -> Jobs \cup {NoJob}] /\ job'["restore"] \in Jobs
        /\ job'["guardian"] = job["guardian"]
    BY <2>1, JobSteps DEF Restorers
  <2>3. UNCHANGED <<file, bundle, state, gpc, wpc>>
    BY <1>31 DEF RestoreFromRun, guard, worker
  <2>. QED
    BY <2>2, <2>3 DEF Files, Restorers, At
<1>32. CASE RestoreFromBundle
  <2>1. bundle \in StateFiles /\ Restoring("restore", bundle, FALSE)
    BY <1>32 DEF RestoreFromBundle, Files
  <2>2. /\ job' \in [Restorers -> Jobs \cup {NoJob}] /\ job'["restore"] \in Jobs
        /\ job'["guardian"] = job["guardian"]
    BY <2>1, JobSteps DEF Restorers
  <2>3. UNCHANGED <<file, bundle, state, gpc, wpc>>
    BY <1>32 DEF RestoreFromBundle, guard, worker
  <2>. QED
    BY <2>2, <2>3 DEF Files, Restorers, At
<1>33. CASE NothingToRestore
  BY <1>33
  DEF NothingToRestore, Files, Running, Restorers, At, NoFile, vars, os, driver, worker, guard, hist
<1>34. CASE Discard
  <2>1. file \in StateFiles
    BY <1>34 DEF Discard, Files, NoFile, Open
  <2>2. file' \in StateFiles
    BY <1>34, <2>1, FileMarked DEF Discard
  <2>3. UNCHANGED <<bundle, state, job, gpc, wpc>> /\ rpc' = "off"
    BY <1>34 DEF Discard, guard, worker
  <2>. QED
    BY <2>2, <2>3 DEF Files, Restorers, At
<1>35. CASE RestoreDead
  BY <1>35
  DEF RestoreDead, Files, Running, Restorers, At, NoFile, vars, os, driver, worker, guard, hist
<1>36. CASE \E p \in Procs : WriteTimesOut(p)
  BY <1>36
  DEF WriteTimesOut, Fault, Files, Running, Restorers, At, NoFile, vars, os, driver, worker, guard, hist
<1>37. CASE KillWorker
  BY <1>37
  DEF KillWorker, WorkerAlive, Dies, Fault, Files, Running, Restorers, At, NoFile, vars, os, driver, worker, guard, hist
<1>38. CASE KillGuardian
  BY <1>38
  DEF KillGuardian, Dies, Fault, Files, Running, Restorers, At, NoFile, vars, os, driver, worker, guard, hist
<1>39. CASE KillRestore
  BY <1>39
  DEF KillRestore, Dies, Fault, Files, Running, Restorers, At, NoFile, vars, os, driver, worker, guard, hist
<1>40. CASE Panics
  BY <1>40
  DEF Panics, Fault, Owed, HotChannel, LastPass, world, Files, Running, Restorers, At, NoFile, vars, os, driver, worker, guard, hist
<1>41. CASE \E o \in BOOLEAN : ReloadModule(o)
  BY <1>41
  DEF ReloadModule, Fault, Files, Running, Restorers, At, NoFile, vars, os, driver, worker, guard, hist
<1>42. CASE GuardianBegins
  BY <1>42
  DEF GuardianBegins, Files, Running, Restorers, At, NoFile, vars, os, driver, worker, guard, hist
<1>43. CASE RestoreBegins
  BY <1>43
  DEF RestoreBegins, Files, Running, Restorers, At, NoFile, vars, os, driver, worker, guard, hist
<1>44. CASE FangovStarts
  BY <1>44
  DEF FangovStarts, Files, Running, Restorers, At, NoFile, vars, os, driver, worker, guard, hist
<1>45. CASE FangovLocks
  BY <1>45
  DEF FangovLocks, Files, Running, Restorers, At, NoFile, vars, os, driver, worker, guard, hist
<1>46. CASE FangovStops
  BY <1>46
  DEF FangovStops, Files, Running, Restorers, At, NoFile, vars, os, driver, worker, guard, hist
<1>47. CASE UNCHANGED vars
  BY <1>47
  DEF Files, Running, Restorers, At, NoFile, vars, os, driver, worker, guard, hist
<1>. QED
  BY <1>1, <1>2, <1>3, <1>4, <1>5, <1>6, <1>7, <1>8, <1>9, <1>10, <1>11, <1>12, <1>13, <1>14, <1>15, <1>16, <1>17, <1>18, <1>19, <1>20, <1>21, <1>22, <1>23, <1>24, <1>25, <1>26, <1>27, <1>28, <1>29, <1>30, <1>31, <1>32, <1>33, <1>34, <1>35, <1>36, <1>37, <1>38, <1>39, <1>40, <1>41, <1>42, <1>43, <1>44, <1>45, <1>46, <1>47
  DEF Next, DriverSteps, GuardianSteps, WorkerSteps, RestoreSteps, Accidents, Procs, Restorers

\* Every step leaves the state file to whom it belongs.
LEMMA KeptStep ==
  Control /\ Files /\ Locking /\ Kept /\ [Next]_vars => Kept'
<1>. SUFFICES ASSUME Control, Files, Locking, Kept, [Next]_vars PROVE Kept'
  OBVIOUS
<1>1. CASE DriverServes
  BY <1>1
  DEF DriverServes, Answer, Locking, Kept, Running, Restorers, At, HotChannel, Open, vars, os, driver, worker, guard, hist
<1>2. CASE DriverFails
  BY <1>2
  DEF DriverFails, Answer, Fault, Locking, Kept, Running, Restorers, At, HotChannel, Open, vars, os, driver, worker, guard, hist
<1>3. CASE \E c \in Channels : GuardianLocks(c)
  BY <1>3
  DEF GuardianLocks, Locking, Kept, Running, Restorers, At, HotChannel, Open, vars, os, driver, worker, guard, hist
<1>4. CASE GuardianReads
  BY <1>4
  DEF GuardianReads, NoFile, Locking, Kept, Running, Restorers, At, HotChannel, Open, vars, os, driver, worker, guard, hist
<1>5. CASE StartWorker
  BY <1>5
  DEF StartWorker, Locking, Kept, Running, Restorers, At, HotChannel, Open, vars, os, driver, worker, guard, hist
<1>6. CASE WorkerGone
  <2>1. CASE file.st \in {"none", "restored"}
    BY <1>6, <2>1 DEF WorkerGone, Kept, Locking, Running, Restorers, At, Open, driver
  <2>2. CASE file.st \notin {"none", "restored"}
    <3>1. file \in StateFiles
      BY <2>2 DEF Files, NoFile
    <3>2. /\ Restoring("guardian", file, TRUE) /\ gpc' = "restoring" /\ wpc' = "off"
          /\ UNCHANGED <<file, rpc>> /\ rpc # "restoring"
      BY <1>6, <2>2 DEF WorkerGone, Locking
    <3>3. job'["guardian"].from = file
      <4>1. job'["guardian"] = [todo |-> DOMAIN file.chans, ok |-> TRUE, from |-> file, sp |-> TRUE]
        BY <3>1, <3>2, JobSteps DEF Restorers
      <4>. QED
        BY <4>1
    <3>4. Open(file)
      BY <1>6, <2>2, <3>1, FileParts DEF Kept, WorkerGone, Open
    <3>. QED
      BY <3>2, <3>3, <3>4 DEF Kept, Running, Restorers, At, Open
  <2>. QED
    BY <2>1, <2>2
<1>7. CASE GuardianDead
  BY <1>7
  DEF GuardianDead, run_, Locking, Kept, Running, Restorers, At, HotChannel, Open, vars, os, driver, worker, guard, hist
<1>8. CASE \E p \in Procs : SetDuty(p)
  BY <1>8
  DEF SetDuty, Locking, Kept, Running, Restorers, At, HotChannel, Open, vars, os, driver, worker, guard, hist
<1>9. CASE \E p \in Restorers : RestoreNext(p)
  BY <1>9
  DEF RestoreNext, Restorers, Locking, Kept, Running, Restorers, At, HotChannel, Open, vars, os, driver, worker, guard, hist
<1>10. CASE \E p \in Restorers : RestoreAnswered(p)
  <2>1. PICK p \in Restorers : RestoreAnswered(p)
    BY <1>10
  <2>2. job[p] \in Jobs
    BY <2>1 DEF RestoreAnswered, Files
  <2>3. /\ job'[p].from = job[p].from /\ job'[p].sp = job[p].sp
        /\ \A q \in Restorers \ {p} : job'[q] = job[q]
    BY <2>1, <2>2, JobAnswered
  <2>4. UNCHANGED <<file, gpc, rpc, wpc, todo, touched, wrote, hot, state>>
    BY <2>1 DEF RestoreAnswered, guard, worker
  <2>. QED
    BY <2>3, <2>4 DEF Kept, At, HotChannel
<1>11. CASE \E p \in Restorers : RestoreEnds(p)
  BY <1>11
  DEF RestoreEnds, WriteFile, Fault, Restorers, At, Locking, Kept, Running, Restorers, At, HotChannel, Open, vars, os, driver, worker, guard, hist
<1>12. CASE WorkerAdopts
  BY <1>12
  DEF WorkerAdopts, world, run_, Locking, Kept, Running, Restorers, At, HotChannel, Open, vars, os, driver, worker, guard, hist
<1>13. CASE WorkerRefused
  BY <1>13
  DEF WorkerRefused, world, run_, Locking, Kept, Running, Restorers, At, HotChannel, Open, vars, os, driver, worker, guard, hist
<1>14. CASE WorkerStarts
  BY <1>14
  DEF WorkerStarts, world, Locking, Kept, Running, Restorers, At, HotChannel, Open, vars, os, driver, worker, guard, hist
<1>15. CASE SampleGood
  BY <1>15
  DEF SampleGood, world, run_, Locking, Kept, Running, Restorers, At, HotChannel, Open, vars, os, driver, worker, guard, hist
<1>16. CASE \E h \in {0} \cup HotChannels : Aborts(h)
  BY <1>16
  DEF Aborts, world, Locking, Kept, Running, Restorers, At, HotChannel, Open, vars, os, driver, worker, guard, hist
<1>17. CASE FirstWrite
  <2>1. state \in StateFiles /\ state.st = "active"
    BY <1>17 DEF FirstWrite, Files, Running
  <2>2. /\ gpc # "restoring" /\ rpc # "restoring"
        /\ UNCHANGED <<job, gpc, rpc, todo, touched, hot, state>>
    BY <1>17 DEF FirstWrite, Locking, guard
  <2>3. CASE wrote' = TRUE /\ file' = state /\ UNCHANGED wpc
    <3>1. touched = {} /\ todo \subseteq {0}
      BY <1>17 DEF FirstWrite, Kept, Running, HotChannel
    <3>2. 0 \notin todo
      BY GuardianAssumption DEF Control, GuardianAssumption
    <3>3. todo = {}
      BY <3>1, <3>2
    <3>. QED
      BY <1>17, <2>1, <2>2, <2>3, <3>1, <3>3 DEF FirstWrite, Kept, Running, Restorers, At, Open
  <2>4. CASE wpc' = "closing" /\ UNCHANGED <<wrote, file>>
    BY <1>17, <2>1, <2>2, <2>4 DEF FirstWrite, Kept, Running, Restorers, At, HotChannel, Open
  <2>. QED
    BY <1>17, <2>3, <2>4 DEF FirstWrite
<1>18. CASE TestAuto
  BY <1>18
  DEF TestAuto, world, Locking, Kept, Running, Restorers, At, HotChannel, Open, vars, os, driver, worker, guard, hist
<1>19. CASE TestDuty
  BY <1>19
  DEF TestDuty, world, Locking, Kept, Running, Restorers, At, HotChannel, Open, vars, os, driver, worker, guard, hist
<1>20. CASE TestNextDuty
  BY <1>20
  DEF TestNextDuty, world, Locking, Kept, Running, Restorers, At, HotChannel, Open, vars, os, driver, worker, guard, hist
<1>21. CASE TestAnswered
  BY <1>21
  DEF TestAnswered, OpEnds, Locking, Kept, Running, Restorers, At, HotChannel, Open, vars, os, driver, worker, guard, hist
<1>22. CASE CloseNext
  BY <1>22
  DEF CloseNext, world, run_, Locking, Kept, Running, Restorers, At, HotChannel, Open, vars, os, driver, worker, guard, hist
<1>23. CASE CloseHot
  <2>. DEFINE c == Min1(todo)
              g == Hot(state, c)
  <2>0. todo # {} /\ todo \in SUBSET (1..4) /\ todo \subseteq Channels
    BY <1>23, GuardianAssumption DEF CloseHot, Control, GuardianAssumption
  <2>1. c \in Channels /\ c \in todo /\ c # 0
    <3>1. c \in todo
      BY <2>0, Least
    <3>2. c \in 1..4
      BY <2>0, <3>1
    <3>3. c # 0
      BY <3>2
    <3>. QED
      BY <2>0, <3>1, <3>3
  <2>2. state \in StateFiles /\ state.st = "active"
    BY <1>23 DEF CloseHot, Files, Running
  <2>3. g.st = "active" /\ g.run = state.run
    BY <2>1, <2>2, FileHot
  <2>4. /\ state' = g /\ file' \in {file, g} /\ c = HotChannel
        /\ touched' = touched \cup {c}
        /\ UNCHANGED <<job, gpc, rpc, todo, wrote, hot>> /\ wpc' = "raising"
    BY <1>23 DEF CloseHot, BeforeHot, ToRaise, guard
  <2>5. wrote
    BY <2>1, <2>4 DEF HotChannel
  <2>6. gpc # "restoring" /\ rpc # "restoring" /\ wpc = "closing"
    BY <1>23 DEF CloseHot, Locking
  <2>. QED
    BY <2>2, <2>3, <2>4, <2>5, <2>6 DEF Kept, Running, Restorers, At, HotChannel, Open
<1>24. CASE Raise
  BY <1>24
  DEF Raise, world, run_, Locking, Kept, Running, Restorers, At, HotChannel, Open, vars, os, driver, worker, guard, hist
<1>25. CASE CloseAnswered
  BY <1>25
  DEF CloseAnswered, OpEnds, Locking, Kept, Running, Restorers, At, HotChannel, Open, vars, os, driver, worker, guard, hist
<1>26. CASE NextClose
  BY <1>26
  DEF NextClose, Owed, HotChannel, LastPass, Locking, Kept, Running, Restorers, At, HotChannel, Open, vars, os, driver, worker, guard, hist
<1>27. CASE Mark
  <2>1. state \in StateFiles
    BY <1>27 DEF Mark, Files, Running
  <2>2. file' = file \/ file'.st = "restored"
    BY <1>27, <2>1, FileMarked DEF Mark, WriteFile
  <2>3. UNCHANGED <<job, gpc, rpc>> /\ wpc' = "exiting" /\ gpc # "restoring" /\ rpc # "restoring"
    BY <1>27 DEF Mark, guard, run_, Locking
  <2>. QED
    BY <2>2, <2>3 DEF Kept, Running, Restorers, At
<1>28. CASE WorkerReaped
  BY <1>28
  DEF WorkerReaped, run_, Locking, Kept, Running, Restorers, At, HotChannel, Open, vars, os, driver, worker, guard, hist
<1>29. CASE TestDone
  BY <1>29
  DEF TestDone, world, Locking, Kept, Running, Restorers, At, HotChannel, Open, vars, os, driver, worker, guard, hist
<1>30. CASE RestoreLocks
  BY <1>30
  DEF RestoreLocks, Locking, Kept, Running, Restorers, At, HotChannel, Open, vars, os, driver, worker, guard, hist
<1>31. CASE RestoreFromRun
  <2>1. file \in StateFiles
    BY <1>31 DEF RestoreFromRun, Files, NoFile, Open
  <2>2. Restoring("restore", file, TRUE) /\ Open(file) /\ rpc = "reading" /\ UNCHANGED <<file, gpc, wpc>>
    BY <1>31 DEF RestoreFromRun, guard, worker
  <2>3. job'["restore"].from = file /\ job'["guardian"] = job["guardian"]
    <3>1. /\ job'["restore"] = [todo |-> DOMAIN file.chans, ok |-> TRUE, from |-> file, sp |-> TRUE]
          /\ job'["guardian"] = job["guardian"]
      BY <2>1, <2>2, JobSteps DEF Restorers
    <3>. QED
      BY <3>1
  <2>4. wpc = "off" /\ gpc # "restoring"
    BY <2>2 DEF Locking
  <2>. QED
    BY <2>2, <2>3, <2>4 DEF Kept, Restorers, At, Running
<1>32. CASE RestoreFromBundle
  <2>1. bundle \in StateFiles
    BY <1>32 DEF RestoreFromBundle, Files
  <2>2. Restoring("restore", bundle, FALSE) /\ rpc = "reading" /\ UNCHANGED <<file, gpc, wpc>>
    BY <1>32 DEF RestoreFromBundle, guard, worker
  <2>3. job'["restore"].sp = FALSE /\ job'["guardian"] = job["guardian"]
    <3>1. /\ job'["restore"] = [todo |-> DOMAIN bundle.chans, ok |-> TRUE, from |-> bundle, sp |-> FALSE]
          /\ job'["guardian"] = job["guardian"]
      BY <2>1, <2>2, JobSteps DEF Restorers
    <3>. QED
      BY <3>1
  <2>4. wpc = "off" /\ gpc # "restoring"
    BY <2>2 DEF Locking
  <2>. QED
    BY <2>2, <2>3, <2>4 DEF Kept, Restorers, At, Running
<1>33. CASE NothingToRestore
  BY <1>33
  DEF NothingToRestore, Locking, Kept, Running, Restorers, At, HotChannel, Open, vars, os, driver, worker, guard, hist
<1>34. CASE Discard
  BY <1>34
  DEF Discard, Open, Locking, Kept, Running, Restorers, At, HotChannel, Open, vars, os, driver, worker, guard, hist
<1>35. CASE RestoreDead
  BY <1>35
  DEF RestoreDead, Locking, Kept, Running, Restorers, At, HotChannel, Open, vars, os, driver, worker, guard, hist
<1>36. CASE \E p \in Procs : WriteTimesOut(p)
  BY <1>36
  DEF WriteTimesOut, Fault, Locking, Kept, Running, Restorers, At, HotChannel, Open, vars, os, driver, worker, guard, hist
<1>37. CASE KillWorker
  BY <1>37
  DEF KillWorker, WorkerAlive, Dies, Fault, Locking, Kept, Running, Restorers, At, HotChannel, Open, vars, os, driver, worker, guard, hist
<1>38. CASE KillGuardian
  BY <1>38
  DEF KillGuardian, Dies, Fault, Locking, Kept, Running, Restorers, At, HotChannel, Open, vars, os, driver, worker, guard, hist
<1>39. CASE KillRestore
  BY <1>39
  DEF KillRestore, Dies, Fault, Locking, Kept, Running, Restorers, At, HotChannel, Open, vars, os, driver, worker, guard, hist
<1>40. CASE Panics
  BY <1>40
  DEF Panics, Fault, Owed, HotChannel, LastPass, world, Locking, Kept, Running, Restorers, At, HotChannel, Open, vars, os, driver, worker, guard, hist
<1>41. CASE \E o \in BOOLEAN : ReloadModule(o)
  BY <1>41
  DEF ReloadModule, Fault, Locking, Kept, Running, Restorers, At, HotChannel, Open, vars, os, driver, worker, guard, hist
<1>42. CASE GuardianBegins
  BY <1>42
  DEF GuardianBegins, Locking, Kept, Running, Restorers, At, HotChannel, Open, vars, os, driver, worker, guard, hist
<1>43. CASE RestoreBegins
  BY <1>43
  DEF RestoreBegins, Locking, Kept, Running, Restorers, At, HotChannel, Open, vars, os, driver, worker, guard, hist
<1>44. CASE FangovStarts
  BY <1>44
  DEF FangovStarts, Locking, Kept, Running, Restorers, At, HotChannel, Open, vars, os, driver, worker, guard, hist
<1>45. CASE FangovLocks
  BY <1>45
  DEF FangovLocks, Locking, Kept, Running, Restorers, At, HotChannel, Open, vars, os, driver, worker, guard, hist
<1>46. CASE FangovStops
  BY <1>46
  DEF FangovStops, Locking, Kept, Running, Restorers, At, HotChannel, Open, vars, os, driver, worker, guard, hist
<1>47. CASE UNCHANGED vars
  BY <1>47
  DEF Locking, Kept, Running, Restorers, At, HotChannel, Open, vars, os, driver, worker, guard, hist
<1>. QED
  BY <1>1, <1>2, <1>3, <1>4, <1>5, <1>6, <1>7, <1>8, <1>9, <1>10, <1>11, <1>12, <1>13, <1>14, <1>15, <1>16, <1>17, <1>18, <1>19, <1>20, <1>21, <1>22, <1>23, <1>24, <1>25, <1>26, <1>27, <1>28, <1>29, <1>30, <1>31, <1>32, <1>33, <1>34, <1>35, <1>36, <1>37, <1>38, <1>39, <1>40, <1>41, <1>42, <1>43, <1>44, <1>45, <1>46, <1>47
  DEF Next, DriverSteps, GuardianSteps, WorkerSteps, RestoreSteps, Accidents, Procs, Restorers

-----------------------------------------------------------------------------
(* Requests to the driver.                                                 *)

\* What is appended to the queue, and what is left in its place.
LEMMA Appended ==
  ASSUME NEW s \in Seq(Requests), NEW q \in Requests
  PROVE  /\ Append(s, q) \in Seq(Requests) /\ Len(s) \in Nat /\ Len(Append(s, q)) = Len(s) + 1
         /\ Append(s, q)[Len(s) + 1] = q
         /\ \A i \in 1..Len(s) : Append(s, q)[i] = s[i]
OBVIOUS

\* What is left of the queue when its first request is served.
LEMMA Tailed ==
  ASSUME NEW s \in Seq(Requests), s # <<>>
  PROVE  /\ Head(s) = s[1] /\ s[1] \in Requests /\ Len(s) \in Nat \ {0}
         /\ Tail(s) \in Seq(Requests) /\ Len(Tail(s)) = Len(s) - 1
         /\ \A i \in 1..Len(s) - 1 : Tail(s)[i] = s[i + 1]
OBVIOUS

\* What is given up stays where it is.
LEMMA AbandonedType ==
  ASSUME Driver, NEW p \in Procs
  PROVE  /\ Abandoned(p) \in Seq(Requests) /\ Len(Abandoned(p)) = Len(queue) /\ Len(queue) \in Nat
         /\ \A i \in 1..Len(queue) :
              /\ Abandoned(p)[i].who = queue[i].who /\ Abandoned(p)[i].ch = queue[i].ch
              /\ Abandoned(p)[i].attr = queue[i].attr /\ Abandoned(p)[i].val = queue[i].val
              /\ Abandoned(p)[i].live <=> queue[i].live /\ queue[i].who # p
<1>1. queue \in Seq(Requests) /\ DOMAIN queue = 1..Len(queue) /\ Len(queue) \in Nat
  BY DEF Driver
<1>2. \A i \in 1..Len(queue) : queue[i] \in Requests
  BY <1>1
<1>. DEFINE a(i) == IF queue[i].who = p THEN [queue[i] EXCEPT !.live = FALSE] ELSE queue[i]
<1>3. ASSUME NEW i \in 1..Len(queue)
      PROVE  /\ a(i) \in Requests
             /\ a(i).who = queue[i].who /\ a(i).ch = queue[i].ch
             /\ a(i).attr = queue[i].attr /\ a(i).val = queue[i].val
             /\ a(i).live <=> queue[i].live /\ queue[i].who # p
  <2>1. queue[i] \in Requests
    BY <1>2
  <2>2. CASE queue[i].who = p
    BY <2>1, <2>2 DEF Requests
  <2>3. CASE queue[i].who # p
    BY <2>1, <2>3 DEF Requests
  <2>. QED
    BY <2>2, <2>3
<1>4. Abandoned(p) = [i \in 1..Len(queue) |-> a(i)]
  BY <1>1 DEF Abandoned
<1>. HIDE DEF a
<1>5. /\ Abandoned(p) \in [1..Len(queue) -> Requests]
      /\ \A i \in 1..Len(queue) : Abandoned(p)[i] = a(i)
  BY <1>3, <1>4
<1>6. Abandoned(p) \in Seq(Requests) /\ Len(Abandoned(p)) = Len(queue)
  BY <1>1, <1>5
<1>. QED
  BY <1>1, <1>3, <1>5, <1>6

\* What issuing a write does to the driver and its callers.
LEMMA Issue ==
  ASSUME Driver, NEW p \in Procs, NEW t \in Ops, Issued(p, t)
  PROVE  /\ queue' \in Seq(Requests) /\ Len(queue) \in Nat /\ Len(queue') \in Nat
         /\ res' \in [Procs -> {"idle", "wait", "ok", "err"}] /\ to' \in [Procs -> Ops \cup {NoOp}]
         /\ to'[p] = t
         /\ \A q \in Procs \ {p} : to'[q] = to[q] /\ res'[q] = res[q]
         /\ \/ res'[p] = "err" /\ queue' = queue
            \/ /\ res'[p] = "wait" /\ Len(queue') = Len(queue) + 1
               /\ queue'[Len(queue')].live /\ queue'[Len(queue')].who = p
               /\ Serves(queue'[Len(queue')], t)
         /\ \A i \in 1..Len(queue) : queue'[i] = queue[i]
         /\ \A i \in 1..Len(queue') : i \in 1..Len(queue) \/ queue'[i].ch = t.ch
<1>1. /\ to' \in [Procs -> Ops \cup {NoOp}] /\ to'[p] = t
      /\ \A q \in Procs \ {p} : to'[q] = to[q]
  BY DEF Driver, Issued
<1>2. queue \in Seq(Requests) /\ Len(queue) \in Nat
  BY DEF Driver
<1>3. CASE res' = [res EXCEPT ![p] = "err"] /\ queue' = queue
  BY <1>1, <1>2, <1>3 DEF Driver
<1>4. CASE /\ res' = [res EXCEPT ![p] = "wait"]
           /\ \E q \in Requests : q.live /\ q.who = p /\ Serves(q, t) /\ queue' = Append(queue, q)
  <2>1. PICK q \in Requests : q.live /\ q.who = p /\ Serves(q, t) /\ queue' = Append(queue, q)
    BY <1>4
  <2>2. /\ queue' \in Seq(Requests) /\ Len(queue') = Len(queue) + 1
        /\ queue'[Len(queue) + 1] = q /\ \A i \in 1..Len(queue) : queue'[i] = queue[i]
    BY <1>2, <2>1, Appended
  <2>3. \A i \in 1..Len(queue') : i \in 1..Len(queue) \/ queue'[i].ch = t.ch
    BY <1>2, <2>1, <2>2 DEF Serves
  <2>4. /\ res' \in [Procs -> {"idle", "wait", "ok", "err"}] /\ res'[p] = "wait"
        /\ \A x \in Procs \ {p} : res'[x] = res[x]
    BY <1>4 DEF Driver
  <2>. QED
    BY <1>1, <1>2, <2>1, <2>2, <2>3, <2>4
<1>. QED
  BY <1>3, <1>4 DEF Issued

\* RestoreTo() and the second write of a duty issue a write.
LEMMA RestoreToIssues ==
  ASSUME NEW p \in Procs, NEW d \in 0..MaxFaults, NEW c \in Channels, NEW v \in ChanValues,
         RestoreTo(p, d, c, v)
  PROVE  \E t \in Ops : t.ch = c /\ t.val = v /\ Issued(p, t)
<1>. DEFINE t == [step |-> IF v = "auto" THEN "last" ELSE "first", dev |-> d, ch |-> c, val |-> v]
            q == [who |-> p, live |-> TRUE, ch |-> c,
                  attr |-> IF v = "auto" THEN "auto" ELSE "manual", val |-> v]
<1>1. t \in Ops /\ t.ch = c /\ t.val = v
  BY DEF Ops
<1>2. q \in Requests /\ q.live /\ q.who = p /\ Serves(q, t)
  BY DEF Requests, Serves
<1>3. /\ to' = [to EXCEPT ![p] = t]
      /\ \/ res' = [res EXCEPT ![p] = "err"] /\ queue' = queue
         \/ res' = [res EXCEPT ![p] = "wait"] /\ queue' = Append(queue, q)
  BY DEF RestoreTo, Write
<1>. HIDE DEF t, q
<1>. QED
  BY <1>1, <1>2, <1>3 DEF Issued

\* Once manual mode is confirmed the duty is asked for.
LEMMA SetDutyIssues ==
  ASSUME Driver, NEW p \in Procs, SetDuty(p)
  PROVE  \E t \in Ops : t.ch = to[p].ch /\ t.val = to[p].val /\ Issued(p, t)
<1>. DEFINE t == [to[p] EXCEPT !.step = "last"]
            q == [who |-> p, live |-> TRUE, ch |-> to[p].ch, attr |-> "duty", val |-> to[p].val]
<1>1. to[p] \in Ops
  BY DEF SetDuty, Driver, NoOp
<1>2. t \in Ops /\ t.ch = to[p].ch /\ t.val = to[p].val /\ t.step = "last"
  BY <1>1 DEF Ops
<1>3. q \in Requests /\ q.live /\ q.who = p /\ Serves(q, t)
  BY <1>1, <1>2 DEF Requests, Serves, Ops
<1>4. to' = [to EXCEPT ![p] = t]
  BY DEF SetDuty
<1>5. \/ res' = [res EXCEPT ![p] = "err"] /\ queue' = queue
      \/ res' = [res EXCEPT ![p] = "wait"] /\ queue' = Append(queue, q)
  BY DEF SetDuty, Write
<1>. HIDE DEF t, q
<1>. QED
  BY <1>2, <1>3, <1>4, <1>5 DEF Issued

\* A test asks for a duty of its own channel only.
LEMMA TestNextDutyIssues ==
  ASSUME Control, Files, TestNextDuty
  PROVE  \E t \in Ops : t.ch = gch /\ Issued("worker", t)
<1>. DEFINE t == [step |-> "last", dev |-> state.dev, ch |-> gch, val |-> "test"]
            q == [who |-> "worker", live |-> TRUE, ch |-> gch, attr |-> "duty", val |-> "test"]
<1>1. state.dev \in 0..MaxFaults /\ gch \in Channels
  BY FileParts DEF TestNextDuty, Files, Running, Control
<1>2. t \in Ops /\ t.ch = gch
  BY <1>1 DEF Ops, ChanValues
<1>3. q \in Requests /\ q.live /\ q.who = "worker" /\ Serves(q, t)
  BY <1>1 DEF Requests, Serves, ChanValues, Procs
<1>4. /\ to' = [to EXCEPT !["worker"] = t]
      /\ \/ res' = [res EXCEPT !["worker"] = "err"] /\ queue' = queue
         \/ res' = [res EXCEPT !["worker"] = "wait"] /\ queue' = Append(queue, q)
  BY DEF TestNextDuty, Write
<1>. HIDE DEF t, q
<1>. QED
  BY <1>2, <1>3, <1>4 DEF Issued

\* The operation each of the actions that write gets its process into.
LEMMA TestIssues ==
  ASSUME Control, Files, TestAuto \/ TestDuty \/ TestNextDuty
  PROVE  \E t \in Ops : t.ch = gch /\ Issued("worker", t)
<1>1. state \in StateFiles /\ state.dev \in 0..MaxFaults /\ gch \in Channels
  BY FileParts DEF TestAuto, TestDuty, TestNextDuty, Files, Running, Control
<1>2. CASE TestAuto
  <2>1. RestoreTo("worker", state.dev, gch, "auto") /\ "auto" \in ChanValues /\ "worker" \in Procs
    BY <1>2 DEF TestAuto, ChanValues, RestoreValues, Procs
  <2>. QED
    BY <1>1, <2>1, RestoreToIssues
<1>3. CASE TestDuty
  <2>1. RestoreTo("worker", state.dev, gch, "test") /\ "test" \in ChanValues /\ "worker" \in Procs
    BY <1>3 DEF TestDuty, ChanValues, RestoreValues, Procs
  <2>. QED
    BY <1>1, <2>1, RestoreToIssues
<1>. QED
  BY <1>2, <1>3, TestNextDutyIssues

\* Close() goes on with a channel of its list.
LEMMA NextOfClose ==
  ASSUME Control, todo # {}
  PROVE  /\ Min1(todo) \in todo /\ Min1(todo) \in Channels /\ Min1(todo) # 0
         /\ Channels \in SUBSET (1..4)
<1>1. todo \in SUBSET (1..4) /\ todo \subseteq Channels /\ Channels \in SUBSET (1..4)
  BY GuardianAssumption DEF Control, GuardianAssumption
<1>2. Min1(todo) \in todo
  BY <1>1, Least
<1>3. Min1(todo) \in 1..4
  BY <1>1, <1>2
<1>4. Min1(todo) # 0
  BY <1>3
<1>. QED
  BY <1>1, <1>2, <1>4

\* Close() asks for the restore value of a channel of its list.
LEMMA CloseNextIssues ==
  ASSUME Control, Files, CloseNext
  PROVE  \E t \in Ops : /\ t.ch \in todo /\ t.ch # HotChannel /\ t.val = Restore[t.ch]
                        /\ Issued("worker", t)
<1>. DEFINE c == Min1(todo)
<1>1. /\ todo # {} /\ c # HotChannel /\ wpc \in Running
      /\ RestoreTo("worker", state.dev, c, Restore[c])
  BY DEF CloseNext, ToRaise, Running
<1>2. state \in StateFiles
  BY <1>1 DEF Files
<1>3. state.dev \in 0..MaxFaults /\ "worker" \in Procs
  BY <1>2, FileParts DEF Procs
<1>4. c \in todo /\ c \in Channels
  BY <1>1, NextOfClose
<1>5. Restore[c] \in ChanValues
  BY <1>4, RestoreType DEF ChanValues
<1>. HIDE DEF c
<1>6. \E t \in Ops : t.ch = c /\ t.val = Restore[c] /\ Issued("worker", t)
  BY <1>1, <1>3, <1>4, <1>5, RestoreToIssues
<1>. QED
  BY <1>1, <1>4, <1>6

\* restoreHot asks for 255.
LEMMA RaiseIssues ==
  ASSUME Control, Files, todo # {}, Raise
  PROVE  \E t \in Ops : t.ch = Min1(todo) /\ t.val = "full" /\ Issued("worker", t)
<1>. DEFINE c == Min1(todo)
<1>1. wpc \in Running /\ RestoreTo("worker", state.dev, c, "full")
  BY DEF Raise, Running
<1>2. state \in StateFiles
  BY <1>1 DEF Files
<1>3. state.dev \in 0..MaxFaults /\ "worker" \in Procs /\ "full" \in ChanValues
  BY <1>2, FileParts DEF Procs, ChanValues, RestoreValues
<1>4. c \in Channels
  BY NextOfClose
<1>. HIDE DEF c
<1>5. \E t \in Ops : t.ch = c /\ t.val = "full" /\ Issued("worker", t)
  BY <1>1, <1>3, <1>4, RestoreToIssues
<1>. QED
  BY <1>5 DEF c

\* A restore asks for the value in its file, or 255 for the PCIe channel.
LEMMA RestoreNextIssues ==
  ASSUME Files, Restoration, NEW p \in Restorers, RestoreNext(p)
  PROVE  \E t \in Ops : /\ t.ch \in job[p].todo /\ t.val = FileValue(job[p].from, t.ch)
                        /\ Issued(p, t)
<1>. DEFINE c == Min1(job[p].todo)
<1>1. /\ job[p] \in Jobs /\ job[p].todo # {} /\ job[p].todo \subseteq DOMAIN job[p].from.chans
      /\ RestoreTo(p, job[p].from.dev, c, FileValue(job[p].from, c))
  BY DEF RestoreNext, Files, Restoration, JobOf
<1>2. job[p].from \in StateFiles
  BY <1>1 DEF Jobs
<1>3. /\ job[p].from.dev \in 0..MaxFaults /\ p \in Procs
      /\ DOMAIN job[p].from.chans \subseteq Channels
      /\ job[p].from.chans \in [DOMAIN job[p].from.chans -> {"auto", "full", "stop"}]
  BY <1>2, FileParts DEF Procs, Restorers
<1>4. job[p].todo \in SUBSET (1..4)
  BY <1>1, <1>3, GuardianAssumption DEF GuardianAssumption
<1>5. c \in job[p].todo
  BY <1>1, <1>4, Least
<1>. HIDE DEF c
<1>6. c \in Channels /\ FileValue(job[p].from, c) \in ChanValues
  BY <1>1, <1>3, <1>5 DEF FileValue, ChanValues, RestoreValues
<1>7. \E t \in Ops : t.ch = c /\ t.val = FileValue(job[p].from, c) /\ Issued(p, t)
  BY <1>1, <1>3, <1>6, RestoreToIssues
<1>. QED
  BY <1>5, <1>7

\* Nobody writes but a process that has the lock.
LEMMA OneWorks ==
  ASSUME Locking, NEW p \in Procs, NEW q \in Procs, Works(p), Works(q)
  PROVE  p = q
BY DEF Locking, Works, Procs, At, Running

\* While a process is not waiting nothing of it or of another is.
LEMMA Quiet ==
  ASSUME Driver, Locking, Queueing, NEW p \in Procs, Works(p), res[p] # "wait"
  PROVE  /\ \A i \in 1..Len(queue) : ~queue[i].live
         /\ \A q \in Procs \ {p} : to[q] = NoOp /\ res[q] = "idle"
<1>1. \A q \in Procs \ {p} : to[q] = NoOp /\ res[q] = "idle"
  BY OneWorks DEF Queueing
<1>2. \A i \in 1..Len(queue) : queue[i].who \in Procs
  <2>1. \A i \in 1..Len(queue) : queue[i] \in Requests
    BY DEF Driver
  <2>. QED
    BY <2>1 DEF Requests
<1>. QED
  BY <1>1, <1>2 DEF Queueing

\* A step that leaves the driver alone.
LEMMA QueueingFrame ==
  ASSUME Queueing, UNCHANGED <<chan, queue, res, to>>,
         \A p \in Procs : to[p] # NoOp => Works(p)',
         wpc' \in {"sampling", "testing", "raising"} => to["worker"] = NoOp
  PROVE  Queueing'
BY DEF Queueing

\* A process issues its next write.
LEMMA QueueingIssue ==
  ASSUME Driver, Locking, Queueing, NEW p \in Procs, NEW t \in Ops, Issued(p, t),
         Works(p), res[p] # "wait", Works(p)',
         IF p = "worker" THEN wpc' \notin {"sampling", "testing", "raising"} ELSE wpc' = wpc
  PROVE  Queueing'
<1>1. /\ \A i \in 1..Len(queue) : ~queue[i].live
      /\ \A q \in Procs \ {p} : to[q] = NoOp /\ res[q] = "idle"
  BY Quiet
<1>2. /\ queue' \in Seq(Requests) /\ Len(queue) \in Nat /\ Len(queue') \in Nat
      /\ to'[p] = t
      /\ \A q \in Procs \ {p} : to'[q] = to[q] /\ res'[q] = res[q]
      /\ \A i \in 1..Len(queue) : queue'[i] = queue[i]
  BY Issue
<1>3. \/ res'[p] = "err" /\ queue' = queue
      \/ /\ res'[p] = "wait" /\ Len(queue') = Len(queue) + 1
         /\ queue'[Len(queue')].live /\ queue'[Len(queue')].who = p
         /\ Serves(queue'[Len(queue')], t)
  BY Issue
<1>4. t # NoOp
  BY DEF Ops, NoOp
<1>5. \A q \in Procs : to'[q] # NoOp => Works(q)'
  BY <1>1, <1>2
<1>6. \A q \in Procs : to'[q] = NoOp => res'[q] = "idle"
  BY <1>1, <1>2, <1>4
<1>7. wpc' \in {"sampling", "testing", "raising"} => to'["worker"] = NoOp
  BY <1>1, <1>2 DEF Queueing, Procs
<1>8. \A i \in 1..Len(queue') :
        queue'[i].live => /\ i = Len(queue') /\ res'[queue'[i].who] = "wait"
                          /\ Serves(queue'[i], to'[queue'[i].who])
  <2>1. CASE res'[p] = "err" /\ queue' = queue
    BY <1>1, <2>1
  <2>2. CASE /\ res'[p] = "wait" /\ Len(queue') = Len(queue) + 1
             /\ queue'[Len(queue')].live /\ queue'[Len(queue')].who = p
             /\ Serves(queue'[Len(queue')], t)
    <3>1. \A i \in 1..Len(queue') : queue'[i].live => i = Len(queue')
      BY <1>1, <1>2, <2>2
    <3>. QED
      BY <1>2, <2>2, <3>1
  <2>. QED
    BY <1>3, <2>1, <2>2
<1>9. \A q \in Procs : res'[q] = "wait" =>
        Len(queue') > 0 /\ queue'[Len(queue')].live /\ queue'[Len(queue')].who = q
  BY <1>1, <1>2, <1>3
<1>10. \A q \in Procs : res'[q] # "ok"
  BY <1>1, <1>2, <1>3
<1>. QED
  BY <1>5, <1>6, <1>7, <1>8, <1>9, <1>10 DEF Queueing

\* A process has taken note of the answer to its write.
LEMMA QueueingEnds ==
  ASSUME Driver, Queueing, NEW p \in Procs, OpEnds(p), res[p] # "wait",
         \A q \in Procs \ {p} : Works(q) => Works(q)',
         IF p = "worker" THEN TRUE ELSE wpc' = wpc
  PROVE  Queueing'
<1>1. /\ to'[p] = NoOp /\ res'[p] = "idle"
      /\ \A q \in Procs \ {p} : to'[q] = to[q] /\ res'[q] = res[q]
      /\ UNCHANGED <<chan, queue>>
  BY DEF OpEnds, Driver
<1>2. \A i \in 1..Len(queue) : queue[i].who \in Procs
  <2>1. \A i \in 1..Len(queue) : queue[i] \in Requests
    BY DEF Driver
  <2>. QED
    BY <2>1 DEF Requests
<1>3. \A i \in 1..Len(queue) : queue[i].live => queue[i].who # p
  BY DEF Queueing
<1>4. \A i \in 1..Len(queue) :
        queue[i].live => /\ i = Len(queue) /\ res'[queue[i].who] = "wait"
                         /\ Serves(queue[i], to'[queue[i].who])
  BY <1>1, <1>2, <1>3 DEF Queueing
<1>5. \A q \in Procs : res'[q] = "ok" =>
        Len(queue) = 0 /\ (to'[q].step = "last" => chan[to'[q].ch] \in {to'[q].val, "handed"})
  BY <1>1 DEF Queueing
<1>6. \A q \in Procs : res'[q] = "wait" =>
        Len(queue) > 0 /\ queue[Len(queue)].live /\ queue[Len(queue)].who = q
  BY <1>1 DEF Queueing
<1>7. \A q \in Procs : (to'[q] # NoOp => Works(q)') /\ (to'[q] = NoOp => res'[q] = "idle")
  BY <1>1 DEF Queueing
<1>8. wpc' \in {"sampling", "testing", "raising"} => to'["worker"] = NoOp
  BY <1>1 DEF Queueing, Procs
<1>. QED
  BY <1>1, <1>4, <1>5, <1>6, <1>7, <1>8 DEF Queueing

\* A process gives up its write or dies.
LEMMA QueueingGivesUp ==
  ASSUME Driver, Queueing, NEW p \in Procs, queue' = Abandoned(p), UNCHANGED chan,
         \/ res' = [res EXCEPT ![p] = "err"] /\ res[p] = "wait" /\ to' = to
         \/ res' = [res EXCEPT ![p] = "idle"] /\ to' = [to EXCEPT ![p] = NoOp],
         \A q \in Procs \ {p} : Works(q) => Works(q)',
         to'[p] # NoOp => Works(p)',
         wpc' \in {"sampling", "testing", "raising"} => wpc' = wpc
  PROVE  Queueing'
<1>1. /\ Len(queue') = Len(queue) /\ Len(queue) \in Nat
      /\ \A i \in 1..Len(queue) :
           /\ queue'[i].who = queue[i].who /\ queue'[i].ch = queue[i].ch
           /\ queue'[i].attr = queue[i].attr /\ queue'[i].val = queue[i].val
           /\ queue'[i].live <=> queue[i].live /\ queue[i].who # p
  BY AbandonedType
<1>2. /\ \A q \in Procs \ {p} : to'[q] = to[q] /\ res'[q] = res[q]
      /\ \/ res'[p] = "err" /\ res[p] = "wait" /\ to'[p] = to[p]
         \/ res'[p] = "idle" /\ to'[p] = NoOp
  BY DEF Driver
<1>3. \A i \in 1..Len(queue) : queue[i].who \in Procs
  <2>1. \A i \in 1..Len(queue) : queue[i] \in Requests
    BY DEF Driver
  <2>. QED
    BY <2>1 DEF Requests
<1>4. \A i \in 1..Len(queue') :
        queue'[i].live => /\ i = Len(queue') /\ res'[queue'[i].who] = "wait"
                          /\ Serves(queue'[i], to'[queue'[i].who])
  <2>. SUFFICES ASSUME NEW i \in 1..Len(queue), queue'[i].live
                PROVE  /\ i = Len(queue) /\ res'[queue'[i].who] = "wait"
                       /\ Serves(queue'[i], to'[queue'[i].who])
    BY <1>1
  <2>1. queue[i].live /\ queue[i].who # p /\ queue[i].who \in Procs /\ queue'[i].who = queue[i].who
    BY <1>1, <1>3
  <2>2. i = Len(queue) /\ res[queue[i].who] = "wait" /\ Serves(queue[i], to[queue[i].who])
    BY <2>1 DEF Queueing
  <2>3. Serves(queue'[i], to[queue[i].who])
    BY <1>1, <2>2 DEF Serves
  <2>. QED
    BY <1>2, <2>1, <2>2, <2>3
<1>5. \A q \in Procs : res'[q] = "wait" =>
        Len(queue') > 0 /\ queue'[Len(queue')].live /\ queue'[Len(queue')].who = q
  <2>. SUFFICES ASSUME NEW q \in Procs, res'[q] = "wait"
                PROVE  Len(queue') > 0 /\ queue'[Len(queue')].live /\ queue'[Len(queue')].who = q
    OBVIOUS
  <2>1. q # p /\ res[q] = "wait"
    BY <1>2
  <2>2. Len(queue) > 0 /\ queue[Len(queue)].live /\ queue[Len(queue)].who = q
    BY <2>1 DEF Queueing
  <2>3. Len(queue) \in 1..Len(queue)
    BY <1>1, <2>2
  <2>. QED
    BY <1>1, <2>1, <2>2, <2>3
<1>6. \A q \in Procs : res'[q] = "ok" =>
        /\ Len(queue') = 0
        /\ (to'[q].step = "last" => chan'[to'[q].ch] \in {to'[q].val, "handed"})
  BY <1>1, <1>2 DEF Queueing
<1>7. \A q \in Procs : (to'[q] # NoOp => Works(q)') /\ (to'[q] = NoOp => res'[q] = "idle")
  <2>1. \A q \in Procs \ {p} : (to'[q] # NoOp => Works(q)') /\ (to'[q] = NoOp => res'[q] = "idle")
    BY <1>2 DEF Queueing
  <2>2. (to'[p] # NoOp => Works(p)') /\ (to'[p] = NoOp => res'[p] = "idle")
    BY <1>2 DEF Queueing, Driver
  <2>. QED
    BY <2>1, <2>2
<1>8. wpc' \in {"sampling", "testing", "raising"} => to'["worker"] = NoOp
  BY <1>2 DEF Queueing, Procs
<1>. QED
  BY <1>4, <1>5, <1>6, <1>7, <1>8 DEF Queueing

\* The driver answers the request at the head of the queue.
LEMMA AnswerType ==
  ASSUME Driver, queue # <<>>, NEW a \in {"ok", "err"}, Answer(Head(queue), a)
  PROVE  /\ Head(queue) = queue[1] /\ queue[1] \in Requests
         /\ Len(queue) \in Nat \ {0} /\ Len(queue') = Len(queue) - 1
         /\ queue' \in Seq(Requests) /\ \A i \in 1..Len(queue') : queue'[i] = queue[i + 1]
         /\ res' \in [Procs -> {"idle", "wait", "ok", "err"}]
         /\ \A q \in Procs : res'[q] = IF queue[1].live /\ queue[1].who = q THEN a ELSE res[q]
         /\ UNCHANGED <<os, to, file, bundle, guard, job, worker, rpc, byHand, unlogged>>
<1>1. /\ Head(queue) = queue[1] /\ queue[1] \in Requests
      /\ Len(queue) \in Nat \ {0} /\ Len(Tail(queue)) = Len(queue) - 1
      /\ Tail(queue) \in Seq(Requests) /\ \A i \in 1..Len(queue) - 1 : Tail(queue)[i] = queue[i + 1]
  BY Tailed DEF Driver
<1>2. queue' = Tail(queue)
  BY DEF Answer
<1>3. res' = IF queue[1].live THEN [res EXCEPT ![queue[1].who] = a] ELSE res
  BY <1>1 DEF Answer
<1>4. queue[1].who \in Procs
  BY <1>1 DEF Requests
<1>5. /\ res' \in [Procs -> {"idle", "wait", "ok", "err"}]
      /\ \A q \in Procs : res'[q] = IF queue[1].live /\ queue[1].who = q THEN a ELSE res[q]
  BY <1>3, <1>4 DEF Driver
<1>6. UNCHANGED <<os, to, file, bundle, guard, job, worker, rpc, byHand, unlogged>>
  BY DEF Answer
<1>. QED
  BY <1>1, <1>2, <1>5, <1>6

\* What a request does that the driver serves.
LEMMA Served ==
  ASSUME Driver, DriverServes
  PROVE  /\ queue # <<>> /\ UNCHANGED faults
         /\ \/ /\ Answer(Head(queue), "ok") /\ ~Refuses(queue[1])
               /\ chan' \in [Channels -> ChanValues]
               /\ \A c \in Channels :
                    chan'[c] = IF c = queue[1].ch THEN Effect(queue[1], chan[c]) ELSE chan[c]
            \/ Answer(Head(queue), "err") /\ UNCHANGED chan
<1>. DEFINE h == Head(queue)
<1>1. /\ queue # <<>> /\ UNCHANGED faults
      /\ \/ ~Refuses(h) /\ chan' = [chan EXCEPT ![h.ch] = Effect(h, @)] /\ Answer(h, "ok")
         \/ Refuses(h) /\ UNCHANGED chan /\ Answer(h, "err")
  BY Zenon DEF DriverServes
<1>2. CASE ~Refuses(h) /\ chan' = [chan EXCEPT ![h.ch] = Effect(h, @)] /\ Answer(h, "ok")
  <2>1. h = queue[1] /\ h \in Requests
    BY <1>1, Tailed DEF Driver
  <2>. HIDE DEF h
  <2>2. h.ch \in Channels /\ h.attr \in {"auto", "manual", "duty"} /\ h.val \in ChanValues
    BY <2>1 DEF Requests
  <2>3. chan[h.ch] \in ChanValues
    BY <2>2 DEF Driver
  <2>4. Effect(h, chan[h.ch]) \in ChanValues
    BY <2>2, <2>3 DEF Effect, ChanValues, RestoreValues
  <2>5. /\ chan' \in [Channels -> ChanValues]
        /\ \A c \in Channels : chan'[c] = IF c = h.ch THEN Effect(h, chan[c]) ELSE chan[c]
    BY <1>2, <2>2, <2>4 DEF Driver
  <2>. QED
    BY <1>1, <1>2, <2>1, <2>5 DEF h
<1>. QED
  BY <1>1, <1>2

\* The driver serves the first request and keeps the order of the others.
LEMMA QueueingAnswer ==
  ASSUME Driver, Queueing, queue # <<>>, NEW a \in {"ok", "err"}, Answer(Head(queue), a),
         a = "ok" => /\ queue[1].attr = "auto" => chan'[queue[1].ch] = "auto"
                     /\ queue[1].attr = "duty" => chan'[queue[1].ch] = queue[1].val
  PROVE  Queueing'
<1>1. /\ Len(queue) \in Nat \ {0} /\ Len(queue') = Len(queue) - 1
      /\ \A i \in 1..Len(queue') : queue'[i] = queue[i + 1]
      /\ \A q \in Procs : res'[q] = IF queue[1].live /\ queue[1].who = q THEN a ELSE res[q]
  BY AnswerType
<1>2. UNCHANGED <<to, gpc, rpc, wpc>>
  BY DEF Answer, guard, worker
<1>3. \A i \in 1..Len(queue) :
        queue[i].live => /\ i = Len(queue) /\ res[queue[i].who] = "wait"
                         /\ Serves(queue[i], to[queue[i].who])
  BY DEF Queueing
<1>4. \A q \in Procs : res[q] = "wait" =>
        queue[Len(queue)].live /\ queue[Len(queue)].who = q
  BY DEF Queueing
<1>5. \A q \in Procs : res[q] # "ok"
  BY <1>1 DEF Queueing
<1>6. queue[1].who \in Procs /\ \A i \in 1..Len(queue) : queue[i].who \in Procs
  <2>1. \A i \in 1..Len(queue) : queue[i] \in Requests
    BY DEF Driver
  <2>. QED
    BY <1>1, <2>1 DEF Requests
<1>7. /\ \A p \in Procs : (to'[p] # NoOp => Works(p)') /\ (to'[p] = NoOp => res'[p] = "idle")
      /\ wpc' \in {"sampling", "testing", "raising"} => to'["worker"] = NoOp
  <2>1. queue[1].live => res[queue[1].who] = "wait"
    BY <1>1, <1>3
  <2>2. \A p \in Procs : to[p] = NoOp => res'[p] = "idle"
    BY <1>1, <2>1 DEF Queueing
  <2>. QED
    BY <1>2, <2>2 DEF Queueing, Works, At
<1>8. CASE queue[1].live
  <2>1. Len(queue) = 1 /\ res[queue[1].who] = "wait" /\ Serves(queue[1], to[queue[1].who])
    BY <1>1, <1>3, <1>8
  <2>2. Len(queue') = 0
    BY <1>1, <2>1
  <2>3. \A q \in Procs : q # queue[1].who => res'[q] # "wait" /\ res'[q] # "ok"
    BY <1>1, <1>4, <1>5, <2>1
  <2>4. res'[queue[1].who] = a
    BY <1>1, <1>6, <1>8
  <2>5. a = "ok" /\ to[queue[1].who].step = "last" =>
          chan'[to[queue[1].who].ch] = to[queue[1].who].val
    BY <2>1 DEF Serves
  <2>6. \A q \in Procs : res'[q] = "ok" =>
          (to[q].step = "last" => chan'[to[q].ch] \in {to[q].val, "handed"})
    BY <2>3, <2>4, <2>5
  <2>7. \A q \in Procs : res'[q] # "wait"
    BY <2>3, <2>4
  <2>. QED
    BY <1>2, <1>7, <2>2, <2>6, <2>7 DEF Queueing
<1>9. CASE ~queue[1].live
  <2>1. \A q \in Procs : res'[q] = res[q]
    BY <1>1, <1>9
  <2>2. \A q \in Procs : res[q] = "wait" => Len(queue) > 1
    BY <1>1, <1>4, <1>9
  <2>3. \A q \in Procs : res'[q] = "wait" =>
          Len(queue') > 0 /\ queue'[Len(queue')].live /\ queue'[Len(queue')].who = q
    <3>. SUFFICES ASSUME NEW q \in Procs, res'[q] = "wait"
                  PROVE  Len(queue') > 0 /\ queue'[Len(queue')].live /\ queue'[Len(queue')].who = q
      OBVIOUS
    <3>1. res[q] = "wait" /\ Len(queue) > 1
      BY <2>1, <2>2
    <3>2. Len(queue') \in 1..Len(queue') /\ Len(queue') + 1 = Len(queue)
      BY <1>1, <3>1
    <3>3. queue'[Len(queue')] = queue[Len(queue)]
      BY <1>1, <3>2
    <3>. QED
      BY <1>4, <3>1, <3>2, <3>3
  <2>4. \A i \in 1..Len(queue') :
          queue'[i].live => /\ i = Len(queue') /\ res'[queue'[i].who] = "wait"
                            /\ Serves(queue'[i], to'[queue'[i].who])
    <3>. SUFFICES ASSUME NEW i \in 1..Len(queue'), queue'[i].live
                  PROVE  /\ i = Len(queue') /\ res'[queue'[i].who] = "wait"
                         /\ Serves(queue'[i], to'[queue'[i].who])
      OBVIOUS
    <3>1. i + 1 \in 1..Len(queue) /\ queue'[i] = queue[i + 1]
      BY <1>1
    <3>2. /\ i + 1 = Len(queue) /\ res[queue[i + 1].who] = "wait"
          /\ Serves(queue[i + 1], to[queue[i + 1].who]) /\ queue[i + 1].who \in Procs
      BY <1>3, <1>6, <3>1
    <3>. QED
      BY <1>1, <1>2, <2>1, <3>1, <3>2
  <2>. QED
    BY <1>5, <1>7, <2>1, <2>3, <2>4 DEF Queueing
<1>. QED
  BY <1>8, <1>9

\* Every step keeps the types of the driver and its callers.
LEMMA DriverStep ==
  Control /\ Files /\ Driver /\ Locking /\ Queueing /\ Closing /\ Restoration /\ [Next]_vars => Driver'
<1>. SUFFICES ASSUME Control, Files, Driver, Locking, Queueing, Closing, Restoration, [Next]_vars PROVE Driver'
  OBVIOUS
<1>1. CASE DriverServes
  <2>1. queue # <<>> /\ \E a \in {"ok", "err"} : Answer(Head(queue), a)
    BY <1>1, Served
  <2>2. /\ queue' \in Seq(Requests) /\ res' \in [Procs -> {"idle", "wait", "ok", "err"}]
        /\ UNCHANGED to
    BY <2>1, AnswerType
  <2>3. chan' \in [Channels -> ChanValues]
    BY <1>1, Served DEF Driver
  <2>. QED
    BY <2>2, <2>3 DEF Driver
<1>2. CASE DriverFails
  <2>1. /\ queue # <<>> /\ Answer(Head(queue), "err")
        /\ chan' = [chan EXCEPT ![Head(queue).ch] = "unknown"]
    BY <1>2 DEF DriverFails
  <2>2. /\ queue' \in Seq(Requests) /\ res' \in [Procs -> {"idle", "wait", "ok", "err"}]
        /\ UNCHANGED to
    BY <2>1, AnswerType
  <2>3. chan' \in [Channels -> ChanValues]
    BY <2>1 DEF Driver, ChanValues
  <2>. QED
    BY <2>2, <2>3 DEF Driver
<1>3. CASE \E c \in Channels : GuardianLocks(c)
  BY <1>3
  DEF GuardianLocks, Driver, driver, vars, os, driver, worker, guard, hist, world, run_
<1>4. CASE GuardianReads
  BY <1>4
  DEF GuardianReads, Driver, driver, vars, os, driver, worker, guard, hist, world, run_
<1>5. CASE StartWorker
  BY <1>5
  DEF StartWorker, Driver, driver, vars, os, driver, worker, guard, hist, world, run_
<1>6. CASE WorkerGone
  BY <1>6
  DEF WorkerGone, Restoring, Driver, driver, vars, os, driver, worker, guard, hist, world, run_
<1>7. CASE GuardianDead
  BY <1>7
  DEF GuardianDead, run_, Driver, driver, vars, os, driver, worker, guard, hist, world, run_
<1>8. CASE \E p \in Procs : SetDuty(p)
  <2>1. PICK p \in Procs : SetDuty(p)
    BY <1>8
  <2>2. \E t \in Ops : Issued(p, t)
    BY <2>1, SetDutyIssues
  <2>3. UNCHANGED chan
    BY <2>1 DEF SetDuty
  <2>. QED
    BY <2>2, <2>3, Issue DEF Driver
<1>9. CASE \E p \in Restorers : RestoreNext(p)
  <2>1. PICK p \in Restorers : RestoreNext(p)
    BY <1>9
  <2>2. p \in Procs /\ \E t \in Ops : Issued(p, t)
    BY <2>1, RestoreNextIssues DEF Procs, Restorers
  <2>3. UNCHANGED chan
    BY <2>1 DEF RestoreNext
  <2>. QED
    BY <2>2, <2>3, Issue DEF Driver
<1>10. CASE \E p \in Restorers : RestoreAnswered(p)
  BY <1>10
  DEF RestoreAnswered, OpEnds, Restorers, Procs, Driver
<1>11. CASE \E p \in Restorers : RestoreEnds(p)
  BY <1>11
  DEF RestoreEnds, WriteFile, Fault, Restorers, At, Driver, driver, vars, os, driver, worker, guard, hist, world, run_
<1>12. CASE WorkerAdopts
  BY <1>12
  DEF WorkerAdopts, world, run_, Driver, driver, vars, os, driver, worker, guard, hist, world, run_
<1>13. CASE WorkerRefused
  BY <1>13
  DEF WorkerRefused, world, run_, Driver, driver, vars, os, driver, worker, guard, hist, world, run_
<1>14. CASE WorkerStarts
  BY <1>14
  DEF WorkerStarts, world, Driver, driver, vars, os, driver, worker, guard, hist, world, run_
<1>15. CASE SampleGood
  BY <1>15
  DEF SampleGood, world, run_, Driver, driver, vars, os, driver, worker, guard, hist, world, run_
<1>16. CASE \E h \in {0} \cup HotChannels : Aborts(h)
  BY <1>16
  DEF Aborts, world, Driver, driver, vars, os, driver, worker, guard, hist, world, run_
<1>17. CASE FirstWrite
  BY <1>17
  DEF FirstWrite, Fault, Driver, driver, vars, os, driver, worker, guard, hist, world, run_
<1>18. CASE TestAuto
  <2>1. \E t \in Ops : Issued("worker", t)
    BY <1>18, TestIssues
  <2>2. UNCHANGED chan
    BY <1>18 DEF TestAuto, TestDuty, TestNextDuty, world
  <2>. QED
    BY <2>1, <2>2, Issue DEF Driver, Procs
<1>19. CASE TestDuty
  <2>1. \E t \in Ops : Issued("worker", t)
    BY <1>19, TestIssues
  <2>2. UNCHANGED chan
    BY <1>19 DEF TestAuto, TestDuty, TestNextDuty, world
  <2>. QED
    BY <2>1, <2>2, Issue DEF Driver, Procs
<1>20. CASE TestNextDuty
  <2>1. \E t \in Ops : Issued("worker", t)
    BY <1>20, TestIssues
  <2>2. UNCHANGED chan
    BY <1>20 DEF TestAuto, TestDuty, TestNextDuty, world
  <2>. QED
    BY <2>1, <2>2, Issue DEF Driver, Procs
<1>21. CASE TestAnswered
  BY <1>21
  DEF TestAnswered, OpEnds, Procs, Driver
<1>22. CASE CloseNext
  <2>1. \E t \in Ops : Issued("worker", t)
    BY <1>22, CloseNextIssues
  <2>2. UNCHANGED chan
    BY <1>22 DEF CloseNext, world
  <2>. QED
    BY <2>1, <2>2, Issue DEF Driver, Procs
<1>23. CASE CloseHot
  BY <1>23
  DEF CloseHot, BeforeHot, Fault, Driver, driver, vars, os, driver, worker, guard, hist, world, run_
<1>24. CASE Raise
  <2>0. todo # {}
    BY <1>24 DEF Raise, Closing
  <2>1. \E t \in Ops : Issued("worker", t)
    BY <1>24, <2>0, RaiseIssues
  <2>2. UNCHANGED chan
    BY <1>24 DEF Raise, world
  <2>. QED
    BY <2>1, <2>2, Issue DEF Driver, Procs
<1>25. CASE CloseAnswered
  BY <1>25
  DEF CloseAnswered, OpEnds, Procs, Driver
<1>26. CASE NextClose
  BY <1>26
  DEF NextClose, Owed, HotChannel, LastPass, Driver, driver, vars, os, driver, worker, guard, hist, world, run_
<1>27. CASE Mark
  BY <1>27
  DEF Mark, WriteFile, Fault, run_, Driver, driver, vars, os, driver, worker, guard, hist, world, run_
<1>28. CASE WorkerReaped
  BY <1>28
  DEF WorkerReaped, run_, Driver, driver, vars, os, driver, worker, guard, hist, world, run_
<1>29. CASE TestDone
  BY <1>29
  DEF TestDone, world, Driver, driver, vars, os, driver, worker, guard, hist, world, run_
<1>30. CASE RestoreLocks
  BY <1>30
  DEF RestoreLocks, Driver, driver, vars, os, driver, worker, guard, hist, world, run_
<1>31. CASE RestoreFromRun
  BY <1>31
  DEF RestoreFromRun, Restoring, Driver, driver, vars, os, driver, worker, guard, hist, world, run_
<1>32. CASE RestoreFromBundle
  BY <1>32
  DEF RestoreFromBundle, Restoring, Driver, driver, vars, os, driver, worker, guard, hist, world, run_
<1>33. CASE NothingToRestore
  BY <1>33
  DEF NothingToRestore, Driver, driver, vars, os, driver, worker, guard, hist, world, run_
<1>34. CASE Discard
  BY <1>34
  DEF Discard, Open, Driver, driver, vars, os, driver, worker, guard, hist, world, run_
<1>35. CASE RestoreDead
  BY <1>35
  DEF RestoreDead, Driver, driver, vars, os, driver, worker, guard, hist, world, run_
<1>36. CASE \E p \in Procs : WriteTimesOut(p)
  BY <1>36, AbandonedType
  DEF WriteTimesOut, Driver
<1>37. CASE KillWorker
  BY <1>37, AbandonedType
  DEF KillWorker, Dies, Procs, Driver
<1>38. CASE KillGuardian
  BY <1>38, AbandonedType
  DEF KillGuardian, Dies, Procs, Driver
<1>39. CASE KillRestore
  BY <1>39, AbandonedType
  DEF KillRestore, Dies, Procs, Driver
<1>40. CASE Panics
  BY <1>40
  DEF Panics, Fault, Owed, HotChannel, LastPass, world, Driver, driver, vars, os, driver, worker, guard, hist, world, run_
<1>41. CASE \E o \in BOOLEAN : ReloadModule(o)
  BY <1>41
  DEF ReloadModule, Driver, ChanValues
<1>42. CASE GuardianBegins
  BY <1>42
  DEF GuardianBegins, Driver, driver, vars, os, driver, worker, guard, hist, world, run_
<1>43. CASE RestoreBegins
  BY <1>43
  DEF RestoreBegins, Driver, driver, vars, os, driver, worker, guard, hist, world, run_
<1>44. CASE FangovStarts
  BY <1>44
  DEF FangovStarts, Driver, driver, vars, os, driver, worker, guard, hist, world, run_
<1>45. CASE FangovLocks
  BY <1>45
  DEF FangovLocks, Driver, ChanValues, driver
<1>46. CASE FangovStops
  <2>1. chan' \in [Channels -> ChanValues]
    BY <1>46, RestoreType DEF FangovStops, ChanValues, Restore
  <2>. QED
    BY <1>46, <2>1 DEF FangovStops, Driver
<1>47. CASE UNCHANGED vars
  BY <1>47
  DEF Driver, driver, vars, os, driver, worker, guard, hist, world, run_
<1>. QED
  BY <1>1, <1>2, <1>3, <1>4, <1>5, <1>6, <1>7, <1>8, <1>9, <1>10, <1>11, <1>12, <1>13, <1>14, <1>15, <1>16, <1>17, <1>18, <1>19, <1>20, <1>21, <1>22, <1>23, <1>24, <1>25, <1>26, <1>27, <1>28, <1>29, <1>30, <1>31, <1>32, <1>33, <1>34, <1>35, <1>36, <1>37, <1>38, <1>39, <1>40, <1>41, <1>42, <1>43, <1>44, <1>45, <1>46, <1>47
  DEF Next, DriverSteps, GuardianSteps, WorkerSteps, RestoreSteps, Accidents, Procs, Restorers

\* Every step keeps the requests and the answers together.
LEMMA QueueingStep ==
  Control /\ Files /\ Driver /\ Locking /\ Queueing /\ Closing /\ Restoration /\ [Next]_vars => Queueing'
<1>. SUFFICES ASSUME Control, Files, Driver, Locking, Queueing, Closing, Restoration, [Next]_vars PROVE Queueing'
  OBVIOUS
<1>1. CASE DriverServes
  <2>1. CASE Answer(Head(queue), "err")
    BY <1>1, <2>1, Served, QueueingAnswer
  <2>2. CASE /\ Answer(Head(queue), "ok")
             /\ \A c \in Channels :
                  chan'[c] = IF c = queue[1].ch THEN Effect(queue[1], chan[c]) ELSE chan[c]
    <3>1. queue # <<>> /\ queue[1] \in Requests
      BY <1>1, Served, Tailed DEF Driver
    <3>2. chan'[queue[1].ch] = Effect(queue[1], chan[queue[1].ch])
      BY <2>2, <3>1 DEF Requests
    <3>3. /\ queue[1].attr = "auto" => chan'[queue[1].ch] = "auto"
          /\ queue[1].attr = "duty" => chan'[queue[1].ch] = queue[1].val
      BY <3>2 DEF Effect
    <3>. QED
      BY <2>2, <3>1, <3>3, QueueingAnswer
  <2>. QED
    BY <1>1, <2>1, <2>2, Served
<1>2. CASE DriverFails
  <2>1. queue # <<>> /\ Answer(Head(queue), "err")
    BY <1>2 DEF DriverFails
  <2>. QED
    BY <2>1, QueueingAnswer
<1>3. CASE \E c \in Channels : GuardianLocks(c)
  <2>1. UNCHANGED <<chan, queue, res, to>>
    BY <1>3 DEF GuardianLocks, vars, os, driver, worker, guard, hist, world, run_
  <2>2. \A p \in Procs : to[p] # NoOp => Works(p)'
    BY <1>3 DEF GuardianLocks, vars, os, driver, worker, guard, hist, world, run_, Queueing, Works, At, Procs, Running, Locking
  <2>3. wpc' \in {"sampling", "testing", "raising"} => to["worker"] = NoOp
    BY <1>3 DEF GuardianLocks, vars, os, driver, worker, guard, hist, world, run_, Queueing, Works, Procs, Running
  <2>. QED
    BY <2>1, <2>2, <2>3, QueueingFrame
<1>4. CASE GuardianReads
  <2>1. UNCHANGED <<chan, queue, res, to>>
    BY <1>4 DEF GuardianReads, vars, os, driver, worker, guard, hist, world, run_
  <2>2. \A p \in Procs : to[p] # NoOp => Works(p)'
    BY <1>4 DEF GuardianReads, vars, os, driver, worker, guard, hist, world, run_, Queueing, Works, At, Procs, Running, Locking
  <2>3. wpc' \in {"sampling", "testing", "raising"} => to["worker"] = NoOp
    BY <1>4 DEF GuardianReads, vars, os, driver, worker, guard, hist, world, run_, Queueing, Works, Procs, Running
  <2>. QED
    BY <2>1, <2>2, <2>3, QueueingFrame
<1>5. CASE StartWorker
  <2>1. UNCHANGED <<chan, queue, res, to>>
    BY <1>5 DEF StartWorker, vars, os, driver, worker, guard, hist, world, run_
  <2>2. \A p \in Procs : to[p] # NoOp => Works(p)'
    BY <1>5 DEF StartWorker, vars, os, driver, worker, guard, hist, world, run_, Queueing, Works, At, Procs, Running, Locking
  <2>3. wpc' \in {"sampling", "testing", "raising"} => to["worker"] = NoOp
    BY <1>5 DEF StartWorker, vars, os, driver, worker, guard, hist, world, run_, Queueing, Works, Procs, Running
  <2>. QED
    BY <2>1, <2>2, <2>3, QueueingFrame
<1>6. CASE WorkerGone
  <2>1. UNCHANGED <<chan, queue, res, to>>
    BY <1>6 DEF WorkerGone, Restoring, vars, os, driver, worker, guard, hist, world, run_
  <2>2. \A p \in Procs : to[p] # NoOp => Works(p)'
    BY <1>6 DEF WorkerGone, Restoring, vars, os, driver, worker, guard, hist, world, run_, Queueing, Works, At, Procs, Running, Locking
  <2>3. wpc' \in {"sampling", "testing", "raising"} => to["worker"] = NoOp
    BY <1>6 DEF WorkerGone, Restoring, vars, os, driver, worker, guard, hist, world, run_, Queueing, Works, Procs, Running
  <2>. QED
    BY <2>1, <2>2, <2>3, QueueingFrame
<1>7. CASE GuardianDead
  <2>1. UNCHANGED <<chan, queue, res, to>>
    BY <1>7 DEF GuardianDead, run_, vars, os, driver, worker, guard, hist, world, run_
  <2>2. \A p \in Procs : to[p] # NoOp => Works(p)'
    BY <1>7 DEF GuardianDead, run_, vars, os, driver, worker, guard, hist, world, run_, Queueing, Works, At, Procs, Running, Locking
  <2>3. wpc' \in {"sampling", "testing", "raising"} => to["worker"] = NoOp
    BY <1>7 DEF GuardianDead, run_, vars, os, driver, worker, guard, hist, world, run_, Queueing, Works, Procs, Running
  <2>. QED
    BY <2>1, <2>2, <2>3, QueueingFrame
<1>8. CASE \E p \in Procs : SetDuty(p)
  <2>1. PICK p \in Procs : SetDuty(p)
    BY <1>8
  <2>2. PICK t \in Ops : Issued(p, t)
    BY <2>1, SetDutyIssues
  <2>3. to[p] # NoOp /\ res[p] # "wait" /\ UNCHANGED <<gpc, rpc, wpc>>
    BY <2>1 DEF SetDuty, NoOp, guard, worker
  <2>4. Works(p) /\ Works(p)'
    BY <2>3 DEF Queueing, Works, At
  <2>5. p = "worker" => wpc' \notin {"sampling", "testing", "raising"}
    BY <2>3 DEF Queueing
  <2>. QED
    BY <2>2, <2>3, <2>4, <2>5, QueueingIssue
<1>9. CASE \E p \in Restorers : RestoreNext(p)
  <2>1. PICK p \in Restorers : RestoreNext(p)
    BY <1>9
  <2>2. p \in Procs /\ p # "worker"
    BY DEF Procs, Restorers
  <2>3. PICK t \in Ops : Issued(p, t)
    BY <2>1, RestoreNextIssues
  <2>4. to[p] = NoOp /\ UNCHANGED <<gpc, rpc, wpc>> /\ At(p) = "restoring"
    BY <2>1 DEF RestoreNext, guard, worker
  <2>5. res[p] # "wait" /\ Works(p) /\ Works(p)'
    BY <2>2, <2>4 DEF Queueing, Works, At
  <2>. QED
    BY <2>2, <2>3, <2>4, <2>5, QueueingIssue
<1>10. CASE \E p \in Restorers : RestoreAnswered(p)
  <2>1. PICK p \in Restorers : RestoreAnswered(p)
    BY <1>10
  <2>2. p \in Procs /\ OpEnds(p) /\ res[p] # "wait" /\ UNCHANGED <<gpc, rpc, wpc>>
    BY <2>1 DEF RestoreAnswered, OpOk, OpErr, Procs, Restorers, guard, worker
  <2>3. \A q \in Procs \ {p} : Works(q) => Works(q)'
    BY <2>2 DEF Works, At
  <2>. QED
    BY <2>2, <2>3, QueueingEnds
<1>11. CASE \E p \in Restorers : RestoreEnds(p)
  <2>1. UNCHANGED <<chan, queue, res, to>>
    BY <1>11 DEF RestoreEnds, WriteFile, Fault, Restorers, At, vars, os, driver, worker, guard, hist, world, run_
  <2>2. \A p \in Procs : to[p] # NoOp => Works(p)'
    BY <1>11 DEF RestoreEnds, WriteFile, Fault, Restorers, At, vars, os, driver, worker, guard, hist, world, run_, Queueing, Works, At, Procs, Running, Locking
  <2>3. wpc' \in {"sampling", "testing", "raising"} => to["worker"] = NoOp
    BY <1>11 DEF RestoreEnds, WriteFile, Fault, Restorers, At, vars, os, driver, worker, guard, hist, world, run_, Queueing, Works, Procs, Running
  <2>. QED
    BY <2>1, <2>2, <2>3, QueueingFrame
<1>12. CASE WorkerAdopts
  <2>1. UNCHANGED <<chan, queue, res, to>>
    BY <1>12 DEF WorkerAdopts, world, run_, vars, os, driver, worker, guard, hist, world, run_
  <2>2. \A p \in Procs : to[p] # NoOp => Works(p)'
    BY <1>12 DEF WorkerAdopts, world, run_, vars, os, driver, worker, guard, hist, world, run_, Queueing, Works, At, Procs, Running, Locking
  <2>3. wpc' \in {"sampling", "testing", "raising"} => to["worker"] = NoOp
    BY <1>12 DEF WorkerAdopts, world, run_, vars, os, driver, worker, guard, hist, world, run_, Queueing, Works, Procs, Running
  <2>. QED
    BY <2>1, <2>2, <2>3, QueueingFrame
<1>13. CASE WorkerRefused
  <2>1. UNCHANGED <<chan, queue, res, to>>
    BY <1>13 DEF WorkerRefused, world, run_, vars, os, driver, worker, guard, hist, world, run_
  <2>2. \A p \in Procs : to[p] # NoOp => Works(p)'
    BY <1>13 DEF WorkerRefused, world, run_, vars, os, driver, worker, guard, hist, world, run_, Queueing, Works, At, Procs, Running, Locking
  <2>3. wpc' \in {"sampling", "testing", "raising"} => to["worker"] = NoOp
    BY <1>13 DEF WorkerRefused, world, run_, vars, os, driver, worker, guard, hist, world, run_, Queueing, Works, Procs, Running
  <2>. QED
    BY <2>1, <2>2, <2>3, QueueingFrame
<1>14. CASE WorkerStarts
  <2>1. UNCHANGED <<chan, queue, res, to>>
    BY <1>14 DEF WorkerStarts, world, vars, os, driver, worker, guard, hist, world, run_
  <2>2. \A p \in Procs : to[p] # NoOp => Works(p)'
    BY <1>14 DEF WorkerStarts, world, vars, os, driver, worker, guard, hist, world, run_, Queueing, Works, At, Procs, Running, Locking
  <2>3. wpc' \in {"sampling", "testing", "raising"} => to["worker"] = NoOp
    BY <1>14 DEF WorkerStarts, world, vars, os, driver, worker, guard, hist, world, run_, Queueing, Works, Procs, Running
  <2>. QED
    BY <2>1, <2>2, <2>3, QueueingFrame
<1>15. CASE SampleGood
  <2>1. UNCHANGED <<chan, queue, res, to>>
    BY <1>15 DEF SampleGood, world, run_, vars, os, driver, worker, guard, hist, world, run_
  <2>2. \A p \in Procs : to[p] # NoOp => Works(p)'
    BY <1>15 DEF SampleGood, world, run_, vars, os, driver, worker, guard, hist, world, run_, Queueing, Works, At, Procs, Running, Locking
  <2>3. wpc' \in {"sampling", "testing", "raising"} => to["worker"] = NoOp
    BY <1>15 DEF SampleGood, world, run_, vars, os, driver, worker, guard, hist, world, run_, Queueing, Works, Procs, Running
  <2>. QED
    BY <2>1, <2>2, <2>3, QueueingFrame
<1>16. CASE \E h \in {0} \cup HotChannels : Aborts(h)
  <2>1. UNCHANGED <<chan, queue, res, to>>
    BY <1>16 DEF Aborts, world, vars, os, driver, worker, guard, hist, world, run_
  <2>2. \A p \in Procs : to[p] # NoOp => Works(p)'
    BY <1>16 DEF Aborts, world, vars, os, driver, worker, guard, hist, world, run_, Queueing, Works, At, Procs, Running, Locking
  <2>3. wpc' \in {"sampling", "testing", "raising"} => to["worker"] = NoOp
    BY <1>16 DEF Aborts, world, vars, os, driver, worker, guard, hist, world, run_, Queueing, Works, Procs, Running
  <2>. QED
    BY <2>1, <2>2, <2>3, QueueingFrame
<1>17. CASE FirstWrite
  <2>1. UNCHANGED <<chan, queue, res, to>>
    BY <1>17 DEF FirstWrite, Fault, vars, os, driver, worker, guard, hist, world, run_
  <2>2. \A p \in Procs : to[p] # NoOp => Works(p)'
    BY <1>17 DEF FirstWrite, Fault, vars, os, driver, worker, guard, hist, world, run_, Queueing, Works, At, Procs, Running, Locking
  <2>3. wpc' \in {"sampling", "testing", "raising"} => to["worker"] = NoOp
    BY <1>17 DEF FirstWrite, Fault, vars, os, driver, worker, guard, hist, world, run_, Queueing, Works, Procs, Running
  <2>. QED
    BY <2>1, <2>2, <2>3, QueueingFrame
<1>18. CASE TestAuto
  <2>1. PICK t \in Ops : Issued("worker", t)
    BY <1>18, TestIssues
  <2>2. wpc \in Running /\ wpc' = "writing" /\ to["worker"] = NoOp /\ "worker" \in Procs
    BY <1>18 DEF TestAuto, TestDuty, TestNextDuty, Running, Procs
  <2>3. res["worker"] # "wait" /\ Works("worker") /\ Works("worker")'
    BY <2>2 DEF Queueing, Works, Running
  <2>. QED
    BY <2>1, <2>2, <2>3, QueueingIssue
<1>19. CASE TestDuty
  <2>1. PICK t \in Ops : Issued("worker", t)
    BY <1>19, TestIssues
  <2>2. wpc \in Running /\ wpc' = "writing" /\ to["worker"] = NoOp /\ "worker" \in Procs
    BY <1>19 DEF TestAuto, TestDuty, TestNextDuty, Running, Procs
  <2>3. res["worker"] # "wait" /\ Works("worker") /\ Works("worker")'
    BY <2>2 DEF Queueing, Works, Running
  <2>. QED
    BY <2>1, <2>2, <2>3, QueueingIssue
<1>20. CASE TestNextDuty
  <2>1. PICK t \in Ops : Issued("worker", t)
    BY <1>20, TestIssues
  <2>2. wpc \in Running /\ wpc' = "writing" /\ to["worker"] = NoOp /\ "worker" \in Procs
    BY <1>20 DEF TestAuto, TestDuty, TestNextDuty, Running, Procs
  <2>3. res["worker"] # "wait" /\ Works("worker") /\ Works("worker")'
    BY <2>2 DEF Queueing, Works, Running
  <2>. QED
    BY <2>1, <2>2, <2>3, QueueingIssue
<1>21. CASE TestAnswered
  <2>1. "worker" \in Procs /\ OpEnds("worker") /\ res["worker"] # "wait" /\ UNCHANGED <<gpc, rpc>>
    BY <1>21 DEF TestAnswered, OpOk, OpErr, Procs, guard
  <2>2. \A q \in Procs \ {"worker"} : Works(q) => Works(q)'
    BY <2>1 DEF Works, At
  <2>. QED
    BY <2>1, <2>2, QueueingEnds
<1>22. CASE CloseNext
  <2>1. PICK t \in Ops : Issued("worker", t)
    BY <1>22, CloseNextIssues
  <2>2. wpc = "closing" /\ wpc' = "closing" /\ to["worker"] = NoOp /\ "worker" \in Procs
    BY <1>22 DEF CloseNext, Procs
  <2>3. res["worker"] # "wait" /\ Works("worker") /\ Works("worker")'
    BY <2>2 DEF Queueing, Works, Running
  <2>. QED
    BY <2>1, <2>2, <2>3, QueueingIssue
<1>23. CASE CloseHot
  <2>1. UNCHANGED <<chan, queue, res, to>>
    BY <1>23 DEF CloseHot, BeforeHot, Fault, vars, os, driver, worker, guard, hist, world, run_
  <2>2. \A p \in Procs : to[p] # NoOp => Works(p)'
    BY <1>23 DEF CloseHot, BeforeHot, Fault, vars, os, driver, worker, guard, hist, world, run_, Queueing, Works, At, Procs, Running, Locking
  <2>3. wpc' \in {"sampling", "testing", "raising"} => to["worker"] = NoOp
    BY <1>23 DEF CloseHot, BeforeHot, Fault, vars, os, driver, worker, guard, hist, world, run_, Queueing, Works, Procs, Running
  <2>. QED
    BY <2>1, <2>2, <2>3, QueueingFrame
<1>24. CASE Raise
  <2>0. todo # {}
    BY <1>24 DEF Raise, Closing
  <2>1. PICK t \in Ops : Issued("worker", t)
    BY <1>24, <2>0, RaiseIssues
  <2>2. wpc = "raising" /\ wpc' = "closing" /\ "worker" \in Procs
    BY <1>24 DEF Raise, Procs
  <2>3. res["worker"] # "wait" /\ Works("worker") /\ Works("worker")'
    BY <2>2 DEF Queueing, Works, Running
  <2>. QED
    BY <2>1, <2>2, <2>3, QueueingIssue
<1>25. CASE CloseAnswered
  <2>1. "worker" \in Procs /\ OpEnds("worker") /\ res["worker"] # "wait" /\ UNCHANGED <<gpc, rpc>>
    BY <1>25 DEF CloseAnswered, OpOk, OpErr, Procs, guard
  <2>2. \A q \in Procs \ {"worker"} : Works(q) => Works(q)'
    BY <2>1 DEF Works, At
  <2>. QED
    BY <2>1, <2>2, QueueingEnds
<1>26. CASE NextClose
  <2>1. UNCHANGED <<chan, queue, res, to>>
    BY <1>26 DEF NextClose, Owed, HotChannel, LastPass, vars, os, driver, worker, guard, hist, world, run_
  <2>2. \A p \in Procs : to[p] # NoOp => Works(p)'
    BY <1>26 DEF NextClose, Owed, HotChannel, LastPass, vars, os, driver, worker, guard, hist, world, run_, Queueing, Works, At, Procs, Running, Locking
  <2>3. wpc' \in {"sampling", "testing", "raising"} => to["worker"] = NoOp
    BY <1>26 DEF NextClose, Owed, HotChannel, LastPass, vars, os, driver, worker, guard, hist, world, run_, Queueing, Works, Procs, Running
  <2>. QED
    BY <2>1, <2>2, <2>3, QueueingFrame
<1>27. CASE Mark
  <2>1. UNCHANGED <<chan, queue, res, to>>
    BY <1>27 DEF Mark, WriteFile, Fault, run_, vars, os, driver, worker, guard, hist, world, run_
  <2>2. \A p \in Procs : to[p] # NoOp => Works(p)'
    BY <1>27 DEF Mark, WriteFile, Fault, run_, vars, os, driver, worker, guard, hist, world, run_, Queueing, Works, At, Procs, Running, Locking
  <2>3. wpc' \in {"sampling", "testing", "raising"} => to["worker"] = NoOp
    BY <1>27 DEF Mark, WriteFile, Fault, run_, vars, os, driver, worker, guard, hist, world, run_, Queueing, Works, Procs, Running
  <2>. QED
    BY <2>1, <2>2, <2>3, QueueingFrame
<1>28. CASE WorkerReaped
  <2>1. UNCHANGED <<chan, queue, res, to>>
    BY <1>28 DEF WorkerReaped, run_, vars, os, driver, worker, guard, hist, world, run_
  <2>2. \A p \in Procs : to[p] # NoOp => Works(p)'
    BY <1>28 DEF WorkerReaped, run_, vars, os, driver, worker, guard, hist, world, run_, Queueing, Works, At, Procs, Running, Locking
  <2>3. wpc' \in {"sampling", "testing", "raising"} => to["worker"] = NoOp
    BY <1>28 DEF WorkerReaped, run_, vars, os, driver, worker, guard, hist, world, run_, Queueing, Works, Procs, Running
  <2>. QED
    BY <2>1, <2>2, <2>3, QueueingFrame
<1>29. CASE TestDone
  <2>1. UNCHANGED <<chan, queue, res, to>>
    BY <1>29 DEF TestDone, world, vars, os, driver, worker, guard, hist, world, run_
  <2>2. \A p \in Procs : to[p] # NoOp => Works(p)'
    BY <1>29 DEF TestDone, world, vars, os, driver, worker, guard, hist, world, run_, Queueing, Works, At, Procs, Running, Locking
  <2>3. wpc' \in {"sampling", "testing", "raising"} => to["worker"] = NoOp
    BY <1>29 DEF TestDone, world, vars, os, driver, worker, guard, hist, world, run_, Queueing, Works, Procs, Running
  <2>. QED
    BY <2>1, <2>2, <2>3, QueueingFrame
<1>30. CASE RestoreLocks
  <2>1. UNCHANGED <<chan, queue, res, to>>
    BY <1>30 DEF RestoreLocks, vars, os, driver, worker, guard, hist, world, run_
  <2>2. \A p \in Procs : to[p] # NoOp => Works(p)'
    BY <1>30 DEF RestoreLocks, vars, os, driver, worker, guard, hist, world, run_, Queueing, Works, At, Procs, Running, Locking
  <2>3. wpc' \in {"sampling", "testing", "raising"} => to["worker"] = NoOp
    BY <1>30 DEF RestoreLocks, vars, os, driver, worker, guard, hist, world, run_, Queueing, Works, Procs, Running
  <2>. QED
    BY <2>1, <2>2, <2>3, QueueingFrame
<1>31. CASE RestoreFromRun
  <2>1. UNCHANGED <<chan, queue, res, to>>
    BY <1>31 DEF RestoreFromRun, Restoring, vars, os, driver, worker, guard, hist, world, run_
  <2>2. \A p \in Procs : to[p] # NoOp => Works(p)'
    BY <1>31 DEF RestoreFromRun, Restoring, vars, os, driver, worker, guard, hist, world, run_, Queueing, Works, At, Procs, Running, Locking
  <2>3. wpc' \in {"sampling", "testing", "raising"} => to["worker"] = NoOp
    BY <1>31 DEF RestoreFromRun, Restoring, vars, os, driver, worker, guard, hist, world, run_, Queueing, Works, Procs, Running
  <2>. QED
    BY <2>1, <2>2, <2>3, QueueingFrame
<1>32. CASE RestoreFromBundle
  <2>1. UNCHANGED <<chan, queue, res, to>>
    BY <1>32 DEF RestoreFromBundle, Restoring, vars, os, driver, worker, guard, hist, world, run_
  <2>2. \A p \in Procs : to[p] # NoOp => Works(p)'
    BY <1>32 DEF RestoreFromBundle, Restoring, vars, os, driver, worker, guard, hist, world, run_, Queueing, Works, At, Procs, Running, Locking
  <2>3. wpc' \in {"sampling", "testing", "raising"} => to["worker"] = NoOp
    BY <1>32 DEF RestoreFromBundle, Restoring, vars, os, driver, worker, guard, hist, world, run_, Queueing, Works, Procs, Running
  <2>. QED
    BY <2>1, <2>2, <2>3, QueueingFrame
<1>33. CASE NothingToRestore
  <2>1. UNCHANGED <<chan, queue, res, to>>
    BY <1>33 DEF NothingToRestore, vars, os, driver, worker, guard, hist, world, run_
  <2>2. \A p \in Procs : to[p] # NoOp => Works(p)'
    BY <1>33 DEF NothingToRestore, vars, os, driver, worker, guard, hist, world, run_, Queueing, Works, At, Procs, Running, Locking
  <2>3. wpc' \in {"sampling", "testing", "raising"} => to["worker"] = NoOp
    BY <1>33 DEF NothingToRestore, vars, os, driver, worker, guard, hist, world, run_, Queueing, Works, Procs, Running
  <2>. QED
    BY <2>1, <2>2, <2>3, QueueingFrame
<1>34. CASE Discard
  <2>1. UNCHANGED <<chan, queue, res, to>>
    BY <1>34 DEF Discard, Open, vars, os, driver, worker, guard, hist, world, run_
  <2>2. \A p \in Procs : to[p] # NoOp => Works(p)'
    BY <1>34 DEF Discard, Open, vars, os, driver, worker, guard, hist, world, run_, Queueing, Works, At, Procs, Running, Locking
  <2>3. wpc' \in {"sampling", "testing", "raising"} => to["worker"] = NoOp
    BY <1>34 DEF Discard, Open, vars, os, driver, worker, guard, hist, world, run_, Queueing, Works, Procs, Running
  <2>. QED
    BY <2>1, <2>2, <2>3, QueueingFrame
<1>35. CASE RestoreDead
  <2>1. UNCHANGED <<chan, queue, res, to>>
    BY <1>35 DEF RestoreDead, vars, os, driver, worker, guard, hist, world, run_
  <2>2. \A p \in Procs : to[p] # NoOp => Works(p)'
    BY <1>35 DEF RestoreDead, vars, os, driver, worker, guard, hist, world, run_, Queueing, Works, At, Procs, Running, Locking
  <2>3. wpc' \in {"sampling", "testing", "raising"} => to["worker"] = NoOp
    BY <1>35 DEF RestoreDead, vars, os, driver, worker, guard, hist, world, run_, Queueing, Works, Procs, Running
  <2>. QED
    BY <2>1, <2>2, <2>3, QueueingFrame
<1>36. CASE \E p \in Procs : WriteTimesOut(p)
  <2>1. PICK p \in Procs : WriteTimesOut(p)
    BY <1>36
  <2>2. /\ queue' = Abandoned(p) /\ res' = [res EXCEPT ![p] = "err"] /\ res[p] = "wait"
        /\ UNCHANGED <<chan, to, gpc, rpc, wpc>>
    BY <2>1 DEF WriteTimesOut, guard, worker
  <2>3. \A q \in Procs : Works(q) => Works(q)'
    BY <2>2 DEF Works, At
  <2>4. to'[p] # NoOp => Works(p)'
    BY <2>2, <2>3 DEF Queueing
  <2>. QED
    BY <2>2, <2>3, <2>4, QueueingGivesUp
<1>37. CASE KillWorker
  <2>1. /\ queue' = Abandoned("worker") /\ res' = [res EXCEPT !["worker"] = "idle"]
        /\ to' = [to EXCEPT !["worker"] = NoOp] /\ "worker" \in Procs
        /\ wpc' = "exiting" /\ UNCHANGED <<chan, gpc, rpc>>
    BY <1>37 DEF KillWorker, Dies, guard, Procs
  <2>2. \A q \in Procs \ {"worker"} : Works(q) => Works(q)'
    BY <2>1 DEF Works, At
  <2>3. to'["worker"] = NoOp
    BY <2>1 DEF Driver
  <2>. QED
    BY <2>1, <2>2, <2>3, QueueingGivesUp
<1>38. CASE KillGuardian
  <2>1. /\ queue' = Abandoned("guardian") /\ res' = [res EXCEPT !["guardian"] = "idle"]
        /\ to' = [to EXCEPT !["guardian"] = NoOp] /\ "guardian" \in Procs
        /\ UNCHANGED <<chan, rpc, wpc>>
    BY <1>38 DEF KillGuardian, Dies, worker, guard, Procs
  <2>2. \A q \in Procs \ {"guardian"} : Works(q) => Works(q)'
    BY <2>1 DEF Works, At, Procs
  <2>3. to'["guardian"] = NoOp
    BY <2>1 DEF Driver
  <2>. QED
    BY <2>1, <2>2, <2>3, QueueingGivesUp
<1>39. CASE KillRestore
  <2>1. /\ queue' = Abandoned("restore") /\ res' = [res EXCEPT !["restore"] = "idle"]
        /\ to' = [to EXCEPT !["restore"] = NoOp] /\ "restore" \in Procs
        /\ UNCHANGED <<chan, gpc, wpc>>
    BY <1>39 DEF KillRestore, Dies, worker, guard, Procs
  <2>2. \A q \in Procs \ {"restore"} : Works(q) => Works(q)'
    BY <2>1 DEF Works, At, Procs
  <2>3. to'["restore"] = NoOp
    BY <2>1 DEF Driver
  <2>. QED
    BY <2>1, <2>2, <2>3, QueueingGivesUp
<1>40. CASE Panics
  <2>1. UNCHANGED <<chan, queue, res, to>>
    BY <1>40 DEF Panics, Fault, Owed, HotChannel, LastPass, world, vars, os, driver, worker, guard, hist, world, run_
  <2>2. \A p \in Procs : to[p] # NoOp => Works(p)'
    BY <1>40 DEF Panics, Fault, Owed, HotChannel, LastPass, world, vars, os, driver, worker, guard, hist, world, run_, Queueing, Works, At, Procs, Running, Locking
  <2>3. wpc' \in {"sampling", "testing", "raising"} => to["worker"] = NoOp
    BY <1>40 DEF Panics, Fault, Owed, HotChannel, LastPass, world, vars, os, driver, worker, guard, hist, world, run_, Queueing, Works, Procs, Running
  <2>. QED
    BY <2>1, <2>2, <2>3, QueueingFrame
<1>41. CASE \E o \in BOOLEAN : ReloadModule(o)
  <2>1. /\ queue = <<>> /\ UNCHANGED <<queue, res, to, gpc, rpc, wpc>>
        /\ chan' = [c \in Channels |-> "handed"]
    BY <1>41 DEF ReloadModule, guard, worker
  <2>2. \A p \in Procs : Works(p)' <=> Works(p)
    BY <2>1 DEF Works, At
  <2>3. \A p \in Procs : res[p] = "ok" /\ to[p].step = "last" => chan'[to[p].ch] = "handed"
    <3>1. \A p \in Procs : to[p].step = "last" => to[p].ch \in Channels
      BY DEF Driver, Ops, NoOp
    <3>. QED
      BY <2>1, <3>1
  <2>. QED
    BY <2>1, <2>2, <2>3 DEF Queueing
<1>42. CASE GuardianBegins
  <2>1. UNCHANGED <<chan, queue, res, to>>
    BY <1>42 DEF GuardianBegins, vars, os, driver, worker, guard, hist, world, run_
  <2>2. \A p \in Procs : to[p] # NoOp => Works(p)'
    BY <1>42 DEF GuardianBegins, vars, os, driver, worker, guard, hist, world, run_, Queueing, Works, At, Procs, Running, Locking
  <2>3. wpc' \in {"sampling", "testing", "raising"} => to["worker"] = NoOp
    BY <1>42 DEF GuardianBegins, vars, os, driver, worker, guard, hist, world, run_, Queueing, Works, Procs, Running
  <2>. QED
    BY <2>1, <2>2, <2>3, QueueingFrame
<1>43. CASE RestoreBegins
  <2>1. UNCHANGED <<chan, queue, res, to>>
    BY <1>43 DEF RestoreBegins, vars, os, driver, worker, guard, hist, world, run_
  <2>2. \A p \in Procs : to[p] # NoOp => Works(p)'
    BY <1>43 DEF RestoreBegins, vars, os, driver, worker, guard, hist, world, run_, Queueing, Works, At, Procs, Running, Locking
  <2>3. wpc' \in {"sampling", "testing", "raising"} => to["worker"] = NoOp
    BY <1>43 DEF RestoreBegins, vars, os, driver, worker, guard, hist, world, run_, Queueing, Works, Procs, Running
  <2>. QED
    BY <2>1, <2>2, <2>3, QueueingFrame
<1>44. CASE FangovStarts
  <2>1. UNCHANGED <<chan, queue, res, to>>
    BY <1>44 DEF FangovStarts, vars, os, driver, worker, guard, hist, world, run_
  <2>2. \A p \in Procs : to[p] # NoOp => Works(p)'
    BY <1>44 DEF FangovStarts, vars, os, driver, worker, guard, hist, world, run_, Queueing, Works, At, Procs, Running, Locking
  <2>3. wpc' \in {"sampling", "testing", "raising"} => to["worker"] = NoOp
    BY <1>44 DEF FangovStarts, vars, os, driver, worker, guard, hist, world, run_, Queueing, Works, Procs, Running
  <2>. QED
    BY <2>1, <2>2, <2>3, QueueingFrame
<1>45. CASE FangovLocks
  <2>1. lock \in {"free", "fangov"} \/ UNCHANGED chan
    BY <1>45 DEF FangovLocks, Locking
  <2>2. UNCHANGED <<queue, res, to, gpc, rpc, wpc>>
    BY <1>45 DEF FangovLocks, driver, guard, worker
  <2>3. \A p \in Procs : Works(p)' <=> Works(p)
    BY <2>2 DEF Works, At
  <2>4. lock \in {"free", "fangov"} => \A p \in Procs : res[p] # "ok"
    BY DEF Queueing, Works, Locking, Running, At, Procs
  <2>. QED
    BY <2>1, <2>2, <2>3, <2>4 DEF Queueing
<1>46. CASE FangovStops
  <2>1. lock \in {"free", "fangov"} \/ UNCHANGED chan
    BY <1>46 DEF FangovStops, Locking
  <2>2. UNCHANGED <<queue, res, to, gpc, rpc, wpc>>
    BY <1>46 DEF FangovStops, driver, guard, worker
  <2>3. \A p \in Procs : Works(p)' <=> Works(p)
    BY <2>2 DEF Works, At
  <2>4. lock \in {"free", "fangov"} => \A p \in Procs : res[p] # "ok"
    BY DEF Queueing, Works, Locking, Running, At, Procs
  <2>. QED
    BY <2>1, <2>2, <2>3, <2>4 DEF Queueing
<1>47. CASE UNCHANGED vars
  <2>1. UNCHANGED <<chan, queue, res, to>>
    BY <1>47 DEF vars, os, driver, worker, guard, hist, world, run_
  <2>2. \A p \in Procs : to[p] # NoOp => Works(p)'
    BY <1>47 DEF vars, os, driver, worker, guard, hist, world, run_, Queueing, Works, At, Procs, Running, Locking
  <2>3. wpc' \in {"sampling", "testing", "raising"} => to["worker"] = NoOp
    BY <1>47 DEF vars, os, driver, worker, guard, hist, world, run_, Queueing, Works, Procs, Running
  <2>. QED
    BY <2>1, <2>2, <2>3, QueueingFrame
<1>. QED
  BY <1>1, <1>2, <1>3, <1>4, <1>5, <1>6, <1>7, <1>8, <1>9, <1>10, <1>11, <1>12, <1>13, <1>14, <1>15, <1>16, <1>17, <1>18, <1>19, <1>20, <1>21, <1>22, <1>23, <1>24, <1>25, <1>26, <1>27, <1>28, <1>29, <1>30, <1>31, <1>32, <1>33, <1>34, <1>35, <1>36, <1>37, <1>38, <1>39, <1>40, <1>41, <1>42, <1>43, <1>44, <1>45, <1>46, <1>47
  DEF Next, DriverSteps, GuardianSteps, WorkerSteps, RestoreSteps, Accidents, Procs, Restorers

\* Every step keeps the worker's state file and its operation with what it wrote.
LEMMA ClosingStep ==
  Control /\ Files /\ Driver /\ Locking /\ Kept /\ Queueing /\ Closing /\ [Next]_vars => Closing'
<1>. SUFFICES ASSUME Control, Files, Driver, Locking, Kept, Queueing, Closing, [Next]_vars PROVE Closing'
  OBVIOUS
<1>1. CASE DriverServes
  BY <1>1
  DEF DriverServes, Answer, Closing, Running, HotChannel, vars, os, driver, worker, guard, hist, world, run_
<1>2. CASE DriverFails
  BY <1>2
  DEF DriverFails, Answer, Fault, Closing, Running, HotChannel, vars, os, driver, worker, guard, hist, world, run_
<1>3. CASE \E c \in Channels : GuardianLocks(c)
  <2>1. wpc' = wpc /\ (wpc = "off" \/ UNCHANGED gch)
    BY <1>3 DEF GuardianLocks, worker, Locking
  <2>. QED
    BY <1>3, <2>1 DEF GuardianLocks, Closing, Running, HotChannel, vars, os, driver, worker, guard, hist, world, run_
<1>4. CASE GuardianReads
  <2>1. wpc = "off" /\ wpc' = wpc
    BY <1>4 DEF GuardianReads, vars, os, driver, worker, guard, hist, world, run_, Locking, Restorers, At
  <2>. QED
    BY <2>1 DEF Closing, Running
<1>5. CASE StartWorker
  BY <1>5
  DEF StartWorker, Closing, Running, HotChannel, vars, os, driver, worker, guard, hist, world, run_
<1>6. CASE WorkerGone
  BY <1>6
  DEF WorkerGone, Restoring, Closing, Running, HotChannel, vars, os, driver, worker, guard, hist, world, run_
<1>7. CASE GuardianDead
  BY <1>7
  DEF GuardianDead, run_, Closing, Running, HotChannel, vars, os, driver, worker, guard, hist, world, run_
<1>8. CASE \E p \in Procs : SetDuty(p)
  <2>1. PICK p \in Procs : SetDuty(p)
    BY <1>8
  <2>2. PICK t \in Ops : t.ch = to[p].ch /\ t.val = to[p].val /\ Issued(p, t)
    BY <2>1, SetDutyIssues
  <2>3. to[p] # NoOp /\ \A q \in Procs : to[q] # NoOp => Works(q)
    BY <2>1 DEF SetDuty, NoOp, Queueing
  <2>4. wpc \in Running => to["worker"] # NoOp /\ p = "worker"
    BY <2>3, OneWorks DEF Works, Procs
  <2>5. UNCHANGED <<wpc, gch, hot, state, wrote, file, unlogged, touched, todo>>
    BY <2>1 DEF SetDuty, guard, worker, hist
  <2>6. wpc \in Running =>
          to'["worker"].ch = to["worker"].ch /\ to'["worker"].val = to["worker"].val
    BY <2>2, <2>4, Issue
  <2>. QED
    BY <2>4, <2>5, <2>6 DEF Closing, Running, HotChannel
<1>9. CASE \E p \in Restorers : RestoreNext(p)
  <2>1. wpc = "off" /\ wpc' = wpc
    BY <1>9 DEF RestoreNext, vars, os, driver, worker, guard, hist, world, run_, Locking, Restorers, At
  <2>. QED
    BY <2>1 DEF Closing, Running
<1>10. CASE \E p \in Restorers : RestoreAnswered(p)
  BY <1>10
  DEF RestoreAnswered, OpEnds, Restorers, Closing, Running, HotChannel, vars, os, driver, worker, guard, hist, world, run_
<1>11. CASE \E p \in Restorers : RestoreEnds(p)
  <2>1. wpc = "off" /\ wpc' = wpc
    BY <1>11 DEF RestoreEnds, vars, os, driver, worker, guard, hist, world, run_, Locking, Restorers, At
  <2>. QED
    BY <2>1 DEF Closing, Running
<1>12. CASE WorkerAdopts
  BY <1>12
  DEF WorkerAdopts, world, run_, Closing, Running, HotChannel, vars, os, driver, worker, guard, hist, world, run_
<1>13. CASE WorkerRefused
  BY <1>13
  DEF WorkerRefused, world, run_, Closing, Running, HotChannel, vars, os, driver, worker, guard, hist, world, run_
<1>14. CASE WorkerStarts
  <2>1. /\ state'.chans = [c \in {gch} |-> Restore[c]] /\ gch' = gch
        /\ wpc' = "sampling" /\ touched' = {} /\ hot' = 0 /\ wrote' = FALSE
        /\ to' = to /\ to["worker"] = NoOp
    BY <1>14 DEF WorkerStarts, world, guard, Queueing, Works, Running, Procs
  <2>. QED
    BY <2>1 DEF Closing, Running, HotChannel
<1>15. CASE SampleGood
  BY <1>15
  DEF SampleGood, world, run_, Closing, Running, HotChannel, vars, os, driver, worker, guard, hist, world, run_
<1>16. CASE \E h \in {0} \cup HotChannels : Aborts(h)
  <2>1. PICK h \in {0} \cup HotChannels : Aborts(h)
    BY <1>16
  <2>2. /\ wpc = "sampling" /\ wpc' = "closing" /\ hot' = h /\ to["worker"] = NoOp
        /\ UNCHANGED <<gch, state, wrote, file, unlogged, touched, to>>
    BY <2>1 DEF Aborts, world, guard, hist, Queueing
  <2>3. hot = 0 /\ 0 \notin DOMAIN state.chans
    <3>1. state \in StateFiles
      BY <2>2 DEF Files, Running
    <3>2. DOMAIN state.chans \subseteq 1..4
      BY <3>1, FileParts, GuardianAssumption DEF GuardianAssumption
    <3>. QED
      BY <2>2, <3>2 DEF Closing
  <2>. QED
    BY <2>2, <2>3 DEF Closing, Running, HotChannel
<1>17. CASE FirstWrite
  <2>1. /\ wpc = "testing" /\ wpc' \in {"testing", "closing"} /\ hot = 0 /\ to["worker"] = NoOp
        /\ UNCHANGED <<gch, hot, state, touched, to, todo, unlogged>>
        /\ \/ file' = state /\ wpc' = "testing"
           \/ UNCHANGED <<wrote, file>>
    BY <1>17 DEF FirstWrite, Closing, Queueing, guard
  <2>. QED
    BY <2>1 DEF Closing, Running, HotChannel
<1>18. CASE TestAuto
  <2>1. PICK t \in Ops : t.ch = gch /\ Issued("worker", t)
    BY <1>18, TestIssues
  <2>2. to'["worker"].ch = gch
    BY <2>1, Issue DEF Procs
  <2>3. /\ wpc = "testing" /\ wrote /\ wpc' = "writing" /\ touched' = touched \cup {gch}
        /\ UNCHANGED <<gch, hot, state, wrote, file, unlogged, todo>>
    BY <1>18 DEF TestAuto, TestDuty, world, guard, hist
  <2>. QED
    BY <2>2, <2>3 DEF Closing, Running, HotChannel
<1>19. CASE TestDuty
  <2>1. PICK t \in Ops : t.ch = gch /\ Issued("worker", t)
    BY <1>19, TestIssues
  <2>2. to'["worker"].ch = gch
    BY <2>1, Issue DEF Procs
  <2>3. /\ wpc = "testing" /\ wrote /\ wpc' = "writing" /\ touched' = touched \cup {gch}
        /\ UNCHANGED <<gch, hot, state, wrote, file, unlogged, todo>>
    BY <1>19 DEF TestAuto, TestDuty, world, guard, hist
  <2>. QED
    BY <2>2, <2>3 DEF Closing, Running, HotChannel
<1>20. CASE TestNextDuty
  BY <1>20
  DEF TestNextDuty, world, Closing, Running, HotChannel, vars, os, driver, worker, guard, hist, world, run_
<1>21. CASE TestAnswered
  <2>1. /\ wpc = "writing" /\ wpc' \in {"sampling", "closing"} /\ to'["worker"] = NoOp
        /\ UNCHANGED <<gch, hot, state, wrote, file, unlogged, touched>>
    BY <1>21 DEF TestAnswered, OpEnds, Driver, Procs, guard, hist
  <2>. QED
    BY <2>1 DEF Closing, Running, HotChannel
<1>22. CASE CloseNext
  <2>1. PICK t \in Ops : /\ t.ch \in todo /\ t.ch # HotChannel /\ t.val = Restore[t.ch]
                         /\ Issued("worker", t)
    BY <1>22, CloseNextIssues
  <2>2. to'["worker"] = t
    BY <2>1, Issue DEF Procs
  <2>3. /\ wpc = "closing" /\ wpc' = wpc
        /\ UNCHANGED <<gch, hot, state, wrote, file, unlogged, touched>>
    BY <1>22 DEF CloseNext, vars, os, driver, worker, guard, hist, world, run_
  <2>4. t.ch \in touched
    BY <2>1, <2>3 DEF Kept, Running
  <2>5. state.chans[t.ch] = Restore[t.ch]
    BY <2>1, <2>3, <2>4 DEF Closing, Running, HotChannel
  <2>. QED
    BY <2>1, <2>2, <2>3, <2>4, <2>5 DEF Closing, Running, HotChannel
<1>23. CASE CloseHot
  <2>. DEFINE c == Min1(todo)
              g == Hot(state, c)
  <2>1. c \in todo /\ c \in Channels /\ c # 0 /\ todo # {}
    BY <1>23, NextOfClose DEF CloseHot
  <2>2. state \in StateFiles /\ wpc = "closing"
    BY <1>23 DEF CloseHot, Files, Running
  <2>3. /\ DOMAIN g.chans = DOMAIN state.chans \cup {c} /\ g.chans[c] = "full"
        /\ \A x \in DOMAIN state.chans \ {c} : g.chans[x] = state.chans[x]
    BY <2>1, <2>2, FileHot
  <2>4. /\ state' = g /\ c = HotChannel /\ touched' = touched \cup {c} /\ wpc' = "raising"
        /\ UNCHANGED <<gch, hot, wrote, todo, to>> /\ to["worker"] = NoOp
        /\ \/ file' = g /\ unlogged' = unlogged \ {c}
           \/ file' = file /\ unlogged' = unlogged \cup {c}
    BY <1>23 DEF CloseHot, BeforeHot, ToRaise, guard, driver
  <2>5. wrote /\ hot = c
    BY <2>1, <2>4 DEF HotChannel
  <2>6. /\ HotChannel' = c /\ Min1(todo)' = c
    BY <2>4, <2>5 DEF HotChannel
  <2>. HIDE DEF c, g
  <2>7. /\ gch' \in DOMAIN state'.chans /\ DOMAIN state'.chans \subseteq {gch', hot'}
        /\ touched' \subseteq DOMAIN state'.chans
        /\ \A x \in DOMAIN state'.chans : x # c => state'.chans[x] = Restore[x]
        /\ DOMAIN file'.chans \subseteq DOMAIN state'.chans
        /\ DOMAIN state'.chans \subseteq DOMAIN file'.chans \cup unlogged'
    <3>1. /\ gch \in DOMAIN state.chans /\ DOMAIN state.chans \subseteq {gch, hot}
          /\ touched \subseteq DOMAIN state.chans
          /\ \A x \in DOMAIN state.chans : x # c => state.chans[x] = Restore[x]
          /\ DOMAIN file.chans \subseteq DOMAIN state.chans
          /\ DOMAIN state.chans \subseteq DOMAIN file.chans \cup unlogged
      BY <2>2, <2>4, <2>5 DEF Closing, Running
    <3>. QED
      BY <2>3, <2>4, <2>5, <3>1
  <2>8. state'.chans[c] = "full" /\ c \in touched'
    BY <2>3, <2>4
  <2>. QED
    BY <2>1, <2>4, <2>6, <2>7, <2>8 DEF Closing, Running
<1>24. CASE Raise
  <2>1. PICK t \in Ops : t.ch = Min1(todo) /\ t.val = "full" /\ Issued("worker", t)
    BY <1>24, RaiseIssues DEF Raise, Closing
  <2>2. to'["worker"] = t
    BY <2>1, Issue DEF Procs
  <2>3. /\ wpc = "raising" /\ wpc' = "closing"
        /\ UNCHANGED <<gch, hot, state, wrote, file, unlogged, touched>>
    BY <1>24 DEF Raise, vars, os, driver, worker, guard, hist, world, run_
  <2>. QED
    BY <2>1, <2>2, <2>3 DEF Closing, Running, HotChannel
<1>25. CASE CloseAnswered
  <2>1. /\ wpc = "closing" /\ wpc' = wpc /\ to'["worker"] = NoOp /\ touched' \subseteq touched
        /\ UNCHANGED <<gch, hot, state, wrote, file, unlogged>>
    BY <1>25 DEF CloseAnswered, OpEnds, Driver, Procs, guard, hist
  <2>. QED
    BY <2>1 DEF Closing, Running, HotChannel
<1>26. CASE NextClose
  BY <1>26
  DEF NextClose, Owed, HotChannel, LastPass, Closing, Running, HotChannel, vars, os, driver, worker, guard, hist, world, run_
<1>27. CASE Mark
  BY <1>27
  DEF Mark, WriteFile, Fault, run_, Closing, Running, HotChannel, vars, os, driver, worker, guard, hist, world, run_
<1>28. CASE WorkerReaped
  BY <1>28
  DEF WorkerReaped, run_, Closing, Running, HotChannel, vars, os, driver, worker, guard, hist, world, run_
<1>29. CASE TestDone
  <2>1. /\ wpc = "sampling" /\ wpc' = "closing" /\ to["worker"] = NoOp
        /\ UNCHANGED <<gch, hot, state, wrote, file, unlogged, touched, to>>
    BY <1>29 DEF TestDone, Queueing, vars, os, driver, worker, guard, hist, world, run_
  <2>. QED
    BY <2>1 DEF Closing, Running, HotChannel
<1>30. CASE RestoreLocks
  BY <1>30
  DEF RestoreLocks, Closing, Running, HotChannel, vars, os, driver, worker, guard, hist, world, run_
<1>31. CASE RestoreFromRun
  BY <1>31
  DEF RestoreFromRun, Restoring, Closing, Running, HotChannel, vars, os, driver, worker, guard, hist, world, run_
<1>32. CASE RestoreFromBundle
  BY <1>32
  DEF RestoreFromBundle, Restoring, Closing, Running, HotChannel, vars, os, driver, worker, guard, hist, world, run_
<1>33. CASE NothingToRestore
  BY <1>33
  DEF NothingToRestore, Closing, Running, HotChannel, vars, os, driver, worker, guard, hist, world, run_
<1>34. CASE Discard
  BY <1>34
  DEF Discard, Open, Closing, Running, HotChannel, vars, os, driver, worker, guard, hist, world, run_
<1>35. CASE RestoreDead
  BY <1>35
  DEF RestoreDead, Closing, Running, HotChannel, vars, os, driver, worker, guard, hist, world, run_
<1>36. CASE \E p \in Procs : WriteTimesOut(p)
  BY <1>36
  DEF WriteTimesOut, Fault, Closing, Running, HotChannel, vars, os, driver, worker, guard, hist, world, run_
<1>37. CASE KillWorker
  BY <1>37
  DEF KillWorker, WorkerAlive, Dies, Fault, Closing, Running, HotChannel, vars, os, driver, worker, guard, hist, world, run_
<1>38. CASE KillGuardian
  BY <1>38
  DEF KillGuardian, Dies, Fault, Closing, Running, HotChannel, vars, os, driver, worker, guard, hist, world, run_
<1>39. CASE KillRestore
  BY <1>39
  DEF KillRestore, Dies, Fault, Closing, Running, HotChannel, vars, os, driver, worker, guard, hist, world, run_
<1>40. CASE Panics
  <2>1. /\ wpc = "sampling" /\ wpc' = "closing" /\ to["worker"] = NoOp
        /\ UNCHANGED <<gch, hot, state, wrote, file, unlogged, touched, to>>
    BY <1>40 DEF Panics, Queueing, vars, os, driver, worker, guard, hist, world, run_
  <2>. QED
    BY <2>1 DEF Closing, Running, HotChannel
<1>41. CASE \E o \in BOOLEAN : ReloadModule(o)
  BY <1>41
  DEF ReloadModule, Fault, Closing, Running, HotChannel, vars, os, driver, worker, guard, hist, world, run_
<1>42. CASE GuardianBegins
  BY <1>42
  DEF GuardianBegins, Closing, Running, HotChannel, vars, os, driver, worker, guard, hist, world, run_
<1>43. CASE RestoreBegins
  BY <1>43
  DEF RestoreBegins, Closing, Running, HotChannel, vars, os, driver, worker, guard, hist, world, run_
<1>44. CASE FangovStarts
  BY <1>44
  DEF FangovStarts, Closing, Running, HotChannel, vars, os, driver, worker, guard, hist, world, run_
<1>45. CASE FangovLocks
  BY <1>45
  DEF FangovLocks, Closing, Running, HotChannel, vars, os, driver, worker, guard, hist, world, run_
<1>46. CASE FangovStops
  BY <1>46
  DEF FangovStops, Closing, Running, HotChannel, vars, os, driver, worker, guard, hist, world, run_
<1>47. CASE UNCHANGED vars
  BY <1>47
  DEF Closing, Running, HotChannel, vars, os, driver, worker, guard, hist, world, run_
<1>. QED
  BY <1>1, <1>2, <1>3, <1>4, <1>5, <1>6, <1>7, <1>8, <1>9, <1>10, <1>11, <1>12, <1>13, <1>14, <1>15, <1>16, <1>17, <1>18, <1>19, <1>20, <1>21, <1>22, <1>23, <1>24, <1>25, <1>26, <1>27, <1>28, <1>29, <1>30, <1>31, <1>32, <1>33, <1>34, <1>35, <1>36, <1>37, <1>38, <1>39, <1>40, <1>41, <1>42, <1>43, <1>44, <1>45, <1>46, <1>47
  DEF Next, DriverSteps, GuardianSteps, WorkerSteps, RestoreSteps, Accidents, Procs, Restorers

-----------------------------------------------------------------------------
(* What has its value keeps it.                                            *)

\* A step leaves a channel with nothing on its way to it as it is.
Spares(c) ==
  (\A i \in 1..Len(queue) : queue[i].ch # c) =>
    chan'[c] \in {chan[c], "handed"} /\ \A i \in 1..Len(queue') : queue'[i].ch # c
Writes(p, c) == Works(p) /\ to'[p] # NoOp /\ to'[p].ch = c

\* A new operation disturbs its own channel only.
LEMMA IssueSpares ==
  ASSUME Driver, NEW p \in Procs, NEW t \in Ops, Issued(p, t), Works(p), UNCHANGED chan,
         NEW c \in Channels
  PROVE  Spares(c) \/ Writes(p, c)
<1>1. to'[p] = t /\ t # NoOp
  BY Issue DEF Ops, NoOp
<1>2. CASE t.ch = c
  BY <1>1, <1>2 DEF Writes
<1>3. CASE t.ch # c
  <2>1. /\ \A i \in 1..Len(queue) : queue'[i] = queue[i]
        /\ \A i \in 1..Len(queue') : i \in 1..Len(queue) \/ queue'[i].ch = t.ch
    BY Issue
  <2>. QED
    BY <1>3, <2>1 DEF Spares
<1>. QED
  BY <1>2, <1>3

\* A served request disturbs its own channel only.
LEMMA AnswerSpares ==
  ASSUME Driver, queue # <<>>, NEW a \in {"ok", "err"}, Answer(Head(queue), a),
         NEW c \in Channels, c # queue[1].ch => chan'[c] = chan[c]
  PROVE  Spares(c)
<1>1. /\ Len(queue) \in Nat \ {0} /\ Len(queue') = Len(queue) - 1
      /\ \A i \in 1..Len(queue') : queue'[i] = queue[i + 1]
  BY AnswerType
<1>. SUFFICES ASSUME \A i \in 1..Len(queue) : queue[i].ch # c
              PROVE  chan'[c] \in {chan[c], "handed"} /\ \A i \in 1..Len(queue') : queue'[i].ch # c
  BY DEF Spares
<1>2. chan'[c] = chan[c]
  BY <1>1
<1>3. \A i \in 1..Len(queue') : i + 1 \in 1..Len(queue)
  BY <1>1
<1>. QED
  BY <1>1, <1>2, <1>3

\* A process that gives up or dies disturbs no channel.
LEMMA GivesUpSpares ==
  ASSUME Driver, NEW p \in Procs, queue' = Abandoned(p), UNCHANGED chan, NEW c \in Channels
  PROVE  Spares(c)
BY AbandonedType DEF Spares

\* While a process has the lock, only its own operation disturbs a channel.
LEMMA Sparing ==
  ASSUME Control, Files, Driver, Locking, Queueing, Closing, Restoration, [Next]_vars,
         FangovLocks \/ FangovStops => lock \in {"run", "restore"}, NEW c \in Channels
  PROVE  Spares(c) \/ \E p \in Procs : Writes(p, c)
<1>1. CASE DriverServes
  <2>1. queue # <<>> /\ queue[1] \in Requests /\ \E a \in {"ok", "err"} : Answer(Head(queue), a)
    BY <1>1, Served, Tailed DEF Driver
  <2>2. c # queue[1].ch => chan'[c] = chan[c]
    BY <1>1, Served
  <2>. QED
    BY <2>1, <2>2, AnswerSpares
<1>2. CASE DriverFails
  <2>1. /\ queue # <<>> /\ Answer(Head(queue), "err")
        /\ chan' = [chan EXCEPT ![Head(queue).ch] = "unknown"]
    BY <1>2 DEF DriverFails
  <2>2. c # queue[1].ch => chan'[c] = chan[c]
    BY <2>1, Tailed DEF Driver
  <2>. QED
    BY <2>1, <2>2, AnswerSpares
<1>3. CASE \E x \in Channels : GuardianLocks(x)
  <2>1. UNCHANGED <<chan, queue>>
    BY <1>3 DEF GuardianLocks, vars, os, driver, worker, guard, hist, world, run_
  <2>. QED
    BY <2>1 DEF Spares
<1>4. CASE GuardianReads
  <2>1. UNCHANGED <<chan, queue>>
    BY <1>4 DEF GuardianReads, vars, os, driver, worker, guard, hist, world, run_
  <2>. QED
    BY <2>1 DEF Spares
<1>5. CASE StartWorker
  <2>1. UNCHANGED <<chan, queue>>
    BY <1>5 DEF StartWorker, vars, os, driver, worker, guard, hist, world, run_
  <2>. QED
    BY <2>1 DEF Spares
<1>6. CASE WorkerGone
  <2>1. UNCHANGED <<chan, queue>>
    BY <1>6 DEF WorkerGone, Restoring, vars, os, driver, worker, guard, hist, world, run_
  <2>. QED
    BY <2>1 DEF Spares
<1>7. CASE GuardianDead
  <2>1. UNCHANGED <<chan, queue>>
    BY <1>7 DEF GuardianDead, run_, vars, os, driver, worker, guard, hist, world, run_
  <2>. QED
    BY <2>1 DEF Spares
<1>8. CASE \E p \in Procs : SetDuty(p)
  <2>1. PICK p \in Procs : SetDuty(p)
    BY <1>8
  <2>2. PICK t \in Ops : Issued(p, t)
    BY <2>1, SetDutyIssues
  <2>3. to[p] # NoOp /\ UNCHANGED chan
    BY <2>1 DEF SetDuty, NoOp
  <2>4. Works(p)
    BY <2>3 DEF Queueing
  <2>. QED
    BY <2>2, <2>3, <2>4, IssueSpares
<1>9. CASE \E p \in Restorers : RestoreNext(p)
  <2>1. PICK p \in Restorers : RestoreNext(p)
    BY <1>9
  <2>2. PICK t \in Ops : Issued(p, t)
    BY <2>1, RestoreNextIssues
  <2>3. p \in Procs /\ Works(p) /\ UNCHANGED chan
    BY <2>1 DEF RestoreNext, Works, Procs, Restorers
  <2>. QED
    BY <2>2, <2>3, IssueSpares
<1>10. CASE \E p \in Restorers : RestoreAnswered(p)
  <2>1. UNCHANGED <<chan, queue>>
    BY <1>10 DEF RestoreAnswered, OpEnds, Restorers, vars, os, driver, worker, guard, hist, world, run_
  <2>. QED
    BY <2>1 DEF Spares
<1>11. CASE \E p \in Restorers : RestoreEnds(p)
  <2>1. UNCHANGED <<chan, queue>>
    BY <1>11 DEF RestoreEnds, WriteFile, Fault, Restorers, At, vars, os, driver, worker, guard, hist, world, run_
  <2>. QED
    BY <2>1 DEF Spares
<1>12. CASE WorkerAdopts
  <2>1. UNCHANGED <<chan, queue>>
    BY <1>12 DEF WorkerAdopts, world, run_, vars, os, driver, worker, guard, hist, world, run_
  <2>. QED
    BY <2>1 DEF Spares
<1>13. CASE WorkerRefused
  <2>1. UNCHANGED <<chan, queue>>
    BY <1>13 DEF WorkerRefused, world, run_, vars, os, driver, worker, guard, hist, world, run_
  <2>. QED
    BY <2>1 DEF Spares
<1>14. CASE WorkerStarts
  <2>1. UNCHANGED <<chan, queue>>
    BY <1>14 DEF WorkerStarts, world, vars, os, driver, worker, guard, hist, world, run_
  <2>. QED
    BY <2>1 DEF Spares
<1>15. CASE SampleGood
  <2>1. UNCHANGED <<chan, queue>>
    BY <1>15 DEF SampleGood, world, run_, vars, os, driver, worker, guard, hist, world, run_
  <2>. QED
    BY <2>1 DEF Spares
<1>16. CASE \E h \in {0} \cup HotChannels : Aborts(h)
  <2>1. UNCHANGED <<chan, queue>>
    BY <1>16 DEF Aborts, world, vars, os, driver, worker, guard, hist, world, run_
  <2>. QED
    BY <2>1 DEF Spares
<1>17. CASE FirstWrite
  <2>1. UNCHANGED <<chan, queue>>
    BY <1>17 DEF FirstWrite, Fault, vars, os, driver, worker, guard, hist, world, run_
  <2>. QED
    BY <2>1 DEF Spares
<1>18. CASE TestAuto
  <2>1. PICK t \in Ops : Issued("worker", t)
    BY <1>18, TestIssues
  <2>2. UNCHANGED chan /\ Works("worker") /\ "worker" \in Procs
    BY <1>18 DEF TestAuto, world, Works, Running, Procs
  <2>. QED
    BY <2>1, <2>2, IssueSpares
<1>19. CASE TestDuty
  <2>1. PICK t \in Ops : Issued("worker", t)
    BY <1>19, TestIssues
  <2>2. UNCHANGED chan /\ Works("worker") /\ "worker" \in Procs
    BY <1>19 DEF TestDuty, world, Works, Running, Procs
  <2>. QED
    BY <2>1, <2>2, IssueSpares
<1>20. CASE TestNextDuty
  <2>1. PICK t \in Ops : Issued("worker", t)
    BY <1>20, TestIssues
  <2>2. UNCHANGED chan /\ Works("worker") /\ "worker" \in Procs
    BY <1>20 DEF TestNextDuty, world, Works, Running, Procs
  <2>. QED
    BY <2>1, <2>2, IssueSpares
<1>21. CASE TestAnswered
  <2>1. UNCHANGED <<chan, queue>>
    BY <1>21 DEF TestAnswered, OpEnds, vars, os, driver, worker, guard, hist, world, run_
  <2>. QED
    BY <2>1 DEF Spares
<1>22. CASE CloseNext
  <2>1. PICK t \in Ops : Issued("worker", t)
    BY <1>22, CloseNextIssues
  <2>2. UNCHANGED chan /\ Works("worker") /\ "worker" \in Procs
    BY <1>22 DEF CloseNext, world, Works, Running, Procs
  <2>. QED
    BY <2>1, <2>2, IssueSpares
<1>23. CASE CloseHot
  <2>1. UNCHANGED <<chan, queue>>
    BY <1>23 DEF CloseHot, BeforeHot, Fault, vars, os, driver, worker, guard, hist, world, run_
  <2>. QED
    BY <2>1 DEF Spares
<1>24. CASE Raise
  <2>1. PICK t \in Ops : Issued("worker", t)
    BY <1>24, RaiseIssues DEF Raise, Closing
  <2>2. UNCHANGED chan /\ Works("worker") /\ "worker" \in Procs
    BY <1>24 DEF Raise, world, Works, Running, Procs
  <2>. QED
    BY <2>1, <2>2, IssueSpares
<1>25. CASE CloseAnswered
  <2>1. UNCHANGED <<chan, queue>>
    BY <1>25 DEF CloseAnswered, OpEnds, vars, os, driver, worker, guard, hist, world, run_
  <2>. QED
    BY <2>1 DEF Spares
<1>26. CASE NextClose
  <2>1. UNCHANGED <<chan, queue>>
    BY <1>26 DEF NextClose, Owed, HotChannel, LastPass, vars, os, driver, worker, guard, hist, world, run_
  <2>. QED
    BY <2>1 DEF Spares
<1>27. CASE Mark
  <2>1. UNCHANGED <<chan, queue>>
    BY <1>27 DEF Mark, WriteFile, Fault, run_, vars, os, driver, worker, guard, hist, world, run_
  <2>. QED
    BY <2>1 DEF Spares
<1>28. CASE WorkerReaped
  <2>1. UNCHANGED <<chan, queue>>
    BY <1>28 DEF WorkerReaped, run_, vars, os, driver, worker, guard, hist, world, run_
  <2>. QED
    BY <2>1 DEF Spares
<1>29. CASE TestDone
  <2>1. UNCHANGED <<chan, queue>>
    BY <1>29 DEF TestDone, world, vars, os, driver, worker, guard, hist, world, run_
  <2>. QED
    BY <2>1 DEF Spares
<1>30. CASE RestoreLocks
  <2>1. UNCHANGED <<chan, queue>>
    BY <1>30 DEF RestoreLocks, vars, os, driver, worker, guard, hist, world, run_
  <2>. QED
    BY <2>1 DEF Spares
<1>31. CASE RestoreFromRun
  <2>1. UNCHANGED <<chan, queue>>
    BY <1>31 DEF RestoreFromRun, Restoring, vars, os, driver, worker, guard, hist, world, run_
  <2>. QED
    BY <2>1 DEF Spares
<1>32. CASE RestoreFromBundle
  <2>1. UNCHANGED <<chan, queue>>
    BY <1>32 DEF RestoreFromBundle, Restoring, vars, os, driver, worker, guard, hist, world, run_
  <2>. QED
    BY <2>1 DEF Spares
<1>33. CASE NothingToRestore
  <2>1. UNCHANGED <<chan, queue>>
    BY <1>33 DEF NothingToRestore, vars, os, driver, worker, guard, hist, world, run_
  <2>. QED
    BY <2>1 DEF Spares
<1>34. CASE Discard
  <2>1. UNCHANGED <<chan, queue>>
    BY <1>34 DEF Discard, Open, vars, os, driver, worker, guard, hist, world, run_
  <2>. QED
    BY <2>1 DEF Spares
<1>35. CASE RestoreDead
  <2>1. UNCHANGED <<chan, queue>>
    BY <1>35 DEF RestoreDead, vars, os, driver, worker, guard, hist, world, run_
  <2>. QED
    BY <2>1 DEF Spares
<1>36. CASE \E p \in Procs : WriteTimesOut(p)
  BY <1>36, GivesUpSpares DEF WriteTimesOut
<1>37. CASE KillWorker
  BY <1>37, GivesUpSpares DEF KillWorker, Dies, Procs
<1>38. CASE KillGuardian
  BY <1>38, GivesUpSpares DEF KillGuardian, Dies, Procs
<1>39. CASE KillRestore
  BY <1>39, GivesUpSpares DEF KillRestore, Dies, Procs
<1>40. CASE Panics
  <2>1. UNCHANGED <<chan, queue>>
    BY <1>40 DEF Panics, Fault, Owed, HotChannel, LastPass, world, vars, os, driver, worker, guard, hist, world, run_
  <2>. QED
    BY <2>1 DEF Spares
<1>41. CASE \E o \in BOOLEAN : ReloadModule(o)
  BY <1>41 DEF ReloadModule, Spares
<1>42. CASE GuardianBegins
  <2>1. UNCHANGED <<chan, queue>>
    BY <1>42 DEF GuardianBegins, vars, os, driver, worker, guard, hist, world, run_
  <2>. QED
    BY <2>1 DEF Spares
<1>43. CASE RestoreBegins
  <2>1. UNCHANGED <<chan, queue>>
    BY <1>43 DEF RestoreBegins, vars, os, driver, worker, guard, hist, world, run_
  <2>. QED
    BY <2>1 DEF Spares
<1>44. CASE FangovStarts
  <2>1. UNCHANGED <<chan, queue>>
    BY <1>44 DEF FangovStarts, vars, os, driver, worker, guard, hist, world, run_
  <2>. QED
    BY <2>1 DEF Spares
<1>45. CASE FangovLocks
  <2>1. UNCHANGED <<chan, queue>>
    BY <1>45 DEF FangovLocks, driver
  <2>. QED
    BY <2>1 DEF Spares
<1>46. CASE FangovStops
  BY <1>46 DEF FangovStops, Locking
<1>47. CASE UNCHANGED vars
  <2>1. UNCHANGED <<chan, queue>>
    BY <1>47 DEF vars, os, driver, worker, guard, hist, world, run_
  <2>. QED
    BY <2>1 DEF Spares
<1>. QED
  BY <1>1, <1>2, <1>3, <1>4, <1>5, <1>6, <1>7, <1>8, <1>9, <1>10, <1>11, <1>12, <1>13, <1>14, <1>15, <1>16, <1>17, <1>18, <1>19, <1>20, <1>21, <1>22, <1>23, <1>24, <1>25, <1>26, <1>27, <1>28, <1>29, <1>30, <1>31, <1>32, <1>33, <1>34, <1>35, <1>36, <1>37, <1>38, <1>39, <1>40, <1>41, <1>42, <1>43, <1>44, <1>45, <1>46, <1>47
  DEF Next, DriverSteps, GuardianSteps, WorkerSteps, RestoreSteps, Accidents, Procs, Restorers

\* No channel has the number 0.
LEMMA ZeroIsNone ==
  ASSUME NEW f \in StateFiles
  PROVE  0 \notin DOMAIN f.chans
<1>1. DOMAIN f.chans \subseteq Channels
  BY FileParts
<1>2. Channels \subseteq 1..4
  BY GuardianAssumption DEF GuardianAssumption
<1>3. 0 \notin 1..4
  OBVIOUS
<1>. QED
  BY <1>1, <1>2, <1>3

\* Every step leaves a channel that the worker counts as put back at its value.
LEMMA SettlingStep ==
  Control /\ Files /\ Driver /\ Locking /\ Queueing /\ Closing /\ Settling /\ Restoration /\ Closing' /\ [Next]_vars => Settling'
<1>. SUFFICES ASSUME Control, Files, Driver, Locking, Queueing, Closing, Settling, Restoration, Closing', [Next]_vars,
                     wpc' \in {"closing", "raising"}, wrote',
                     NEW c \in DOMAIN state'.chans \ touched'
              PROVE  /\ chan'[c] \in {state'.chans[c], "handed"}
                     /\ \A i \in 1..Len(queue') : queue'[i].ch # c
  BY DEF Settling, Settled
<1>1. wpc' \in {"closing", "raising"} /\ wrote'
  OBVIOUS
<1>2. c \in DOMAIN state'.chans /\ c \notin touched'
  OBVIOUS
<1>3. ASSUME wpc \in {"closing", "raising"}, wrote, c \in DOMAIN state.chans \ touched,
             state'.chans[c] = state.chans[c]
      PROVE  /\ chan'[c] \in {state'.chans[c], "handed"}
             /\ \A i \in 1..Len(queue') : queue'[i].ch # c
  <2>1. lock = "run" /\ Works("worker") /\ "worker" \in Procs
    BY <1>3 DEF Locking, Works, Running, Procs
  <2>2. state \in StateFiles
    BY <1>3 DEF Files, Running
  <2>3. c \in Channels
    BY <1>3, <2>2, FileParts
  <2>4. ~\E p \in Procs : Writes(p, c)
    <3>. SUFFICES ASSUME NEW p \in Procs, Writes(p, c)
                  PROVE  FALSE
      OBVIOUS
    <3>1. p = "worker"
      BY <2>1, OneWorks DEF Writes
    <3>2. to'["worker"] # NoOp /\ to'["worker"].ch = c
      BY <3>1 DEF Writes
    <3>. QED
      BY <1>1, <1>2, <3>2 DEF Closing, Running
  <2>5. Spares(c)
    BY <2>1, <2>3, <2>4, Sparing
  <2>6. Settled(c, state.chans[c])
    BY <1>3 DEF Settling
  <2>. QED
    BY <1>3, <2>5, <2>6 DEF Spares, Settled
<1>4. CASE DriverServes
  <2>1. wpc \in {"closing", "raising"} /\ UNCHANGED <<state, touched, wrote>>
    BY <1>1, <1>4 DEF DriverServes, Answer, vars, os, driver, worker, guard, hist, world, run_
  <2>. QED
    BY <1>1, <1>2, <1>3, <2>1
<1>5. CASE DriverFails
  <2>1. wpc \in {"closing", "raising"} /\ UNCHANGED <<state, touched, wrote>>
    BY <1>1, <1>5 DEF DriverFails, Answer, Fault, vars, os, driver, worker, guard, hist, world, run_
  <2>. QED
    BY <1>1, <1>2, <1>3, <2>1
<1>6. CASE \E x \in Channels : GuardianLocks(x)
  <2>1. wpc \in {"closing", "raising"} /\ UNCHANGED <<state, touched, wrote>>
    BY <1>1, <1>6 DEF GuardianLocks, vars, os, driver, worker, guard, hist, world, run_
  <2>. QED
    BY <1>1, <1>2, <1>3, <2>1
<1>7. CASE GuardianReads
  <2>1. wpc \in {"closing", "raising"} /\ UNCHANGED <<state, touched, wrote>>
    BY <1>1, <1>7 DEF GuardianReads, vars, os, driver, worker, guard, hist, world, run_
  <2>. QED
    BY <1>1, <1>2, <1>3, <2>1
<1>8. CASE StartWorker
  BY <1>8, <1>1 DEF StartWorker
<1>9. CASE WorkerGone
  BY <1>9, <1>1 DEF WorkerGone
<1>10. CASE GuardianDead
  BY <1>10, <1>1, <1>3 DEF GuardianDead, run_
<1>11. CASE \E p \in Procs : SetDuty(p)
  <2>1. wpc \in {"closing", "raising"} /\ UNCHANGED <<state, touched, wrote>>
    BY <1>1, <1>11 DEF SetDuty, vars, os, driver, worker, guard, hist, world, run_
  <2>. QED
    BY <1>1, <1>2, <1>3, <2>1
<1>12. CASE \E p \in Restorers : RestoreNext(p)
  <2>1. wpc \in {"closing", "raising"} /\ UNCHANGED <<state, touched, wrote>>
    BY <1>1, <1>12 DEF RestoreNext, Restorers, vars, os, driver, worker, guard, hist, world, run_
  <2>. QED
    BY <1>1, <1>2, <1>3, <2>1
<1>13. CASE \E p \in Restorers : RestoreAnswered(p)
  <2>1. wpc \in {"closing", "raising"} /\ UNCHANGED <<state, touched, wrote>>
    BY <1>1, <1>13 DEF RestoreAnswered, OpEnds, Restorers, vars, os, driver, worker, guard, hist, world, run_
  <2>. QED
    BY <1>1, <1>2, <1>3, <2>1
<1>14. CASE \E p \in Restorers : RestoreEnds(p)
  <2>1. wpc \in {"closing", "raising"} /\ UNCHANGED <<state, touched, wrote>>
    BY <1>1, <1>14 DEF RestoreEnds, WriteFile, Fault, Restorers, At, vars, os, driver, worker, guard, hist, world, run_
  <2>. QED
    BY <1>1, <1>2, <1>3, <2>1
<1>15. CASE WorkerAdopts
  BY <1>15, <1>1 DEF WorkerAdopts
<1>16. CASE WorkerRefused
  BY <1>16, <1>1 DEF WorkerRefused
<1>17. CASE WorkerStarts
  BY <1>17, <1>1 DEF WorkerStarts
<1>18. CASE SampleGood
  BY <1>18, <1>1 DEF SampleGood
<1>19. CASE \E h \in {0} \cup HotChannels : Aborts(h)
  <2>1. /\ wpc \in {"sampling", "writing"}
        /\ UNCHANGED <<state, touched, wrote>>
    BY <1>19 DEF Aborts
  <2>2. gch \in touched /\ hot = 0 /\ DOMAIN state.chans \subseteq {gch, hot}
    BY <1>1, <2>1 DEF Closing, Running
  <2>3. state \in StateFiles
    BY <2>1 DEF Files, Running
  <2>. QED
    BY <1>1, <1>2, <2>1, <2>2, <2>3, ZeroIsNone
<1>20. CASE FirstWrite
  <2>1. wpc' = "closing" /\ wpc = "testing" /\ wrote' = wrote /\ ~wrote
    BY <1>20, <1>1 DEF FirstWrite
  <2>. QED
    BY <1>1, <2>1
<1>21. CASE TestAuto
  BY <1>21, <1>1 DEF TestAuto
<1>22. CASE TestDuty
  BY <1>22, <1>1 DEF TestDuty
<1>23. CASE TestNextDuty
  BY <1>23, <1>1 DEF TestNextDuty
<1>24. CASE TestAnswered
  <2>1. /\ wpc \in {"sampling", "writing"}
        /\ UNCHANGED <<state, touched, wrote>>
    BY <1>24 DEF TestAnswered
  <2>2. gch \in touched /\ hot = 0 /\ DOMAIN state.chans \subseteq {gch, hot}
    BY <1>1, <2>1 DEF Closing, Running
  <2>3. state \in StateFiles
    BY <2>1 DEF Files, Running
  <2>. QED
    BY <1>1, <1>2, <2>1, <2>2, <2>3, ZeroIsNone
<1>25. CASE CloseNext
  <2>1. wpc \in {"closing", "raising"} /\ UNCHANGED <<state, touched, wrote>>
    BY <1>1, <1>25 DEF CloseNext, world, run_, vars, os, driver, worker, guard, hist, world, run_
  <2>. QED
    BY <1>1, <1>2, <1>3, <2>1
<1>26. CASE CloseHot
  <2>. DEFINE k == Min1(todo)
              g == Hot(state, k)
  <2>1. k \in Channels /\ state \in StateFiles /\ wpc = "closing"
    BY <1>26, NextOfClose DEF CloseHot, Files, Running
  <2>2. state' = g /\ touched' = touched \cup {k} /\ wrote' = wrote
    BY <1>26 DEF CloseHot, BeforeHot
  <2>3. /\ DOMAIN g.chans = DOMAIN state.chans \cup {k}
        /\ \A x \in DOMAIN state.chans \ {k} : g.chans[x] = state.chans[x]
    BY <2>1, FileHot
  <2>. HIDE DEF g, k
  <2>4. c # k /\ c \in DOMAIN state.chans \ touched /\ state'.chans[c] = state.chans[c]
    BY <1>2, <2>2, <2>3
  <2>. QED
    BY <1>1, <1>3, <2>1, <2>2, <2>4
<1>27. CASE Raise
  <2>1. wpc \in {"closing", "raising"} /\ UNCHANGED <<state, touched, wrote>>
    BY <1>1, <1>27 DEF Raise, world, run_, vars, os, driver, worker, guard, hist, world, run_
  <2>. QED
    BY <1>1, <1>2, <1>3, <2>1
<1>28. CASE CloseAnswered
  <2>1. /\ wpc = "closing" /\ OpEnds("worker") /\ "worker" \in Procs
        /\ UNCHANGED <<state, wrote, chan, queue>>
        /\ touched' = IF OpOk("worker") THEN touched \ {to["worker"].ch} ELSE touched
    BY <1>28 DEF CloseAnswered, OpEnds, Procs
  <2>2. CASE c \notin touched
    BY <1>1, <1>2, <1>3, <2>1, <2>2
  <2>3. CASE c \in touched
    <3>1. OpOk("worker") /\ c = to["worker"].ch
      BY <1>2, <2>1, <2>3
    <3>2. /\ to["worker"] # NoOp /\ to["worker"].step = "last" /\ res["worker"] = "ok"
      BY <3>1 DEF OpOk, NoOp
    <3>3. Len(queue) = 0 /\ chan[c] \in {to["worker"].val, "handed"}
      BY <2>1, <3>1, <3>2 DEF Queueing
    <3>4. to["worker"].val = state.chans[c]
      BY <2>1, <3>1, <3>2 DEF Closing
    <3>. QED
      BY <2>1, <3>3, <3>4
  <2>. QED
    BY <2>2, <2>3
<1>29. CASE NextClose
  <2>1. wpc \in {"closing", "raising"} /\ UNCHANGED <<state, touched, wrote>>
    BY <1>1, <1>29 DEF NextClose, Owed, HotChannel, LastPass, vars, os, driver, worker, guard, hist, world, run_
  <2>. QED
    BY <1>1, <1>2, <1>3, <2>1
<1>30. CASE Mark
  BY <1>30, <1>1 DEF Mark
<1>31. CASE WorkerReaped
  BY <1>31, <1>1 DEF WorkerReaped
<1>32. CASE TestDone
  <2>1. /\ wpc \in {"sampling", "writing"}
        /\ UNCHANGED <<state, touched, wrote>>
    BY <1>32 DEF TestDone
  <2>2. gch \in touched /\ hot = 0 /\ DOMAIN state.chans \subseteq {gch, hot}
    BY <1>1, <2>1 DEF Closing, Running
  <2>3. state \in StateFiles
    BY <2>1 DEF Files, Running
  <2>. QED
    BY <1>1, <1>2, <2>1, <2>2, <2>3, ZeroIsNone
<1>33. CASE RestoreLocks
  <2>1. wpc \in {"closing", "raising"} /\ UNCHANGED <<state, touched, wrote>>
    BY <1>1, <1>33 DEF RestoreLocks, vars, os, driver, worker, guard, hist, world, run_
  <2>. QED
    BY <1>1, <1>2, <1>3, <2>1
<1>34. CASE RestoreFromRun
  <2>1. wpc \in {"closing", "raising"} /\ UNCHANGED <<state, touched, wrote>>
    BY <1>1, <1>34 DEF RestoreFromRun, Restoring, vars, os, driver, worker, guard, hist, world, run_
  <2>. QED
    BY <1>1, <1>2, <1>3, <2>1
<1>35. CASE RestoreFromBundle
  <2>1. wpc \in {"closing", "raising"} /\ UNCHANGED <<state, touched, wrote>>
    BY <1>1, <1>35 DEF RestoreFromBundle, Restoring, vars, os, driver, worker, guard, hist, world, run_
  <2>. QED
    BY <1>1, <1>2, <1>3, <2>1
<1>36. CASE NothingToRestore
  <2>1. wpc \in {"closing", "raising"} /\ UNCHANGED <<state, touched, wrote>>
    BY <1>1, <1>36 DEF NothingToRestore, vars, os, driver, worker, guard, hist, world, run_
  <2>. QED
    BY <1>1, <1>2, <1>3, <2>1
<1>37. CASE Discard
  <2>1. wpc \in {"closing", "raising"} /\ UNCHANGED <<state, touched, wrote>>
    BY <1>1, <1>37 DEF Discard, Open, vars, os, driver, worker, guard, hist, world, run_
  <2>. QED
    BY <1>1, <1>2, <1>3, <2>1
<1>38. CASE RestoreDead
  <2>1. wpc \in {"closing", "raising"} /\ UNCHANGED <<state, touched, wrote>>
    BY <1>1, <1>38 DEF RestoreDead, vars, os, driver, worker, guard, hist, world, run_
  <2>. QED
    BY <1>1, <1>2, <1>3, <2>1
<1>39. CASE \E p \in Procs : WriteTimesOut(p)
  <2>1. wpc \in {"closing", "raising"} /\ UNCHANGED <<state, touched, wrote>>
    BY <1>1, <1>39 DEF WriteTimesOut, Fault, vars, os, driver, worker, guard, hist, world, run_
  <2>. QED
    BY <1>1, <1>2, <1>3, <2>1
<1>40. CASE KillWorker
  BY <1>40, <1>1 DEF KillWorker
<1>41. CASE KillGuardian
  <2>1. wpc \in {"closing", "raising"} /\ UNCHANGED <<state, touched, wrote>>
    BY <1>1, <1>41 DEF KillGuardian, Dies, Fault, vars, os, driver, worker, guard, hist, world, run_
  <2>. QED
    BY <1>1, <1>2, <1>3, <2>1
<1>42. CASE KillRestore
  <2>1. wpc \in {"closing", "raising"} /\ UNCHANGED <<state, touched, wrote>>
    BY <1>1, <1>42 DEF KillRestore, Dies, Fault, vars, os, driver, worker, guard, hist, world, run_
  <2>. QED
    BY <1>1, <1>2, <1>3, <2>1
<1>43. CASE Panics
  <2>1. /\ wpc \in {"sampling", "writing"}
        /\ UNCHANGED <<state, touched, wrote>>
    BY <1>43 DEF Panics
  <2>2. gch \in touched /\ hot = 0 /\ DOMAIN state.chans \subseteq {gch, hot}
    BY <1>1, <2>1 DEF Closing, Running
  <2>3. state \in StateFiles
    BY <2>1 DEF Files, Running
  <2>. QED
    BY <1>1, <1>2, <2>1, <2>2, <2>3, ZeroIsNone
<1>44. CASE \E o \in BOOLEAN : ReloadModule(o)
  <2>1. wpc \in {"closing", "raising"} /\ UNCHANGED <<state, touched, wrote>>
    BY <1>1, <1>44 DEF ReloadModule, Fault, vars, os, driver, worker, guard, hist, world, run_
  <2>. QED
    BY <1>1, <1>2, <1>3, <2>1
<1>45. CASE GuardianBegins
  <2>1. wpc \in {"closing", "raising"} /\ UNCHANGED <<state, touched, wrote>>
    BY <1>1, <1>45 DEF GuardianBegins, vars, os, driver, worker, guard, hist, world, run_
  <2>. QED
    BY <1>1, <1>2, <1>3, <2>1
<1>46. CASE RestoreBegins
  <2>1. wpc \in {"closing", "raising"} /\ UNCHANGED <<state, touched, wrote>>
    BY <1>1, <1>46 DEF RestoreBegins, vars, os, driver, worker, guard, hist, world, run_
  <2>. QED
    BY <1>1, <1>2, <1>3, <2>1
<1>47. CASE FangovStarts
  <2>1. wpc \in {"closing", "raising"} /\ UNCHANGED <<state, touched, wrote>>
    BY <1>1, <1>47 DEF FangovStarts, vars, os, driver, worker, guard, hist, world, run_
  <2>. QED
    BY <1>1, <1>2, <1>3, <2>1
<1>48. CASE FangovLocks
  <2>1. wpc \in {"closing", "raising"} /\ UNCHANGED <<state, touched, wrote>>
    BY <1>1, <1>48 DEF FangovLocks, vars, os, driver, worker, guard, hist, world, run_
  <2>. QED
    BY <1>1, <1>2, <1>3, <2>1
<1>49. CASE FangovStops
  <2>1. wpc \in {"closing", "raising"} /\ UNCHANGED <<state, touched, wrote>>
    BY <1>1, <1>49 DEF FangovStops, vars, os, driver, worker, guard, hist, world, run_
  <2>. QED
    BY <1>1, <1>2, <1>3, <2>1
<1>50. CASE UNCHANGED vars
  <2>1. wpc \in {"closing", "raising"} /\ UNCHANGED <<state, touched, wrote>>
    BY <1>1, <1>50 DEF vars, os, driver, worker, guard, hist, world, run_
  <2>. QED
    BY <1>1, <1>2, <1>3, <2>1
<1>. QED
  BY <1>4, <1>5, <1>6, <1>7, <1>8, <1>9, <1>10, <1>11, <1>12, <1>13, <1>14, <1>15, <1>16, <1>17, <1>18, <1>19, <1>20, <1>21, <1>22, <1>23, <1>24, <1>25, <1>26, <1>27, <1>28, <1>29, <1>30, <1>31, <1>32, <1>33, <1>34, <1>35, <1>36, <1>37, <1>38, <1>39, <1>40, <1>41, <1>42, <1>43, <1>44, <1>45, <1>46, <1>47, <1>48, <1>49, <1>50
  DEF Next, DriverSteps, GuardianSteps, WorkerSteps, RestoreSteps, Accidents, Procs, Restorers

\* Every step leaves a channel that a restore has done at its value.
LEMMA RestorationStep ==
  Control /\ Files /\ Driver /\ Locking /\ Queueing /\ Closing /\ Restoration /\ [Next]_vars => Restoration'
<1>. SUFFICES ASSUME Control, Files, Driver, Locking, Queueing, Closing, Restoration, [Next]_vars,
                     NEW p \in Restorers, At(p)' = "restoring"
              PROVE  JobOf(p)'
  BY DEF Restoration
<1>1. At(p)' = "restoring"
  OBVIOUS
<1>2. At(p) = "restoring" /\ to[p] # NoOp => to[p].ch \in job[p].todo /\ to[p].val = FileValue(job[p].from, to[p].ch)
  BY DEF Restoration, JobOf
<1>3. ASSUME At(p) = "restoring", job'[p] = job[p], byHand \subseteq byHand',
             to'[p] # NoOp => to'[p].ch \in job[p].todo /\ to'[p].val = FileValue(job[p].from, to'[p].ch)
      PROVE  JobOf(p)'
  <2>1. /\ Works(p) /\ p \in Procs /\ lock \in {"run", "restore"} /\ JobOf(p)
        /\ job[p].from \in StateFiles
    BY <1>3 DEF Locking, Works, Restorers, Procs, At, Restoration, Files, Jobs
  <2>2. ASSUME NEW c \in DOMAIN job[p].from.chans \ job[p].todo, job[p].ok
        PROVE  Settled(c, FileValue(job[p].from, c))'
    <3>1. c \in Channels
      BY <2>1, FileParts
    <3>2. ~\E q \in Procs : Writes(q, c)
      <4>. SUFFICES ASSUME NEW q \in Procs, Writes(q, c)
                    PROVE  FALSE
        OBVIOUS
      <4>1. q = p
        BY <2>1, OneWorks DEF Writes
      <4>. QED
        BY <1>3, <2>2, <4>1 DEF Writes
    <3>3. Spares(c)
      BY <2>1, <3>1, <3>2, Sparing
    <3>4. Settled(c, FileValue(job[p].from, c))
      BY <2>1, <2>2 DEF JobOf
    <3>5. FileValue(job[p].from, c)' = FileValue(job[p].from, c)
      BY <1>3 DEF FileValue
    <3>. QED
      BY <3>3, <3>4, <3>5 DEF Spares, Settled
  <2>. QED
    BY <1>3, <2>1, <2>2 DEF JobOf, FileValue
<1>4. ASSUME wpc \in Running, At(p) = "restoring"
      PROVE  FALSE
  BY <1>4 DEF Locking, At, Restorers, Running
<1>5. ASSUME NEW q \in Restorers, At(p) = "restoring", At(q) = "restoring"
      PROVE  p = q
  BY <1>5 DEF Locking, At, Restorers
<1>6. CASE DriverServes
  <2>1. At(p) = "restoring" /\ UNCHANGED <<job, to, byHand>>
    BY <1>1, <1>6 DEF DriverServes, Answer, vars, os, driver, worker, guard, hist, world, run_, At, Restorers
  <2>. QED
    BY <1>2, <2>1, <1>3
<1>7. CASE DriverFails
  <2>1. At(p) = "restoring" /\ UNCHANGED <<job, to, byHand>>
    BY <1>1, <1>7 DEF DriverFails, Answer, Fault, vars, os, driver, worker, guard, hist, world, run_, At, Restorers
  <2>. QED
    BY <1>2, <2>1, <1>3
<1>8. CASE \E c \in Channels : GuardianLocks(c)
  <2>1. At(p) = "restoring" /\ UNCHANGED <<job, to, byHand>>
    BY <1>1, <1>8 DEF GuardianLocks, vars, os, driver, worker, guard, hist, world, run_, At, Restorers
  <2>. QED
    BY <1>2, <2>1, <1>3
<1>9. CASE GuardianReads
  <2>1. At(p) = "restoring" /\ UNCHANGED <<job, to, byHand>>
    BY <1>1, <1>9 DEF GuardianReads, vars, os, driver, worker, guard, hist, world, run_, At, Restorers
  <2>. QED
    BY <1>2, <2>1, <1>3
<1>10. CASE StartWorker
  <2>1. At(p) = "restoring" /\ UNCHANGED <<job, to, byHand>>
    BY <1>1, <1>10 DEF StartWorker, vars, os, driver, worker, guard, hist, world, run_, At, Restorers
  <2>. QED
    BY <1>2, <2>1, <1>3
<1>11. CASE WorkerGone
  <2>0. CASE file.st \in {"none", "restored"}
    <3>1. At(p) = "restoring" /\ UNCHANGED <<job, to, byHand>>
      BY <1>1, <2>0, <1>11 DEF WorkerGone, At, Restorers, driver, hist
    <3>. QED
      BY <1>2, <1>3, <3>1
  <2>. SUFFICES ASSUME file.st \notin {"none", "restored"}
                PROVE  JobOf(p)'
    BY <2>0
  <2>1. /\ Restoring("guardian", file, TRUE) /\ At("guardian") # "restoring" /\ UNCHANGED <<to, byHand, rpc>>
    BY <1>11 DEF WorkerGone, At, driver, hist
  <2>2. file \in StateFiles
    BY DEF Files, NoFile
  <2>3. /\ job'["guardian"] = [todo |-> DOMAIN file.chans, ok |-> TRUE, from |-> file, sp |-> TRUE]
        /\ p = "guardian" \/ job'[p] = job[p]
    BY <2>1, <2>2, JobSteps DEF Restorers
  <2>4. CASE p = "guardian"
    <3>1. to["guardian"] = NoOp
      BY <2>1 DEF Queueing, Works, Procs
    <3>. QED
      BY <2>1, <2>3, <2>4, <3>1 DEF JobOf
  <2>5. CASE p # "guardian"
    BY <1>1, <1>2, <1>3, <2>1, <2>3, <2>5 DEF At, Restorers
  <2>. QED
    BY <2>4, <2>5
<1>12. CASE GuardianDead
  <2>1. At(p) = "restoring" /\ UNCHANGED <<job, to, byHand>>
    BY <1>1, <1>12 DEF GuardianDead, run_, vars, os, driver, worker, guard, hist, world, run_, At, Restorers
  <2>. QED
    BY <1>2, <2>1, <1>3
<1>13. CASE \E x \in Procs : SetDuty(x)
  <2>1. PICK q \in Procs : SetDuty(q)
    BY <1>13
  <2>2. PICK t \in Ops : t.ch = to[q].ch /\ t.val = to[q].val /\ Issued(q, t)
    BY <2>1, SetDutyIssues
  <2>3. At(p) = "restoring" /\ UNCHANGED <<job, byHand>> /\ to[q] # NoOp
    BY <1>1, <2>1 DEF SetDuty, At, guard, hist, NoOp
  <2>4. p = q
    <3>1. Works(q) /\ Works(p) /\ p \in Procs
      BY <2>3 DEF Queueing, Works, Restorers, Procs
    <3>. QED
      BY <3>1, OneWorks
  <2>5. to'[p].ch = to[p].ch /\ to'[p].val = to[p].val
    BY <2>2, <2>4, Issue
  <2>6. JobOf(p)
    BY <2>3 DEF Restoration
  <2>. QED
    BY <1>2, <1>3, <2>3, <2>4, <2>5, <2>6 DEF JobOf
<1>14. CASE \E x \in Restorers : RestoreNext(x)
  <2>1. PICK q \in Restorers : RestoreNext(q)
    BY <1>14
  <2>2. At(p) = "restoring" /\ At(q) = "restoring" /\ UNCHANGED <<job, byHand>>
    BY <1>1, <2>1 DEF RestoreNext, At, guard, hist
  <2>3. p = q
    BY <1>5, <2>2
  <2>4. PICK t \in Ops : /\ t.ch \in job[p].todo /\ t.val = FileValue(job[p].from, t.ch)
                         /\ Issued(p, t)
    BY <2>1, <2>3, RestoreNextIssues
  <2>5. to'[p] = t
    BY <2>4, Issue DEF Procs, Restorers
  <2>. QED
    BY <1>2, <1>3, <2>2, <2>4, <2>5
<1>15. CASE \E x \in Restorers : RestoreAnswered(x)
  <2>1. PICK q \in Restorers : RestoreAnswered(q)
    BY <1>15
  <2>2. /\ At(p) = "restoring" /\ At(q) = "restoring" /\ byHand' = byHand
        /\ OpEnds(q) /\ UNCHANGED <<chan, queue>>
    BY <1>1, <2>1 DEF RestoreAnswered, OpEnds, At, guard, hist
  <2>3. p = q
    BY <1>5, <2>2
  <2>4. job[p] \in Jobs /\ JobOf(p) /\ p \in Procs
    BY <2>2 DEF Files, Restoration, Restorers, Procs
  <2>5. /\ job'[p].todo = job[p].todo \ {to[p].ch} /\ job'[p].ok = (job[p].ok /\ OpOk(p))
        /\ job'[p].from = job[p].from /\ job'[p].sp = job[p].sp
    BY <2>1, <2>3, <2>4, JobAnswered
  <2>6. to'[p] = NoOp
    BY <2>2, <2>3 DEF OpEnds, Driver, Restorers, Procs
  <2>7. ASSUME job'[p].ok, NEW c \in DOMAIN job'[p].from.chans \ job'[p].todo
        PROVE  Settled(c, FileValue(job[p].from, c))
    <3>1. job[p].ok /\ OpOk(p)
      BY <2>5, <2>7
    <3>2. CASE c \notin job[p].todo
      BY <2>4, <2>5, <2>7, <3>1, <3>2 DEF JobOf
    <3>3. CASE c \in job[p].todo
      <4>1. c = to[p].ch
        BY <2>5, <2>7, <3>3
      <4>2. to[p] # NoOp /\ to[p].step = "last" /\ res[p] = "ok"
        BY <3>1 DEF OpOk, NoOp
      <4>3. Len(queue) = 0 /\ chan[c] \in {to[p].val, "handed"}
        BY <2>4, <4>1, <4>2 DEF Queueing
      <4>4. to[p].val = FileValue(job[p].from, c)
        BY <2>4, <4>1, <4>2 DEF JobOf
      <4>. QED
        BY <4>3, <4>4 DEF Settled
    <3>. QED
      BY <3>2, <3>3
  <2>8. \A c \in DOMAIN job'[p].from.chans \ job'[p].todo :
          job'[p].ok => Settled(c, FileValue(job[p].from, c))'
    BY <2>2, <2>5, <2>7 DEF Settled, FileValue
  <2>. QED
    BY <2>2, <2>4, <2>5, <2>6, <2>8 DEF JobOf
<1>16. CASE \E x \in Restorers : RestoreEnds(x)
  <2>1. PICK q \in Restorers : RestoreEnds(q)
    BY <1>16
  <2>2. p # q /\ At(p) = "restoring" /\ At(q) = "restoring"
    BY <1>1, <2>1 DEF RestoreEnds, At, Restorers
  <2>. QED
    BY <1>5, <2>2
<1>17. CASE WorkerAdopts
  <2>1. At(p) = "restoring" /\ UNCHANGED <<job, to, byHand>>
    BY <1>1, <1>17 DEF WorkerAdopts, world, run_, vars, os, driver, worker, guard, hist, world, run_, At, Restorers
  <2>. QED
    BY <1>2, <2>1, <1>3
<1>18. CASE WorkerRefused
  <2>1. At(p) = "restoring" /\ UNCHANGED <<job, to, byHand>>
    BY <1>1, <1>18 DEF WorkerRefused, world, run_, vars, os, driver, worker, guard, hist, world, run_, At, Restorers
  <2>. QED
    BY <1>2, <2>1, <1>3
<1>19. CASE WorkerStarts
  <2>1. At(p) = "restoring" /\ UNCHANGED <<job, to, byHand>>
    BY <1>1, <1>19 DEF WorkerStarts, world, vars, os, driver, worker, guard, hist, world, run_, At, Restorers
  <2>. QED
    BY <1>2, <2>1, <1>3
<1>20. CASE SampleGood
  <2>1. At(p) = "restoring" /\ UNCHANGED <<job, to, byHand>>
    BY <1>1, <1>20 DEF SampleGood, world, run_, vars, os, driver, worker, guard, hist, world, run_, At, Restorers
  <2>. QED
    BY <1>2, <2>1, <1>3
<1>21. CASE \E h \in {0} \cup HotChannels : Aborts(h)
  <2>1. At(p) = "restoring" /\ UNCHANGED <<job, to, byHand>>
    BY <1>1, <1>21 DEF Aborts, world, vars, os, driver, worker, guard, hist, world, run_, At, Restorers
  <2>. QED
    BY <1>2, <2>1, <1>3
<1>22. CASE FirstWrite
  <2>1. wpc \in Running
    BY <1>22 DEF FirstWrite, Running
  <2>2. At(p) = "restoring"
    BY <1>1, <1>22 DEF FirstWrite, vars, os, driver, worker, guard, hist, world, run_, At
  <2>. QED
    BY <2>1, <2>2, <1>4
<1>23. CASE TestAuto
  <2>1. wpc \in Running
    BY <1>23 DEF TestAuto, Running
  <2>2. At(p) = "restoring"
    BY <1>1, <1>23 DEF TestAuto, vars, os, driver, worker, guard, hist, world, run_, At
  <2>. QED
    BY <2>1, <2>2, <1>4
<1>24. CASE TestDuty
  <2>1. wpc \in Running
    BY <1>24 DEF TestDuty, Running
  <2>2. At(p) = "restoring"
    BY <1>1, <1>24 DEF TestDuty, vars, os, driver, worker, guard, hist, world, run_, At
  <2>. QED
    BY <2>1, <2>2, <1>4
<1>25. CASE TestNextDuty
  <2>1. wpc \in Running
    BY <1>25 DEF TestNextDuty, Running
  <2>2. At(p) = "restoring"
    BY <1>1, <1>25 DEF TestNextDuty, vars, os, driver, worker, guard, hist, world, run_, At
  <2>. QED
    BY <2>1, <2>2, <1>4
<1>26. CASE TestAnswered
  <2>1. wpc \in Running
    BY <1>26 DEF TestAnswered, Running
  <2>2. At(p) = "restoring"
    BY <1>1, <1>26 DEF TestAnswered, vars, os, driver, worker, guard, hist, world, run_, At
  <2>. QED
    BY <2>1, <2>2, <1>4
<1>27. CASE CloseNext
  <2>1. wpc \in Running
    BY <1>27 DEF CloseNext, Running
  <2>2. At(p) = "restoring"
    BY <1>1, <1>27 DEF CloseNext, vars, os, driver, worker, guard, hist, world, run_, At
  <2>. QED
    BY <2>1, <2>2, <1>4
<1>28. CASE CloseHot
  <2>1. At(p) = "restoring" /\ UNCHANGED <<job, to, byHand>>
    BY <1>1, <1>28 DEF CloseHot, BeforeHot, Fault, vars, os, driver, worker, guard, hist, world, run_, At, Restorers
  <2>. QED
    BY <1>2, <2>1, <1>3
<1>29. CASE Raise
  <2>1. wpc \in Running
    BY <1>29 DEF Raise, Running
  <2>2. At(p) = "restoring"
    BY <1>1, <1>29 DEF Raise, vars, os, driver, worker, guard, hist, world, run_, At
  <2>. QED
    BY <2>1, <2>2, <1>4
<1>30. CASE CloseAnswered
  <2>1. wpc \in Running
    BY <1>30 DEF CloseAnswered, Running
  <2>2. At(p) = "restoring"
    BY <1>1, <1>30 DEF CloseAnswered, vars, os, driver, worker, guard, hist, world, run_, At
  <2>. QED
    BY <2>1, <2>2, <1>4
<1>31. CASE NextClose
  <2>1. At(p) = "restoring" /\ UNCHANGED <<job, to, byHand>>
    BY <1>1, <1>31 DEF NextClose, Owed, HotChannel, LastPass, vars, os, driver, worker, guard, hist, world, run_, At, Restorers
  <2>. QED
    BY <1>2, <2>1, <1>3
<1>32. CASE Mark
  <2>1. At(p) = "restoring" /\ UNCHANGED <<job, to, byHand>>
    BY <1>1, <1>32 DEF Mark, WriteFile, Fault, run_, vars, os, driver, worker, guard, hist, world, run_, At, Restorers
  <2>. QED
    BY <1>2, <2>1, <1>3
<1>33. CASE WorkerReaped
  <2>1. At(p) = "restoring" /\ UNCHANGED <<job, to, byHand>>
    BY <1>1, <1>33 DEF WorkerReaped, run_, vars, os, driver, worker, guard, hist, world, run_, At, Restorers
  <2>. QED
    BY <1>2, <2>1, <1>3
<1>34. CASE TestDone
  <2>1. At(p) = "restoring" /\ UNCHANGED <<job, to, byHand>>
    BY <1>1, <1>34 DEF TestDone, world, vars, os, driver, worker, guard, hist, world, run_, At, Restorers
  <2>. QED
    BY <1>2, <2>1, <1>3
<1>35. CASE RestoreLocks
  <2>1. At(p) = "restoring" /\ UNCHANGED <<job, to, byHand>>
    BY <1>1, <1>35 DEF RestoreLocks, vars, os, driver, worker, guard, hist, world, run_, At, Restorers
  <2>. QED
    BY <1>2, <2>1, <1>3
<1>36. CASE RestoreFromRun
  <2>1. /\ Restoring("restore", file, TRUE) /\ At("restore") # "restoring" /\ UNCHANGED <<to, byHand, gpc>>
    BY <1>36 DEF RestoreFromRun, At, driver, guard, hist
  <2>2. file \in StateFiles
    BY <1>36 DEF RestoreFromRun, Files, NoFile, Open
  <2>3. /\ job'["restore"] = [todo |-> DOMAIN file.chans, ok |-> TRUE, from |-> file, sp |-> TRUE]
        /\ p = "restore" \/ job'[p] = job[p]
    BY <2>1, <2>2, JobSteps DEF Restorers
  <2>4. CASE p = "restore"
    <3>1. to["restore"] = NoOp
      BY <2>1 DEF Queueing, Works, Procs
    <3>. QED
      BY <2>1, <2>3, <2>4, <3>1 DEF JobOf
  <2>5. CASE p # "restore"
    BY <1>1, <1>2, <1>3, <2>1, <2>3, <2>5 DEF At, Restorers
  <2>. QED
    BY <2>4, <2>5
<1>37. CASE RestoreFromBundle
  <2>1. /\ Restoring("restore", bundle, FALSE) /\ At("restore") # "restoring" /\ UNCHANGED <<to, gpc>>
        /\ byHand' = byHand \cup DOMAIN bundle.chans
    BY <1>37 DEF RestoreFromBundle, At, driver, guard
  <2>2. bundle \in StateFiles
    BY <1>37 DEF RestoreFromBundle, Files
  <2>3. /\ job'["restore"] = [todo |-> DOMAIN bundle.chans, ok |-> TRUE, from |-> bundle, sp |-> FALSE]
        /\ p = "restore" \/ job'[p] = job[p]
    BY <2>1, <2>2, JobSteps DEF Restorers
  <2>4. CASE p = "restore"
    <3>1. to["restore"] = NoOp
      BY <2>1 DEF Queueing, Works, Procs
    <3>. QED
      BY <2>1, <2>3, <2>4, <3>1 DEF JobOf
  <2>5. CASE p # "restore"
    BY <1>1, <1>2, <1>3, <2>1, <2>3, <2>5 DEF At, Restorers
  <2>. QED
    BY <2>4, <2>5
<1>38. CASE NothingToRestore
  <2>1. At(p) = "restoring" /\ UNCHANGED <<job, to, byHand>>
    BY <1>1, <1>38 DEF NothingToRestore, vars, os, driver, worker, guard, hist, world, run_, At, Restorers
  <2>. QED
    BY <1>2, <2>1, <1>3
<1>39. CASE Discard
  BY <1>1, <1>2, <1>3, <1>39 DEF Discard, At, Restorers, driver, guard
<1>40. CASE RestoreDead
  <2>1. At(p) = "restoring" /\ UNCHANGED <<job, to, byHand>>
    BY <1>1, <1>40 DEF RestoreDead, vars, os, driver, worker, guard, hist, world, run_, At, Restorers
  <2>. QED
    BY <1>2, <2>1, <1>3
<1>41. CASE \E x \in Procs : WriteTimesOut(x)
  <2>1. At(p) = "restoring" /\ UNCHANGED <<job, to, byHand>>
    BY <1>1, <1>41 DEF WriteTimesOut, guard, At
  <2>. QED
    BY <1>2, <1>3, <2>1
<1>42. CASE KillWorker
  <2>1. At(p) = "restoring" /\ job' = job /\ byHand' = byHand
    BY <1>1, <1>42 DEF KillWorker, guard, At
  <2>2. to'[p] = to[p]
    BY <1>42 DEF KillWorker, Dies, Driver, Restorers
  <2>. QED
    BY <1>2, <1>3, <2>1, <2>2
<1>43. CASE KillGuardian
  <2>1. p = "restore" /\ At(p) = "restoring" /\ byHand' = byHand
    BY <1>1, <1>43 DEF KillGuardian, guard, At, Restorers
  <2>2. to'[p] = to[p] /\ job'[p] = job[p]
    BY <1>43, <2>1 DEF KillGuardian, Dies, Driver, Files, Restorers
  <2>. QED
    BY <1>2, <1>3, <2>1, <2>2
<1>44. CASE KillRestore
  <2>1. p = "guardian" /\ At(p) = "restoring" /\ byHand' = byHand
    BY <1>1, <1>44 DEF KillRestore, guard, At, Restorers
  <2>2. to'[p] = to[p] /\ job'[p] = job[p]
    BY <1>44, <2>1 DEF KillRestore, Dies, Driver, Files, Restorers
  <2>. QED
    BY <1>2, <1>3, <2>1, <2>2
<1>45. CASE Panics
  <2>1. At(p) = "restoring" /\ UNCHANGED <<job, to, byHand>>
    BY <1>1, <1>45 DEF Panics, Fault, Owed, HotChannel, LastPass, world, vars, os, driver, worker, guard, hist, world, run_, At, Restorers
  <2>. QED
    BY <1>2, <2>1, <1>3
<1>46. CASE \E o \in BOOLEAN : ReloadModule(o)
  <2>1. At(p) = "restoring" /\ UNCHANGED <<job, to, byHand>>
    BY <1>1, <1>46 DEF ReloadModule, Fault, vars, os, driver, worker, guard, hist, world, run_, At, Restorers
  <2>. QED
    BY <1>2, <2>1, <1>3
<1>47. CASE GuardianBegins
  <2>1. At(p) = "restoring" /\ UNCHANGED <<job, to, byHand>>
    BY <1>1, <1>47 DEF GuardianBegins, vars, os, driver, worker, guard, hist, world, run_, At, Restorers
  <2>. QED
    BY <1>2, <2>1, <1>3
<1>48. CASE RestoreBegins
  <2>1. At(p) = "restoring" /\ UNCHANGED <<job, to, byHand>>
    BY <1>1, <1>48 DEF RestoreBegins, vars, os, driver, worker, guard, hist, world, run_, At, Restorers
  <2>. QED
    BY <1>2, <2>1, <1>3
<1>49. CASE FangovStarts
  <2>1. At(p) = "restoring" /\ UNCHANGED <<job, to, byHand>>
    BY <1>1, <1>49 DEF FangovStarts, vars, os, driver, worker, guard, hist, world, run_, At, Restorers
  <2>. QED
    BY <1>2, <2>1, <1>3
<1>50. CASE FangovLocks
  <2>1. At(p) = "restoring" /\ UNCHANGED <<job, to, byHand>>
    BY <1>1, <1>50 DEF FangovLocks, vars, os, driver, worker, guard, hist, world, run_, At, Restorers
  <2>. QED
    BY <1>2, <2>1, <1>3
<1>51. CASE FangovStops
  <2>1. At(p) = "restoring" /\ UNCHANGED <<job, to, byHand>>
    BY <1>1, <1>51 DEF FangovStops, vars, os, driver, worker, guard, hist, world, run_, At, Restorers
  <2>. QED
    BY <1>2, <2>1, <1>3
<1>52. CASE UNCHANGED vars
  <2>1. At(p) = "restoring" /\ UNCHANGED <<job, to, byHand>>
    BY <1>1, <1>52 DEF vars, os, driver, worker, guard, hist, world, run_, At, Restorers
  <2>. QED
    BY <1>2, <2>1, <1>3
<1>. QED
  BY <1>6, <1>7, <1>8, <1>9, <1>10, <1>11, <1>12, <1>13, <1>14, <1>15, <1>16, <1>17, <1>18, <1>19, <1>20, <1>21, <1>22, <1>23, <1>24, <1>25, <1>26, <1>27, <1>28, <1>29, <1>30, <1>31, <1>32, <1>33, <1>34, <1>35, <1>36, <1>37, <1>38, <1>39, <1>40, <1>41, <1>42, <1>43, <1>44, <1>45, <1>46, <1>47, <1>48, <1>49, <1>50, <1>51, <1>52
  DEF Next, DriverSteps, GuardianSteps, WorkerSteps, RestoreSteps, Accidents, Procs, Restorers

-----------------------------------------------------------------------------
(* What comes off its value is on record.                                  *)

Busy(c) == OffDuty(chan[c]) \/ \E i \in 1..Len(queue) : queue[i].ch = c

\* A settled channel has its value and no request under way.
LEMMA SettledIsIdle ==
  ASSUME NEW c, NEW v \in {"auto", "full", "stop"}, Settled(c, v)
  PROVE  ~Busy(c)
BY DEF Settled, Busy, OffDuty

\* Every step keeps the record of a channel that is off its value or may get there.
LEMMA StaysRecorded ==
  ASSUME Control, Files, Driver, Locking, Kept, Queueing, Closing, Settling, Restoration, [Next]_vars,
         NEW c \in Channels, Busy(c), Recorded(c)
  PROVE  Recorded(c)'
<1>1. CASE DriverServes
  BY <1>1 DEF DriverServes, Answer, Recorded, Open, vars, os, driver, worker, guard, hist, world, run_
<1>2. CASE DriverFails
  BY <1>2 DEF DriverFails, Answer, Fault, Recorded, Open, vars, os, driver, worker, guard, hist, world, run_
<1>3. CASE \E x \in Channels : GuardianLocks(x)
  BY <1>3 DEF GuardianLocks, Recorded, Open, vars, os, driver, worker, guard, hist, world, run_
<1>4. CASE GuardianReads
  BY <1>4 DEF GuardianReads, Recorded, Open, hist
<1>5. CASE StartWorker
  BY <1>5 DEF StartWorker, Recorded, Open, vars, os, driver, worker, guard, hist, world, run_
<1>6. CASE WorkerGone
  BY <1>6 DEF WorkerGone, Restoring, Recorded, Open, vars, os, driver, worker, guard, hist, world, run_
<1>7. CASE GuardianDead
  BY <1>7 DEF GuardianDead, run_, Recorded, Open, vars, os, driver, worker, guard, hist, world, run_
<1>8. CASE \E p \in Procs : SetDuty(p)
  BY <1>8 DEF SetDuty, Recorded, Open, vars, os, driver, worker, guard, hist, world, run_
<1>9. CASE \E p \in Restorers : RestoreNext(p)
  BY <1>9 DEF RestoreNext, Restorers, Recorded, Open, vars, os, driver, worker, guard, hist, world, run_
<1>10. CASE \E p \in Restorers : RestoreAnswered(p)
  BY <1>10 DEF RestoreAnswered, OpEnds, Restorers, Recorded, Open, vars, os, driver, worker, guard, hist, world, run_
<1>11. CASE \E p \in Restorers : RestoreEnds(p)
  <2>1. PICK p \in Restorers : RestoreEnds(p)
    BY <1>11
  <2>2. At(p) = "restoring" /\ job[p].todo = {} /\ UNCHANGED <<byHand, unlogged>>
    BY <2>1 DEF RestoreEnds
  <2>3. CASE file' = file
    BY <2>2, <2>3 DEF Recorded, Open
  <2>4. CASE file' # file
    <3>1. job[p].ok /\ job[p].sp
      BY <2>1, <2>4 DEF RestoreEnds
    <3>2. /\ job[p].from = file /\ job[p].from \in StateFiles
          /\ \A x \in DOMAIN file.chans : Settled(x, FileValue(file, x))
      BY <2>2, <3>1 DEF Kept, Restoration, JobOf, Files, Jobs
    <3>3. \A x \in DOMAIN file.chans : FileValue(file, x) \in {"auto", "full", "stop"}
      BY <3>2, FileParts DEF FileValue
    <3>4. c \notin DOMAIN file.chans
      BY <3>2, <3>3, SettledIsIdle
    <3>. QED
      BY <2>2, <3>4 DEF Recorded
  <2>. QED
    BY <2>3, <2>4
<1>12. CASE WorkerAdopts
  BY <1>12 DEF WorkerAdopts, world, run_, Recorded, Open, vars, os, driver, worker, guard, hist, world, run_
<1>13. CASE WorkerRefused
  BY <1>13 DEF WorkerRefused, world, run_, Recorded, Open, vars, os, driver, worker, guard, hist, world, run_
<1>14. CASE WorkerStarts
  BY <1>14 DEF WorkerStarts, world, Recorded, Open, vars, os, driver, worker, guard, hist, world, run_
<1>15. CASE SampleGood
  BY <1>15 DEF SampleGood, world, run_, Recorded, Open, vars, os, driver, worker, guard, hist, world, run_
<1>16. CASE \E h \in {0} \cup HotChannels : Aborts(h)
  BY <1>16 DEF Aborts, world, Recorded, Open, vars, os, driver, worker, guard, hist, world, run_
<1>17. CASE FirstWrite
  <2>1. state \in StateFiles /\ state.st = "active" /\ gch \in DOMAIN state.chans /\ ~Open(file)
    BY <1>17 DEF FirstWrite, Files, Running, Closing, Kept
  <2>2. /\ unlogged' = unlogged
        /\ \/ file' = state /\ byHand' = byHand \ {gch}
           \/ UNCHANGED <<file, byHand>>
    BY <1>17 DEF FirstWrite
  <2>. QED
    BY <2>1, <2>2 DEF Recorded, Open
<1>18. CASE TestAuto
  BY <1>18 DEF TestAuto, world, Recorded, Open, vars, os, driver, worker, guard, hist, world, run_
<1>19. CASE TestDuty
  BY <1>19 DEF TestDuty, world, Recorded, Open, vars, os, driver, worker, guard, hist, world, run_
<1>20. CASE TestNextDuty
  BY <1>20 DEF TestNextDuty, world, Recorded, Open, vars, os, driver, worker, guard, hist, world, run_
<1>21. CASE TestAnswered
  BY <1>21 DEF TestAnswered, OpEnds, Recorded, Open, vars, os, driver, worker, guard, hist, world, run_
<1>22. CASE CloseNext
  BY <1>22 DEF CloseNext, world, run_, Recorded, Open, vars, os, driver, worker, guard, hist, world, run_
<1>23. CASE CloseHot
  <2>. DEFINE k == Min1(todo)
              g == Hot(state, k)
  <2>1. k \in Channels /\ k # 0 /\ state \in StateFiles /\ state.st = "active" /\ wpc = "closing"
    BY <1>23, NextOfClose DEF CloseHot, Files, Running
  <2>2. /\ byHand' = byHand /\ k = HotChannel
        /\ \/ file' = g /\ unlogged' = unlogged \ {k}
           \/ file' = file /\ unlogged' = unlogged \cup {k}
    BY <1>23 DEF CloseHot, BeforeHot, ToRaise
  <2>3. g.st = "active" /\ DOMAIN g.chans = DOMAIN state.chans \cup {k}
    BY <2>1, FileHot
  <2>4. DOMAIN file.chans \subseteq DOMAIN state.chans
    BY <2>1, <2>2 DEF Closing, Running, HotChannel
  <2>. HIDE DEF g, k
  <2>. QED
    BY <2>2, <2>3, <2>4 DEF Recorded, Open
<1>24. CASE Raise
  BY <1>24 DEF Raise, world, run_, Recorded, Open, vars, os, driver, worker, guard, hist, world, run_
<1>25. CASE CloseAnswered
  BY <1>25 DEF CloseAnswered, OpEnds, Recorded, Open, vars, os, driver, worker, guard, hist, world, run_
<1>26. CASE NextClose
  BY <1>26 DEF NextClose, Owed, HotChannel, LastPass, Recorded, Open, vars, os, driver, worker, guard, hist, world, run_
<1>27. CASE Mark
  <2>1. wpc = "closing" /\ state \in StateFiles /\ UNCHANGED <<byHand, unlogged>>
    BY <1>27 DEF Mark, Files, Running
  <2>2. CASE file' = file
    BY <2>1, <2>2 DEF Recorded, Open
  <2>3. CASE file' # file /\ Open(file)
    <3>1. touched = {}
      BY <1>27, <2>3 DEF Mark
    <3>2. wrote
      BY <2>1, <2>3 DEF Kept, Running
    <3>3. /\ \A x \in DOMAIN state.chans : Settled(x, state.chans[x])
          /\ DOMAIN file.chans \subseteq DOMAIN state.chans
      BY <2>1, <3>1, <3>2 DEF Settling, Closing, Running
    <3>4. \A x \in DOMAIN state.chans : state.chans[x] \in {"auto", "full", "stop"}
      BY <2>1, FileParts
    <3>5. c \notin DOMAIN file.chans
      BY <3>3, <3>4, SettledIsIdle
    <3>. QED
      BY <2>1, <3>5 DEF Recorded
  <2>4. CASE ~Open(file)
    BY <2>1, <2>4 DEF Recorded
  <2>. QED
    BY <2>2, <2>3, <2>4
<1>28. CASE WorkerReaped
  BY <1>28 DEF WorkerReaped, run_, Recorded, Open, vars, os, driver, worker, guard, hist, world, run_
<1>29. CASE TestDone
  BY <1>29 DEF TestDone, world, Recorded, Open, vars, os, driver, worker, guard, hist, world, run_
<1>30. CASE RestoreLocks
  BY <1>30 DEF RestoreLocks, Recorded, Open, vars, os, driver, worker, guard, hist, world, run_
<1>31. CASE RestoreFromRun
  BY <1>31 DEF RestoreFromRun, Restoring, Recorded, Open, vars, os, driver, worker, guard, hist, world, run_
<1>32. CASE RestoreFromBundle
  BY <1>32 DEF RestoreFromBundle, Recorded, Open
<1>33. CASE NothingToRestore
  BY <1>33 DEF NothingToRestore, Recorded, Open, vars, os, driver, worker, guard, hist, world, run_
<1>34. CASE Discard
  BY <1>34 DEF Discard, Recorded, Open
<1>35. CASE RestoreDead
  BY <1>35 DEF RestoreDead, Recorded, Open, vars, os, driver, worker, guard, hist, world, run_
<1>36. CASE \E p \in Procs : WriteTimesOut(p)
  BY <1>36 DEF WriteTimesOut, Fault, Recorded, Open, vars, os, driver, worker, guard, hist, world, run_
<1>37. CASE KillWorker
  BY <1>37 DEF KillWorker, WorkerAlive, Dies, Fault, Recorded, Open, vars, os, driver, worker, guard, hist, world, run_
<1>38. CASE KillGuardian
  BY <1>38 DEF KillGuardian, Dies, Fault, Recorded, Open, vars, os, driver, worker, guard, hist, world, run_
<1>39. CASE KillRestore
  BY <1>39 DEF KillRestore, Dies, Fault, Recorded, Open, vars, os, driver, worker, guard, hist, world, run_
<1>40. CASE Panics
  BY <1>40 DEF Panics, Fault, Owed, HotChannel, LastPass, world, Recorded, Open, vars, os, driver, worker, guard, hist, world, run_
<1>41. CASE \E o \in BOOLEAN : ReloadModule(o)
  BY <1>41 DEF ReloadModule, Fault, Recorded, Open, vars, os, driver, worker, guard, hist, world, run_
<1>42. CASE GuardianBegins
  BY <1>42 DEF GuardianBegins, Recorded, Open, vars, os, driver, worker, guard, hist, world, run_
<1>43. CASE RestoreBegins
  BY <1>43 DEF RestoreBegins, Recorded, Open, vars, os, driver, worker, guard, hist, world, run_
<1>44. CASE FangovStarts
  BY <1>44 DEF FangovStarts, Recorded, Open, vars, os, driver, worker, guard, hist, world, run_
<1>45. CASE FangovLocks
  BY <1>45 DEF FangovLocks, Recorded, Open, vars, os, driver, worker, guard, hist, world, run_
<1>46. CASE FangovStops
  BY <1>46 DEF FangovStops, Recorded, Open, vars, os, driver, worker, guard, hist, world, run_
<1>47. CASE UNCHANGED vars
  BY <1>47 DEF Recorded, Open, vars, os, driver, worker, guard, hist, world, run_
<1>. QED
  BY <1>1, <1>2, <1>3, <1>4, <1>5, <1>6, <1>7, <1>8, <1>9, <1>10, <1>11, <1>12, <1>13, <1>14, <1>15, <1>16, <1>17, <1>18, <1>19, <1>20, <1>21, <1>22, <1>23, <1>24, <1>25, <1>26, <1>27, <1>28, <1>29, <1>30, <1>31, <1>32, <1>33, <1>34, <1>35, <1>36, <1>37, <1>38, <1>39, <1>40, <1>41, <1>42, <1>43, <1>44, <1>45, <1>46, <1>47
  DEF Next, DriverSteps, GuardianSteps, WorkerSteps, RestoreSteps, Accidents, Procs, Restorers

\* The channel of a write that was just issued is on record.
LEMMA WrittenIsRecorded ==
  ASSUME Kept', Queueing', Closing', Restoration', NEW p \in Procs, NEW c, Writes(p, c)
  PROVE  Recorded(c)'
<1>1. to'[p] # NoOp /\ to'[p].ch = c /\ Works(p)'
  BY DEF Writes, Queueing
<1>2. CASE p = "worker"
  <2>1. wpc' \in Running
    BY <1>1, <1>2 DEF Works
  <2>2. c \in touched' /\ touched' \subseteq DOMAIN state'.chans
    BY <1>1, <1>2, <2>1 DEF Closing
  <2>3. wrote' /\ Open(file)'
    BY <2>1, <2>2 DEF Kept
  <2>4. DOMAIN state'.chans \subseteq DOMAIN file'.chans \cup unlogged'
    BY <2>1, <2>3 DEF Closing
  <2>. QED
    BY <2>2, <2>3, <2>4 DEF Recorded
<1>3. CASE p # "worker"
  <2>1. p \in Restorers /\ At(p)' = "restoring"
    BY <1>1, <1>3 DEF Works, Procs, Restorers
  <2>2. JobOf(p)'
    BY <2>1 DEF Restoration
  <2>3. c \in DOMAIN job'[p].from.chans
    BY <1>1, <2>2 DEF JobOf
  <2>4. CASE job'[p].sp
    <3>1. Open(file)' /\ file' = job'[p].from
      BY <2>1, <2>4 DEF Kept
    <3>. QED
      BY <2>3, <3>1 DEF Recorded
  <2>5. CASE ~job'[p].sp
    BY <2>2, <2>3, <2>5 DEF JobOf, Recorded
  <2>. QED
    BY <2>4, <2>5
<1>. QED
  BY <1>2, <1>3

\* Every step keeps the record complete, whoever dies and whatever fails.
LEMMA RecordingStep ==
  IInv /\ [Next]_vars /\ Driver' /\ Kept' /\ Queueing' /\ Closing' /\ Restoration' => Recording'
<1>. SUFFICES ASSUME IInv, [Next]_vars, Driver', Kept', Queueing', Closing', Restoration'
              PROVE  Recording'
  OBVIOUS
<1>1. ASSUME NEW c \in Channels, Busy(c)'
      PROVE  Recorded(c)'
  <2>1. CASE FangovLocks /\ lock = "free"
    <3>1. queue' = <<>> /\ chan'[c] = "gov"
      BY <2>1 DEF FangovLocks
    <3>. QED
      BY <1>1, <3>1 DEF Busy, OffDuty
  <2>2. CASE FangovStops
    <3>1. chan'[c] \in RestoreValues /\ UNCHANGED <<queue, file, byHand, unlogged>>
      BY <2>2, RestoreType DEF FangovStops, hist
    <3>2. Busy(c)
      BY <1>1, <3>1 DEF Busy, OffDuty, RestoreValues
    <3>3. Recorded(c)
      BY <3>2 DEF Busy, IInv, Recording
    <3>. QED
      BY <3>1, <3>3 DEF Recorded, Open
  <2>3. CASE ~(FangovLocks /\ lock = "free") /\ ~FangovStops
    <3>1. FangovLocks \/ FangovStops => lock \in {"run", "restore"}
      BY <2>3 DEF FangovLocks, IInv, Locking
    <3>2. Spares(c) \/ \E p \in Procs : Writes(p, c)
      BY <3>1, Sparing DEF IInv
    <3>3. CASE \E p \in Procs : Writes(p, c)
      BY <3>3, WrittenIsRecorded
    <3>4. CASE Spares(c)
      <4>1. Busy(c)
        BY <1>1, <3>4 DEF Spares, Busy, OffDuty
      <4>2. Recorded(c)
        BY <4>1 DEF Busy, IInv, Recording
      <4>. QED
        BY <4>1, <4>2, StaysRecorded DEF IInv
    <3>. QED
      BY <3>2, <3>3, <3>4
  <2>. QED
    BY <2>1, <2>2, <2>3
<1>2. \A c \in Channels : OffDuty(chan'[c]) => Recorded(c)'
  BY <1>1 DEF Busy
<1>3. \A i \in 1..Len(queue') : Recorded(queue[i].ch)'
  <2>. SUFFICES ASSUME NEW i \in 1..Len(queue')
                PROVE  Recorded(queue[i].ch)'
    OBVIOUS
  <2>1. queue'[i] \in Requests
    BY DEF Driver
  <2>2. queue'[i].ch \in Channels
    BY <2>1 DEF Requests
  <2>3. \A c \in Channels : c = queue'[i].ch => Recorded(c)'
    BY <1>1 DEF Busy
  <2>. QED
    BY <2>2, <2>3 DEF Recorded
<1>. QED
  BY <1>2, <1>3 DEF Recording

-----------------------------------------------------------------------------
(* The theorems.                                                           *)

\* A start of the host, with or without the file of an earlier run.
LEMMA InitIsFine ==
  Init => IInv
<1>. SUFFICES ASSUME Init
              PROVE  IInv
  OBVIOUS
<1>1. Restore \in [Channels -> RestoreValues]
  BY RestoreType DEF Restore
<1>2. Min1(Channels) \in Channels
  BY Least, GuardianAssumption DEF GuardianAssumption
<1>3. MaxFaults \in Nat /\ MaxRuns \in Nat
  BY GuardianAssumption DEF GuardianAssumption
<1>4. PCIeChannel \in Channels => OldFile \in StateFiles
  <2>. SUFFICES ASSUME PCIeChannel \in Channels
                PROVE  OldFile \in StateFiles
    OBVIOUS
  <2>. DEFINE h == [c \in {PCIeChannel} |-> "auto"]
  <2>1. h \in [{PCIeChannel} -> {"auto", "full", "stop"}] /\ {PCIeChannel} \in SUBSET Channels
    OBVIOUS
  <2>2. h \in UNION {[S -> {"auto", "full", "stop"}] : S \in SUBSET Channels}
    BY <2>1
  <2>. HIDE DEF h
  <2>3. [st |-> "active", run |-> 0, dev |-> 0, chans |-> h] \in StateFiles
    BY <1>3, <2>2 DEF StateFiles
  <2>. QED
    BY <2>3 DEF OldFile, h
<1>5. Control
  <2>1. raised \in BOOLEAN /\ wrote \in BOOLEAN /\ manual \in BOOLEAN
    BY DEF Init
  <2>2. faults \in [n : 0..MaxFaults, hard : BOOLEAN] /\ faults.n = 0
    BY <1>3 DEF Init
  <2>3. /\ run = 0 /\ dev = 0 /\ rc = 0 /\ pass = 1 /\ hot = 0 /\ touched = {} /\ todo = {}
        /\ gpc = "off" /\ wpc = "off" /\ rpc = "off" /\ gch \in Channels
        /\ byHand = {} /\ unlogged = {}
    BY <1>2 DEF Init
  <2>. QED
    BY <1>3, <2>1, <2>2, <2>3 DEF Control, Running, LastPass
<1>6. Files
  BY <1>4 DEF Init, Files, Running, Restorers, At
<1>7. Driver
  <2>1. chan \in [Channels -> ChanValues]
    BY <1>1 DEF Init, ChanValues
  <2>2. queue \in Seq(Requests)
    BY DEF Init
  <2>. QED
    BY <2>1, <2>2 DEF Init, Driver
<1>8. Locking /\ Kept /\ Closing /\ Settling /\ Restoration
  BY DEF Init, Locking, Kept, Closing, Settling, Restoration, Running, Restorers, At, NoFile, OldFile
<1>9. Queueing
  BY DEF Init, Queueing
<1>10. Recording
  <2>1. Len(queue) = 0
    BY DEF Init
  <2>2. CASE chan = Restore
    BY <1>1, <2>1, <2>2 DEF Recording, OffDuty, RestoreValues
  <2>3. CASE PCIeChannel \in Channels /\ file = OldFile /\ chan = [Restore EXCEPT ![PCIeChannel] = "test"]
    <3>1. Open(file) /\ PCIeChannel \in DOMAIN file.chans
      BY <2>3 DEF Open, OldFile
    <3>2. \A c \in Channels \ {PCIeChannel} : ~OffDuty(chan[c])
      BY <1>1, <2>3 DEF OffDuty, RestoreValues
    <3>. QED
      BY <2>1, <3>1, <3>2 DEF Recording, Recorded
  <2>. QED
    BY <2>2, <2>3 DEF Init
<1>. QED
  BY <1>5, <1>6, <1>7, <1>8, <1>9, <1>10 DEF IInv

\* Every step keeps the invariant.
LEMMA IInvStep ==
  IInv /\ [Next]_vars => IInv'
<1>. SUFFICES ASSUME IInv, [Next]_vars
              PROVE  IInv'
  OBVIOUS
<1>1. Control' /\ Files' /\ Locking' /\ Kept'
  BY ControlStep, FilesStep, LockingStep, KeptStep DEF IInv
<1>2. Driver' /\ Queueing' /\ Closing' /\ Restoration'
  BY DriverStep, QueueingStep, ClosingStep, RestorationStep DEF IInv
<1>3. Settling' /\ Recording'
  BY <1>1, <1>2, SettlingStep, RecordingStep DEF IInv
<1>. QED
  BY <1>1, <1>2, <1>3 DEF IInv

\* The invariant behind everything below: who has the lock, whose the requests in the
\* driver are, which file is a process's own, and what is on record.
THEOREM Invariance ==
  Spec => []IInv
<1>. QED
  BY InitIsFine, IInvStep, PTL DEF Spec

\* The variables keep their types, and a process has at most one write it waits for:
\* the driver serves its callers in turn, and a caller that gave up is not answered.
THEOREM TypeCorrect ==
  Spec => []TypeOK
<1>1. IInv => TypeOK
  <2>. SUFFICES ASSUME IInv
                PROVE  TypeOK
    OBVIOUS
  <2>1. dev \in 0..MaxFaults
    BY GuardianAssumption DEF IInv, Control, GuardianAssumption
  <2>2. queue \in Seq(Requests) /\ DOMAIN queue = 1..Len(queue) /\ Len(queue) \in Nat
    BY DEF IInv, Driver
  <2>3. ASSUME NEW i \in 1..Len(queue)
        PROVE  /\ queue[i].who \in Procs /\ queue[i].ch \in Channels
               /\ queue[i].live <=> (/\ res[queue[i].who] = "wait"
                                     /\ \A j \in 1..Len(queue) : queue[j].who = queue[i].who => j <= i)
    <3>1. queue[i] \in Requests
      BY <2>2
    <3>2. queue[i].who \in Procs /\ queue[i].ch \in Channels /\ queue[i].live \in BOOLEAN
      BY <3>1 DEF Requests
    <3>3. queue[i].live => i = Len(queue) /\ res[queue[i].who] = "wait"
      BY DEF IInv, Queueing
    <3>4. res[queue[i].who] = "wait" =>
            queue[Len(queue)].live /\ queue[Len(queue)].who = queue[i].who
      BY <3>2 DEF IInv, Queueing
    <3>5. ASSUME res[queue[i].who] = "wait",
                 \A j \in 1..Len(queue) : queue[j].who = queue[i].who => j <= i
          PROVE  queue[i].live
      <4>1. i \in Int /\ Len(queue) \in Int /\ i <= Len(queue) /\ Len(queue) \in 1..Len(queue)
        BY <2>2
      <4>2. Len(queue) <= i
        BY <3>4, <3>5, <4>1
      <4>3. i = Len(queue)
        BY <4>1, <4>2
      <4>. QED
        BY <3>4, <3>5, <4>3
    <3>6. queue[i].live => \A j \in 1..Len(queue) : queue[j].who = queue[i].who => j <= i
      BY <2>2, <3>3
    <3>. QED
      BY <3>2, <3>3, <3>5, <3>6
  <2>. QED
    BY <2>1, <2>2, <2>3 DEF IInv, Control, Files, Driver, Locking, Running, TypeOK
<1>. QED
  BY <1>1, Invariance, PTL

\* The worker, a restoring guardian, `n5-ectest restore` and n5-fangov never write at
\* the same time, whichever of them dies while the lock is handed on.
THEOREM NeverTwoWriters ==
  Spec => []OneWriter
<1>1. IInv => OneWriter
  BY DEF IInv, Locking, OneWriter, Writers, At
<1>. QED
  BY <1>1, Invariance, PTL

\* A channel that a test or a failed command left off its value is in the open state
\* file, whoever is killed and whatever fails.
THEOREM NothingIsForgotten ==
  Spec => []OffDutyIsRecorded
<1>1. IInv => OffDutyIsRecorded
  BY DEF IInv, Recording, Recorded, Records, Open, OffDutyIsRecorded
<1>. QED
  BY <1>1, Invariance, PTL

\* The PCIe channel is put to 255, whatever the command line and the configuration say.
LEMMA RestorePCIe ==
  PCIeChannel \in Channels => Restore[PCIeChannel] = "full"
BY GuardianAssumption
DEF GuardianAssumption, Restore, ResolveRestore, Usable, ParseRestoreArg, PCIeChannel

\* What a step does to an open state file that it changes.
Done(c) == Settled(c, FileValue(file, c)')

\* An open file stays that of its run, and is marked restored only when all is settled.
LEMMA OpenFileChanges ==
  IInv /\ [Next]_vars /\ Open(file) /\ file' # file =>
    /\ file'.run = file.run /\ file'.st \in {"active", "restored", "discarded"}
    /\ file'.st = "restored" => \A c \in DOMAIN file'.chans : Done(c)
<1>. SUFFICES ASSUME IInv, [Next]_vars, Open(file), file' # file
              PROVE  /\ file'.run = file.run /\ file'.st \in {"active", "restored", "discarded"}
                     /\ file'.st = "restored" => \A c \in DOMAIN file'.chans : Done(c)
  OBVIOUS
<1>1. IInv /\ Open(file) /\ file' # file
  OBVIOUS
<1>2. CASE DriverServes
  BY <1>1, <1>2 DEF DriverServes, Answer, vars, os, driver, worker, guard, hist, world, run_
<1>3. CASE DriverFails
  BY <1>1, <1>3 DEF DriverFails, Answer, Fault, vars, os, driver, worker, guard, hist, world, run_
<1>4. CASE \E c \in Channels : GuardianLocks(c)
  BY <1>1, <1>4 DEF GuardianLocks, vars, os, driver, worker, guard, hist, world, run_
<1>5. CASE GuardianReads
  BY <1>1, <1>5 DEF GuardianReads
<1>6. CASE StartWorker
  BY <1>1, <1>6 DEF StartWorker, vars, os, driver, worker, guard, hist, world, run_
<1>7. CASE WorkerGone
  BY <1>1, <1>7 DEF WorkerGone, Restoring, vars, os, driver, worker, guard, hist, world, run_
<1>8. CASE GuardianDead
  BY <1>1, <1>8 DEF GuardianDead, run_, vars, os, driver, worker, guard, hist, world, run_
<1>9. CASE \E p \in Procs : SetDuty(p)
  BY <1>1, <1>9 DEF SetDuty, vars, os, driver, worker, guard, hist, world, run_
<1>10. CASE \E p \in Restorers : RestoreNext(p)
  BY <1>1, <1>10 DEF RestoreNext, Restorers, vars, os, driver, worker, guard, hist, world, run_
<1>11. CASE \E p \in Restorers : RestoreAnswered(p)
  BY <1>1, <1>11 DEF RestoreAnswered, OpEnds, Restorers, vars, os, driver, worker, guard, hist, world, run_
<1>12. CASE \E p \in Restorers : RestoreEnds(p)
  <2>1. PICK p \in Restorers : RestoreEnds(p)
    BY <1>12
  <2>2. At(p) = "restoring" /\ job[p].todo = {} /\ job[p].ok /\ job[p].sp
    BY <1>1, <2>1 DEF RestoreEnds
  <2>3. /\ job[p].from = file /\ job[p].from \in StateFiles
        /\ \A x \in DOMAIN file.chans : Settled(x, FileValue(file, x))
    BY <2>2 DEF IInv, Kept, Restoration, JobOf, Files, Jobs
  <2>4. file' = [file EXCEPT !.st = "restored"]
    BY <1>1, <2>1, <2>2, <2>3 DEF RestoreEnds, WriteFile
  <2>5. file'.st = "restored" /\ file'.run = file.run /\ file'.chans = file.chans
    BY <2>3, <2>4, FileMarked
  <2>. QED
    BY <2>3, <2>5 DEF Done, FileValue
<1>13. CASE WorkerAdopts
  BY <1>1, <1>13 DEF WorkerAdopts, world, run_, vars, os, driver, worker, guard, hist, world, run_
<1>14. CASE WorkerRefused
  BY <1>1, <1>14 DEF WorkerRefused, world, run_, vars, os, driver, worker, guard, hist, world, run_
<1>15. CASE WorkerStarts
  BY <1>1, <1>15 DEF WorkerStarts, world, vars, os, driver, worker, guard, hist, world, run_
<1>16. CASE SampleGood
  BY <1>1, <1>16 DEF SampleGood, world, run_, vars, os, driver, worker, guard, hist, world, run_
<1>17. CASE \E h \in {0} \cup HotChannels : Aborts(h)
  BY <1>1, <1>17 DEF Aborts, world, vars, os, driver, worker, guard, hist, world, run_
<1>18. CASE FirstWrite
  <2>1. ~Open(file)
    BY <1>18 DEF FirstWrite, Kept, Running, IInv
  <2>. QED
    BY <1>1, <2>1
<1>19. CASE TestAuto
  BY <1>1, <1>19 DEF TestAuto, world, vars, os, driver, worker, guard, hist, world, run_
<1>20. CASE TestDuty
  BY <1>1, <1>20 DEF TestDuty, world, vars, os, driver, worker, guard, hist, world, run_
<1>21. CASE TestNextDuty
  BY <1>1, <1>21 DEF TestNextDuty, world, vars, os, driver, worker, guard, hist, world, run_
<1>22. CASE TestAnswered
  BY <1>1, <1>22 DEF TestAnswered, OpEnds, vars, os, driver, worker, guard, hist, world, run_
<1>23. CASE CloseNext
  BY <1>1, <1>23 DEF CloseNext, world, run_, vars, os, driver, worker, guard, hist, world, run_
<1>24. CASE CloseHot
  <2>. DEFINE k == Min1(todo)
              g == Hot(state, k)
  <2>1. k \in Channels /\ state \in StateFiles /\ state.st = "active" /\ wpc = "closing"
    BY <1>24, NextOfClose DEF CloseHot, Files, Running, IInv
  <2>2. file' = g
    BY <1>1, <1>24 DEF CloseHot, BeforeHot
  <2>3. g.st = "active" /\ g.run = state.run
    BY <2>1, FileHot
  <2>4. file.run = state.run
    BY <1>1, <2>1 DEF Kept, Running, IInv
  <2>. HIDE DEF g, k
  <2>. QED
    BY <2>2, <2>3, <2>4
<1>25. CASE Raise
  BY <1>1, <1>25 DEF Raise, world, run_, vars, os, driver, worker, guard, hist, world, run_
<1>26. CASE CloseAnswered
  BY <1>1, <1>26 DEF CloseAnswered, OpEnds, vars, os, driver, worker, guard, hist, world, run_
<1>27. CASE NextClose
  BY <1>1, <1>27 DEF NextClose, Owed, HotChannel, LastPass, vars, os, driver, worker, guard, hist, world, run_
<1>28. CASE Mark
  <2>1. /\ wpc = "closing" /\ state \in StateFiles /\ wrote /\ file.run = state.run
    BY <1>1, <1>28 DEF Mark, Files, Running, Kept, IInv
  <2>2. touched = {} /\ file' = [state EXCEPT !.st = "restored"]
    BY <1>1, <1>28 DEF Mark, WriteFile
  <2>3. file'.st = "restored" /\ file'.run = state.run /\ file'.chans = state.chans
    BY <2>1, <2>2, FileMarked
  <2>4. \A x \in DOMAIN state.chans : Settled(x, state.chans[x])
    BY <2>1, <2>2 DEF Settling, IInv
  <2>5. PCIeChannel \in DOMAIN state.chans => state.chans[PCIeChannel] = "full"
    <3>1. PCIeChannel # HotChannel
      BY DEF HotChannel, HotChannels, PCIeChannel, IInv, Control
    <3>2. DOMAIN state.chans \subseteq Channels
      BY <2>1, FileParts
    <3>. QED
      BY <2>1, <3>1, <3>2, RestorePCIe DEF IInv, Closing, Running
  <2>6. \A x \in DOMAIN state.chans : Settled(x, FileValue(state, x))
    BY <2>4, <2>5 DEF FileValue
  <2>. QED
    BY <2>1, <2>3, <2>6 DEF Done, FileValue
<1>29. CASE WorkerReaped
  BY <1>1, <1>29 DEF WorkerReaped, run_, vars, os, driver, worker, guard, hist, world, run_
<1>30. CASE TestDone
  BY <1>1, <1>30 DEF TestDone, world, vars, os, driver, worker, guard, hist, world, run_
<1>31. CASE RestoreLocks
  BY <1>1, <1>31 DEF RestoreLocks, vars, os, driver, worker, guard, hist, world, run_
<1>32. CASE RestoreFromRun
  BY <1>1, <1>32 DEF RestoreFromRun, Restoring, vars, os, driver, worker, guard, hist, world, run_
<1>33. CASE RestoreFromBundle
  BY <1>1, <1>33 DEF RestoreFromBundle, Restoring, vars, os, driver, worker, guard, hist, world, run_
<1>34. CASE NothingToRestore
  BY <1>1, <1>34 DEF NothingToRestore, vars, os, driver, worker, guard, hist, world, run_
<1>35. CASE Discard
  <2>1. file \in StateFiles
    BY <1>1 DEF Files, NoFile, Open, IInv
  <2>2. file' = [file EXCEPT !.st = "discarded"]
    BY <1>35 DEF Discard
  <2>. QED
    BY <2>1, <2>2, FileMarked
<1>36. CASE RestoreDead
  BY <1>1, <1>36 DEF RestoreDead, vars, os, driver, worker, guard, hist, world, run_
<1>37. CASE \E p \in Procs : WriteTimesOut(p)
  BY <1>1, <1>37 DEF WriteTimesOut, Fault, vars, os, driver, worker, guard, hist, world, run_
<1>38. CASE KillWorker
  BY <1>1, <1>38 DEF KillWorker, WorkerAlive, Dies, Fault, vars, os, driver, worker, guard, hist, world, run_
<1>39. CASE KillGuardian
  BY <1>1, <1>39 DEF KillGuardian, Dies, Fault, vars, os, driver, worker, guard, hist, world, run_
<1>40. CASE KillRestore
  BY <1>1, <1>40 DEF KillRestore, Dies, Fault, vars, os, driver, worker, guard, hist, world, run_
<1>41. CASE Panics
  BY <1>1, <1>41 DEF Panics, Fault, Owed, HotChannel, LastPass, world, vars, os, driver, worker, guard, hist, world, run_
<1>42. CASE \E o \in BOOLEAN : ReloadModule(o)
  BY <1>1, <1>42 DEF ReloadModule, Fault, vars, os, driver, worker, guard, hist, world, run_
<1>43. CASE GuardianBegins
  BY <1>1, <1>43 DEF GuardianBegins, vars, os, driver, worker, guard, hist, world, run_
<1>44. CASE RestoreBegins
  BY <1>1, <1>44 DEF RestoreBegins, vars, os, driver, worker, guard, hist, world, run_
<1>45. CASE FangovStarts
  BY <1>1, <1>45 DEF FangovStarts, vars, os, driver, worker, guard, hist, world, run_
<1>46. CASE FangovLocks
  BY <1>1, <1>46 DEF FangovLocks, vars, os, driver, worker, guard, hist, world, run_
<1>47. CASE FangovStops
  BY <1>1, <1>47 DEF FangovStops, vars, os, driver, worker, guard, hist, world, run_
<1>48. CASE UNCHANGED vars
  BY <1>1, <1>48 DEF vars, os, driver, worker, guard, hist, world, run_
<1>. QED
  BY <1>2, <1>3, <1>4, <1>5, <1>6, <1>7, <1>8, <1>9, <1>10, <1>11, <1>12, <1>13, <1>14, <1>15, <1>16, <1>17, <1>18, <1>19, <1>20, <1>21, <1>22, <1>23, <1>24, <1>25, <1>26, <1>27, <1>28, <1>29, <1>30, <1>31, <1>32, <1>33, <1>34, <1>35, <1>36, <1>37, <1>38, <1>39, <1>40, <1>41, <1>42, <1>43, <1>44, <1>45, <1>46, <1>47, <1>48
  DEF Next, DriverSteps, GuardianSteps, WorkerSteps, RestoreSteps, Accidents, Procs, Restorers

\* The open state file of a run is never removed, nor replaced by another run's.
THEOREM FileIsKept ==
  Spec => OpenFileKept
<1>1. IInv /\ [Next]_vars => [Open(file) /\ file' # file => file'.st # "none" /\ file'.run = file.run]_vars
  BY OpenFileChanges
<1>. QED
  BY <1>1, Invariance, PTL DEF Spec, OpenFileKept

\* A state file is marked restored only when every channel in it has its value, and no
\* write that was given up is still on its way to it.
THEOREM MarkIsEarned ==
  Spec => MarkIsTrue
<1>1. IInv /\ [Next]_vars =>
        [Open(file) /\ file'.st = "restored" =>
           \A c \in DOMAIN file'.chans :
             /\ chan[c] \in {"handed", IF c = PCIeChannel THEN "full" ELSE file'.chans[c]}
             /\ \A i \in DOMAIN queue : queue[i].ch # c]_vars
  <2>. SUFFICES ASSUME IInv, [Next]_vars, Open(file), file'.st = "restored",
                       NEW c \in DOMAIN file'.chans
                PROVE  /\ chan[c] \in {"handed", IF c = PCIeChannel THEN "full" ELSE file'.chans[c]}
                       /\ \A i \in DOMAIN queue : queue[i].ch # c
    OBVIOUS
  <2>1. file' # file
    BY DEF Open
  <2>2. Done(c)
    BY <2>1, OpenFileChanges
  <2>3. DOMAIN queue = 1..Len(queue)
    BY DEF IInv, Driver
  <2>. QED
    BY <2>2, <2>3 DEF Done, Settled, FileValue
<1>. QED
  BY <1>1, Invariance, PTL DEF Spec, MarkIsTrue
=============================================================================
